-------------------------- MODULE AuthHandlerProofs --------------------------
(***************************************************************************)
(* Proofs about AuthHandler for any set of clients, identities and         *)
(* callback requests, any queue capacity and any faults: its types;        *)
(* OneOwner; DecidedOnce, OpenVPN is never handed both client-auth and     *)
(* client-deny for one CONNECT; that the handler uses its session store as *)
(* SessionStore says; and what the handler remembers of its clients        *)
(* (AttemptIndexExact, ActiveIsReal and TrackingOutlivesClient).           *)
(*                                                                         *)
(* Two facts make DecidedOnce inductive.  The right to answer a session is *)
(* a claim that one goroutine at a time holds, on a session that is not    *)
(* pending and not yet answered (ClaimInv).  And nobody has touched a      *)
(* session before the event loop handles the CONNECT of its CID            *)
(* (FreshInv), so that the loop may open the session as pending, or deny   *)
(* it, without asking anybody.                                             *)
(*                                                                         *)
(* The facts about the indexes are inductive only together with what the   *)
(* goroutines believe while they act: the CID of an establishCID call and  *)
(* the one a status row was read for are in the state the caller saw, or   *)
(* further on (FrameInv, SnapInv), and the in-flight mark comes back on no *)
(* CID that anybody has started to follow (CancelInv, NewInv).             *)
(***************************************************************************)
EXTENDS AuthHandler, TLAPS

\* What TypeOK needs to be inductive: a goroutine that is in the middle of a
\* call knows the CID the call is about.
KnowsItsCids ==
    /\ lpc # "idle" => events # <<>>
    /\ lpc \in {"superseded", "status"} => lold \in Cids
    /\ \A a \in Actors : est[a].pc # "none" => est[a].cid \in Cids
    /\ \A a \in Actors :
          est[a].pc \in {"kill", "killwait", "status"} => est[a].old \in Cids
    /\ \A r \in Reqs :
          rpc[r] \in {"verify", "deny", "ackwait", "markdone"}
              => rsid[r] \in Cids

TypeInv == TypeOK /\ KnowsItsCids

-----------------------------------------------------------------------------
(* The operators shared by several goroutines keep the types. *)

LEMMA SendType ==
    ASSUME TypeOK, NEW type \in CmdTypes, NEW c \in Cids,
           NEW from \in Waiters \cup {None}, Send(type, c, from)
    PROVE  cmds' \in Seq(Cmds)
BY DEF TypeOK, Send, Cmds

LEMMA AbandonType ==
    ASSUME TypeOK, NEW a, Abandon(a)
    PROVE  cmds' \in Seq(Cmds)
<1>1. ASSUME NEW i \in DOMAIN cmds
      PROVE  cmds'[i] \in Cmds
  <2>1. cmds[i] \in Cmds
    BY DEF TypeOK
  <2>2. [cmds[i] EXCEPT !.from = None] \in Cmds
    BY <2>1 DEF Cmds
  <2>. QED BY <2>1, <2>2 DEF Abandon
<1>2. DOMAIN cmds = 1 .. Len(cmds) /\ Len(cmds) \in Nat
  BY DEF TypeOK
<1>. QED BY <1>1, <1>2 DEF Abandon

LEMMA AckFailsType ==
    ASSUME TypeOK, NEW a \in Waiters, AckFails(a)
    PROVE  cmds' \in Seq(Cmds) /\ ack' \in [Waiters -> {"none", "ok", "err"}]
BY AbandonType, Zenon DEF TypeOK, AckFails, AckIs

LEMMA ForgetType ==
    ASSUME NEW index \in [Identities -> OptCid], NEW c \in Cids
    PROVE  Forget(index, c) \in [Identities -> OptCid]
BY ConstantsAssumption, Zenon DEF Forget, OptCid, ConstantsAssumption

LEMMA CancelTimeoutType ==
    ASSUME TypeOK, NEW c
    PROVE  CancelTimeout(c) \in [Cids -> TimeoutPcs]
BY Zenon DEF TypeOK, CancelTimeout, TimeoutPcs

LEMMA StopExpiryType ==
    ASSUME TypeOK, NEW c
    PROVE  StopExpiry(c) \in [Cids -> ExpiryPcs]
BY Zenon DEF TypeOK, StopExpiry, ExpiryPcs

LEMMA HandleDisconnectType ==
    ASSUME TypeOK, NEW c \in Cids, HandleDisconnect(c)
    PROVE  /\ cids' \in [Cids -> SUBSET Flags]
           /\ attempt' \in [Identities -> OptCid]
           /\ active' \in [Identities -> OptCid]
           /\ dctx' \subseteq Cids
           /\ xpc' \in [Cids -> ExpiryPcs]
           /\ tpc' \in [Cids -> TimeoutPcs]
           /\ sess' \in [Cids -> SessionStates]
<1>1. CASE cids[c] = {}
  BY <1>1 DEF TypeOK, HandleDisconnect
<1>2. CASE cids[c] # {}
  <2>1. cids' \in [Cids -> SUBSET Flags] /\ dctx' \subseteq Cids
    BY <1>2, Zenon DEF TypeOK, HandleDisconnect
  <2>2. /\ attempt' \in [Identities -> OptCid]
        /\ active' \in [Identities -> OptCid]
    <3>1. /\ Forget(attempt, c) \in [Identities -> OptCid]
          /\ Forget(active, c) \in [Identities -> OptCid]
      BY ForgetType, Zenon DEF TypeOK
    <3>. QED BY <1>2, <3>1 DEF HandleDisconnect
  <2>3. xpc' \in [Cids -> ExpiryPcs] /\ tpc' \in [Cids -> TimeoutPcs]
    BY <1>2, CancelTimeoutType, StopExpiryType DEF TypeOK, HandleDisconnect
  <2>4. sess' \in [Cids -> SessionStates]
    BY <1>2, Zenon DEF TypeOK, HandleDisconnect, SessionStates
  <2>. QED BY <2>1, <2>2, <2>3, <2>4
<1>. QED BY <1>1, <1>2

LEMMA PromoteSessionType ==
    ASSUME TypeOK, NEW c \in Cids, PromoteSession(c)
    PROVE  /\ cids' \in [Cids -> SUBSET Flags]
           /\ dctx' \subseteq Cids
           /\ dpc' \in [Cids -> DeadlinePcs]
           /\ tpc' \in [Cids -> TimeoutPcs]
           /\ sess' \in [Cids -> SessionStates]
<1>1. CASE "cancel" \notin cids[c]
  BY <1>1 DEF TypeOK, PromoteSession
<1>2. CASE "cancel" \in cids[c]
  <2>1. cids' \in [Cids -> SUBSET Flags] /\ dctx' \subseteq Cids
    <3>1. (cids[c] \ {"cancel"}) \cup {"promoted"} \in SUBSET Flags
      BY DEF TypeOK, Flags
    <3>2. /\ cids' = [cids EXCEPT ![c] = (cids[c] \ {"cancel"}) \cup {"promoted"}]
          /\ dctx' = dctx \cup {c}
      BY <1>2, Zenon DEF PromoteSession
    <3>3. cids \in [Cids -> SUBSET Flags] /\ dctx \subseteq Cids
      BY Zenon DEF TypeOK
    <3>. HIDE DEF TypeOK, PromoteSession
    <3>. QED BY <3>1, <3>2, <3>3, Zenon
  <2>2. dpc' \in [Cids -> DeadlinePcs]
    BY <1>2, Zenon DEF TypeOK, PromoteSession, DeadlinePcs
  <2>3. tpc' \in [Cids -> TimeoutPcs]
    BY <1>2, CancelTimeoutType DEF PromoteSession
  <2>4. sess' \in [Cids -> SessionStates]
    BY <1>2, Zenon DEF TypeOK, PromoteSession, SessionStates
  <2>. QED BY <2>1, <2>2, <2>3, <2>4
<1>. QED BY <1>1, <1>2

LEMMA CleanupPromotedType ==
    ASSUME TypeOK, NEW c \in Cids, CleanupPromoted(c)
    PROVE  /\ cids' \in [Cids -> SUBSET Flags]
           /\ attempt' \in [Identities -> OptCid]
           /\ dctx' \subseteq Cids
<1>1. CASE "promoted" \notin cids[c]
  BY <1>1 DEF TypeOK, CleanupPromoted
<1>2. CASE "promoted" \in cids[c]
  <2>1. cids' \in [Cids -> SUBSET Flags] /\ dctx' \subseteq Cids
    BY <1>2, Zenon DEF TypeOK, CleanupPromoted
  <2>2. attempt' \in [Identities -> OptCid]
    <3>1. Forget(attempt, c) \in [Identities -> OptCid]
      BY ForgetType, Zenon DEF TypeOK
    <3>. QED BY <1>2, <3>1 DEF CleanupPromoted
  <2>. QED BY <2>1, <2>2
<1>. QED BY <1>1, <1>2

LEMMA MarkType ==
    ASSUME TypeOK, NEW c, NEW status \in SessionStates, Mark(c, status)
    PROVE  sess' \in [Cids -> SessionStates]
BY Zenon DEF TypeOK, Mark, SessionStates

\* The event the loop works on.
LEMMA LcidType ==
    ASSUME TypeOK, events # <<>>
    PROVE  /\ lcid \in Cids
           /\ Tail(events) \in Seq(Events)
           /\ Existing \in OptCid
<1>1. Head(events) \in Events /\ Tail(events) \in Seq(Events)
  BY DEF TypeOK
<1>2. lcid \in Cids
  BY <1>1 DEF lcid, Events
<1>. QED BY <1>1, <1>2, ConstantsAssumption
         DEF TypeOK, Existing, Identity, ConstantsAssumption

-----------------------------------------------------------------------------
(* Every step keeps the type invariant. *)

\* OpenVPN.
LEMMA VpnTypeInv ==
    ASSUME TypeInv, NEW c \in Cids,
           VpnConnect(c) \/ VpnEstablish(c) \/ VpnLeave(c)
    PROVE  TypeInv'
<1>1. CASE VpnConnect(c)
  <2>1. events' \in Seq(Events) /\ events' # <<>>
    <3>1. [type |-> "CONNECT", cid |-> c] \in Events
      BY DEF Events, EventTypes
    <3>2. events \in Seq(Events)
      BY DEF TypeInv, TypeOK
    <3>3. events' = Append(events, [type |-> "CONNECT", cid |-> c])
      BY <1>1 DEF VpnConnect
    <3>4. Append(events, [type |-> "CONNECT", cid |-> c]) \in Seq(Events)
      BY <3>1, <3>2
    <3>5. Append(events, [type |-> "CONNECT", cid |-> c]) # <<>>
      BY <3>1, <3>2
    <3>. QED BY <3>3, <3>4, <3>5
  <2>2. vpn' \in [Cids -> VpnStates] /\ closing' \subseteq Cids
    BY <1>1 DEF VpnConnect, TypeInv, TypeOK, VpnStates
  <2>. QED
    BY <1>1, <2>1, <2>2, Zenon
    DEF VpnConnect, TypeInv, TypeOK, KnowsItsCids, daemonVars, loopVars,
        goVars, reqVars
<1>2. CASE VpnEstablish(c)
  <2>1. events' \in Seq(Events) /\ events' # <<>>
    <3>1. [type |-> "ESTABLISHED", cid |-> c] \in Events
      BY DEF Events, EventTypes
    <3>2. events \in Seq(Events)
      BY DEF TypeInv, TypeOK
    <3>3. events' = Append(events, [type |-> "ESTABLISHED", cid |-> c])
      BY <1>2 DEF VpnEstablish
    <3>4. Append(events, [type |-> "ESTABLISHED", cid |-> c]) \in Seq(Events)
      BY <3>1, <3>2
    <3>5. Append(events, [type |-> "ESTABLISHED", cid |-> c]) # <<>>
      BY <3>1, <3>2
    <3>. QED BY <3>3, <3>4, <3>5
  <2>2. vpn' \in [Cids -> VpnStates] /\ closing' \subseteq Cids
    BY <1>2 DEF VpnEstablish, TypeInv, TypeOK, VpnStates
  <2>. QED
    BY <1>2, <2>1, <2>2, Zenon
    DEF VpnEstablish, TypeInv, TypeOK, KnowsItsCids, daemonVars, loopVars,
        goVars, reqVars
<1>3. CASE VpnLeave(c)
  <2>1. events' \in Seq(Events) /\ events' # <<>>
    <3>1. [type |-> "DISCONNECT", cid |-> c] \in Events
      BY DEF Events, EventTypes
    <3>2. events \in Seq(Events)
      BY DEF TypeInv, TypeOK
    <3>3. events' = Append(events, [type |-> "DISCONNECT", cid |-> c])
      BY <1>3 DEF VpnLeave
    <3>4. Append(events, [type |-> "DISCONNECT", cid |-> c]) \in Seq(Events)
      BY <3>1, <3>2
    <3>5. Append(events, [type |-> "DISCONNECT", cid |-> c]) # <<>>
      BY <3>1, <3>2
    <3>. QED BY <3>3, <3>4, <3>5
  <2>2. vpn' \in [Cids -> VpnStates] /\ closing' \subseteq Cids
    BY <1>3 DEF VpnLeave, TypeInv, TypeOK, VpnStates
  <2>. QED
    BY <1>3, <2>1, <2>2, Zenon
    DEF VpnLeave, TypeInv, TypeOK, KnowsItsCids, daemonVars, loopVars, goVars,
        reqVars
<1>. QED BY <1>1, <1>2, <1>3

\* OpenVPN executes a command and the sender gets the response.
LEMMA ExecuteTypeInv ==
    ASSUME TypeInv, Execute
    PROVE  TypeInv'
<1>. DEFINE cmd == Head(cmds)
<1>1. cmd \in Cmds /\ cmds' \in Seq(Cmds)
  BY DEF Execute, TypeInv, TypeOK
<1>2. cmd.cid \in Cids /\ cmd.from \in Waiters \cup {None}
  BY <1>1 DEF Cmds
<1>3. vpn' \in [Cids -> VpnStates]
  BY <1>2 DEF Execute, TypeInv, TypeOK, VpnStates
<1>4. urls' \subseteq Cids /\ closing' \subseteq Cids
  BY <1>2 DEF Execute, TypeInv, TypeOK
<1>5. ack' \in [Waiters -> {"none", "ok", "err"}]
  BY <1>2 DEF Execute, TypeInv, TypeOK
<1>. QED
  BY <1>1, <1>3, <1>4, <1>5, Zenon
  DEF Execute, TypeInv, TypeOK, KnowsItsCids, daemonVars, loopVars, goVars,
      reqVars

\* authTimeout.
LEMMA TimeoutTypeInv ==
    ASSUME TypeInv, NEW c \in Cids, TimeoutNext(c)
    PROVE  TypeInv'
<1>1. CASE TimeoutFires(c)
  BY <1>1, MarkType, Zenon
     DEF TimeoutFires, TypeInv, TypeOK, KnowsItsCids, ovpnVars, loopVars,
         goVars, reqVars, TimeoutGo, TimeoutPcs, SessionStates
<1>2. CASE TimeoutMarksFailed(c)
  BY <1>2, MarkType, Zenon
     DEF TimeoutMarksFailed, TypeInv, TypeOK, KnowsItsCids, ovpnVars,
         loopVars, goVars, reqVars, TimeoutGo, TimeoutPcs, SessionStates
<1>3. CASE TimeoutDenies(c)
  <2>0. c \in Cids
    OBVIOUS
  <2>1. cmds' \in Seq(Cmds)
    <3>1. CASE Send("deny", c, None)
      BY <2>0, <3>1, SendType DEF TypeInv, CmdTypes
    <3>2. CASE Dropped
      BY <3>2 DEF TypeInv, TypeOK, Dropped
    <3>. QED BY <1>3, <3>1, <3>2 DEF TimeoutDenies
  <2>2. decided' \in [Cids -> SUBSET {"allow", "deny"}]
    <3>1. CASE Answered(c, "deny")
      BY <2>0, <3>1 DEF Answered, TypeInv, TypeOK
    <3>2. CASE UNCHANGED decided
      BY <3>2 DEF TypeInv, TypeOK
    <3>. QED BY <1>3, <3>1, <3>2 DEF TimeoutDenies
  <2>. QED
    BY <1>3, <2>1, <2>2, Zenon
    DEF TimeoutDenies, TimeoutGo, TimeoutPcs, TypeInv, TypeOK, KnowsItsCids,
        ovpnVars,
        loopVars, goVars, reqVars
<1>4. CASE TimeoutClears(c)
  BY <1>4, ForgetType, Zenon
     DEF TimeoutClears, TypeInv, TypeOK, KnowsItsCids, ovpnVars, loopVars,
         goVars, reqVars, TimeoutGo, TimeoutPcs, ClearInFlight
<1>. QED BY <1>1, <1>2, <1>3, <1>4 DEF TimeoutNext

\* sessionExpiryTimer and the reaper.
LEMMA ExpiryTypeInv ==
    ASSUME TypeInv, NEW c \in Cids,
           ExpiryNext(c) \/ Reap(c)
    PROVE  TypeInv'
<1>1. CASE ExpiryFires(c)
  BY <1>1, Zenon
     DEF ExpiryFires, TypeInv, TypeOK, KnowsItsCids, ovpnVars, loopVars,
         goVars, reqVars, ExpiryPcs
<1>2. CASE ExpiryKills(c)
  BY <1>2, SendType, Zenon
     DEF ExpiryKills, TypeInv, TypeOK, KnowsItsCids, ovpnVars, loopVars,
         goVars, reqVars, ExpiryPcs, CmdTypes
<1>3. CASE Reap(c)
  BY <1>3, Zenon
     DEF Reap, TypeInv, TypeOK, KnowsItsCids, ovpnVars, loopVars, goVars,
         reqVars, SessionStates
<1>. QED BY <1>1, <1>2, <1>3 DEF ExpiryNext

\* handleCallback.
LEMMA CallbackTypeInv ==
    ASSUME TypeInv, NEW r \in Reqs,
           CallbackStart(r) \/ CallbackNext(r)
    PROVE  TypeInv'
<1>1. CASE CallbackStart(r)
  <2>1. PICK c \in urls : /\ Mark(c, "PROCESSING")
                          /\ rsid' = [rsid EXCEPT ![r] = c]
    BY <1>1, Zenon DEF CallbackStart
  <2>2. sess' \in [Cids -> SessionStates]
    BY <2>1, MarkType DEF TypeInv, SessionStates
  <2>3. rsid' \in [Reqs -> OptCid] /\ rsid'[r] \in Cids
    BY <2>1 DEF TypeInv, TypeOK, OptCid
  <2>4. \A q \in Reqs : q # r => rsid'[q] = rsid[q] /\ rpc'[q] = rpc[q]
    BY <1>1, <2>1 DEF CallbackStart, TypeInv, TypeOK
  <2>. QED
    BY <1>1, <2>2, <2>3, <2>4, Zenon
    DEF CallbackStart, TypeInv, TypeOK, KnowsItsCids, ovpnVars, loopVars,
        goVars, reqVars, RequestPcs
<1>2. CASE CallbackRetryable(r)
  BY <1>2, MarkType, Zenon
     DEF CallbackRetryable, TypeInv, TypeOK, KnowsItsCids, ovpnVars, loopVars,
         goVars, reqVars, RequestGo, RequestPcs, SessionStates
<1>3. CASE CallbackReject(r)
  BY <1>3, MarkType, Zenon
     DEF CallbackReject, TypeInv, TypeOK, KnowsItsCids, ovpnVars, loopVars,
         goVars, reqVars, RequestGo, RequestPcs, SessionStates
<1>4. CASE CallbackDenies(r)
  <2>0. rsid[r] \in Cids
    BY <1>4, Zenon DEF CallbackDenies, TypeInv, KnowsItsCids
  <2>1. cmds' \in Seq(Cmds)
    <3>1. CASE Send("deny", rsid[r], None)
      BY <2>0, <3>1, SendType DEF TypeInv, CmdTypes
    <3>2. CASE Dropped
      BY <3>2 DEF TypeInv, TypeOK, Dropped
    <3>. QED BY <1>4, <3>1, <3>2 DEF CallbackDenies
  <2>2. decided' \in [Cids -> SUBSET {"allow", "deny"}]
    <3>1. CASE Answered(rsid[r], "deny")
      BY <2>0, <3>1 DEF Answered, TypeInv, TypeOK
    <3>2. CASE UNCHANGED decided
      BY <3>2 DEF TypeInv, TypeOK
    <3>. QED BY <1>4, <3>1, <3>2, Zenon DEF CallbackDenies
  <2>. QED
    BY <1>4, <2>1, <2>2, Zenon
    DEF CallbackDenies, RequestGo, RequestPcs, TypeInv, TypeOK, KnowsItsCids,
        ovpnVars,
        loopVars, goVars, reqVars
<1>5. CASE CallbackAllows(r)
  BY <1>5, SendType, Zenon
     DEF CallbackAllows, TypeInv, TypeOK, KnowsItsCids, ovpnVars, loopVars,
         goVars, reqVars, RequestGo, RequestPcs, CmdTypes, Waiters, Answered
<1>6. CASE CallbackAllowDropped(r)
  BY <1>6, MarkType, Zenon
     DEF CallbackAllowDropped, TypeInv, TypeOK, KnowsItsCids, ovpnVars,
         loopVars, goVars, reqVars, RequestGo, RequestPcs, SessionStates,
         Dropped
<1>7. CASE CallbackRefused(r)
  BY <1>7, MarkType, AckFailsType, Zenon
     DEF CallbackRefused, TypeInv, TypeOK, KnowsItsCids, ovpnVars, loopVars,
         goVars, reqVars, RequestGo, RequestPcs, SessionStates, Waiters
<1>8. CASE CallbackMarksAuthenticated(r)
  BY <1>8, PromoteSessionType, Zenon
     DEF CallbackMarksAuthenticated, TypeInv, TypeOK, KnowsItsCids, ovpnVars,
         loopVars, goVars, reqVars, RequestGo, RequestPcs, AckIs
<1>9. CASE CallbackMarksDone(r)
  BY <1>9, MarkType, Zenon
     DEF CallbackMarksDone, TypeInv, TypeOK, KnowsItsCids, ovpnVars, loopVars,
         goVars, reqVars, RequestGo, RequestPcs, SessionStates
<1>. QED BY <1>1, <1>2, <1>3, <1>4, <1>5, <1>6, <1>7, <1>8,
            <1>9 DEF CallbackNext

\* waitForPromotedDeadline.
LEMMA DeadlineTypeInv ==
    ASSUME TypeInv, NEW c \in Cids, DeadlineNext(c)
    PROVE  TypeInv'
<1>1. CASE DeadlineFires(c)
  BY <1>1, Zenon
     DEF DeadlineFires, TypeInv, TypeOK, KnowsItsCids, ovpnVars, loopVars,
         goVars, reqVars, DeadlineGo, DeadlinePcs
<1>2. CASE DeadlineCancelled(c)
  BY <1>2, Zenon
     DEF DeadlineCancelled, TypeInv, TypeOK, KnowsItsCids, ovpnVars, loopVars,
         goVars, reqVars, DeadlineGo, DeadlinePcs
<1>3. CASE DeadlineReconciles(c)
  <2>1. dpc' \in [Cids -> DeadlinePcs] /\ snap' \in [Actors -> Rows]
    BY <1>3, Zenon DEF DeadlineReconciles, DeadlineGo, DeadlinePcs, Used, Rows,
                TypeInv, TypeOK
  <2>2. /\ cids' \in [Cids -> SUBSET Flags]
        /\ attempt' \in [Identities -> OptCid]
        /\ dctx' \subseteq Cids
    BY <1>3, CleanupPromotedType, Zenon DEF DeadlineReconciles, TypeInv, TypeOK
  <2>3. /\ est' \in [Actors -> Frames]
        /\ \A a \in Actors : est'[a].pc # "none" => est'[a].cid \in Cids
        /\ \A a \in Actors :
              est'[a].pc \in {"kill", "killwait", "status"}
                  => est'[a].old \in Cids
    <3>1. CASE CallEstablish(c, c, TRUE)
      BY <3>1, Zenon DEF CallEstablish, Frames, EstPcs, OptCid, Actors, TypeInv,
                  TypeOK, KnowsItsCids
    <3>2. CASE UNCHANGED est
      BY <3>2, Zenon DEF TypeInv, TypeOK, KnowsItsCids
    <3>. QED BY <1>3, <3>1, <3>2, Zenon DEF DeadlineReconciles
  <2>. QED
    BY <1>3, <2>1, <2>2, <2>3, Zenon
    DEF DeadlineReconciles, TypeInv, TypeOK, KnowsItsCids, ovpnVars, loopVars,
        reqVars
<1>4. CASE DeadlineChecks(c)
  BY <1>4, Zenon
     DEF DeadlineChecks, TypeInv, TypeOK, KnowsItsCids, ovpnVars, loopVars,
         goVars, reqVars, DeadlineGo, DeadlinePcs
<1>5. CASE DeadlineKills(c)
  BY <1>5, SendType, Zenon
     DEF DeadlineKills, TypeInv, TypeOK, KnowsItsCids, ovpnVars, loopVars,
         goVars, reqVars, DeadlineGo, DeadlinePcs, CmdTypes, Waiters, Actors
<1>6. CASE DeadlineAcked(c)
  <2>1. c \in Waiters
    BY Zenon DEF Waiters, Actors
  <2>2. ack' \in [Waiters -> {"none", "ok", "err"}] /\ cmds' \in Seq(Cmds)
    <3>1. CASE AckFails(c)
      BY <2>1, <3>1, AckFailsType DEF TypeInv
    <3>2. CASE AckIs(c, "ok") /\ UNCHANGED cmds
      BY <2>1, <3>2, Zenon DEF AckIs, TypeInv, TypeOK
    <3>. QED BY <1>6, <3>1, <3>2, Zenon DEF DeadlineAcked
  <2>3. dpc' \in [Cids -> DeadlinePcs]
    BY <1>6, Zenon DEF DeadlineAcked, DeadlineGo, DeadlinePcs, TypeInv, TypeOK
  <2>. QED
    BY <1>6, <2>2, <2>3, Zenon
    DEF DeadlineAcked, TypeInv, TypeOK, KnowsItsCids, ovpnVars, loopVars,
        reqVars
<1>. QED BY <1>1, <1>2, <1>3, <1>4, <1>5, <1>6 DEF DeadlineNext

\* Status requests.
LEMMA StatusTypeInv ==
    ASSUME TypeInv, NEW a \in Actors, StatusNext(a)
    PROVE  TypeInv'
<1>1. CASE StatusTake(a)
  BY <1>1
     DEF StatusTake, TypeInv, TypeOK, KnowsItsCids, ovpnVars, loopVars,
         goVars, reqVars, daemonVars, Row, Rows
<1>2. CASE StatusFails(a)
  BY <1>2, Zenon
     DEF StatusFails, TypeInv, TypeOK, KnowsItsCids, ovpnVars, loopVars,
         goVars, reqVars, daemonVars, Rows
<1>. QED BY <1>1, <1>2 DEF StatusNext

\* establishCID.
LEMMA EstTypeInv ==
    ASSUME TypeInv, NEW a \in Actors, EstNext(a)
    PROVE  TypeInv'
<1>1. CASE EstLock(a)
  <2> DEFINE c == est[a].cid
             old == active[Identity(c)]
             replaced == old \notin {None, c}
             marked == IF replaced THEN MarkEviction(old) ELSE cids
  <2>1. c \in Cids /\ old \in OptCid /\ est[a] \in Frames
    BY <1>1, ConstantsAssumption, Zenon
    DEF EstLock, TypeInv, TypeOK, KnowsItsCids, Identity, ConstantsAssumption
  <2>2. marked \in [Cids -> SUBSET Flags]
    BY <2>1, Zenon DEF MarkEviction, TypeInv, TypeOK, Flags
  <2>3. cids' \in [Cids -> SUBSET Flags]
    <3>1. (marked[c] \ {"promoted"}) \cup {"established"} \in SUBSET Flags
      BY <2>1, <2>2, Zenon DEF Flags
    <3>2. \/ cids' = cids
          \/ cids' = [marked EXCEPT ![c] = (@ \ {"promoted"})
                                           \cup {"established"}]
      BY <1>1, Zenon DEF EstLock
    <3>. QED BY <2>1, <2>2, <3>1, <3>2, Zenon DEF TypeInv, TypeOK
  <2>4. /\ attempt' \in [Identities -> OptCid]
        /\ active' \in [Identities -> OptCid]
    <3>1. Forget(attempt, c) \in [Identities -> OptCid]
      BY <2>1, ForgetType, Zenon DEF TypeInv, TypeOK
    <3>2. [active EXCEPT ![Identity(c)] = c] \in [Identities -> OptCid]
      BY <2>1, Zenon DEF TypeInv, TypeOK, OptCid
    <3>. QED BY <1>1, <3>1, <3>2, Zenon DEF EstLock, TypeInv, TypeOK
  <2>5. dctx' \subseteq Cids /\ xpc' \in [Cids -> ExpiryPcs]
    BY <1>1, StopExpiryType DEF EstLock, TypeInv, TypeOK
  <2>6. /\ est' \in [Actors -> Frames]
        /\ \A b \in Actors : est'[b].pc # "none" => est'[b].cid \in Cids
        /\ \A b \in Actors :
              est'[b].pc \in {"kill", "killwait", "status"}
                  => est'[b].old \in Cids
    <3>1. CASE cids[c] = {}
      <4>1. EstReturn(a)
        BY <1>1, <3>1 DEF EstLock
      <4>. QED BY <4>1, Zenon DEF EstReturn, Idle, Frames, EstPcs, OptCid, TypeInv,
                           TypeOK, KnowsItsCids
    <3>2. CASE cids[c] # {}
      <4>1. PICK pc \in {"timer", "kill", "none"} :
               /\ est' = [est EXCEPT ![a].pc = pc,
                                     ![a].old = IF replaced THEN old ELSE None]
               /\ pc = "kill" => replaced
        BY <1>1, <3>2, Zenon DEF EstLock
      <4>2. est'[a] = [pc |-> pc, cid |-> c,
                       old |-> IF replaced THEN old ELSE None,
                       auth |-> est[a].auth]
        BY <4>1, <2>1, Zenon DEF TypeInv, TypeOK, Frames
      <4>3. est'[a] \in Frames
        BY <2>1, <4>2 DEF Frames, EstPcs, OptCid
      <4>4. \A b \in Actors \ {a} : est'[b] = est[b]
        BY <4>1 DEF TypeInv, TypeOK
      <4>. QED BY <2>1, <4>1, <4>2, <4>3, <4>4
               DEF TypeInv, TypeOK, KnowsItsCids, OptCid
    <3>. QED BY <3>1, <3>2, Zenon
  <2>. HIDE DEF c, old, replaced, marked
  <2>. QED
    BY <1>1, <2>3, <2>4, <2>5, <2>6, Zenon
    DEF EstLock, TypeInv, TypeOK, KnowsItsCids, ovpnVars, loopVars, reqVars
<1>2. CASE EstTimer(a)
  <2>1. cids' \in [Cids -> SUBSET Flags] /\ xpc' \in [Cids -> ExpiryPcs]
    <3>1. /\ cids \in [Cids -> SUBSET Flags] /\ xpc \in [Cids -> ExpiryPcs]
          /\ "expiry" \in Flags /\ "run" \in ExpiryPcs
      BY DEF TypeInv, TypeOK, Flags, ExpiryPcs
    <3>2. \/ UNCHANGED <<cids, xpc>>
          \/ \E c \in Cids :
                /\ cids' = [cids EXCEPT ![c] = cids[c] \cup {"expiry"}]
                /\ xpc' = [xpc EXCEPT ![c] = "run"]
      BY <1>2, Zenon DEF EstTimer, TypeInv, KnowsItsCids
    <3>. QED BY <3>1, <3>2, Zenon
  <2>2. est[a] \in Frames /\ est[a].cid \in Cids
    BY <1>2 DEF EstTimer, TypeInv, TypeOK, KnowsItsCids
  <2>3. /\ est' \in [Actors -> Frames]
        /\ \A b \in Actors : est'[b].pc # "none" => est'[b].cid \in Cids
        /\ \A b \in Actors :
              est'[b].pc \in {"kill", "killwait", "status"}
                  => est'[b].old \in Cids
    BY <1>2, <2>2, Zenon DEF EstTimer, Frames, EstPcs, OptCid, TypeInv, TypeOK,
                      KnowsItsCids
  <2>. QED
    BY <1>2, <2>1, <2>3
    DEF EstTimer, TypeInv, TypeOK, KnowsItsCids, ovpnVars, loopVars, reqVars
<1>3. CASE EstKill(a)
  <2>1. est[a] \in Frames /\ est[a].cid \in Cids /\ est[a].old \in Cids
    BY <1>3 DEF EstKill, TypeInv, TypeOK, KnowsItsCids
  <2>2. cmds' \in Seq(Cmds)
    BY <1>3, <2>1, SendType DEF EstKill, TypeInv, CmdTypes, Waiters
  <2>3. /\ est' \in [Actors -> Frames]
        /\ \A b \in Actors : est'[b].pc # "none" => est'[b].cid \in Cids
        /\ \A b \in Actors :
              est'[b].pc \in {"kill", "killwait", "status"}
                  => est'[b].old \in Cids
    BY <1>3, <2>1, Zenon DEF EstKill, Frames, EstPcs, TypeInv, TypeOK, KnowsItsCids
  <2>. QED
    BY <1>3, <2>2, <2>3
    DEF EstKill, TypeInv, TypeOK, KnowsItsCids, ovpnVars, loopVars, goVars,
        reqVars
<1>4. CASE EstKillAccepted(a)
  BY <1>4, Zenon
     DEF EstKillAccepted, TypeInv, TypeOK, KnowsItsCids, ovpnVars, loopVars,
         goVars, reqVars, AckIs, EstReturn, Idle, Frames, EstPcs, OptCid
<1>5. CASE EstKillFailed(a)
  <2>1. est[a] \in Frames /\ est[a].cid \in Cids /\ est[a].old \in Cids
    BY <1>5 DEF EstKillFailed, TypeInv, TypeOK, KnowsItsCids
  <2>2. cmds' \in Seq(Cmds) /\ ack' \in [Waiters -> {"none", "ok", "err"}]
    BY <1>5, AckFailsType, Zenon DEF EstKillFailed, TypeInv, Waiters
  <2>3. /\ est' \in [Actors -> Frames]
        /\ \A b \in Actors : est'[b].pc # "none" => est'[b].cid \in Cids
        /\ \A b \in Actors :
              est'[b].pc \in {"kill", "killwait", "status"}
                  => est'[b].old \in Cids
    BY <1>5, <2>1, Zenon DEF EstKillFailed, Frames, EstPcs, TypeInv, TypeOK,
                      KnowsItsCids
  <2>. QED
    BY <1>5, <2>2, <2>3
    DEF EstKillFailed, TypeInv, TypeOK, KnowsItsCids, ovpnVars, loopVars,
        goVars, reqVars
<1>6. CASE EstReconcile(a)
  BY <1>6, HandleDisconnectType, Zenon
     DEF EstReconcile, TypeInv, TypeOK, KnowsItsCids, ovpnVars, loopVars,
         goVars, reqVars, Used, Rows, EstReturn, Idle, Frames, EstPcs, OptCid
<1>. QED BY <1>1, <1>2, <1>3, <1>4, <1>5, <1>6 DEF EstNext

\* The event loop.
LEMMA LoopTypeInv ==
    ASSUME TypeInv, LoopNext
    PROVE  TypeInv'
<1>1. CASE ConnectReject
  BY <1>1, Zenon
     DEF ConnectReject, TypeInv, TypeOK, KnowsItsCids, ovpnVars, loopVars,
         goVars, reqVars, LoopGo, Handling, LoopAt, LoopPcs
<1>2. CASE ConnectAdmit
  BY <1>2, LcidType, Zenon
     DEF ConnectAdmit, TypeInv, TypeOK, KnowsItsCids, ovpnVars, loopVars,
         goVars, reqVars, LoopGo, Handling, LoopAt, Track, SessionStates,
         Flags, OptCid, LoopPcs
<1>3. CASE ConnectSupersede
  BY <1>3, LcidType, CancelTimeoutType, Zenon
     DEF ConnectSupersede, TypeInv, TypeOK, KnowsItsCids, ovpnVars, loopVars,
         goVars, reqVars, Handling, LoopAt, Track, SessionStates, Flags,
         OptCid, Held, LoopPcs
<1>4. CASE ConnectBusy
  BY <1>4, Zenon
     DEF ConnectBusy, TypeInv, TypeOK, KnowsItsCids, ovpnVars, loopVars,
         goVars, reqVars, LoopGo, Handling, LoopAt, LoopPcs
<1>5. CASE ConnectPromotedConflict
  BY <1>5, LcidType, Zenon
     DEF ConnectPromotedConflict, TypeInv, TypeOK, KnowsItsCids, ovpnVars,
         loopVars, goVars, reqVars, Handling, LoopAt, Held, OptCid, LoopPcs
<1>6. CASE ConflictAbsent
  BY <1>6, CleanupPromotedType, Zenon
     DEF ConflictAbsent, TypeInv, TypeOK, KnowsItsCids, ovpnVars, loopVars,
         goVars, reqVars, LoopAt, Used, Rows, OptCid, LoopPcs
<1>7. CASE ConflictEstablished
  BY <1>7, Zenon
     DEF ConflictEstablished, TypeInv, TypeOK, KnowsItsCids, ovpnVars,
         loopVars, goVars, reqVars, LoopAt, LoopGo, Used, Rows, CallEstablish,
         Frames, EstPcs, OptCid, LoopPcs
<1>8. CASE ConflictUndecided
  BY <1>8, Zenon
     DEF ConflictUndecided, TypeInv, TypeOK, KnowsItsCids, ovpnVars, loopVars,
         goVars, reqVars, LoopAt, LoopGo, Used, Rows, LoopPcs
<1>9. CASE DenySuperseded
  BY <1>9, SendType, Zenon
     DEF DenySuperseded, TypeInv, TypeOK, KnowsItsCids, ovpnVars, loopVars,
         goVars, reqVars, LoopAt, LoopGo, CmdTypes, Answered, LoopPcs
<1>10. CASE SendPending
  BY <1>10, SendType, LcidType, Zenon
     DEF SendPending, TypeInv, TypeOK, KnowsItsCids, ovpnVars, loopVars,
         goVars, reqVars, LoopAt, LoopReturn, CmdTypes, TimeoutPcs, OptCid,
         LoopPcs
<1>11. CASE DenyConnect
  BY <1>11, SendType, LcidType, Zenon
     DEF DenyConnect, TypeInv, TypeOK, KnowsItsCids, ovpnVars, loopVars,
         goVars, reqVars, LoopAt, LoopReturn, CmdTypes, Answered, OptCid,
         LoopPcs
<1>12. CASE Established
  BY <1>12, PromoteSessionType, LcidType, Zenon
     DEF Established, TypeInv, TypeOK, KnowsItsCids, ovpnVars, loopVars,
         goVars, reqVars, Handling, LoopAt, LoopReturn, CallEstablish, Frames,
         EstPcs, OptCid, LoopPcs
<1>13. CASE Disconnect
  BY <1>13, HandleDisconnectType, LcidType, Zenon
     DEF Disconnect, TypeInv, TypeOK, KnowsItsCids, ovpnVars, loopVars,
         goVars, reqVars, Handling, LoopAt, LoopReturn, OptCid, LoopPcs
<1>. QED BY <1>1, <1>2, <1>3, <1>4, <1>5, <1>6, <1>7, <1>8, <1>9, <1>10,
            <1>11, <1>12, <1>13 DEF LoopNext

\* Every step keeps types and knowledge of CIDs.
LEMMA TypeInvStep ==
    TypeInv /\ [Next]_vars => TypeInv'
<1>. SUFFICES ASSUME TypeInv, [Next]_vars
              PROVE  TypeInv'
  OBVIOUS
<1>1. ASSUME NEW c \in Cids, VpnConnect(c) \/ VpnEstablish(c) \/ VpnLeave(c)
      PROVE  TypeInv'
  BY <1>1, VpnTypeInv
<1>2. CASE Execute
  BY <1>2, ExecuteTypeInv
<1>3. CASE LoopNext
  BY <1>3, LoopTypeInv
<1>4. ASSUME NEW a \in Actors, StatusNext(a) \/ EstNext(a)
      PROVE  TypeInv'
  BY <1>4, StatusTypeInv, EstTypeInv
<1>5. ASSUME NEW c \in Cids,
             DeadlineNext(c) \/ TimeoutNext(c) \/ ExpiryNext(c) \/ Reap(c)
      PROVE  TypeInv'
  BY <1>5, DeadlineTypeInv, TimeoutTypeInv, ExpiryTypeInv
<1>6. ASSUME NEW r \in Reqs, CallbackStart(r) \/ CallbackNext(r)
      PROVE  TypeInv'
  BY <1>6, CallbackTypeInv
<1>7. CASE UNCHANGED vars
  BY <1>7, Zenon DEF vars, TypeInv, TypeOK, KnowsItsCids
<1>. QED BY <1>1, <1>2, <1>3, <1>4, <1>5, <1>6, <1>7 DEF Next

LEMMA TypeInvInit == Init => TypeInv
<1>1. Init => TypeOK
  BY ConstantsAssumption
  DEF Init, TypeOK, VpnStates, Rows, SessionStates, Flags, OptCid, LoopPcs,
      Frames, EstPcs, Idle, TimeoutPcs, DeadlinePcs, ExpiryPcs, RequestPcs
<1>2. Init => KnowsItsCids
  BY DEF Init, KnowsItsCids, Idle
<1>. QED BY <1>1, <1>2 DEF TypeInv

\* Type correctness of the daemon's state (Handler, SessionStore, goroutines)
\* in every reachable state.
THEOREM TypeCorrect == Spec => []TypeOK
<1>1. TypeInv => TypeOK
  BY DEF TypeInv
<1>. QED BY <1>1, TypeInvInit, TypeInvStep, PTL DEF Spec


-----------------------------------------------------------------------------
(* One owner per identity.  Given the types, OneOwner is inductive: only the *)
(* steps that write cids or active can disturb it.                           *)

LEMMA IdentityType ==
    ASSUME NEW c \in Cids
    PROVE  Identity(c) \in Identities
BY ConstantsAssumption DEF ConstantsAssumption, Identity

LEMMA OneOwnerUnchanged ==
    ASSUME OneOwner, UNCHANGED <<cids, active>>
    PROVE  OneOwner'
BY DEF OneOwner

\* Removing a CID, from the index too, gives up ownership and takes none.
LEMMA HandleDisconnectOwner ==
    ASSUME TypeOK, OneOwner, NEW c \in Cids, HandleDisconnect(c)
    PROVE  OneOwner'
<1>1. CASE cids[c] = {}
  BY <1>1, OneOwnerUnchanged DEF HandleDisconnect
<1>2. CASE cids[c] # {}
  <2>. SUFFICES ASSUME NEW d \in Cids, "established" \in cids'[d],
                       "evictionRequested" \notin cids'[d]
                PROVE  active'[Identity(d)] = d
    BY Zenon DEF OneOwner
  <2>1. cids' = [cids EXCEPT ![c] = {}] /\ active' = Forget(active, c)
    BY <1>2 DEF HandleDisconnect
  <2>2. d # c /\ cids'[d] = cids[d]
    BY <2>1 DEF TypeOK
  <2>3. active[Identity(d)] = d
    BY <2>2 DEF OneOwner
  <2>. QED BY <2>1, <2>2, <2>3, IdentityType, Zenon DEF Forget, TypeOK
<1>. QED BY <1>1, <1>2

\* The flags that matter to ownership, cid by cid.
LEMMA OwnerFlagsKept ==
    ASSUME OneOwner, UNCHANGED active,
           \A d \in Cids :
               /\ "established" \in cids'[d] => "established" \in cids[d]
               /\ "evictionRequested" \in cids[d] /\ "established" \in cids'[d]
                      => "evictionRequested" \in cids'[d]
    PROVE  OneOwner'
BY DEF OneOwner

LEMMA PromoteSessionOwner ==
    ASSUME TypeOK, OneOwner, NEW c \in Cids, PromoteSession(c), UNCHANGED active
    PROVE  OneOwner'
<1>1. /\ cids \in [Cids -> SUBSET Flags]
      /\ \/ UNCHANGED cids
         \/ cids' = [cids EXCEPT ![c] = (cids[c] \ {"cancel"}) \cup {"promoted"}]
  BY Zenon DEF PromoteSession, TypeOK
<1>2. \A d \in Cids :
         /\ "established" \in cids'[d] <=> "established" \in cids[d]
         /\ "evictionRequested" \in cids'[d] <=> "evictionRequested" \in cids[d]
  BY <1>1
<1>. QED BY <1>2, OwnerFlagsKept, Zenon

LEMMA CleanupPromotedOwner ==
    ASSUME TypeOK, OneOwner, NEW c \in Cids, CleanupPromoted(c), UNCHANGED active
    PROVE  OneOwner'
BY OwnerFlagsKept, Zenon DEF CleanupPromoted, TypeOK

\* establishCID: the new owner takes the index and the CID it takes it from is
\* marked for eviction in the same section.
LEMMA EstLockOwner ==
    ASSUME TypeInv, OneOwner, NEW a \in Actors, EstLock(a)
    PROVE  OneOwner'
<1>. DEFINE c == est[a].cid
            old == active[Identity(c)]
            marked == IF old \notin {None, c} THEN MarkEviction(old) ELSE cids
<1>1. c \in Cids /\ Identity(c) \in Identities /\ old \in OptCid
  BY IdentityType, Zenon DEF EstLock, TypeInv, TypeOK, KnowsItsCids
<1>2. CASE cids[c] = {}
  BY <1>2, OneOwnerUnchanged DEF EstLock
<1>3. CASE cids[c] # {}
  <2>1. /\ cids' = [marked EXCEPT ![c] = (@ \ {"promoted"}) \cup {"established"}]
        /\ active' = [active EXCEPT ![Identity(c)] = c]
    BY <1>3, Zenon DEF EstLock
  <2>. SUFFICES ASSUME NEW d \in Cids, "established" \in cids'[d],
                       "evictionRequested" \notin cids'[d]
                PROVE  active'[Identity(d)] = d
    BY DEF OneOwner
  <2>2. CASE d = c
    BY <2>1, <2>2, <1>1, Zenon DEF TypeInv, TypeOK
  <2>3. CASE d # c
    <3>1. marked \in [Cids -> SUBSET Flags]
      BY <1>1, Zenon DEF MarkEviction, Held, TypeInv, TypeOK, OptCid, Flags
    <3>2. cids'[d] = marked[d]
      BY <2>1, <2>3, <1>1, <3>1, Zenon
    <3>3. active[Identity(d)] = d /\ d # old
      <4>1. CASE d = old
        <5>1. d # None /\ old \notin {None, c}
          BY <2>3, <4>1, ConstantsAssumption, Zenon DEF ConstantsAssumption
        <5>2. CASE cids[d] = {}
          BY <3>2, <4>1, <5>1, <5>2, Zenon DEF MarkEviction, Held
        <5>3. CASE cids[d] # {}
          BY <3>2, <4>1, <5>1, <5>3, Zenon DEF MarkEviction, Held, TypeInv, TypeOK
        <5>. QED BY <5>2, <5>3
      <4>2. CASE d # old
        <5>1. marked[d] = cids[d]
          BY <4>2, <1>1, Zenon DEF MarkEviction, TypeInv, TypeOK
        <5>. QED BY <3>2, <4>2, <5>1, Zenon DEF OneOwner
      <4>. QED BY <4>1, <4>2, Zenon
    <3>. QED BY <2>1, <3>3, <1>1, IdentityType, Zenon DEF TypeInv, TypeOK
  <2>. QED BY <2>2, <2>3
<1>. QED BY <1>2, <1>3

LEMMA EstTimerOwner ==
    ASSUME TypeInv, OneOwner, NEW a \in Actors, EstTimer(a)
    PROVE  OneOwner'
<1>1. est[a].cid \in Cids /\ UNCHANGED active
  BY DEF EstTimer, TypeInv, KnowsItsCids
<1>2. CASE cids[est[a].cid] = {}
  BY <1>1, <1>2, OneOwnerUnchanged DEF EstTimer
<1>3. CASE cids[est[a].cid] # {}
  <2>1. cids' = [cids EXCEPT ![est[a].cid] = @ \cup {"expiry"}]
    BY <1>3 DEF EstTimer
  <2>. QED BY <1>1, <2>1, OwnerFlagsKept, Zenon DEF TypeInv, TypeOK
<1>. QED BY <1>2, <1>3, Zenon

LEMMA LoopOwner ==
    ASSUME TypeInv, OneOwner, LoopNext
    PROVE  OneOwner'
<1>1. CASE ConnectAdmit
  <2>1. lcid \in Cids
    BY <1>1, LcidType DEF ConnectAdmit, Handling, TypeInv
  <2>. QED BY <1>1, <2>1, OwnerFlagsKept, Zenon
           DEF ConnectAdmit, Track, TypeInv, TypeOK
<1>2. CASE ConnectSupersede
  <2>1. lcid \in Cids
    BY <1>2, LcidType DEF ConnectSupersede, Handling, TypeInv
  <2>2. cids' = [[cids EXCEPT ![Existing] = @ \ {"cancel"}]
                    EXCEPT ![lcid] = {"tracked", "cancel"}]
    BY <1>2 DEF ConnectSupersede, Track
  <2>. QED BY <1>2, <2>1, <2>2, OwnerFlagsKept, Zenon
           DEF ConnectSupersede, TypeInv, TypeOK
<1>3. CASE ConflictAbsent
  <2>1. lold \in Cids
    BY <1>3, Zenon DEF ConflictAbsent, LoopAt, TypeInv, KnowsItsCids
  <2>. QED BY <1>3, <2>1, CleanupPromotedOwner DEF ConflictAbsent, TypeInv
<1>4. CASE Established
  <2>1. lcid \in Cids
    BY <1>4, LcidType, Zenon DEF Established, Handling, TypeInv
  <2>. QED BY <1>4, <2>1, PromoteSessionOwner, Zenon DEF Established, TypeInv
<1>5. CASE Disconnect
  <2>1. lcid \in Cids
    BY <1>5, LcidType DEF Disconnect, Handling, TypeInv
  <2>. QED BY <1>5, <2>1, HandleDisconnectOwner DEF Disconnect, TypeInv
<1>6. CASE \/ ConnectReject \/ ConnectBusy \/ ConnectPromotedConflict
           \/ ConflictEstablished \/ ConflictUndecided
           \/ DenySuperseded \/ SendPending \/ DenyConnect
  BY <1>6, OneOwnerUnchanged, Zenon
  DEF ConnectReject, ConnectBusy, ConnectPromotedConflict,
      ConflictEstablished, ConflictUndecided, DenySuperseded, SendPending,
      DenyConnect
<1>. QED BY <1>1, <1>2, <1>3, <1>4, <1>5, <1>6 DEF LoopNext

LEMMA EstOwner ==
    ASSUME TypeInv, OneOwner, NEW a \in Actors, EstNext(a)
    PROVE  OneOwner'
<1>1. CASE EstReconcile(a)
  <2>1. est[a].old \in Cids
    BY <1>1, Zenon DEF EstReconcile, TypeInv, KnowsItsCids
  <2>2. CASE SnapshotAbsent(a)
    BY <1>1, <2>1, <2>2, HandleDisconnectOwner, Zenon DEF EstReconcile, TypeInv
  <2>3. CASE ~SnapshotAbsent(a)
    BY <1>1, <2>3, OneOwnerUnchanged, Zenon DEF EstReconcile
  <2>. QED BY <2>2, <2>3
<1>2. CASE EstKill(a) \/ EstKillAccepted(a) \/ EstKillFailed(a)
  BY <1>2, OneOwnerUnchanged DEF EstKill, EstKillAccepted, EstKillFailed
<1>. QED BY <1>1, <1>2, EstLockOwner, EstTimerOwner DEF EstNext

LEMMA DeadlineOwner ==
    ASSUME TypeInv, OneOwner, NEW c \in Cids, DeadlineNext(c)
    PROVE  OneOwner'
<1>1. CASE DeadlineReconciles(c)
  <2>1. CASE snap[c] = "absent"
    BY <1>1, <2>1, CleanupPromotedOwner DEF DeadlineReconciles, TypeInv
  <2>2. CASE snap[c] # "absent"
    BY <1>1, <2>2, OneOwnerUnchanged, Zenon DEF DeadlineReconciles
  <2>. QED BY <2>1, <2>2
<1>2. CASE \/ DeadlineFires(c) \/ DeadlineCancelled(c) \/ DeadlineChecks(c)
           \/ DeadlineKills(c) \/ DeadlineAcked(c)
  BY <1>2, OneOwnerUnchanged, Zenon
  DEF DeadlineFires, DeadlineCancelled, DeadlineChecks, DeadlineKills,
      DeadlineAcked
<1>. QED BY <1>1, <1>2 DEF DeadlineNext

LEMMA TimersOwner ==
    ASSUME TypeInv, OneOwner, NEW c \in Cids,
           TimeoutNext(c) \/ ExpiryNext(c) \/ Reap(c)
    PROVE  OneOwner'
<1>1. CASE TimeoutClears(c)
  <2>1. cids' = [cids EXCEPT ![c] = @ \ {"cancel"}] /\ UNCHANGED active
    BY <1>1 DEF TimeoutClears, ClearInFlight
  <2>. QED BY <2>1, OwnerFlagsKept, Zenon DEF TypeInv, TypeOK
<1>2. CASE TimeoutFires(c) \/ TimeoutMarksFailed(c) \/ TimeoutDenies(c)
  BY <1>2, OneOwnerUnchanged, Zenon
  DEF TimeoutFires, TimeoutMarksFailed, TimeoutDenies
<1>3. CASE ExpiryFires(c) \/ ExpiryKills(c) \/ Reap(c)
  BY <1>3, OneOwnerUnchanged, Zenon DEF ExpiryFires, ExpiryKills, Reap
<1>. QED BY <1>1, <1>2, <1>3 DEF TimeoutNext, ExpiryNext

LEMMA CallbackOwner ==
    ASSUME TypeInv, OneOwner, NEW r \in Reqs,
           CallbackStart(r) \/ CallbackNext(r)
    PROVE  OneOwner'
<1>1. CASE CallbackMarksAuthenticated(r)
  <2>1. rsid[r] \in Cids
    BY <1>1, Zenon DEF CallbackMarksAuthenticated, TypeInv, KnowsItsCids
  <2>. QED BY <1>1, <2>1, PromoteSessionOwner
           DEF CallbackMarksAuthenticated, TypeInv
<1>2. CASE CallbackStart(r) \/ CallbackRetryable(r) \/ CallbackReject(r)
  BY <1>2, OneOwnerUnchanged, Zenon
  DEF CallbackStart, CallbackRetryable, CallbackReject
<1>3. CASE CallbackDenies(r) \/ CallbackAllows(r) \/ CallbackAllowDropped(r)
  BY <1>3, OneOwnerUnchanged, Zenon
  DEF CallbackDenies, CallbackAllows, CallbackAllowDropped
<1>4. CASE CallbackRefused(r) \/ CallbackMarksDone(r)
  BY <1>4, OneOwnerUnchanged, Zenon DEF CallbackRefused, CallbackMarksDone
<1>. QED BY <1>1, <1>2, <1>3, <1>4 DEF CallbackNext

LEMMA OneOwnerStep ==
    TypeInv /\ OneOwner /\ [Next]_vars => OneOwner'
<1>. SUFFICES ASSUME TypeInv, OneOwner, [Next]_vars
              PROVE  OneOwner'
  OBVIOUS
<1>1. ASSUME NEW c \in Cids, VpnConnect(c) \/ VpnEstablish(c) \/ VpnLeave(c)
      PROVE  OneOwner'
  BY <1>1, OneOwnerUnchanged, Zenon DEF VpnConnect, VpnEstablish, VpnLeave, daemonVars
<1>2. CASE Execute
  BY <1>2, OneOwnerUnchanged DEF Execute, daemonVars
<1>3. CASE LoopNext
  BY <1>3, LoopOwner
<1>4. ASSUME NEW a \in Actors, StatusNext(a)
      PROVE  OneOwner'
  BY <1>4, OneOwnerUnchanged, Zenon DEF StatusNext, StatusTake, StatusFails, daemonVars
<1>5. ASSUME NEW a \in Actors, EstNext(a)
      PROVE  OneOwner'
  BY <1>5, EstOwner
<1>6. ASSUME NEW c \in Cids,
             DeadlineNext(c) \/ TimeoutNext(c) \/ ExpiryNext(c) \/ Reap(c)
      PROVE  OneOwner'
  BY <1>6, DeadlineOwner, TimersOwner
<1>7. ASSUME NEW r \in Reqs, CallbackStart(r) \/ CallbackNext(r)
      PROVE  OneOwner'
  BY <1>7, CallbackOwner
<1>8. CASE UNCHANGED vars
  BY <1>8, OneOwnerUnchanged DEF vars
<1>. QED BY <1>1, <1>2, <1>3, <1>4, <1>5, <1>6, <1>7, <1>8 DEF Next

\* Whichever goroutines establish the CIDs of an identity, and in whatever
\* order, all but the active one have been marked for eviction
\* (Handler.establishCID): for any number of clients and identities.
THEOREM OneOwnerHolds == Spec => []OneOwner
<1>1. Init => OneOwner
  BY DEF Init, OneOwner
<1>. QED BY <1>1, TypeInvInit, TypeInvStep, OneOwnerStep, PTL DEF Spec

-----------------------------------------------------------------------------
(* Decisions and the session store. *)

\* CONNECT of c is still in the queue, or being handled.
Queued(c) ==
    \E i \in DOMAIN events : events[i].type = "CONNECT" /\ events[i].cid = c

\* client-pending-auth of c waits in cmdCh.
Asked(c) == \E i \in DOMAIN cmds : cmds[i].type = "pending" /\ cmds[i].cid = c

Untouched(c) ==
    /\ tpc[c] = "none"
    /\ decided[c] = {}
    /\ c \notin urls
    /\ lpc = "superseded" => lold # c
    /\ \A r \in Reqs : rsid[r] # c
    /\ ~Asked(c)

Admitted(c) == lpc \in {"pend", "superseded"} /\ lcid = c

ConnectsDiffer ==
    \A i, j \in DOMAIN events :
        /\ events[i].type = "CONNECT" /\ events[j].type = "CONNECT"
        /\ events[i].cid = events[j].cid
        => i = j

\* The loop has not handled the CONNECT of c yet.
Fresh(c) == vpn[c] = "none" \/ Queued(c)

FreshInv ==
    /\ \A c \in Cids :
          Fresh(c) => Untouched(c) /\ (sess[c] = "absent" \/ Admitted(c))
    /\ \A c \in Cids : vpn[c] = "none" => ~Queued(c)
    /\ ConnectsDiffer
    /\ lpc # "idle" => Head(events).type = "CONNECT"

\* a is about to answer the CONNECT of c.
Claims(a, c) ==
    \/ a = Loop /\ lpc = "superseded" /\ lold = c
    \/ a = Loop /\ lpc = "deny" /\ lcid = c
    \/ a = c /\ tpc[c] \in {"won", "deny"}
    \/ a \in Reqs /\ rpc[a] \in {"verify", "deny"} /\ rsid[a] = c

ClaimInv ==
    \A c \in Cids :
        /\ decided[c] # {} => sess[c] # "PENDING"
        /\ \A a \in Waiters :
              Claims(a, c) => /\ sess[c] # "PENDING"
                              /\ decided[c] = {}
                              /\ \A b \in Waiters : Claims(b, c) => b = a

\* What a step may do to the claims on c: nothing new; hand the claim on an
\* unanswered session to one goroutine; open it with nobody claiming it; or
\* answer it and give the claim up.
Same(c) ==
    /\ decided'[c] = decided[c]
    /\ sess'[c] = "PENDING" => sess[c] = "PENDING"
    /\ \A b \in Waiters : Claims(b, c)' => Claims(b, c)
Taken(a, c) ==
    /\ decided'[c] = {}
    /\ sess'[c] # "PENDING"
    /\ \A b \in Waiters : Claims(b, c)' => b = a
Opened(c) ==
    /\ decided'[c] = {}
    /\ \A b \in Waiters : ~Claims(b, c)'
AnswerGiven(c) ==
    /\ \E d \in Answerable : decided'[c] = {d}
    /\ sess'[c] # "PENDING"
    /\ \A b \in Waiters : ~Claims(b, c)'

DecisionInv == FreshInv /\ ClaimInv /\ DecidedOnce

-----------------------------------------------------------------------------
(* The two queues. *)

LEMMA AppendEvent ==
    ASSUME TypeOK, NEW e \in Events, events' = Append(events, e)
    PROVE  /\ \A c : Queued(c)' <=> Queued(c) \/ (e.type = "CONNECT" /\ e.cid = c)
           /\ events # <<>> => Head(events') = Head(events)
           /\ ConnectsDiffer /\ (e.type = "CONNECT" => ~Queued(e.cid))
                 => ConnectsDiffer'
<1>1. /\ Len(events) \in Nat
      /\ DOMAIN events = 1 .. Len(events)
      /\ DOMAIN events' = 1 .. (Len(events) + 1)
      /\ \A i \in 1 .. Len(events) : events'[i] = events[i]
      /\ events'[Len(events) + 1] = e
  BY DEF TypeOK
<1>2. \A c : Queued(c)' <=> Queued(c) \/ (e.type = "CONNECT" /\ e.cid = c)
  BY <1>1 DEF Queued
<1>3. events # <<>> => Head(events') = Head(events)
  BY DEF TypeOK
<1>4. ASSUME ConnectsDiffer, e.type = "CONNECT" => ~Queued(e.cid)
      PROVE  ConnectsDiffer'
  BY <1>1, <1>4 DEF ConnectsDiffer, Queued
<1>. QED BY <1>2, <1>3, <1>4

LEMMA TailEvent ==
    ASSUME TypeOK, events # <<>>, events' = Tail(events), ConnectsDiffer
    PROVE  /\ \A c : Queued(c)' => Queued(c)
           /\ ConnectsDiffer'
           /\ Head(events).type = "CONNECT" => \A c : c = lcid => ~Queued(c)'
<1>1. /\ Len(events) \in Nat \ {0}
      /\ DOMAIN events = 1 .. Len(events)
      /\ Head(events) = events[1]
      /\ DOMAIN events' = 1 .. (Len(events) - 1)
      /\ \A i \in 1 .. (Len(events) - 1) : events'[i] = events[i + 1]
  BY DEF TypeOK
<1>2. \A c : Queued(c)' => Queued(c)
  BY <1>1 DEF Queued
<1>3. ConnectsDiffer'
  BY <1>1 DEF ConnectsDiffer
<1>4. ASSUME Head(events).type = "CONNECT", NEW i \in DOMAIN events',
             events'[i].type = "CONNECT"
      PROVE  events'[i].cid # Head(events).cid
  BY <1>1, <1>4 DEF ConnectsDiffer
<1>. QED BY <1>2, <1>3, <1>4 DEF Queued, lcid

LEMMA HeadQueued ==
    ASSUME TypeOK, events # <<>>, Head(events).type = "CONNECT"
    PROVE  Queued(lcid)
<1>1. 1 \in DOMAIN events /\ Head(events) = events[1]
  BY DEF TypeOK
<1>. QED BY <1>1 DEF Queued, lcid

LEMMA SendAsks ==
    ASSUME TypeOK, NEW type, NEW d, NEW from, Send(type, d, from)
    PROVE  \A c : Asked(c)' => Asked(c) \/ (type = "pending" /\ d = c)
<1>. DEFINE e == [type |-> type, cid |-> d, from |-> from]
<1>1. /\ Len(cmds) \in Nat
      /\ DOMAIN cmds = 1 .. Len(cmds)
      /\ DOMAIN cmds' = 1 .. (Len(cmds) + 1)
      /\ \A i \in 1 .. Len(cmds) : cmds'[i] = cmds[i]
      /\ cmds'[Len(cmds) + 1] = e
  BY DEF TypeOK, Send
<1>. QED BY <1>1 DEF Asked

LEMMA AbandonAsks ==
    ASSUME TypeOK, NEW a, Abandon(a)
    PROVE  \A c : Asked(c)' => Asked(c)
<1>1. ASSUME NEW i \in DOMAIN cmds
      PROVE  cmds'[i].type = cmds[i].type /\ cmds'[i].cid = cmds[i].cid
  <2>1. cmds[i] \in Cmds
    BY DEF TypeOK
  <2>. QED BY <2>1 DEF Abandon, Cmds
<1>2. DOMAIN cmds' = DOMAIN cmds
  BY DEF Abandon
<1>. QED BY <1>1, <1>2 DEF Asked

LEMMA AckFailsAsks ==
    ASSUME TypeOK, NEW a, AckFails(a)
    PROVE  \A c : Asked(c)' => Asked(c)
<1>1. CASE UNCHANGED cmds
  BY <1>1 DEF Asked
<1>2. CASE Abandon(a)
  BY <1>2, AbandonAsks
<1>. QED BY <1>1, <1>2 DEF AckFails

LEMMA ExecuteAsks ==
    ASSUME TypeOK, Execute
    PROVE  /\ \A c : Asked(c)' => Asked(c)
           /\ \A c : c \in urls' => c \in urls \/ Asked(c)
<1>1. /\ Len(cmds) \in Nat \ {0}
      /\ DOMAIN cmds = 1 .. Len(cmds)
      /\ Head(cmds) = cmds[1]
      /\ DOMAIN cmds' = 1 .. (Len(cmds) - 1)
      /\ \A i \in 1 .. (Len(cmds) - 1) : cmds'[i] = cmds[i + 1]
  BY DEF TypeOK, Execute
<1>2. \A c : Asked(c)' => Asked(c)
  BY <1>1 DEF Asked
<1>3. ASSUME NEW c \in urls', c \notin urls
      PROVE  Head(cmds).type = "pending" /\ Head(cmds).cid = c
  <2>1. \/ urls' = urls
        \/ Head(cmds).type = "pending" /\ urls' = urls \cup {Head(cmds).cid}
    BY Zenon DEF Execute
  <2>. QED BY <1>3, <2>1
<1>4. 1 \in DOMAIN cmds
  BY <1>1
<1>. QED BY <1>1, <1>2, <1>3, <1>4 DEF Asked

-----------------------------------------------------------------------------
(* Frames: what a step must respect. *)

LEMMA AskedSame ==
    ASSUME UNCHANGED cmds
    PROVE  \A c : Asked(c)' => Asked(c)
BY DEF Asked

LEMMA UntouchedKept ==
    ASSUME NEW c, Untouched(c), tpc'[c] = tpc[c], decided'[c] = decided[c],
           c \in urls' => c \in urls, lpc' = "superseded" => lold' # c,
           \A r \in Reqs : rsid'[r] # c, Asked(c)' => Asked(c)
    PROVE  Untouched(c)'
BY DEF Untouched

\* A step of anybody but OpenVPN's clients and the event loop.
LEMMA FreshKept ==
    ASSUME FreshInv, UNCHANGED <<events, lpc, lold>>,
           \A c \in Cids : vpn'[c] = "none" => vpn[c] = "none",
           \A c \in Cids :
               Untouched(c) => Untouched(c)' /\ sess'[c] \in {sess[c], "absent"}
    PROVE  FreshInv'
<1>1. /\ \A c \in Cids : Queued(c)' <=> Queued(c)
      /\ \A c \in Cids : Admitted(c)' <=> Admitted(c)
      /\ ConnectsDiffer'
  BY DEF Queued, Admitted, lcid, ConnectsDiffer, FreshInv
<1>. QED BY <1>1 DEF FreshInv, Fresh

LEMMA ClaimStep ==
    ASSUME ClaimInv, DecidedOnce,
           \A c \in Cids : \/ Same(c)
                           \/ \E a \in Waiters : Taken(a, c)
                           \/ Opened(c)
                           \/ AnswerGiven(c)
    PROVE  ClaimInv' /\ DecidedOnce'
<1>. DEFINE Right(c) ==
              /\ decided'[c] # {} => sess'[c] # "PENDING"
              /\ \A a \in Waiters :
                    Claims(a, c)' => /\ sess'[c] # "PENDING"
                                     /\ decided'[c] = {}
                                     /\ \A b \in Waiters : Claims(b, c)' => b = a
              /\ ~(Answerable \subseteq decided'[c])
<1>1. ASSUME NEW c \in Cids
      PROVE  Right(c)
  <2>1. CASE Same(c)
    BY <2>1 DEF Same, ClaimInv, DecidedOnce
  <2>2. ASSUME NEW a \in Waiters, Taken(a, c)
        PROVE  Right(c)
    BY <2>2 DEF Taken, Answerable
  <2>3. CASE Opened(c)
    BY <2>3 DEF Opened, Answerable
  <2>4. CASE AnswerGiven(c)
    BY <2>4 DEF AnswerGiven, Answerable
  <2>. QED BY <2>1, <2>2, <2>3, <2>4
<1>. QED BY <1>1 DEF ClaimInv, DecidedOnce, Answerable

\* A pending session is free for the taking, and so is one whose CONNECT the
\* loop has not decided on.
LEMMA PendingIsFree ==
    ASSUME ClaimInv, NEW c \in Cids, sess[c] = "PENDING"
    PROVE  decided[c] = {} /\ \A a \in Waiters : ~Claims(a, c)
BY DEF ClaimInv

LEMMA UntouchedIsFree ==
    ASSUME NEW c \in Cids, Untouched(c), lpc # "deny"
    PROVE  decided[c] = {} /\ \A a \in Waiters : ~Claims(a, c)
BY DEF Untouched, Claims

\* The loop's CONNECT, before it is admitted.
LEMMA HeadIsFresh ==
    ASSUME TypeInv, FreshInv, events # <<>>, Head(events).type = "CONNECT"
    PROVE  /\ lcid \in Cids /\ Queued(lcid) /\ vpn[lcid] # "none"
           /\ Untouched(lcid)
           /\ lpc \notin {"pend", "superseded"} => sess[lcid] = "absent"
<1>1. lcid \in Cids /\ Queued(lcid)
  BY LcidType, HeadQueued DEF TypeInv
<1>. QED BY <1>1 DEF FreshInv, Fresh, Admitted

\* A step that only adds or removes commands.
LEMMA QuietStep ==
    ASSUME DecisionInv,
           UNCHANGED <<vpn, urls, events, lpc, lold, tpc, rpc, rsid, sess,
                       decided>>,
           \A c : Asked(c)' => Asked(c)
    PROVE  DecisionInv'
<1>1. FreshInv'
  <2>1. \A c \in Cids : Untouched(c) => Untouched(c)'
    BY UntouchedKept DEF Untouched
  <2>. QED BY <2>1, FreshKept DEF DecisionInv
<1>2. \A c \in Cids : Same(c)
  BY DEF Same, Claims, lcid
<1>. QED BY <1>1, <1>2, ClaimStep DEF DecisionInv

-----------------------------------------------------------------------------
(* Every step keeps the invariant: OpenVPN. *)

\* A notification that is not a CONNECT is queued.
LEMMA NotificationStep ==
    ASSUME TypeInv, DecisionInv, NEW e \in Events, e.type # "CONNECT",
           events' = Append(events, e),
           \A c \in Cids : vpn'[c] = "none" => vpn[c] = "none",
           UNCHANGED <<urls, cmds, lpc, lold, tpc, rpc, rsid, sess, decided>>
    PROVE  DecisionInv'
<1>1. /\ \A c : Queued(c)' <=> Queued(c)
      /\ lpc # "idle" => Head(events') = Head(events)
      /\ ConnectsDiffer'
  BY AppendEvent, Zenon DEF TypeInv, KnowsItsCids, DecisionInv, FreshInv
<1>2. \A c : Admitted(c)' <=> Admitted(c)
  BY <1>1 DEF Admitted, lcid
<1>3. \A c \in Cids : Untouched(c) => Untouched(c)'
  BY UntouchedKept, AskedSame, Zenon DEF Untouched
<1>4. FreshInv'
  BY <1>1, <1>2, <1>3, Zenon DEF DecisionInv, FreshInv, Fresh
<1>5. \A c \in Cids : Same(c)
  BY <1>1 DEF Same, Claims, lcid
<1>. QED BY <1>4, <1>5, ClaimStep DEF DecisionInv

LEMMA VpnConnectStep ==
    ASSUME TypeInv, DecisionInv, NEW c \in Cids, VpnConnect(c)
    PROVE  DecisionInv'
<1>. DEFINE e == [type |-> "CONNECT", cid |-> c]
<1>1. e \in Events /\ events' = Append(events, e)
  BY DEF VpnConnect, Events, EventTypes
<1>2. vpn[c] = "none" /\ ~Queued(c)
  BY DEF VpnConnect, DecisionInv, FreshInv
<1>3. /\ \A d : Queued(d)' <=> Queued(d) \/ d = c
      /\ lpc # "idle" => Head(events') = Head(events)
      /\ ConnectsDiffer'
  BY <1>1, <1>2, AppendEvent DEF TypeInv, KnowsItsCids, DecisionInv, FreshInv
<1>4. UNCHANGED <<urls, cmds, lpc, lold, tpc, rpc, rsid, sess, decided>>
  BY DEF VpnConnect, daemonVars, loopVars, goVars, reqVars
<1>5. \A d : Admitted(d)' <=> Admitted(d)
  BY <1>3, <1>4 DEF Admitted, lcid
<1>6. \A d \in Cids : Untouched(d) => Untouched(d)'
  BY <1>4, UntouchedKept, AskedSame DEF Untouched
<1>7. \A d \in Cids : vpn'[d] = "none" => d # c /\ vpn[d] = "none"
  BY DEF VpnConnect, TypeInv, TypeOK
<1>8. FreshInv'
  BY <1>2, <1>3, <1>4, <1>5, <1>6, <1>7, Zenon DEF DecisionInv, FreshInv, Fresh
<1>9. \A d \in Cids : Same(d)
  BY <1>3, <1>4, Zenon DEF Same, Claims, lcid
<1>. QED BY <1>8, <1>9, ClaimStep DEF DecisionInv

LEMMA VpnStep ==
    ASSUME TypeInv, DecisionInv, NEW c \in Cids,
           VpnEstablish(c) \/ VpnLeave(c)
    PROVE  DecisionInv'
<1>1. UNCHANGED <<urls, cmds, lpc, lold, tpc, rpc, rsid, sess, decided>>
  BY DEF VpnEstablish, VpnLeave, daemonVars, loopVars, goVars, reqVars
<1>2. \A d \in Cids : vpn'[d] = "none" => vpn[d] = "none"
  BY DEF VpnEstablish, VpnLeave, TypeInv, TypeOK
<1>3. \E e \in Events : e.type # "CONNECT" /\ events' = Append(events, e)
  <2>1. CASE VpnEstablish(c)
    <3>1. [type |-> "ESTABLISHED", cid |-> c] \in Events
      BY DEF Events, EventTypes
    <3>. QED BY <2>1, <3>1 DEF VpnEstablish
  <2>2. CASE VpnLeave(c)
    <3>1. [type |-> "DISCONNECT", cid |-> c] \in Events
      BY DEF Events, EventTypes
    <3>. QED BY <2>2, <3>1 DEF VpnLeave
  <2>. QED BY <2>1, <2>2
<1>. QED BY <1>1, <1>2, <1>3, NotificationStep

LEMMA ExecuteStep ==
    ASSUME TypeInv, DecisionInv, Execute
    PROVE  DecisionInv'
<1>1. UNCHANGED <<events, lpc, lold, tpc, rpc, rsid, sess, decided>>
  BY DEF Execute, daemonVars, loopVars, goVars, reqVars
<1>2. /\ \A c : Asked(c)' => Asked(c)
      /\ \A c : c \in urls' => c \in urls \/ Asked(c)
  BY ExecuteAsks DEF TypeInv
<1>3. \A c \in Cids : vpn'[c] = "none" => vpn[c] = "none"
  <2>1. \/ vpn' = vpn
        \/ vpn' = [vpn EXCEPT ![Head(cmds).cid] = "authed"]
    BY Zenon DEF Execute
  <2>. QED BY <2>1 DEF TypeInv, TypeOK
<1>4. FreshInv'
  <2>1. \A c \in Cids : Untouched(c) => Untouched(c)'
    BY <1>1, <1>2, UntouchedKept DEF Untouched
  <2>. QED BY <1>1, <1>3, <2>1, FreshKept DEF DecisionInv
<1>5. \A c \in Cids : Same(c)
  BY <1>1 DEF Same, Claims, lcid
<1>. QED BY <1>4, <1>5, ClaimStep DEF DecisionInv

-----------------------------------------------------------------------------
(* The event loop. *)

\* The loop moves on within a CONNECT that it does not admit.
LEMMA LoopMoves ==
    ASSUME TypeInv, DecisionInv, events # <<>>, Head(events).type = "CONNECT",
           lpc \in {"idle", "status"}, lpc' \in {"idle", "status", "deny"},
           UNCHANGED <<vpn, urls, events, cmds, tpc, rpc, rsid, sess, decided>>
    PROVE  DecisionInv'
<1>1. FreshInv'
  <2>1. \A c \in Cids : Untouched(c) => Untouched(c)'
    BY UntouchedKept, AskedSame, Zenon DEF Untouched
  <2>2. \A c : Queued(c)' <=> Queued(c)
    BY DEF Queued
  <2>3. ConnectsDiffer' /\ Head(events').type = "CONNECT"
    BY DEF ConnectsDiffer, DecisionInv, FreshInv
  <2>. QED BY <2>1, <2>2, <2>3 DEF DecisionInv, FreshInv, Fresh, Admitted
<1>2. /\ lcid \in Cids /\ sess[lcid] = "absent"
      /\ decided[lcid] = {} /\ \A a \in Waiters : ~Claims(a, lcid)
  BY HeadIsFresh, UntouchedIsFree DEF DecisionInv
<1>3. ASSUME NEW c \in Cids
      PROVE  Same(c) \/ Taken(Loop, c)
  <2>1. CASE c = lcid
    <3>1. Taken(Loop, c)
      BY <1>2, <2>1, Zenon DEF Taken, Claims
    <3>. QED BY <3>1
  <2>2. CASE c # lcid
    <3>1. Same(c)
      BY <2>2 DEF Same, Claims, lcid
    <3>. QED BY <3>1
  <2>. QED BY <2>1, <2>2
<1>. QED BY <1>1, <1>3, ClaimStep DEF DecisionInv, Waiters, Actors

LEMMA ConnectAdmitStep ==
    ASSUME TypeInv, DecisionInv, ConnectAdmit
    PROVE  DecisionInv'
<1>1. /\ events # <<>> /\ Head(events).type = "CONNECT"
      /\ lpc = "idle" /\ lpc' = "pend"
      /\ sess' = [sess EXCEPT ![lcid] = "PENDING"]
      /\ UNCHANGED <<vpn, urls, events, cmds, tpc, rpc, rsid, decided>>
  BY DEF ConnectAdmit, Handling, LoopAt, LoopGo, ovpnVars, goVars, reqVars
<1>2. /\ lcid \in Cids
      /\ decided[lcid] = {} /\ \A a \in Waiters : ~Claims(a, lcid)
  BY <1>1, HeadIsFresh, UntouchedIsFree DEF DecisionInv
<1>3. FreshInv'
  <2>1. \A c \in Cids : Untouched(c) => Untouched(c)'
    BY <1>1, UntouchedKept, AskedSame DEF Untouched
  <2>2. \A c : Queued(c)' <=> Queued(c)
    BY <1>1 DEF Queued
  <2>3. ConnectsDiffer' /\ Head(events').type = "CONNECT"
    BY <1>1 DEF ConnectsDiffer, DecisionInv, FreshInv
  <2>4. \A c \in Cids : sess'[c] = sess[c] \/ Admitted(c)'
    BY <1>1, <1>2, Zenon DEF Admitted, lcid, TypeInv, TypeOK
  <2>. QED BY <1>1, <2>1, <2>2, <2>3, <2>4
           DEF DecisionInv, FreshInv, Fresh, Admitted
<1>4. ASSUME NEW c \in Cids, c = lcid
      PROVE  Opened(c)
  BY <1>1, <1>2, <1>4, Zenon DEF Opened, Claims
<1>5. \A c \in Cids \ {lcid} : Same(c)
  BY <1>1, Zenon DEF Same, Claims, lcid, TypeInv, TypeOK
<1>. QED BY <1>3, <1>4, <1>5, ClaimStep DEF DecisionInv

LEMMA ConnectSupersedeStep ==
    ASSUME TypeInv, DecisionInv, ConnectSupersede
    PROVE  DecisionInv'
<1>. DEFINE old == Existing
<1>1. /\ events # <<>> /\ Head(events).type = "CONNECT"
      /\ lpc = "idle" /\ lpc' = "superseded" /\ lold' = old
      /\ sess[old] = "PENDING" /\ "cancel" \in Held(old)
      /\ sess' = [sess EXCEPT ![old] = "FAILED", ![lcid] = "PENDING"]
      /\ tpc' = CancelTimeout(old)
      /\ UNCHANGED <<vpn, urls, events, cmds, rpc, rsid, decided>>
  BY Zenon DEF ConnectSupersede, Handling, LoopAt, Supersedable, ovpnVars, reqVars
<1>2. /\ lcid \in Cids /\ sess[lcid] = "absent"
      /\ decided[lcid] = {} /\ \A a \in Waiters : ~Claims(a, lcid)
  BY <1>1, HeadIsFresh, UntouchedIsFree DEF DecisionInv
<1>3. old \in Cids /\ old # lcid
  BY <1>1, <1>2, LcidType, Zenon DEF Held, OptCid, TypeInv
<1>4. decided[old] = {} /\ \A a \in Waiters : ~Claims(a, old)
  BY <1>1, <1>3, PendingIsFree DEF DecisionInv
<1>5. \A c \in Cids : /\ tpc'[c] \in {"won", "deny"} => tpc[c] = tpc'[c]
                      /\ tpc[c] = "none" => tpc'[c] = "none"
  BY <1>1 DEF CancelTimeout, TypeInv, TypeOK
<1>6. FreshInv'
  <2>1. ASSUME NEW c \in Cids, Fresh(c)
        PROVE  Untouched(c)' /\ c # old
    <3>1. Untouched(c) /\ c # old
      BY <1>1, <1>3, <2>1 DEF DecisionInv, FreshInv, Admitted
    <3>2. tpc'[c] = tpc[c]
      BY <1>5, <3>1 DEF Untouched
    <3>. QED BY <1>1, <3>1, <3>2, UntouchedKept, AskedSame, Zenon DEF Untouched
  <2>2. \A c : Queued(c)' <=> Queued(c)
    BY <1>1 DEF Queued
  <2>3. ConnectsDiffer' /\ Head(events').type = "CONNECT"
    BY <1>1 DEF ConnectsDiffer, DecisionInv, FreshInv
  <2>4. \A c \in Cids \ {old} : sess'[c] = sess[c] \/ Admitted(c)'
    BY <1>1, <1>2, <1>3, Zenon DEF Admitted, lcid, TypeInv, TypeOK
  <2>. QED BY <1>1, <2>1, <2>2, <2>3, <2>4, Zenon
           DEF DecisionInv, FreshInv, Fresh, Admitted
<1>7. ASSUME NEW c \in Cids, c = lcid
      PROVE  Opened(c)
  BY <1>1, <1>2, <1>3, <1>5, <1>7, Zenon DEF Opened, Claims
<1>8. ASSUME NEW c \in Cids, c = old
      PROVE  Taken(Loop, c)
  <2>1. sess'[c] # "PENDING"
    BY <1>1, <1>2, <1>3, <1>8 DEF TypeInv, TypeOK
  <2>. QED BY <1>1, <1>3, <1>4, <1>5, <1>8, <2>1, Zenon DEF Taken, Claims
<1>9. ASSUME NEW c \in Cids \ {lcid, old}
      PROVE  Same(c)
  <2>1. sess'[c] = sess[c]
    BY <1>1, <1>3, <1>9 DEF TypeInv, TypeOK
  <2>. QED BY <1>1, <1>5, <1>9, <2>1, Zenon DEF Same, Claims, lcid
<1>. QED BY <1>3, <1>6, <1>7, <1>8, <1>9, ClaimStep
         DEF DecisionInv, Waiters, Actors

LEMMA DenySupersededStep ==
    ASSUME TypeInv, DecisionInv, DenySuperseded
    PROVE  DecisionInv'
<1>1. /\ lpc = "superseded" /\ lpc' = "pend" /\ lold' = lold
      /\ lold \in Cids
      /\ decided' = [decided EXCEPT ![lold] = @ \cup {"deny"}]
      /\ UNCHANGED <<vpn, urls, events, tpc, rpc, rsid, sess>>
  BY Zenon DEF DenySuperseded, LoopAt, LoopGo, Answered, TypeInv, KnowsItsCids,
         ovpnVars, goVars, reqVars
<1>2. \A c : Asked(c)' => Asked(c)
  BY SendAsks DEF DenySuperseded, TypeInv
<1>3. FreshInv'
  <2>1. \A c \in Cids : Untouched(c) => Untouched(c)'
    <3>1. \A c \in Cids : Untouched(c) => decided'[c] = decided[c]
      BY <1>1 DEF Untouched, TypeInv, TypeOK
    <3>. QED BY <1>1, <1>2, <3>1, UntouchedKept DEF Untouched
  <2>2. \A c : Queued(c)' <=> Queued(c)
    BY <1>1, Zenon DEF Queued
  <2>3. \A c : Admitted(c)' <=> Admitted(c)
    BY <1>1, Zenon DEF Admitted, lcid
  <2>4. ConnectsDiffer' /\ Head(events').type = "CONNECT"
    BY <1>1, Zenon DEF ConnectsDiffer, DecisionInv, FreshInv
  <2>. QED BY <1>1, <2>1, <2>2, <2>3, <2>4, Zenon DEF DecisionInv, FreshInv, Fresh
<1>4. ASSUME NEW c \in Cids, c = lold
      PROVE  AnswerGiven(c)
  <2>1. Loop \in Waiters /\ Claims(Loop, c)
    BY <1>1, <1>4, Zenon DEF Claims, Waiters, Actors
  <2>2. /\ sess[c] # "PENDING" /\ decided[c] = {}
        /\ \A b \in Waiters : Claims(b, c) => b = Loop
    BY <2>1 DEF DecisionInv, ClaimInv
  <2>3. decided'[c] = {"deny"}
    BY <1>1, <1>4, <2>2 DEF TypeInv, TypeOK
  <2>4. \A b \in Waiters : ~Claims(b, c)'
    BY <1>1, <2>2, ConstantsAssumption, Zenon DEF Claims, ConstantsAssumption
  <2>. QED BY <1>1, <2>2, <2>3, <2>4 DEF AnswerGiven, Answerable
<1>5. ASSUME NEW c \in Cids, c # lold
      PROVE  Same(c)
  BY <1>1, <1>5 DEF Same, Claims, TypeInv, TypeOK
<1>. QED BY <1>3, <1>4, <1>5, ClaimStep DEF DecisionInv

\* The loop returns from the handler of a CONNECT: nothing but that CID may
\* have been touched.
LEMMA ConnectReturns ==
    ASSUME TypeInv, DecisionInv, events # <<>>, lpc # "idle", LoopReturn,
           UNCHANGED <<vpn, urls, rsid, sess>>,
           \A c \in Cids \ {lcid} : /\ tpc'[c] = tpc[c]
                                    /\ decided'[c] = decided[c]
                                    /\ Asked(c)' => Asked(c)
    PROVE  FreshInv'
<1>1. Head(events).type = "CONNECT" /\ events' = Tail(events) /\ lpc' = "idle"
  BY Zenon DEF DecisionInv, FreshInv, LoopReturn
<1>2. /\ \A c : Queued(c)' => Queued(c)
      /\ ConnectsDiffer'
      /\ \A c : c = lcid => ~Queued(c)'
  BY <1>1, TailEvent, Zenon DEF TypeInv, DecisionInv, FreshInv
<1>3. vpn[lcid] # "none"
  BY <1>1, HeadIsFresh, Zenon DEF DecisionInv
<1>4. ASSUME NEW c \in Cids, Fresh(c)'
      PROVE  Untouched(c)' /\ sess'[c] = "absent"
  <2>1. c # lcid /\ Fresh(c)
    BY <1>2, <1>3, <1>4, Zenon DEF Fresh
  <2>2. Untouched(c) /\ sess[c] = "absent"
    BY <2>1, Zenon DEF DecisionInv, FreshInv, Admitted
  <2>3. Untouched(c)'
    BY <1>1, <2>1, <2>2, UntouchedKept, Zenon DEF Untouched
  <2>. QED BY <2>2, <2>3, Zenon
<1>5. \A c \in Cids : vpn'[c] = "none" => ~Queued(c)'
  BY <1>2, Zenon DEF DecisionInv, FreshInv
<1>. QED BY <1>1, <1>2, <1>4, <1>5, Zenon DEF FreshInv

LEMMA SendPendingStep ==
    ASSUME TypeInv, DecisionInv, SendPending
    PROVE  DecisionInv'
<1>1. /\ lpc = "pend" /\ events # <<>> /\ LoopReturn
      /\ tpc' = [tpc EXCEPT ![lcid] = "wait"]
      /\ UNCHANGED <<vpn, urls, rpc, rsid, sess, decided>>
  BY Zenon DEF SendPending, LoopAt, TypeInv, KnowsItsCids, reqVars
<1>2. \A c : Asked(c)' => Asked(c) \/ lcid = c
  BY SendAsks DEF SendPending, TypeInv
<1>3. FreshInv'
  BY <1>1, <1>2, ConnectReturns, Zenon DEF TypeInv, TypeOK
<1>4. \A c \in Cids : tpc'[c] \in {"won", "deny"} => tpc[c] = tpc'[c]
  BY <1>1 DEF TypeInv, TypeOK
<1>5. \A c \in Cids : Same(c)
  BY <1>1, <1>4, Zenon DEF Same, Claims, LoopReturn
<1>. QED BY <1>3, <1>5, ClaimStep DEF DecisionInv

LEMMA DenyConnectStep ==
    ASSUME TypeInv, DecisionInv, DenyConnect
    PROVE  DecisionInv'
<1>1. /\ lpc = "deny" /\ events # <<>> /\ LoopReturn
      /\ decided' = [decided EXCEPT ![lcid] = @ \cup {"deny"}]
      /\ UNCHANGED <<vpn, urls, tpc, rpc, rsid, sess>>
  BY Zenon DEF DenyConnect, LoopAt, Answered, TypeInv, KnowsItsCids, goVars, reqVars
<1>2. \A c : Asked(c)' => Asked(c)
  BY SendAsks DEF DenyConnect, TypeInv
<1>3. FreshInv'
  BY <1>1, <1>2, ConnectReturns, Zenon DEF TypeInv, TypeOK
<1>4. ASSUME NEW c \in Cids, c = lcid
      PROVE  AnswerGiven(c)
  <2>1. Loop \in Waiters /\ Claims(Loop, c)
    BY <1>1, <1>4 DEF Claims, Waiters, Actors
  <2>2. /\ sess[c] # "PENDING" /\ decided[c] = {}
        /\ \A b \in Waiters : Claims(b, c) => b = Loop
    BY <2>1 DEF DecisionInv, ClaimInv
  <2>3. decided'[c] = {"deny"}
    BY <1>1, <1>4, <2>2 DEF TypeInv, TypeOK
  <2>4. \A b \in Waiters : ~Claims(b, c)'
    BY <1>1, <2>2, ConstantsAssumption, Zenon
    DEF Claims, LoopReturn, ConstantsAssumption
  <2>. QED BY <1>1, <2>2, <2>3, <2>4, Zenon DEF AnswerGiven, Answerable
<1>5. ASSUME NEW c \in Cids, c # lcid
      PROVE  Same(c)
  BY <1>1, <1>5, Zenon DEF Same, Claims, LoopReturn, TypeInv, TypeOK
<1>. QED BY <1>3, <1>4, <1>5, ClaimStep DEF DecisionInv

\* ESTABLISHED and DISCONNECT may end a session and cancel its timeout.
LEMMA OtherEventStep ==
    ASSUME TypeInv, DecisionInv, LoopReturn, lpc = "idle", events # <<>>,
           UNCHANGED <<vpn, urls, cmds, rpc, rsid, decided>>,
           NEW d \in Cids, tpc' \in {tpc, CancelTimeout(d)},
           sess' \in {sess, [sess EXCEPT ![d] = "absent"]}
    PROVE  DecisionInv'
<1>1. events' = Tail(events) /\ lpc' = "idle"
  BY DEF LoopReturn
<1>2. (\A c : Queued(c)' => Queued(c)) /\ ConnectsDiffer'
  BY <1>1, TailEvent DEF TypeInv, DecisionInv, FreshInv
<1>3. \A c \in Cids : /\ tpc'[c] \in {"won", "deny"} => tpc[c] = tpc'[c]
                      /\ tpc[c] = "none" => tpc'[c] = "none"
                      /\ sess'[c] \in {sess[c], "absent"}
  BY Zenon DEF CancelTimeout, TypeInv, TypeOK
<1>4. \A c \in Cids : Untouched(c) => Untouched(c)'
  <2>1. \A c \in Cids : Untouched(c) => tpc'[c] = tpc[c]
    BY <1>3, Zenon DEF Untouched
  <2>. QED BY <1>1, <2>1, UntouchedKept, AskedSame, Zenon DEF Untouched
<1>5. FreshInv'
  BY <1>1, <1>2, <1>3, <1>4, Zenon DEF DecisionInv, FreshInv, Fresh, Admitted
<1>6. \A c \in Cids : Same(c)
  BY <1>1, <1>3 DEF Same, Claims
<1>. QED BY <1>5, <1>6, ClaimStep DEF DecisionInv

LEMMA LoopStep ==
    ASSUME TypeInv, DecisionInv, LoopNext
    PROVE  DecisionInv'
<1>1. CASE ConnectReject \/ ConnectBusy \/ ConnectPromotedConflict
  <2>1. /\ events # <<>> /\ Head(events).type = "CONNECT" /\ lpc = "idle"
        /\ lpc' \in {"deny", "status"}
        /\ UNCHANGED <<vpn, urls, events, cmds, tpc, rpc, rsid, sess, decided>>
    BY <1>1, Zenon DEF ConnectReject, ConnectBusy, ConnectPromotedConflict, Handling,
                LoopAt, LoopGo, ovpnVars, goVars, reqVars
  <2>. QED BY <2>1, LoopMoves
<1>2. CASE ConflictAbsent \/ ConflictEstablished \/ ConflictUndecided
  <2>1. /\ lpc = "status" /\ lpc' \in {"idle", "deny"}
        /\ UNCHANGED <<vpn, urls, events, cmds, tpc, rpc, rsid, sess, decided>>
    BY <1>2, Zenon DEF ConflictAbsent, ConflictEstablished, ConflictUndecided,
                LoopAt, LoopGo, ovpnVars, goVars, reqVars
  <2>2. events # <<>> /\ Head(events).type = "CONNECT"
    BY <2>1, Zenon DEF TypeInv, KnowsItsCids, DecisionInv, FreshInv
  <2>. QED BY <2>1, <2>2, LoopMoves
<1>3. CASE Established
  <2>1. lcid \in Cids
    BY <1>3, LcidType, Zenon DEF Established, Handling, TypeInv
  <2>2. /\ tpc' \in {tpc, CancelTimeout(lcid)}
        /\ sess' \in {sess, [sess EXCEPT ![lcid] = "absent"]}
    BY <1>3, Zenon DEF Established, PromoteSession
  <2>3. /\ LoopReturn /\ lpc = "idle" /\ events # <<>>
        /\ UNCHANGED <<vpn, urls, cmds, rpc, rsid, decided>>
    BY <1>3, Zenon DEF Established, Handling, LoopAt, reqVars
  <2>. QED BY <2>1, <2>2, <2>3, OtherEventStep
<1>4. CASE Disconnect
  <2>1. lcid \in Cids
    BY <1>4, LcidType DEF Disconnect, Handling, TypeInv
  <2>2. /\ tpc' \in {tpc, CancelTimeout(lcid)}
        /\ sess' \in {sess, [sess EXCEPT ![lcid] = "absent"]}
    BY <1>4 DEF Disconnect, HandleDisconnect
  <2>3. /\ LoopReturn /\ lpc = "idle" /\ events # <<>>
        /\ UNCHANGED <<vpn, urls, cmds, rpc, rsid, decided>>
    BY <1>4 DEF Disconnect, Handling, LoopAt, reqVars
  <2>. QED BY <2>1, <2>2, <2>3, OtherEventStep
<1>. QED BY <1>1, <1>2, <1>3, <1>4, ConnectAdmitStep, ConnectSupersedeStep,
            DenySupersededStep, SendPendingStep, DenyConnectStep
         DEF LoopNext

-----------------------------------------------------------------------------
(* The other goroutines. *)

\* A step that ends a session, cancels a timeout, or moves a goroutine to
\* where it claims nothing, on behalf of a CID that is not fresh.
LEMMA ReleaseStep ==
    ASSUME TypeInv, DecisionInv,
           UNCHANGED <<vpn, urls, events, lpc, lold, rsid, decided>>,
           \A c : Asked(c)' => Asked(c),
           \A c \in Cids : /\ sess'[c] = "PENDING" => sess[c] = "PENDING"
                           /\ Untouched(c) => sess'[c] \in {sess[c], "absent"},
           \A c \in Cids : /\ tpc'[c] \in {"won", "deny"}
                                 => tpc[c] \in {"won", "deny"}
                           /\ tpc[c] = "none" => tpc'[c] = "none",
           \A r \in Reqs : rpc'[r] \in {"verify", "deny"}
                               => rpc[r] \in {"verify", "deny"}
    PROVE  DecisionInv'
<1>1. FreshInv'
  <2>1. \A c \in Cids : Untouched(c) => tpc'[c] = tpc[c]
    BY Zenon DEF Untouched
  <2>2. \A c \in Cids : Untouched(c) => Untouched(c)'
    BY <2>1, UntouchedKept, Zenon DEF Untouched
  <2>. QED BY <2>2, FreshKept, Zenon DEF DecisionInv
<1>2. \A c \in Cids : Same(c)
  BY Zenon DEF Same, Claims, lcid
<1>. QED BY <1>1, <1>2, ClaimStep, Zenon DEF DecisionInv

LEMMA EstStep ==
    ASSUME TypeInv, DecisionInv, NEW a \in Actors, EstNext(a)
    PROVE  DecisionInv'
<1>1. CASE EstLock(a) \/ EstTimer(a) \/ EstKillAccepted(a)
  BY <1>1, QuietStep, AskedSame, Zenon
  DEF EstLock, EstTimer, EstKillAccepted, ovpnVars, loopVars, goVars, reqVars
<1>2. CASE EstKill(a)
  <2>1. \A c : Asked(c)' => Asked(c)
    BY <1>2, SendAsks DEF EstKill, TypeInv
  <2>. QED BY <1>2, <2>1, QuietStep
           DEF EstKill, ovpnVars, loopVars, goVars, reqVars
<1>3. CASE EstKillFailed(a)
  <2>1. \A c : Asked(c)' => Asked(c)
    BY <1>3, AckFailsAsks DEF EstKillFailed, TypeInv
  <2>. QED BY <1>3, <2>1, QuietStep
           DEF EstKillFailed, ovpnVars, loopVars, goVars, reqVars
<1>4. CASE EstReconcile(a)
  <2>1. UNCHANGED <<vpn, urls, events, cmds, lpc, lold, rpc, rsid, decided>>
    BY <1>4, Zenon DEF EstReconcile, ovpnVars, loopVars, reqVars
  <2>2. /\ tpc' \in {tpc, CancelTimeout(est[a].old)}
        /\ sess' \in {sess, [sess EXCEPT ![est[a].old] = "absent"]}
    BY <1>4, Zenon DEF EstReconcile, HandleDisconnect
  <2>3. \A c \in Cids : sess'[c] \in {sess[c], "absent"}
    BY <2>2, Zenon DEF TypeInv, TypeOK
  <2>4. \A c \in Cids : /\ tpc'[c] \in {"won", "deny"} => tpc[c] \in {"won", "deny"}
                        /\ tpc[c] = "none" => tpc'[c] = "none"
    BY <2>2, Zenon DEF CancelTimeout, TypeInv, TypeOK
  <2>. QED BY <2>1, <2>3, <2>4, AskedSame, ReleaseStep, Zenon
<1>. QED BY <1>1, <1>2, <1>3, <1>4 DEF EstNext

LEMMA DeadlineStep ==
    ASSUME TypeInv, DecisionInv, NEW c \in Cids, DeadlineNext(c)
    PROVE  DecisionInv'
<1>1. CASE DeadlineFires(c) \/ DeadlineCancelled(c) \/ DeadlineChecks(c)
  BY <1>1, QuietStep, AskedSame, Zenon
  DEF DeadlineFires, DeadlineCancelled, DeadlineChecks, ovpnVars, loopVars,
      reqVars
<1>2. CASE DeadlineReconciles(c)
  BY <1>2, QuietStep, AskedSame, Zenon
  DEF DeadlineReconciles, ovpnVars, loopVars, reqVars
<1>3. CASE DeadlineKills(c)
  <2>1. \A d : Asked(d)' => Asked(d)
    BY <1>3, SendAsks DEF DeadlineKills, TypeInv
  <2>. QED BY <1>3, <2>1, QuietStep
           DEF DeadlineKills, ovpnVars, loopVars, reqVars
<1>4. CASE DeadlineAcked(c)
  <2>1. \A d : Asked(d)' => Asked(d)
    BY <1>4, AckFailsAsks, AskedSame DEF DeadlineAcked, TypeInv
  <2>. QED BY <1>4, <2>1, QuietStep
           DEF DeadlineAcked, ovpnVars, loopVars, reqVars
<1>. QED BY <1>1, <1>2, <1>3, <1>4 DEF DeadlineNext

LEMMA ExpiryStep ==
    ASSUME TypeInv, DecisionInv, NEW c \in Cids, ExpiryNext(c)
    PROVE  DecisionInv'
<1>1. CASE ExpiryFires(c)
  BY <1>1, QuietStep, AskedSame, Zenon DEF ExpiryFires, ovpnVars, loopVars, reqVars
<1>2. CASE ExpiryKills(c)
  <2>1. \A d : Asked(d)' => Asked(d)
    BY <1>2, SendAsks DEF ExpiryKills, TypeInv
  <2>. QED BY <1>2, <2>1, QuietStep
           DEF ExpiryKills, ovpnVars, loopVars, reqVars
<1>. QED BY <1>1, <1>2 DEF ExpiryNext

LEMMA ReapStep ==
    ASSUME TypeInv, DecisionInv, NEW c \in Cids, Reap(c)
    PROVE  DecisionInv'
<1>1. UNCHANGED <<vpn, urls, events, cmds, lpc, lold, tpc, rpc, rsid, decided>>
  BY DEF Reap, ovpnVars, loopVars, goVars, reqVars
<1>2. \A d \in Cids : sess'[d] \in {sess[d], "absent"}
  BY Zenon DEF Reap, TypeInv, TypeOK
<1>. QED BY <1>1, <1>2, AskedSame, ReleaseStep, Zenon

\* authTimeout wins the session only while it is pending.
LEMMA TimeoutFiresStep ==
    ASSUME TypeInv, DecisionInv, NEW c \in Cids, TimeoutFires(c)
    PROVE  DecisionInv'
<1>1. UNCHANGED <<vpn, urls, events, cmds, lpc, lold, rpc, rsid, decided>>
  BY Zenon DEF TimeoutFires, ovpnVars, loopVars, reqVars
<1>2. CASE sess[c] = "PENDING"
  <2>1. /\ tpc[c] # "none" /\ tpc' = [tpc EXCEPT ![c] = "won"]
        /\ sess' = [sess EXCEPT ![c] = "PROCESSING"]
    BY <1>2, Zenon DEF TimeoutFires, TimeoutGo, Mark, TypeInv, TypeOK
  <2>2. FreshInv'
    <3>1. \A d \in Cids : Untouched(d) => tpc'[d] = tpc[d] /\ sess'[d] = sess[d]
      BY <2>1, Zenon DEF Untouched, TypeInv, TypeOK
    <3>2. \A d \in Cids : Untouched(d) => Untouched(d)'
      BY <1>1, <3>1, UntouchedKept, AskedSame, Zenon DEF Untouched
    <3>. QED BY <1>1, <3>1, <3>2, FreshKept, Zenon DEF DecisionInv
  <2>3. Taken(c, c)
    <3>1. decided[c] = {} /\ \A a \in Waiters : ~Claims(a, c)
      BY <1>2, PendingIsFree DEF DecisionInv
    <3>. QED BY <1>1, <2>1, <3>1, Zenon DEF Taken, Claims, lcid, TypeInv, TypeOK
  <2>4. \A d \in Cids \ {c} : Same(d)
    BY <1>1, <2>1, Zenon DEF Same, Claims, lcid, TypeInv, TypeOK
  <2>. QED BY <2>2, <2>3, <2>4, ClaimStep DEF DecisionInv, Waiters, Actors
<1>3. CASE sess[c] # "PENDING"
  <2>1. /\ tpc[c] # "none" /\ tpc' = [tpc EXCEPT ![c] = "clear"]
        /\ sess' = sess
    BY <1>3, Zenon DEF TimeoutFires, TimeoutGo
  <2>. QED BY <1>1, <2>1, AskedSame, ReleaseStep, Zenon DEF TypeInv, TypeOK
<1>. QED BY <1>2, <1>3

LEMMA TimeoutDeniesStep ==
    ASSUME TypeInv, DecisionInv, NEW c \in Cids, TimeoutDenies(c)
    PROVE  DecisionInv'
<1>1. /\ tpc[c] = "deny" /\ tpc' = [tpc EXCEPT ![c] = "clear"]
      /\ UNCHANGED <<vpn, urls, events, lpc, lold, rpc, rsid, sess>>
  BY DEF TimeoutDenies, TimeoutGo, ovpnVars, loopVars, reqVars
<1>2. CASE Dropped /\ UNCHANGED decided
  BY <1>1, <1>2, AskedSame, ReleaseStep, Zenon DEF Dropped, TypeInv, TypeOK
<1>3. CASE Send("deny", c, None) /\ Answered(c, "deny")
  <2>1. \A d : Asked(d)' => Asked(d)
    BY <1>3, SendAsks DEF TypeInv
  <2>2. FreshInv'
    <3>1. \A d \in Cids :
             Untouched(d) => tpc'[d] = tpc[d] /\ decided'[d] = decided[d]
      BY <1>1, <1>3, Zenon DEF Answered, Untouched, TypeInv, TypeOK
    <3>2. \A d \in Cids : Untouched(d) => Untouched(d)'
      BY <1>1, <2>1, <3>1, UntouchedKept, Zenon DEF Untouched
    <3>. QED BY <1>1, <3>2, FreshKept, Zenon DEF DecisionInv
  <2>3. AnswerGiven(c)
    <3>1. c \in Waiters /\ Claims(c, c)
      BY <1>1, Zenon DEF Claims, Waiters, Actors
    <3>2. /\ sess[c] # "PENDING" /\ decided[c] = {}
          /\ \A b \in Waiters : Claims(b, c) => b = c
      BY <3>1, Zenon DEF DecisionInv, ClaimInv
    <3>3. decided'[c] = {"deny"}
      BY <1>3, <3>2, Zenon DEF Answered, TypeInv, TypeOK
    <3>4. \A b \in Waiters : ~Claims(b, c)'
      <4>1. c # Loop /\ c \notin Reqs /\ tpc'[c] \notin {"won", "deny"}
        BY <1>1, ConstantsAssumption, Zenon DEF ConstantsAssumption, TypeInv, TypeOK
      <4>. QED BY <1>1, <3>2, <4>1, Zenon DEF Claims, lcid
    <3>. QED BY <1>1, <3>2, <3>3, <3>4, Zenon DEF AnswerGiven, Answerable
  <2>4. \A d \in Cids \ {c} : Same(d)
    BY <1>1, <1>3, Zenon DEF Answered, Same, Claims, lcid, TypeInv, TypeOK
  <2>. QED BY <2>2, <2>3, <2>4, ClaimStep DEF DecisionInv
<1>. QED BY <1>2, <1>3 DEF TimeoutDenies

LEMMA TimeoutStep ==
    ASSUME TypeInv, DecisionInv, NEW c \in Cids, TimeoutNext(c)
    PROVE  DecisionInv'
<1>1. CASE TimeoutMarksFailed(c)
  <2>1. /\ tpc[c] = "won" /\ tpc' = [tpc EXCEPT ![c] = "deny"]
        /\ UNCHANGED <<vpn, urls, events, cmds, lpc, lold, rpc, rsid, decided>>
    BY <1>1 DEF TimeoutMarksFailed, TimeoutGo, ovpnVars, loopVars, reqVars
  <2>2. \A d \in Cids : sess'[d] # sess[d] => d = c /\ sess'[d] = "FAILED"
    BY <1>1, Zenon DEF TimeoutMarksFailed, Mark, TypeInv, TypeOK
  <2>3. ~Untouched(c)
    BY <2>1, Zenon DEF Untouched
  <2>. QED BY <2>1, <2>2, <2>3, AskedSame, ReleaseStep, Zenon DEF TypeInv, TypeOK
<1>2. CASE TimeoutClears(c)
  <2>1. /\ tpc[c] # "none" /\ tpc' = [tpc EXCEPT ![c] = "done"]
        /\ UNCHANGED <<vpn, urls, events, cmds, lpc, lold, rpc, rsid, sess,
                       decided>>
    BY <1>2 DEF TimeoutClears, TimeoutGo, ovpnVars, loopVars, reqVars
  <2>. QED BY <2>1, AskedSame, ReleaseStep, Zenon DEF TypeInv, TypeOK
<1>. QED BY <1>1, <1>2, TimeoutFiresStep, TimeoutDeniesStep DEF TimeoutNext

\* TryProcess hands a pending session to one request.
LEMMA CallbackStartStep ==
    ASSUME TypeInv, DecisionInv, NEW r \in Reqs, CallbackStart(r)
    PROVE  DecisionInv'
<1>1. PICK c \in urls : /\ sess[c] = "PENDING" /\ Mark(c, "PROCESSING")
                       /\ rsid' = [rsid EXCEPT ![r] = c]
  BY Zenon DEF CallbackStart
<1>2. /\ rpc' = [rpc EXCEPT ![r] = "verify"]
      /\ UNCHANGED <<vpn, urls, events, cmds, lpc, lold, tpc, decided>>
  BY DEF CallbackStart, ovpnVars, loopVars, goVars
<1>3. c \in Cids /\ ~Untouched(c)
  BY Zenon DEF TypeInv, TypeOK, Untouched
<1>4. sess' = [sess EXCEPT ![c] = "PROCESSING"]
  BY <1>1, <1>3, Zenon DEF Mark, TypeInv, TypeOK
<1>5. FreshInv'
  <2>1. \A d \in Cids : Untouched(d) => sess'[d] = sess[d]
    BY <1>3, <1>4, Zenon DEF TypeInv, TypeOK
  <2>2. \A d \in Cids : Untouched(d) => \A q \in Reqs : rsid'[q] # d
    BY <1>1, <1>3, Zenon DEF Untouched, TypeInv, TypeOK
  <2>3. \A d \in Cids : Untouched(d) => Untouched(d)'
    BY <1>2, <2>2, UntouchedKept, AskedSame, Zenon DEF Untouched
  <2>. QED BY <1>2, <2>1, <2>3, FreshKept, Zenon DEF DecisionInv
<1>6. Taken(r, c)
  <2>1. decided[c] = {} /\ \A a \in Waiters : ~Claims(a, c)
    BY <1>1, <1>3, PendingIsFree, Zenon DEF DecisionInv
  <2>. QED BY <1>1, <1>2, <1>3, <1>4, <2>1, Zenon
           DEF Taken, Claims, lcid, TypeInv, TypeOK
<1>7. \A d \in Cids \ {c} : Same(d)
  BY <1>1, <1>2, <1>3, <1>4, Zenon DEF Same, Claims, lcid, TypeInv, TypeOK
<1>. QED BY <1>5, <1>6, <1>7, ClaimStep DEF DecisionInv, Waiters

\* A request gives its claim up and answers, or reopens the session.
LEMMA RequestSettles ==
    ASSUME TypeInv, DecisionInv, NEW r \in Reqs, NEW c \in Cids,
           rpc[r] \in {"verify", "deny"}, rsid[r] = c,
           rpc'[r] \notin {"verify", "deny"},
           \A q \in Reqs \ {r} : rpc'[q] = rpc[q],
           UNCHANGED <<vpn, urls, events, lpc, lold, tpc, rsid>>,
           \A d : Asked(d)' => Asked(d),
           \A d \in Cids \ {c} : decided'[d] = decided[d] /\ sess'[d] = sess[d],
           \/ decided'[c] = decided[c]
           \/ \E x \in Answerable : /\ decided'[c] = decided[c] \cup {x}
                                    /\ sess'[c] = sess[c]
    PROVE  DecisionInv'
<1>1. ~Untouched(c)
  BY Zenon DEF Untouched
<1>2. FreshInv'
  <2>1. \A d \in Cids : Untouched(d) => Untouched(d)'
    BY <1>1, UntouchedKept, Zenon DEF Untouched
  <2>. QED BY <1>1, <2>1, FreshKept, Zenon DEF DecisionInv
<1>3. r \in Waiters /\ Claims(r, c)
  BY Zenon DEF Claims, Waiters
<1>4. /\ sess[c] # "PENDING" /\ decided[c] = {}
      /\ \A b \in Waiters : Claims(b, c) => b = r
  BY <1>3, Zenon DEF DecisionInv, ClaimInv
<1>5. \A b \in Waiters : ~Claims(b, c)'
  BY <1>4, ConstantsAssumption, Zenon DEF Claims, lcid, ConstantsAssumption
<1>6. Opened(c) \/ AnswerGiven(c)
  BY <1>4, <1>5, Zenon DEF Opened, AnswerGiven
<1>7. \A d \in Cids \ {c} : Same(d)
  BY Zenon DEF Same, Claims, lcid
<1>. QED BY <1>2, <1>6, <1>7, ClaimStep, Zenon DEF DecisionInv

\* A request that keeps its claim, or has none, marks its session.
LEMMA RequestMarks ==
    ASSUME TypeInv, DecisionInv, NEW r \in Reqs, NEW c \in Cids, rsid[r] = c,
           NEW status \in {"FAILED", "DONE"}, Mark(c, status),
           NEW pc, rpc' = [rpc EXCEPT ![r] = pc],
           pc \in {"verify", "deny"} => rpc[r] \in {"verify", "deny"},
           UNCHANGED <<vpn, urls, events, lpc, lold, tpc, rsid, decided>>,
           \A d : Asked(d)' => Asked(d)
    PROVE  DecisionInv'
<1>1. ~Untouched(c)
  BY Zenon DEF Untouched
<1>2. \A d \in Cids : sess'[d] # sess[d] => d = c /\ sess'[d] = status
  BY Zenon DEF Mark, TypeInv, TypeOK
<1>3. \A q \in Reqs : rpc'[q] \in {"verify", "deny"}
                         => rpc[q] \in {"verify", "deny"}
  BY Zenon DEF TypeInv, TypeOK
<1>. QED BY <1>1, <1>2, <1>3, ReleaseStep, Zenon

LEMMA CallbackStep ==
    ASSUME TypeInv, DecisionInv, NEW r \in Reqs, CallbackNext(r)
    PROVE  DecisionInv'
<1>. DEFINE c == rsid[r]
<1>1. CASE CallbackRetryable(r)
  <2>1. /\ rpc[r] = "verify" /\ c \in Cids /\ rpc' = [rpc EXCEPT ![r] = "done"]
        /\ UNCHANGED <<vpn, urls, events, cmds, lpc, lold, tpc, rsid, decided>>
    BY <1>1, Zenon DEF CallbackRetryable, RequestGo, TypeInv, KnowsItsCids, ovpnVars,
                loopVars, goVars
  <2>2. \A d \in Cids \ {c} : sess'[d] = sess[d]
    BY <1>1, Zenon DEF CallbackRetryable, Mark, TypeInv, TypeOK
  <2>. QED BY <2>1, <2>2, AskedSame, RequestSettles, Zenon DEF TypeInv, TypeOK
<1>2. CASE CallbackReject(r)
  <2>1. /\ rpc[r] = "verify" /\ c \in Cids /\ rpc' = [rpc EXCEPT ![r] = "deny"]
        /\ Mark(c, "FAILED")
        /\ UNCHANGED <<vpn, urls, events, cmds, lpc, lold, tpc, rsid, decided>>
    BY <1>2, Zenon DEF CallbackReject, RequestGo, TypeInv, KnowsItsCids, ovpnVars,
                loopVars, goVars
  <2>. QED BY <2>1, AskedSame, RequestMarks, Zenon
<1>3. CASE CallbackDenies(r)
  <2>1. /\ rpc[r] = "deny" /\ c \in Cids /\ rpc' = [rpc EXCEPT ![r] = "done"]
        /\ UNCHANGED <<vpn, urls, events, lpc, lold, tpc, rsid, sess>>
    BY <1>3, Zenon DEF CallbackDenies, RequestGo, TypeInv, KnowsItsCids, ovpnVars,
                loopVars, goVars
  <2>2. \A d : Asked(d)' => Asked(d)
    BY <1>3, SendAsks, AskedSame, Zenon DEF CallbackDenies, Dropped, TypeInv
  <2>3. \/ decided' = decided
        \/ decided' = [decided EXCEPT ![c] = @ \cup {"deny"}]
    BY <1>3, Zenon DEF CallbackDenies, Answered
  <2>. QED BY <2>1, <2>2, <2>3, RequestSettles, Zenon DEF Answerable, TypeInv, TypeOK
<1>4. CASE CallbackAllows(r)
  <2>1. /\ rpc[r] = "verify" /\ c \in Cids
        /\ rpc' = [rpc EXCEPT ![r] = "ackwait"]
        /\ decided' = [decided EXCEPT ![c] = @ \cup {"allow"}]
        /\ UNCHANGED <<vpn, urls, events, lpc, lold, tpc, rsid, sess>>
    BY <1>4, Zenon DEF CallbackAllows, RequestGo, Answered, TypeInv, KnowsItsCids,
                ovpnVars, loopVars, goVars
  <2>2. \A d : Asked(d)' => Asked(d)
    <3>1. Send("allow", c, r)
      BY <1>4, Zenon DEF CallbackAllows
    <3>. QED BY <3>1, SendAsks DEF TypeInv
  <2>. QED BY <2>1, <2>2, RequestSettles, Zenon DEF Answerable, TypeInv, TypeOK
<1>5. CASE CallbackAllowDropped(r)
  <2>1. /\ rpc[r] = "verify" /\ c \in Cids
        /\ rpc' = [rpc EXCEPT ![r] = "failed"] /\ Mark(c, "FAILED")
        /\ UNCHANGED <<vpn, urls, events, cmds, lpc, lold, tpc, rsid, decided>>
    BY <1>5, Zenon DEF CallbackAllowDropped, Dropped, RequestGo, TypeInv,
                KnowsItsCids, ovpnVars, loopVars, goVars
  <2>. QED BY <2>1, AskedSame, RequestMarks, Zenon
<1>6. CASE CallbackRefused(r)
  <2>1. /\ c \in Cids /\ rpc' = [rpc EXCEPT ![r] = "failed"]
        /\ Mark(c, "FAILED")
        /\ UNCHANGED <<vpn, urls, events, lpc, lold, tpc, rsid, decided>>
    BY <1>6, Zenon DEF CallbackRefused, RequestGo, TypeInv, KnowsItsCids, ovpnVars,
                loopVars, goVars
  <2>2. \A d : Asked(d)' => Asked(d)
    BY <1>6, AckFailsAsks, Zenon DEF CallbackRefused, TypeInv
  <2>. QED BY <2>1, <2>2, RequestMarks, Zenon
<1>7. CASE CallbackMarksDone(r)
  <2>1. /\ c \in Cids /\ rpc' = [rpc EXCEPT ![r] = "done"] /\ Mark(c, "DONE")
        /\ UNCHANGED <<vpn, urls, events, cmds, lpc, lold, tpc, rsid, decided>>
    BY <1>7, Zenon DEF CallbackMarksDone, RequestGo, TypeInv, KnowsItsCids, ovpnVars,
                loopVars, goVars
  <2>. QED BY <2>1, AskedSame, RequestMarks, Zenon
<1>8. CASE CallbackMarksAuthenticated(r)
  <2>1. /\ rpc' = [rpc EXCEPT ![r] = "markdone"]
        /\ UNCHANGED <<vpn, urls, events, cmds, lpc, lold, rsid, decided>>
    BY <1>8 DEF CallbackMarksAuthenticated, RequestGo, ovpnVars, loopVars
  <2>2. /\ tpc' \in {tpc, CancelTimeout(c)}
        /\ sess' \in {sess, [sess EXCEPT ![c] = "absent"]}
    BY <1>8, Zenon DEF CallbackMarksAuthenticated, PromoteSession
  <2>3. \A d \in Cids : sess'[d] \in {sess[d], "absent"}
    BY <2>2, Zenon DEF TypeInv, TypeOK
  <2>4. \A d \in Cids :
           /\ tpc'[d] \in {"won", "deny"} => tpc[d] \in {"won", "deny"}
           /\ tpc[d] = "none" => tpc'[d] = "none"
    BY <2>2, Zenon DEF CancelTimeout, TypeInv, TypeOK
  <2>5. \A q \in Reqs : rpc'[q] \in {"verify", "deny"}
                           => rpc[q] \in {"verify", "deny"}
    BY <2>1, Zenon DEF TypeInv, TypeOK
  <2>. QED BY <2>1, <2>3, <2>4, <2>5, AskedSame, ReleaseStep, Zenon
<1>. QED BY <1>1, <1>2, <1>3, <1>4, <1>5, <1>6, <1>7, <1>8 DEF CallbackNext

-----------------------------------------------------------------------------
LEMMA DecisionInvStep ==
    TypeInv /\ DecisionInv /\ [Next]_vars => DecisionInv'
<1>. SUFFICES ASSUME TypeInv, DecisionInv, [Next]_vars
              PROVE  DecisionInv'
  OBVIOUS
<1>1. ASSUME NEW c \in Cids, VpnConnect(c) \/ VpnEstablish(c) \/ VpnLeave(c)
      PROVE  DecisionInv'
  BY <1>1, VpnConnectStep, VpnStep
<1>2. ASSUME NEW a \in Actors, StatusNext(a)
      PROVE  DecisionInv'
  BY <1>2, QuietStep, AskedSame, Zenon
  DEF StatusNext, StatusTake, StatusFails, ovpnVars, daemonVars, loopVars,
      goVars, reqVars
<1>3. ASSUME NEW c \in Cids,
             DeadlineNext(c) \/ TimeoutNext(c) \/ ExpiryNext(c) \/ Reap(c)
      PROVE  DecisionInv'
  BY <1>3, DeadlineStep, TimeoutStep, ExpiryStep, ReapStep
<1>4. ASSUME NEW r \in Reqs, CallbackStart(r) \/ CallbackNext(r)
      PROVE  DecisionInv'
  BY <1>4, CallbackStartStep, CallbackStep
<1>5. CASE UNCHANGED vars
  BY <1>5, QuietStep, AskedSame, Zenon DEF vars
<1>. QED BY <1>1, <1>2, <1>3, <1>4, <1>5, ExecuteStep, LoopStep, EstStep, Zenon
         DEF Next

LEMMA DecisionInvInit == Init => DecisionInv
<1>. SUFFICES ASSUME Init PROVE DecisionInv
  OBVIOUS
<1>1. FreshInv
  <2>1. (\A c : ~Queued(c)) /\ (\A c : ~Asked(c)) /\ ConnectsDiffer
    BY DEF Init, Queued, Asked, ConnectsDiffer
  <2>. QED BY <2>1, ConstantsAssumption, Zenon
           DEF Init, FreshInv, Fresh, Untouched, ConstantsAssumption
<1>2. ClaimInv /\ DecidedOnce
  BY Zenon DEF Init, ClaimInv, Claims, DecidedOnce, Answerable
<1>. QED BY <1>1, <1>2 DEF DecisionInv

\* However the timeout goroutine, callback requests and newer CONNECTs race for
\* a session, OpenVPN is never handed both client-auth and client-deny for one
\* CONNECT (SessionStore.TryProcess and SupersedePending pick one winner): for
\* any number of clients and requests, and under every fault of the model.
THEOREM DecidedOnceHolds == Spec => []DecidedOnce
<1>1. DecisionInv => DecidedOnce
  BY DEF DecisionInv
<1>. QED BY <1>1, TypeInvInit, TypeInvStep, DecisionInvInit, DecisionInvStep,
            PTL DEF Spec
-----------------------------------------------------------------------------
(* The session store. *)

\* Who has claimed the session of c and will mark it: nobody else does.
Marks(a, c) ==
    \/ a = c /\ tpc[c] = "won"
    \/ a \in Reqs /\ rpc[a] \in {"verify", "ackwait", "markdone"} /\ rsid[a] = c

MarkInv ==
    \A c \in Cids : \A a \in Waiters :
        Marks(a, c) => /\ sess[c] \in {"absent", "PROCESSING"}
                       /\ \A b \in Waiters : Marks(b, c) => b = a

\* What a step may do to the session of c and its marker: nothing, or delete
\* the session; end with no marker; or hand the claim to one.
MarkerSame(c) ==
    /\ sess'[c] \in {sess[c], "absent"}
    /\ \A a \in Waiters : Marks(a, c)' => Marks(a, c)
NoMarker(c) == \A a \in Waiters : ~Marks(a, c)'
OneMarker(c) ==
    /\ sess'[c] = "PROCESSING"
    /\ \E a \in Waiters : \A b \in Waiters : Marks(b, c)' => b = a

LEMMA MarkStep ==
    ASSUME MarkInv, \A c \in Cids : MarkerSame(c) \/ NoMarker(c) \/ OneMarker(c)
    PROVE  MarkInv'
<1> SUFFICES ASSUME NEW c \in Cids, NEW a \in Waiters, Marks(a, c)'
             PROVE  /\ sess'[c] \in {"absent", "PROCESSING"}
                    /\ \A b \in Waiters : Marks(b, c)' => b = a
  BY Zenon DEF MarkInv
<1>1. CASE MarkerSame(c)
  BY <1>1, Zenon DEF MarkerSame, MarkInv
<1>2. CASE NoMarker(c)
  BY <1>2, Zenon DEF NoMarker
<1>3. CASE OneMarker(c)
  BY <1>3, Zenon DEF OneMarker
<1> QED BY <1>1, <1>2, <1>3

\* A step of the handler is one operation of the store, or none.
StoreMove(c) ==
    \/ Store!Put(c) \/ Store!TryProcess(c) \/ Store!MarkPending(c)
    \/ Store!MarkDone(c) \/ Store!MarkFailed(c) \/ Store!Delete(c)
    \/ Store!Answer(c, "allow") \/ Store!Answer(c, "deny")

Stored ==
    \/ \E c \in Cids : StoreMove(c)
    \/ \E old, new \in Cids : Store!SupersedePending(old, new)
    \/ UNCHANGED <<sess, decided>>

MarksKept ==
    /\ UNCHANGED rsid
    /\ \A c \in Cids : tpc'[c] = "won" => tpc[c] = "won"
    /\ \A r \in Reqs : rpc'[r] \in {"verify", "ackwait", "markdone"}
                          => rpc[r] \in {"verify", "ackwait", "markdone"}

LEMMA KeptMarks ==
    ASSUME MarksKept, NEW c \in Cids, NEW a, Marks(a, c)' PROVE Marks(a, c)
BY Zenon DEF MarksKept, Marks

\* The step uses no session, or deletes one.
LEMMA StoreDeletes ==
    ASSUME TypeInv, MarkInv, UNCHANGED decided, MarksKept, NEW d \in Cids,
           sess' \in {sess, [sess EXCEPT ![d] = "absent"]}
    PROVE  MarkInv' /\ Stored
<1>0. DOMAIN sess = Cids /\ sess[d] \in SessionStates
  BY Zenon DEF TypeInv, TypeOK
<1>1. \A c \in Cids : sess'[c] \in {sess[c], "absent"}
  BY <1>0, Zenon
<1>2. MarkInv'
  BY <1>1, KeptMarks, MarkStep, Zenon DEF MarkerSame
<1>3. Stored
  BY <1>0, Zenon
     DEF Stored, StoreMove, Store!Delete, Store!Move, Store!Status, SessionStates
<1> QED BY <1>2, <1>3

LEMMA StoreIdle ==
    ASSUME TypeInv, MarkInv, UNCHANGED <<sess, decided>>, MarksKept
    PROVE  MarkInv' /\ Stored
BY KeptMarks, MarkStep, Zenon DEF MarkerSame, Stored

\* a answers the client whose session it has claimed.
LEMMA StoreAnswers ==
    ASSUME TypeInv, ClaimInv, MarkInv, UNCHANGED sess, MarksKept, NEW c \in Cids,
           NEW a \in Waiters, Claims(a, c), NEW d \in {"allow", "deny"},
           Answered(c, d)
    PROVE  MarkInv' /\ Stored
<1>1. MarkInv'
  BY KeptMarks, MarkStep, Zenon DEF MarkerSame
<1>2. sess[c] # "PENDING" /\ decided[c] = {}
  BY Zenon DEF ClaimInv
<1>3. decided' = [decided EXCEPT ![c] = {d}]
  <2>1. decided[c] \cup {d} = {d}
    BY <1>2
  <2> QED BY <2>1, Zenon DEF Answered
<1>4. Store!Answer(c, d)
  BY <1>2, <1>3, Zenon DEF Store!Answer
<1>5. StoreMove(c)
  BY <1>4, Zenon DEF StoreMove
<1> QED BY <1>1, <1>5, Zenon DEF Stored

\* a marks the session it has claimed, and gives the claim up.
LEMMA StoreMarks ==
    ASSUME TypeInv, MarkInv, UNCHANGED decided, MarksKept, NEW c \in Cids,
           NEW a \in Waiters, Marks(a, c), ~Marks(a, c)',
           NEW st \in {"PENDING", "DONE", "FAILED"}, Mark(c, st),
           st = "PENDING" => decided[c] = {}
    PROVE  MarkInv' /\ Stored
<1>0. DOMAIN sess = Cids
  BY Zenon DEF TypeInv, TypeOK
<1>1. sess[c] \in {"absent", "PROCESSING"} /\ \A b \in Waiters : Marks(b, c) => b = a
  BY Zenon DEF MarkInv
<1>2. MarkInv'
  <2>1. ASSUME NEW e \in Cids PROVE MarkerSame(e) \/ NoMarker(e)
    <3>1. CASE e = c
      BY <1>1, <3>1, KeptMarks, Zenon DEF NoMarker
    <3>2. CASE e # c
      BY <1>0, <3>2, KeptMarks, Zenon DEF MarkerSame, Mark
    <3> QED BY <3>1, <3>2
  <2> QED BY <2>1, MarkStep, Zenon
<1>3. CASE sess[c] = "absent"
  <2>1. sess' = sess
    BY <1>0, <1>3, Zenon DEF Mark, TypeInv, TypeOK
  <2> QED BY <1>2, <2>1, Zenon DEF Stored
<1>4. CASE sess[c] = "PROCESSING"
  <2>1. sess' = [sess EXCEPT ![c] = st]
    BY <1>0, <1>4 DEF Mark
  <2>2. StoreMove(c)
    BY <1>4, <2>1, Zenon
       DEF StoreMove, Store!MarkPending, Store!MarkDone, Store!MarkFailed, Store!Move
  <2> QED BY <1>2, <2>2, Zenon DEF Stored
<1> QED BY <1>1, <1>3, <1>4

\* a takes the claim on a pending session.
LEMMA StoreClaims ==
    ASSUME TypeInv, MarkInv, UNCHANGED decided, NEW c \in Cids, NEW a \in Waiters,
           sess[c] = "PENDING", Mark(c, "PROCESSING"),
           \A e \in Cids : \A b \in Waiters :
               Marks(b, e)' => Marks(b, e) \/ (b = a /\ e = c)
    PROVE  MarkInv' /\ Stored
<1>0. DOMAIN sess = Cids
  BY Zenon DEF TypeInv, TypeOK
<1>1. \A b \in Waiters : ~Marks(b, c)
  BY DEF MarkInv
<1>2. sess' = [sess EXCEPT ![c] = "PROCESSING"]
  BY <1>0 DEF Mark
<1>3. MarkInv'
  <2>1. ASSUME NEW e \in Cids PROVE MarkerSame(e) \/ OneMarker(e)
    <3>1. CASE e = c
      BY <1>0, <1>1, <1>2, <3>1, Zenon DEF OneMarker
    <3>2. CASE e # c
      BY <1>0, <1>2, <3>2, Zenon DEF MarkerSame
    <3> QED BY <3>1, <3>2
  <2> QED BY <2>1, MarkStep, Zenon
<1>4. StoreMove(c)
  BY <1>2, Zenon DEF StoreMove, Store!TryProcess, Store!Move
<1> QED BY <1>3, <1>4, Zenon DEF Stored

LEMMA StoreOpens ==
    ASSUME TypeInv, DecisionInv, MarkInv, ConnectAdmit \/ ConnectSupersede
    PROVE  MarkInv' /\ Stored
<1>0. /\ events # <<>> /\ Head(events).type = "CONNECT" /\ lpc = "idle"
      /\ UNCHANGED <<rpc, rsid, decided>>
      /\ DOMAIN sess = Cids /\ DOMAIN tpc = Cids
  BY Zenon DEF ConnectAdmit, ConnectSupersede, Handling, LoopAt, reqVars, TypeInv,
               TypeOK
<1>1. /\ lcid \in Cids /\ sess[lcid] = "absent" /\ tpc[lcid] = "none"
      /\ decided[lcid] = {} /\ \A r \in Reqs : rsid[r] # lcid
  <2>1. lpc \notin {"pend", "superseded"}
    BY <1>0
  <2> QED BY <1>0, <2>1, HeadIsFresh, Zenon DEF DecisionInv, Untouched
<1>2. MarksKept
  <2>1. tpc' = tpc \/ tpc' = CancelTimeout(Existing)
    BY Zenon DEF ConnectAdmit, ConnectSupersede, goVars
  <2>2. \A c \in Cids : tpc'[c] = "won" => tpc[c] = "won"
    BY <1>0, <2>1 DEF CancelTimeout
  <2> QED BY <1>0, <2>2, Zenon DEF MarksKept
<1>3. ASSUME NEW c \in Cids, c = lcid PROVE NoMarker(c)
  <2>1. \A a \in Waiters : ~Marks(a, c)
    BY <1>1, <1>3 DEF Marks
  <2> QED BY <1>2, <2>1, KeptMarks, Zenon DEF NoMarker
<1>4. CASE ConnectAdmit
  <2>1. sess' = [sess EXCEPT ![lcid] = "PENDING"]
    BY <1>4, Zenon DEF ConnectAdmit
  <2>2. ASSUME NEW c \in Cids PROVE MarkerSame(c) \/ NoMarker(c)
    <3>1. CASE c = lcid
      BY <1>3, <3>1, Zenon
    <3>2. CASE c # lcid
      BY <1>0, <1>2, <2>1, <3>2, KeptMarks, Zenon DEF MarkerSame
    <3> QED BY <3>1, <3>2
  <2>3. StoreMove(lcid)
    BY <1>0, <1>1, <2>1, Zenon DEF StoreMove, Store!Put, Store!Move
  <2> QED BY <1>1, <2>2, <2>3, MarkStep, Zenon DEF Stored
<1>5. CASE ConnectSupersede
  <2>1. /\ Existing \in Cids /\ sess[Existing] = "PENDING"
        /\ sess' = [sess EXCEPT ![Existing] = "FAILED", ![lcid] = "PENDING"]
    <3>1. Existing # None
      BY <1>5, Zenon DEF ConnectSupersede, Held
    <3>2. attempt[Identity(lcid)] \in OptCid
      BY <1>1, IdentityType, Zenon DEF TypeInv, TypeOK
    <3> QED BY <1>5, <3>1, <3>2, Zenon DEF ConnectSupersede, Supersedable, OptCid, Existing
  <2>2. PICK old \in Cids : old = Existing
    BY <2>1, Zenon
  <2>3. old # lcid /\ sess[old] = "PENDING"
    BY <1>1, <2>1, <2>2
  <2>4. ASSUME NEW c \in Cids PROVE MarkerSame(c) \/ NoMarker(c)
    <3>1. CASE c = lcid
      BY <1>3, <3>1, Zenon
    <3>2. CASE c = old
      <4>1. \A a \in Waiters : ~Marks(a, old)
        BY <2>3 DEF MarkInv
      <4> QED BY <1>2, <3>2, <4>1, KeptMarks, Zenon DEF NoMarker
    <3>3. CASE c # lcid /\ c # old
      <4>1. sess'[c] = sess[c]
        BY <1>0, <2>1, <2>2, <3>3, Zenon
      <4> QED BY <1>2, <4>1, KeptMarks, Zenon DEF MarkerSame
    <3> QED BY <3>1, <3>2, <3>3
  <2>5. Store!SupersedePending(old, lcid)
    BY <1>0, <1>1, <2>1, <2>2, <2>3, Zenon DEF Store!SupersedePending
  <2> QED BY <1>1, <2>4, <2>5, MarkStep, Zenon DEF Stored
<1> QED BY <1>4, <1>5

LEMMA LoopStores ==
    ASSUME TypeInv, DecisionInv, MarkInv, LoopNext
    PROVE  MarkInv' /\ Stored
<1>0. DOMAIN tpc = Cids /\ ClaimInv
  BY Zenon DEF TypeInv, TypeOK, DecisionInv
<1>1. CASE \/ ConnectReject \/ ConnectBusy \/ ConnectPromotedConflict
           \/ ConflictAbsent \/ ConflictEstablished \/ ConflictUndecided
  BY <1>1, StoreIdle, Zenon
     DEF MarksKept, ConnectReject, ConnectBusy, ConnectPromotedConflict, ConflictAbsent,
         ConflictEstablished, ConflictUndecided, goVars, reqVars
<1>2. CASE DenySuperseded \/ DenyConnect
  <2>1. MarksKept /\ UNCHANGED sess
    BY <1>2, Zenon DEF MarksKept, DenySuperseded, DenyConnect, goVars, reqVars
  <2>2. Loop \in Waiters /\ "deny" \in {"allow", "deny"}
    BY DEF Waiters, Actors
  <2>3. CASE DenySuperseded
    <3>1. lold \in Cids /\ Claims(Loop, lold) /\ Answered(lold, "deny")
      BY <2>3, Zenon DEF DenySuperseded, LoopAt, Claims, TypeInv, KnowsItsCids
    <3> QED BY <1>0, <2>1, <2>2, <3>1, StoreAnswers, Zenon
  <2>4. CASE DenyConnect
    <3>1. lcid \in Cids
      BY <2>4, LcidType DEF DenyConnect, LoopAt, TypeInv, KnowsItsCids
    <3>2. Claims(Loop, lcid) /\ Answered(lcid, "deny")
      BY <2>4, Zenon DEF DenyConnect, LoopAt, Claims
    <3> QED BY <1>0, <2>1, <2>2, <3>1, <3>2, StoreAnswers, Zenon
  <2> QED BY <1>2, <2>3, <2>4
<1>3. CASE SendPending
  <2>1. UNCHANGED <<rpc, rsid, sess, decided>> /\ tpc' = [tpc EXCEPT ![lcid] = "wait"]
    BY <1>3, Zenon DEF SendPending, reqVars
  <2>2. \A c \in Cids : tpc'[c] = "won" => tpc[c] = "won"
    BY <1>0, <2>1
  <2> QED BY <2>1, <2>2, StoreIdle, Zenon DEF MarksKept
<1>4. CASE Established \/ Disconnect
  <2>1. /\ UNCHANGED <<rpc, rsid, decided>> /\ lcid \in Cids
        /\ PromoteSession(lcid) \/ HandleDisconnect(lcid)
    BY <1>4, LcidType, Zenon DEF Established, Disconnect, Handling, reqVars, TypeInv
  <2>2. /\ sess' \in {sess, [sess EXCEPT ![lcid] = "absent"]}
        /\ tpc' = tpc \/ tpc' = CancelTimeout(lcid)
    BY <2>1, Zenon DEF PromoteSession, HandleDisconnect
  <2>3. \A c \in Cids : tpc'[c] = "won" => tpc[c] = "won"
    BY <1>0, <2>2 DEF CancelTimeout
  <2> QED BY <2>1, <2>2, <2>3, StoreDeletes, Zenon DEF MarksKept
<1> QED BY <1>1, <1>2, <1>3, <1>4, StoreOpens, Zenon DEF LoopNext

LEMMA EstStores ==
    ASSUME TypeInv, MarkInv, NEW a \in Actors, StatusNext(a) \/ EstNext(a)
    PROVE  MarkInv' /\ Stored
<1>0. DOMAIN tpc = Cids
  BY Zenon DEF TypeInv, TypeOK
<1>1. CASE EstReconcile(a)
  <2>1. UNCHANGED <<rpc, rsid, decided>> /\ est[a].old \in Cids
    BY <1>1, Zenon DEF EstReconcile, TypeInv, KnowsItsCids, reqVars
  <2>2. /\ sess' \in {sess, [sess EXCEPT ![est[a].old] = "absent"]}
        /\ tpc' = tpc \/ tpc' = CancelTimeout(est[a].old)
    BY <1>1, Zenon DEF EstReconcile, HandleDisconnect
  <2>3. \A c \in Cids : tpc'[c] = "won" => tpc[c] = "won"
    BY <1>0, <2>2 DEF CancelTimeout
  <2> QED BY <2>1, <2>2, <2>3, StoreDeletes, Zenon DEF MarksKept
<1>2. CASE ~EstReconcile(a)
  BY <1>2, StoreIdle, Zenon
     DEF MarksKept, StatusNext, StatusTake, StatusFails, EstNext, EstLock, EstTimer,
         EstKill, EstKillAccepted, EstKillFailed, daemonVars, goVars, reqVars
<1> QED BY <1>1, <1>2

LEMMA TimersStore ==
    ASSUME TypeInv, DecisionInv, MarkInv, NEW c \in Cids,
           DeadlineNext(c) \/ TimeoutNext(c) \/ ExpiryNext(c) \/ Reap(c)
    PROVE  MarkInv' /\ Stored
<1>0. /\ DOMAIN tpc = Cids /\ ClaimInv /\ c \in Waiters /\ c \notin Reqs
      /\ "deny" \in {"allow", "deny"} /\ "FAILED" \in {"PENDING", "DONE", "FAILED"}
  BY ConstantsAssumption, Zenon
     DEF TypeInv, TypeOK, DecisionInv, Waiters, Actors, ConstantsAssumption
<1>1. CASE DeadlineNext(c) \/ ExpiryNext(c)
  BY <1>1, StoreIdle, Zenon
     DEF MarksKept, DeadlineNext, DeadlineFires, DeadlineCancelled, DeadlineReconciles,
         DeadlineChecks, DeadlineKills, DeadlineAcked, ExpiryNext, ExpiryFires,
         ExpiryKills, reqVars
<1>2. CASE Reap(c)
  BY <1>2, StoreDeletes, Zenon DEF MarksKept, Reap, goVars, reqVars
<1>3. CASE TimeoutFires(c) /\ sess[c] = "PENDING"
  <2>1. /\ UNCHANGED <<rpc, rsid, decided>> /\ tpc' = [tpc EXCEPT ![c] = "won"]
        /\ Mark(c, "PROCESSING")
    BY <1>3, Zenon DEF TimeoutFires, TimeoutGo, reqVars
  <2>2. ASSUME NEW e \in Cids, NEW b \in Waiters, Marks(b, e)'
        PROVE  Marks(b, e) \/ (b = c /\ e = c)
    <3>1. CASE e = c
      BY <2>1, <2>2, <3>1, Zenon DEF Marks
    <3>2. CASE e # c
      <4>1. tpc'[e] = tpc[e]
        BY <1>0, <2>1, <3>2, Zenon
      <4> QED BY <2>1, <2>2, <4>1, Zenon DEF Marks
    <3> QED BY <3>1, <3>2
  <2> QED BY <1>0, <1>3, <2>1, <2>2, StoreClaims, Zenon
<1>4. CASE \/ TimeoutFires(c) /\ sess[c] # "PENDING"
           \/ TimeoutClears(c)
  <2>1. /\ UNCHANGED <<rpc, rsid, sess, decided>>
        /\ \E p \in {"clear", "done"} : tpc' = [tpc EXCEPT ![c] = p]
    BY <1>4, Zenon DEF TimeoutFires, TimeoutClears, TimeoutGo, reqVars
  <2>2. \A d \in Cids : tpc'[d] = "won" => tpc[d] = "won"
    BY <1>0, <2>1
  <2> QED BY <2>1, <2>2, StoreIdle, Zenon DEF MarksKept
<1>5. CASE TimeoutMarksFailed(c)
  <2>1. /\ UNCHANGED <<rpc, rsid, decided>> /\ tpc' = [tpc EXCEPT ![c] = "deny"]
        /\ Mark(c, "FAILED") /\ tpc[c] = "won"
    BY <1>5, Zenon DEF TimeoutMarksFailed, TimeoutGo, reqVars
  <2>2. (\A d \in Cids : tpc'[d] = "won" => tpc[d] = "won") /\ tpc'[c] # "won"
    BY <1>0, <2>1
  <2>3. Marks(c, c) /\ ~Marks(c, c)'
    BY <1>0, <2>1, <2>2, Zenon DEF Marks
  <2>4. "FAILED" # "PENDING"
    OBVIOUS
  <2> QED BY <1>0, <2>1, <2>2, <2>3, <2>4, StoreMarks, Zenon DEF MarksKept
<1>6. CASE TimeoutDenies(c)
  <2>1. /\ UNCHANGED <<rpc, rsid, sess>> /\ tpc' = [tpc EXCEPT ![c] = "clear"]
        /\ Answered(c, "deny") \/ UNCHANGED decided
        /\ tpc[c] = "deny"
    BY <1>6, Zenon DEF TimeoutDenies, TimeoutGo, reqVars
  <2>2. \A d \in Cids : tpc'[d] = "won" => tpc[d] = "won"
    BY <1>0, <2>1
  <2>3. Claims(c, c)
    BY <2>1, Zenon DEF Claims
  <2> QED BY <1>0, <2>1, <2>2, <2>3, StoreAnswers, StoreIdle, Zenon DEF MarksKept
<1> QED BY <1>1, <1>2, <1>3, <1>4, <1>5, <1>6, Zenon DEF TimeoutNext

LEMMA CallbackStores ==
    ASSUME TypeInv, DecisionInv, MarkInv, NEW r \in Reqs,
           CallbackStart(r) \/ CallbackNext(r)
    PROVE  MarkInv' /\ Stored
<1>0. /\ DOMAIN tpc = Cids /\ DOMAIN rpc = Reqs /\ DOMAIN rsid = Reqs /\ ClaimInv
      /\ r \in Waiters /\ r \notin Cids
  BY ConstantsAssumption, Zenon
     DEF TypeInv, TypeOK, DecisionInv, Waiters, ConstantsAssumption
<1>1. CASE CallbackStart(r)
  <2>1. PICK c \in Cids : /\ sess[c] = "PENDING" /\ Mark(c, "PROCESSING")
                          /\ rsid' = [rsid EXCEPT ![r] = c]
    BY <1>1, Zenon DEF CallbackStart, TypeInv, TypeOK
  <2>2. UNCHANGED <<tpc, decided>> /\ rpc' = [rpc EXCEPT ![r] = "verify"]
    BY <1>1, Zenon DEF CallbackStart, goVars
  <2>3. ASSUME NEW e \in Cids, NEW b \in Waiters, Marks(b, e)'
        PROVE  Marks(b, e) \/ (b = r /\ e = c)
    <3>1. CASE b = r
      <4>1. rsid'[r] = c
        BY <1>0, <2>1, Zenon
      <4> QED BY <1>0, <2>3, <3>1, <4>1, Zenon DEF Marks
    <3>2. CASE b # r
      <4>1. b \in Reqs => rpc'[b] = rpc[b] /\ rsid'[b] = rsid[b]
        BY <1>0, <2>1, <2>2, <3>2, Zenon
      <4> QED BY <2>2, <2>3, <4>1, Zenon DEF Marks
    <3> QED BY <3>1, <3>2
  <2>4. \A e \in Cids : \A b \in Waiters :
           Marks(b, e)' => Marks(b, e) \/ (b = r /\ e = c)
    BY <2>3, Zenon
  <2>5. UNCHANGED decided /\ r \in Waiters
    BY <1>0, <2>2, Zenon
  <2> QED BY <2>1, <2>4, <2>5, StoreClaims, Zenon
<1>2. ASSUME CallbackNext(r) PROVE rsid[r] \in Cids
  BY <1>2, Zenon DEF CallbackNext, CallbackRetryable, CallbackReject, CallbackDenies,
              CallbackAllows, CallbackAllowDropped, CallbackRefused,
              CallbackMarksAuthenticated, CallbackMarksDone, TypeInv, KnowsItsCids
<1>3. ASSUME NEW st \in {"PENDING", "DONE", "FAILED"}, rsid[r] \in Cids,
             rpc[r] \in {"verify", "ackwait", "markdone"},
             Mark(rsid[r], st), UNCHANGED <<tpc, rsid, decided>>,
             st = "PENDING" => decided[rsid[r]] = {},
             NEW p \in {"done", "deny", "failed"}, rpc' = [rpc EXCEPT ![r] = p]
      PROVE  MarkInv' /\ Stored
  <2>1. rpc'[r] \notin {"verify", "ackwait", "markdone"}
    BY <1>0, <1>3
  <2>2. MarksKept
    <3>1. ASSUME NEW q \in Reqs, rpc'[q] \in {"verify", "ackwait", "markdone"}
          PROVE  rpc[q] \in {"verify", "ackwait", "markdone"}
      BY <1>0, <1>3, <2>1, <3>1, Zenon
    <3> QED BY <1>3, <3>1, Zenon DEF MarksKept
  <2>3. PICK c \in Cids : c = rsid[r]
    BY <1>3, Zenon
  <2>4. Marks(r, c) /\ ~Marks(r, c)'
    BY <1>0, <1>3, <2>1, <2>3, Zenon DEF Marks
  <2> QED BY <1>0, <1>3, <2>2, <2>3, <2>4, StoreMarks, Zenon
<1>4. ASSUME NEW d \in {"allow", "deny"}, rsid[r] \in Cids, rpc[r] \in {"verify", "deny"},
             Answered(rsid[r], d) \/ UNCHANGED decided, UNCHANGED <<sess, tpc, rsid>>,
             \/ rpc' = [rpc EXCEPT ![r] = "done"]
             \/ rpc[r] = "verify" /\ rpc' = [rpc EXCEPT ![r] = "ackwait"]
      PROVE  MarkInv' /\ Stored
  <2>1. MarksKept
    <3>1. ASSUME NEW q \in Reqs, rpc'[q] \in {"verify", "ackwait", "markdone"}
          PROVE  rpc[q] \in {"verify", "ackwait", "markdone"}
      BY <1>0, <1>4, <3>1, Zenon
    <3> QED BY <1>4, <3>1, Zenon DEF MarksKept
  <2>2. Claims(r, rsid[r])
    BY <1>4, Zenon DEF Claims
  <2> QED BY <1>0, <1>4, <2>1, <2>2, StoreAnswers, StoreIdle, Zenon
<1>5. CASE \/ CallbackReject(r) \/ CallbackAllowDropped(r)
           \/ CallbackRefused(r) \/ CallbackMarksDone(r)
  <2>1. rsid[r] \in Cids /\ UNCHANGED <<tpc, rsid, decided>>
    BY <1>2, <1>5, Zenon
       DEF CallbackNext, CallbackReject, CallbackAllowDropped, CallbackRefused,
           CallbackMarksDone, RequestGo, goVars
  <2>2. \E st \in {"DONE", "FAILED"} : Mark(rsid[r], st)
    BY <1>5, Zenon DEF CallbackReject, CallbackAllowDropped, CallbackRefused,
                       CallbackMarksDone
  <2>3. /\ rpc[r] \in {"verify", "ackwait", "markdone"}
        /\ \E p \in {"done", "deny", "failed"} : rpc' = [rpc EXCEPT ![r] = p]
    BY <1>5, Zenon DEF CallbackReject, CallbackAllowDropped, CallbackRefused,
                       CallbackMarksDone, RequestGo
  <2>4. \A st \in {"DONE", "FAILED"} : /\ st \in {"PENDING", "DONE", "FAILED"}
                                       /\ st # "PENDING"
    OBVIOUS
  <2> QED BY <1>3, <2>1, <2>2, <2>3, <2>4, Zenon
<1>6. CASE CallbackRetryable(r)
  <2>1. /\ rsid[r] \in Cids /\ UNCHANGED <<tpc, rsid, decided>>
        /\ Mark(rsid[r], "PENDING") /\ rpc[r] = "verify"
        /\ rpc' = [rpc EXCEPT ![r] = "done"]
    BY <1>2, <1>6, Zenon DEF CallbackNext, CallbackRetryable, RequestGo, goVars
  <2>2. Claims(r, rsid[r])
    BY <2>1, Zenon DEF Claims
  <2>3. decided[rsid[r]] = {}
    BY <1>0, <2>1, <2>2, Zenon DEF ClaimInv
  <2>4. "PENDING" \in {"PENDING", "DONE", "FAILED"} /\ "done" \in {"done", "deny", "failed"}
        /\ rpc[r] \in {"verify", "ackwait", "markdone"}
    BY <2>1
  <2> QED BY <1>3, <2>1, <2>3, <2>4, Zenon
<1>7. CASE CallbackDenies(r) \/ CallbackAllows(r)
  <2>1. rsid[r] \in Cids /\ UNCHANGED <<sess, tpc, rsid>>
    BY <1>2, <1>7, Zenon
       DEF CallbackNext, CallbackDenies, CallbackAllows, RequestGo, goVars
  <2>2. /\ rpc[r] \in {"verify", "deny"}
        /\ \E d \in {"allow", "deny"} : Answered(rsid[r], d) \/ UNCHANGED decided
        /\ \/ rpc' = [rpc EXCEPT ![r] = "done"]
           \/ rpc[r] = "verify" /\ rpc' = [rpc EXCEPT ![r] = "ackwait"]
    BY <1>7, Zenon DEF CallbackDenies, CallbackAllows, RequestGo
  <2> QED BY <1>4, <2>1, <2>2, Zenon
<1>8. CASE CallbackMarksAuthenticated(r)
  <2>1. /\ rsid[r] \in Cids /\ UNCHANGED <<rsid, decided>> /\ rpc[r] = "ackwait"
        /\ rpc' = [rpc EXCEPT ![r] = "markdone"] /\ PromoteSession(rsid[r])
    BY <1>2, <1>8, Zenon DEF CallbackNext, CallbackMarksAuthenticated, RequestGo
  <2>2. /\ sess' \in {sess, [sess EXCEPT ![rsid[r]] = "absent"]}
        /\ tpc' = tpc \/ tpc' = CancelTimeout(rsid[r])
    BY <2>1, Zenon DEF PromoteSession
  <2>3. \A c \in Cids : tpc'[c] = "won" => tpc[c] = "won"
    BY <1>0, <2>2 DEF CancelTimeout
  <2>4. ASSUME NEW q \in Reqs, rpc'[q] \in {"verify", "ackwait", "markdone"}
        PROVE  rpc[q] \in {"verify", "ackwait", "markdone"}
    BY <1>0, <2>1, <2>4, Zenon
  <2> QED BY <2>1, <2>2, <2>3, <2>4, StoreDeletes, Zenon DEF MarksKept
<1> QED BY <1>1, <1>5, <1>6, <1>7, <1>8, Zenon DEF CallbackNext

LEMMA StoreStep ==
    ASSUME TypeInv, DecisionInv, MarkInv, [Next]_vars PROVE MarkInv' /\ Stored
<1>1. ASSUME \/ Execute \/ UNCHANGED vars
             \/ \E c \in Cids : VpnConnect(c) \/ VpnEstablish(c) \/ VpnLeave(c)
      PROVE  MarkInv' /\ Stored
  BY <1>1, StoreIdle, Zenon
     DEF MarksKept, Execute, VpnConnect, VpnEstablish, VpnLeave, daemonVars, goVars,
         reqVars, vars
<1> QED BY <1>1, LoopStores, EstStores, TimersStore, CallbackStores, Zenon DEF Next

\* The event loop, the auth timeouts, the callbacks and the reaper use the
\* permissive session store as its protocol says, for any number of clients and
\* requests: no late MarkDone, MarkFailed or MarkPending overwrites a status,
\* and each session is answered at most once, by whoever claimed it.
THEOREM HandlerStoreRefined == Spec => ImplementsSessionStore
<1> DEFINE StoreInv == TypeInv /\ DecisionInv /\ MarkInv
<1>1. Init => StoreInv
  <2>1. Init => MarkInv
    BY Zenon DEF Init, MarkInv, Marks
  <2> QED BY <2>1, TypeInvInit, DecisionInvInit, Zenon
<1>2. StoreInv /\ [Next]_vars => StoreInv'
  BY TypeInvStep, DecisionInvStep, StoreStep, Zenon
<1>3. Init => Store!StoreInit
  <2> SUFFICES ASSUME Init PROVE Store!StoreInit
    OBVIOUS
  <2>1. sess = [c \in Cids |-> "absent"] /\ decided = [c \in Cids |-> {}]
    BY Zenon DEF Init
  <2>2. decided \in [Cids -> {{}} \cup {{d} : d \in {"allow", "deny"}}]
    BY <2>1
  <2> QED BY <2>1, <2>2, Zenon DEF Store!StoreInit, Store!Answers
<1>4. StoreInv /\ [Next]_vars => [Store!StoreNext]_(Store!storeVars)
  <2>1. Stored => Store!StoreNext \/ UNCHANGED <<sess, decided>>
    BY Zenon DEF Stored, StoreMove, Store!StoreNext, Store!Answers
  <2> QED BY <2>1, StoreStep, Zenon DEF Store!storeVars
<1> HIDE DEF StoreInv
<1> QED BY <1>1, <1>2, <1>3, <1>4, PTL
        DEF Spec, ImplementsSessionStore, Store!StoreSpec

-----------------------------------------------------------------------------
(* What the handler remembers of its clients. *)

WasUp(c) == vpn[c] \in {"up", "gone"}

\* Notifications lag behind OpenVPN, and CONNECT is the first of its CID.
Late(e) ==
    /\ vpn[e.cid] # "none"
    /\ e.type = "ESTABLISHED" => WasUp(e.cid)
    /\ e.type = "DISCONNECT" => vpn[e.cid] = "gone"

First(i) ==
    events[i].type = "CONNECT" =>
        \A j \in DOMAIN events : events[j].cid = events[i].cid => i <= j

EventInv == \A i \in DOMAIN events : Late(events[i]) /\ First(i)

\* The attempt index, and whose attempts it names.
Attempting(c) == "cancel" \in cids[c] \/ "promoted" \in cids[c]

IndexInv ==
    /\ \A c \in Cids : attempt[Identity(c)] = c <=> Attempting(c)
    /\ \A i \in Identities : attempt[i] # None => Identity(attempt[i]) = i

\* The life of a cidState: in flight, promoted, established.
Phase(c) ==
    /\ cids[c] # {} => "tracked" \in cids[c] /\ vpn[c] # "none"
    /\ "cancel" \in cids[c] =>
          "promoted" \notin cids[c] /\ "established" \notin cids[c]
    /\ "promoted" \in cids[c] => "established" \notin cids[c]

PhaseInv == \A c \in Cids : Phase(c)

\* a is in a call of establishCID for c.
Establishing(a, c) == est[a].pc # "none" /\ est[a].cid = c

\* Nobody follows a CID that is in flight ...
Unfollowed(c) ==
    /\ dpc[c] = "none"
    /\ \A a \in Actors : ~Establishing(a, c)
    /\ lpc = "status" => lold # c

CancelInv == \A c \in Cids : "cancel" \in cids[c] => Unfollowed(c)

\* ... or whose CONNECT has not been handled.
NewInv ==
    \A c \in Cids : Fresh(c) => Unfollowed(c) /\ (cids[c] = {} \/ Admitted(c))

\* An establishCID call is about CIDs that have been up, and the caller does
\* nothing else meanwhile.
FrameInv ==
    /\ \A a \in Actors :
          est[a].pc # "none" =>
              /\ WasUp(est[a].cid)
              /\ est[a].old # None => WasUp(est[a].old)
    /\ \A c \in Cids : est[c].pc # "none" => est[c].cid = c /\ dpc[c] = "done"
    /\ lpc = "status" => est[Loop].pc = "none"

\* A status row that waits to be used is about the CID it was read for.
SnapInv ==
    \A a \in Actors :
        /\ snap[a] # "none" => StatusWanted(a) # {}
        /\ \A c \in StatusWanted(a) :
              /\ snap[a] = "established" => WasUp(c)
              /\ snap[a] = "absent" => vpn[c] = "gone"

TrackingInv ==
    /\ EventInv /\ IndexInv /\ ActiveIsReal /\ PhaseInv
    /\ CancelInv /\ NewInv /\ FrameInv /\ SnapInv

-----------------------------------------------------------------------------
(* OpenVPN and its notifications. *)

\* A client's life goes on in one direction.
VpnOnwards ==
    \A c \in Cids : /\ vpn'[c] = "none" => vpn[c] = "none"
                    /\ WasUp(c) => WasUp(c)'
                    /\ vpn[c] = "gone" => vpn'[c] = "gone"

LEMMA VpnStays == ASSUME UNCHANGED vpn PROVE VpnOnwards
BY Zenon DEF VpnOnwards, WasUp

LEMMA VpnMoves ==
    ASSUME TypeOK, \/ Execute
                   \/ \E c \in Cids : VpnConnect(c) \/ VpnEstablish(c) \/ VpnLeave(c)
    PROVE  VpnOnwards
<1>d. DOMAIN vpn = Cids
  BY Zenon DEF TypeOK
<1>1. CASE Execute
  <2>1. \/ vpn' = vpn
        \/ /\ vpn[Head(cmds).cid] = "pending"
           /\ vpn' = [vpn EXCEPT ![Head(cmds).cid] = "authed"]
    BY <1>1, Zenon DEF Execute, Accepts
  <2> QED BY <1>d, <2>1 DEF VpnOnwards, WasUp
<1>2. ASSUME NEW c \in Cids, VpnConnect(c) \/ VpnEstablish(c) PROVE VpnOnwards
  BY <1>d, <1>2 DEF VpnConnect, VpnEstablish, VpnOnwards, WasUp
<1>3. ASSUME NEW c \in Cids, VpnLeave(c) PROVE VpnOnwards
  BY <1>d, <1>3 DEF VpnLeave, VpnOnwards, WasUp
<1> QED BY <1>1, <1>2, <1>3, Zenon

LEMMA EventCid == ASSUME TypeOK, NEW i \in DOMAIN events PROVE events[i].cid \in Cids
<1>1. events[i] \in Events
  BY DEF TypeOK
<1> QED BY <1>1, Zenon DEF Events

LEMMA StillLate ==
    ASSUME VpnOnwards, NEW e, e.cid \in Cids, Late(e) PROVE Late(e)'
BY Zenon DEF Late, VpnOnwards

LEMMA EventsSame ==
    ASSUME TypeOK, EventInv, VpnOnwards, UNCHANGED events PROVE EventInv'
<1> SUFFICES ASSUME NEW i \in DOMAIN events PROVE Late(events[i])' /\ First(i)'
  BY Zenon DEF EventInv
<1>1. Late(events[i])'
  BY EventCid, StillLate, Zenon DEF EventInv, Late
<1>2. First(i)'
  BY Zenon DEF EventInv, First
<1> QED BY <1>1, <1>2

LEMMA EventQueued ==
    ASSUME TypeOK, EventInv, VpnOnwards, NEW e \in Events,
           events' = Append(events, e), Late(e)',
           e.type = "CONNECT" => vpn[e.cid] = "none"
    PROVE  EventInv'
<1>1. /\ Len(events) \in Nat
      /\ DOMAIN events = 1 .. Len(events)
      /\ DOMAIN events' = 1 .. (Len(events) + 1)
      /\ \A i \in 1 .. Len(events) : events'[i] = events[i]
      /\ events'[Len(events) + 1] = e
  <2>1. events \in Seq(Events)
    BY Zenon DEF TypeOK
  <2> QED BY <2>1
<1> SUFFICES ASSUME NEW i \in DOMAIN events' PROVE Late(events[i])' /\ First(i)'
  BY Zenon DEF EventInv
<1>3. CASE i \in DOMAIN events
  <2>1. events'[i] = events[i]
    BY <1>1, <1>3, Zenon
  <2>2. ASSUME events[i].type = "CONNECT", NEW j \in DOMAIN events',
               events'[j].cid = events[i].cid
        PROVE  i <= j
    <3>1. CASE j \in DOMAIN events
      BY <1>1, <1>3, <2>2, <3>1, Zenon DEF EventInv, First
    <3>2. CASE j \notin DOMAIN events
      BY <1>1, <1>3, <3>2
    <3> QED BY <3>1, <3>2
  <2>3. First(i)'
    BY <2>1, <2>2, Zenon DEF First
  <2>4. Late(events[i])'
    BY <1>3, <2>1, EventCid, StillLate, Zenon DEF EventInv, Late
  <2> QED BY <2>3, <2>4, Zenon
<1>4. CASE i \notin DOMAIN events
  <2>1. i = Len(events) + 1 /\ events'[i] = e
    BY <1>1, <1>4
  <2>2. ASSUME e.type = "CONNECT", NEW j \in DOMAIN events', events'[j].cid = e.cid
        PROVE  i <= j
    <3>1. j \notin DOMAIN events
      BY <1>1, <2>2, Zenon DEF EventInv, Late
    <3> QED BY <1>1, <2>1, <3>1
  <2>3. First(i)'
    BY <2>1, <2>2, Zenon DEF First
  <2>4. Late(events[i])'
    BY <2>1, Zenon DEF Late
  <2> QED BY <2>3, <2>4
<1> QED BY <1>3, <1>4

LEMMA EventTaken ==
    ASSUME TypeOK, EventInv, UNCHANGED vpn, events # <<>>, events' = Tail(events)
    PROVE  EventInv'
<1>1. /\ Len(events) \in Nat \ {0}
      /\ DOMAIN events = 1 .. Len(events)
      /\ DOMAIN events' = 1 .. (Len(events) - 1)
      /\ \A i \in 1 .. (Len(events) - 1) : events'[i] = events[i + 1]
  BY DEF TypeOK
<1>2. \A i \in DOMAIN events' : i + 1 \in DOMAIN events /\ events'[i] = events[i + 1]
  BY <1>1
<1>3. \A i, j \in DOMAIN events' : i + 1 <= j + 1 => i <= j
  BY <1>1
<1> SUFFICES ASSUME NEW i \in DOMAIN events' PROVE Late(events[i])' /\ First(i)'
  BY Zenon DEF EventInv
<1>4. Late(events[i])'
  BY <1>2, Zenon DEF EventInv, Late, WasUp
<1>5. First(i)'
  BY <1>2, <1>3, Zenon DEF EventInv, First
<1> QED BY <1>4, <1>5

\* ESTABLISHED is handled after CONNECT.
LEMMA HeadIsKnown ==
    ASSUME TypeOK, EventInv, events # <<>>
    PROVE  /\ lcid \in Cids /\ vpn[lcid] # "none"
           /\ Head(events).type = "ESTABLISHED" => WasUp(lcid) /\ ~Fresh(lcid)
           /\ Head(events).type = "DISCONNECT" => vpn[lcid] = "gone"
<1>1. 1 \in DOMAIN events /\ Head(events) = events[1]
  BY DEF TypeOK
<1>2. ASSUME Head(events).type # "CONNECT" PROVE ~Queued(lcid)
  <2> SUFFICES ASSUME NEW i \in DOMAIN events, events[i].type = "CONNECT",
                      events[i].cid = lcid
               PROVE  FALSE
    BY Zenon DEF Queued
  <2>1. i <= 1
    BY <1>1, Zenon DEF EventInv, First, lcid
  <2>2. i = 1
    <3>1. i \in Nat \ {0}
      <4>1. events \in Seq(Events)
        BY Zenon DEF TypeOK
      <4>2. DOMAIN events = 1 .. Len(events) /\ Len(events) \in Nat
        BY <4>1
      <4> QED BY <4>2
    <3> QED BY <2>1, <3>1
  <2> QED BY <1>1, <1>2, <2>2, Zenon
<1>3. lcid \in Cids
  BY LcidType, Zenon
<1>4. /\ vpn[lcid] # "none"
      /\ Head(events).type = "ESTABLISHED" => WasUp(lcid)
      /\ Head(events).type = "DISCONNECT" => vpn[lcid] = "gone"
  BY <1>1, Zenon DEF EventInv, Late, lcid
<1> QED BY <1>2, <1>3, <1>4, Zenon DEF Fresh

LEMMA QueueStep ==
    ASSUME TypeInv, FreshInv, EventInv, [Next]_vars
    PROVE  EventInv' /\ VpnOnwards /\ \A c \in Cids : Fresh(c)' => Fresh(c)
<1>t. TypeOK /\ ConnectsDiffer
  BY Zenon DEF TypeInv, FreshInv
<1>0. ASSUME UNCHANGED <<vpn, events>>
      PROVE  EventInv' /\ VpnOnwards /\ \A c \in Cids : Fresh(c)' => Fresh(c)
  <2>1. VpnOnwards
    BY <1>0, VpnStays, Zenon
  <2>2. EventInv'
    BY <1>t, <1>0, <2>1, EventsSame, Zenon
  <2> QED BY <1>0, <2>1, <2>2, Zenon DEF Fresh, Queued
<1>1. ASSUME NEW c \in Cids, NEW e \in Events, events' = Append(events, e),
             e.cid = c, Late(e)', VpnOnwards, e.type = "CONNECT" => vpn[c] = "none"
      PROVE  EventInv' /\ VpnOnwards /\ \A d \in Cids : Fresh(d)' => Fresh(d)
  <2>1. EventInv'
    BY <1>t, <1>1, EventQueued, Zenon
  <2>2. \A d : Queued(d)' => Queued(d) \/ (e.type = "CONNECT" /\ e.cid = d)
    BY <1>t, <1>1, AppendEvent, Zenon
  <2> QED BY <1>1, <2>1, <2>2, Zenon DEF Fresh, VpnOnwards
<1>2. ASSUME NEW c \in Cids, VpnConnect(c) \/ VpnEstablish(c) \/ VpnLeave(c)
      PROVE  EventInv' /\ VpnOnwards /\ \A d \in Cids : Fresh(d)' => Fresh(d)
  <2>d. VpnOnwards /\ DOMAIN vpn = Cids
    BY <1>t, <1>2, VpnMoves, Zenon DEF TypeOK
  <2>1. PICK t \in EventTypes :
           /\ events' = Append(events, [type |-> t, cid |-> c])
           /\ vpn'[c] # "none" /\ (t = "ESTABLISHED" => WasUp(c)')
           /\ (t = "DISCONNECT" => vpn'[c] = "gone")
           /\ (t = "CONNECT" => vpn[c] = "none")
    <3>1. CASE VpnConnect(c)
      <4>1. /\ vpn[c] = "none" /\ vpn'[c] = "pending"
            /\ events' = Append(events, [type |-> "CONNECT", cid |-> c])
        BY <2>d, <3>1, Zenon DEF VpnConnect
      <4> QED BY <4>1, Zenon DEF EventTypes
    <3>2. CASE VpnEstablish(c)
      <4>1. /\ vpn'[c] = "up"
            /\ events' = Append(events, [type |-> "ESTABLISHED", cid |-> c])
        BY <2>d, <3>2, Zenon DEF VpnEstablish
      <4> QED BY <4>1, Zenon DEF EventTypes, WasUp
    <3>3. CASE VpnLeave(c)
      <4>1. /\ vpn'[c] = "gone"
            /\ events' = Append(events, [type |-> "DISCONNECT", cid |-> c])
        BY <2>d, <3>3, Zenon DEF VpnLeave
      <4> QED BY <4>1 DEF EventTypes
    <3> QED BY <1>2, <3>1, <3>2, <3>3, Zenon
  <2> DEFINE e == [type |-> t, cid |-> c]
  <2>2. e \in Events /\ e.type = t /\ e.cid = c
    BY Zenon DEF Events
  <2>3. Late(e)'
    BY <2>1, <2>2, Zenon DEF Late
  <2> HIDE DEF e
  <2>4. events' = Append(events, e)
    BY <2>1, Zenon DEF e
  <2> QED BY <1>1, <2>d, <2>1, <2>2, <2>3, <2>4, Zenon
<1>3. CASE Execute
  <2>1. VpnOnwards /\ UNCHANGED events
    BY <1>t, <1>3, VpnMoves, Zenon DEF Execute
  <2>2. EventInv'
    BY <1>t, <2>1, EventsSame, Zenon
  <2> QED BY <2>1, <2>2, Zenon DEF Fresh, Queued, VpnOnwards
<1>4. CASE SendPending \/ DenyConnect \/ Established \/ Disconnect
  <2>1. UNCHANGED vpn /\ events' = Tail(events)
    BY <1>4, Zenon DEF SendPending, DenyConnect, Established, Disconnect, LoopReturn
  <2>2. events # <<>>
    BY <1>4, Zenon DEF SendPending, DenyConnect, Established, Disconnect, LoopAt,
                       Handling, TypeInv, KnowsItsCids
  <2>3. \A c : Queued(c)' => Queued(c)
    BY <1>t, <2>1, <2>2, TailEvent, Zenon
  <2>4. EventInv'
    BY <1>t, <2>1, <2>2, EventTaken, Zenon
  <2> QED BY <2>1, <2>3, <2>4, VpnStays, Zenon DEF Fresh
<1>5. CASE \/ ConnectReject \/ ConnectAdmit \/ ConnectSupersede \/ ConnectBusy
           \/ ConnectPromotedConflict \/ ConflictAbsent \/ ConflictEstablished
           \/ ConflictUndecided \/ DenySuperseded
  BY <1>0, <1>5, Zenon
     DEF ConnectReject, ConnectAdmit, ConnectSupersede, ConnectBusy,
         ConnectPromotedConflict, ConflictAbsent, ConflictEstablished,
         ConflictUndecided, DenySuperseded, ovpnVars
<1>6. ASSUME NEW a \in Actors, StatusNext(a) \/ EstNext(a)
      PROVE  UNCHANGED <<vpn, events>>
  BY <1>6, Zenon DEF StatusNext, StatusTake, StatusFails, EstNext, EstLock, EstTimer,
               EstKill, EstKillAccepted, EstKillFailed, EstReconcile, ovpnVars
<1>7. ASSUME NEW c \in Cids,
             DeadlineNext(c) \/ TimeoutNext(c) \/ ExpiryNext(c) \/ Reap(c)
      PROVE  UNCHANGED <<vpn, events>>
  BY <1>7, Zenon
     DEF DeadlineNext, DeadlineFires, DeadlineCancelled, DeadlineReconciles,
         DeadlineChecks, DeadlineKills, DeadlineAcked, TimeoutNext, TimeoutFires,
         TimeoutMarksFailed, TimeoutDenies, TimeoutClears, ExpiryNext,
         ExpiryFires, ExpiryKills, Reap, ovpnVars
<1>8. ASSUME NEW r \in Reqs, CallbackStart(r) \/ CallbackNext(r)
      PROVE  UNCHANGED <<vpn, events>>
  BY <1>8, Zenon
     DEF CallbackStart, CallbackNext, CallbackRetryable, CallbackReject,
         CallbackDenies, CallbackAllows, CallbackAllowDropped, CallbackRefused,
         CallbackMarksAuthenticated, CallbackMarksDone, ovpnVars
<1>9. CASE UNCHANGED vars
  BY <1>0, <1>9, Zenon DEF vars
<1> QED BY <1>0, <1>2, <1>3, <1>4, <1>5, <1>6, <1>7, <1>8, <1>9, Zenon
        DEF Next, LoopNext

-----------------------------------------------------------------------------
(* The two indexes, and the flags they are about. *)

LEMMA NoneIsNoCid == None \notin Cids
BY ConstantsAssumption, Zenon DEF ConstantsAssumption

LEMMA IndexFlags ==
    ASSUME IndexInv, UNCHANGED attempt,
           \A d \in Cids : Attempting(d)' <=> Attempting(d)
    PROVE  IndexInv'
BY Zenon DEF IndexInv

LEMMA IndexForgets ==
    ASSUME TypeOK, IndexInv, NEW c \in Cids, attempt' = Forget(attempt, c),
           ~Attempting(c)',
           \A d \in Cids \ {c} : Attempting(d)' <=> Attempting(d)
    PROVE  IndexInv'
<1>1. DOMAIN attempt = Identities /\ \A d \in Cids : Identity(d) \in Identities
  BY IdentityType, Zenon DEF TypeOK
<1>2. \A i \in Identities :
         attempt'[i] = IF i = Identity(c) /\ attempt[i] = c THEN None ELSE attempt[i]
  BY <1>1, Zenon DEF Forget
<1>3. attempt'[Identity(c)] # c
  BY <1>1, <1>2, NoneIsNoCid, Zenon
<1>4. ASSUME NEW d \in Cids \ {c}
      PROVE  attempt'[Identity(d)] = d <=> attempt[Identity(d)] = d
  BY <1>1, <1>2, NoneIsNoCid, Zenon
<1>5. ASSUME NEW d \in Cids PROVE attempt'[Identity(d)] = d <=> Attempting(d)'
  BY <1>3, <1>4, Zenon DEF IndexInv
<1>6. \A i \in Identities : attempt'[i] # None => Identity(attempt'[i]) = i
  BY <1>2, Zenon DEF IndexInv
<1> QED BY <1>5, <1>6, Zenon DEF IndexInv

LEMMA IndexTakes ==
    ASSUME TypeOK, IndexInv, NEW c \in Cids,
           attempt' = [attempt EXCEPT ![Identity(c)] = c], Attempting(c)',
           \A d \in Cids \ {c} :
               Attempting(d)' <=> Attempting(d) /\ Identity(d) # Identity(c)
    PROVE  IndexInv'
<1>1. DOMAIN attempt = Identities /\ \A d \in Cids : Identity(d) \in Identities
  BY IdentityType, Zenon DEF TypeOK
<1>2. \A i \in Identities :
         attempt'[i] = IF i = Identity(c) THEN c ELSE attempt[i]
  BY <1>1, Zenon
<1>3. ASSUME NEW d \in Cids PROVE attempt'[Identity(d)] = d <=> Attempting(d)'
  BY <1>1, <1>2, Zenon DEF IndexInv
<1>4. \A i \in Identities : attempt'[i] # None => Identity(attempt'[i]) = i
  BY <1>2, Zenon DEF IndexInv
<1> QED BY <1>3, <1>4, Zenon DEF IndexInv

\* An owner is given up, or stays what it is.
LEMMA RealKept ==
    ASSUME TypeOK, ActiveIsReal, VpnOnwards,
           \A i \in Identities : active'[i] \in {active[i], None},
           \A c \in Cids : /\ active'[Identity(c)] = c /\ "established" \in cids[c]
                           => "established" \in cids'[c]
    PROVE  ActiveIsReal'
<1> SUFFICES ASSUME NEW i \in Identities, active'[i] # None
             PROVE  /\ Identity(active'[i]) = i
                    /\ "established" \in cids'[active'[i]]
                    /\ vpn'[active'[i]] \in {"up", "gone"}
  BY Zenon DEF ActiveIsReal
<1>1. active'[i] = active[i] /\ active[i] \in Cids
  BY Zenon DEF TypeOK, OptCid
<1>2. /\ Identity(active[i]) = i /\ "established" \in cids[active[i]]
      /\ WasUp(active[i])
  BY <1>1, Zenon DEF ActiveIsReal, WasUp
<1>3. WasUp(active[i])'
  BY <1>1, <1>2, Zenon DEF VpnOnwards
<1> QED BY <1>1, <1>2, <1>3, Zenon DEF WasUp

LEMMA PhaseKept ==
    ASSUME VpnOnwards, NEW c \in Cids, Phase(c), cids'[c] = cids[c] PROVE Phase(c)'
BY Zenon DEF Phase, VpnOnwards

Settled == IndexInv /\ ActiveIsReal /\ PhaseInv

LEMMA DataSame ==
    ASSUME TypeOK, Settled, VpnOnwards, UNCHANGED <<cids, attempt, active>>
    PROVE  Settled'
<1>1. IndexInv'
  BY IndexFlags, Zenon DEF Settled, Attempting
<1>2. ActiveIsReal'
  BY RealKept, Zenon DEF Settled
<1>3. PhaseInv'
  BY PhaseKept, Zenon DEF Settled, PhaseInv
<1> QED BY <1>1, <1>2, <1>3, Zenon DEF Settled

\* Both ways to forget a CID.
LEMMA DataForgotten ==
    ASSUME TypeOK, Settled, UNCHANGED vpn, NEW c \in Cids,
           cids' = [cids EXCEPT ![c] = {}], attempt' = Forget(attempt, c),
           \/ active' = Forget(active, c)
           \/ UNCHANGED active /\ "established" \notin cids[c]
    PROVE  Settled'
<1>1. /\ cids'[c] = {} /\ VpnOnwards
      /\ \A d \in Cids \ {c} : cids'[d] = cids[d]
  BY VpnStays, Zenon DEF TypeOK
<1>2. IndexInv'
  <2>1. /\ ~Attempting(c)'
        /\ \A d \in Cids \ {c} : Attempting(d)' <=> Attempting(d)
    BY <1>1, Zenon DEF Attempting
  <2> QED BY <2>1, IndexForgets, Zenon DEF Settled
<1>3. ActiveIsReal'
  <2>1. DOMAIN active = Identities /\ Identity(c) \in Identities
    BY IdentityType, Zenon DEF TypeOK
  <2>2. /\ \A i \in Identities : active'[i] \in {active[i], None}
        /\ active'[Identity(c)] = c => "established" \notin cids[c]
    BY <2>1, NoneIsNoCid, Zenon DEF Forget
  <2> QED BY <1>1, <2>2, RealKept, Zenon DEF Settled
<1>4. PhaseInv'
  <2>1. Phase(c)'
    BY <1>1, Zenon DEF Phase
  <2> QED BY <1>1, <2>1, PhaseKept, Zenon DEF Settled, PhaseInv
<1> QED BY <1>2, <1>3, <1>4, Zenon DEF Settled

\* A step that changes the flags of one CID and keeps it tracked.
LEMMA DataMarked ==
    ASSUME TypeOK, Settled, UNCHANGED <<vpn, active>>, NEW c \in Cids, NEW f,
           cids' = [cids EXCEPT ![c] = f], cids[c] # {}, IndexInv', "tracked" \in f,
           "cancel" \in f => "promoted" \notin f /\ "established" \notin f,
           "promoted" \in f => "established" \notin f,
           "established" \in cids[c] => "established" \in f
    PROVE  Settled'
<1>1. /\ cids'[c] = f /\ VpnOnwards
      /\ \A d \in Cids \ {c} : cids'[d] = cids[d]
  BY VpnStays, Zenon DEF TypeOK
<1>2. ActiveIsReal'
  BY <1>1, RealKept, Zenon DEF Settled
<1>3. PhaseInv'
  <2>1. Phase(c)'
    BY <1>1, Zenon DEF Phase, Settled, PhaseInv
  <2> QED BY <1>1, <2>1, PhaseKept, Zenon DEF Settled, PhaseInv
<1> QED BY <1>2, <1>3, Zenon DEF Settled

LEMMA DataPromoted ==
    ASSUME TypeOK, Settled, UNCHANGED <<vpn, attempt, active>>, NEW c \in Cids,
           PromoteSession(c)
    PROVE  Settled'
<1>1. CASE "cancel" \notin cids[c]
  BY <1>1, DataSame, VpnStays, Zenon DEF PromoteSession
<1>2. CASE "cancel" \in cids[c]
  <2> DEFINE f == (cids[c] \ {"cancel"}) \cup {"promoted"}
  <2>1. /\ "cancel" \notin f /\ "promoted" \in f
        /\ "tracked" \in f <=> "tracked" \in cids[c]
        /\ "established" \in f <=> "established" \in cids[c]
    OBVIOUS
  <2>2. cids' = [cids EXCEPT ![c] = f] /\ cids[c] # {}
    BY <1>2, Zenon DEF PromoteSession
  <2> HIDE DEF f
  <2>3. \A d \in Cids : Attempting(d)' <=> Attempting(d)
    BY <1>2, <2>1, <2>2, Zenon DEF Attempting, TypeOK
  <2>4. IndexInv'
    BY <2>3, IndexFlags, Zenon DEF Settled
  <2>5. Phase(c)
    BY Zenon DEF Settled, PhaseInv
  <2> QED BY <1>2, <2>1, <2>2, <2>4, <2>5, DataMarked, Zenon DEF Phase
<1> QED BY <1>1, <1>2

LEMMA DataCleared ==
    ASSUME TypeOK, Settled, UNCHANGED <<vpn, active>>, NEW c \in Cids,
           ClearInFlight(c)
    PROVE  Settled'
<1> DEFINE f == cids[c] \ {"cancel"}
<1>1. /\ "cancel" \notin f
      /\ \A x : x # "cancel" => (x \in f <=> x \in cids[c])
  OBVIOUS
<1>2. cids' = [cids EXCEPT ![c] = f]
  BY Zenon DEF ClearInFlight
<1>3. cids[c] = {} => f = cids[c]
  OBVIOUS
<1> HIDE DEF f
<1>4. cids'[c] = f /\ \A d \in Cids \ {c} : cids'[d] = cids[d]
  BY <1>2, Zenon DEF TypeOK
<1>5. \A d \in Cids \ {c} : Attempting(d)' <=> Attempting(d)
  BY <1>4, Zenon DEF Attempting
<1>6. CASE cids[c] = {}
  <2>1. UNCHANGED attempt
    BY <1>6, Zenon DEF ClearInFlight
  <2>2. UNCHANGED cids
    <3>1. cids \in [Cids -> SUBSET Flags]
      BY Zenon DEF TypeOK
    <3> QED BY <1>2, <1>3, <1>6, <3>1
  <2> QED BY <2>1, <2>2, DataSame, VpnStays, Zenon
<1>7. CASE cids[c] # {}
  <2>1. IndexInv'
    <3>1. CASE "promoted" \in cids[c]
      <4>1. UNCHANGED attempt
        BY <3>1, Zenon DEF ClearInFlight
      <4>2. Attempting(c)' <=> Attempting(c)
        BY <1>1, <1>4, <3>1, Zenon DEF Attempting
      <4> QED BY <1>5, <4>1, <4>2, IndexFlags, Zenon DEF Settled
    <3>2. CASE "promoted" \notin cids[c]
      <4>1. attempt' = Forget(attempt, c)
        BY <1>7, <3>2, Zenon DEF ClearInFlight
      <4>2. ~Attempting(c)'
        BY <1>1, <1>4, <3>2, Zenon DEF Attempting
      <4> QED BY <1>5, <4>1, <4>2, IndexForgets, Zenon DEF Settled
    <3> QED BY <3>1, <3>2
  <2>2. Phase(c)
    BY Zenon DEF Settled, PhaseInv
  <2> QED BY <1>1, <1>2, <1>7, <2>1, <2>2, DataMarked, Zenon DEF Phase
<1> QED BY <1>6, <1>7

\* A new attempt; one that it supersedes has lost its in-flight mark.
LEMMA DataTracked ==
    ASSUME TypeOK, Settled, UNCHANGED <<vpn, active>>, NEW c \in Cids,
           cids[c] = {}, vpn[c] # "none", NEW g, DOMAIN g = Cids, Track(c, g),
           \A d \in Cids \ {c} : g[d] \in {cids[d], cids[d] \ {"cancel"}},
           \A d \in Cids \ {c} :
               "cancel" \in g[d] \/ "promoted" \in g[d]
                   <=> Attempting(d) /\ Identity(d) # Identity(c)
    PROVE  Settled'
<1>1. /\ cids'[c] = {"tracked", "cancel"} /\ VpnOnwards
      /\ \A d \in Cids \ {c} : cids'[d] = g[d]
  BY VpnStays, Zenon DEF Track
<1>2. IndexInv'
  <2>1. /\ Attempting(c)'
        /\ \A d \in Cids \ {c} :
              Attempting(d)' <=> Attempting(d) /\ Identity(d) # Identity(c)
    BY <1>1, Zenon DEF Attempting
  <2>2. attempt' = [attempt EXCEPT ![Identity(c)] = c]
    BY Zenon DEF Track
  <2> QED BY <2>1, <2>2, IndexTakes, Zenon DEF Settled
<1>3. ASSUME NEW d \in Cids \ {c}, NEW x, x # "cancel"
      PROVE  x \in cids'[d] <=> x \in cids[d]
  BY <1>1, <1>3
<1>4. ActiveIsReal'
  <2>1. \A d \in Cids : "established" \in cids[d] => "established" \in cids'[d]
    BY <1>3
  <2> QED BY <1>1, <2>1, RealKept, Zenon DEF Settled
<1>5. ASSUME NEW d \in Cids PROVE Phase(d)'
  <2>1. CASE d = c
    BY <1>1, <2>1, Zenon DEF Phase
  <2>2. CASE d # c
    <3>1. /\ Phase(d) /\ vpn'[d] = vpn[d]
          /\ cids'[d] # {} => cids[d] # {}
          /\ "cancel" \in cids'[d] => "cancel" \in cids[d]
      BY <1>1, <2>2 DEF Settled, PhaseInv
    <3>2. /\ "tracked" \in cids'[d] <=> "tracked" \in cids[d]
          /\ "promoted" \in cids'[d] <=> "promoted" \in cids[d]
          /\ "established" \in cids'[d] <=> "established" \in cids[d]
      BY <1>3, <2>2, Zenon
    <3> QED BY <3>1, <3>2, Zenon DEF Phase
  <2> QED BY <2>1, <2>2
<1> QED BY <1>2, <1>4, <1>5, Zenon DEF Settled, PhaseInv

\* The CID in the attempt index, if any, is an attempt of that identity.
LEMMA ExistingAttempts ==
    ASSUME TypeOK, IndexInv, events # <<>>
    PROVE  /\ lcid \in Cids /\ Identity(lcid) \in Identities
           /\ Existing # None =>
                 /\ Existing \in Cids /\ Identity(Existing) = Identity(lcid)
                 /\ Attempting(Existing)
           /\ \A d \in Cids : Attempting(d) /\ Identity(d) = Identity(lcid)
                                 => d = Existing
<1>1. lcid \in Cids /\ Existing \in OptCid /\ Identity(lcid) \in Identities
  BY LcidType, IdentityType, Zenon
<1>2. Existing # None =>
         Existing \in Cids /\ Identity(Existing) = Identity(lcid)
  BY <1>1, Zenon DEF IndexInv, Existing, OptCid
<1>3. ASSUME Existing # None PROVE Attempting(Existing)
  <2>1. Existing \in Cids /\ attempt[Identity(Existing)] = Existing
    BY <1>2, <1>3, Zenon DEF Existing
  <2> QED BY <2>1, Zenon DEF IndexInv
<1>4. \A d \in Cids : Attempting(d) /\ Identity(d) = Identity(lcid) => d = Existing
  BY Zenon DEF IndexInv, Existing
<1> QED BY <1>1, <1>2, <1>3, <1>4, Zenon

LEMMA DataAdmitted ==
    ASSUME TypeInv, FreshInv, NewInv, Settled, ConnectAdmit PROVE Settled'
<1>0. /\ TypeOK /\ IndexInv /\ events # <<>> /\ Head(events).type = "CONNECT"
      /\ lpc = "idle" /\ DOMAIN cids = Cids
  BY Zenon DEF ConnectAdmit, Handling, LoopAt, TypeInv, TypeOK, Settled
<1>1. /\ lcid \in Cids /\ vpn[lcid] # "none" /\ cids[lcid] = {}
  BY <1>0, HeadIsFresh, Zenon DEF NewInv, Fresh, Admitted
<1>2. Existing = None
  <2>1. Existing # None => /\ Existing \in Cids /\ Held(Existing) = cids[Existing]
                           /\ Attempting(Existing)
    BY <1>0, ExistingAttempts, Zenon DEF Held
  <2>2. Held(Existing) \cap {"promoted", "cancel"} = {}
    BY Zenon DEF ConnectAdmit
  <2> QED BY <2>1, <2>2, Zenon DEF Attempting
<1>3. \A d \in Cids : Attempting(d) => Identity(d) # Identity(lcid)
  BY <1>0, <1>2, ExistingAttempts, NoneIsNoCid, Zenon
<1>4. Track(lcid, cids) /\ UNCHANGED <<vpn, active>>
  BY Zenon DEF ConnectAdmit, ovpnVars
<1> QED BY <1>0, <1>1, <1>3, <1>4, DataTracked, Zenon DEF Attempting

LEMMA DataSuperseded ==
    ASSUME TypeInv, FreshInv, NewInv, Settled, ConnectSupersede PROVE Settled'
<1> DEFINE g == [cids EXCEPT ![Existing] = @ \ {"cancel"}]
<1>0. /\ TypeOK /\ IndexInv /\ events # <<>> /\ Head(events).type = "CONNECT"
      /\ lpc = "idle" /\ DOMAIN cids = Cids
  BY Zenon DEF ConnectSupersede, Handling, LoopAt, TypeInv, TypeOK, Settled
<1>1. /\ lcid \in Cids /\ vpn[lcid] # "none" /\ cids[lcid] = {}
  BY <1>0, HeadIsFresh, Zenon DEF NewInv, Fresh, Admitted
<1>2. /\ Existing # None /\ "promoted" \notin cids[Existing]
  BY Zenon DEF ConnectSupersede, Held
<1>3. /\ Existing \in Cids /\ Identity(Existing) = Identity(lcid)
      /\ \A d \in Cids : Attempting(d) /\ Identity(d) = Identity(lcid)
                            => d = Existing
  BY <1>0, <1>2, ExistingAttempts, Zenon
<1>4. /\ Track(lcid, g) /\ UNCHANGED <<vpn, active>>
  BY Zenon DEF ConnectSupersede, ovpnVars
<1>5. /\ DOMAIN g = Cids /\ g[Existing] = cids[Existing] \ {"cancel"}
      /\ \A d \in Cids \ {Existing} : g[d] = cids[d]
  BY <1>0, <1>3, Zenon
<1>6. "cancel" \notin g[Existing] /\ "promoted" \notin g[Existing]
  BY <1>2, <1>5
<1> HIDE DEF g
<1>7. \A d \in Cids \ {lcid} :
         "cancel" \in g[d] \/ "promoted" \in g[d]
             <=> Attempting(d) /\ Identity(d) # Identity(lcid)
  BY <1>3, <1>5, <1>6, Zenon DEF Attempting
<1>8. \A d \in Cids \ {lcid} : g[d] \in {cids[d], cids[d] \ {"cancel"}}
  BY <1>5, Zenon
<1> QED BY <1>0, <1>1, <1>4, <1>5, <1>7, <1>8, DataTracked, Zenon

\* What establishCID does to the flags: c is established, and the CID it
\* replaces changes in nothing that matters here.
LEMMA EstLockFlags ==
    ASSUME TypeInv, NEW a \in Actors, EstLock(a), cids[est[a].cid] # {}
    PROVE  LET c == est[a].cid
           IN  /\ c \in Cids
               /\ "established" \in cids'[c] /\ "promoted" \notin cids'[c]
               /\ "cancel" \in cids'[c] => "cancel" \in cids[c]
               /\ "tracked" \in cids[c] => "tracked" \in cids'[c]
               /\ \A d \in Cids \ {c} :
                     /\ cids'[d] = {} <=> cids[d] = {}
                     /\ \A x \in {"tracked", "cancel", "promoted", "established"} :
                           x \in cids'[d] <=> x \in cids[d]
<1> DEFINE c == est[a].cid
           old == active[Identity(c)]
           marked == IF old \notin {None, c} THEN MarkEviction(old) ELSE cids
<1>1. c \in Cids /\ old \in OptCid /\ cids \in [Cids -> SUBSET Flags]
  BY IdentityType, Zenon DEF EstLock, TypeInv, TypeOK, KnowsItsCids
<1>2. cids' = [marked EXCEPT ![c] = (marked[c] \ {"promoted"}) \cup {"established"}]
  BY Zenon DEF EstLock
<1>3. /\ DOMAIN marked = Cids /\ marked[c] = cids[c]
      /\ \A d \in Cids :
            \/ marked[d] = cids[d]
            \/ /\ cids[d] # {}
               /\ marked[d] = (cids[d] \ {"expiry"}) \cup {"evictionRequested"}
  BY <1>1, Zenon DEF MarkEviction, Held, OptCid
<1> HIDE DEF c, old, marked
<1>4. /\ cids'[c] = (cids[c] \ {"promoted"}) \cup {"established"}
      /\ \A d \in Cids \ {c} : cids'[d] = marked[d]
  BY <1>1, <1>2, <1>3, Zenon
<1>5. /\ "established" \in cids'[c] /\ "promoted" \notin cids'[c]
      /\ "cancel" \in cids'[c] => "cancel" \in cids[c]
      /\ "tracked" \in cids[c] => "tracked" \in cids'[c]
  BY <1>4
<1>6. ASSUME NEW d \in Cids \ {c}
      PROVE  /\ cids'[d] = {} <=> cids[d] = {}
             /\ \A x \in {"tracked", "cancel", "promoted", "established"} :
                   x \in cids'[d] <=> x \in cids[d]
  BY <1>3, <1>4, <1>6
<1> QED BY <1>1, <1>5, <1>6, Zenon DEF c

LEMMA DataEstablished ==
    ASSUME TypeInv, Settled, CancelInv, FrameInv, NEW a \in Actors, EstLock(a)
    PROVE  Settled'
<1>c. PICK c \in Cids : c = est[a].cid
  BY Zenon DEF EstLock, TypeInv, KnowsItsCids
<1>0. TypeOK /\ UNCHANGED vpn /\ VpnOnwards
  BY VpnStays, Zenon DEF EstLock, ovpnVars, TypeInv
<1>1. CASE cids[c] = {}
  BY <1>c, <1>0, <1>1, DataSame, Zenon DEF EstLock
<1>2. CASE cids[c] # {}
  <2>1. /\ "established" \in cids'[c] /\ "promoted" \notin cids'[c]
        /\ "cancel" \in cids'[c] => "cancel" \in cids[c]
        /\ "tracked" \in cids[c] => "tracked" \in cids'[c]
        /\ \A d \in Cids \ {c} :
              /\ cids'[d] = {} <=> cids[d] = {}
              /\ \A x \in {"tracked", "cancel", "promoted", "established"} :
                    x \in cids'[d] <=> x \in cids[d]
    BY <1>c, <1>2, EstLockFlags, Zenon
  <2>2. /\ attempt' = Forget(attempt, c)
        /\ active' = [active EXCEPT ![Identity(c)] = c]
    BY <1>c, <1>2, Zenon DEF EstLock
  <2>3. "cancel" \notin cids[c] /\ WasUp(c)
    BY <1>c, Zenon DEF EstLock, CancelInv, Unfollowed, Establishing, FrameInv
  <2>4. \A d \in Cids \ {c} :
           /\ "tracked" \in cids'[d] <=> "tracked" \in cids[d]
           /\ "cancel" \in cids'[d] <=> "cancel" \in cids[d]
           /\ "promoted" \in cids'[d] <=> "promoted" \in cids[d]
           /\ "established" \in cids'[d] <=> "established" \in cids[d]
    BY <2>1, Zenon
  <2>5. IndexInv'
    <3>1. /\ ~Attempting(c)'
          /\ \A d \in Cids \ {c} : Attempting(d)' <=> Attempting(d)
      BY <2>1, <2>3, <2>4, Zenon DEF Attempting
    <3> QED BY <1>0, <2>1, <2>2, <3>1, IndexForgets, Zenon DEF Settled
  <2>6. ActiveIsReal'
    <3>1. DOMAIN active = Identities /\ Identity(c) \in Identities
      BY <1>0, <2>1, IdentityType, Zenon DEF TypeOK
    <3> SUFFICES ASSUME NEW i \in Identities, active'[i] # None
                 PROVE  /\ Identity(active'[i]) = i
                        /\ "established" \in cids'[active'[i]]
                        /\ vpn'[active'[i]] \in {"up", "gone"}
      BY Zenon DEF ActiveIsReal
    <3>2. CASE i = Identity(c)
      BY <1>0, <2>1, <2>2, <2>3, <3>1, <3>2, Zenon DEF WasUp
    <3>3. CASE i # Identity(c)
      <4>1. active'[i] = active[i] /\ active[i] \in Cids
        BY <1>0, <2>2, <3>1, <3>3, Zenon DEF TypeOK, OptCid
      <4>2. /\ Identity(active[i]) = i /\ "established" \in cids[active[i]]
            /\ vpn[active[i]] \in {"up", "gone"}
        BY <4>1, Zenon DEF Settled, ActiveIsReal
      <4> QED BY <1>0, <2>4, <3>3, <4>1, <4>2, Zenon
    <3> QED BY <3>2, <3>3
  <2>7. ASSUME NEW d \in Cids PROVE Phase(d)'
    <3>1. Phase(d) /\ vpn'[d] = vpn[d]
      BY <1>0, Zenon DEF Settled, PhaseInv
    <3> QED BY <1>2, <2>1, <2>3, <2>4, <3>1, Zenon DEF Phase
  <2> QED BY <2>5, <2>6, <2>7, Zenon DEF Settled, PhaseInv
<1> QED BY <1>1, <1>2

LEMMA DataTimed ==
    ASSUME TypeInv, Settled, NEW a \in Actors, EstTimer(a) PROVE Settled'
<1> DEFINE c == est[a].cid
           f == cids[c] \cup {"expiry"}
<1>0. /\ TypeOK /\ UNCHANGED <<vpn, attempt, active>> /\ VpnOnwards
      /\ c \in Cids /\ DOMAIN cids = Cids
  BY VpnStays, Zenon DEF EstTimer, ovpnVars, TypeInv, TypeOK, KnowsItsCids
<1>1. CASE cids[c] = {}
  BY <1>0, <1>1, DataSame, Zenon DEF EstTimer
<1>2. CASE cids[c] # {}
  <2>1. cids' = [cids EXCEPT ![c] = f]
    BY <1>2, Zenon DEF EstTimer
  <2>2. /\ "tracked" \in f <=> "tracked" \in cids[c]
        /\ "cancel" \in f <=> "cancel" \in cids[c]
        /\ "promoted" \in f <=> "promoted" \in cids[c]
        /\ "established" \in f <=> "established" \in cids[c]
    OBVIOUS
  <2> HIDE DEF c, f
  <2>3. \A d \in Cids : Attempting(d)' <=> Attempting(d)
    BY <1>0, <2>1, <2>2, Zenon DEF Attempting
  <2>4. IndexInv' /\ Phase(c)
    BY <1>0, <2>3, IndexFlags, Zenon DEF Settled, PhaseInv
  <2> QED BY <1>0, <1>2, <2>1, <2>2, <2>4, DataMarked, Zenon DEF Phase
<1> QED BY <1>1, <1>2

-----------------------------------------------------------------------------
(* What the goroutines believe. *)

Control == CancelInv /\ NewInv /\ FrameInv /\ SnapInv

\* What a step must respect ...
Tame ==
    \A c \in Cids : /\ "cancel" \in cids'[c] => "cancel" \in cids[c]
                    /\ cids[c] = {} => cids'[c] = {}
Ages == \A c \in Cids : Fresh(c)' => Fresh(c)
StaysAdmitted == \A c \in Cids : Admitted(c) /\ Fresh(c)' => Admitted(c)'
StaysUnfollowed ==
    \A c \in Cids : Unfollowed(c) /\ ("cancel" \in cids'[c] \/ Fresh(c)')
                        => Unfollowed(c)'
RowsKept ==
    \A a \in Actors :
        \/ snap'[a] = "none"
        \/ /\ snap'[a] = snap[a]
           /\ snap[a] # "none" => StatusWanted(a)' = StatusWanted(a)

LEMMA WantedCids ==
    ASSUME TypeInv, NEW a \in Actors PROVE StatusWanted(a) \subseteq Cids
BY Zenon DEF StatusWanted, TypeInv, KnowsItsCids, Actors

LEMMA RowsStep ==
    ASSUME TypeInv, SnapInv, VpnOnwards, RowsKept PROVE SnapInv'
<1> SUFFICES ASSUME NEW a \in Actors, snap'[a] # "none"
             PROVE  /\ StatusWanted(a)' # {}
                    /\ \A c \in StatusWanted(a)' :
                          /\ snap'[a] = "established" => WasUp(c)'
                          /\ snap'[a] = "absent" => vpn'[c] = "gone"
  BY Zenon DEF SnapInv
<1>1. /\ snap'[a] = snap[a] /\ StatusWanted(a)' = StatusWanted(a)
      /\ StatusWanted(a) \subseteq Cids
  BY WantedCids, Zenon DEF RowsKept
<1>2. /\ StatusWanted(a) # {}
      /\ \A c \in StatusWanted(a) : /\ snap[a] = "established" => WasUp(c)
                                    /\ snap[a] = "absent" => vpn[c] = "gone"
  BY <1>1, Zenon DEF SnapInv
<1> QED BY <1>1, <1>2, Zenon DEF VpnOnwards

\* ... and that this is enough.
LEMMA ControlStep ==
    ASSUME TypeInv, Control, VpnOnwards, Ages, StaysAdmitted, Tame,
           StaysUnfollowed, FrameInv', RowsKept
    PROVE  Control'
<1>1. CancelInv' /\ NewInv'
  BY Zenon DEF Control, CancelInv, NewInv, Tame, Ages, StaysAdmitted,
               StaysUnfollowed
<1>2. SnapInv'
  BY RowsStep, Zenon DEF Control
<1> QED BY <1>1, <1>2, Zenon DEF Control

LEMMA AdmittedSame ==
    ASSUME UNCHANGED <<events, lpc>> PROVE StaysAdmitted
BY Zenon DEF StaysAdmitted, Admitted, lcid

LEMMA FramesKept ==
    ASSUME TypeInv, FrameInv, VpnOnwards, UNCHANGED est,
           \A c \in Cids : est[c].pc # "none" => dpc'[c] = dpc[c],
           lpc' = "status" => lpc = "status" \/ est[Loop].pc = "none"
    PROVE  FrameInv'
<1>1. \A a \in Actors : /\ est[a].pc # "none" => est[a].cid \in Cids
                        /\ est[a].old # None => est[a].old \in Cids
  <2>1. ASSUME NEW a \in Actors PROVE est[a].old \in Cids \cup {None}
    BY Zenon DEF TypeInv, TypeOK, Frames, OptCid
  <2> QED BY <2>1, Zenon DEF TypeInv, KnowsItsCids
<1>2. \A a \in Actors : est'[a] = est[a]
  OBVIOUS
<1>3. ASSUME NEW a \in Actors, est'[a].pc # "none"
      PROVE  /\ WasUp(est[a].cid)'
             /\ est'[a].old # None => WasUp(est[a].old)'
  BY <1>1, <1>2, <1>3, Zenon DEF FrameInv, VpnOnwards, WasUp
<1>4. \A c \in Cids : est'[c].pc # "none" => est'[c].cid = c /\ dpc'[c] = "done"
  BY Zenon DEF FrameInv
<1>5. lpc' = "status" => est'[Loop].pc = "none"
  BY Zenon DEF FrameInv
<1> QED BY <1>3, <1>4, <1>5, Zenon DEF FrameInv

\* A call of establishCID begins.
LEMMA FramesCalled ==
    ASSUME FrameInv, UNCHANGED vpn, NEW a \in Actors, NEW c \in Cids, WasUp(c),
           est'[a].cid = c, est'[a].old = None,
           \A b \in Actors \ {a} : est'[b] = est[b],
           a \in Cids => a = c /\ dpc'[a] = "done",
           \A d \in Cids \ {a} : est[d].pc # "none" => dpc'[d] = dpc[d],
           lpc' = "status" => a # Loop /\ lpc = "status"
    PROVE  FrameInv'
<1>1. ASSUME NEW b \in Actors, est'[b].pc # "none"
      PROVE  WasUp(est'[b].cid) /\ (est'[b].old # None => WasUp(est'[b].old))
  <2>1. CASE b = a
    BY <2>1, Zenon
  <2>2. CASE b # a
    BY <1>1, <2>2, Zenon DEF FrameInv
  <2> QED BY <2>1, <2>2
<1>2. ASSUME NEW d \in Cids, est'[d].pc # "none"
      PROVE  est'[d].cid = d /\ dpc'[d] = "done"
  <2>1. CASE d = a
    BY <2>1, Zenon
  <2>2. CASE d # a
    <3>1. est'[d] = est[d] /\ dpc'[d] = dpc[d]
      BY <1>2, <2>2, Zenon DEF Actors
    <3> QED BY <1>2, <3>1, Zenon DEF FrameInv
  <2> QED BY <2>1, <2>2
<1>3. ASSUME lpc' = "status" PROVE est'[Loop].pc = "none"
  <2>1. est'[Loop] = est[Loop] /\ lpc = "status"
    BY <1>3, Zenon DEF Actors
  <2> QED BY <2>1, Zenon DEF FrameInv
<1>4. \A b : WasUp(b)' <=> WasUp(b)
  BY Zenon DEF WasUp
<1>5. \A b \in Actors : est'[b].pc # "none" =>
         /\ WasUp(est[b].cid)'
         /\ est'[b].old # None => WasUp(est[b].old)'
  BY <1>1, Zenon DEF WasUp
<1> QED BY <1>2, <1>3, <1>5, Zenon DEF FrameInv

\* Who is in a call has no status row to read, and neither has the loop before
\* it asks for one.
LEMMA BusyReadsNothing ==
    ASSUME FrameInv, SnapInv, NEW a \in Actors, est[a].pc \notin {"none", "status"}
    PROVE  snap[a] = "none"
<1>1. StatusWanted(a) = {}
  <2>1. CASE a = Loop
    BY <2>1, Zenon DEF StatusWanted, FrameInv
  <2>2. CASE a # Loop
    BY <2>2, Zenon DEF StatusWanted, FrameInv, Actors
  <2> QED BY <2>1, <2>2
<1> QED BY <1>1, Zenon DEF SnapInv

LEMMA LoopReadsNothing ==
    ASSUME SnapInv, est[Loop].pc = "none", lpc # "status" PROVE snap[Loop] = "none"
<1>1. Loop \in Actors /\ StatusWanted(Loop) = {}
  BY Zenon DEF StatusWanted, Actors
<1> QED BY <1>1, Zenon DEF SnapInv

LEMMA DeadlineReadsNothing ==
    ASSUME SnapInv, NEW c \in Cids, est[c].pc = "none",
           dpc[c] \notin {"status1", "status2", "status3"}
    PROVE  snap[c] = "none"
<1>1. c \in Actors /\ StatusWanted(c) = {}
  BY ConstantsAssumption, Zenon DEF StatusWanted, Actors, ConstantsAssumption
<1> QED BY <1>1, Zenon DEF SnapInv

\* A step of OpenVPN, or one that touches nothing that matters here.
LEMMA OutsideStep ==
    ASSUME TypeInv, Settled, Control, VpnOnwards, Ages, StaysAdmitted,
           UNCHANGED <<snap, cids, attempt, active, lpc, lold, est, dpc>>
    PROVE  Settled' /\ Control'
<1>1. Settled'
  BY DataSame, Zenon DEF TypeInv
<1>2. Tame /\ StaysUnfollowed
  BY Zenon DEF Tame, StaysUnfollowed, Unfollowed, Establishing
<1>3. RowsKept
  BY Zenon DEF RowsKept, StatusWanted
<1>4. FrameInv'
  BY FramesKept, Zenon DEF Control
<1> QED BY <1>1, <1>2, <1>3, <1>4, ControlStep, Zenon

-----------------------------------------------------------------------------
(* Status requests, and what the deadline and timeout goroutines do. *)

LEMMA RowTells ==
    ASSUME NEW c, Row(c) \in {"established", "absent"}
    PROVE  /\ Row(c) = "established" => vpn[c] \notin {"none", "gone", "pending", "authed"}
           /\ Row(c) = "absent" => vpn[c] \in {"none", "gone"}
BY DEF Row

\* Nobody asks for a CID that OpenVPN has not seen.
LEMMA WantedIsKnown ==
    ASSUME TypeInv, Control, NEW a \in Actors, NEW c \in StatusWanted(a)
    PROVE  c \in Cids /\ vpn[c] # "none"
<1>1. c \in Cids
  BY WantedCids, Zenon
<1>2. CASE est[a].pc = "status"
  <2>1. c = est[a].old /\ c # None
    BY <1>1, <1>2, NoneIsNoCid, Zenon DEF StatusWanted
  <2> QED BY <1>1, <1>2, <2>1 DEF Control, FrameInv, WasUp
<1>3. CASE est[a].pc # "status"
  <2>1. ~Unfollowed(c)
    BY <1>3 DEF StatusWanted, Unfollowed
  <2> QED BY <1>1, <2>1, Zenon DEF Control, NewInv, Fresh
<1> QED BY <1>1, <1>2, <1>3

LEMMA StatusControl ==
    ASSUME TypeInv, Settled, Control, NEW a \in Actors, StatusNext(a)
    PROVE  Settled' /\ Control'
<1>0. UNCHANGED <<vpn, events, cids, attempt, active, lpc, lold, est, dpc>>
  BY Zenon DEF StatusNext, StatusTake, StatusFails, ovpnVars, daemonVars, loopVars,
               goVars
<1>1. Settled'
  BY <1>0, DataSame, VpnStays, Zenon DEF TypeInv
<1>2. CancelInv' /\ NewInv'
  <2>1. \A c : Unfollowed(c)' <=> Unfollowed(c)
    BY <1>0, Zenon DEF Unfollowed, Establishing
  <2>2. \A c : (Fresh(c)' <=> Fresh(c)) /\ (Admitted(c)' <=> Admitted(c))
    BY <1>0, Zenon DEF Fresh, Queued, Admitted, lcid
  <2> QED BY <1>0, <2>1, <2>2, Zenon DEF Control, CancelInv, NewInv
<1>3. FrameInv'
  BY <1>0, FramesKept, VpnStays, Zenon DEF Control
<1>4. ASSUME NEW b \in Actors
      PROVE  /\ snap'[b] # "none" => StatusWanted(b) # {}
             /\ \A c \in StatusWanted(b) :
                   /\ snap'[b] = "established" => WasUp(c)
                   /\ snap'[b] = "absent" => vpn[c] = "gone"
  <2>1. CASE snap'[b] = snap[b]
    BY <2>1, Zenon DEF Control, SnapInv
  <2>2. CASE snap'[b] # snap[b]
    <3>1. /\ b = a
          /\ \/ snap'[a] = "failed" /\ StatusWanted(a) # {}
             \/ \E c \in StatusWanted(a) : snap'[a] = Row(c)
      BY <2>2, Zenon DEF StatusNext, StatusTake, StatusFails, TypeInv, TypeOK
    <3>2. ASSUME NEW c \in StatusWanted(a), NEW d \in StatusWanted(a) PROVE c = d
      BY <3>2 DEF StatusWanted
    <3>3. ASSUME NEW c \in StatusWanted(a)
          PROVE  /\ snap'[a] = "established" => WasUp(c)
                 /\ snap'[a] = "absent" => vpn[c] = "gone"
      <4>1. vpn[c] \in VpnStates /\ vpn[c] # "none"
        BY WantedIsKnown, Zenon DEF TypeInv, TypeOK
      <4>2. snap'[a] \in {"established", "absent"} => snap'[a] = Row(c)
        BY <3>1, <3>2
      <4> QED BY <4>1, <4>2, RowTells DEF VpnStates, WasUp
    <3> QED BY <3>1, <3>3, Zenon
  <2> QED BY <2>1, <2>2
<1>5. SnapInv'
  <2>1. \A b \in Actors : StatusWanted(b)' = StatusWanted(b)
    BY <1>0, Zenon DEF StatusWanted
  <2>2. \A c : WasUp(c)' <=> WasUp(c)
    BY <1>0, Zenon DEF WasUp
  <2> QED BY <1>0, <1>4, <2>1, <2>2, Zenon DEF SnapInv
<1> QED BY <1>1, <1>2, <1>3, <1>5, Zenon DEF Control

\* The deadline goroutine waits, kills, or gives up.
LEMMA DeadlineMoves ==
    ASSUME TypeInv, Settled, Control, NEW c \in Cids,
           \/ DeadlineFires(c) \/ DeadlineCancelled(c) \/ DeadlineChecks(c)
           \/ DeadlineKills(c) \/ DeadlineAcked(c)
    PROVE  Settled' /\ Control'
<1>0. /\ UNCHANGED <<vpn, events, snap, cids, attempt, active, lpc, lold, est>>
      /\ dpc[c] \in {"wait", "grace", "kill", "killsend", "killwait"}
      /\ \A d \in Cids \ {c} : dpc'[d] = dpc[d]
  BY Zenon DEF DeadlineFires, DeadlineCancelled, DeadlineChecks, DeadlineKills,
               DeadlineAcked, DeadlineGo, ovpnVars, loopVars, TypeInv, TypeOK
<1>1. VpnOnwards /\ Ages /\ StaysAdmitted /\ Tame
  BY <1>0, VpnStays, AdmittedSame, Zenon DEF Ages, Fresh, Queued, Tame
<1>2. Settled'
  BY <1>0, <1>1, DataSame, Zenon DEF TypeInv
<1>3. est[c].pc = "none" /\ snap[c] = "none" /\ ~Unfollowed(c)
  <2>1. est[c].pc = "none" /\ ~Unfollowed(c)
    BY <1>0, Zenon DEF Control, FrameInv, Unfollowed
  <2>2. snap[c] = "none"
    BY <1>0, <2>1, DeadlineReadsNothing, Zenon DEF Control
  <2> QED BY <2>1, <2>2
<1>4. StaysUnfollowed
  BY <1>0, <1>3, Zenon DEF StaysUnfollowed, Unfollowed, Establishing
<1>5. FrameInv'
  BY <1>0, <1>1, <1>3, FramesKept, Zenon DEF Control
<1>6. RowsKept
  BY <1>0, <1>3, Zenon DEF RowsKept, StatusWanted, Actors
<1> QED BY <1>1, <1>2, <1>4, <1>5, <1>6, ControlStep, Zenon

LEMMA CleanupData ==
    ASSUME TypeOK, Settled, NEW c \in Cids, CleanupPromoted(c),
           UNCHANGED <<vpn, active>>
    PROVE  Settled' /\ Tame
<1>1. CASE "promoted" \notin cids[c]
  <2>1. UNCHANGED <<cids, attempt>>
    BY <1>1, Zenon DEF CleanupPromoted
  <2> QED BY <2>1, DataSame, VpnStays, Zenon DEF Tame
<1>2. CASE "promoted" \in cids[c]
  <2>1. cids' = [cids EXCEPT ![c] = {}] /\ attempt' = Forget(attempt, c)
    BY <1>2, Zenon DEF CleanupPromoted
  <2>2. "established" \notin cids[c]
    BY <1>2, Zenon DEF Settled, PhaseInv, Phase
  <2>3. Tame
    BY <2>1, Zenon DEF Tame, TypeOK
  <2> QED BY <2>1, <2>2, <2>3, DataForgotten, Zenon
<1> QED BY <1>1, <1>2

LEMMA DisconnectData ==
    ASSUME TypeOK, Settled, NEW c \in Cids, HandleDisconnect(c), UNCHANGED vpn
    PROVE  Settled' /\ Tame
<1>1. CASE cids[c] = {}
  <2>1. UNCHANGED <<cids, attempt, active>>
    BY <1>1, Zenon DEF HandleDisconnect
  <2> QED BY <2>1, DataSame, VpnStays, Zenon DEF Tame
<1>2. CASE cids[c] # {}
  <2>1. /\ cids' = [cids EXCEPT ![c] = {}] /\ attempt' = Forget(attempt, c)
        /\ active' = Forget(active, c)
    BY <1>2, Zenon DEF HandleDisconnect
  <2>3. Tame
    BY <2>1, Zenon DEF Tame, TypeOK
  <2> QED BY <2>1, <2>3, DataForgotten, Zenon
<1> QED BY <1>1, <1>2

LEMMA DeadlineReconcilesStep ==
    ASSUME TypeInv, Settled, Control, NEW c \in Cids, DeadlineReconciles(c)
    PROVE  Settled' /\ Control'
<1>0. /\ UNCHANGED <<vpn, events, active, lpc, lold>>
      /\ dpc[c] \in {"status1", "status2", "status3"} /\ est[c].pc = "none"
      /\ \A d \in Cids \ {c} : dpc'[d] = dpc[d]
  BY Zenon DEF DeadlineReconciles, DeadlineGo, ovpnVars, loopVars, TypeInv, TypeOK
<1>1. VpnOnwards /\ Ages /\ StaysAdmitted /\ c \in Actors
  BY <1>0, VpnStays, AdmittedSame, Zenon DEF Ages, Fresh, Queued, Actors
<1>2. Settled' /\ Tame
  <2>1. CASE snap[c] = "absent"
    BY <1>0, <2>1, CleanupData, Zenon DEF DeadlineReconciles, TypeInv
  <2>2. CASE snap[c] # "absent"
    <3>1. UNCHANGED <<cids, attempt>>
      BY <2>2, Zenon DEF DeadlineReconciles
    <3> QED BY <1>0, <1>1, <3>1, DataSame, Zenon DEF Tame, TypeInv
  <2> QED BY <2>1, <2>2
<1>3. ~Unfollowed(c)
  BY <1>0, Zenon DEF Unfollowed
<1>4. /\ snap'[c] = "none" /\ \A b \in Actors \ {c} : snap'[b] = snap[b]
      /\ \A b \in Actors \ {c} : est'[b] = est[b]
  BY <1>1, Zenon DEF DeadlineReconciles, Used, CallEstablish, TypeInv, TypeOK
<1>5. \/ est' = est
      \/ /\ snap[c] = "established" /\ dpc'[c] = "done"
         /\ est'[c] = [pc |-> "lock", cid |-> c, old |-> None, auth |-> TRUE]
  <2>1. CASE snap[c] # "established"
    BY <2>1, Zenon DEF DeadlineReconciles
  <2>2. CASE snap[c] = "established"
    <3>1. snap[c] # "pending"
      BY <2>2
    <3> QED BY <1>1, <2>2, <3>1, Zenon
            DEF DeadlineReconciles, DeadlineGo, CallEstablish, TypeInv, TypeOK
  <2> QED BY <2>1, <2>2
<1>6. StaysUnfollowed
  <2> SUFFICES ASSUME NEW d \in Cids, Unfollowed(d) PROVE Unfollowed(d)'
    BY Zenon DEF StaysUnfollowed
  <2>1. d # c /\ dpc'[d] = "none"
    BY <1>0, <1>3, Zenon DEF Unfollowed
  <2>2. est'[c].pc # "none" => est'[c].cid # d
    BY <1>0, <1>5, <2>1, SMTT(15)
  <2>3. \A b \in Actors : ~Establishing(b, d)'
    BY <1>4, <2>2, Zenon DEF Unfollowed, Establishing
  <2> QED BY <1>0, <2>1, <2>3, Zenon DEF Unfollowed
<1>7. FrameInv'
  <2>1. CASE est' = est
    BY <1>0, <1>1, <2>1, FramesKept, Zenon DEF Control
  <2>2. CASE est' # est
    <3>1. /\ est'[c].cid = c /\ est'[c].old = None /\ dpc'[c] = "done"
          /\ snap[c] = "established"
      BY <1>5, <2>2
    <3>2. WasUp(c)
      <4>1. c \in StatusWanted(c)
        BY <1>0, ConstantsAssumption DEF StatusWanted, ConstantsAssumption
      <4> QED BY <1>1, <3>1, <4>1, Zenon DEF Control, SnapInv
    <3>3. c # Loop
      BY ConstantsAssumption, Zenon DEF ConstantsAssumption
    <3> QED BY <1>0, <1>1, <1>4, <3>1, <3>2, <3>3, FramesCalled, Zenon DEF Control
  <2> QED BY <2>1, <2>2
<1>8. RowsKept
  <2>1. ASSUME NEW b \in Actors \ {c} PROVE StatusWanted(b)' = StatusWanted(b)
    BY <1>0, <1>4, Zenon DEF StatusWanted, Actors
  <2> QED BY <1>4, <2>1, Zenon DEF RowsKept
<1> QED BY <1>1, <1>2, <1>6, <1>7, <1>8, ControlStep, Zenon

LEMMA TimeoutClearsControl ==
    ASSUME TypeInv, Settled, Control, NEW c \in Cids, TimeoutClears(c)
    PROVE  Settled' /\ Control'
<1>0. /\ UNCHANGED <<vpn, events, snap, active, lpc, lold, est, dpc>>
      /\ ClearInFlight(c)
  BY Zenon DEF TimeoutClears, ovpnVars, loopVars
<1>1. VpnOnwards /\ Ages /\ StaysAdmitted
  BY <1>0, VpnStays, AdmittedSame, Zenon DEF Ages, Fresh, Queued
<1>2. Settled'
  BY <1>0, DataCleared, Zenon DEF TypeInv
<1>3. Tame
  <2>1. cids' = [cids EXCEPT ![c] = cids[c] \ {"cancel"}] /\ DOMAIN cids = Cids
    BY <1>0, Zenon DEF ClearInFlight, TypeInv, TypeOK
  <2> QED BY <2>1 DEF Tame
<1>4. StaysUnfollowed
  BY <1>0, Zenon DEF StaysUnfollowed, Unfollowed, Establishing
<1>5. FrameInv'
  BY <1>0, <1>1, FramesKept, Zenon DEF Control
<1>6. RowsKept
  BY <1>0, Zenon DEF RowsKept, StatusWanted
<1> QED BY <1>1, <1>2, <1>3, <1>4, <1>5, <1>6, ControlStep, Zenon

\* A session is promoted: only a CID nobody follows yet is.
LEMMA PromoteControl ==
    ASSUME TypeInv, Control, NEW c \in Cids, PromoteSession(c), ~Fresh(c)
    PROVE  /\ Tame
           /\ \A d \in Cids \ {c} : dpc'[d] = dpc[d]
           /\ est[c].pc # "none" => dpc'[c] = dpc[c]
           /\ snap[c] # "none" => dpc'[c] = dpc[c]
           /\ "cancel" \notin cids'[c]
<1>1. CASE "cancel" \notin cids[c]
  <2>1. UNCHANGED <<cids, dpc>>
    BY <1>1, Zenon DEF PromoteSession
  <2> QED BY <1>1, <2>1, Zenon DEF Tame
<1>2. CASE "cancel" \in cids[c]
  <2>1. /\ cids' = [cids EXCEPT ![c] = (cids[c] \ {"cancel"}) \cup {"promoted"}]
        /\ dpc' = [dpc EXCEPT ![c] = "wait"]
    BY <1>2, Zenon DEF PromoteSession
  <2>2. DOMAIN cids = Cids /\ DOMAIN dpc = Cids
    BY Zenon DEF TypeInv, TypeOK
  <2>3. Tame /\ "cancel" \notin cids'[c]
    BY <1>2, <2>1, <2>2 DEF Tame
  <2>4. \A d \in Cids \ {c} : dpc'[d] = dpc[d]
    BY <2>1, <2>2, Zenon
  <2>5. dpc[c] = "none" /\ est[c].pc = "none"
    BY <1>2, Zenon DEF Control, CancelInv, FrameInv, Unfollowed, Establishing, Actors
  <2>6. snap[c] = "none"
    BY <2>5, DeadlineReadsNothing DEF Control
  <2> QED BY <2>3, <2>4, <2>5, <2>6, Zenon
<1> QED BY <1>1, <1>2, Zenon

LEMMA AuthenticatedControl ==
    ASSUME TypeInv, FreshInv, Settled, Control, NEW r \in Reqs,
           CallbackMarksAuthenticated(r)
    PROVE  Settled' /\ Control'
<1>c. PICK c \in Cids : c = rsid[r]
  BY Zenon DEF CallbackMarksAuthenticated, TypeInv, KnowsItsCids
<1>0. /\ UNCHANGED <<vpn, events, snap, attempt, active, lpc, lold, est>>
      /\ PromoteSession(c)
  BY <1>c, Zenon DEF CallbackMarksAuthenticated, ovpnVars, loopVars
<1>f. ~Fresh(c)
  BY <1>c, Zenon DEF FreshInv, Untouched
<1>1. VpnOnwards /\ Ages /\ StaysAdmitted
  BY <1>0, VpnStays, AdmittedSame, Zenon DEF Ages, Fresh, Queued
<1>2. Settled'
  BY <1>0, DataPromoted, Zenon DEF TypeInv
<1>3. /\ Tame
      /\ \A d \in Cids \ {c} : dpc'[d] = dpc[d]
      /\ est[c].pc # "none" => dpc'[c] = dpc[c]
      /\ snap[c] # "none" => dpc'[c] = dpc[c]
      /\ "cancel" \notin cids'[c]
  BY <1>0, <1>f, PromoteControl, Zenon
<1>4. StaysUnfollowed
  <2> SUFFICES ASSUME NEW d \in Cids, Unfollowed(d), "cancel" \in cids'[d] \/ Fresh(d)'
               PROVE  Unfollowed(d)'
    BY Zenon DEF StaysUnfollowed
  <2>1. d # c
    BY <1>1, <1>3, <1>f, Zenon DEF Ages
  <2> QED BY <1>0, <1>3, <2>1, Zenon DEF Unfollowed, Establishing
<1>5. FrameInv'
  BY <1>0, <1>1, <1>3, FramesKept, Zenon DEF Control
<1>6. RowsKept
  <2>1. ASSUME NEW b \in Actors, snap[b] # "none"
        PROVE  StatusWanted(b)' = StatusWanted(b)
    <3>1. b # Loop => dpc'[b] = dpc[b]
      BY <1>3, <2>1, Zenon DEF Actors
    <3> QED BY <1>0, <3>1, Zenon DEF StatusWanted
  <2> QED BY <1>0, <2>1, Zenon DEF RowsKept
<1> QED BY <1>1, <1>2, <1>3, <1>4, <1>5, <1>6, ControlStep, Zenon

-----------------------------------------------------------------------------
(* establishCID. *)

\* A call goes on or returns.
LEMMA EstControl ==
    ASSUME TypeInv, Control, NEW a \in Actors, est[a].pc # "none",
           UNCHANGED <<vpn, events, lpc, lold, dpc>>, Tame,
           est'[a].pc # "none" => /\ est'[a].cid = est[a].cid
                                  /\ est'[a].old # None => WasUp(est'[a].old),
           \A b \in Actors \ {a} : est'[b] = est[b] /\ snap'[b] = snap[b],
           snap'[a] = "none" \/ (snap' = snap /\ est[a].pc # "status")
    PROVE  Control'
<1>1. VpnOnwards /\ Ages /\ StaysAdmitted
  BY VpnStays, AdmittedSame, Zenon DEF Ages, Fresh, Queued
<1>2. StaysUnfollowed
  <2>1. ASSUME NEW d, NEW b \in Actors, Establishing(b, d)' PROVE Establishing(b, d)
    BY <2>1, Zenon DEF Establishing
  <2> QED BY <2>1, Zenon DEF StaysUnfollowed, Unfollowed
<1>3. FrameInv'
  <2>1. ASSUME NEW b \in Actors, est'[b].pc # "none"
        PROVE  /\ est[b].pc # "none" /\ est'[b].cid = est[b].cid
               /\ est'[b].old # None => WasUp(est'[b].old)
    <3>1. CASE b = a
      BY <2>1, <3>1, Zenon
    <3>2. CASE b # a
      BY <2>1, <3>2, Zenon DEF Control, FrameInv
    <3> QED BY <3>1, <3>2
  <2>2. \A b : WasUp(b)' <=> WasUp(b)
    BY Zenon DEF WasUp
  <2>3. \A b \in Actors : est'[b].pc # "none" =>
           /\ WasUp(est[b].cid)'
           /\ est'[b].old # None => WasUp(est[b].old)'
    BY <2>1, Zenon DEF Control, FrameInv, WasUp
  <2>4. \A d \in Cids : est'[d].pc # "none" => est'[d].cid = d /\ dpc'[d] = "done"
    BY <2>1, Zenon DEF Control, FrameInv, Actors
  <2>5. lpc' = "status" => est'[Loop].pc = "none"
    BY <2>1, Zenon DEF Control, FrameInv, Actors
  <2> QED BY <2>3, <2>4, <2>5, Zenon DEF FrameInv
<1>4. RowsKept
  <2>1. snap'[a] = "none"
    BY BusyReadsNothing, Zenon DEF Control
  <2>2. ASSUME NEW b \in Actors \ {a} PROVE StatusWanted(b)' = StatusWanted(b)
    BY <2>2, Zenon DEF StatusWanted
  <2> QED BY <2>1, <2>2, Zenon DEF RowsKept
<1> QED BY <1>1, <1>2, <1>3, <1>4, ControlStep, Zenon

LEMMA EstTame == ASSUME TypeInv, NEW a \in Actors, EstLock(a) PROVE Tame
<1>1. CASE cids[est[a].cid] = {}
  BY <1>1, Zenon DEF EstLock, Tame
<1>2. CASE cids[est[a].cid] # {}
  BY <1>2, EstLockFlags, Zenon DEF Tame
<1> QED BY <1>1, <1>2

LEMMA EstKills ==
    ASSUME TypeInv, Settled, Control, NEW a \in Actors,
           EstKill(a) \/ EstKillAccepted(a) \/ EstKillFailed(a)
    PROVE  Settled' /\ Control'
<1>0. /\ UNCHANGED <<vpn, events, snap, cids, attempt, active, lpc, lold, dpc>>
      /\ est[a].pc \notin {"none", "status"}
  BY Zenon DEF EstKill, EstKillAccepted, EstKillFailed, ovpnVars, loopVars, goVars
<1>1. Settled'
  BY <1>0, DataSame, VpnStays, Zenon DEF TypeInv
<1>2. /\ \A b \in Actors \ {a} : est'[b] = est[b]
      /\ \/ est'[a].pc = "none"
         \/ est'[a].cid = est[a].cid /\ est'[a].old = est[a].old
  <2>1. /\ est \in [Actors -> Frames] /\ est[a] \in Frames
        /\ \/ est' = [est EXCEPT ![a] = Idle]
           \/ \E p \in EstPcs : est' = [est EXCEPT ![a].pc = p]
    BY Zenon DEF EstKill, EstKillAccepted, EstKillFailed, EstReturn, TypeInv,
                 TypeOK, EstPcs
  <2> QED BY <2>1 DEF Idle, Frames
<1>3. est[a].old # None => WasUp(est[a].old)
  BY <1>0, Zenon DEF Control, FrameInv
<1>4. Tame
  BY <1>0, Zenon DEF Tame
<1>5. /\ \A b \in Actors \ {a} : snap'[b] = snap[b]
      /\ est'[a].pc # "none" /\ est'[a].old # None => WasUp(est'[a].old)
  BY <1>0, <1>2, <1>3, Zenon
<1> QED BY <1>0, <1>1, <1>2, <1>4, <1>5, EstControl, Zenon

LEMMA EstLocks ==
    ASSUME TypeInv, Settled, Control, NEW a \in Actors, EstLock(a)
    PROVE  Settled' /\ Control'
<1>0. /\ UNCHANGED <<vpn, events, snap, lpc, lold, dpc>> /\ est[a].pc = "lock"
      /\ est \in [Actors -> Frames]
  BY Zenon DEF EstLock, ovpnVars, loopVars, TypeInv, TypeOK
<1>1. Settled' /\ Tame
  BY DataEstablished, EstTame, Zenon DEF Control
<1>2. CASE cids[est[a].cid] = {}
  <2>1. est' = [est EXCEPT ![a] = Idle]
    BY <1>2, Zenon DEF EstLock, EstReturn
  <2>2. est'[a].pc = "none" /\ \A b \in Actors \ {a} : est'[b] = est[b]
    BY <1>0, <2>1 DEF Idle
  <2> QED BY <1>0, <1>1, <2>2, EstControl, Zenon
<1>3. CASE cids[est[a].cid] # {}
  <2> DEFINE old == active[Identity(est[a].cid)]
             was == IF old \notin {None, est[a].cid} THEN old ELSE None
  <2>1. \E p \in EstPcs : est' = [est EXCEPT ![a].pc = p, ![a].old = was]
    <3>1. "timer" \in EstPcs /\ "kill" \in EstPcs /\ "none" \in EstPcs
      BY DEF EstPcs
    <3> QED BY <1>3, <3>1, Zenon DEF EstLock
  <2>2. was # None => WasUp(was)
    <3>1. Identity(est[a].cid) \in Identities
      BY <1>0, IdentityType, Zenon DEF TypeInv, KnowsItsCids
    <3> QED BY <3>1, Zenon DEF Settled, ActiveIsReal, WasUp
  <2> HIDE DEF was
  <2>3. /\ \A b \in Actors \ {a} : est'[b] = est[b]
        /\ est'[a].cid = est[a].cid /\ est'[a].old = was
    BY <1>0, <2>1 DEF Frames
  <2> QED BY <1>0, <1>1, <2>2, <2>3, EstControl, Zenon
<1> QED BY <1>2, <1>3

LEMMA EstTimes ==
    ASSUME TypeInv, Settled, Control, NEW a \in Actors, EstTimer(a)
    PROVE  Settled' /\ Control'
<1>0. /\ UNCHANGED <<vpn, events, snap, lpc, lold, dpc>> /\ est[a].pc = "timer"
      /\ est \in [Actors -> Frames] /\ est[a].cid \in Cids /\ DOMAIN cids = Cids
  BY Zenon DEF EstTimer, ovpnVars, loopVars, TypeInv, TypeOK, KnowsItsCids
<1>1. Settled'
  BY DataTimed, Zenon
<1>2. Tame
  <2>1. \/ cids' = cids
        \/ /\ cids[est[a].cid] # {}
           /\ cids' = [cids EXCEPT ![est[a].cid] = cids[est[a].cid] \cup {"expiry"}]
    BY Zenon DEF EstTimer
  <2> QED BY <1>0, <2>1 DEF Tame
<1>3. \E p : est' = [est EXCEPT ![a].pc = p]
  BY Zenon DEF EstTimer
<1>4. /\ \A b \in Actors \ {a} : est'[b] = est[b]
      /\ est'[a].cid = est[a].cid /\ est'[a].old = est[a].old
  BY <1>0, <1>3 DEF Frames
<1>5. est[a].old # None => WasUp(est[a].old)
  BY <1>0, Zenon DEF Control, FrameInv
<1> QED BY <1>0, <1>1, <1>2, <1>4, <1>5, EstControl, Zenon

LEMMA EstReconciles ==
    ASSUME TypeInv, Settled, Control, NEW a \in Actors, EstReconcile(a)
    PROVE  Settled' /\ Control'
<1>0. /\ UNCHANGED <<vpn, events, lpc, lold, dpc>> /\ est[a].pc = "status"
      /\ est \in [Actors -> Frames] /\ est[a].old \in Cids
      /\ est' = [est EXCEPT ![a] = Idle] /\ snap' = [snap EXCEPT ![a] = "none"]
      /\ DOMAIN snap = Actors
  BY Zenon DEF EstReconcile, EstReturn, Used, ovpnVars, loopVars, TypeInv, TypeOK,
               KnowsItsCids
<1>1. Settled' /\ Tame
  <2>1. CASE SnapshotAbsent(a)
    BY <1>0, <2>1, DisconnectData, Zenon DEF EstReconcile, TypeInv
  <2>2. CASE ~SnapshotAbsent(a)
    BY <1>0, <2>2, DataSame, VpnStays, Zenon DEF EstReconcile, Tame, TypeInv
  <2> QED BY <2>1, <2>2
<1>2. /\ est'[a].pc = "none" /\ \A b \in Actors \ {a} : est'[b] = est[b]
      /\ snap'[a] = "none" /\ \A b \in Actors \ {a} : snap'[b] = snap[b]
  BY <1>0 DEF Idle
<1> QED BY <1>0, <1>1, <1>2, EstControl

-----------------------------------------------------------------------------
(* The event loop. *)

LEMMA LoopRows ==
    ASSUME UNCHANGED dpc, snap'[Loop] = "none",
           \A b \in Actors \ {Loop} : est'[b] = est[b] /\ snap'[b] = snap[b]
    PROVE  RowsKept
<1>1. ASSUME NEW b \in Actors \ {Loop} PROVE StatusWanted(b)' = StatusWanted(b)
  BY <1>1, Zenon DEF StatusWanted
<1> QED BY <1>1, Zenon DEF RowsKept

\* The loop goes on to a place where it waits for no status.
LEMMA LoopControl ==
    ASSUME TypeInv, Control, UNCHANGED <<vpn, est, dpc>>, Ages, StaysAdmitted, Tame,
           lpc' # "status", snap'[Loop] = "none",
           \A b \in Actors \ {Loop} : snap'[b] = snap[b]
    PROVE  Control'
<1>1. VpnOnwards /\ RowsKept
  BY VpnStays, LoopRows, Zenon
<1>2. StaysUnfollowed
  BY Zenon DEF StaysUnfollowed, Unfollowed, Establishing
<1>3. FrameInv'
  BY <1>1, FramesKept, Zenon DEF Control
<1> QED BY <1>1, <1>2, <1>3, ControlStep, Zenon

LEMMA LoopDenies ==
    ASSUME TypeInv, Settled, Control, Ages,
           ConnectReject \/ ConnectBusy \/ ConflictUndecided \/ DenySuperseded
    PROVE  Settled' /\ Control'
<1>0. /\ UNCHANGED <<vpn, events, cids, attempt, active, est, dpc>>
      /\ est[Loop].pc = "none" /\ lpc' \in {"deny", "pend"}
      /\ lpc = "superseded" => lpc' = "pend"
  BY Zenon DEF ConnectReject, ConnectBusy, ConflictUndecided, DenySuperseded,
               Handling, LoopAt, LoopGo, ovpnVars, goVars
<1>1. snap'[Loop] = "none" /\ \A b \in Actors \ {Loop} : snap'[b] = snap[b]
  <2>1. CASE ConflictUndecided
    <3>1. DOMAIN snap = Actors /\ Loop \in Actors
      BY Zenon DEF TypeInv, TypeOK, Actors
    <3> QED BY <2>1, <3>1 DEF ConflictUndecided, Used
  <2>2. CASE ~ConflictUndecided
    <3>1. UNCHANGED snap /\ lpc # "status"
      BY <2>2 DEF ConnectReject, ConnectBusy, DenySuperseded, Handling, LoopAt
    <3> QED BY <1>0, <3>1, LoopReadsNothing, Zenon DEF Control
  <2> QED BY <2>1, <2>2
<1>2. Settled' /\ Tame
  BY <1>0, DataSame, VpnStays, Zenon DEF Tame, TypeInv
<1>3. StaysAdmitted
  <2>1. lpc # "pend"
    BY Zenon DEF ConnectReject, ConnectBusy, ConflictUndecided, DenySuperseded, Handling,
           LoopAt
  <2> QED BY <1>0, <2>1, Zenon DEF StaysAdmitted, Admitted, lcid
<1>4. lpc' # "status"
  BY <1>0
<1> QED BY <1>0, <1>1, <1>2, <1>3, <1>4, LoopControl, Zenon

LEMMA LoopReturns ==
    ASSUME TypeInv, FreshInv, Settled, Control, Ages, SendPending \/ DenyConnect
    PROVE  Settled' /\ Control'
<1>0. /\ UNCHANGED <<vpn, snap, cids, attempt, active, est, dpc>> /\ lpc' = "idle"
      /\ est[Loop].pc = "none" /\ lpc \in {"pend", "deny"} /\ events' = Tail(events)
  BY Zenon DEF SendPending, DenyConnect, LoopAt, LoopReturn, goVars
<1>1. snap[Loop] = "none"
  <2>1. lpc # "status"
    BY <1>0
  <2> QED BY <1>0, <2>1, LoopReadsNothing, Zenon DEF Control
<1>2. Settled' /\ Tame
  BY <1>0, DataSame, VpnStays, Zenon DEF Tame, TypeInv
<1>3. StaysAdmitted
  <2>0. lpc # "idle"
    BY <1>0
  <2>1. events # <<>> /\ Head(events).type = "CONNECT"
    BY <2>0, Zenon DEF TypeInv, KnowsItsCids, FreshInv
  <2>2. \A c : c = lcid => ~Queued(c)'
    BY <1>0, <2>1, TailEvent, Zenon DEF TypeInv, FreshInv
  <2>3. vpn[lcid] # "none"
    BY <2>1, HeadIsFresh, Zenon
  <2>4. ASSUME NEW c \in Cids, Admitted(c), Fresh(c)' PROVE FALSE
    BY <1>0, <2>2, <2>3, <2>4, Zenon DEF Admitted, Fresh
  <2> QED BY <2>4, Zenon DEF StaysAdmitted
<1>4. lpc' # "status"
  BY <1>0
<1> QED BY <1>0, <1>1, <1>2, <1>3, <1>4, LoopControl, Zenon

LEMMA LoopForgets ==
    ASSUME TypeInv, EventInv, Settled, Control, Ages, ConflictAbsent \/ Disconnect
    PROVE  Settled' /\ Control'
<1>0. /\ UNCHANGED <<vpn, est, dpc>> /\ lpc' = "idle" /\ est[Loop].pc = "none"
      /\ lpc \in {"idle", "status"}
      /\ DOMAIN snap = Actors /\ Loop \in Actors /\ TypeOK
  BY Zenon DEF ConflictAbsent, Disconnect, Handling, LoopAt, LoopReturn, ovpnVars,
               TypeInv, TypeOK, Actors
<1>1. StaysAdmitted /\ lpc' # "status"
  BY <1>0 DEF StaysAdmitted, Admitted
<1>2. CASE ConflictAbsent
  <2>1. lold \in Cids /\ CleanupPromoted(lold) /\ UNCHANGED active
        /\ snap' = [snap EXCEPT ![Loop] = "none"]
    BY <1>2, Zenon DEF ConflictAbsent, LoopAt, TypeInv, KnowsItsCids, Used
  <2>2. snap'[Loop] = "none" /\ \A b \in Actors \ {Loop} : snap'[b] = snap[b]
    BY <1>0, <2>1
  <2>3. Settled' /\ Tame
    BY <1>0, <2>1, CleanupData, Zenon
  <2> QED BY <1>0, <1>1, <2>2, <2>3, LoopControl, Zenon
<1>3. CASE Disconnect
  <2>1. /\ lpc # "status" /\ UNCHANGED snap /\ events # <<>> /\ HandleDisconnect(lcid)
    BY <1>3, Zenon DEF Disconnect, Handling, LoopAt
  <2>2. snap[Loop] = "none" /\ lcid \in Cids
    BY <1>0, <2>1, LoopReadsNothing, HeadIsKnown, Zenon DEF Control
  <2>3. Settled' /\ Tame
    BY <1>0, <2>1, <2>2, DisconnectData, Zenon
  <2> QED BY <1>0, <1>1, <2>1, <2>2, <2>3, LoopControl, Zenon
<1> QED BY <1>2, <1>3

\* A promoted CID is nobody's first CONNECT, and not in flight either.
LEMMA PromotedIsPast ==
    ASSUME Settled, Control, lpc \notin {"pend", "superseded"}, NEW c \in Cids,
           "promoted" \in cids[c]
    PROVE  ~Fresh(c) /\ "cancel" \notin cids[c]
<1>1. cids[c] # {}
  OBVIOUS
<1> QED BY <1>1, Zenon DEF Settled, PhaseInv, Phase, Control, NewInv, Admitted

LEMMA LoopAsks ==
    ASSUME TypeInv, Settled, Control, Ages, ConnectPromotedConflict
    PROVE  Settled' /\ Control'
<1>0. /\ UNCHANGED <<vpn, events, snap, cids, attempt, active, est, dpc>>
      /\ lpc = "idle" /\ est[Loop].pc = "none" /\ lold' = Existing
      /\ "promoted" \in Held(Existing) /\ lpc' = "status" /\ events # <<>>
  BY Zenon DEF ConnectPromotedConflict, Handling, LoopAt, ovpnVars, goVars
<1>1. lpc \notin {"pend", "superseded"} /\ lpc # "status"
  BY <1>0
<1>2. Existing \in Cids /\ ~Fresh(Existing) /\ "cancel" \notin cids[Existing]
  <2>1. Existing # None /\ "promoted" \in cids[Existing]
    BY <1>0 DEF Held
  <2>2. Existing \in Cids
    BY <1>0, <2>1, ExistingAttempts, Zenon DEF TypeInv, Settled
  <2> QED BY <1>1, <2>1, <2>2, PromotedIsPast, Zenon
<1>3. Settled' /\ Tame /\ StaysAdmitted /\ VpnOnwards
  BY <1>0, <1>1, DataSame, VpnStays, Zenon DEF Tame, TypeInv, StaysAdmitted, Admitted
<1>4. RowsKept
  BY <1>0, <1>1, LoopReadsNothing, LoopRows, Zenon DEF Control
<1>5. StaysUnfollowed
  BY <1>0, <1>2, Zenon DEF StaysUnfollowed, Unfollowed, Establishing, Ages
<1>6. FrameInv'
  BY <1>0, <1>3, FramesKept, Zenon DEF Control
<1> QED BY <1>3, <1>4, <1>5, <1>6, ControlStep, Zenon

\* The status shows the promoted CID established.
LEMMA LoopFindsEstablished ==
    ASSUME TypeInv, Settled, Control, Ages, ConflictEstablished
    PROVE  Settled' /\ Control'
<1>0. /\ UNCHANGED <<vpn, events, cids, attempt, active, dpc>>
      /\ lpc = "status" /\ est[Loop].pc = "none" /\ lpc' = "deny"
      /\ snap[Loop] = "established" /\ lold \in Cids /\ Loop \in Actors
  BY Zenon DEF ConflictEstablished, LoopAt, LoopGo, ovpnVars, goVars, TypeInv,
               KnowsItsCids, Actors
<1>1. /\ lpc \notin {"pend", "superseded"} /\ lpc' # "status"
      /\ est[Loop].pc # "status"
  BY <1>0
<1>2. /\ snap'[Loop] = "none" /\ \A b \in Actors \ {Loop} : snap'[b] = snap[b]
      /\ est'[Loop].cid = lold /\ est'[Loop].old = None
      /\ \A b \in Actors \ {Loop} : est'[b] = est[b]
  <2>1. DOMAIN snap = Actors /\ DOMAIN est = Actors
    BY Zenon DEF TypeInv, TypeOK
  <2> QED BY <1>0, <2>1 DEF ConflictEstablished, Used, CallEstablish
<1>3. WasUp(lold)
  <2>1. lold \in StatusWanted(Loop)
    BY <1>0, <1>1, Zenon DEF StatusWanted
  <2> QED BY <1>0, <2>1, Zenon DEF Control, SnapInv
<1>4. Settled' /\ Tame /\ StaysAdmitted /\ VpnOnwards
  BY <1>0, <1>1, DataSame, VpnStays, Zenon DEF Tame, TypeInv, StaysAdmitted, Admitted
<1>5. RowsKept
  BY <1>0, <1>2, LoopRows, Zenon
<1>6. StaysUnfollowed
  <2> SUFFICES ASSUME NEW c \in Cids, Unfollowed(c) PROVE Unfollowed(c)'
    BY Zenon DEF StaysUnfollowed
  <2>1. c # lold
    BY <1>0, Zenon DEF Unfollowed
  <2>2. ASSUME NEW b \in Actors, Establishing(b, c)' PROVE Establishing(b, c)
    <3>1. CASE b = Loop
      BY <1>2, <2>1, <2>2, <3>1, Zenon DEF Establishing
    <3>2. CASE b # Loop
      BY <1>2, <2>2, <3>2, Zenon DEF Establishing
    <3> QED BY <3>1, <3>2
  <2> QED BY <1>0, <1>1, <2>2, Zenon DEF Unfollowed
<1>7. FrameInv'
  <2>1. Loop \notin Cids
    BY ConstantsAssumption, Zenon DEF ConstantsAssumption
  <2> QED BY <1>0, <1>1, <1>2, <1>3, <2>1, FramesCalled, Zenon DEF Control
<1> QED BY <1>4, <1>5, <1>6, <1>7, ControlStep, Zenon

LEMMA LoopEstablishes ==
    ASSUME TypeInv, EventInv, Settled, Control, Ages, Established
    PROVE  Settled' /\ Control'
<1>0. /\ UNCHANGED <<vpn, snap, attempt, active>> /\ events # <<>>
      /\ Head(events).type = "ESTABLISHED"
      /\ lpc = "idle" /\ est[Loop].pc = "none" /\ lpc' = "idle"
      /\ Loop \in Actors /\ PromoteSession(lcid)
  BY Zenon DEF Established, Handling, LoopAt, LoopReturn, Actors
<1>1. lpc \notin {"pend", "superseded", "status"} /\ lpc' # "status"
  BY <1>0
<1>2. PICK c \in Cids : c = lcid /\ WasUp(c) /\ ~Fresh(c)
  BY <1>0, HeadIsKnown, Zenon DEF TypeInv
<1>3. /\ est'[Loop].cid = c /\ est'[Loop].old = None
      /\ \A b \in Actors \ {Loop} : est'[b] = est[b]
  <2>1. DOMAIN est = Actors
    BY Zenon DEF TypeInv, TypeOK
  <2> QED BY <1>0, <1>2, <2>1 DEF Established, CallEstablish
<1>4. Settled' /\ StaysAdmitted /\ VpnOnwards /\ PromoteSession(c)
  BY <1>0, <1>1, <1>2, DataPromoted, VpnStays, Zenon
     DEF TypeInv, StaysAdmitted, Admitted
<1>5. /\ Tame
      /\ \A d \in Cids \ {c} : dpc'[d] = dpc[d]
      /\ est[c].pc # "none" => dpc'[c] = dpc[c]
      /\ snap[c] # "none" => dpc'[c] = dpc[c]
      /\ "cancel" \notin cids'[c]
  BY <1>2, <1>4, PromoteControl, Zenon
<1>6. RowsKept
  <2>1. snap'[Loop] = "none"
    BY <1>0, <1>1, LoopReadsNothing, Zenon DEF Control
  <2>2. ASSUME NEW b \in Actors \ {Loop}, snap[b] # "none"
        PROVE  StatusWanted(b)' = StatusWanted(b)
    <3>1. est'[b] = est[b] /\ dpc'[b] = dpc[b]
      BY <1>3, <1>5, <2>2, Zenon DEF Actors
    <3> QED BY <2>2, <3>1, Zenon DEF StatusWanted
  <2> QED BY <1>0, <2>1, <2>2, Zenon DEF RowsKept
<1>7. StaysUnfollowed
  <2> SUFFICES ASSUME NEW d \in Cids, Unfollowed(d), "cancel" \in cids'[d] \/ Fresh(d)'
               PROVE  Unfollowed(d)'
    BY Zenon DEF StaysUnfollowed
  <2>1. d # c
    BY <1>2, <1>5, Zenon DEF Ages
  <2>2. ASSUME NEW b \in Actors, Establishing(b, d)' PROVE Establishing(b, d)
    <3>1. CASE b = Loop
      BY <1>3, <2>1, <2>2, <3>1, Zenon DEF Establishing
    <3>2. CASE b # Loop
      <4>1. est'[b] = est[b]
        BY <1>3, <3>2, Zenon
      <4> QED BY <2>2, <4>1 DEF Establishing
    <3> QED BY <3>1, <3>2, Zenon
  <2>3. dpc'[d] = dpc[d]
    BY <1>5, <2>1, Zenon
  <2> QED BY <1>1, <2>2, <2>3, Zenon DEF Unfollowed
<1>8. FrameInv'
  <2>1. Loop \notin Cids
    BY ConstantsAssumption, Zenon DEF ConstantsAssumption
  <2>2. \A d \in Cids \ {Loop} : est[d].pc # "none" => dpc'[d] = dpc[d]
    BY <1>5, Zenon
  <2> QED BY <1>0, <1>1, <1>2, <1>3, <2>1, <2>2, FramesCalled, Zenon DEF Control
<1> QED BY <1>4, <1>5, <1>6, <1>7, <1>8, ControlStep, Zenon

\* A new attempt, in place of the identity's previous one or not.
LEMMA LoopTracks ==
    ASSUME TypeInv, FreshInv, Settled, Control, ConnectAdmit \/ ConnectSupersede
    PROVE  Settled' /\ Control'
<1>0. /\ UNCHANGED <<vpn, events, snap, est, dpc>> /\ lpc = "idle"
      /\ est[Loop].pc = "none" /\ events # <<>> /\ Head(events).type = "CONNECT"
      /\ lpc' \in {"pend", "superseded"}
  BY Zenon DEF ConnectAdmit, ConnectSupersede, Handling, LoopAt, LoopGo, ovpnVars,
               goVars
<1>1. lpc \notin {"pend", "superseded", "status"} /\ lpc' # "status"
  BY <1>0
<1>2. Settled' /\ VpnOnwards
  BY <1>0, DataAdmitted, DataSuperseded, VpnStays, Zenon DEF Control
<1>3. lcid \in Cids /\ Fresh(lcid) /\ Unfollowed(lcid)
  <2>1. lcid \in Cids /\ Fresh(lcid)
    BY <1>0, HeadIsFresh, Zenon DEF Fresh
  <2> QED BY <2>1, Zenon DEF Control, NewInv
<1>4. \A d \in Cids \ {lcid} : /\ "cancel" \in cids'[d] => "cancel" \in cids[d]
                               /\ cids[d] = {} => cids'[d] = {}
  <2>1. DOMAIN cids = Cids
    BY Zenon DEF TypeInv, TypeOK
  <2>2. \/ cids' = [cids EXCEPT ![lcid] = {"tracked", "cancel"}]
        \/ cids' = [[cids EXCEPT ![Existing] = @ \ {"cancel"}]
                        EXCEPT ![lcid] = {"tracked", "cancel"}]
    BY Zenon DEF ConnectAdmit, ConnectSupersede, Track
  <2> QED BY <1>3, <2>1, <2>2
<1>5. \A d \in Cids : Unfollowed(d) => Unfollowed(d)'
  BY <1>0, <1>1, Zenon DEF Unfollowed, Establishing
<1>6. CancelInv'
  <2> SUFFICES ASSUME NEW d \in Cids, "cancel" \in cids'[d] PROVE Unfollowed(d)
    BY <1>5, Zenon DEF CancelInv
  <2> QED BY <1>3, <1>4, Zenon DEF Control, CancelInv
<1>7. NewInv'
  <2> SUFFICES ASSUME NEW d \in Cids, Fresh(d)
               PROVE  Unfollowed(d)' /\ (cids'[d] = {} \/ Admitted(d)')
    BY <1>0, Zenon DEF NewInv, Fresh, Queued
  <2>1. Unfollowed(d)' /\ cids[d] = {}
    BY <1>1, <1>5, Zenon DEF Control, NewInv, Admitted
  <2>2. d = lcid => Admitted(d)'
    BY <1>0, Zenon DEF Admitted, lcid
  <2> QED BY <1>4, <2>1, <2>2, Zenon
<1>8. FrameInv'
  BY <1>0, <1>1, <1>2, FramesKept, Zenon DEF Control
<1>9. SnapInv'
  <2>1. RowsKept
    BY <1>0, <1>1, LoopReadsNothing, LoopRows, Zenon DEF Control
  <2> QED BY <1>2, <2>1, RowsStep, Zenon DEF Control
<1> QED BY <1>2, <1>6, <1>7, <1>8, <1>9, Zenon DEF Control

LEMMA LoopTracking ==
    ASSUME TypeInv, FreshInv, EventInv, Settled, Control, Ages, LoopNext
    PROVE  Settled' /\ Control'
BY LoopDenies, LoopReturns, LoopForgets, LoopAsks, LoopFindsEstablished,
   LoopEstablishes, LoopTracks, Zenon DEF LoopNext

-----------------------------------------------------------------------------
(* Every step. *)

LEMMA QueueAdmitted ==
    ASSUME TypeInv, UNCHANGED lpc, NEW e \in Events,
           events' = Append(events, e)
    PROVE  StaysAdmitted
<1>1. events # <<>> => Head(events') = Head(events)
  BY AppendEvent, Zenon DEF TypeInv
<1>2. lpc \in {"pend", "superseded"} => lpc # "idle"
  OBVIOUS
<1>3. lpc \in {"pend", "superseded"} => events # <<>>
  BY <1>2, Zenon DEF TypeInv, KnowsItsCids
<1> QED BY <1>1, <1>3, Zenon DEF StaysAdmitted, Admitted, lcid

LEMMA OpenVpnTracking ==
    ASSUME TypeInv, Settled, Control, VpnOnwards, Ages,
           \/ Execute
           \/ \E c \in Cids : VpnConnect(c) \/ VpnEstablish(c) \/ VpnLeave(c)
    PROVE  Settled' /\ Control'
<1>1. UNCHANGED <<snap, cids, attempt, active, lpc, lold, est, dpc>>
  BY Zenon DEF Execute, VpnConnect, VpnEstablish, VpnLeave, daemonVars, loopVars,
               goVars
<1>2. StaysAdmitted
  <2>1. CASE Execute
    BY <1>1, <2>1, AdmittedSame, Zenon DEF Execute
  <2>2. ASSUME NEW c \in Cids, VpnConnect(c) \/ VpnEstablish(c) \/ VpnLeave(c)
        PROVE  \E e \in Events : events' = Append(events, e)
    <3>1. \A t \in EventTypes : [type |-> t, cid |-> c] \in Events
      BY Zenon DEF Events
    <3>2. "CONNECT" \in EventTypes /\ "ESTABLISHED" \in EventTypes
          /\ "DISCONNECT" \in EventTypes
      BY Zenon DEF EventTypes
    <3> QED BY <2>2, <3>1, <3>2, Zenon DEF VpnConnect, VpnEstablish, VpnLeave
  <2> QED BY <1>1, <2>1, <2>2, QueueAdmitted, Zenon
<1> QED BY <1>1, <1>2, OutsideStep, Zenon

LEMMA TimeoutTracking ==
    ASSUME TypeInv, Settled, Control, VpnOnwards, Ages, NEW c \in Cids,
           TimeoutNext(c) \/ ExpiryNext(c) \/ Reap(c)
    PROVE  Settled' /\ Control'
<1>1. CASE TimeoutClears(c)
  BY <1>1, TimeoutClearsControl, Zenon
<1>2. CASE ~TimeoutClears(c)
  <2>1. UNCHANGED <<events, snap, cids, attempt, active, lpc, lold, est, dpc>>
    BY <1>2, Zenon
       DEF TimeoutNext, TimeoutFires, TimeoutMarksFailed, TimeoutDenies, ExpiryNext,
           ExpiryFires, ExpiryKills, Reap, ovpnVars, loopVars, goVars
  <2> QED BY <2>1, AdmittedSame, OutsideStep, Zenon
<1> QED BY <1>1, <1>2

LEMMA CallbackTracking ==
    ASSUME TypeInv, FreshInv, Settled, Control, VpnOnwards, Ages, NEW r \in Reqs,
           CallbackStart(r) \/ CallbackNext(r)
    PROVE  Settled' /\ Control'
<1>1. CASE CallbackMarksAuthenticated(r)
  BY <1>1, AuthenticatedControl, Zenon
<1>2. CASE ~CallbackMarksAuthenticated(r)
  <2>1. UNCHANGED <<events, snap, cids, attempt, active, lpc, lold, est, dpc>>
    BY <1>2, Zenon
       DEF CallbackStart, CallbackNext, CallbackRetryable, CallbackReject,
           CallbackDenies, CallbackAllows, CallbackAllowDropped, CallbackRefused,
           CallbackMarksDone, ovpnVars, loopVars, goVars
  <2> QED BY <2>1, AdmittedSame, OutsideStep, Zenon
<1> QED BY <1>1, <1>2

LEMMA TrackingStep ==
    ASSUME TypeInv, FreshInv, EventInv, Settled, Control, [Next]_vars
    PROVE  EventInv' /\ Settled' /\ Control'
<1>1. EventInv' /\ VpnOnwards /\ Ages
  BY QueueStep, Zenon DEF Ages
<1>2. CASE LoopNext
  BY <1>1, <1>2, LoopTracking, Zenon
<1>3. ASSUME NEW a \in Actors, StatusNext(a) \/ EstNext(a) PROVE Settled' /\ Control'
  BY <1>3, StatusControl, EstLocks, EstTimes, EstKills, EstReconciles, Zenon
     DEF EstNext
<1>4. ASSUME NEW c \in Cids, DeadlineNext(c) PROVE Settled' /\ Control'
  BY <1>4, DeadlineMoves, DeadlineReconcilesStep, Zenon DEF DeadlineNext
<1>5. CASE UNCHANGED vars
  <2>1. UNCHANGED <<events, snap, cids, attempt, active, lpc, lold, est, dpc>>
    BY <1>5, Zenon DEF vars
  <2> QED BY <1>1, <2>1, AdmittedSame, OutsideStep, Zenon
<1> QED BY <1>1, <1>2, <1>3, <1>4, <1>5, OpenVpnTracking, TimeoutTracking, CallbackTracking, Zenon
        DEF Next

LEMMA TrackingInit == Init => EventInv /\ Settled /\ Control
<1> SUFFICES ASSUME Init PROVE EventInv /\ Settled /\ Control
  OBVIOUS
<1>1. EventInv
  BY DEF Init, EventInv
<1>2. /\ \A c \in Cids : cids[c] = {} /\ dpc[c] = "none"
      /\ \A i \in Identities : attempt[i] = None /\ active[i] = None
      /\ \A a \in Actors : est[a].pc = "none" /\ snap[a] = "none"
      /\ lpc # "status"
  BY DEF Init, Idle
<1>3. Settled
  <2>1. \A c \in Cids : Identity(c) \in Identities
    BY IdentityType, Zenon
  <2>2. IndexInv
    BY <1>2, <2>1, NoneIsNoCid, Zenon DEF IndexInv, Attempting
  <2>3. ActiveIsReal /\ PhaseInv
    BY <1>2, Zenon DEF ActiveIsReal, PhaseInv, Phase
  <2> QED BY <2>2, <2>3, Zenon DEF Settled
<1>4. Control
  <2>1. Loop \in Actors /\ Cids \subseteq Actors
    BY Zenon DEF Actors
  <2>2. CancelInv /\ NewInv /\ FrameInv
    BY <1>2, <2>1, Zenon DEF CancelInv, NewInv, FrameInv, Unfollowed, Establishing
  <2>3. SnapInv
    BY <1>2, Zenon DEF SnapInv
  <2> QED BY <2>2, <2>3, Zenon DEF Control
<1> QED BY <1>1, <1>3, <1>4

-----------------------------------------------------------------------------
(* Who forgets a CID. *)

Forgetting ==
    \/ Disconnect \/ ConflictAbsent
    \/ \E a \in Actors : EstReconcile(a)
    \/ \E c \in Cids : DeadlineReconciles(c)

LEMMA StaysTracked ==
    ASSUME TypeInv, FreshInv, Settled, [Next]_vars, ~Forgetting, NEW c \in Cids,
           "tracked" \in cids[c]
    PROVE  "tracked" \in cids'[c]
<1>d. DOMAIN cids = Cids
  BY Zenon DEF TypeInv, TypeOK
<1>0. ASSUME UNCHANGED cids PROVE "tracked" \in cids'[c]
  BY <1>0, Zenon
<1>1. ASSUME NEW d \in Cids, PromoteSession(d) \/ ClearInFlight(d)
      PROVE  "tracked" \in cids'[c]
  <2>1. \/ cids' = cids
        \/ cids' = [cids EXCEPT ![d] = cids[d] \ {"cancel"}]
        \/ cids' = [cids EXCEPT ![d] = (cids[d] \ {"cancel"}) \cup {"promoted"}]
    BY <1>1, Zenon DEF PromoteSession, ClearInFlight
  <2> QED BY <1>d, <2>1
<1>2. CASE ConnectAdmit \/ ConnectSupersede
  <2>1. \/ cids' = [cids EXCEPT ![lcid] = {"tracked", "cancel"}]
        \/ cids' = [[cids EXCEPT ![Existing] = @ \ {"cancel"}]
                        EXCEPT ![lcid] = {"tracked", "cancel"}]
    BY <1>2, Zenon DEF ConnectAdmit, ConnectSupersede, Track
  <2> QED BY <1>d, <2>1
<1>3. ASSUME NEW a \in Actors, EstLock(a) PROVE "tracked" \in cids'[c]
  <2>1. CASE cids[est[a].cid] = {}
    BY <1>3, <2>1, Zenon DEF EstLock
  <2>2. CASE cids[est[a].cid] # {}
    BY <1>3, <2>2, EstLockFlags, Zenon
  <2> QED BY <2>1, <2>2
<1>4. ASSUME NEW a \in Actors, EstTimer(a) PROVE "tracked" \in cids'[c]
  <2>1. \/ cids' = cids
        \/ cids' = [cids EXCEPT ![est[a].cid] = cids[est[a].cid] \cup {"expiry"}]
    BY <1>4, Zenon DEF EstTimer
  <2> QED BY <1>d, <2>1
<1>5. CASE LoopNext
  <2>1. CASE Established
    <3>1. lcid \in Cids
      BY <2>1, LcidType, Zenon DEF Established, Handling, TypeInv
    <3> QED BY <1>1, <2>1, <3>1, Zenon DEF Established
  <2>2. CASE ~Established /\ ~ConnectAdmit /\ ~ConnectSupersede
    BY <1>0, <1>5, <2>2, Zenon
       DEF LoopNext, Forgetting, ConnectReject, ConnectBusy, ConnectPromotedConflict,
           ConflictEstablished, ConflictUndecided, DenySuperseded, SendPending,
           DenyConnect
  <2> QED BY <1>2, <2>1, <2>2
<1>6. ASSUME NEW a \in Actors, StatusNext(a) \/ EstNext(a)
      PROVE  "tracked" \in cids'[c]
  <2>1. CASE ~EstLock(a) /\ ~EstTimer(a)
    BY <1>0, <1>6, <2>1, Zenon
       DEF StatusNext, StatusTake, StatusFails, EstNext, EstKill, EstKillAccepted,
           EstKillFailed, Forgetting, daemonVars
  <2> QED BY <1>3, <1>4, <2>1
<1>7. ASSUME NEW d \in Cids,
             DeadlineNext(d) \/ TimeoutNext(d) \/ ExpiryNext(d) \/ Reap(d)
      PROVE  "tracked" \in cids'[c]
  <2>1. CASE TimeoutClears(d)
    BY <1>1, <2>1, Zenon DEF TimeoutClears
  <2>2. CASE ~TimeoutClears(d)
    BY <1>0, <1>7, <2>2, Zenon
       DEF DeadlineNext, DeadlineFires, DeadlineCancelled, DeadlineChecks,
           DeadlineKills, DeadlineAcked, Forgetting, TimeoutNext, TimeoutFires,
           TimeoutMarksFailed, TimeoutDenies, ExpiryNext, ExpiryFires, ExpiryKills, Reap
  <2> QED BY <2>1, <2>2
<1>8. ASSUME NEW r \in Reqs, CallbackStart(r) \/ CallbackNext(r)
      PROVE  "tracked" \in cids'[c]
  <2>1. CASE CallbackMarksAuthenticated(r)
    BY <1>1, <2>1, Zenon DEF CallbackMarksAuthenticated, TypeInv, KnowsItsCids
  <2>2. CASE ~CallbackMarksAuthenticated(r)
    BY <1>0, <1>8, <2>2, Zenon
       DEF CallbackStart, CallbackNext, CallbackRetryable, CallbackReject,
           CallbackDenies, CallbackAllows, CallbackAllowDropped, CallbackRefused,
           CallbackMarksDone
  <2> QED BY <2>1, <2>2
<1>9. ASSUME \/ Execute \/ UNCHANGED vars
             \/ \E d \in Cids : VpnConnect(d) \/ VpnEstablish(d) \/ VpnLeave(d)
      PROVE  "tracked" \in cids'[c]
  BY <1>0, <1>9, Zenon DEF Execute, VpnConnect, VpnEstablish, VpnLeave, daemonVars, vars
<1> QED BY <1>5, <1>6, <1>7, <1>8, <1>9, Zenon DEF Next

LEMMA OnlyGoneForgotten ==
    ASSUME TypeInv, FreshInv, EventInv, Settled, Control, [Next]_vars,
           NEW c \in Cids, cids[c] # {}, cids'[c] = {}
    PROVE  vpn[c] = "gone"
<1>d. DOMAIN cids = Cids /\ TypeOK /\ SnapInv
  BY Zenon DEF TypeInv, TypeOK, Control
<1>1. Forgetting
  <2>1. "tracked" \in cids[c] /\ "tracked" \notin cids'[c]
    BY Zenon DEF Settled, PhaseInv, Phase
  <2> QED BY <2>1, StaysTracked, Zenon
<1>2. ASSUME NEW d \in Cids, HandleDisconnect(d) \/ CleanupPromoted(d) PROVE c = d
  <2>1. cids' = cids \/ cids' = [cids EXCEPT ![d] = {}]
    BY <1>2, Zenon DEF HandleDisconnect, CleanupPromoted
  <2> QED BY <1>d, <2>1, Zenon
<1>3. CASE Disconnect
  BY <1>d, <1>2, <1>3, HeadIsKnown, Zenon DEF Disconnect, Handling
<1>4. CASE ConflictAbsent
  <2>1. lold \in Cids /\ Loop \in Actors /\ est[Loop].pc # "status"
    BY <1>4, Zenon DEF ConflictAbsent, LoopAt, TypeInv, KnowsItsCids, Actors
  <2>2. lold \in StatusWanted(Loop)
    BY <1>4, <2>1, Zenon DEF StatusWanted, ConflictAbsent, LoopAt
  <2> QED BY <1>d, <1>2, <1>4, <2>1, <2>2, Zenon DEF ConflictAbsent, SnapInv
<1>5. ASSUME NEW a \in Actors, EstReconcile(a) PROVE vpn[c] = "gone"
  <2>1. est[a].old \in Cids /\ est[a].old \in StatusWanted(a)
    BY <1>5, Zenon DEF EstReconcile, TypeInv, KnowsItsCids, StatusWanted
  <2>2. snap[a] = "absent" /\ HandleDisconnect(est[a].old)
    BY <1>5, Zenon DEF EstReconcile, SnapshotAbsent
  <2> QED BY <1>d, <1>2, <2>1, <2>2, Zenon DEF SnapInv
<1>6. ASSUME NEW d \in Cids, DeadlineReconciles(d) PROVE vpn[c] = "gone"
  <2>1. /\ d # Loop /\ d \in Actors /\ est[d].pc # "status"
        /\ dpc[d] \in {"status1", "status2", "status3"}
    BY <1>6, ConstantsAssumption, Zenon
       DEF DeadlineReconciles, ConstantsAssumption, Actors
  <2>2. d \in StatusWanted(d)
    BY <2>1, Zenon DEF StatusWanted
  <2>3. snap[d] = "absent" /\ CleanupPromoted(d)
    BY <1>6, Zenon DEF DeadlineReconciles
  <2> QED BY <1>d, <1>2, <2>1, <2>2, <2>3, Zenon DEF SnapInv
<1> QED BY <1>1, <1>3, <1>4, <1>5, <1>6, Zenon DEF Forgetting

-----------------------------------------------------------------------------
(* The theorems. *)

\* The invariants of the handler together.
HandlerInv ==
    TypeInv /\ DecisionInv /\ EventInv /\ Settled /\ Control

\* What the event loop, the deadline goroutines and the callbacks believe of a
\* CID while they act on it is so, or was and OpenVPN is further on.
THEOREM HandlerInvAlways == Spec => []HandlerInv
<1>1. Init => HandlerInv
  BY TypeInvInit, DecisionInvInit, TrackingInit, Zenon DEF HandlerInv
<1>2. HandlerInv /\ [Next]_vars => HandlerInv'
  BY TypeInvStep, DecisionInvStep, TrackingStep, Zenon DEF HandlerInv, DecisionInv
<1> QED BY <1>1, <1>2, PTL DEF Spec

\* identityToAttemptCID and the cidStates agree however callbacks, timeouts,
\* deadlines and newer CONNECTs race: a CID is the attempt of its identity
\* exactly while it is in flight or promoted (handleConnect, promoteSession,
\* clearInFlight, establishCID, handleDisconnect, cleanupPromoted).
THEOREM AttemptIndexHolds == Spec => []AttemptIndexExact
<1>1. HandlerInv => AttemptIndexExact
  <2> SUFFICES ASSUME IndexInv PROVE AttemptIndexExact
    BY Zenon DEF HandlerInv, Settled
  <2>1. \A c \in Cids : Attempting(c) <=> cids[c] \cap {"cancel", "promoted"} # {}
    BY DEF Attempting
  <2> QED BY <2>1, Zenon DEF IndexInv, AttemptIndexExact
<1> QED BY <1>1, HandlerInvAlways, PTL

\* identityToActiveCID only names a CID that OpenVPN really brought up and
\* that is still tracked as established (establishCID, called by the event loop
\* and by deadline goroutines on status rows that may be old).
THEOREM ActiveIsRealHolds == Spec => []ActiveIsReal
<1>1. HandlerInv => ActiveIsReal
  BY Zenon DEF HandlerInv, Settled
<1> QED BY <1>1, HandlerInvAlways, PTL

\* The daemon forgets a CID only once OpenVPN has no such client any more:
\* handleDisconnect and cleanupPromoted act on a DISCONNECT or on a status
\* without the client, and what they were told is still true when they act.
THEOREM TrackingOutlivesClientHolds == Spec => TrackingOutlivesClient
<1>1. HandlerInv /\ [Next]_vars
        => [\A c \in Cids : cids[c] # {} /\ cids'[c] = {} => vpn[c] = "gone"]_vars
  BY OnlyGoneForgotten, Zenon DEF HandlerInv, DecisionInv
<1> QED BY <1>1, HandlerInvAlways, PTL DEF Spec, TrackingOutlivesClient
=============================================================================
