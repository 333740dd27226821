-------------------------- MODULE ManagementBroker --------------------------
(***************************************************************************)
(* The management connection: app.Daemon.Run and handleConnection          *)
(* (internal/app/daemon.go) with the goroutines of one connection          *)
(* (internal/app/management_protocol.go):                                  *)
(*                                                                         *)
(*   senders    hand commands to cmdCh, which outlives connections         *)
(*   forwarder  commandBrokerForwarder: cmdCh -> one broker request        *)
(*   broker     one request at a time: write, wait for the response        *)
(*   reader     readManagement: wire -> responses or notifications         *)
(*   loop       bootstrap, then one notification after the other; its      *)
(*              handler may itself ask the broker for a status             *)
(*   OpenVPN    answers commands in order, emits events                    *)
(*                                                                         *)
(* Commands handed to cmdCh are numbered in the order of the hand-over.  A *)
(* status response of many lines is one response.                          *)
(***************************************************************************)
EXTENDS Naturals, Sequences, FiniteSets

CONSTANTS
    NCmds,      \* number of commands the senders hand over
    QueueCap,   \* capacity of cmdCh
    NotifCap,   \* capacity of the notifications channel
    MaxEvents,  \* bound on the notifications OpenVPN emits
    MaxConns,   \* bound on the connections
    Faults      \* faults that may happen

FaultKinds == {"loss",      \* the socket breaks
               "slow",      \* OpenVPN does not answer within 5s
               "refused",   \* OpenVPN answers ERROR
               "garbled",   \* a response or event that cannot be parsed
               "noise",     \* a response line nobody asked for
               "shutdown"}  \* the daemon is told to stop

ASSUME BrokerAssumption ==
    /\ {NCmds, MaxEvents} \subseteq Nat
    /\ {QueueCap, NotifCap, MaxConns} \subseteq Nat \ {0}
    /\ Faults \subseteq FaultKinds

VARIABLES
    cmdCh, handed,      \* queued commands; how many have been handed over
    log,                \* numbers of the commands written, in order
    conn, phase,        \* connection number; life of the daemon
    ctx, sock,          \* connCtx live or cancelled; socket open or broken
    loop, awaited, ack, \* event loop; the command whose ack it awaits; the ack
    fw, fwcmd,          \* forwarder and its command
    brk, cur, reqs,     \* broker, whose request it executes, its queue
    reply,              \* reply[p]: result waiting for requester p
    ovin, wire, readErr,  \* commands OpenVPN has not answered; its output;
                          \* the reader has stopped
    respLine,           \* responses the broker has not consumed
    notif, buffered,    \* notifications channel; how many events bootstrap kept
    evictions,          \* evictions bootstrap has still to send
    emitted,            \* notifications emitted so far
    noisy               \* history: OpenVPN wrote a line nobody asked for

vars == <<cmdCh, handed, log, conn, phase, ctx, sock, loop, awaited, ack, fw,
          fwcmd, brk, cur, reqs, reply, ovin, wire, readErr, respLine, notif,
          buffered, evictions, emitted, noisy>>

queueVars == <<cmdCh, handed>>
connVars == <<conn, phase, ctx, sock>>
brokerVars == <<brk, cur, reqs, reply>>
socketVars == <<ovin, wire, readErr, respLine>>
notifVars == <<notif, buffered, evictions, emitted, noisy>>
ackVars == <<awaited, ack>>
fwVars == <<fw, fwcmd>>

Requesters == {"loop", "fw"}
Notifications == {"client", "hold"}
SendPcs == {"hold", "send", "kill", "evict"}
AckPcs == {"killack", "evictack"}
RequestPcs == {"boot1", "boot2", "status", "evictstatus"}
LoopPcs == {"boot", "idle", "returned"} \cup SendPcs \cup AckPcs \cup RequestPcs
BrokerRequests == [p : Requesters \cup {"none"}, cmd : Nat]

TypeOK ==
    /\ handed \in Nat
    /\ cmdCh \in Seq(1 .. handed) /\ Len(cmdCh) <= QueueCap
    /\ log \in Seq(1 .. handed)
    /\ conn \in 1 .. MaxConns
    /\ phase \in {"run", "draining", "exited"}
    /\ ctx \in {"live", "cancelled"}
    /\ sock \in {"open", "broken"}
    /\ loop \in LoopPcs
    /\ awaited \in 0 .. handed /\ ack \in {"none", "ok", "err"}
    /\ fw \in {"none", "idle", "waiting", "exited"}
    /\ fwcmd \in 0 .. handed
    /\ brk \in {"idle", "exec", "done"}
    /\ cur \in Requesters \cup {"none"}
    /\ reqs \in Seq(BrokerRequests)
    /\ reply \in [Requesters -> {"none", "ok", "err"}]
    /\ ovin \in Nat /\ respLine \in Nat /\ readErr \in BOOLEAN
    /\ wire \in Seq({"resp"} \cup Notifications)
    /\ notif \in Seq(Notifications) /\ Len(notif) <= NotifCap
    /\ buffered \in Nat
    /\ emitted \in 0 .. MaxEvents /\ evictions \in 0 .. 1 /\ noisy \in BOOLEAN

\* A connection has just been made.
Fresh ==
    /\ ctx' = "live" /\ sock' = "open"
    /\ loop' = "boot" /\ awaited' = 0 /\ ack' = "none"
    /\ fw' = "none" /\ fwcmd' = 0
    /\ brk' = "idle" /\ cur' = "none" /\ reqs' = <<>>
    /\ reply' = [p \in Requesters |-> "none"]
    /\ ovin' = 0 /\ wire' = <<>> /\ readErr' = FALSE /\ respLine' = 0
    /\ notif' = <<>> /\ buffered' = 0
    /\ evictions' = 0 /\ noisy' = FALSE

Init ==
    /\ cmdCh = <<>> /\ handed = 0 /\ log = <<>>
    /\ conn = 1 /\ phase = "run"
    /\ ctx = "live" /\ sock = "open"
    /\ loop = "boot" /\ awaited = 0 /\ ack = "none"
    /\ fw = "none" /\ fwcmd = 0
    /\ brk = "idle" /\ cur = "none" /\ reqs = <<>>
    /\ reply = [p \in Requesters |-> "none"]
    /\ ovin = 0 /\ wire = <<>> /\ readErr = FALSE /\ respLine = 0
    /\ notif = <<>> /\ buffered = 0
    /\ evictions = 0 /\ emitted = 0 /\ noisy = FALSE

-----------------------------------------------------------------------------
(* Senders and OpenVPN. *)

\* A command enters cmdCh; the sender blocks while it is full.
HandOver ==
    /\ Len(cmdCh) < QueueCap
    /\ handed' = handed + 1
    /\ cmdCh' = Append(cmdCh, handed + 1)

\* DaemonSink: timeouts, callbacks, expiry timers.  A sender that gives up
\* after 5s hands nothing over.
SendCommand ==
    /\ phase # "exited"
    /\ handed < NCmds
    /\ HandOver
    /\ UNCHANGED <<log, connVars, loop, ackVars, fwVars, brokerVars,
                   socketVars, notifVars>>

\* One response per command, in order.
VpnAnswers ==
    /\ sock = "open" /\ ovin > 0
    /\ ovin' = ovin - 1
    /\ wire' = Append(wire, "resp")
    /\ UNCHANGED <<queueVars, log, connVars, loop, ackVars, fwVars, brokerVars,
                   readErr, respLine, notifVars>>

VpnNotifies ==
    /\ sock = "open" /\ emitted < MaxEvents
    /\ emitted' = emitted + 1
    /\ \/ \E n \in Notifications : wire' = Append(wire, n) /\ UNCHANGED noisy
       \/ "noise" \in Faults /\ wire' = Append(wire, "resp") /\ noisy' = TRUE
    /\ UNCHANGED <<queueVars, log, connVars, loop, ackVars, fwVars, brokerVars,
                   ovin, readErr, respLine, notif, buffered, evictions>>

\* What was on its way may be lost.  The last connection stays.
SocketBreaks ==
    /\ "loss" \in Faults
    /\ sock = "open" /\ conn < MaxConns
    /\ sock' = "broken"
    /\ wire' \in {wire, <<>>}
    /\ UNCHANGED <<queueVars, log, conn, phase, ctx, loop, ackVars, fwVars,
                   brokerVars, ovin, readErr, respLine, notifVars>>

-----------------------------------------------------------------------------
(* readManagement. *)

\* The reader blocks on a full channel.
NotifRoom == Len(notif) < NotifCap

ReadLine ==
    /\ ~readErr
    /\ wire # <<>>
    /\ \/ /\ Head(wire) = "resp"
          /\ respLine' = respLine + 1
          /\ UNCHANGED notif
       \/ /\ Head(wire) \in Notifications
          /\ NotifRoom
          /\ notif' = Append(notif, Head(wire))
          /\ UNCHANGED respLine
    /\ wire' = Tail(wire)
    /\ UNCHANGED <<queueVars, log, connVars, loop, ackVars, fwVars, brokerVars,
                   ovin, readErr, buffered, evictions, emitted, noisy>>

\* End of file, or an event that cannot be parsed.
ReadFails ==
    /\ ~readErr
    /\ \/ sock = "broken" /\ wire = <<>>
       \/ "garbled" \in Faults /\ wire # <<>> /\ Head(wire) = "client"
    /\ readErr' = TRUE
    /\ UNCHANGED <<queueVars, log, connVars, loop, ackVars, fwVars, brokerVars,
                   ovin, wire, respLine, notifVars>>

ReaderNext == ReadLine \/ ReadFails

-----------------------------------------------------------------------------
(* managementBroker. *)

\* The result channel of p's request; nobody reads an abandoned one.
Deliver(p, r) == reply' = IF p = "none" THEN reply ELSE [reply EXCEPT ![p] = r]

\* execute: a failed write is fatal.
BrokerStart ==
    /\ brk = "idle" /\ reqs # <<>>
    /\ reqs' = Tail(reqs)
    /\ \/ /\ sock = "open"
          /\ brk' = "exec" /\ cur' = Head(reqs).p
          /\ ovin' = ovin + 1
          /\ log' = IF Head(reqs).cmd = 0 THEN log
                                          ELSE Append(log, Head(reqs).cmd)
          /\ UNCHANGED reply
       \/ /\ sock = "broken"
          /\ brk' = "done"
          /\ Deliver(Head(reqs).p, "err")
          /\ UNCHANGED <<cur, ovin, log>>
    /\ UNCHANGED <<queueVars, connVars, loop, ackVars, fwVars, wire, readErr,
                   respLine, notifVars>>

\* singleLineAck: everything but a status, which is asked for by the loop.
SingleLineAck == cur # "loop" \/ loop = "boot1"

\* SUCCESS or a complete status; ERROR is an answer too, but not to a status.
BrokerAnswers ==
    /\ brk = "exec" /\ respLine > 0
    /\ respLine' = respLine - 1
    /\ \/ Deliver(cur, "ok")
       \/ "refused" \in Faults /\ SingleLineAck /\ Deliver(cur, "err")
    /\ brk' = "idle" /\ cur' = "none"
    /\ UNCHANGED <<queueVars, log, connVars, loop, ackVars, fwVars, reqs, ovin,
                   wire, readErr, notifVars>>

\* The event loop waits while the reader waits for it to take a notification.
Stalled ==
    /\ loop \in AckPcs \cup RequestPcs
    /\ wire # <<>> /\ Head(wire) \in Notifications
    /\ ~NotifRoom

\* No response within 5s.
NoResponse ==
    /\ "slow" \in Faults \/ sock = "broken" \/ readErr \/ Stalled
    /\ UNCHANGED respLine

\* A line that is no response or, for a status, ERROR in place of END.
BadResponse ==
    /\ "garbled" \in Faults \/ ("refused" \in Faults /\ ~SingleLineAck)
    /\ respLine > 0
    /\ respLine' = respLine - 1

\* Mutant: after an error the broker carries on with the next request.
BrokerCarriesOn ==
    /\ brk = "exec"
    /\ NoResponse \/ BadResponse
    /\ Deliver(cur, "err")
    /\ brk' = "idle" /\ cur' = "none"
    /\ UNCHANGED <<queueVars, log, connVars, loop, ackVars, fwVars, reqs, ovin,
                   wire, readErr, notifVars>>

\* Both are fatal: the broker is finished.
BrokerFails ==
    /\ brk = "exec"
    /\ NoResponse \/ BadResponse
    /\ Deliver(cur, "err")
    /\ brk' = "done" /\ cur' = "none"
    /\ UNCHANGED <<queueVars, log, connVars, loop, ackVars, fwVars, reqs, ovin,
                   wire, readErr, notifVars>>

\* A response nobody asked for: desynchronized.
BrokerUnexpected ==
    /\ brk = "idle" /\ respLine > 0
    /\ respLine' = respLine - 1
    /\ brk' = "done"
    /\ UNCHANGED <<queueVars, log, connVars, loop, ackVars, fwVars, cur, reqs,
                   reply, ovin, wire, readErr, notifVars>>

BrokerCancelled ==
    /\ ctx = "cancelled" /\ brk # "done"
    /\ Deliver(cur, "err")
    /\ brk' = "done" /\ cur' = "none"
    /\ UNCHANGED <<queueVars, log, connVars, loop, ackVars, fwVars, reqs,
                   socketVars, notifVars>>

BrokerNext ==
    \/ BrokerStart \/ BrokerAnswers \/ BrokerFails \/ BrokerUnexpected
    \/ BrokerCancelled

\* request: p queues a command (number 0: not from cmdCh) ...
Request(p, k) == reqs' = Append(reqs, [p |-> p, cmd |-> k])

\* ... and takes the result ...
Result(p, r) ==
    /\ reply[p] = r
    /\ reply' = [reply EXCEPT ![p] = "none"]
    /\ UNCHANGED <<brk, cur, reqs>>

\* ... or leaves when the broker is done or its context is cancelled.
GivesUp(p) ==
    /\ reply' = [reply EXCEPT ![p] = "none"]
    /\ cur' = IF cur = p THEN "none" ELSE cur
    /\ reqs' = [i \in DOMAIN reqs |->
                    IF reqs[i].p = p THEN [reqs[i] EXCEPT !.p = "none"]
                                     ELSE reqs[i]]
    /\ UNCHANGED brk

-----------------------------------------------------------------------------
(* commandBrokerForwarder. *)

\* It takes a command even when the broker or the context is gone by now:
\* select chooses among what is ready.
ForwarderTakes ==
    /\ fw = "idle" /\ cmdCh # <<>>
    /\ fw' = "waiting" /\ fwcmd' = Head(cmdCh)
    /\ cmdCh' = Tail(cmdCh)
    /\ Request("fw", Head(cmdCh))
    /\ UNCHANGED <<handed, log, connVars, loop, ackVars, brk, cur, reply,
                   socketVars, notifVars>>

\* The result goes to the event loop if that is what it waits for.
Acknowledge(r) == ack' = IF fwcmd = awaited THEN r ELSE ack

ForwarderDone ==
    /\ fw = "waiting"
    /\ Result("fw", "ok")
    /\ Acknowledge("ok")
    /\ fw' = "idle" /\ fwcmd' = 0
    /\ UNCHANGED <<queueVars, log, connVars, loop, awaited, socketVars,
                   notifVars>>

RequestFails(p) ==
    \/ Result(p, "err")
    \/ GivesUp(p) /\ (brk = "done" \/ ctx = "cancelled")

\* Mutant: a failed command is tried again.
ForwarderRequeues ==
    /\ fw = "waiting"
    /\ RequestFails("fw")
    /\ Acknowledge("err")
    /\ fw' = "idle" /\ fwcmd' = 0
    /\ cmdCh' = <<fwcmd>> \o cmdCh
    /\ UNCHANGED <<handed, log, connVars, loop, awaited, socketVars,
                   notifVars>>

\* The error is logged and acknowledged; the command is not tried again.
ForwarderFails ==
    /\ fw = "waiting"
    /\ RequestFails("fw")
    /\ Acknowledge("err")
    /\ fw' = "idle" /\ fwcmd' = 0
    /\ UNCHANGED <<queueVars, log, connVars, loop, awaited, socketVars,
                   notifVars>>

\* cmdDone is closed.
ForwarderExits ==
    /\ fw = "idle" /\ ctx = "cancelled"
    /\ fw' = "exited"
    /\ UNCHANGED <<queueVars, log, connVars, loop, ackVars, fwcmd, brokerVars,
                   socketVars, notifVars>>

ForwarderNext ==
    ForwarderTakes \/ ForwarderDone \/ ForwarderFails \/ ForwarderExits

-----------------------------------------------------------------------------
(* handleConnection: bootstrap. *)

\* connCancel, and handleConnection returns.
ConnReturn == ctx' = "cancelled" /\ loop' = "returned"

\* hold release ...
BootHold ==
    /\ loop = "boot"
    /\ Request("loop", 0)
    /\ loop' = "boot1"
    /\ UNCHANGED <<queueVars, log, connVars, ackVars, fwVars, brk, cur, reply,
                   socketVars, notifVars>>

\* ... then status 3 ...
BootStatus ==
    /\ loop = "boot1"
    /\ reply["loop"] = "ok"
    /\ reply' = [reply EXCEPT !["loop"] = "none"]
    /\ Request("loop", 0)
    /\ loop' = "boot2"
    /\ UNCHANGED <<queueVars, log, connVars, ackVars, fwVars, brk, cur,
                   socketVars, notifVars>>

\* ... the events so far are kept for replay and holds dropped, tracking is
\* rebuilt with up to one client to evict, and the forwarder starts.
BootCompletes ==
    /\ loop = "boot2"
    /\ Result("loop", "ok")
    /\ buffered' = Cardinality({i \in DOMAIN notif : notif[i] = "client"})
    /\ notif' = <<>>
    /\ evictions' \in 0 .. 1
    /\ fw' = "idle"
    /\ loop' = "idle"
    /\ UNCHANGED <<queueVars, log, connVars, ackVars, fwcmd, socketVars,
                   emitted, noisy>>

\* Without its status, bootstrap or an eviction ends the connection.
BootFails ==
    /\ loop \in {"boot1", "boot2", "evictstatus"}
    /\ RequestFails("loop")
    /\ ConnReturn
    /\ UNCHANGED <<queueVars, log, conn, phase, sock, ackVars, fwVars,
                   socketVars, notifVars>>

BootEvicts ==
    /\ loop = "idle" /\ buffered = 0 /\ evictions > 0
    /\ evictions' = 0
    /\ loop' \in {"evict", "idle"}      \* ReconciledEvictionNeeded, or not
    /\ UNCHANGED <<queueVars, log, connVars, ackVars, fwVars, brokerVars,
                   socketVars, notif, buffered, emitted, noisy>>

(* handleConnection: events, and the handler they go to. *)

\* Some events send a decision, some ask for a status, some kill another
\* client and wait for the acknowledgement, some do none of these.
HandlesEvent ==
    \/ UNCHANGED <<loop, reqs>>
    \/ loop' = "status" /\ Request("loop", 0)
    \/ loop' \in {"send", "kill"} /\ UNCHANGED reqs

LoopReplays ==
    /\ loop = "idle" /\ buffered > 0
    /\ buffered' = buffered - 1
    /\ HandlesEvent
    /\ UNCHANGED <<queueVars, log, connVars, ackVars, fwVars, brk, cur, reply,
                   socketVars, notif, evictions, emitted, noisy>>

\* Bootstrap is over: the select of the event loop.
Listening == loop = "idle" /\ buffered = 0 /\ evictions = 0

LoopTakes ==
    /\ Listening /\ notif # <<>>
    /\ notif' = Tail(notif)
    /\ \/ Head(notif) = "client" /\ HandlesEvent
       \/ Head(notif) = "hold" /\ loop' = "hold" /\ UNCHANGED reqs
    /\ UNCHANGED <<queueVars, log, connVars, ackVars, fwVars, brk, cur, reply,
                   socketVars, buffered, evictions, emitted, noisy>>

LoopSends ==
    /\ loop \in SendPcs
    /\ HandOver
    /\ \/ loop \in {"hold", "send"} /\ loop' = "idle" /\ UNCHANGED ackVars
       \/ /\ loop \in {"kill", "evict"}
          /\ loop' = IF loop = "kill" THEN "killack" ELSE "evictack"
          /\ awaited' = handed + 1 /\ ack' = "none"
    /\ UNCHANGED <<log, connVars, fwVars, brokerVars, socketVars, notifVars>>

\* After a failed kill the handler, like bootstrap, asks for a status.
KillFails ==
    /\ loop' = IF loop \in {"kill", "killack"} THEN "status" ELSE "evictstatus"
    /\ Request("loop", 0)

\* cmdDone while a command waits for room in cmdCh.
LoopSendDropped ==
    /\ loop \in {"send", "kill", "evict"} /\ fw = "exited"
    /\ \/ loop = "send" /\ loop' = "idle" /\ UNCHANGED reqs
       \/ loop # "send" /\ KillFails
    /\ UNCHANGED <<queueVars, log, connVars, ackVars, fwVars, brk, cur, reply,
                   socketVars, notifVars>>

LoopAcked ==
    /\ loop \in AckPcs /\ ack = "ok"
    /\ loop' = "idle" /\ awaited' = 0 /\ ack' = "none"
    /\ UNCHANGED <<queueVars, log, connVars, fwVars, brokerVars, socketVars,
                   notifVars>>

\* The command failed, cmdDone is closed, or 5s have passed.
LoopAckFails ==
    /\ loop \in AckPcs
    /\ ack = "err" \/ fw = "exited" \/ "slow" \in Faults \/ Stalled
    /\ KillFails
    /\ awaited' = 0 /\ ack' = "none"
    /\ UNCHANGED <<queueVars, log, connVars, fwVars, brk, cur, reply,
                   socketVars, notifVars>>

\* Mutant: the caller waits for a result even if the broker is gone.
StatusWaitsForResult ==
    /\ loop \in {"status", "evictstatus"}
    /\ Result("loop", "ok") \/ (loop = "status" /\ Result("loop", "err"))
    /\ loop' = "idle"
    /\ UNCHANGED <<queueVars, log, connVars, ackVars, fwVars, socketVars,
                   notifVars>>

\* The handler's status is bound to the context of the daemon, not to connCtx.
LoopStatusReturns ==
    /\ loop \in {"status", "evictstatus"}
    /\ \/ Result("loop", "ok")
       \/ loop = "status" /\ Result("loop", "err")
       \/ loop = "status" /\ brk = "done" /\ GivesUp("loop")
    /\ loop' = "idle"
    /\ UNCHANGED <<queueVars, log, connVars, ackVars, fwVars, socketVars,
                   notifVars>>

\* readErr, broker.done, connCtx, or cmdDone while a hold waits for room.
LoopReturns ==
    /\ \/ Listening /\ (readErr \/ brk = "done" \/ ctx = "cancelled")
       \/ loop = "hold" /\ fw = "exited"
    /\ ConnReturn
    /\ UNCHANGED <<queueVars, log, conn, phase, sock, ackVars, fwVars,
                   brokerVars, socketVars, notifVars>>

-----------------------------------------------------------------------------
(* Run. *)

CloseClient ==
    /\ phase = "run" /\ loop = "returned" /\ sock = "open"
    /\ sock' = "broken"
    /\ UNCHANGED <<queueVars, log, conn, phase, ctx, loop, ackVars, fwVars,
                   brokerVars, socketVars, notifVars>>

\* Dial succeeds, 500ms later at the earliest: by then the goroutines of the
\* old connection have seen connCtx.
Reconnect ==
    /\ phase = "run" /\ loop = "returned" /\ sock = "broken"
    /\ fw \in {"none", "exited"} /\ brk = "done"
    /\ conn < MaxConns
    /\ conn' = conn + 1
    /\ Fresh
    /\ UNCHANGED <<queueVars, log, phase, emitted>>

\* SIGTERM cancels the context connCtx derives from.
Signal ==
    /\ "shutdown" \in Faults
    /\ phase = "run"
    /\ phase' = "draining"
    /\ ctx' = "cancelled"
    /\ UNCHANGED <<queueVars, log, conn, sock, loop, ackVars, fwVars,
                   brokerVars, socketVars, notifVars>>

\* gracefulShutdown ends: nothing is in flight any more, or the grace period
\* is over.
DrainEnds ==
    /\ phase = "draining" /\ loop = "returned"
    /\ phase' = "exited"
    /\ sock' = "broken"
    /\ UNCHANGED <<queueVars, log, conn, ctx, loop, ackVars, fwVars,
                   brokerVars, socketVars, notifVars>>

LoopNext ==
    \/ BootHold \/ BootStatus \/ BootCompletes \/ BootFails \/ BootEvicts
    \/ LoopReplays \/ LoopTakes \/ LoopSends \/ LoopSendDropped \/ LoopAcked
    \/ LoopAckFails \/ LoopStatusReturns \/ LoopReturns
    \/ CloseClient \/ Reconnect \/ DrainEnds

Next ==
    \/ SendCommand \/ VpnAnswers \/ VpnNotifies \/ SocketBreaks
    \/ ReaderNext \/ BrokerNext \/ ForwarderNext \/ LoopNext \/ Signal

Spec == Init /\ [][Next]_vars

\* The goroutines run, and OpenVPN answers while the socket is open.  The
\* reader need not go on once connCtx is cancelled.
Fairness ==
    /\ WF_vars(ctx = "live" /\ ReaderNext) /\ WF_vars(BrokerNext)
    /\ WF_vars(ForwarderNext) /\ WF_vars(LoopNext) /\ WF_vars(VpnAnswers)

FairSpec == Spec /\ Fairness

-----------------------------------------------------------------------------
(* Properties. *)

\* Responses written or still to come that no request has consumed.
Outstanding ==
    ovin + respLine + Cardinality({i \in DOMAIN wire : wire[i] = "resp"})

\* A response always belongs to the command the broker is executing: none is
\* left over when it takes the next request, since a command given up after
\* 5s finishes the broker for good (execute, run).  OpenVPN itself must not
\* write lines nobody asked for.
InSync ==
    ~noisy => /\ brk = "idle" => Outstanding = 0
              /\ brk = "exec" => Outstanding <= 1

\* Commands reach OpenVPN in the order of their hand-over to cmdCh and none
\* twice, across timeouts and reconnects (commandBrokerForwarder).
OrderedOnce ==
    \A i, j \in 1 .. Len(log) : i < j => log[i] < log[j]

\* The event loop never hangs in a request or waiting for an acknowledgement:
\* it gets a result, or an error once the broker or the forwarder has finished
\* (request, finish, SendAck), so again and again it does something else.
LoopNeverHangs ==
    []<>(loop \notin AckPcs \cup RequestPcs)

\* While gracefulShutdown drains, the command writer is alive.
WriterOutlivesDrain ==
    phase = "draining" /\ loop = "returned" => fw # "exited"
=============================================================================
