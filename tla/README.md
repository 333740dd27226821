# openvpn-auth-aws: TLA+ models, model checking and proofs

The daemon sits beside an OpenVPN server. OpenVPN defers each client's
authentication to it over the management socket; the user logs in with a
browser (ALB and Cognito), the browser's callback reaches the daemon, and the
daemon answers `client-auth` or `client-deny`. Afterwards it makes sure that an
identity has one established client, that sessions end after their maximal
duration, that renegotiations (`REAUTH`) are checked against Cognito, and that
its picture of the clients survives a lost management connection.

What makes it hard is that none of this is sequential. One event loop, one
timeout goroutine per attempt, one deadline goroutine per promoted client, one
expiry timer per session, one goroutine per REAUTH and any number of HTTP
requests share a handler, a session store and one command channel, and OpenVPN
acts by itself all the time. These models contain those interleavings.

## Inventory

| Part (source) | State | Operations | Modelled in |
|---|---|---|---|
| Auth handler (`internal/auth/handler.go`) | `cids`, `identityToAttemptCID`, `identityToActiveCID` | CONNECT, ESTABLISHED, DISCONNECT, `promoteSession`, `establishCID`, `cleanupPromoted`, `clearInFlight`, `authTimeout`, `waitForPromotedDeadline`, `sessionExpiryTimer` | `AuthHandler` |
| Session store (`internal/auth/sessions.go`) | session map with a status each | `Put`, `TryProcess`, `SupersedePending`, `Mark*`, `Delete`, reaper | `AuthHandler`, `CallbackServer`; its contract in `SessionStore` |
| Callback server (`internal/callback/server.go`, `internal/cognito/albkeys.go`) | key cache | `handleCallback`: state, claim, token, key, CN, group, deny / allow and wait for the acknowledgement | `CallbackServer` (its checks), `AuthHandler` (its effects) |
| Group claim (`internal/callback/groupsparser.go`) | none | `parseGroupsClaim` | `GroupsClaim` |
| Lambda router (`lambda-router/main.go`) | none | reject, pass on, give up | `Route`, `GiveUp` of `CallbackServer` |
| Configuration (`internal/config/config.go`) | none | `Validate` | `DaemonConfig` |
| REAUTH (`handler.go`, `cache.go`, `internal/cognito`) | reauth cache | `handleReauth`, `finishReauth`, `CheckUser`, cache `Get`/`Put` | `Reauth` |
| Management connection (`internal/app/daemon.go`, `management_protocol.go`) | `cmdCh`, broker queue, notification and response channels | senders, forwarder, broker, reader, bootstrap, event loop, reconnect, shutdown | `ManagementBroker` |
| Lines of the socket (`internal/mgmt`, `management_protocol.go`) | the event being read, the lines of a response | `authenticate`, `readManagement`, `ParseHeader`, `ReadEventWithRawLog`, `execute`, `ParseStatusLines` | `ManagementReader` |
| Rebuild (`daemon.go`, `handler.go`) | snapshot, buffered events, evictions | bootstrap, `RebuildSessionTrackingFromSnapshot`, replay, evictions | `Rebuild` |
| HMAC and encoding, entry point, rendering, logging, metrics, mocks | none that matters here | see *Not modelled* | - |

The parts meet in three places. Handler, timers and callback requests hand
commands to `cmdCh` and may wait for the acknowledgement. The forwarder and the
broker carry one command at a time to OpenVPN. Events and status snapshots come
back and are applied by the event loop, or, for snapshots, by whichever
goroutine asked.

The modules cut the system along those places. `AuthHandler` has the whole
handler, and leaves open what a callback finds out, what happens below the
command channel, and lost connections. `CallbackServer` has all a callback finds
out, and of the handler only a session's life; both are shown to use the store
as `SessionStore` says, which is where they meet. `ManagementBroker` works on
whole commands, notifications and responses; `ManagementReader` shows that the
daemon gets them whole. `Rebuild` has the handler with each call as one step,
and adds lost connections and restarts.

## Modules

**`AuthHandler`** is the core: the handler, the session store, every goroutine
that works on them and OpenVPN, over one live connection. `cids[c]` is the set
of the fields of a `cidState` that are set (`cancel` and `sid` come and go
together); `sess[c]` is the status of the session of CID `c`; `attempt` and
`active` are the two identity indexes. Each goroutine has a program counter
(`lpc`, `tpc`, `dpc`, `xpc`, `rpc`), and `est[a]` is actor `a`'s call of
`establishCID`, which both the event loop and deadline goroutines make. A step
is what runs between two points where somebody else can get in: a section under
`Handler.mu` with the store calls that commute with everybody else's, the
hand-over of a command, the wait for its acknowledgement, the taking of a
snapshot (`StatusTake`) and, separately, its use. `decided[c]` is history: the
answers handed over for the CONNECT of `c`.

**`SessionStore`** is an abstract specification. The Go store is permissive:
`MarkDone`, `MarkFailed` and `MarkPending` overwrite any status.
`SessionStore` says what life a session should have and that it is answered at
most once, never while pending. `AuthHandler` implements it under the mapping
`status <- sess` (`ImplementsSessionStore`), and so does `CallbackServer`.

**`CallbackServer`** follows a callback from the browser through the router and
every check of `handleCallback`. Configurations, tokens and accounts are
records; a token says who signed it, with which key, for which load balancer,
user pool and person and with which groups, and the checks find that out in the
order of the code. A request stops (`pc`) where the code waits for the key
endpoint, Cognito or OpenVPN, or lets others at the store; meanwhile the clock
goes on, the auth timeout and the reaper run, accounts are revoked, the router
gives up and thereby cancels the request's context. The configuration is any of
`Configs` that `Validate` (**`DaemonConfig`**) accepts, and a claim of groups is
read as **`GroupsClaim`** says. `taken`, `fit`, `granted`, `refused`, `erred`
and `acked` are history.

**`ManagementReader`** is about lines. OpenVPN writes notifications and
responses of several lines each; the reader sorts them, puts events together
and hands response lines to the broker, which parses a status table by the
names of its columns. A line is the sequence of its parts. `meant` and
`answers` are history: what OpenVPN meant. The socket may be cut after any line.

**`ManagementBroker`** is the life of the management connection. Commands are
numbered as they enter `cmdCh`, `log` records what was written. The event loop
is both a consumer of notifications and a requester of the broker, the source
of the circular wait the 5s timeouts break (`Stalled`). Bootstrap, evictions,
reconnects and SIGTERM are included.

**`Reauth`** adds time. Every REAUTH is a goroutine; checks overlap and finish
out of order while the account, the group membership and the tracking change.
The configuration is a variable that never changes, so one run covers several.

**`Rebuild`** is about lost connections and restarts. Handlers are atomic here,
written as operators on a record of the handler's state; a snapshot is taken at
one moment of the bootstrap, events buffered before and after it are replayed,
and evictions follow. OpenVPN may be restarted as well: `proc` is its process,
the new one hands out the same CIDs to other clients, `born` tells whose client
an entry of `cids` describes, and `lost` holds the goroutines of entries that
were overwritten. `orphans` is history: the clients that were authorized without
an entry. There are two kinds. A restarted daemon finds a client authenticating,
and pending rows are not restored; or the callback of an overwritten session
lets in the client that has its CID now, after the entry has gone.
An establishment changes the owner first and writes the kill of the replaced
client afterwards; `EventCut` and `DeadlineCut` are the connection breaking in
between, in the event loop and in a deadline goroutine. `calm` is history: no
restart of either side and no fault so far.

`MCAuthHandler`, `MCCallback`, `MCReader`, `MCReauth` and `MCRebuild` give the
constants values for TLC. The theorems are in `AuthHandlerProofs`, `CallbackProofs`
(about `CallbackServer`), `ReauthProofs`, `BrokerProofs` (about
`ManagementBroker`), `ReaderProofs` (about `ManagementReader`) and
`RebuildProofs`. `ReaderProofs` builds on `ReaderStatusProofs`, about the status
table alone, and on `ReaderWireProofs`, which has the invariant and what OpenVPN
writes.

Operators commented *Mutant* are plausible slips in the code next to them (a
dropped guard, a swapped test). No specification uses them. Each shows that a
property would notice that slip.

## Runs

| Run | Instance | What it shows |
|---|---|---|
| `AuthFaults` | 2 CIDs, 1 request, clients leave at any time, all faults, expiry timers; from the start and from an established client | `TypeOK`, `DecidedOnce`, `OneOwner`, `AttemptIndexExact`, `ActiveIsReal`, `TrackingOutlivesClient`, refinement of `SessionStore` |
| `AuthLiveness` | an established client and a new one, no faults | `PendingAnswered`, `PromotedResolves`, `EvictionCompletes`, `ExpiryEnds` |
| `CallbackPath` | 1 session, 2 requests, 6 configurations (3 of them valid), 11 tokens, all faults | `TypeOK`, `AllowedOnlyVerified`, `RefusedForCause`, `PageIsTrue`, `LookupOutlivesState`, `ProcessingEnds`, refinement of `SessionStore` |
| `Broker` | 1 command, 2 connections, more events than the channel holds, loss, timeouts, ERROR, garbled and unasked lines, shutdown | `TypeOK`, `InSync`, `OrderedOnce`, `LoopNeverHangs` |
| `ReaderStream` | 2 clients of one name, 3 blocks or commands, 2 versions of the status table, garbled headers, a cut socket | `TypeOK`, `NotificationsIntact`, `ResultsExact`, `AllDelivered` |
| `ReauthCache` | 3 overlapping checks, 4 configurations, clock up to 3 | `TypeOK`, `RevocationTakesEffect`, `ValidEntryKept`, `BackstopHolds` |
| `RebuildLive` | 2 clients of one identity, 2 losses, restarts of the daemon and of OpenVPN, lost acknowledgements, late deadlines, a lagging event loop | `TypeOK`, `UpIsTracked`, `StaleReclaimed`, `DuplicatesResolve`, `ExpiredGo` throughout, `NewestKept` until the first restart or fault |
| `AuthBounded` | 1 CID, expiry timers, fair | violated: `SessionsAreBounded` |
| `BrokerShutdown` | SIGTERM | violated: `WriterOutlivesDrain` |
| `RebuildReplay` | lost acknowledgement and lost connection | violated: `ReplacementKept` |
| `RebuildReuse` | 1 CID, restart of OpenVPN | violated: `TrackingStartsFresh` |
| `RebuildPending` | 1 CID, restart of the daemon | violated: `AuthorizedTracked` |

**Bounds.** Two CIDs of one identity are the smallest case in which attempts
conflict and sessions replace each other; a third one matters only to the choice
of a winner, and `RebuildProofs` has no bound. Sessions do not meet in the
callback server except through the key cache, so one session and two requests
for it are the case that matters, and `CallbackProofs` has no bound. Its tokens
are a good one and tokens with one thing wrong; its times are just at and just
over the limits of the link, the token and the reaper. Three blocks let a
notification come before, between and behind a command and its response. A queue
of capacity one is full as soon as anybody uses it, so blocking and dropping
happen everywhere. Two connections are enough for a command to cross from one to
the next. The clock bounds leave room for a session, or a cache entry, to be
just at and just over its limit. For what is proved for all values of the
constants (below) the bounds do not matter.

No run checks for deadlock: a system whose clients have all gone is quiet, and
properties about progress are stated as such.

**Symmetry** is used in `ReauthCache`, which checks no liveness.

**Fairness.** Weak fairness for the goroutines (the Go scheduler runs what can
run), for timers (they fire), for OpenVPN executing commands and dropping the
clients it was told to drop. A browser need not send its callback, a client need
not connect, leave or finish its handshake. In `ManagementBroker` the reader is
fair only while its context lives: a reader blocked on a socket nobody closes
need not return. In `CallbackServer` Cognito may never answer, as `CheckUser`
has no timeout of its own; what ends the wait is that the router, or the load
balancer, gives up and the request's context is cancelled.

## What the violated properties show

* **`AuthBounded`.** The auth timeout passes while the callback is verifying.
  The timeout loses `TryProcess`, and its deferred `clearInFlight` clears
  `cancel` all the same. The callback goes on to let the client in, but
  `promoteSession` returns early without `cancel`, and `establishCID` starts an
  expiry timer only for a promoted client. `docs/configuration.md` says the
  client is disconnected after `--max-session-duration`.
* **`BrokerShutdown`.** The connection context derives from the signal context,
  so SIGTERM stops forwarder and broker at once, while a comment asks that the
  writer stay alive until `gracefulShutdown` is complete.
* **`RebuildReplay`.** An ESTABLISHED event that the snapshot already reflects
  is replayed; `establishCID` makes the older client the owner again and kills
  the newer one. The replay of the newer one's event, or the eviction computed
  from the snapshot, then kills the older one too.
* **`RebuildReuse`.** `docs/architecture.md` says of a restart of OpenVPN that
  "tracking starts fresh". When the new process has given an old CID to a new
  client before the daemon takes its snapshot, the sweep finds that CID in the
  snapshot and keeps the entry, or CONNECT overwrites it; in neither case are
  the goroutines of the old client stopped, and its auth timeout, deadline or
  expiry timer acts on the new one.
* **`RebuildPending`.** `docs/architecture.md:412` says that after a restart of
  the daemon "pending rows restore attempt tracking". The rebuild looks at the
  established rows only (`handler.go:908`). A client that was let in before the
  restart, and comes up after the snapshot, has no entry: its ESTABLISHED is
  ignored (`handler.go:618`), and until the next reconnect it is nobody's active
  client, has no expiry timer, and a second client of its identity does not
  replace it. `UpIsTracked` and `DuplicatesResolve` leave such clients
  (`orphans`) out.

## Proofs

The theorems hold for every value of the constants that satisfies the named
assumptions of the module they are about.

Every step proof has the same shape. The invariant is a conjunction of facts
about one thing each, an action disturbs few of them, and lemmas about the
operators (what `Drop`, `Establish` or `Forget` return) and frame lemmas (what a
step that leaves this and that alone keeps) do the rest. Each inductive
invariant was model-checked on small instances before it was proved
(`ReaderInv` in a form without the unbounded quantifier over `said`).

### The handler

For any CIDs, identities, requests, queue capacity and faults. These theorems
are about `Spec`, which starts with no client; `SpecEither`, which `AuthFaults`
adds to start from an established client, is model-checked only.

* **`TypeCorrect`**: `Spec => []TypeOK`. `TypeOK` alone is not inductive: an
  actor applies the flags of `cids[c]` for the CID in its hand, so the invariant
  `TypeInv` adds `KnowsItsCids` (an actor at work has a CID).
* **`OneOwnerHolds`**: `Spec => []OneOwner`. Given the types, `OneOwner` is
  inductive. The proof goes action by action; only `establishCID`,
  `promoteSession`, `cleanupPromoted` and DISCONNECT touch the owner, and each
  of them has a lemma.
* **`DecidedOnceHolds`**: `Spec => []DecidedOnce`. No CONNECT is answered both
  by `client-auth` and by `client-deny`, although the event loop, timeouts and
  any number of callback requests may each give an answer.
  The invariant is `DecisionInv == FreshInv /\ ClaimInv /\ DecidedOnce`.
  `FreshInv` follows a CONNECT from OpenVPN to the store: a CID whose CONNECT is
  still queued, or in the event loop's hand, is untouched (no timeout
  goroutine, no callback URL or request, no answer), and no CONNECT is
  queued twice. `ClaimInv` says who may answer: a pending session has no answer
  yet and no claimant; otherwise at most one actor
  has claimed it through `TryProcess` or `SupersedePending` and not answered.
  The frame lemmas (`QuietStep`, `ClaimStep`, `ReleaseStep`, `FreshKept`) say
  what a step may do to a claim, and each action is an instance of one.
* **`HandlerStoreRefined`**: `Spec => ImplementsSessionStore`, step by step:
  each action is a transition of `SessionStore` or changes neither status nor
  answers. `ClaimInv` ends with the answer, but a callback marks its session
  only after the acknowledgement; `MarkInv` follows the claim until then (the
  session is PROCESSING, or gone, and nobody else marks it), which is why the
  unconditional `MarkDone` and `MarkPending` overwrite nothing.
* **`AttemptIndexHolds`**, **`ActiveIsRealHolds`**: `Spec => []AttemptIndexExact`
  and `Spec => []ActiveIsReal`, both from `HandlerInv`. The
  two indexes are exact only because of what goroutines know while they act.
  `EventInv`: notifications lag behind OpenVPN but never run ahead, and CONNECT
  is the first of its CID. `SnapInv`: a status row that waits to be used was
  true of its CID, and "absent" and "has been up" stay true. `FrameInv`: so does
  what `establishCID` was called for. `CancelInv` and `NewInv`: a CID in flight,
  or not yet admitted, is followed by no deadline goroutine or `establishCID`
  call, so the in-flight mark comes back behind nobody's back.
* **`TrackingOutlivesClientHolds`**: `Spec => TrackingOutlivesClient`, an action
  property from the same invariant. A CID is forgotten on a DISCONNECT
  (`EventInv`) or on a row without it (`SnapInv`), and both mean it has gone.

### The callback

For any sessions, requests, tokens, accounts, moments and configurations
`Validate` accepts.

* **`CallbackTypes`**, **`PagesTrue`**: `Spec => []TypeOK`,
  `Spec => []PageIsTrue`, both from `SessionInv == TypeOK /\ KnownInv /\ HoldInv
  /\ PageInv`. That nobody is let in after "verification failed" is about other
  requests, hence `HoldInv`: a session has at most one holder, the request that
  claimed it or its timeout, and while it is held its status and its answers are
  known; and `PageInv`: a session whose refusal was shown is not pending and
  nobody holds it.
* **`StoreRefined`**: `Spec => ImplementsSessionStore`. Each step is a
  transition of `SessionStore` or changes neither status nor answers; `HoldInv`
  tells which status an unconditional `Mark*` overwrites. The proof is of the
  safety part, `StoreSpec`, which has no fairness.
* **`OnlyVerified`**: `Spec => []AllowedOnlyVerified`. The property speaks of
  requests that have sent `client-auth`, so nothing in it says why a request
  that is only half-way will satisfy it. `VerifyInv` does: `Found(r)` lists what
  request `r` has found out by the time it gets to each step. Two of its parts
  are not obvious. A key is looked up in the cache before the token is checked
  and others fill the cache meanwhile, so a request at `token` must know that
  its key is a key of the endpoint. And Cognito is asked in two calls while the
  account changes: `NeverFit` says that who was not in the required group when
  the link was opened does not become so later, so an answer that is put
  together from two moments is still true of the first. `CheckedFinds` shows
  that what steps 7 and 8 find is what the property asks; it rests on
  `ValidConfig` (an ALB comes with an issuer, and a group Cognito has to confirm
  with a user pool) and on `ParsedIsListed` (what the parser reads of a claim is
  in it).
* **`RefusalsHaveCause`**: `Spec => []RefusedForCause`. `CauseInv` says why a
  request denies from the step that decides to; what it found then stays true
  because time only passes and membership is only lost. It needs the other half
  of the parser: what a well-formed claim lists is read.
* **`LookupOutlives`**: `Spec => []LookupOutlivesState`, inductive given
  `SessionInv`. Of a session still in flight only the reaper removes the entry,
  and `Validate` makes the reaper's time the longer one.

### REAUTH

For any number of overlapping checks, any timeout, lifetime, duration and
configuration. `ReauthInv == TypeOK /\ HistoryInv /\ SoundInv /\ FreshInv /\
SessionInv`.

* **`ReauthTypes`**, **`RevocationHolds`**, **`BackstopAlways`**,
  **`ValidEntryAlwaysKept`**: type correctness and the three action properties
  of `ReauthCache`. A result is stamped before the first call to Cognito, so
  whatever it says was true at its stamp or later (`SoundInv`), also when it has
  become the cache entry, and whichever of two checks wrote last. A check that
  is running is not older than its timeout (`FreshInv`) and began in a tracked
  session that was not over (`SessionInv`). The assumption that `None` is no
  result tells an empty cache from an entry.

### The management connection

For any number of commands, events and connections, any capacity and all faults.
`BrokerInv == QueueInv /\ SyncTypes /\ InSync`.

* **`BrokerTypes`**: `Spec => []TypeOK`; in particular neither `cmdCh` nor the
  notification channel ever holds more than its capacity. `TypeInv` adds to
  `BrokerInv` the program counters, the owners of requests, the counters, the
  command numbers and the room in the channels.
* **`OrderedOnceHolds`**: `Spec => []OrderedOnce`. `QueueInv` says that command
  numbers rise along `cmdCh`, along the broker's queue and along what has been
  written, and that each of the three is older than the one before it. A command
  given up is dropped, never put back, so nothing can come in behind.
* **`InSyncHolds`**: `Spec => []InSync`, inductive given the types; the lemmas
  are about counting the responses in a sequence of lines.

### The lines of the socket

For any clients, states before the daemon connects, number of blocks and
commands, and all faults, and for any columns of the status in any order that
has the ones the daemon needs. The assumptions (`ReaderAssumption`): every
client has a name and an address, and no two have both in common, as the address
has the port.

* **`ReaderTypes`**, **`NotificationsAlwaysIntact`**, **`ResultsAlwaysExact`**:
  `Spec => []TypeOK`, `[]NotificationsIntact`, `[]ResultsExact`, all from
  `ReaderInv == TypeOK /\ Shape /\ NotificationsIntact /\ Exchange`. The
  properties speak of what has been read; an invariant has to say what the lines
  still on the socket will be read as, whatever the reader is in the middle of.
  A `Place` is the event the reader has begun and how many notifications and
  response lines it has handed on; `Leads(wire, ...)` says that a function from
  positions of the wire to places exists that starts where the reader is, moves
  line by line as the reader does (`Move`), and hands on only what OpenVPN meant
  (`Fits`). `Stream` says that the wire leads to the end of all that was meant,
  unless the connection broke or the reader gives up on the way. With a function
  instead of a recursion over the lines no induction is needed: OpenVPN's block
  extends it at its end (`LeadsConcat`, `BlockLeads`), a line read takes its
  first position away (`LeadsFrom`), a cut shortens it (`LeadsShort`).
  `said` has every response line ever written and `base` counts those of
  finished commands. `Unanswered` and `Answered` say that the broker has used
  them all, or holds the beginning of the response to its command.
  That the parsed response is what OpenVPN meant is **`StatusMeans`**, a lemma
  about `StatusBlock` and `ParseStatusLines` alone: `Layout` says which line
  holds which header or row, `LayoutHeaders` which header counts at a row,
  `ValueIs` what is found under a name, and `ClientParsed` and `RouteParsed` what
  a row is read as. The routes are looked up by name and address, which is
  where the assumption on addresses is needed.

### Rebuild

For any number of clients, identities, lost connections and restarts of either
side, and all faults; the last three theorems speak of the time until the first
restart or fault.

* **`RebuildTypes`**, **`StaleAlwaysReclaimed`**, **`UpAlwaysTracked`**:
  `Spec => []TypeOK`, `[]StaleReclaimed`, `[]UpIsTracked`. The two properties
  speak of a daemon that has caught up. On the way there the tracking is wrong
  in both directions, and what makes up for it are events still to be handled.
  `RebuildInv` says which. `EventInv` (`Told`): behind any event of a client that
  has gone comes its DISCONNECT, and behind the CONNECT of one that is up its
  ESTABLISHED; a client that is there has no DISCONNECT. `StaleInv`: an entry
  (or, before the rebuild, a row) of a client that has gone has a DISCONNECT to
  come. `UpInv`: a client that is up has an established entry (or row), or is
  tracked and has an ESTABLISHED to come. `SnapInv`: who is authorized has a row,
  so the pruning leaves its entry alone. Each operation of the handler has a
  lemma that it keeps entries sane (`Sane`) and loses nothing of a client that is
  there (`Kept`).

  With two restarts of OpenVPN and two identities TLC had refuted an earlier
  `RebuildInv`, and with it an earlier `UpIsTracked` that named only the first
  kind of `orphans`; the runs have one restart and cannot reach the second.
* **`NewestAlwaysKept`**, **`ReplacementAlwaysKept`**,
  **`AuthorizedAlwaysTracked`**: `Spec => []NewestKept`,
  `Spec => [][calm' => LeavesReplacement]_vars` (`LeavesReplacement` is the step
  of `ReplacementKept`) and `Spec => [](calm => AuthorizedTracked)`. `calm` is a
  history variable, so they hold for every set of faults up to the first one
  that happens. Connections may be lost at any point, also between an
  establishment and its kill. "Newer" is the
  order of CIDs, which the code never compares: it goes by the order in which it
  handles events, by the connection times in a status, and by what its two
  indexes hold at the moment. `NewestInv` says that these agree; the inductive
  invariant is `calm => NewestInv`. `Ordered`: the
  attempt of an identity is its newest client that has got anywhere, and the
  active one has been established. `Queue`: a client whose CONNECT is still to be
  handled is newer than all with an entry. `Clients`: OpenVPN's clients connected
  in the order of their CIDs, so that the winner of a rebuild is the newest.
  `Rowed`: before the rebuild no ESTABLISHED that was received has had its
  effect, and the rows of a snapshot are tracked. `Justified`: whoever is told to
  go, or is to be evicted, has a reason. `Late`: an ESTABLISHED may come after
  its effect, when a status shown to a CONNECT, or the rebuild, was ahead of it;
  then its client is the active one and no other is about to follow.
  The one who stays for a client told to go is the newest of its identity that
  has been up; `Greatest` says that there is one.
  `Late` is where `calm` is needed: without it TLC refuted `NewestKept` for four clients
  when a client may authenticate while an ESTABLISHED of its identity waits in
  the queue (the fault `lag`; see *Behaviour worth knowing*), and for two when a
  response is lost (`RebuildReplay`).

### Only model-checked

* Liveness: `PendingAnswered`, `PromotedResolves`, `EvictionCompletes`,
  `ExpiryEnds`, `ProcessingEnds`, `LoopNeverHangs`, `AllDelivered`,
  `DuplicatesResolve`, `ExpiredGo`. Fairness and `ENABLED` are beyond the prover.
* Nothing is proved of `NewestKept`, `ReplacementKept` and `AuthorizedTracked`
  after a restart or a fault: the runs `RebuildReplay` and `RebuildPending` show
  that the last two fail then.
* `SpecEither` of `AuthHandler`, which starts from an established client.

Every invariant, action property and refinement the passing runs check is proved
(for `Spec`).

## Abstractions

* In `AuthHandler` a CID is not reused, connects once, and the connection
  lives; lost connections and reused CIDs are in `Rebuild`. A duplicate
  CONNECT of a tracked CID, which the code ignores, is left out. The auth
  timeout is shorter than the hand window, as `config.go` enforces. The outcome
  of verifying a callback is a choice; `CallbackServer` makes it.
* In `CallbackServer` a signature is the fact of who signed, and a state is one
  the daemon signed or a damaged one. A name is a person and the way it is
  written. The router's own checks (path, CIDR, headers) end in a choice between
  its two error pages and passing the request on. Of the handler there is the
  session, its timeout and whether its CID is in flight; conflicting attempts
  are in `AuthHandler`. A client that leaves and one that is established look
  the same to the store (`Forgotten`). `CheckUser` lists the groups of a disabled
  account too before it refuses it; the model refuses it at once (if the list
  fails, that is a refusal as well).
* In `ManagementBroker` a status response is one line, and the response channel
  (256 lines) does not fill. The goroutines of an old connection are gone before
  the next dial, which the code gives 500ms. The requesters are the event
  loop (which does the bootstrap) and the forwarder; a deadline goroutine that
  asks for a status (`handler.go:698`) would be a third that waits as they do,
  and what it does with the answer is in `AuthHandler`. Its lines are in
  `ManagementReader`, where channels have no bound and timeouts do not pass.
* In `ManagementReader` nothing that OpenVPN writes before it wants a password
  is mixed with the prompt, and a garbled header is not followed by a block. A
  garbled header has its comma; without it the code takes it for an unknown
  notification (`parser.go:33`), which is modelled as such.
* In `Rebuild` a handler is one step, but for the cuts above; a deny written while the link is down is
  lost, and a promotion deadline that passes after a rebuild has found its
  client established is a fault (`lateDeadline`), as it needs an event loop that
  is a whole hand window behind. So is an event loop that has not got to the
  ESTABLISHED of one client while another of the same identity finishes its
  login in the browser (`lag`).

## Behaviour worth knowing

Met while modelling, and covered by no run of its own:

* A timeout during PROCESSING frees the identity's attempt, so a second attempt
  is admitted while the first can still be let in (`handler.go:354`).
* When the key fetch fails after the auth timeout has passed, the session goes
  back to PENDING, but the goroutine that would have denied it is gone: the
  client is answered by OpenVPN's hand window only.
* A `client-auth` whose sender gave up after 5s may still be executed
  (`daemon.go:153`); the client is then up although its session failed, and the
  page asked the user to try again with a link that no longer works.
* The page of the router's timeout says nothing certain: the daemon may still
  let the client in. A cancelled context makes `CheckUser` fail, which denies.
* Reloading the success page shows an error, as the session is gone.
* A snapshot taken before a replacement and used after it returns ownership to
  the replaced client (`handler.go:737`).
* An ESTABLISHED that is handled late takes the identity back
  (`handler.go:632`). Clients c, d, e and f of one identity: the CONNECTs of d, e
  and f are queued before the ESTABLISHED of c. d's CONNECT finds c up in a
  status and establishes it; e is admitted, authenticates and comes up; f's
  CONNECT finds e up, and establishing e kills c. Then the ESTABLISHED of c is
  handled, and kills e. With three clients it cannot happen.
* A command that the forwarder of a dying connection has taken is dropped
  (`daemon.go:382`).
* A reused CID that an establishment of another client has marked
  (`evictionRequested`) before its own client is established gets no expiry
  timer from the mark on; `ExpiredGo` asks for the end of marked sessions in the
  first process only.
* The sweep after a reconnect removes in-flight CIDs the
  snapshot does not list (`handler.go:881`), although the comment above
  (`handler.go:852-857`) says it keeps them.
* A CLIENT notification of an unknown kind is taken to have a block
  (`parser.go:34`); one that had none would swallow the next event.
* `docs/daemon-security.md:114` gives `hand_window` as the time a link is valid;
  the code uses the auth timeout. `make run-daemon` sets both to 120s, which
  `Validate` rejects.

## Not modelled

HMAC and the encoding of states, signatures and key formats (a model would
assume what it should show); where the secret comes from, flags and environment
variables (start-up input, read once); the router's parsing of paths, CIDRs and
headers, and the wording of commands (conversions of text without state);
`/healthz`, `Serve` and `Shutdown` of the callback server; rendering, logging,
redaction and metrics (output only); the entry point (wiring); the heartbeat,
which only reports; mocks and probes (tools).

## Plan

1. `ManagementReader` below `ManagementBroker`, with bounded channels and
   timeouts, as a refinement.
2. The stale snapshot of `AuthHandler` as a property; duplicate CONNECTs; the
   router's parsing.
