# A formal model of the websocket balancer

TLA+ modules, TLC runs and TLAPS proofs for `apundir/wsbalancer`, a stateful reverse proxy for
websockets. A client keeps one websocket to the balancer while the backend connection behind it is
replaced whenever it breaks. The hard part is the replacement: about ten goroutines per session,
two locks, four channels and two `sync.Once` cooperate in it, and administrators may close the
session, fail it over or edit the pool of backends at any moment.

## 1. Inventory

| Part | Source | State | Operations | Modelled by |
|---|---|---|---|---|
| Frontend connection | `in/inc.go` | `done`, `reinitializing`, `shuttingDown`, `closeOnce`, `doneLock`, `bkConnectionLock`, valves, counters | `Start`, `startReading`, `startWriting`, `sendToUpstream`, `reinitUpstream`, `resume`, `abortBackend`, `Close` | `SessionState`, `Inc` (valves, counters: `Valves`, `Composition`) |
| Backend connection | `out/outc.go` | `con`, `shuttingDown`, `done`, `cache`, `notifyFEOnce`, `closeOnce` | `newOutc`, `Start`, `startReading`, `startWriting`, `clearCache`, `notifyFrontend`, `notifyBackend`, `Close` | `SessionState`, `Outc` (`notifyBackend`: `BackendPool`) |
| Frontend manager | `in/inc_manager.go` | `clients`, `register`, `unregister`, listeners, `paused` | `ServeWs`, the loop of `Start`, `handleUnregistration`, `addClient`, `removeClient`, the abort functions, `Stop` | `Session` in detail for one session, `Registry` for several |
| Backend pool | `out/outc_manager.go` | `backends`, `disabledBe`, `nextBackendIdx`, `config.Backends` | `nextBackendList`, `DialUpstream`, `AddBackend`, `DisableBackend`, `EnableBackend`, `DeleteBackend`, `ResetBackend` | `BackendPool` |
| Backend | `out/backend.go` | `activeConnections`, `conDone`, `deleted`, the breaker | `DialUpstream`, `startManagementListener`, `delete`, `reset` | `BackendPool` |
| Contract | `common/contract.go` | message types, results, interfaces | | `SessionState`, `Valves`, the properties of section 6 |
| Administration | `in/admin.go` | none | HTTP handlers | actions of `Inc`, `BackendPool`, `Registry`, `Composition` |
| Valves, metrics | `in/inc.go`, `inst/prometheus.go` | valve chains, gauge, histogram | `AddValves`, `BeforeTransmit`, `AfterReceive`, `SessionCreated`, `SessionTerminated` | `Valves`, `Registry`, `Composition` |
| Configuration | `out/config.go`, `in/common.go` | `UpstreamConfig`, `BackendConfig` | `sanitize` and what it calls, `appendBackend`, `NormalizeForID` | `Config`, `Composition` |
| Composition | `main.go`, `cmd/compose.go` | the two servers | start-up order, attaching Prometheus | `Composition` |
| Tests' helpers | `internal/` | | | not modelled: test code |

How they interact. `ServeWs` dials a backend, upgrades the client, and starts both connections;
they exchange messages over two bounded channels (`send`, `receive`). When a backend connection
breaks, its reader or writer puts an *abnormal closure* on `receive`; the client-side writer ends,
locks the reader out with `bkConnectionLock` and asks the manager, over `unregister`, to dial again.
The manager's handler dials, replaces the entry of `clients`, and calls `resume`, which unlocks the
reader and spawns the next writer. A *normal closure* travels either way to end a session. An
administrative failover signals `done` and puts a normal closure on `send`. A backend counts its
connections down when they report on `conDone`; deleting a backend waits for that.

Hard behaviours: failures that overlap each other or a closing session; `closeOnce` bodies that
block; a read lock held across a blocking channel send; messages addressed to "the current"
connection that another one receives; messages that are cached after the event that makes their
cache be collected; a list that is walked while it is edited. `PROJECT.json` lists each hazard at its
line with the properties that cover it.

What makes each part correct:

* session: one client-side writer, one re-dial at a time, the reader held back in between, the
  process survives, every failure is healed or ends the session, leaving ends the session;
* relay: at most once and in order on each connection; unsent messages move to the next connection;
* pool: dials share the backends in turn and offer the session to every backend; edits keep the pool
  and the saved configuration in step and do not disturb dials;
* backend: the connection count is the connections in use, those about to report their end and, as a known
  leak, those that never report; a deletion always ends;
* registry: what the listeners were told agrees with the map; who has left is out of the map; a deleted
  backend is left; `Stop` returns;
* configuration, valves, start-up: timeouts, thresholds and buffer sizes come from the highest authority that
  gives them (close codes do not, see section 6); the two directions are measured at the same point; messages
  get lost only where a valve of the embedding program refuses them, or on the nil valve that `AddValves` of
  Prometheus leaves behind such a program's valves.

## 2. Modules

`SessionState` declares the constants, every variable, messages and locks. `Inc` gives the frontend
connection's actions, `Outc` the backend connections' (indexed by the order they were dialled in),
`Session` composes both with `ServeWs`, the manager's loop and `handleUnregistration` and states the
properties. `Relay` is the abstract specification. `BackendPool` models the pool and the backends'
accounting. `Registry` is the frontend manager with several sessions: the map and its listeners, the two
channels, the loop and its handlers, the deletion and failing over of backends, `Stop`. `Config` and
`Valves` are pure operators: the functions of `out/config.go`, and how a chain of valves is built and what
it does to a message. `Composition` uses both in a state machine of the whole program: `main` starting
the servers, Prometheus being attached, sessions and their messages, operators adding backends.
`MCSession`, `MCBackendPool`, `MCRegistry` and `MCComposition` are the roots that TLC runs. The proofs are in
`SessionProofs` and, extending it, `RelayProofs`; in `PoolProofs`, `AdminProofs` and `DialProofs`, each
extending the one before; in `RegistryProofs`; and in `CompositionProofs` and, extending it,
`ValveProofs`.

The same code is seen at three distances. `Session` has every lock and channel operation of one
session. `Registry` keeps of a session's goroutines what the manager sees (is there a reader, a writer,
has `Close` begun or ended, is somebody stuck on a nil channel) and has many of them. `Composition` joins
the steps of a registration, a reconnection or a removal into one each: how they interleave is the other
two modules' subject, and the properties of `Composition` do not depend on it.

Correspondence with the code:

* Every goroutine is a program counter (`rpc` the reader of `inc`, `wpc[w]` the w-th spawned writer,
  `orpc[c]`/`owpc[c]` the reader and writer of connection c, `hpc[h]` a `handleUnregistration`,
  `apc[a]` an admin request, `spc` ServeWs, `dpc[d]` a dial). A step is what happens between two
  operations that can block or that other goroutines can see.
* A `sync.Once` body is a program of its own (`closeStep`, `notify[c]`); callers wait at `"close"` or
  `"notify"` until it is through, as `Do` makes them. `outc.Close` never blocks and is one step.
* A Go channel is a sequence with a capacity. `inc.done` is nil until `Start`: sending blocks for ever,
  until then, and a sender that arrived before `Start` would stay blocked on the nil channel even
  after it. The model lets it through once started, which is the more favourable outcome.
* `sync.RWMutex`: the read holders are read off the program counters. `bkLock` has three values
  because a waiting `Lock` already excludes new readers and because `Unlock` is called by goroutines
  that do not hold it. An unlock of a free lock sets `crashed`, after which nothing runs. An unlock
  while a writer waits takes its announcement back and leaves it waiting.
* A connection is `open`, `lost`, `closed` by the peer, or `shut` by the balancer. Writing to a
  lost connection may succeed (the kernel takes it, nobody receives it) or fail. A write error means
  not delivered.
* The program counter `"select"` of a backend writer also stands for a writer that is still busy with
  a socket write or a ping that changes nothing.
* The unsynchronised accesses to `cache` are atomic steps in any order.
* `HandlerActive` joins the test of `isClientActive` with the lookup that follows; a removal by
  another handler between the two would only lose the hand-over of the cache.
* In `BackendPool` a URL is a pair of host and path. `AddBackend` compares URLs; everything else looks
  backends up by id, which the request gives or `NormalizeForID` makes of the host, so that two URLs can share
  one. `UniqueIds` says whether operators refrain from adding a backend under an id that the pool has: FALSE
  in `deleted`, where the clash is the subject, TRUE elsewhere. A circuit breaker
  answers as the library documents: closed, or tripped with a retry now and then.
* `deleteBackendConfig` copies a list and leaves entries out. `CopiedFrom` says from where its loop takes the
  kth entry of the copy: the entry before which k - 1 others are kept. That is the
  form in which the proofs use the copy.
* `DialHollow`: an answer such as 200 makes the dialer return no connection, which the code takes for
  success. The caller fails on it: in `ServeWs` the HTTP server recovers, in a re-dial the process ends.
* In `Registry` a dial is two steps, the list of backends and the connection, so that a deletion can come
  in between. `crashed` is the second unlock of `bkConnectionLock` that `Session` shows in detail; here it
  happens when a handler resumes a session whose `Close` has ended. A goroutine blocked on the nil
  `inc.done` of a session that is not started yet is `jammed`; it holds `doneLock`, so that `Start` blocks too.
  `blocked` are the sessions whose `abortBackend` is blocked on a full `inc.send` with `doneLock` read-locked
  (`AbortBlocks`): whether the channel is full and without a reader is left open, as its contents are not in
  this module. A `resume` then waits for that lock (`HandlerResumeWaits`), before the connection that would drain
  the channel is started; from then on no `Close` of the session gets through (`Held`), and the deletion or
  failover that it belongs to never comes to its other sessions. An administrator can delete a backend whose
  failover is stuck so.
  `reinitUpstream` is one step: a session that hangs in it (the `blocked` run) is outside this module, and its
  entry stays where it is.
* In `Config` the value of a setting is where it comes from; that is all the precedence rules can tell
  apart; headers and close codes are lists of origins, the environment's among them. The loop over `BE_URLS`
  is the function of what each turn appends: a turn changes nothing that
  the next one reads. A URL is a pair of host and path, since the id is made of the host.
* In `Valves` an embedding program's valve lets a message pass, drops it (nil) or fails. Each of its valves
  chooses anew for every message (`answers`). The program adds its providers, at most `MaxOwn`, before or
  after Prometheus. `Composition` numbers the messages, data and control in both directions, and keeps for every
  session which were not passed on (`lost`) and which an own valve refused (`refused`).

Not in the model: the payload of messages, HTTP headers of requests, logging, counters for display,
pings and pongs that succeed, `pause` (it turns new requests away and touches nothing else), `Stop` of the
pool (tests only), and answers to admin requests.

## 3. Runs

Bounds are CONSTANTS: see the comments in `SessionState`, `BackendPool`, `Registry` and `Composition`.

| Run | Checks | Why the bounds are enough |
|---|---|---|
| `failover` | types, `AtMostOnce`, `InOrder`, `ReaderHeldBack`, `TokenInv`, `ConnInv`, `MessageInv`, `MapMovesForward`, `OwnFailureOnly`, `KeepsRelayPromise` | two messages are the fewest that can be reordered; two connections give one replacement and a second failure without one; two handlers can overlap; the channel of two slots fills up |
| `admin` | `SingleWriter`, `SingleRedial`, `CrashOnlyWhenClosing`, `TokenInv` | one admin request (close or fail over) against a leaving client and failing, closing backends; no messages, they do not change which goroutine runs |
| `progress` | `BrokenLinkIsHealed`, `LeavingEndsSession` | one-slot channels and two messages let the reader block, in the reconnection or on its last message; the client may leave at any moment, in the middle of a reconnection too; one handler at a time |
| `pool` | types, `FairShare`, `EveryBackendOffered`, `ActiveAccounted`, `PoolMatchesConfig`, `DeleteEnds`, `DialReturns`, `EndsAreReported` | three edits reach every pair of lists (disable, enable or delete, add again); two backends; two dials, one of them a re-dial, can share a backend and fill `conDone` of one slot; the first two properties have "no edit since a dial began" as their premise; an addition before the first dial gives them two backends; two ids, which the requests may give crosswise to the hosts |
| `registry` | types, `GaugeCounts`, `DeletedIsBeingLeft`, `DeletedIsLeft`, `SettledIsRemoved`, `StopReturns` | two sessions and two backends; two handlers can work for one session at once; channels of two slots fill up; one fault (a broken connection, a deletion or a failover of `b1`) on top of closing, aborting and `Stop` at any moment; an abort may block at either session |
| `startup` | types, `SettingsResolved`, `GaugeDrift`, `MeasuredAtClient`, `OnlyOwnValvesHarm` | an optional entry of the file, an optional `BE_URLS` entry, up to two `BE_URL_IDS`, one added backend, two paths of one host (so that ids clash); two sessions, one before and one after Prometheus listens; one provider of the embedding program (`MaxOwn = 1`), before or after Prometheus; two messages, each passed, dropped or failed by its valve |
| `crash`, `unsent`, `blocked`, `abort`, `panic`, `deleted` | one documented claim each, see section 6 | the smallest instance that shows it; `abort` has a single handler, so that what goes wrong is the one failover's; `deleted` has two paths of one host |

Deadlock is not checked: a session ends, the bounded messages and dials run out, and a crashed
process stops. That nothing stops too early is what the liveness properties say.

`DeletedIsLeft` and `StopReturns` say what has to happen in the end, as invariants: when no goroutine of the
balancer can take a step (`Quiescent`), it has happened. In `Registry` the balancer takes finitely many
steps for each of its environment's, whose steps are bounded, so this is what "eventually, under fair
scheduling" comes to; as an invariant it can be checked with symmetry on a larger instance. The exceptions
are named in the properties, and each is real: a session whose connection was on its way to the backend
when `abortAllBackendConnections` looked, one whose unregistration overtook its registration, those that a
blocked `abortAllBackendConnections` never came to, and for `Stop` a session whose `doneLock` is
lost for ever, to a goroutine on a nil channel or to a `resume` behind a blocked abort.

The exceptions of the two liveness properties of a session: `HeldUp`, the reader that keeps the lock
that the reconnection needs (run `blocked`); `ReaderDone`, which lets the reader of a closed session be leaked
on a full `send` whose writer is gone (`inc.go:253`) but not on `bkConnectionLock`; and `ServedLate`, for a
session whose unregistration the loop serves before its registration: it is never reconnected, and a reader
that waits for `bkConnectionLock` then does not notice the client leave. `BrokenLinkIsHealed` speaks of registered sessions, `LeavingEndsSession` also of those
in mid-reconnection when the client leaves.

Every property of a passing run has a mutant: a definition named after what a plausible bug would do
(`DeleteBackendLate`, `SetClientUnreported`, `TakeFailsRequeued`, `WriterLockSkipped`,
`DialUnlockForgotten`, `NotifyEach`...) that breaks it when it replaces the real one.

## 4. Fairness

`FairSpec` assumes one weak fairness condition: while some goroutine of the balancer can take a step, the
process does not stand still. That is what the Go scheduler gives; nothing is assumed about the
client, the backends or the administrators. It is enough because, with messages, connections, admin
requests and dials bounded, the balancer has finitely many steps to take, so no goroutine can be
overtaken for ever. A dial comes to an answer because of `HandshakeTimeout`. With unbounded traffic one
would have to assume that Go's `select` is fair between its ready cases, which it is. `Registry` and
`Composition` state no fairness: their properties are invariants.

## 5. Proofs

`SessionProofs` proves, for all values of the constants allowed by `BoundsAssumption`:

* `TypeCorrect`: `Spec => []TypeOK`, channel capacities included;
* `TokenHolds`: `Spec => [](TypeOK /\ TokenInv)`;
* `OneWriterAtATime`, `OneRedialAtATime`, `ReaderWaitsForRedial`, `OnlyClosingCrashes`: the safety
  properties `SingleWriter`, `SingleRedial`, `ReaderHeldBack`, `CrashOnlyWhenClosing`.

The argument. `SingleWriter` alone is not inductive: a handler that resumes would spawn a second writer
if nothing said that the first has ended. The strengthening is a *token*: a session that nobody
closes is in the hands of exactly one of its FE writer, its entry in `mgr.unregister`, a handler that
is deciding, or a handler that is re-dialling (`OneToken`, `SingleWriter`, `SingleRedial`). `TokenLock` adds
what the holder knows of `bkConnectionLock` and `reinitializing`, from which follow that the reader is
held back and that `resume` finds the lock taken. Once the session is closing, the FE reader adds
a second entry to `mgr.unregister`; `ClosedBeforeUnregister` says that it does so only then, and a handler
that finds the session closing never dials, so a re-dial that began before stays the only one.
`WriterSlots` bounds the writers by the connections dialled (needed for types), and `QuietBeforeStart` says
that nothing runs before `feCon.Start`. One lemma per goroutine shows that its steps preserve types, one
that they preserve the token; `StepInv` combines them.

`RelayProofs` proves, from the same assumption, what `Session` says of connections and messages:

* `MapOnlyMovesForward`: `Spec => MapMovesForward`: what enters the map is the connection dialled last, also when
  a handler puts a session back that another one has removed. `ConnInv` is what it takes: the handler that brings a
  connection has one that nobody else has and nobody has started, the one about to enter it into the map
  has the newest, and the loop registers the first connection only while there is no other. That two handlers
  cannot dial at once comes from the token.
* `MessagesHaveOnePlace`: `Spec => [](TypeOK /\ TokenInv /\ ConnInv /\ MessageInv)`. `MessageInv` places every
  message of the client: with the reader, in `send`, in a connection's cache or in its writer's hand, or
  received. `ChannelInOrder` says that the numbers in `send` rise and are larger than all that a connection has;
  `OrderedOn` that the cache, the writer's hand and what the backend received rise, the cache before the hand,
  and that a flushing writer sends what follows the received; `OnePlace` that no two connections, nor the
  sent and the unsent of one, share a message; `WriterHolds` that a writer that flushes or selects has an
  empty cache, that only one that flushes or notifies has messages in hand, and that none has sent before the flush.
  No step but a few moves messages: `MessageSteps` sorts all steps into what the reader puts into `send`,
  what a writer takes, writes or caches, what is handed over with the dial, and the rest. What makes
  the hand-over safe is that `newOutc` empties the old cache in the same step that fills the new one.
* `SentAtMostOnce`, `SentInOrder`: `AtMostOnce` and `InOrder`, which are consequences of `MessageInv`.
* `SessionImplementsRelay`: `Spec => KeepsRelayPromise`. Reading a message is Relay's acceptance, a successful
  write that the backend receives its delivery (`StepRelays`), all else stutters. `MessageInv` gives the
  guard of the delivery: nobody has received the message, and this connection has received only earlier ones.

`PoolProofs` proves `ActiveIsAccounted` (`Spec => []ActiveAccounted`) from `PoolAssumption`: the count is exact once
the connections that never report are counted in. `CountInv` adds to
the property the few types it needs: that a dial in the states counted holds a backend, and that counts
are natural numbers. Most steps change neither the connections counted nor the reports waiting (`SameCount`);
the others move one connection into or out of `Counted` together with `activeConnections` or `conDone`.

`AdminProofs` proves about the lists of `BackendPool`:

* `TypeCorrect`: `Spec => []TypeOK`. The bound of `conDone` is that of the accounting: reports come from
  connections that are counted.
* `BackendOnOneList`: a backend is on one list at most, and there once (`OneList`). No run states it, the two
  others need it.
* `ConfigKeepsStep`: `Spec => [](PoolMatchesConfig /\ IdsIdentify)` if `UniqueIds`, that is, if no operator adds
  a backend under an id that the pool has, whether the request gives it or it is made of the URL. The premise is
  not for convenience: with it dropped both properties are false, as the run `deleted` shows, because
  `AddBackend` compares URLs, and among the enabled backends only, whereas `deleteBackendConfig` goes by id. The
  invariant `ConfigInv` speaks of the lists' ids: each list is injective in them, they are disjoint, and
  together they are the entries of `config`. Every edit takes out an entry or appends one; `NamedRemoved`,
  `NamedAppended` and `CopyRemoves` say what that does to the ids.

`findIndex` is a least index; `LeastNumber`, from the well-foundedness of the natural numbers, is what its
lemma `Found` rests on. (The library's induction theorems have an operator as parameter, which no prover here
can instantiate.)

`DialProofs` proves about the dials, for any number of dials and backends:

* `IndexIsProtected`: at most one dial builds its list, and `nxtIdxLock` is held meanwhile.
* `AllAreOffered`: `Spec => []EveryBackendOffered`. `CalmInv` says of a dial that no edit disturbs that the entries
  it has picked so far are the backends in turn, beginning with that of its number; once it has picked as many
  as there are, it has all of them (`WholeRound`: n numbers in a row leave all remainders of n).
* `ShareIsFair`: `Spec => []FairShare`. The property bounds the difference of two counts, which is not inductive:
  the invariant `EvenInv` says which backends are one ahead, namely those before the next one in turn, so that the
  next dial leads with one that is behind (`NextTurnEven`).
* `OnlyEditsHarm`: no dial panics in a pool that is not edited meanwhile. The run `panic` shows the other side.

`RegistryProofs` proves four theorems from `RegistryAssumption`, for any number of sessions, backends,
handlers, faults and slots:

* `TypeCorrect`: `Spec => []TypeOK`. It needs that a handler at work has a session.
* `GaugeIsRight`: `Spec => []GaugeCounts`. Only `addClient` and `removeClient` touch the map or the gauge
  (`OnlyAddAndRemove`), and each tells the listeners exactly what it does to the map (`EntryChanges`).
* `SettledAreRemoved`: `Spec => []SettledIsRemoved`. The property says nothing of sessions still at work,
  so the invariant `RemovalInv` follows them: `NobodyLost` says that once the reader has handed its session
  to the manager, the session is in `unregister`, with a handler, or out of `clients` and of `register`, or
  one of the two exceptions. For a handler that ends to keep this, a session must not be registered
  again behind its back: `OncePerSession`. And a handler that resumes a session whose reader is gone
  crashes the process, because the reader ends only after `Close` has: `ReaderEndsClosed`.
* `DeletedAreBeingLeft`: `Spec => []DeletedIsBeingLeft`, the part of `DeletedIsLeft` that holds at any time, not only
  when the balancer has come to rest. The property says nothing of connections still on their way, so `LeavingInv`
  adds them: once `abortAllBackendConnections` has looked, a dial or a handler that may still get to a deleted
  backend does so for a session in `missed`; before it looks, or after, whoever has the backend is known to the
  deletion, has been told and is with the manager, or is missed. Sessions are told one at a time, and the lemma of
  each goroutine's steps says that it brings nobody to a deleted backend but those (`NobodyGets`, `Arrives`).
  That sessions and handlers have different names, which the proof needs, is part of `RegistryAssumption`.

`CompositionProofs` proves, from `CompositionAssumption` and `FileAssumption` (what an entry of the file can be):

* `SettingsAreResolved`: `Spec => []SettingsResolved`, for files, environments, requests of any size. `ConfigInv` adds
  that the environment's settings never change and that a backend and what was given for it have the same index.
  One lemma follows an entry of the file through `sanitizeBackend`, one a backend of `BE_URLS`, one a backend
  of a request; `SanitizeResolves` puts the first two together.
* `GaugeDriftsByUnheard`: `Spec => []GaugeDrift`. `GaugeInv` adds that there is no session before the balancer runs,
  that all gauges are 0 until Prometheus listens, and that every index of a backend is one of the configuration, so
  that a backend that is added is nobody's yet. The proof leaves open what a chain of valves answers, so it holds
  whatever an embedding program's valves do to the messages.

`ValveProofs` proves what depends on the valves, from the same assumptions, for chains of any length:

* `OwnValvesHarm`: `Spec => []OnlyOwnValvesHarm`. How a list of providers becomes a chain and what a message meets in
  it are folds. `Induction` is the well-foundedness of the numbers in the form of a set that has 0 and every next
  number; `FoldExists` and what follows from it are the equations of the folds. `ProviderInv` says that Prometheus is
  attached once at most, so a chain (`Chain`) is empty, its valve alone, or has a valve of the embedding program:
  the nil valve that its `AddValves` leaves is only ever behind one of those. A message's fate is decided by the
  first valve that does not let it through: `PassFate` and `PassBlamed` say that it arrives exactly if no own valve
  refused it and no nil valve was in its way, and `Accounted` carries that to `lost` and `refused`. `ChainInv`
  says it of every session.
* `MetersMeasureAtClient`: `Spec => []MeasuredAtClient`. If Prometheus' valve is in a chain it is the first, so that a
  message to the backend is observed before anybody can drop it, and one from the backend after all others have
  let it pass, which is when the counters count it. `MeasureInv` carries this through the steps; the sums over sessions
  are sizes of the sets of the units counted, so that one message more is one element more.
* `CompositionTypes`: `Spec => []TypeOK`, with `MainInv` for the order of start-up and the invariants above.

`RelayProofs` also states `ConnInv` on its own (`ConnectionsAreOwned`).

Only model-checked, and why:

* `DeletedIsLeft` and `StopReturns`, which contain ENABLED; `DeletedIsBeingLeft` is what remains of the former
  without it, and is proved;
* liveness (`BrokenLinkIsHealed`, `LeavingEndsSession`, `DeleteEnds`, `DialReturns`, `EndsAreReported`), which the prover cannot do.

## 6. Where code and documentation disagree

Six runs check a claim of the documentation, or of a comment, and find it violated; `PROJECT.json` quotes the lines.

* `crash`: `Close` unlocks `bkConnectionLock` when it finds `reinitializing` set. In the run that is before
  `reinitUpstream` has locked it (between its CompareAndSwap and its `Lock`). The other variant of the same
  defect is a `Close` later in the reconnection, after which the `Unlock` of `resume` is one too many. The Go
  runtime ends the process, and with it every other session.
* `unsent`: the backend writer notifies the frontend before it caches the message that failed. The
  new connection may collect the cache first; the message stays behind.
* `blocked`: the reader keeps `bkConnectionLock` read-locked while it waits for room in `send`. If the
  backend connection is dead nobody makes room, and the reconnection waits for the lock.
* `abort`: the normal closure of an administrative failover can reach the new backend connection. It
  closes quietly, and the client keeps a session that leads nowhere. The property asks for an administrator's
  failover of a registered, served session, so that nothing else can be the cause.
* `panic`: a dial that builds its list of backends while one is taken out ends with a nil entry and panics;
  if one is added it overruns the list and keeps the pool's lock for ever. In a re-dial the
  panic ends the process.
* `deleted`: `AddBackend` compares URLs, and among the enabled backends only, while backends are administered by
  id. Two paths of one host, an id given twice, or the URL of a disabled backend make two backends with one id.
  Deleting that id leaves one of the two in the pool, and drops the saved entries of both, with a nil
  entry instead on which the next deletion panics.

Seen while modelling, and part of the models: where a property of a passing run would be false because of one of
these, the property names it as its exception, so that it says that there is no other.

* After an administrative failover the old connection's own failure can reach the FE writer of the new one
  (`inc.go:219`), which then gives up a connection that is open (`OwnFailureOnly`).
* A backend connection that `ServeWs` closes because the client could not be upgraded (`inc_manager.go:153`)
  stays in `activeConnections`, which `out/backend.go:44` calls the "currently active connections"
  (`ActiveAccounted`: `NeverReported`).
* When a deleted backend's listener has ended and `conDone` is full, the reader of a connection that ends later
  blocks for ever (`EndsAreReported`), against `out/backend.go:55-56`: conDone receives "as and when one of the
  connection created by this backend is closed".
* Telling a session to leave its backend blocks when its send channel is full and its connection dead, with
  `doneLock` held (`inc.go:161-164`). Its `resume` waits for that lock, and the sessions after it are never
  told, although `abortAllBackendConnections` "aborts ALL connection" (`inc_manager.go:367`; `DeletedIsLeft`).
* `Stop` hangs when it closes a session that is registered but not started, on its nil `inc.done`, holding
  `doneLock`, so that `ServeWs` hangs in `Start` (`StopReturns`: `jammed`). An administrator who aborts such a
  session does, too.
* `BE_ABNORMAL_CLOSE_CODES`, documented to overwrite a backend's codes (`out/config.go:39`, `README.md:156-157`),
  is read from the environment and used nowhere (`SettingsResolved`).
* `AddValves` of Prometheus says that it adds its valve "at the begining of the supplied chain"
  (`inst/prometheus.go:50-51`). It copies the chain over it and leaves a nil one at the end; the first message that
  gets there ends the process (`OnlyOwnValvesHarm`: `Overwritten`).
* `common/contract.go:188-189` says of a message for which a valve returns nil that it "is discarded". On the way
  from the backend the balancer looks into the nil and the process ends (`inc.go:276`; `OnlyOwnValvesHarm`).
* The manager's loop may serve a session's unregistration before its registration; the session is then
  registered after it has ended, for good (`ghosts` in `Registry`).
* A dial that has listed a backend before its deletion connects to it afterwards and stays (`missed`).
* An error of a valve on the way from the backend ends the session instead of discarding the message
  (`inc.go:269-275`). On the way to the backend a closure is discarded like any message, so that the backend
  never hears of it.
* A session that is registered before Prometheus listens is counted down when it ends and was never
  counted up (`GaugeDrift`).
* The histogram of message sizes keeps the label of a session's first backend after a failover.
* Any answer from 100 to 299 counts as a successful dial; all but 101 carry no connection.

## 7. Plan

Done: the session, its token, its messages and the refinement of `Relay`, proved; the pool with its accounting, its
lists and its round robin proved; the registry with its gauge and removal proved; configuration and start-up with
settings and gauge proved; valves and measures proved. Left, in this order:

1. `Registry` as a refinement of an abstract session table (created once, moved, terminated once).
2. Edits of the pool split at their reads and writes of the shared lists. Two edits at once tear Go slices
   that share an array; what they hold afterwards is undefined, so that the model would have to allow
   nearly everything.

Not modelled, and why: HTTP routing, JSON and log output (I/O); flags and help texts; `internal/` (test
code); `doc.go` (a comment).
