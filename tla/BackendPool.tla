----------------------------- MODULE BackendPool -----------------------------
(***************************************************************************)
(* The pool of backends of out/outc_manager.go and out/backend.go: dials    *)
(* that pick a backend in round robin, the REST administration that edits   *)
(* the pool, and every backend's accounting of its connections.             *)
(*                                                                         *)
(* A dial is a goroutine of its own: ServeWs for a new session, or the      *)
(* manager's handleUnregistration for a session that lost its backend.      *)
(* Dials interleave with the edits at every access to the shared lists,     *)
(* which nxtIdxLock does not protect.  Edits are atomic: two edits at once  *)
(* are not modelled.                                                        *)
(* A backend is a number, the order it was created in.  Its URL is a pair   *)
(* of a host, as NormalizeForID writes it, and a path; its id is given or   *)
(* made of the host.                                                        *)
(***************************************************************************)
EXTENDS Naturals, Sequences, FiniteSets, SequencesExt

CONSTANTS
  NumIds,       \* backend ids, and hosts, there are
  NumPaths,     \* paths a URL can have
  NumInitial,   \* backends in the configuration file, each with a host of its own
  MaxBackends,  \* bound: backends ever created
  Dialers,      \* DialUpstream calls
  Redials,      \* those made by handleUnregistration, the others by ServeWs
  MaxEdits,     \* bound: admin edits of the pool
  Threshold,    \* BreakerThreshold; 0 (negative in the code): no breaker
  ConDoneCap,   \* capacity of backend.conDone (100 in the code)
  UniqueIds     \* whether operators add no backend under an id that the pool has

Ids      == 1..NumIds
Urls     == Ids \X (1..NumPaths)
Backends == 1..MaxBackends

ASSUME PoolAssumption ==
  /\ NumIds \in Nat /\ NumPaths \in Nat \ {0}
  /\ MaxBackends \in Nat /\ MaxEdits \in Nat /\ Threshold \in Nat
  /\ NumInitial \in 1..NumIds /\ NumInitial <= MaxBackends
  /\ IsFiniteSet(Dialers) /\ Redials \subseteq Dialers
  /\ ConDoneCap \in Nat \ {0} /\ UniqueIds \in BOOLEAN

VARIABLES
  \* --- out.Manager
  backends, disabledBe,   \* enabled and disabled backends
  config,           \* the ids in config.Backends, 0 being a nil pointer
  nextBackendIdx,
  nxtIdxLock,       \* TRUE while a dial holds it
  \* --- out.backend
  created,          \* backends created so far
  id, url,          \* config.ID and config.URL
  tripped, failures,      \* the circuit breaker and its consecutive failures
  activeConnections,
  conDone,          \* signals in the channel
  listener,         \* startManagementListener
  deleting,         \* the goroutine that delete() starts
  \* --- DialUpstream, and the connection it returned
  dpc,
  bkList,           \* the backends to try, 0 being a nil pointer
  idx,              \* entries of bkList built, then entries tried
  con,              \* the backend in hand or connected to
  \* --- admin requests so far
  edits,
  calm              \* history: no edit since a dial began

poolVars    == <<backends, disabledBe, config, nextBackendIdx, nxtIdxLock>>
breakerVars == <<tripped, failures>>
countVars   == <<activeConnections, conDone, listener, deleting>>
dialVars    == <<dpc, bkList, idx, con>>
editVars    == <<edits, calm>>
vars == <<poolVars, created, id, url, breakerVars, countVars, dialVars, editVars>>

TypeOK ==
  /\ backends \in Seq(Backends) /\ disabledBe \in Seq(Backends)
  /\ config \in Seq(0..NumIds)
  /\ nextBackendIdx \in Nat /\ nxtIdxLock \in BOOLEAN
  /\ created \in 0..MaxBackends /\ id \in [Backends -> 0..NumIds]
  /\ url \in [Backends -> (0..NumIds) \X (0..NumPaths)]
  /\ tripped \in [Backends -> BOOLEAN] /\ failures \in [Backends -> 0..Threshold]
  /\ activeConnections \in [Backends -> Nat]
  /\ conDone \in [Backends -> 0..ConDoneCap]
  /\ listener \in [Backends -> {"none", "running", "ended"}]
  /\ deleting \in [Backends -> {"none", "draining", "signal", "gone"}]
  /\ dpc \in [Dialers -> {"idle", "build", "next", "dialling", "connected", "hollow",
                          "started", "closing", "closed", "refused", "exhausted",
                          "declined", "panicked"}]
  /\ bkList \in [Dialers -> Seq(0..MaxBackends)] /\ idx \in [Dialers -> Nat]
  /\ con \in [Dialers -> 0..MaxBackends]
  /\ edits \in 0..MaxEdits /\ calm \in BOOLEAN

\* NewManager: one backend per entry of the file, with its listener running.
Init ==
  /\ backends = [i \in 1..NumInitial |-> i] /\ disabledBe = <<>>
  /\ config = backends
  /\ nextBackendIdx = 0 /\ nxtIdxLock = FALSE
  /\ created = NumInitial
  /\ id = [b \in Backends |-> IF b <= NumInitial THEN b ELSE 0]
  /\ url = [b \in Backends |-> IF b <= NumInitial THEN <<b, 1>> ELSE <<0, 0>>]
  /\ tripped = [b \in Backends |-> FALSE] /\ failures = [b \in Backends |-> 0]
  /\ activeConnections = [b \in Backends |-> 0] /\ conDone = [b \in Backends |-> 0]
  /\ listener = [b \in Backends |-> IF b <= NumInitial THEN "running" ELSE "none"]
  /\ deleting = [b \in Backends |-> "none"]
  /\ dpc = [d \in Dialers |-> "idle"] /\ bkList = [d \in Dialers |-> <<>>]
  /\ idx = [d \in Dialers |-> 0] /\ con = [d \in Dialers |-> 0]
  /\ edits = 0 /\ calm = TRUE

-----------------------------------------------------------------------------
(* nextBackendList.                                                         *)

DialGoto(d, pc) == dpc' = [dpc EXCEPT ![d] = pc]

\* Mutant: the index is not protected.
DialLockUnguarded(d) ==
  /\ dpc[d] = "idle"
  /\ nxtIdxLock' = TRUE
  /\ nextBackendIdx' = nextBackendIdx + 1
  /\ bkList' = [bkList EXCEPT ![d] = [i \in 1..Len(backends) |-> 0]]
  /\ DialGoto(d, "build")
  /\ UNCHANGED <<backends, disabledBe, config, created, id, url, breakerVars, countVars, idx,
                 con, editVars>>

\* Takes the lock, moves the index on and allocates the list.
DialLock(d) ==
  /\ dpc[d] = "idle" /\ ~nxtIdxLock
  /\ nxtIdxLock' = TRUE
  /\ nextBackendIdx' = nextBackendIdx + 1
  /\ bkList' = [bkList EXCEPT ![d] = [i \in 1..Len(backends) |-> 0]]
  /\ DialGoto(d, "build")
  /\ UNCHANGED <<backends, disabledBe, config, created, id, url, breakerVars, countVars, idx,
                 con, editVars>>

\* One turn of the loop: both its bound and the entry are read from the list of
\* backends as it is now.
DialPick(d) ==
  /\ dpc[d] = "build" /\ idx[d] < Len(backends) /\ idx[d] < Len(bkList[d])
  /\ bkList' = [bkList EXCEPT ![d][idx[d] + 1] =
                  backends[((nextBackendIdx + idx[d]) % Len(backends)) + 1]]
  /\ idx' = [idx EXCEPT ![d] = @ + 1]
  /\ UNCHANGED <<poolVars, created, id, url, breakerVars, countVars, dpc, con, editVars>>

\* The pool has grown: index out of range, with the lock held.
DialOverruns(d) ==
  /\ dpc[d] = "build" /\ idx[d] < Len(backends) /\ idx[d] >= Len(bkList[d])
  /\ DialGoto(d, "panicked")
  /\ UNCHANGED <<poolVars, created, id, url, breakerVars, countVars, bkList, idx, con, editVars>>

\* Mutant: the lock is not given back.
DialUnlockForgotten(d) ==
  /\ dpc[d] = "build" /\ idx[d] >= Len(backends)
  /\ idx' = [idx EXCEPT ![d] = 0]
  /\ DialGoto(d, "next")
  /\ UNCHANGED <<poolVars, created, id, url, breakerVars, countVars, bkList, con, editVars>>

\* If the pool has shrunk, nil entries remain in the list.
DialUnlock(d) ==
  /\ dpc[d] = "build" /\ idx[d] >= Len(backends)
  /\ nxtIdxLock' = FALSE
  /\ idx' = [idx EXCEPT ![d] = 0]
  /\ DialGoto(d, "next")
  /\ UNCHANGED <<backends, disabledBe, config, nextBackendIdx, created, id, url, breakerVars,
                 countVars, bkList, con, editVars>>

-----------------------------------------------------------------------------
(* DialUpstream of the manager and of the backend.  The circuit breaker is  *)
(* the library rubyist/circuitbreaker.                                      *)

\* breaker.Ready: a tripped breaker lets a call through when a retry is due.
ReadyAnswers(b) == IF tripped[b] THEN BOOLEAN ELSE {TRUE}

\* breaker.Success ends a run of failures; a retry that succeeds closes it.
Success(b) ==
  /\ failures' = [failures EXCEPT ![b] = 0]
  /\ \E still \in {FALSE, tripped[b]} : tripped' = [tripped EXCEPT ![b] = still]

\* breaker.Fail: Threshold failures in a row trip it; the dummy never trips.
Fail(b) ==
  /\ failures' = [failures EXCEPT ![b] = IF @ < Threshold THEN @ + 1 ELSE @]
  /\ tripped' = [tripped EXCEPT ![b] = @ \/ (Threshold > 0 /\ failures[b] + 1 >= Threshold)]

\* The next entry of the list: the call on a nil entry panics.
DialNext(d) ==
  /\ dpc[d] = "next" /\ idx[d] < Len(bkList[d])
  /\ LET b == bkList[d][idx[d] + 1] IN
       /\ idx' = [idx EXCEPT ![d] = @ + 1]
       /\ IF b = 0 THEN DialGoto(d, "panicked") /\ UNCHANGED con
          ELSE \E ready \in ReadyAnswers(b) :
                 /\ DialGoto(d, IF ready THEN "dialling" ELSE "next")
                 /\ con' = [con EXCEPT ![d] = IF ready THEN b ELSE 0]
  /\ UNCHANGED <<poolVars, created, id, url, breakerVars, countVars, bkList, editVars>>

\* All backend exhausted!
DialExhausted(d) ==
  /\ dpc[d] = "next" /\ idx[d] >= Len(bkList[d])
  /\ DialGoto(d, "exhausted")
  /\ UNCHANGED <<poolVars, created, id, url, breakerVars, countVars, bkList, idx, con, editVars>>

\* The backend's answer is 101, ...
DialSucceeds(d) ==
  /\ dpc[d] = "dialling"
  /\ Success(con[d])
  /\ activeConnections' = [activeConnections EXCEPT ![con[d]] = @ + 1]
  /\ DialGoto(d, "connected")
  /\ UNCHANGED <<poolVars, created, id, url, conDone, listener, deleting, bkList, idx, con,
                 editVars>>

\* ... another 1xx or 2xx, which is taken for success although the dialer returns
\* no websocket: ServeWs, or the reader of the new connection, panics on the nil, ...
DialHollow(d) ==
  /\ dpc[d] = "dialling"
  /\ Success(con[d])
  /\ activeConnections' = [activeConnections EXCEPT ![con[d]] = @ + 1]
  /\ DialGoto(d, "hollow")
  /\ UNCHANGED <<poolVars, created, id, url, conDone, listener, deleting, bkList, idx, con,
                 editVars>>

\* Mutant: a failure ends the search.
DialFailsForGood(d) ==
  /\ dpc[d] = "dialling"
  /\ Fail(con[d])
  /\ con' = [con EXCEPT ![d] = 0]
  /\ DialGoto(d, "exhausted")
  /\ UNCHANGED <<poolVars, created, id, url, countVars, bkList, idx, editVars>>

\* ... an error or 5xx, which counts against the backend, ...
DialFails(d) ==
  /\ dpc[d] = "dialling"
  /\ Fail(con[d])
  /\ con' = [con EXCEPT ![d] = 0]
  /\ DialGoto(d, "next")
  /\ UNCHANGED <<poolVars, created, id, url, countVars, bkList, idx, editVars>>

\* ... or 3xx or 4xx, which no other backend is asked to correct.
DialDeclined(d) ==
  /\ dpc[d] = "dialling"
  /\ con' = [con EXCEPT ![d] = 0]
  /\ DialGoto(d, "declined")
  /\ UNCHANGED <<poolVars, created, id, url, breakerVars, countVars, bkList, idx, editVars>>

DialRuns(d) ==
  \/ DialLock(d) \/ DialPick(d) \/ DialOverruns(d) \/ DialUnlock(d) \/ DialNext(d)
  \/ DialExhausted(d) \/ DialSucceeds(d) \/ DialHollow(d) \/ DialFails(d)
  \/ DialDeclined(d)

-----------------------------------------------------------------------------
(* The connection after the dial.                                           *)

ConGoto(d, from, to) ==
  /\ dpc[d] = from
  /\ DialGoto(d, to)
  /\ UNCHANGED <<poolVars, created, id, url, breakerVars, activeConnections, listener,
                 deleting, bkList, idx, con, editVars>>

\* outc.Start; from then on the BE reader ends with notifyBackend.
ConStart(d) == ConGoto(d, "connected", "started") /\ UNCHANGED conDone

\* ServeWs fails to upgrade the client: it closes a connection whose reader was
\* never started.
UpgradeFails(d) ==
  /\ d \notin Redials
  /\ ConGoto(d, "connected", "refused") /\ UNCHANGED conDone

\* The connection ends, for whatever reason.
ConEnds(d) == ConGoto(d, "started", "closing") /\ UNCHANGED conDone

\* Mutant: the channel has no bound.
notifyBackendUnbounded(d) ==
  /\ dpc[d] = "closing"
  /\ conDone' = [conDone EXCEPT ![con[d]] = @ + 1]
  /\ ConGoto(d, "closing", "closed")

\* Mutant: a signal that finds the channel full is lost.
notifyBackendOrDrop(d) ==
  /\ dpc[d] = "closing"
  /\ conDone' = [conDone EXCEPT ![con[d]] = IF @ < ConDoneCap THEN @ + 1 ELSE @]
  /\ ConGoto(d, "closing", "closed")

\* bkDone <- struct{}{} blocks on a full channel.
notifyBackend(d) ==
  /\ dpc[d] = "closing" /\ conDone[con[d]] < ConDoneCap
  /\ conDone' = [conDone EXCEPT ![con[d]] = @ + 1]
  /\ ConGoto(d, "closing", "closed")

-----------------------------------------------------------------------------
(* The backend's own goroutines.                                            *)

backendOnly == <<poolVars, created, id, url, breakerVars, dialVars, editVars>>

\* Mutant: the listener of a disabled backend is not served.
ListenConDoneEnabled(b) ==
  /\ Contains(backends, b)
  /\ listener[b] = "running" /\ conDone[b] > 0
  /\ conDone' = [conDone EXCEPT ![b] = @ - 1]
  /\ activeConnections' = [activeConnections EXCEPT ![b] = @ - 1]
  /\ UNCHANGED <<backendOnly, listener, deleting>>

ListenConDone(b) ==
  /\ listener[b] = "running" /\ conDone[b] > 0
  /\ conDone' = [conDone EXCEPT ![b] = @ - 1]
  /\ activeConnections' = [activeConnections EXCEPT ![b] = @ - 1]
  /\ UNCHANGED <<backendOnly, listener, deleting>>

\* The goroutine of delete() sees the connections drained, or has waited a
\* minute.
DeleteDrained(b) ==
  /\ deleting[b] = "draining" /\ activeConnections[b] < 1
  /\ deleting' = [deleting EXCEPT ![b] = "signal"]
  /\ UNCHANGED <<backendOnly, activeConnections, conDone, listener>>

DeleteAnyway(b) ==
  /\ deleting[b] = "draining" /\ activeConnections[b] >= 1
  /\ deleting' = [deleting EXCEPT ![b] = "signal"]
  /\ UNCHANGED <<backendOnly, activeConnections, conDone, listener>>

\* Mutant: the listener stays as long as there are connections.
ListenDeletedDrained(b) ==
  /\ listener[b] = "running" /\ deleting[b] = "signal" /\ activeConnections[b] < 1
  /\ listener' = [listener EXCEPT ![b] = "ended"]
  /\ deleting' = [deleting EXCEPT ![b] = "gone"]
  /\ UNCHANGED <<backendOnly, activeConnections, conDone>>

\* deleted is unbuffered: sender and listener meet.
ListenDeleted(b) ==
  /\ listener[b] = "running" /\ deleting[b] = "signal"
  /\ listener' = [listener EXCEPT ![b] = "ended"]
  /\ deleting' = [deleting EXCEPT ![b] = "gone"]
  /\ UNCHANGED <<backendOnly, activeConnections, conDone>>

BackendRuns(b) ==
  ListenConDone(b) \/ DeleteDrained(b) \/ DeleteAnyway(b) \/ ListenDeleted(b)

-----------------------------------------------------------------------------
(* Administration.                                                          *)

\* findIndex, but 0 when there is none: the first backend with that id.
findIndex(be, n) == SelectInSeq(be, LAMBDA b : id[b] = n)

\* One more edit; dials and connections are left alone.
Edit ==
  /\ edits < MaxEdits
  /\ edits' = edits + 1
  /\ calm' = (calm /\ \A d \in Dialers : dpc[d] = "idle")
  /\ UNCHANGED <<nxtIdxLock, dialVars, activeConnections, conDone>>

\* Host and port are what the id is made of: the path is not.
NormalizeForID(u) == u[1]

\* The new backend has the id n that the request gives, or one made of its URL.
\* Only an enabled backend with that URL stops it.
AddBackend(u, n) ==
  /\ Edit
  /\ created < MaxBackends
  /\ \A i \in DOMAIN backends : url[backends[i]] # u
  /\ UniqueIds => findIndex(backends, n) = 0 /\ findIndex(disabledBe, n) = 0
  /\ created' = created + 1
  /\ id' = [id EXCEPT ![created + 1] = n]
  /\ url' = [url EXCEPT ![created + 1] = u]
  /\ config' = Append(config, n)
  /\ backends' = Append(backends, created + 1)
  /\ listener' = [listener EXCEPT ![created + 1] = "running"]
  /\ UNCHANGED <<disabledBe, nextBackendIdx, breakerVars, deleting>>

\* appendBackend: an id that is blank (0) is made of the URL.
AddRequest(u, given) == AddBackend(u, IF given = 0 THEN NormalizeForID(u) ELSE given)

DisableBackend(n) ==
  LET i == findIndex(backends, n) IN
  /\ Edit
  /\ findIndex(disabledBe, n) = 0 /\ i > 0
  /\ disabledBe' = Append(disabledBe, backends[i])
  /\ backends' = RemoveAt(backends, i)
  /\ nextBackendIdx' = 0
  /\ UNCHANGED <<config, created, id, url, breakerVars, listener, deleting>>

\* Mutant: the backend also stays among the disabled ones.
EnableBackendTwice(n) ==
  LET i == findIndex(disabledBe, n) IN
  /\ Edit
  /\ findIndex(backends, n) = 0 /\ i > 0
  /\ backends' = Append(backends, disabledBe[i])
  /\ UNCHANGED <<disabledBe, config, nextBackendIdx, created, id, url, breakerVars, listener,
                 deleting>>

EnableBackend(n) ==
  LET i == findIndex(disabledBe, n) IN
  /\ Edit
  /\ findIndex(backends, n) = 0 /\ i > 0
  /\ backends' = Append(backends, disabledBe[i])
  /\ disabledBe' = RemoveAt(disabledBe, i)
  /\ UNCHANGED <<config, nextBackendIdx, created, id, url, breakerVars, listener, deleting>>

\* A second call leaves a goroutine that waits for ever.
delete(b) == deleting' = [deleting EXCEPT ![b] = IF @ = "none" THEN "draining" ELSE @]

\* deleteBackendConfig copies the entries with another id into a list that is
\* one shorter; it panics on a nil entry, and if nothing was to be left out.
ConfigPanics(n) == Contains(config, 0) \/ ~Contains(config, n)

\* The kth entry of the copy is the kth with another id.
CopiedFrom(n, k) ==
  {i \in DOMAIN config : config[i] # n /\ Cardinality({j \in 1..i : config[j] # n}) = k}

deleteBackendConfig(n) ==
  config' = [k \in 1..(Len(config) - 1) |->
              IF CopiedFrom(n, k) = {} THEN 0 ELSE config[CHOOSE i \in CopiedFrom(n, k) : TRUE]]

\* A disabled backend is looked for first, and is taken out last.
DeleteDisabled(n) ==
  LET i == findIndex(disabledBe, n) IN
  /\ Edit
  /\ i > 0
  /\ delete(disabledBe[i])
  /\ IF ConfigPanics(n)
       THEN UNCHANGED <<config, disabledBe>>
       ELSE deleteBackendConfig(n) /\ disabledBe' = RemoveAt(disabledBe, i)
  /\ UNCHANGED <<backends, nextBackendIdx, created, id, url, breakerVars, listener>>

DeleteEnabled(n) ==
  LET i == findIndex(backends, n) IN
  /\ Edit
  /\ findIndex(disabledBe, n) = 0 /\ i > 0
  /\ delete(backends[i])
  /\ backends' = RemoveAt(backends, i)
  /\ IF ConfigPanics(n)
       THEN UNCHANGED <<config, nextBackendIdx>>
       ELSE deleteBackendConfig(n) /\ nextBackendIdx' = 0
  /\ UNCHANGED <<disabledBe, created, id, url, breakerVars, listener>>

\* The disabled backend with that id is reset, unless it is not tripped: then
\* an enabled one is looked for.
ResetBackend(n) ==
  LET i == findIndex(disabledBe, n)
      j == findIndex(backends, n)
      b == IF i > 0 /\ tripped[disabledBe[i]] THEN disabledBe[i]
           ELSE IF j > 0 THEN backends[j] ELSE 0
  IN
  /\ Edit
  /\ b > 0 /\ tripped[b]
  /\ tripped' = [tripped EXCEPT ![b] = FALSE]
  /\ failures' = [failures EXCEPT ![b] = 0]
  /\ UNCHANGED <<backends, disabledBe, config, nextBackendIdx, created, id, url, listener,
                 deleting>>

Admin ==
  \/ \E u \in Urls, given \in {0} \cup Ids : AddRequest(u, given)
  \/ \E n \in Ids :
       \/ DisableBackend(n) \/ EnableBackend(n)
       \/ DeleteDisabled(n) \/ DeleteEnabled(n) \/ ResetBackend(n)

-----------------------------------------------------------------------------
\* A panic in handleUnregistration takes the process down; net/http recovers
\* from one in ServeWs.
Crashed == \E d \in Redials : dpc[d] \in {"panicked", "hollow"}

Environment == Admin \/ \E d \in Dialers : UpgradeFails(d) \/ ConEnds(d)

Balancer ==
  \/ \E d \in Dialers : DialRuns(d) \/ ConStart(d) \/ notifyBackend(d)
  \/ \E b \in Backends : BackendRuns(b)

Next == ~Crashed /\ (Environment \/ Balancer)

Spec == Init /\ [][Next]_vars

\* The scheduler runs what can run; HandshakeTimeout bounds every dial.  The
\* balancer has finitely many steps to take per dial and per edit.
FairSpec == Spec /\ WF_vars(~Crashed /\ Balancer)

-----------------------------------------------------------------------------
(* Properties.                                                              *)

\* A dial whose list of backends is complete.
Listed(d) == dpc[d] \notin {"idle", "build", "panicked"} /\ bkList[d] # <<>>

Led(b) == {d \in Dialers : Listed(d) /\ bkList[d][1] = b}

\* Round robin: in a pool that nobody edits while they run, concurrent dials start
\* at the backends in turn, so none is tried first twice more often than another:
\* outc_manager.go:288-298.
FairShare ==
  calm => \A b, c \in ToSet(backends) : Cardinality(Led(b)) <= Cardinality(Led(c)) + 1

\* A dial gives up only after every enabled backend had its turn, in a pool that
\* nobody edits while it runs: outc_manager.go:303-317.
EveryBackendOffered ==
  calm => \A d \in Dialers :
    dpc[d] = "exhausted" => {bkList[d][i] : i \in 1..idx[d]} = ToSet(backends)

\* The connections of a backend: those in use, those whose reader is about to report
\* the end, and those that never report anything, because they were closed before they
\* were started or never were a websocket.
With(b, states)  == {d \in Dialers : con[d] = b /\ dpc[d] \in states}
InUse(b)         == With(b, {"connected", "started"})
Ending(b)        == With(b, {"closing"})
NeverReported(b) == With(b, {"refused", "hollow"})

\* activeConnections is more than the "currently active connections" of backend.go:44:
\* it also has those that are ending, the reports that wait in conDone and, for good,
\* the connections that never report (inc_manager.go:153, backend.go:172).  There is
\* nothing else in it, and nothing is missing, whatever dials, ends and edits overlap:
\* backend.go:116,173, outc.go:163.
ActiveAccounted ==
  \A b \in Backends :
    activeConnections[b] =
      Cardinality(InUse(b) \cup Ending(b) \cup NeverReported(b)) + conDone[b]

\* Every backend of the pool, enabled or disabled, has one entry in the saved
\* configuration and every entry has its backend, so that each edit finds the
\* backend it names.  It is edited by id, so that this holds only as long as no two
\* backends of the pool share one (UniqueIds): outc_manager.go:251-262.
PoolMatchesConfig ==
  LET pool == backends \o disabledBe IN
  /\ Len(pool) = Len(config)
  /\ {id[pool[i]] : i \in DOMAIN pool} = ToSet(config)
  /\ IsInjective(config)

\* No two backends of the pool have the same id, given or made of the URL
\* (common.go:18-20): what PoolMatchesConfig rests on, and goes with.
IdsIdentify ==
  LET pool == backends \o disabledBe IN
  \A i, j \in DOMAIN pool : id[pool[i]] = id[pool[j]] => i = j

\* The reader of a connection that has ended gets its report off, however many wait in
\* conDone; unless the backend has been deleted and its listener has ended, as then
\* nobody empties a full conDone: outc.go:150-164, backend.go:94-120.
EndsAreReported ==
  \A d \in Dialers :
    (dpc[d] = "closing") ~> \/ dpc[d] = "closed" \/ Crashed
                            \/ \E b \in Backends : /\ con[d] = b /\ deleting[b] = "gone"
                                                  /\ conDone[b] = ConDoneCap

\* A deleted backend's listener ends, whatever its connections do: it is drained,
\* or a minute has passed (unless the process is gone).
DeleteEnds ==
  \A b \in Backends : (deleting[b] = "draining") ~> (listener[b] = "ended" \/ Crashed)

\* Every dial comes to an answer, unless an edit has made one panic, which may
\* leave nxtIdxLock locked for ever: outc_manager.go:288-320.
DialReturns ==
  \A d \in Dialers :
    (dpc[d] = "idle") ~> \/ dpc[d] \notin {"idle", "build", "next", "dialling"}
                         \/ Crashed \/ \E e \in Dialers : dpc[e] = "panicked"

-----------------------------------------------------------------------------
(* What the documentation says of the program, and the code does not do.    *)

\* README.md:52-58: backends are disabled, enabled, added and deleted "without
\* adding any downtime".  No edit makes a concurrent dial panic.
EditsAreHarmless == \A d \in Dialers : dpc[d] # "panicked"

\* common/contract.go:109-113: with DeleteBackend "the system will no longer have
\* knowledge of this backend", which is named by its id: no backend of the pool has
\* the id of one that is being deleted, which "will NOT participate in any new
\* connection request".
DeletedIsUnknown ==
  [][\A b \in Backends :
       deleting[b] = "none" /\ deleting'[b] # "none" =>
         \A c \in ToSet(backends' \o disabledBe') : id[c] # id[b]]_deleting

=============================================================================
