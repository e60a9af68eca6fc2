------------------------------- MODULE Session -------------------------------
(***************************************************************************)
(* One balancer session from the moment its websocket upgrade succeeded:   *)
(* the frontend connection (Inc), its backend connections (Outc) and the   *)
(* manager of in/inc_manager.go that registers it, dials again when its    *)
(* backend connection breaks, and removes it.  The client, the network and *)
(* the backends act whenever they like.                                    *)
(***************************************************************************)
EXTENDS Inc, Outc, SequencesExt

\* The type of every variable; no channel holds more than its capacity.
TypeOK ==
  /\ clientUp \in BOOLEAN /\ conOpen \in BOOLEAN /\ sent \in 0..NumMsgs
  /\ send \in Seq(Messages) /\ Len(send) <= PipeCap
  /\ receive \in Seq(Messages) /\ Len(receive) <= PipeCap
  /\ done \in Seq(BOOLEAN) /\ Len(done) <= DoneCap
  /\ reinit \in BOOLEAN /\ shutting \in BOOLEAN
  /\ closeStep \in {"none", "lock", "send", "finish", "returned"}
  /\ bkLock \in {"free", "waiting", "held"}
  /\ rpc \in {"idle", "read", "lock", "sendData", "sendNormal", "close", "unregister", "end"}
  /\ wpc \in [Conns -> {"idle", "select", "cas", "lock", "lockWait", "unregister", "close",
                        "end"}]
  /\ writers \in 0..MaxConns
  /\ spc \in {"register", "feStart", "feStartWait", "beStart", "end"}
  /\ registering \in BOOLEAN /\ unregister \in Nat /\ mapped \in 0..MaxConns
  /\ hpc \in [Handlers -> {"idle", "exists", "active", "dial", "add", "resume", "resumeWait",
                           "start", "close", "remove"}]
  /\ hcon \in [Handlers -> 0..MaxConns]
  /\ apc \in [Admins -> {"idle", "close", "abort", "done", "normal", "end"}]
  /\ dialled \in Conns
  /\ link \in [Conns -> {"none", "open", "lost", "closed", "shut"}]
  /\ shut \in [Conns -> BOOLEAN]
  /\ notify \in [Conns -> {"none", "normal", "abnormal", "sent"}]
  /\ orpc \in [Conns -> {"idle", "read", "forward", "notify", "end"}]
  /\ owpc \in [Conns -> {"idle", "clear", "flush", "select", "notify", "end"}]
  /\ flush \in [Conns -> Seq(Nat)] /\ cache \in [Conns -> Seq(Nat)]
  /\ backSent \in 0..NumBackMsgs
  /\ delivered \in [Conns -> Seq(Nat)]
  /\ crashed \in BOOLEAN

\* ServeWs has dialled connection 1 and upgraded the client; newInc, newOutc.
Init ==
  /\ clientUp = TRUE /\ conOpen = TRUE /\ sent = 0
  /\ send = <<>> /\ receive = <<>> /\ done = <<>>
  /\ reinit = FALSE /\ shutting = FALSE /\ closeStep = "none" /\ bkLock = "free"
  /\ rpc = "idle" /\ wpc = [w \in Conns |-> "idle"] /\ writers = 0
  /\ spc = "register" /\ registering = FALSE /\ unregister = 0 /\ mapped = 0
  /\ hpc = [h \in Handlers |-> "idle"] /\ hcon = [h \in Handlers |-> 0]
  /\ apc = [a \in Admins |-> "idle"]
  /\ dialled = 1
  /\ link = [c \in Conns |-> IF c = 1 THEN "open" ELSE "none"]
  /\ shut = [c \in Conns |-> FALSE] /\ notify = [c \in Conns |-> "none"]
  /\ orpc = [c \in Conns |-> "idle"] /\ owpc = [c \in Conns |-> "idle"]
  /\ flush = [c \in Conns |-> <<>>] /\ cache = [c \in Conns |-> <<>>]
  /\ backSent = 0 /\ delivered = [c \in Conns |-> <<>>]
  /\ crashed = FALSE

-----------------------------------------------------------------------------
(* ServeWs: register, feCon.Start(), beCon.Start().                         *)

ServeRegister ==
  /\ spc = "register"
  /\ registering' = TRUE
  /\ spc' = "feStart"
  /\ UNCHANGED <<clientVars, pipes, incVars, rpc, writerVars, unregister, mapped, hpc, hcon,
                 apc, outcVars, crashed>>

\* doneLock.Lock() blocks behind a reader and keeps later readers out.
ServeStartWaits ==
  /\ spc = "feStart" /\ DoneReaders
  /\ spc' = "feStartWait"
  /\ UNCHANGED <<clientVars, pipes, incVars, rpc, writerVars, registering, unregister,
                 mapped, hpc, hcon, apc, outcVars, crashed>>

ServeStartFE ==
  /\ spc \in {"feStart", "feStartWait"}
  /\ Start
  /\ spc' = "beStart"
  /\ UNCHANGED <<clientVars, pipes, registering, unregister, mapped, hpc, hcon, apc,
                 outcVars>>

ServeStartBE ==
  /\ spc = "beStart"
  /\ StartOutc(1)
  /\ spc' = "end"
  /\ UNCHANGED <<clientVars, pipes, incVars, rpc, writerVars, registering, unregister,
                 mapped, hpc, hcon, apc, dialled, link, shut, notify, flush, cache, backSent,
                 delivered, crashed>>

ServeWs == ServeRegister \/ ServeStartWaits \/ ServeStartFE \/ ServeStartBE

-----------------------------------------------------------------------------
(* The manager's loop selects between its two channels.                     *)

\* Mutant: the registration is served again and again.
LoopRegisterAgain ==
  /\ registering
  /\ mapped' = 1
  /\ UNCHANGED <<clientVars, pipes, incVars, rpc, writerVars, spc, registering, unregister,
                 hpc, hcon, apc, outcVars, crashed>>

\* addClient, in the loop itself.
LoopRegister ==
  /\ registering
  /\ registering' = FALSE
  /\ mapped' = 1
  /\ UNCHANGED <<clientVars, pipes, incVars, rpc, writerVars, spc, unregister, hpc, hcon,
                 apc, outcVars, crashed>>

\* go handleUnregistration(client), in any goroutine that is free.
LoopUnregister ==
  /\ unregister > 0
  /\ unregister' = unregister - 1
  /\ \E h \in Handlers : hpc[h] = "idle"
  /\ hpc' = [hpc EXCEPT ![CHOOSE h \in Handlers : hpc[h] = "idle"] = "exists"]
  /\ UNCHANGED <<clientVars, pipes, incVars, rpc, writerVars, spc, registering, mapped,
                 hcon, apc, outcVars, crashed>>

-----------------------------------------------------------------------------
(* handleUnregistration in goroutine h.                                     *)

HandlerGoto(h, pc) == hpc' = [hpc EXCEPT ![h] = pc]

\* Only hpc of the manager's variables changes.
handlerOnly == <<clientVars, pipes, incVars, rpc, writerVars, spc, registering, unregister,
                 apc, outcVars, crashed>>

\* clientExists
HandlerExists(h) ==
  /\ hpc[h] = "exists"
  /\ HandlerGoto(h, IF mapped = 0 THEN "idle" ELSE "active")
  /\ UNCHANGED <<handlerOnly, mapped, hcon>>

\* Mutant: a closed client's session is dialled for as well.
HandlerActiveAlways(h) ==
  /\ hpc[h] = "active"
  /\ HandlerGoto(h, "dial")
  /\ hcon' = [hcon EXCEPT ![h] = mapped]
  /\ UNCHANGED <<handlerOnly, mapped>>

\* isClientActive; an active client's current connection is looked up again.
HandlerActive(h) ==
  /\ hpc[h] = "active"
  /\ HandlerGoto(h, IF shutting THEN "close" ELSE "dial")
  /\ hcon' = [hcon EXCEPT ![h] = IF shutting THEN @ ELSE mapped]
  /\ UNCHANGED <<handlerOnly, mapped>>

\* Mutant: the handler goes on with the connection that broke.
HandlerDialledOld(h) ==
  /\ hpc[h] = "dial" /\ dialled < MaxConns
  /\ dialled' = dialled + 1
  /\ newOutc(dialled + 1, hcon[h])
  /\ HandlerGoto(h, "add")
  /\ UNCHANGED <<clientVars, pipes, incVars, rpc, writerVars, spc, registering, unregister,
                 mapped, hcon, apc, shut, notify, orpc, owpc, flush, backSent, delivered,
                 crashed>>

\* The dialer's answer, whenever it comes: a new connection...
HandlerDialled(h) ==
  /\ hpc[h] = "dial" /\ dialled < MaxConns
  /\ dialled' = dialled + 1
  /\ newOutc(dialled + 1, hcon[h])
  /\ hcon' = [hcon EXCEPT ![h] = dialled + 1]
  /\ HandlerGoto(h, "add")
  /\ UNCHANGED <<clientVars, pipes, incVars, rpc, writerVars, spc, registering, unregister,
                 mapped, apc, shut, notify, orpc, owpc, flush, backSent, delivered, crashed>>

\* ... or an error: no backend is left, or one declined.
HandlerDialFails(h) ==
  /\ hpc[h] = "dial"
  /\ HandlerGoto(h, "close")
  /\ UNCHANGED <<handlerOnly, mapped, hcon>>

HandlerClosed(h) ==
  /\ hpc[h] = "close" /\ CloseReturned
  /\ HandlerGoto(h, "remove")
  /\ UNCHANGED <<handlerOnly, mapped, hcon>>

\* removeClient
HandlerRemove(h) ==
  /\ hpc[h] = "remove"
  /\ mapped' = 0
  /\ HandlerGoto(h, "idle")
  /\ hcon' = [hcon EXCEPT ![h] = 0]
  /\ UNCHANGED handlerOnly

\* addClient
HandlerAdd(h) ==
  /\ hpc[h] = "add"
  /\ mapped' = hcon[h]
  /\ HandlerGoto(h, "resume")
  /\ UNCHANGED <<handlerOnly, hcon>>

HandlerResumeWaits(h) ==
  /\ hpc[h] = "resume" /\ DoneReaders
  /\ HandlerGoto(h, "resumeWait")
  /\ UNCHANGED <<handlerOnly, mapped, hcon>>

HandlerResume(h) ==
  /\ hpc[h] \in {"resume", "resumeWait"}
  /\ resume
  /\ HandlerGoto(h, "start")
  /\ UNCHANGED <<clientVars, pipes, spc, registering, unregister, mapped, hcon, apc,
                 outcVars>>

\* usCon.Start()
HandlerStart(h) ==
  /\ hpc[h] = "start"
  /\ StartOutc(hcon[h])
  /\ HandlerGoto(h, "idle")
  /\ hcon' = [hcon EXCEPT ![h] = 0]
  /\ UNCHANGED <<clientVars, pipes, incVars, rpc, writerVars, spc, registering, unregister,
                 mapped, apc, dialled, link, shut, notify, flush, cache, backSent,
                 delivered, crashed>>

HandlerRuns(h) ==
  \/ HandlerExists(h) \/ HandlerActive(h) \/ HandlerDialled(h) \/ HandlerDialFails(h)
  \/ HandlerClosed(h) \/ HandlerRemove(h) \/ HandlerAdd(h)
  \/ HandlerResumeWaits(h) \/ HandlerResume(h) \/ HandlerStart(h)

-----------------------------------------------------------------------------
\* The client's side of the socket goes away.
ClientLeaves ==
  /\ ClientMayLeave /\ clientUp
  /\ clientUp' = FALSE
  /\ UNCHANGED <<conOpen, sent, pipes, incVars, rpc, writerVars, managerVars, outcVars,
                 crashed>>

Environment ==
  \/ ReadData \/ ClientLeaves
  \/ \E c \in Conns : BackendData(c) \/ BackendLost(c) \/ BackendCloses(c)
  \/ \E a \in Admins : AdminRequest(a)

Balancer ==
  \/ ReaderRuns \/ CloseBody
  \/ \E w \in Conns : WriterRuns(w)
  \/ \E c \in Conns : BackendRuns(c)
  \/ \E a \in Admins : AdminRuns(a)
  \/ \E h \in Handlers : HandlerRuns(h)
  \/ ServeWs \/ LoopRegister \/ LoopUnregister

\* Nothing runs after a fatal error.
Next == ~crashed /\ (Environment \/ Balancer)

Spec == Init /\ [][Next]_vars

\* The Go scheduler never leaves the process idle while a goroutine can run.
\* No goroutine's fairness towards another is needed: with the client's and the
\* backends' messages, the dials and the admin requests bounded, the balancer has
\* only finitely many steps to take.  Nothing is assumed of the environment.
Fairness == WF_vars(~crashed /\ Balancer)

FairSpec == Spec /\ Fairness

-----------------------------------------------------------------------------
(* Properties.                                                              *)

LiveWriter(w) == wpc[w] \notin {"idle", "end"}

\* A handler that has decided to dial and has not yet resumed the session.
Redialling(h) == hpc[h] \in {"dial", "add", "resume", "resumeWait"}

\* At most one goroutine drains inc.receive and inc.done and writes to the
\* client's socket (a websocket allows one concurrent writer), and it has gone
\* before a handler replaces the backend connection: inc.go:139-153, 282-291.
SingleWriter ==
  /\ \A v, w \in Conns : LiveWriter(v) /\ LiveWriter(w) => v = w
  /\ \A w \in Conns, h \in Handlers : ~(LiveWriter(w) /\ Redialling(h))

\* At most one handleUnregistration at a time dials for a session, so a client
\* never gets two replacement connections for one failure: inc_manager.go:297-324.
SingleRedial ==
  \A g, h \in Handlers : Redialling(g) /\ Redialling(h) => g = h

\* While a live session is between two backend connections its reader forwards
\* nothing: the write lock that reinitUpstream took is held until resume gives
\* it back: inc.go:40-41, 146-151, 257-258.
ReaderHeldBack ==
  ~shutting => \A h \in Handlers : Redialling(h) => reinit /\ bkLock = "held" /\ ~BkReader

\* Only a session that is being closed can take the process down: as long as
\* nobody closes it, resume always finds the lock that reinitUpstream took.
CrashOnlyWhenClosing == crashed => shutting

\* No client message reaches the backends twice, whatever connection it is sent
\* or re-sent on (send channel, cache of unsent messages, cache hand-over).
AtMostOnce ==
  \A c, d \in Conns : \A i \in DOMAIN delivered[c], j \in DOMAIN delivered[d] :
     delivered[c][i] = delivered[d][j] => c = d /\ i = j

\* Every backend connection receives the client's messages in the order the
\* client sent them, those handed over in the cache included.
InOrder ==
  \A c \in Conns : \A i, j \in DOMAIN delivered[c] :
     i < j => delivered[c][i] < delivered[c][j]

\* The manager never goes back to an earlier backend connection of a session, whatever
\* handlers overlap: what addClient puts into its map is the connection dialled last
\* (inc_manager.go:323-329, 354-365), also when it puts a session in anew that another
\* handler has removed.
MapMovesForward == [][mapped' = 0 \/ mapped' = dialled]_mapped

\* A backend connection is given up only for its own failure: the FE writer that was
\* started for connection w asks for another one only because w has failed, and never
\* because of a late report of an earlier one (outc.go:195-220, inc.go:210-222).  An
\* administrator's failover is the exception: it does not wait for the report of the
\* connection that it replaces, and the next FE writer may read it (inc.go:157-168).
OwnFailureOnly ==
  [][\A w \in Conns :
       /\ wpc[w] = "select" /\ wpc'[w] = "cas" /\ receive' # receive
       /\ \A a \in Admins : apc[a] = "idle"
       => Head(receive).id = w]_wpc

\* The client's messages are relayed as Relay promises: accepted in order and
\* delivered at most once, in order on every connection.
RelayOf == INSTANCE Relay WITH accepted <- sent
KeepsRelayPromise == RelayOf!Spec

-----------------------------------------------------------------------------
(* Why they hold.  A session has one token: the FE writer, then the entry it *)
(* puts into mgr.unregister, then the handler started for it, then the FE    *)
(* writer that the handler's resume spawns.  Only an FE reader that has      *)
(* already closed the session adds a second entry.                           *)

\* A handler that has not yet looked whether the client is active.
Deciding(h) == hpc[h] \in {"exists", "active"}

\* A handler that has a new connection for the session in hand.
Reattaching(h) == hpc[h] \in {"add", "resume", "resumeWait"}

\* Nothing has happened before feCon.Start().
QuietBeforeStart ==
  ~Started =>
    /\ rpc = "idle" /\ writers = 0 /\ unregister = 0 /\ ~reinit /\ bkLock = "free"
    /\ \A w \in Conns : wpc[w] = "idle"
    /\ \A h \in Handlers : hpc[h] = "idle"

\* Close marks the session before anything else, and the reader unregisters it
\* only after that.
ClosedBeforeUnregister ==
  /\ closeStep # "none" => shutting
  /\ rpc \in {"unregister", "end"} => shutting

\* The token of a live session is in one place.
OneToken ==
  ~shutting =>
    /\ unregister <= 1
    /\ unregister = 1 => /\ \A w \in Conns : ~LiveWriter(w)
                         /\ \A h \in Handlers : ~Deciding(h) /\ ~Redialling(h)
    /\ \A g, h \in Handlers : Deciding(g) /\ Deciding(h) => g = h
    /\ \A h \in Handlers : Deciding(h) => /\ \A w \in Conns : ~LiveWriter(w)
                                          /\ \A g \in Handlers : ~Redialling(g)

\* There is an idle writer slot, and a connection, for every writer to come.
WriterSlots ==
  /\ \A w \in Conns : w > writers => wpc[w] = "idle"
  /\ writers <= dialled
  /\ \A h \in Handlers : Reattaching(h) => writers < dialled

\* What the holder of a live session's token knows of bkConnectionLock.
TokenLock ==
  /\ bkLock = "held" => ~BkReader
  /\ ~shutting =>
       /\ \A w \in Conns :
            /\ wpc[w] \in {"select", "cas", "close"} => ~reinit /\ bkLock = "free"
            /\ wpc[w] = "lock" => reinit /\ bkLock = "free"
            /\ wpc[w] = "lockWait" => reinit /\ bkLock = "waiting"
            /\ wpc[w] = "unregister" => reinit /\ bkLock = "held"
       /\ unregister > 0 => reinit /\ bkLock = "held"
       /\ \A h \in Handlers : Deciding(h) \/ Redialling(h) => reinit /\ bkLock = "held"

\* The inductive invariant behind SingleWriter, SingleRedial, ReaderHeldBack and
\* CrashOnlyWhenClosing: inc.go:107-154, 282-291 with inc_manager.go:297-324.
TokenInv ==
  /\ SingleWriter /\ SingleRedial /\ CrashOnlyWhenClosing
  /\ QuietBeforeStart /\ ClosedBeforeUnregister /\ OneToken /\ WriterSlots /\ TokenLock


\* A handler that has dialled a connection and has not started it yet.
Bringing(h) == hpc[h] \in {"add", "resume", "resumeWait", "start"}

\* A connection is started once, by the goroutine that dialled it, and addClient
\* gets the newest one (inc_manager.go:312-324): an old one never comes back.
ConnInv ==
  /\ spc # "end" => owpc[1] = "idle"
  /\ \A c \in Conns : c > dialled => owpc[c] = "idle"
  /\ \A h \in Handlers : Bringing(h) => /\ hcon[h] \in 2..dialled
                                       /\ owpc[hcon[h]] = "idle"
  /\ \A g, h \in Handlers : Bringing(g) /\ Bringing(h) /\ hcon[g] = hcon[h] => g = h
  /\ \A h \in Handlers : hpc[h] = "add" => hcon[h] = dialled
  /\ mapped <= dialled
  /\ registering => spc # "register"
  /\ spc = "register" \/ registering =>
       mapped = 0 /\ dialled = 1 /\ \A h \in Handlers : hpc[h] \in {"idle", "exists"}

-----------------------------------------------------------------------------
(* A client message is in one place: with the reader, in the send channel,   *)
(* with one of the connections (cache, or in the BE writer's hand), received *)
(* by one of the backends, or lost.                                          *)

\* The numbers in s rise, those in set M are smaller than those in set N.
Rising(s) == \A i, j \in DOMAIN s : i < j => s[i] < s[j]
Before(M, N) == \A m \in M, n \in N : m < n

\* The client's messages in a channel.
DataIn(q) == {q[i].id : i \in {k \in DOMAIN q : q[k].type = "data"}}
RisingData(q) ==
  \A i, j \in DOMAIN q : i < j /\ q[i].type = "data" /\ q[j].type = "data" => q[i].id < q[j].id

\* The messages that the FE reader no longer holds.
Passed == {n \in 1..sent : rpc \in {"lock", "sendData"} => n < sent}

Unsent(c) == ToSet(cache[c]) \cup ToSet(flush[c])
Received(c) == ToSet(delivered[c])
With(c) == Unsent(c) \cup Received(c)

\* The channel holds the newest of the messages that were passed on, in order.
ChannelInOrder ==
  /\ RisingData(send) /\ DataIn(send) \subseteq Passed
  /\ rpc \in {"lock", "sendData"} => sent > 0
  /\ \A c \in Conns : With(c) \subseteq Passed /\ Before(With(c), DataIn(send))

\* Connection c has its messages in order, and those that its BE writer still
\* sends follow those it has sent.
OrderedOn(c) ==
  /\ Rising(cache[c]) /\ Rising(flush[c]) /\ Rising(delivered[c])
  /\ Before(ToSet(cache[c]), ToSet(flush[c]))
  /\ owpc[c] = "flush" => Before(Received(c), ToSet(flush[c]))

\* What the BE writer of c has, by where it is.
WriterHolds(c) ==
  /\ owpc[c] \in {"flush", "select"} => cache[c] = <<>>
  /\ owpc[c] \notin {"flush", "notify"} => flush[c] = <<>>
  /\ owpc[c] \in {"idle", "clear"} => delivered[c] = <<>>

\* A message is with one connection, and either sent or unsent.
OnePlace(c) ==
  /\ Unsent(c) \cap Received(c) = {}
  /\ \A d \in Conns \ {c} : With(c) \cap With(d) = {}

\* The inductive invariant behind AtMostOnce, InOrder and KeepsRelayPromise:
\* outc.go's writer and cache, newOutc's hand-over, and inc.go:248-265.
MessageInv == ChannelInOrder /\ \A c \in Conns : OrderedOn(c) /\ WriterHolds(c) /\ OnePlace(c)

-----------------------------------------------------------------------------
(* Progress.                                                                *)

\* Connection c serves a registered session and has broken, which its own
\* goroutines have not reported yet.
Broken(c) == mapped = c /\ link[c] = "lost" /\ notify[c] = "none"

\* The reader of a closed session: it ends, unless it finds the send channel full
\* and the writer that would drain it gone (inc.go:253), or the process is down.
ReaderDone == rpc = "end" \/ crashed \/ (rpc = "sendNormal" /\ ~HasRoom(send))

\* It has a newer connection and its reader is free again, or it was closed because
\* no backend would take it, and then its reader does not stay locked out.
Healed(c) ==
  \/ mapped > c /\ ~reinit /\ bkLock = "free"
  \/ closeStep = "returned" /\ ReaderDone

\* The reader sits on bkConnectionLock, waiting for room in the send channel.
HeldUp == rpc = "sendData" /\ ~HasRoom(send)

\* A session whose backend connection breaks is healed, or closed.  The one way
\* to fail is a reader that waits for ever for the dead connection to take a
\* message (inc.go:257-262), with the lock that reinitUpstream needs.
BrokenLinkIsHealed == (\A c \in Conns : Broken(c) ~> Healed(c)) \/ <>[]HeldUp

\* The manager has taken the session's unregistration, for a reconnection, before its
\* registration: the select of its loop may (inc_manager.go:268-275).
ServedLate == registering /\ \E h \in Handlers : hpc[h] = "exists"

\* A registered session that has, or is getting, a backend connection when its client
\* leaves is taken out of mgr.clients, so that listeners see SessionTerminated,
\* whatever failure and reconnection goes on (unless that takes the process down, the
\* reader is held up, or the session was registered too late to be reconnected).
LeavingEndsSession ==
  \/ (~clientUp /\ mapped # 0 /\ rpc # "end") ~> (mapped = 0 \/ crashed)
  \/ <>[]HeldUp
  \/ <>ServedLate

-----------------------------------------------------------------------------
(* What the documentation says of the program, and the code does not do.    *)

\* README.md:52-59 offers "terminate a session" and "forceful failover" without
\* downtime: closing a session does not take the balancer down.
ProcessSurvives == ~crashed

\* common/contract.go:79-81: unsent messages of the old connection MUST be sent
\* first on the new one, so none stays behind in the cache of a replaced one.
UnsentHandedOver == \A c \in Conns : c < dialled => cache[c] = <<>>

\* README.md:45-50: after an abnormal termination "the frontend tries to make
\* another connection" and, if there is one, "keeps on tunneling" to it.
FailoverCompletes == \A c \in Conns : Broken(c) ~> Healed(c)

\* An administrator's failover of the registered session is through, and the
\* NormalClosure it queued has made the BE writer of c, which had reported no
\* failure of its own, close c, the connection that serves the session.
ClosedByFailover(c) ==
  /\ \E a \in Admins : apc[a] = "end"
  /\ mapped = c /\ link[c] = "shut" /\ notify[c] = "none" /\ conOpen

\* common/contract.go:338-342: on an administrative failover the backend connection
\* terminates "while frontend attempt a new backend connection".  So a session whose
\* connection it has closed gets another, or its client is disconnected.
ClosedLinkIsReplaced ==
  \A c \in Conns : ClosedByFailover(c) ~> (mapped # c \/ ~conOpen)

=============================================================================
