------------------------------ MODULE Registry ------------------------------
(***************************************************************************)
(* The frontend manager of in/inc_manager.go with several sessions: its map *)
(* of clients, the loop that serves the register and unregister channels,   *)
(* the handlers it starts, the session listeners (inst/prometheus.go), Stop *)
(* and the administration of in/admin.go, here against the pool of backends *)
(* that sessions are dialled to and that backends are deleted from.         *)
(*                                                                         *)
(* A session's goroutines are cut down to what the manager sees of them:    *)
(* Session has the details.  A dial takes its list of backends in one step  *)
(* and connects to one of them in another; BackendPool has the details.     *)
(***************************************************************************)
EXTENDS Integers, Sequences, FiniteSets

CONSTANTS
  Sessions,
  Backends,
  Edited,       \* bound: the backends that administrators delete or fail over
  Handlers,     \* handleUnregistration goroutines alive at one time
  QueueCap,     \* capacity of mgr.register and mgr.unregister (100 in the code)
  MaxFaults     \* bound: backend connections that break, backends deleted or failed over

None == "none"

ASSUME RegistryAssumption ==
  /\ IsFiniteSet(Sessions) /\ IsFiniteSet(Backends) /\ Sessions \cap Handlers = {}
  /\ Edited \subseteq Backends /\ None \notin Backends
  /\ QueueCap \in Nat \ {0} /\ MaxFaults \in Nat

VARIABLES
  \* --- ServeWs
  spc, con,      \* program counter; backend that it is connected to
  offer,         \* backends in the list of a dial in flight
  \* --- the manager
  register, unregister,   \* contents of the channels
  looping,       \* the loop has not been stopped
  clients,       \* backend of a registered session's connection, None if absent
  gauge,         \* active_sessions as the listeners were told
  hpc, hses,     \* handler: program counter, session
  ghosts,        \* history: sessions found absent as register still has them
  \* --- the sessions
  writer,        \* the FE writer: "idle", "running", "gone"
  reader,        \* the FE reader: "idle", "running", "gone"
  closing,       \* inc.Close: "no", "begun" (shuttingDown), "done"
  jammed,        \* doneLock is held by a goroutine blocked on the nil inc.done
  \* --- deletion of backends
  deleted,
  apc, toAbort,  \* abortAllBackendConnections for a deleted backend
  missed,        \* sessions that it cannot move: see AbortLook and AbortOne
  blocked,       \* sessions with an abortBackend blocked on inc.send, in doneLock
  \* --- Stop
  stpc, toClose,          \* program counter, or the session that Stop closes
  faults, crashed

serveVars   == <<spc, con>>
queues      == <<register, unregister, looping>>
mapVars     == <<clients, gauge>>
handlerVars == <<hpc, hses, ghosts>>
feVars      == <<writer, reader, closing, jammed>>
deleteVars  == <<deleted, apc, toAbort, missed, blocked>>
stopVars    == <<stpc, toClose>>
vars == <<serveVars, offer, queues, mapVars, handlerVars, feVars, deleteVars,
          stopVars, faults, crashed>>

TypeOK ==
  /\ spc \in [Sessions -> {"idle", "dial", "start", "served", "refused"}]
  /\ con \in [Sessions -> Backends \cup {None}]
  /\ offer \in [Sessions \cup Handlers -> SUBSET Backends]
  /\ register \in Seq(Sessions) /\ Len(register) <= QueueCap
  /\ unregister \in Seq(Sessions) /\ Len(unregister) <= QueueCap
  /\ looping \in BOOLEAN
  /\ clients \in [Sessions -> Backends \cup {None}]
  /\ gauge \in [Backends -> Int]
  /\ hpc \in [Handlers -> {"idle", "exists", "active", "dial", "resume", "waiting", "close"}]
  /\ hses \in [Handlers -> Sessions \cup {None}]
  /\ ghosts \subseteq Sessions
  /\ writer \in [Sessions -> {"idle", "running", "gone"}]
  /\ reader \in [Sessions -> {"idle", "running", "gone"}]
  /\ closing \in [Sessions -> {"no", "begun", "done"}] /\ jammed \in [Sessions -> BOOLEAN]
  /\ deleted \subseteq Backends
  /\ apc \in [Backends -> {"idle", "look", "abort", "stuck", "end"}]
  /\ toAbort \in [Backends -> SUBSET Sessions] /\ missed \in [Backends -> SUBSET Sessions]
  /\ blocked \subseteq Sessions
  /\ stpc \in {"idle", "next", "end"} \cup Sessions /\ toClose \subseteq Sessions
  /\ faults \in 0..MaxFaults /\ crashed \in BOOLEAN

Init ==
  /\ spc = [s \in Sessions |-> "idle"] /\ con = [s \in Sessions |-> None]
  /\ offer = [d \in Sessions \cup Handlers |-> {}]
  /\ register = <<>> /\ unregister = <<>> /\ looping = TRUE
  /\ clients = [s \in Sessions |-> None] /\ gauge = [b \in Backends |-> 0]
  /\ hpc = [h \in Handlers |-> "idle"] /\ hses = [h \in Handlers |-> None]
  /\ ghosts = {}
  /\ writer = [s \in Sessions |-> "idle"] /\ reader = [s \in Sessions |-> "idle"]
  /\ closing = [s \in Sessions |-> "no"] /\ jammed = [s \in Sessions |-> FALSE]
  /\ deleted = {} /\ apc = [b \in Backends |-> "idle"]
  /\ toAbort = [b \in Backends |-> {}] /\ missed = [b \in Backends |-> {}]
  /\ blocked = {}
  /\ stpc = "idle" /\ toClose = {} /\ faults = 0 /\ crashed = FALSE

-----------------------------------------------------------------------------
(* The map of clients and its listeners, under ctsLock.                     *)

Registered(s) == clients[s] # None

ToBeRegistered(s) == \E i \in DOMAIN register : register[i] = s

\* What a call of a listener about a connection to b counts for c's gauge.
Told(c, b) == IF c = b THEN 1 ELSE 0

\* Mutant: the connection that is replaced is not reported.
addClientUnreported(s, b) ==
  /\ clients' = [clients EXCEPT ![s] = b]
  /\ gauge' = [c \in Backends |-> gauge[c] + Told(c, b)]

\* addClient: a listener hears that the old connection's session terminated and
\* that the new one's was created.
addClient(s, b) ==
  /\ clients' = [clients EXCEPT ![s] = b]
  /\ gauge' = [c \in Backends |-> gauge[c] + Told(c, b) - Told(c, clients[s])]

\* removeClient, which may find the session removed already.
removeClient(s) ==
  /\ clients' = [clients EXCEPT ![s] = None]
  /\ gauge' = [c \in Backends |-> gauge[c] - Told(c, clients[s])]

-----------------------------------------------------------------------------
(* ServeWs.                                                                 *)

ServeGoto(s, from, to) ==
  /\ spc[s] = from
  /\ spc' = [spc EXCEPT ![s] = to]
  /\ UNCHANGED <<handlerVars, deleteVars, stopVars, faults, crashed>>

\* The dial takes its list of backends.  A paused frontend, and a request that is
\* none for a websocket, is answered at once: as if the client did not come.
ServeDial(s) ==
  /\ ServeGoto(s, "idle", "dial")
  /\ offer' = [offer EXCEPT ![s] = Backends \ deleted]
  /\ UNCHANGED <<con, queues, mapVars, feVars>>

\* No backend takes the connection, or the client's request cannot be upgraded.
ServeRefuses(s) ==
  /\ ServeGoto(s, "dial", "refused")
  /\ offer' = [offer EXCEPT ![s] = {}]
  /\ UNCHANGED <<con, queues, mapVars, feVars>>

\* One of the backends in the list takes it, the request is upgraded, and
\* mgr.register <- session.
ServeRegister(s) ==
  /\ ServeGoto(s, "dial", "start")
  /\ Len(register) < QueueCap
  /\ \E b \in offer[s] : con' = [con EXCEPT ![s] = b]
  /\ offer' = [offer EXCEPT ![s] = {}]
  /\ register' = Append(register, s)
  /\ UNCHANGED <<unregister, looping, mapVars, feVars>>

\* feCon.Start needs doneLock for writing.
ServeStart(s) ==
  /\ ~jammed[s]
  /\ ServeGoto(s, "start", "served")
  /\ writer' = [writer EXCEPT ![s] = "running"]
  /\ reader' = [reader EXCEPT ![s] = "running"]
  /\ UNCHANGED <<con, offer, queues, mapVars, closing, jammed>>

ServeRuns(s) == ServeRefuses(s) \/ ServeRegister(s) \/ ServeStart(s)

-----------------------------------------------------------------------------
(* What a session's goroutines do to the manager.                           *)

Started(s) == spc[s] = "served"

sessionOnly == <<serveVars, offer, register, looping, mapVars, handlerVars, deleteVars,
                 stopVars, crashed>>

\* resume waits for doneLock behind an abortBackend that waits for the connection
\* that is only started after resume: for ever, and so does every later reader.
ResumeWaits(s) == \E h \in Handlers : hses[h] = s /\ hpc[h] = "waiting"

\* inc.Close, whoever calls it first.  Before feCon.Start its inc.done <- false
\* blocks for ever, with doneLock read-locked.
CloseBegin(s) ==
  /\ closing[s] = "no"
  /\ closing' = [closing EXCEPT ![s] = "begun"]
  /\ jammed' = [jammed EXCEPT ![s] = @ \/ ~Started(s)]
  /\ UNCHANGED <<writer, reader>>

\* Mutant: inc.done has no buffer, so that its reader must still be there.
CloseFinishUnbuffered(s) ==
  /\ closing[s] = "begun" /\ ~jammed[s] /\ ~ResumeWaits(s) /\ writer[s] = "running"
  /\ closing' = [closing EXCEPT ![s] = "done"]
  /\ UNCHANGED <<sessionOnly, unregister, writer, reader, jammed, faults>>

CloseFinish(s) ==
  /\ closing[s] = "begun" /\ ~jammed[s] /\ ~ResumeWaits(s)
  /\ closing' = [closing EXCEPT ![s] = "done"]
  /\ UNCHANGED <<sessionOnly, unregister, writer, reader, jammed, faults>>

\* The FE writer of a closing session ends.
WriterEnds(s) ==
  /\ writer[s] = "running" /\ closing[s] # "no"
  /\ writer' = [writer EXCEPT ![s] = "gone"]
  /\ UNCHANGED <<sessionOnly, unregister, reader, closing, jammed, faults>>

\* reinitUpstream asks the manager for another backend connection.
reinitUpstream(s) ==
  /\ writer[s] = "running" /\ Len(unregister) < QueueCap
  /\ writer' = [writer EXCEPT ![s] = "gone"]
  /\ unregister' = Append(unregister, s)
  /\ UNCHANGED <<reader, closing, jammed>>

\* Mutant: the channel has no bound.
ReaderUnregisterUnbounded(s) ==
  /\ reader[s] = "running" /\ closing[s] = "done"
  /\ reader' = [reader EXCEPT ![s] = "gone"]
  /\ unregister' = Append(unregister, s)
  /\ UNCHANGED <<sessionOnly, writer, closing, jammed, faults>>

\* Mutant: the reader forgets to close the session when the client has left.
ReaderUnregisterUnclosed(s) ==
  /\ reader[s] = "running" /\ Len(unregister) < QueueCap
  /\ reader' = [reader EXCEPT ![s] = "gone"]
  /\ unregister' = Append(unregister, s)
  /\ UNCHANGED <<sessionOnly, writer, closing, jammed, faults>>

\* The FE reader of a closed session hands it to the manager.
ReaderUnregister(s) ==
  /\ reader[s] = "running" /\ closing[s] = "done" /\ Len(unregister) < QueueCap
  /\ reader' = [reader EXCEPT ![s] = "gone"]
  /\ unregister' = Append(unregister, s)
  /\ UNCHANGED <<sessionOnly, writer, closing, jammed, faults>>

SessionRuns(s) == CloseFinish(s) \/ WriterEnds(s) \/ ReaderUnregister(s)

\* The client leaves, the backend closes normally, or an administrator aborts
\* the session, which he finds in clients.
SessionCloses(s) ==
  /\ Started(s) \/ Registered(s)
  /\ CloseBegin(s)
  /\ UNCHANGED <<sessionOnly, unregister, faults>>

\* The session's backend connection breaks.
BackendBreaks(s) ==
  /\ faults < MaxFaults
  /\ faults' = faults + 1
  /\ reinitUpstream(s)
  /\ UNCHANGED sessionOnly

-----------------------------------------------------------------------------
(* The loop, until Stop ends it, and the handlers.                          *)

loopOnly == <<serveVars, offer, feVars, deleteVars, stopVars, faults, crashed>>

LoopRegister ==
  /\ looping /\ register # <<>>
  /\ addClient(Head(register), con[Head(register)])
  /\ register' = Tail(register)
  /\ UNCHANGED <<loopOnly, unregister, looping, handlerVars>>

LoopUnregister ==
  /\ looping /\ unregister # <<>>
  /\ \E h \in Handlers :
       /\ hpc[h] = "idle"
       /\ hpc' = [hpc EXCEPT ![h] = "exists"]
       /\ hses' = [hses EXCEPT ![h] = Head(unregister)]
  /\ unregister' = Tail(unregister)
  /\ UNCHANGED <<loopOnly, register, looping, mapVars, ghosts>>

HandlerGoto(h, from, to) ==
  /\ hpc[h] = from
  /\ hpc' = [hpc EXCEPT ![h] = to]
  /\ UNCHANGED <<serveVars, queues, deleteVars, stopVars, faults>>

HandlerEnds(h, from) ==
  /\ HandlerGoto(h, from, "idle")
  /\ hses' = [hses EXCEPT ![h] = None]

HandlerExists(h) ==
  /\ hpc[h] = "exists"
  /\ IF Registered(hses[h])
       THEN HandlerGoto(h, "exists", "active") /\ UNCHANGED <<hses, ghosts>>
       ELSE /\ HandlerEnds(h, "exists")
            /\ ghosts' = IF ToBeRegistered(hses[h]) THEN ghosts \cup {hses[h]} ELSE ghosts
  /\ UNCHANGED <<offer, mapVars, feVars, crashed>>

\* isClientActive: a closed session shall be closed and removed, another one gets
\* a new connection, from a list of backends taken before the dial.
HandlerActive(h) ==
  /\ HandlerGoto(h, "active", IF closing[hses[h]] # "no" THEN "close" ELSE "dial")
  /\ offer' = [offer EXCEPT ![h] = IF closing[hses[h]] # "no" THEN {} ELSE Backends \ deleted]
  /\ UNCHANGED <<ghosts, mapVars, hses, feVars, crashed>>

\* No backend takes the connection: client.Close().
HandlerDialFails(h) ==
  /\ HandlerGoto(h, "dial", "close")
  /\ IF closing[hses[h]] = "no" THEN CloseBegin(hses[h]) ELSE UNCHANGED feVars
  /\ offer' = [offer EXCEPT ![h] = {}]
  /\ UNCHANGED <<ghosts, mapVars, hses, crashed>>

\* client.Close() returns.
HandlerRemove(h) ==
  /\ HandlerEnds(h, "close")
  /\ closing[hses[h]] = "done"
  /\ removeClient(hses[h])
  /\ UNCHANGED <<ghosts, offer, feVars, crashed>>

\* One of the backends in the list takes it.
HandlerAdd(h) ==
  /\ HandlerGoto(h, "dial", "resume")
  /\ \E b \in offer[h] : addClient(hses[h], b)
  /\ offer' = [offer EXCEPT ![h] = {}]
  /\ UNCHANGED <<ghosts, hses, feVars, crashed>>

\* doneLock.Lock() of resume finds an abortBackend in it.
HandlerResumeWaits(h) ==
  /\ HandlerGoto(h, "resume", "waiting")
  /\ hses[h] \in blocked
  /\ UNCHANGED <<ghosts, offer, mapVars, hses, feVars, crashed>>

\* resume: after a Close that found the session reconnecting, its Unlock is the
\* second one, a fatal error.
HandlerResume(h) ==
  /\ HandlerEnds(h, "resume")
  /\ hses[h] \notin blocked
  /\ crashed' = (closing[hses[h]] = "done")
  /\ writer' = [writer EXCEPT ![hses[h]] = "running"]
  /\ UNCHANGED <<ghosts, offer, mapVars, reader, closing, jammed>>

HandlerRuns(h) ==
  \/ HandlerExists(h) \/ HandlerActive(h) \/ HandlerDialFails(h) \/ HandlerRemove(h)
  \/ HandlerAdd(h) \/ HandlerResumeWaits(h) \/ HandlerResume(h)

-----------------------------------------------------------------------------
(* A backend is deleted, or failed over: abortAllBackendConnections.        *)

deleteOnly == <<serveVars, offer, queues, mapVars, handlerVars, feVars, stopVars, crashed,
                blocked>>

\* Bounds: a request for backend b comes when no earlier one runs, or when that one
\* is stuck for ever: then it is for a deletion, which is no fault more.
Request(b) ==
  /\ b \notin deleted
  /\ \/ apc[b] = "idle" /\ faults < MaxFaults /\ faults' = faults + 1
     \/ apc[b] = "stuck" /\ UNCHANGED faults

\* Mutant: the goroutine is started first and may look before the backend leaves.
DeleteBackendLate(b) ==
  /\ \/ /\ Request(b)
        /\ apc' = [apc EXCEPT ![b] = "look"]
        /\ UNCHANGED deleted
     \/ /\ apc[b] = "abort" /\ b \notin deleted
        /\ deleted' = deleted \cup {b}
        /\ UNCHANGED <<apc, faults>>
  /\ UNCHANGED <<deleteOnly, toAbort, missed>>

\* deleteBackendHandler: the backend leaves the pool, and only then does a
\* goroutine abort its connections.
DeleteBackend(b) ==
  /\ Request(b)
  /\ deleted' = deleted \cup {b}
  /\ apc' = [apc EXCEPT ![b] = "look"]
  /\ UNCHANGED <<deleteOnly, toAbort, missed>>

\* failoverBackendHandler
FailoverBackend(b) ==
  /\ Request(b) /\ apc[b] = "idle"
  /\ apc' = [apc EXCEPT ![b] = "look"]
  /\ UNCHANGED <<deleteOnly, deleted, toAbort, missed>>

\* Session s has a connection to b that clients does not show yet, or may get
\* one from a dial that has b in its list.
OnTheWay(s, b) ==
  \/ b \in offer[s]
  \/ con[s] = b /\ ToBeRegistered(s)
  \/ \E h \in Handlers : hses[h] = s /\ b \in offer[h]

\* The matching sessions are collected with ctsLock read-locked.
AbortLook(b) ==
  /\ apc[b] = "look"
  /\ apc' = [apc EXCEPT ![b] = "abort"]
  /\ toAbort' = [toAbort EXCEPT ![b] = {s \in Sessions : clients[s] = b}]
  /\ missed' = [missed EXCEPT ![b] = {s \in Sessions : OnTheWay(s, b)}]
  /\ UNCHANGED <<deleteOnly, deleted, faults>>

\* abortBackend: one of them is told to reconnect.  One whose FE writer has gone does not hear
\* it; its message goes to the connection that is being made for it (MCSession's
\* abort run), so that it stays with whatever backend that leads to.
AbortOne(b) ==
  /\ apc[b] = "abort"
  /\ \E s \in toAbort[b] :
       /\ Started(s) /\ s \notin blocked
       /\ toAbort' = [toAbort EXCEPT ![b] = @ \ {s}]
       /\ \/ reinitUpstream(s) /\ UNCHANGED missed
          \/ /\ writer[s] = "gone" \/ closing[s] # "no"
             /\ missed' = [missed EXCEPT ![b] = @ \cup {s}]
             /\ UNCHANGED <<unregister, feVars>>
  /\ UNCHANGED <<serveVars, offer, register, looping, mapVars, handlerVars, stopVars, crashed,
                 deleted, apc, blocked, faults>>

\* ... and then blocks on inc.send, where that is full of client messages and has no
\* BE writer to take them: its connection is dead, its session is between two
\* connections, or ends.  (What a living connection still takes is AbortOne.)
AbortBlocks(b) ==
  /\ apc[b] = "abort"
  /\ \E s \in toAbort[b] :
       /\ Started(s) /\ ~ResumeWaits(s)
       /\ blocked' = blocked \cup {s}
       /\ \/ reinitUpstream(s)
          \/ (writer[s] = "gone" \/ closing[s] # "no") /\ UNCHANGED <<unregister, feVars>>
  /\ apc' = [apc EXCEPT ![b] = "stuck"]
  /\ UNCHANGED <<serveVars, offer, register, looping, mapVars, handlerVars, stopVars, crashed,
                 deleted, toAbort, missed, faults>>

\* It blocks for ever on the nil channel of one that is not started, and on the
\* doneLock of one that will never be resumed.
AbortStuck(b) ==
  /\ apc[b] = "abort"
  /\ \E s \in toAbort[b] :
       /\ ~Started(s) \/ ResumeWaits(s)
       /\ jammed' = [jammed EXCEPT ![s] = ~Started(s)]
  /\ apc' = [apc EXCEPT ![b] = "stuck"]
  /\ UNCHANGED <<serveVars, offer, queues, mapVars, handlerVars, stopVars, crashed, writer,
                 reader, closing, deleted, toAbort, missed, blocked, faults>>

AbortEnds(b) ==
  /\ apc[b] = "abort" /\ toAbort[b] = {}
  /\ apc' = [apc EXCEPT ![b] = IF b \in deleted THEN "end" ELSE "idle"]
  /\ UNCHANGED <<deleteOnly, deleted, toAbort, missed, faults>>

AbortRuns(b) ==
  AbortLook(b) \/ AbortOne(b) \/ AbortBlocks(b) \/ AbortStuck(b) \/ AbortEnds(b)

-----------------------------------------------------------------------------
(* Stop: close every session of the map, one after the other, then the loop. *)

stopOnly == <<serveVars, offer, register, unregister, mapVars, handlerVars, deleteVars,
              faults, crashed>>

StopBegin ==
  /\ stpc = "idle"
  /\ stpc' = "next"
  /\ toClose' = {s \in Sessions : Registered(s)}
  /\ UNCHANGED <<stopOnly, looping, feVars>>

StopClose ==
  /\ stpc = "next"
  /\ \E s \in toClose :
       /\ stpc' = s
       /\ toClose' = toClose \ {s}
       /\ IF closing[s] = "no" THEN CloseBegin(s) ELSE UNCHANGED feVars
  /\ UNCHANGED <<stopOnly, looping>>

StopClosed ==
  /\ stpc \in Sessions /\ closing[stpc] = "done"
  /\ stpc' = "next"
  /\ UNCHANGED <<stopOnly, looping, feVars, toClose>>

\* mgr.done is unbuffered: Stop and the loop meet.
StopLoop ==
  /\ stpc = "next" /\ toClose = {} /\ looping
  /\ looping' = FALSE
  /\ stpc' = "end"
  /\ UNCHANGED <<stopOnly, feVars, toClose>>

StopRuns == StopClose \/ StopClosed \/ StopLoop

-----------------------------------------------------------------------------
Environment ==
  \/ \E s \in Sessions : ServeDial(s) \/ SessionCloses(s) \/ BackendBreaks(s)
  \/ \E b \in Edited : DeleteBackend(b) \/ FailoverBackend(b)
  \/ StopBegin

Balancer ==
  \/ \E s \in Sessions : ServeRuns(s) \/ SessionRuns(s)
  \/ LoopRegister \/ LoopUnregister
  \/ \E h \in Handlers : HandlerRuns(h)
  \/ \E b \in Backends : AbortRuns(b)
  \/ StopRuns

Next == ~crashed /\ (Environment \/ Balancer)

Spec == Init /\ [][Next]_vars

-----------------------------------------------------------------------------
(* Properties.  The balancer takes finitely many steps for each of its       *)
(* environment's, so what must happen in the end has happened when there is  *)
(* nothing left that it could do.                                            *)

Quiescent == ~crashed /\ ~ENABLED Balancer

\* A goroutine is blocked for ever on the nil inc.done of a session that was
\* found in clients before ServeWs had started it.
Jammed == \E s \in Sessions : jammed[s]

\* The gauge of active sessions that the listeners keep is the number of
\* sessions that clients maps to the backend, through failovers that overlap
\* closing and removal: inc_manager.go:341-365, prometheus.go:61-75.
GaugeCounts == \A b \in Backends : gauge[b] = Cardinality({s \in Sessions : clients[s] = b})

\* The manager is to give session s another backend connection, or to remove it.
Leaving(s) ==
  \/ \E i \in DOMAIN unregister : unregister[i] = s
  \/ \E h \in Handlers : hses[h] = s /\ hpc[h] \in {"exists", "active", "dial", "close"}

\* At any time, a session that has a deleted backend is still to be looked for or to be
\* told, or has been told and is with the manager; but for those whose connection
\* was on its way, or being replaced, when abortAllBackendConnections came by:
\* admin.go:144-158, inc_manager.go:367-400.
DeletedIsBeingLeft ==
  \A b \in deleted, s \in Sessions :
    clients[s] = b => \/ apc[b] = "look"
                      \/ apc[b] \in {"abort", "stuck"} /\ s \in toAbort[b]
                      \/ s \in missed[b]
                      \/ Leaving(s)

\* Every session leaves a deleted backend, for another one or for good, but for
\* those whose connection to it was on its way into clients, or was being replaced,
\* when abortAllBackendConnections came by, and those that it, which "aborts ALL"
\* (inc_manager.go:367), did not come to, as it is blocked for ever at another
\* session: admin.go:144-147.
DeletedIsLeft ==
  Quiescent /\ looping =>
    \A b \in deleted, s \in Sessions :
      clients[s] = b => \/ s \in missed[b] \cup ghosts
                        \/ apc[b] = "stuck" /\ s \in toAbort[b]

\* Nothing of a session that was started is at work any more.
Settled(s) ==
  /\ Started(s) /\ reader[s] = "gone" /\ writer[s] = "gone" /\ closing[s] = "done"
  /\ \A i \in DOMAIN unregister : unregister[i] # s
  /\ \A h \in Handlers : hses[h] # s

\* A closed session whose handlers have all ended is not in clients, whatever
\* order they came in: inc_manager.go:297-352.  Two can be: one whose entry in
\* unregister was served before the one in register (the loop's select chooses),
\* and one that is put back after its removal by a handler that then crashes.
SettledIsRemoved ==
  \A s \in Sessions : Settled(s) /\ Registered(s) => s \in ghosts \/ crashed

\* No Close of session s returns any more, with its doneLock lost for ever.
Held(s) == jammed[s] \/ ResumeWaits(s)

\* Stop returns, however many sessions are being dialled, failed over or closed
\* meanwhile, unless it comes to one whose doneLock is lost: to a Close on the nil
\* inc.done of a session that is not started, or to a resume behind an abortBackend
\* that is blocked on inc.send: inc_manager.go:284-295, inc.go:108-113, 143-168.
StopReturns ==
  Quiescent /\ stpc # "idle" => stpc = "end" \/ (stpc \in Sessions /\ Held(stpc))

=============================================================================
