---------------------------- MODULE SessionState ----------------------------
(***************************************************************************)
(* The state of ONE websocket balancer session: the incoming (frontend)    *)
(* connection `inc` of in/inc.go, the outgoing (backend) connections       *)
(* `outc` of out/outc.go that serve it one after the other, the two        *)
(* message channels between them, and the part of the frontend manager     *)
(* (in/inc_manager.go) that registers the session and re-dials for it.     *)
(*                                                                         *)
(* Every goroutine is a program counter.  Every buffered Go channel is a   *)
(* bounded sequence, every sync.RWMutex is the set of its holders read off *)
(* the program counters plus the one bit that they do not show.            *)
(* Inc, Outc and Session give the actions.                                 *)
(***************************************************************************)
EXTENDS Naturals, Sequences, FiniteSets

CONSTANTS
  NumMsgs,      \* bound: data messages the client sends
  NumBackMsgs,  \* bound: data messages the backends send, all connections together
  MaxConns,     \* bound: backend connections dialled for this session
  PipeCap,      \* fePipeBufferSize = bePipeBufferSize (10 in the code)
  DoneCap,      \* capacity of inc.done (5 in the code)
  Handlers,     \* handleUnregistration goroutines alive at one time
  Admins,       \* concurrent admin requests that target this session
  ClientMayLeave,   \* whether the client may disconnect
  BackendMayClose   \* whether a backend may close with a normal close code

ASSUME BoundsAssumption ==
  /\ NumMsgs \in Nat /\ NumBackMsgs \in Nat
  /\ MaxConns \in Nat \ {0}
  /\ PipeCap \in Nat \ {0} /\ DoneCap \in Nat \ {0}
  /\ ClientMayLeave \in BOOLEAN /\ BackendMayClose \in BOOLEAN

\* Backend connections, and the FE writer goroutine paired with each: Start
\* spawns writer 1, the k-th resume spawns writer k+1.
Conns == 1..MaxConns

VARIABLES
  \* --- the client's socket
  clientUp,     \* the remote client is still connected
  conOpen,      \* inc.con has not been closed by the balancer
  sent,         \* data messages read from the client so far
  \* --- the two message channels
  send,         \* client -> backend
  receive,      \* backend -> client
  \* --- struct inc
  done,         \* contents of inc.done; meaningful once started
  reinit,       \* inc.reinitializing
  shutting,     \* inc.shuttingDown
  closeStep,    \* progress of the closeOnce body of inc.Close
  bkLock,       \* bkConnectionLock for writing: "free", "waiting", "held"
  \* --- goroutines of inc
  rpc,          \* startReading
  wpc,          \* startWriting, one per writer spawned
  writers,      \* writers spawned so far
  \* --- ServeWs, the manager loop, its handlers and the admin requests
  spc,          \* ServeWs after the upgrade
  registering,  \* the session waits in mgr.register
  unregister,   \* entries of this session in mgr.unregister
  mapped,       \* mgr.clients[inc], 0 if absent
  hpc, hcon,    \* handleUnregistration: program counter, connection in hand
  apc,          \* admin request
  \* --- outc, one per connection
  dialled,      \* connections dialled so far
  link,         \* state of outc.con
  shut,         \* outc.shuttingDown (and the single signal on outc.done)
  notify,       \* progress of the notifyFEOnce body
  orpc, owpc,   \* outc.startReading, outc.startWriting
  flush,        \* messages the outc writer has in hand
  cache,        \* outc.cache
  backSent,     \* data messages sent by backends so far
  delivered,    \* messages each backend connection received, in order
  \* --- the process
  crashed       \* the Go runtime stopped the process (fatal error)

clientVars  == <<clientUp, conOpen, sent>>
pipes       == <<send, receive>>
incVars     == <<done, reinit, shutting, closeStep, bkLock>>
writerVars  == <<wpc, writers>>
managerVars == <<spc, registering, unregister, mapped, hpc, hcon, apc>>
outcVars    == <<dialled, link, shut, notify, orpc, owpc, flush, cache, backSent,
                 delivered>>

vars == <<clientVars, pipes, incVars, rpc, writerVars, managerVars, outcVars, crashed>>

-----------------------------------------------------------------------------
(* Messages.  common.WsMessage with the two balancer-internal types of      *)
(* common/contract.go: RemoteConnectionNormalClosure and -AbnormalClosure.  *)
(* The id of a data message is its number in the client's stream, or the    *)
(* connection that a message on `receive` comes from.                       *)

Data(n)     == [type |-> "data", id |-> n]
Normal(c)   == [type |-> "normal", id |-> c]
Abnormal(c) == [type |-> "abnormal", id |-> c]

Messages == [type : {"data", "normal", "abnormal"}, id : Nat]

\* Mutant: one message too many.
HasRoomForOneMore(ch) == Len(ch) <= PipeCap

\* A send on a buffered channel blocks while the buffer is full.
HasRoom(ch) == Len(ch) < PipeCap

-----------------------------------------------------------------------------
(* Locks.                                                                   *)

\* ServeWs is past feCon.Start(): inc.done is no longer a nil channel.
Started == spc \in {"beStart", "end"}

\* Readers of inc.doneLock: the closeOnce body of Close, and abortBackend.
DoneReaders == closeStep \in {"send", "finish"} \/ \E a \in Admins : apc[a] \in {"done", "normal"}

\* A goroutine blocked in doneLock.Lock(): it keeps new readers out.
DoneWriterWaits == spc = "feStartWait" \/ \E h \in Handlers : hpc[h] = "resumeWait"

\* The FE reader holds bkConnectionLock.RLock() while it sends a data message.
BkReader == rpc = "sendData"

\* bkConnectionLock.Unlock().  Unlocking a lock nobody write-locked is a fatal
\* error that no recover() can stop.  Unlocking while a writer still waits for
\* the reader to leave takes back the writer's announcement: nobody wakes it.
BkUnlock ==
  /\ bkLock' = "free"
  /\ crashed' = (bkLock = "free")

=============================================================================
