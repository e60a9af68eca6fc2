--------------------------------- MODULE Inc ---------------------------------
(***************************************************************************)
(* in/inc.go: the frontend connection of a session.                        *)
(*   FE reader   startReading and sendToUpstream                           *)
(*   FE writer   startWriting and reinitUpstream                           *)
(*   Close       the closeOnce body, run for whichever caller came first   *)
(*   admin       abortBackend, and Close on behalf of an admin request     *)
(* Valves are modelled in another module: here every message passes.       *)
(***************************************************************************)
EXTENDS SessionState

-----------------------------------------------------------------------------
(* inc.Close.  sync.Once makes every later caller wait until the body that  *)
(* the first caller runs has returned; a caller is a goroutine at "close".  *)

Closing ==
  \/ rpc = "close"
  \/ \E w \in Conns : wpc[w] = "close"
  \/ \E h \in Handlers : hpc[h] = "close"
  \/ \E a \in Admins : apc[a] = "close"

CloseReturned == closeStep = "returned"

\* The first caller enters the closeOnce body.
CloseBegin ==
  /\ Closing /\ closeStep = "none"
  /\ shutting' = TRUE
  /\ closeStep' = "lock"
  /\ UNCHANGED <<clientVars, pipes, done, reinit, bkLock, rpc, writerVars, managerVars,
                 outcVars, crashed>>

CloseLock ==
  /\ closeStep = "lock" /\ ~DoneWriterWaits
  /\ closeStep' = "send"
  /\ UNCHANGED <<clientVars, pipes, done, reinit, shutting, bkLock, rpc, writerVars,
                 managerVars, outcVars, crashed>>

\* inc.done <- false blocks on a full channel, and for ever on the nil channel
\* that inc.done is until Start.
CloseSend ==
  /\ closeStep = "send" /\ Started /\ Len(done) < DoneCap
  /\ done' = Append(done, FALSE)
  /\ closeStep' = "finish"
  /\ UNCHANGED <<clientVars, pipes, reinit, shutting, bkLock, rpc, writerVars,
                 managerVars, outcVars, crashed>>

\* Mutant: the FE reader that a reconnection holds back is not freed.
CloseFinishLocked ==
  /\ closeStep = "finish"
  /\ conOpen' = FALSE
  /\ closeStep' = "returned"
  /\ UNCHANGED <<clientUp, sent, pipes, done, reinit, shutting, bkLock, rpc, writerVars,
                 managerVars, outcVars, crashed>>

\* Closes the socket, frees the FE reader if a reconnection holds it back, and
\* releases doneLock.
CloseFinish ==
  /\ closeStep = "finish"
  /\ conOpen' = FALSE
  /\ closeStep' = "returned"
  /\ IF reinit THEN BkUnlock ELSE UNCHANGED <<bkLock, crashed>>
  /\ UNCHANGED <<clientUp, sent, pipes, done, reinit, shutting, rpc, writerVars,
                 managerVars, outcVars>>

CloseBody == CloseBegin \/ CloseLock \/ CloseSend \/ CloseFinish

-----------------------------------------------------------------------------
(* The FE reader.                                                           *)

\* con.ReadMessage returns a data message.
ReadData ==
  /\ rpc = "read" /\ clientUp /\ conOpen /\ sent < NumMsgs
  /\ sent' = sent + 1
  /\ rpc' = "lock"
  /\ UNCHANGED <<clientUp, conOpen, pipes, incVars, writerVars, managerVars, outcVars,
                 crashed>>

\* con.ReadMessage fails: the client left, or Close closed the socket.
ReadError ==
  /\ rpc = "read" /\ (~clientUp \/ ~conOpen)
  /\ rpc' = "sendNormal"
  /\ UNCHANGED <<clientVars, pipes, incVars, writerVars, managerVars, outcVars, crashed>>

\* sendToUpstream, data message: bkConnectionLock.RLock(), then the check of
\* shuttingDown, which drops the message.
LockBkConnection ==
  /\ rpc = "lock" /\ bkLock = "free"
  /\ rpc' = IF shutting THEN "read" ELSE "sendData"
  /\ UNCHANGED <<clientVars, pipes, incVars, writerVars, managerVars, outcVars, crashed>>

\* inc.send <- msg with the read lock held, then its deferred release.
SendData ==
  /\ rpc = "sendData" /\ HasRoom(send)
  /\ send' = Append(send, Data(sent))
  /\ rpc' = "read"
  /\ UNCHANGED <<clientVars, receive, incVars, writerVars, managerVars, outcVars, crashed>>

\* Mutant: the session is unregistered without having been closed.
SendNormalOnErrorUnclosed ==
  /\ rpc = "sendNormal" /\ HasRoom(send)
  /\ send' = Append(send, Normal(0))
  /\ rpc' = "unregister"
  /\ UNCHANGED <<clientVars, receive, incVars, writerVars, managerVars, outcVars, crashed>>

\* sendToUpstream, control message: sent without the lock.
SendNormalOnError ==
  /\ rpc = "sendNormal" /\ HasRoom(send)
  /\ send' = Append(send, Normal(0))
  /\ rpc' = "close"
  /\ UNCHANGED <<clientVars, receive, incVars, writerVars, managerVars, outcVars, crashed>>

\* Mutant: the session is closed and not unregistered.
ReaderClosedForGood ==
  /\ rpc = "close" /\ CloseReturned
  /\ rpc' = "end"
  /\ UNCHANGED <<clientVars, pipes, incVars, writerVars, managerVars, outcVars, crashed>>

\* The deferred cleanup: Close, and only then inc.unregister <- inc.
ReaderClosed ==
  /\ rpc = "close" /\ CloseReturned
  /\ rpc' = "unregister"
  /\ UNCHANGED <<clientVars, pipes, incVars, writerVars, managerVars, outcVars, crashed>>

ReaderUnregister ==
  /\ rpc = "unregister"
  /\ unregister' = unregister + 1
  /\ rpc' = "end"
  /\ UNCHANGED <<clientVars, pipes, incVars, writerVars, spc, registering, mapped, hpc,
                 hcon, apc, outcVars, crashed>>

\* What the reader does by itself; ReadData waits for the client.
ReaderRuns ==
  \/ ReadError \/ LockBkConnection \/ SendData \/ SendNormalOnError
  \/ ReaderClosed \/ ReaderUnregister

-----------------------------------------------------------------------------
(* The FE writer.                                                           *)

WriterGoto(w, pc) ==
  /\ wpc' = [wpc EXCEPT ![w] = pc]
  /\ UNCHANGED <<writers, clientVars, managerVars, outcVars, rpc>>

\* select case on inc.receive.  A data message is written to the client, and a
\* write error ends the session as a normal closure does.
WriterReceive(w) ==
  /\ wpc[w] = "select" /\ receive # <<>>
  /\ receive' = Tail(receive)
  /\ \/ /\ Head(receive).type = "data" /\ clientUp /\ conOpen
        /\ WriterGoto(w, "select")
     \/ /\ Head(receive).type = "data" /\ ~(clientUp /\ conOpen)
        /\ WriterGoto(w, "close")
     \/ /\ Head(receive).type = "normal"
        /\ WriterGoto(w, "close")
     \/ /\ Head(receive).type = "abnormal"
        /\ WriterGoto(w, "cas")
  /\ UNCHANGED <<send, incVars, crashed>>

\* select case on inc.done: true asks for a reconnection, false ends.
WriterDone(w) ==
  /\ wpc[w] = "select" /\ done # <<>>
  /\ done' = Tail(done)
  /\ WriterGoto(w, IF Head(done) THEN "cas" ELSE "close")
  /\ UNCHANGED <<pipes, reinit, shutting, closeStep, bkLock, crashed>>

\* reinitUpstream: CompareAndSwap of reinitializing, or return.
WriterCas(w) ==
  /\ wpc[w] = "cas"
  /\ reinit' = TRUE
  /\ WriterGoto(w, IF reinit THEN "end" ELSE "lock")
  /\ UNCHANGED <<pipes, done, shutting, closeStep, bkLock, crashed>>

\* bkConnectionLock.Lock() announces itself to a reader that holds the lock...
WriterLockWait(w) ==
  /\ wpc[w] = "lock" /\ bkLock = "free" /\ BkReader
  /\ bkLock' = "waiting"
  /\ WriterGoto(w, "lockWait")
  /\ UNCHANGED <<pipes, done, reinit, shutting, closeStep, crashed>>

\* Mutant: the reader is not held back.
WriterLockSkipped(w) ==
  /\ wpc[w] = "lock"
  /\ WriterGoto(w, "unregister")
  /\ UNCHANGED <<pipes, incVars, crashed>>

\* ... and is granted when there is no reader.
WriterLock(w) ==
  /\ \/ wpc[w] = "lock" /\ bkLock = "free"
     \/ wpc[w] = "lockWait" /\ bkLock = "waiting"
  /\ ~BkReader
  /\ bkLock' = "held"
  /\ WriterGoto(w, "unregister")
  /\ UNCHANGED <<pipes, done, reinit, shutting, closeStep, crashed>>

\* inc.unregister <- inc: the manager shall dial again.
WriterUnregister(w) ==
  /\ wpc[w] = "unregister"
  /\ unregister' = unregister + 1
  /\ wpc' = [wpc EXCEPT ![w] = "end"]
  /\ UNCHANGED <<clientVars, pipes, incVars, rpc, writers, spc, registering, mapped, hpc,
                 hcon, apc, outcVars, crashed>>

WriterClosed(w) ==
  /\ wpc[w] = "close" /\ CloseReturned
  /\ WriterGoto(w, "end")
  /\ UNCHANGED <<pipes, incVars, crashed>>

WriterRuns(w) ==
  \/ WriterReceive(w) \/ WriterDone(w) \/ WriterCas(w) \/ WriterLockWait(w)
  \/ WriterLock(w) \/ WriterUnregister(w) \/ WriterClosed(w)

-----------------------------------------------------------------------------
(* Start and resume, run by ServeWs and by the manager's handler, with      *)
(* doneLock held.                                                           *)

SpawnWriter ==
  /\ writers' = writers + 1
  /\ wpc' = [wpc EXCEPT ![writers + 1] = "select"]

Start ==
  /\ ~DoneReaders
  /\ done' = <<>>
  /\ rpc' = "read"
  /\ SpawnWriter
  /\ UNCHANGED <<reinit, shutting, closeStep, bkLock, crashed>>

\* Mutant: the reader stays locked out.
resumeLocked ==
  /\ ~DoneReaders
  /\ done' = <<>>
  /\ reinit' = FALSE
  /\ SpawnWriter
  /\ UNCHANGED <<rpc, shutting, closeStep, bkLock, crashed>>

resume ==
  /\ ~DoneReaders
  /\ done' = <<>>
  /\ reinit' = FALSE
  /\ BkUnlock
  /\ SpawnWriter
  /\ UNCHANGED <<rpc, shutting, closeStep>>

-----------------------------------------------------------------------------
(* Admin requests on this session, found in mgr.clients when they arrive.   *)

AdminGoto(a, pc) ==
  /\ apc' = [apc EXCEPT ![a] = pc]
  /\ UNCHANGED <<clientVars, rpc, writerVars, spc, registering, unregister, mapped, hpc,
                 hcon, outcVars, crashed>>

\* abortFrontendConnection calls Close, abortBackendConnection and
\* abortAllBackendConnections call abortBackend.
AdminRequest(a) ==
  /\ apc[a] = "idle" /\ mapped # 0
  /\ \E pc \in {"close", "abort"} : AdminGoto(a, pc)
  /\ UNCHANGED <<pipes, incVars>>

AdminClosed(a) ==
  /\ apc[a] = "close" /\ CloseReturned
  /\ AdminGoto(a, "end")
  /\ UNCHANGED <<pipes, incVars>>

\* abortBackend keeps doneLock.RLock() until both of its sends are through.
AbortLock(a) ==
  /\ apc[a] = "abort" /\ ~DoneWriterWaits
  /\ AdminGoto(a, "done")
  /\ UNCHANGED <<pipes, incVars>>

AbortDone(a) ==
  /\ apc[a] = "done" /\ Started /\ Len(done) < DoneCap
  /\ done' = Append(done, TRUE)
  /\ AdminGoto(a, "normal")
  /\ UNCHANGED <<pipes, reinit, shutting, closeStep, bkLock>>

AbortSend(a) ==
  /\ apc[a] = "normal" /\ HasRoom(send)
  /\ send' = Append(send, Normal(0))
  /\ AdminGoto(a, "end")
  /\ UNCHANGED <<receive, incVars>>

AdminRuns(a) == AdminClosed(a) \/ AbortLock(a) \/ AbortDone(a) \/ AbortSend(a)

=============================================================================
