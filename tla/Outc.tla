-------------------------------- MODULE Outc --------------------------------
(***************************************************************************)
(* out/outc.go: the backend connections of a session, connection c being   *)
(* the c-th that was dialled for it.                                       *)
(*   BE reader   startReading                                              *)
(*   BE writer   clearCache and startWriting                               *)
(*   notify      the notifyFEOnce body, run for whichever caller was first *)
(* A network connection is "open", "lost" (peer or network died), "closed" *)
(* (the peer sent a normal close code) or "shut" (closed by the balancer). *)
(***************************************************************************)
EXTENDS SessionState

connVars     == <<dialled, link, shut>>
readerVars   == <<orpc, backSent>>
beWriterVars == <<owpc, flush, cache, delivered>>

\* All that belongs to the frontend side.
elsewhere == <<clientVars, incVars, rpc, writerVars, managerVars, crashed>>

-----------------------------------------------------------------------------
\* newOutc: the new connection takes over the old one's unsent messages.
newOutc(c, old) ==
  /\ link' = [link EXCEPT ![c] = "open"]
  /\ cache' = IF old = 0 THEN cache ELSE [cache EXCEPT ![c] = cache[old], ![old] = <<>>]

\* outc.Start
StartOutc(c) ==
  /\ orpc' = [orpc EXCEPT ![c] = "read"]
  /\ owpc' = [owpc EXCEPT ![c] = "clear"]

\* outc.Close: the body of closeOnce never blocks (done has room for its only
\* signal), so a later call finds it finished.
CloseOutc(c) ==
  /\ shut' = [shut EXCEPT ![c] = TRUE]
  /\ link' = [link EXCEPT ![c] = "shut"]

-----------------------------------------------------------------------------
(* _notifyFrontend, once per connection.  notify[c] is the closure type     *)
(* that the first caller is sending; a second caller waits until it is sent.*)

\* Mutant: the sync.Once is forgotten, so that reader and writer both report.
NotifyEach(c, type) == notify' = [notify EXCEPT ![c] = type]

Notify(c, type) ==
  notify' = IF notify[c] = "none" THEN [notify EXCEPT ![c] = type] ELSE notify

NotifySend(c) ==
  /\ notify[c] \in {"normal", "abnormal"} /\ HasRoom(receive)
  /\ receive' = Append(receive, IF notify[c] = "normal" THEN Normal(c) ELSE Abnormal(c))
  /\ notify' = [notify EXCEPT ![c] = "sent"]
  /\ UNCHANGED <<elsewhere, connVars, readerVars, beWriterVars, send>>

-----------------------------------------------------------------------------
(* The BE reader.                                                           *)

ReaderGoto(c, pc) == orpc' = [orpc EXCEPT ![c] = pc]

\* con.ReadMessage returns data; it is dropped when the balancer is closing.
BackendData(c) ==
  /\ orpc[c] = "read" /\ link[c] = "open" /\ backSent < NumBackMsgs
  /\ backSent' = backSent + 1
  /\ ReaderGoto(c, "forward")
  /\ UNCHANGED <<elsewhere, connVars, beWriterVars, pipes, notify>>

\* oc.send <- msg blocks while the client's writer does not drain it.
BackendForward(c) ==
  /\ orpc[c] = "forward" /\ HasRoom(receive)
  /\ receive' = Append(receive, Data(c))
  /\ ReaderGoto(c, "read")
  /\ UNCHANGED <<elsewhere, connVars, beWriterVars, send, notify, backSent>>

\* con.ReadMessage fails: silently when the balancer closed the connection,
\* else by the close code, a normal one or anything that demands a failover.
BackendReadError(c) ==
  /\ orpc[c] = "read" /\ link[c] # "open"
  /\ IF shut[c]
       THEN ReaderGoto(c, "end") /\ UNCHANGED notify
       ELSE /\ ReaderGoto(c, "notify")
            /\ Notify(c, IF link[c] = "closed" THEN "normal" ELSE "abnormal")
  /\ UNCHANGED <<elsewhere, connVars, beWriterVars, pipes, backSent>>

\* The deferred Close; notifyBackend belongs to the backend's accounting.
BackendNotified(c) ==
  /\ orpc[c] = "notify" /\ notify[c] = "sent"
  /\ CloseOutc(c)
  /\ ReaderGoto(c, "end")
  /\ UNCHANGED <<elsewhere, beWriterVars, pipes, dialled, notify, backSent>>

BackendReaderRuns(c) ==
  \/ BackendForward(c) \/ BackendReadError(c) \/ BackendNotified(c)

-----------------------------------------------------------------------------
(* The BE writer.                                                           *)

\* con.WriteMessage of message n succeeds.  On a dead connection the kernel
\* may still take the message, which then reaches nobody.
Written(c, n) ==
  /\ link[c] # "shut"
  /\ delivered' = IF link[c] = "open"
                    THEN [delivered EXCEPT ![c] = Append(@, n)] ELSE delivered

\* con.WriteMessage fails, always with an error that asks for a failover: on a
\* connection the peer closed normally it is ErrCloseSent, not a CloseError.
WriteFails(c) == link[c] # "open" /\ Notify(c, "abnormal")

WriterAt(c, pc) == owpc' = [owpc EXCEPT ![c] = pc]

\* clearCache takes everything out of the cache: ...
ClearCache(c) ==
  /\ owpc[c] = "clear"
  /\ flush' = [flush EXCEPT ![c] = cache[c]]
  /\ cache' = [cache EXCEPT ![c] = <<>>]
  /\ WriterAt(c, IF cache[c] = <<>> THEN "select" ELSE "flush")
  /\ UNCHANGED <<elsewhere, connVars, readerVars, pipes, notify, delivered>>

\* ... one of the messages is written, ...
FlushWrite(c) ==
  /\ owpc[c] = "flush" /\ flush[c] # <<>>
  /\ Written(c, Head(flush[c]))
  /\ flush' = [flush EXCEPT ![c] = Tail(@)]
  /\ WriterAt(c, IF Len(flush[c]) = 1 THEN "select" ELSE "flush")
  /\ UNCHANGED <<elsewhere, connVars, readerVars, pipes, notify, cache>>

\* ... or fails: it goes back to the cache and the frontend is notified; only
\* then do the remaining ones go back as well (WriteErrorNotified).
FlushFails(c) ==
  /\ owpc[c] = "flush" /\ flush[c] # <<>>
  /\ WriteFails(c)
  /\ cache' = [cache EXCEPT ![c] = Append(@, Head(flush[c]))]
  /\ flush' = [flush EXCEPT ![c] = Tail(@)]
  /\ WriterAt(c, "notify")
  /\ UNCHANGED <<elsewhere, connVars, readerVars, pipes, delivered>>

\* select case on oc.receive: a normal closure ends the connection.
TakeNormal(c) ==
  /\ owpc[c] = "select" /\ send # <<>> /\ Head(send).type = "normal"
  /\ send' = Tail(send)
  /\ CloseOutc(c)
  /\ WriterAt(c, "end")
  /\ UNCHANGED <<elsewhere, readerVars, receive, dialled, notify, flush, cache, delivered>>

TakeWrite(c) ==
  /\ owpc[c] = "select" /\ send # <<>> /\ Head(send).type = "data"
  /\ send' = Tail(send)
  /\ Written(c, Head(send).id)
  /\ UNCHANGED <<elsewhere, connVars, readerVars, receive, notify, owpc, flush, cache>>

\* Mutant: the message is cached, and queued again for the next connection.
TakeFailsRequeued(c) ==
  /\ owpc[c] = "select" /\ send # <<>> /\ Head(send).type = "data"
  /\ WriteFails(c)
  /\ send' = Append(Tail(send), Head(send))
  /\ flush' = [flush EXCEPT ![c] = <<Head(send).id>>]
  /\ WriterAt(c, "notify")
  /\ UNCHANGED <<elsewhere, connVars, readerVars, receive, cache, delivered>>

\* Mutant: the message is queued again behind later ones.
TakeFailsBehind(c) ==
  /\ owpc[c] = "select" /\ send # <<>> /\ Head(send).type = "data"
  /\ WriteFails(c)
  /\ send' = Append(Tail(send), Head(send))
  /\ WriterAt(c, "notify")
  /\ UNCHANGED <<elsewhere, connVars, readerVars, receive, flush, cache, delivered>>

\* The frontend is notified first, the message is cached afterwards.
TakeFails(c) ==
  /\ owpc[c] = "select" /\ send # <<>> /\ Head(send).type = "data"
  /\ WriteFails(c)
  /\ send' = Tail(send)
  /\ flush' = [flush EXCEPT ![c] = <<Head(send).id>>]
  /\ WriterAt(c, "notify")
  /\ UNCHANGED <<elsewhere, connVars, readerVars, receive, cache, delivered>>

\* select case on the ping ticker; a ping that gets through changes nothing.
PingFails(c) ==
  /\ owpc[c] = "select"
  /\ WriteFails(c)
  /\ WriterAt(c, "notify")
  /\ UNCHANGED <<elsewhere, connVars, readerVars, pipes, flush, cache, delivered>>

\* What the writer has in hand is cached after the notification is through: the
\* message that failed, the rest of a cache being cleared, nothing for a ping.
WriteErrorNotified(c) ==
  /\ owpc[c] = "notify" /\ notify[c] = "sent"
  /\ cache' = [cache EXCEPT ![c] = @ \o flush[c]]
  /\ flush' = [flush EXCEPT ![c] = <<>>]
  /\ CloseOutc(c)
  /\ WriterAt(c, "end")
  /\ UNCHANGED <<elsewhere, readerVars, pipes, dialled, notify, delivered>>

\* select case on oc.done, signalled by Close.
TakeDone(c) ==
  /\ owpc[c] = "select" /\ shut[c]
  /\ WriterAt(c, "end")
  /\ UNCHANGED <<elsewhere, connVars, readerVars, pipes, notify, flush, cache, delivered>>

BackendWriterRuns(c) ==
  \/ ClearCache(c) \/ FlushWrite(c) \/ FlushFails(c) \/ TakeNormal(c) \/ TakeWrite(c)
  \/ TakeFails(c) \/ PingFails(c) \/ WriteErrorNotified(c) \/ TakeDone(c)

BackendRuns(c) == BackendReaderRuns(c) \/ BackendWriterRuns(c) \/ NotifySend(c)

-----------------------------------------------------------------------------
(* What a backend or the network does to an open connection.               *)

BackendLost(c) ==
  /\ link[c] = "open"
  /\ link' = [link EXCEPT ![c] = "lost"]
  /\ UNCHANGED <<elsewhere, readerVars, beWriterVars, pipes, dialled, shut, notify>>

BackendCloses(c) ==
  /\ BackendMayClose /\ link[c] = "open"
  /\ link' = [link EXCEPT ![c] = "closed"]
  /\ UNCHANGED <<elsewhere, readerVars, beWriterVars, pipes, dialled, shut, notify>>

=============================================================================
