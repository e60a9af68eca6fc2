---------------------------- MODULE SessionProofs ----------------------------
(***************************************************************************)
(* Proofs about Session, for every number of messages, connections,        *)
(* handlers and admin requests and every channel capacity.                 *)
(***************************************************************************)
EXTENDS Session, SequenceTheorems, TLAPS

-----------------------------------------------------------------------------
(* Types.                                                                   *)

\* The three kinds of message are messages, and a message has a type and an id.
LEMMA MessageTypes ==
  /\ \A n \in Nat : Data(n) \in Messages /\ Normal(n) \in Messages /\ Abnormal(n) \in Messages
  /\ \A m \in Messages : m.type \in {"data", "normal", "abnormal"} /\ m.id \in Nat
BY DEF Data, Normal, Abnormal, Messages

\* The session starts well typed.
LEMMA InitType == Init => TypeOK
<1> SUFFICES ASSUME Init PROVE TypeOK
  OBVIOUS
<1> USE BoundsAssumption
<1>1. 1 \in Conns /\ \A S : <<>> \in Seq(S) /\ Len(<<>>) = 0
  BY DEF Conns
<1>2. /\ hcon \in [Handlers -> 0..MaxConns]
      /\ wpc \in [Conns -> {"idle", "select", "cas", "lock", "lockWait", "unregister",
                            "close", "end"}]
      /\ hpc \in [Handlers -> {"idle", "exists", "active", "dial", "add", "resume",
                               "resumeWait", "start", "close", "remove"}]
      /\ apc \in [Admins -> {"idle", "close", "abort", "done", "normal", "end"}]
  BY DEF Init
<1>5. /\ link \in [Conns -> {"none", "open", "lost", "closed", "shut"}]
      /\ shut \in [Conns -> BOOLEAN]
      /\ notify \in [Conns -> {"none", "normal", "abnormal", "sent"}]
      /\ orpc \in [Conns -> {"idle", "read", "forward", "notify", "end"}]
      /\ owpc \in [Conns -> {"idle", "clear", "flush", "select", "notify", "end"}]
  BY DEF Init
<1>3. /\ flush \in [Conns -> Seq(Nat)] /\ cache \in [Conns -> Seq(Nat)]
      /\ delivered \in [Conns -> Seq(Nat)]
  BY <1>1 DEF Init
<1>4. /\ send \in Seq(Messages) /\ receive \in Seq(Messages) /\ done \in Seq(BOOLEAN)
      /\ Len(send) = 0 /\ Len(receive) = 0 /\ Len(done) = 0
  BY <1>1 DEF Init
<1>6. /\ clientUp \in BOOLEAN /\ conOpen \in BOOLEAN /\ reinit \in BOOLEAN
      /\ shutting \in BOOLEAN /\ registering \in BOOLEAN /\ crashed \in BOOLEAN
  BY Zenon DEF Init
<1>8. /\ closeStep = "none" /\ bkLock = "free" /\ rpc = "idle" /\ spc = "register"
      /\ sent \in 0..NumMsgs /\ writers \in 0..MaxConns /\ unregister \in Nat
      /\ mapped \in 0..MaxConns /\ dialled \in Conns /\ backSent \in 0..NumBackMsgs
  BY <1>1 DEF Init
<1>7. Len(send) <= PipeCap /\ Len(receive) <= PipeCap /\ Len(done) <= DoneCap
  BY <1>4
<1> QED
  BY <1>2, <1>3, <1>4, <1>5, <1>6, <1>7, <1>8 DEF TypeOK

\* Every step of the closeOnce body of inc.Close keeps types.
LEMMA CloseType == TypeOK /\ CloseBody => TypeOK'
<1> SUFFICES ASSUME TypeOK, CloseBody PROVE TypeOK'
  OBVIOUS
<1> USE BoundsAssumption DEF TypeOK, clientVars, pipes, incVars, writerVars, managerVars, outcVars
<1>1. CASE CloseBegin
  BY <1>1 DEF CloseBegin
<1>2. CASE CloseLock
  BY <1>2 DEF CloseLock
<1>3. CASE CloseSend
  BY <1>3 DEF CloseSend
<1>4. CASE CloseFinish
  <2>1. crashed' \in BOOLEAN /\ bkLock' \in {"free", "waiting", "held"}
    BY <1>4 DEF CloseFinish, BkUnlock
  <2> QED
    BY <1>4, <2>1, ZenonT(60) DEF CloseFinish
<1> QED
  BY <1>1, <1>2, <1>3, <1>4 DEF CloseBody

\* Every step of the FE reader keeps types; it sends only where there is room.
LEMMA ReaderType == TypeOK /\ (ReadData \/ ReaderRuns) => TypeOK'
<1> SUFFICES ASSUME TypeOK, ReadData \/ ReaderRuns PROVE TypeOK'
  OBVIOUS
<1> USE BoundsAssumption DEF TypeOK, clientVars, pipes, incVars, writerVars, managerVars, outcVars
<1>1. CASE ReadData
  BY <1>1 DEF ReadData
<1>2. CASE ReadError
  BY <1>2 DEF ReadError
<1>3. CASE LockBkConnection
  BY <1>3 DEF LockBkConnection
<1>4. CASE SendData
  BY <1>4, MessageTypes, SMTT(30) DEF SendData, HasRoom
<1>5. CASE SendNormalOnError
  BY <1>5, MessageTypes DEF SendNormalOnError, HasRoom
<1>6. CASE ReaderClosed
  BY <1>6 DEF ReaderClosed
<1>7. CASE ReaderUnregister
  BY <1>7 DEF ReaderUnregister
<1> QED
  BY <1>1, <1>2, <1>3, <1>4, <1>5, <1>6, <1>7 DEF ReaderRuns

\* Every step of an FE writer keeps types.
LEMMA WriterType == ASSUME TypeOK, NEW w \in Conns, WriterRuns(w) PROVE TypeOK'
<1> USE BoundsAssumption DEF TypeOK, clientVars, pipes, incVars, writerVars, managerVars,
       outcVars, WriterGoto
<1>1. CASE WriterReceive(w)
  <2>1. receive' \in Seq(Messages) /\ Len(receive') <= PipeCap
    BY <1>1, HeadTailProperties DEF WriterReceive
  <2>2. \E pc \in {"select", "close", "cas"} : WriterGoto(w, pc)
    BY <1>1 DEF WriterReceive
  <2> QED
    BY <1>1, <2>1, <2>2, SMTT(30) DEF WriterReceive
<1>2. CASE WriterDone(w)
  <2>1. done' \in Seq(BOOLEAN) /\ Len(done') <= DoneCap
    <3>1. done # <<>> /\ done' = Tail(done)
      BY <1>2 DEF WriterDone
    <3>2. done \in Seq(BOOLEAN) /\ Len(done) <= DoneCap
      OBVIOUS
    <3>3. Tail(done) \in Seq(BOOLEAN) /\ Len(Tail(done)) = Len(done) - 1 /\ Len(done) \in Nat
      BY <3>1, <3>2, HeadTailProperties, LenProperties
    <3> HIDE DEF TypeOK
    <3> QED
      BY <3>1, <3>2, <3>3
  <2>2. \E pc \in {"close", "cas"} : WriterGoto(w, pc)
    BY <1>2 DEF WriterDone
  <2> QED
    <3>1. UNCHANGED <<pipes, reinit, shutting, closeStep, bkLock, crashed>>
      BY <1>2 DEF WriterDone
    <3>2. PICK pc \in {"close", "cas"} : WriterGoto(w, pc)
      BY <2>2
    <3> QED
      BY <2>1, <3>1, <3>2, SMTT(30)
<1>3. CASE WriterCas(w)
  BY <1>3, SMTT(30) DEF WriterCas
<1>4. CASE WriterLockWait(w)
  BY <1>4, SMTT(30) DEF WriterLockWait
<1>5. CASE WriterLock(w)
  BY <1>5, SMTT(30) DEF WriterLock
<1>6. CASE WriterUnregister(w)
  BY <1>6 DEF WriterUnregister
<1>7. CASE WriterClosed(w)
  BY <1>7 DEF WriterClosed
<1> QED
  BY <1>1, <1>2, <1>3, <1>4, <1>5, <1>6, <1>7 DEF WriterRuns

\* Every step of an admin request keeps types.
LEMMA AdminType ==
  ASSUME TypeOK, NEW a \in Admins, AdminRequest(a) \/ AdminRuns(a) PROVE TypeOK'
<1> USE BoundsAssumption DEF TypeOK, clientVars, pipes, incVars, writerVars, managerVars,
       outcVars, AdminGoto
<1>1. CASE AdminRequest(a)
  BY <1>1 DEF AdminRequest
<1>2. CASE AdminClosed(a)
  BY <1>2 DEF AdminClosed
<1>3. CASE AbortLock(a)
  BY <1>3 DEF AbortLock
<1>4. CASE AbortDone(a)
  BY <1>4 DEF AbortDone
<1>5. CASE AbortSend(a)
  BY <1>5, MessageTypes DEF AbortSend, HasRoom
<1> QED
  BY <1>1, <1>2, <1>3, <1>4, <1>5 DEF AdminRuns

\* Every step of a BE reader, and of the notification, keeps types.
LEMMA BackendReaderType ==
  ASSUME TypeOK, NEW c \in Conns, BackendReaderRuns(c) \/ BackendData(c) \/ NotifySend(c)
  PROVE  TypeOK'
<1> USE BoundsAssumption DEF TypeOK, elsewhere, clientVars, pipes, incVars, writerVars,
       managerVars, connVars, readerVars, beWriterVars, ReaderGoto
<1>0. c \in Nat
  BY DEF Conns
<1>1. CASE BackendForward(c)
  <2>1. receive' \in Seq(Messages) /\ Len(receive') <= PipeCap
    BY <1>0, <1>1, MessageTypes DEF BackendForward, HasRoom
  <2>2. /\ orpc' = [orpc EXCEPT ![c] = "read"]
        /\ UNCHANGED <<elsewhere, connVars, beWriterVars, send, notify, backSent>>
    BY <1>1 DEF BackendForward
  <2> QED
    BY <2>1, <2>2, SMTT(30)
<1>2. CASE BackendReadError(c)
  <2>1. notify' \in [Conns -> {"none", "normal", "abnormal", "sent"}]
    BY <1>2, ZenonT(60) DEF BackendReadError, Notify
  <2>2. orpc' \in [Conns -> {"idle", "read", "forward", "notify", "end"}]
    BY <1>2, ZenonT(60) DEF BackendReadError
  <2>3. UNCHANGED <<elsewhere, connVars, beWriterVars, pipes, backSent>>
    BY <1>2 DEF BackendReadError
  <2> QED
    BY <2>1, <2>2, <2>3
<1>3. CASE BackendNotified(c)
  BY <1>3, SMTT(30) DEF BackendNotified, CloseOutc
<1>4. CASE BackendData(c)
  BY <1>4, SMTT(30) DEF BackendData
<1>5. CASE NotifySend(c)
  <2>1. receive' \in Seq(Messages) /\ Len(receive') <= PipeCap
    BY <1>0, <1>5, MessageTypes DEF NotifySend, HasRoom
  <2>2. /\ notify' = [notify EXCEPT ![c] = "sent"]
        /\ UNCHANGED <<elsewhere, connVars, readerVars, beWriterVars, send>>
    BY <1>5 DEF NotifySend
  <2> QED
    BY <2>1, <2>2, SMTT(30)
<1> QED
  BY <1>1, <1>2, <1>3, <1>4, <1>5 DEF BackendReaderRuns

\* Every step of a BE writer, and of its cache, keeps types.
LEMMA BackendWriterType ==
  ASSUME TypeOK, NEW c \in Conns, BackendWriterRuns(c) PROVE TypeOK'
<1> USE BoundsAssumption DEF TypeOK, elsewhere, clientVars, pipes, incVars, writerVars,
       managerVars, connVars, readerVars, beWriterVars, WriterAt
<1>0. flush[c] \in Seq(Nat) /\ cache[c] \in Seq(Nat) /\ delivered[c] \in Seq(Nat)
  OBVIOUS
<1>1. CASE ClearCache(c)
  BY <1>1 DEF ClearCache
<1>2. CASE FlushWrite(c)
  <2>1. Head(flush[c]) \in Nat /\ Tail(flush[c]) \in Seq(Nat)
    BY <1>0, <1>2, HeadTailProperties DEF FlushWrite
  <2>2. delivered' \in [Conns -> Seq(Nat)] /\ flush' \in [Conns -> Seq(Nat)]
    BY <1>0, <1>2, <2>1, SMTT(30) DEF FlushWrite, Written
  <2>3. owpc' \in [Conns -> {"idle", "clear", "flush", "select", "notify", "end"}]
    BY <1>2 DEF FlushWrite
  <2>4. UNCHANGED <<elsewhere, connVars, readerVars, pipes, notify, cache>>
    BY <1>2 DEF FlushWrite
  <2> QED
    BY <2>2, <2>3, <2>4, SMTT(30)
<1>3. CASE FlushFails(c)
  <2>1. Head(flush[c]) \in Nat /\ Tail(flush[c]) \in Seq(Nat)
    BY <1>0, <1>3, HeadTailProperties DEF FlushFails
  <2>2. cache' \in [Conns -> Seq(Nat)] /\ flush' \in [Conns -> Seq(Nat)]
    BY <1>0, <1>3, <2>1, SMTT(30) DEF FlushFails
  <2>3. notify' \in [Conns -> {"none", "normal", "abnormal", "sent"}]
    BY <1>3 DEF FlushFails, WriteFails, Notify
  <2>4. /\ owpc' = [owpc EXCEPT ![c] = "notify"]
        /\ UNCHANGED <<elsewhere, connVars, readerVars, pipes, delivered>>
    BY <1>3 DEF FlushFails
  <2> QED
    BY <2>2, <2>3, <2>4, SMTT(30)
<1>4. CASE TakeNormal(c)
  BY <1>4, HeadTailProperties, SMTT(30) DEF TakeNormal, CloseOutc
<1>5. CASE TakeWrite(c)
  <2>1. /\ Head(send) \in Messages /\ send' \in Seq(Messages) /\ Len(send') <= PipeCap
    BY <1>5, HeadTailProperties DEF TakeWrite
  <2>2. delivered' \in [Conns -> Seq(Nat)]
    BY <1>0, <1>5, <2>1, MessageTypes DEF TakeWrite, Written
  <2>3. UNCHANGED <<elsewhere, connVars, readerVars, receive, notify, owpc, flush, cache>>
    BY <1>5 DEF TakeWrite
  <2> QED
    BY <2>1, <2>2, <2>3, SMTT(30)
<1>6. CASE TakeFails(c)
  <2>1. /\ Head(send) \in Messages /\ send' \in Seq(Messages) /\ Len(send') <= PipeCap
    BY <1>6, HeadTailProperties DEF TakeFails
  <2>2. flush' \in [Conns -> Seq(Nat)]
    BY <1>6, <2>1, MessageTypes DEF TakeFails
  <2>3. notify' \in [Conns -> {"none", "normal", "abnormal", "sent"}]
    BY <1>6 DEF TakeFails, WriteFails, Notify
  <2>4. /\ owpc' = [owpc EXCEPT ![c] = "notify"]
        /\ UNCHANGED <<elsewhere, connVars, readerVars, receive, cache, delivered>>
    BY <1>6 DEF TakeFails
  <2> QED
    BY <2>1, <2>2, <2>3, <2>4, SMTT(30)
<1>7. CASE PingFails(c)
  BY <1>7, SMTT(30) DEF PingFails, WriteFails, Notify
<1>8. CASE WriteErrorNotified(c)
  BY <1>8, SMTT(30) DEF WriteErrorNotified, CloseOutc
<1>9. CASE TakeDone(c)
  BY <1>9 DEF TakeDone
<1> QED
  BY <1>1, <1>2, <1>3, <1>4, <1>5, <1>6, <1>7, <1>8, <1>9 DEF BackendWriterRuns

\* What happens to the network keeps types.
LEMMA LinkType ==
  ASSUME TypeOK, NEW c \in Conns, BackendLost(c) \/ BackendCloses(c) PROVE TypeOK'
<1> USE BoundsAssumption DEF TypeOK, elsewhere, clientVars, pipes, incVars, writerVars,
       managerVars, connVars, readerVars, beWriterVars
<1>1. CASE BackendLost(c)
  BY <1>1 DEF BackendLost
<1>2. CASE BackendCloses(c)
  BY <1>2 DEF BackendCloses
<1> QED
  BY <1>1, <1>2

\* ServeWs keeps types; it spawns writer 1, nothing having run before.
LEMMA ServeType ==
  TypeOK /\ QuietBeforeStart /\ ServeWs => TypeOK'
<1> SUFFICES ASSUME TypeOK, QuietBeforeStart, ServeWs PROVE TypeOK'
  OBVIOUS
<1> USE BoundsAssumption DEF TypeOK, clientVars, pipes, incVars, writerVars, managerVars,
       outcVars
<1>1. CASE ServeRegister
  BY <1>1 DEF ServeRegister
<1>2. CASE ServeStartWaits
  BY <1>2 DEF ServeStartWaits
<1>3. CASE ServeStartFE
  <2>1. writers = 0
    BY <1>3 DEF ServeStartFE, QuietBeforeStart, Started
  <2> QED
    BY <1>3, <2>1 DEF ServeStartFE, Start, SpawnWriter, Conns
<1>4. CASE ServeStartBE
  <2>1. /\ orpc' \in [Conns -> {"idle", "read", "forward", "notify", "end"}]
        /\ owpc' \in [Conns -> {"idle", "clear", "flush", "select", "notify", "end"}]
    BY <1>4 DEF ServeStartBE, StartOutc
  <2>2. /\ spc' = "end"
        /\ UNCHANGED <<clientVars, pipes, incVars, rpc, writerVars, registering, unregister,
                       mapped, hpc, hcon, apc, dialled, link, shut, notify, flush, cache,
                       backSent, delivered, crashed>>
    BY <1>4 DEF ServeStartBE
  <2> QED
    BY <2>1, <2>2
<1> QED
  BY <1>1, <1>2, <1>3, <1>4 DEF ServeWs

\* The manager's loop, and a client that leaves, keep types.
LEMMA LoopType == TypeOK /\ (LoopRegister \/ LoopUnregister \/ ClientLeaves) => TypeOK'
<1> SUFFICES ASSUME TypeOK, LoopRegister \/ LoopUnregister \/ ClientLeaves PROVE TypeOK'
  OBVIOUS
<1> USE BoundsAssumption DEF TypeOK, clientVars, pipes, incVars, writerVars, managerVars,
       outcVars
<1>1. CASE LoopRegister
  <2>0. registering' \in BOOLEAN
    BY <1>1, Zenon DEF LoopRegister
  <2>1. mapped' \in 0..MaxConns
    BY <1>1 DEF LoopRegister
  <2>2. UNCHANGED <<clientVars, pipes, incVars, rpc, writerVars, spc, unregister, hpc, hcon,
                    apc, outcVars, crashed>>
    BY <1>1 DEF LoopRegister
  <2> QED
    BY <2>0, <2>1, <2>2
<1>2. CASE LoopUnregister
  BY <1>2 DEF LoopUnregister
<1>3. CASE ClientLeaves
  <2>1. clientUp' \in BOOLEAN
    BY <1>3 DEF ClientLeaves
  <2>2. UNCHANGED <<conOpen, sent, pipes, incVars, rpc, writerVars, managerVars, outcVars,
                    crashed>>
    BY <1>3 DEF ClientLeaves
  <2> QED
    BY <2>1, <2>2
<1> QED
  BY <1>1, <1>2, <1>3

\* handleUnregistration keeps types; there is a slot for the writer it spawns.
LEMMA HandlerType ==
  ASSUME TypeOK, WriterSlots, NEW h \in Handlers, HandlerRuns(h) PROVE TypeOK'
<1> USE BoundsAssumption DEF TypeOK, clientVars, pipes, incVars, writerVars, managerVars,
       outcVars, HandlerGoto, handlerOnly
<1>1. CASE HandlerExists(h)
  BY <1>1 DEF HandlerExists
<1>2. CASE HandlerActive(h)
  BY <1>2 DEF HandlerActive
<1>3. CASE HandlerDialled(h)
  <2>1. /\ dialled' \in Conns
        /\ hcon' \in [Handlers -> 0..MaxConns]
    BY <1>3 DEF HandlerDialled, Conns
  <2>2. /\ link' \in [Conns -> {"none", "open", "lost", "closed", "shut"}]
        /\ hpc' = [hpc EXCEPT ![h] = "add"]
    BY <1>3 DEF HandlerDialled, newOutc
  <2>3. cache' \in [Conns -> Seq(Nat)]
    <3>1. CASE hcon[h] = 0
      BY <1>3, <3>1 DEF HandlerDialled, newOutc
    <3>2. CASE hcon[h] # 0
      <4>1. cache[hcon[h]] \in Seq(Nat)
        BY <3>2 DEF Conns
      <4>2. cache' = [cache EXCEPT ![dialled + 1] = cache[hcon[h]], ![hcon[h]] = <<>>]
        BY <1>3, <3>2 DEF HandlerDialled, newOutc
      <4>3. cache \in [Conns -> Seq(Nat)] /\ <<>> \in Seq(Nat)
        OBVIOUS
      <4> HIDE DEF TypeOK
      <4> QED
        BY <4>1, <4>2, <4>3
    <3> QED
      BY <3>1, <3>2
  <2>4. UNCHANGED <<clientVars, pipes, incVars, rpc, writerVars, spc, registering, unregister,
                    mapped, apc, shut, notify, orpc, owpc, flush, backSent, delivered, crashed>>
    BY <1>3 DEF HandlerDialled
  <2> QED
    BY <2>1, <2>2, <2>3, <2>4, SMTT(30)
<1>4. CASE HandlerDialFails(h)
  BY <1>4 DEF HandlerDialFails
<1>5. CASE HandlerClosed(h)
  BY <1>5 DEF HandlerClosed
<1>6. CASE HandlerRemove(h)
  BY <1>6 DEF HandlerRemove
<1>7. CASE HandlerAdd(h)
  BY <1>7 DEF HandlerAdd
<1>8. CASE HandlerResumeWaits(h)
  BY <1>8 DEF HandlerResumeWaits
<1>9. CASE HandlerResume(h)
  <2>1. writers + 1 \in 0..MaxConns
    BY <1>9 DEF HandlerResume, WriterSlots, Reattaching, Conns
  <2>2. crashed' \in BOOLEAN
    BY <1>9 DEF HandlerResume, resume, BkUnlock
  <2> QED
    <3>0. done' = <<>> /\ bkLock' = "free"
      BY <1>9, Zenon DEF HandlerResume, resume, BkUnlock
    <3>1. done' \in Seq(BOOLEAN) /\ Len(done') <= DoneCap
      BY <3>0
    <3>4. reinit' \in BOOLEAN
      BY <1>9, Zenon DEF HandlerResume, resume
    <3>2. /\ writers' \in 0..MaxConns
          /\ wpc' \in [Conns -> {"idle", "select", "cas", "lock", "lockWait", "unregister",
                                 "close", "end"}]
      BY <1>9, <2>1 DEF HandlerResume, resume, SpawnWriter
    <3>3. /\ hpc' = [hpc EXCEPT ![h] = "start"]
          /\ UNCHANGED <<clientVars, pipes, rpc, shutting, closeStep, spc, registering,
                         unregister, mapped, hcon, apc, outcVars>>
      BY <1>9 DEF HandlerResume, resume
    <3> QED
      BY <2>2, <3>0, <3>1, <3>2, <3>3, <3>4
<1>10. CASE HandlerStart(h)
  <2>1. /\ orpc' \in [Conns -> {"idle", "read", "forward", "notify", "end"}]
        /\ owpc' \in [Conns -> {"idle", "clear", "flush", "select", "notify", "end"}]
    BY <1>10 DEF HandlerStart, StartOutc
  <2>2. /\ hpc' = [hpc EXCEPT ![h] = "idle"] /\ hcon' = [hcon EXCEPT ![h] = 0]
        /\ UNCHANGED <<clientVars, pipes, incVars, rpc, writerVars, spc, registering,
                       unregister, mapped, apc, dialled, link, shut, notify, flush, cache,
                       backSent, delivered, crashed>>
    BY <1>10 DEF HandlerStart
  <2> QED
    BY <2>1, <2>2
<1> QED
  BY <1>1, <1>2, <1>3, <1>4, <1>5, <1>6, <1>7, <1>8, <1>9, <1>10 DEF HandlerRuns

-----------------------------------------------------------------------------
(* The token.                                                               *)

\* All that TokenInv speaks of.
tokenVars == <<rpc, wpc, writers, spc, unregister, hpc, reinit, bkLock, shutting, closeStep,
               dialled, crashed>>

\* The token invariant holds when the session starts.
LEMMA InitToken == Init => TokenInv
BY BoundsAssumption DEF Init, TokenInv, SingleWriter, SingleRedial, CrashOnlyWhenClosing,
     QuietBeforeStart, ClosedBeforeUnregister, OneToken, WriterSlots, TokenLock, Started,
     LiveWriter, Redialling, Deciding, Reattaching, BkReader

\* Steps that change none of tokenVars keep the token.
LEMMA UnchangedToken == TokenInv /\ UNCHANGED tokenVars => TokenInv'
BY DEF TokenInv, tokenVars, SingleWriter, SingleRedial, CrashOnlyWhenClosing,
     QuietBeforeStart, ClosedBeforeUnregister, OneToken, WriterSlots, TokenLock, Started,
     LiveWriter, Redialling, Deciding, Reattaching, BkReader

\* Nothing that a backend connection does concerns the token.
LEMMA BackendToken ==
  ASSUME TypeOK, TokenInv, NEW c \in Conns,
         BackendRuns(c) \/ BackendData(c) \/ BackendLost(c) \/ BackendCloses(c)
  PROVE  TokenInv'
<1>1. UNCHANGED tokenVars
  BY DEF BackendRuns, BackendReaderRuns, BackendForward, BackendReadError, BackendNotified,
    BackendWriterRuns, ClearCache, FlushWrite, FlushFails, TakeNormal, TakeWrite, TakeFails,
    PingFails, WriteErrorNotified, TakeDone, NotifySend, BackendData, BackendLost,
    BackendCloses, tokenVars, elsewhere, connVars, readerVars, beWriterVars, incVars,
    writerVars, managerVars, CloseOutc
<1> QED
  BY <1>1, UnchangedToken

\* The closeOnce body keeps the token invariant: from its first step on the
\* session is closing, and what is claimed of open sessions no longer applies.
LEMMA CloseToken ==
  ASSUME TypeOK, TokenInv, CloseBody PROVE TokenInv'
<1> USE BoundsAssumption DEF TypeOK, TokenInv, SingleWriter, SingleRedial,
       CrashOnlyWhenClosing, QuietBeforeStart, ClosedBeforeUnregister, OneToken, WriterSlots, TokenLock, Started, LiveWriter, Redialling,
       Deciding, Reattaching, BkReader, clientVars, pipes, incVars, writerVars, managerVars, outcVars
<1>1. CASE CloseBegin
  BY <1>1 DEF CloseBegin
<1>2. CASE CloseLock
  BY <1>2 DEF CloseLock
<1>3. CASE CloseSend
  BY <1>3 DEF CloseSend
<1>4. CASE CloseFinish
  BY <1>4 DEF CloseFinish, BkUnlock
<1> QED
  BY <1>1, <1>2, <1>3, <1>4 DEF CloseBody

\* The FE reader keeps the token: it unregisters only what is closed.
LEMMA ReaderToken ==
  ASSUME TypeOK, TokenInv, ReadData \/ ReaderRuns PROVE TokenInv'
<1> USE BoundsAssumption DEF TypeOK, TokenInv, SingleWriter, SingleRedial,
       CrashOnlyWhenClosing, QuietBeforeStart, ClosedBeforeUnregister, OneToken, WriterSlots, TokenLock, Started, LiveWriter, Redialling,
       Deciding, Reattaching, BkReader, clientVars, pipes, incVars, writerVars, managerVars, outcVars
<1>1. CASE ReadData
  BY <1>1 DEF ReadData
<1>2. CASE ReadError
  BY <1>2 DEF ReadError
<1>3. CASE LockBkConnection
  BY <1>3 DEF LockBkConnection
<1>4. CASE SendData
  BY <1>4 DEF SendData
<1>5. CASE SendNormalOnError
  BY <1>5 DEF SendNormalOnError
<1>6. CASE ReaderClosed
  BY <1>6 DEF ReaderClosed, CloseReturned
<1>7. CASE ReaderUnregister
  BY <1>7 DEF ReaderUnregister
<1> QED
  BY <1>1, <1>2, <1>3, <1>4, <1>5, <1>6, <1>7 DEF ReaderRuns

\* A live writer that goes on, or ends, keeps the token in one place.
LEMMA WriterMoves ==
  ASSUME TypeOK, TokenInv, NEW w \in Conns, LiveWriter(w),
         NEW pc \in {"select", "cas", "lock", "lockWait", "unregister", "close", "end"},
         wpc' = [wpc EXCEPT ![w] = pc],
         UNCHANGED <<rpc, writers, spc, unregister, hpc, shutting, closeStep, dialled, crashed>>
  PROVE  /\ SingleWriter' /\ SingleRedial' /\ CrashOnlyWhenClosing' /\ QuietBeforeStart'
         /\ ClosedBeforeUnregister' /\ OneToken' /\ WriterSlots'
<1> USE DEF TypeOK, TokenInv, LiveWriter
<1>0. Started
  BY DEF QuietBeforeStart
<1>1. SingleWriter'
  BY SMTT(30) DEF SingleWriter, Redialling
<1>2. SingleRedial' /\ CrashOnlyWhenClosing' /\ ClosedBeforeUnregister'
  BY DEF SingleRedial, CrashOnlyWhenClosing, ClosedBeforeUnregister, Redialling
<1>3. QuietBeforeStart'
  BY <1>0 DEF Started, QuietBeforeStart
<1>4. OneToken'
  BY DEF OneToken, Deciding, Redialling
<1>5. WriterSlots'
  BY DEF WriterSlots, Reattaching
<1> QED
  BY <1>1, <1>2, <1>3, <1>4, <1>5

\* What a live writer of a session nobody closes can count on: it is the only
\* one, nothing is on its way to a handler and no handler is at work.
LEMMA WriterAlone ==
  ASSUME TypeOK, TokenInv, NEW w \in Conns, LiveWriter(w)
  PROVE  /\ \A v \in Conns : LiveWriter(v) => v = w
         /\ \A h \in Handlers : ~Redialling(h)
         /\ ~shutting => unregister = 0 /\ \A h \in Handlers : ~Deciding(h)
<1>1. ~shutting => unregister # 1 /\ unregister <= 1
  BY DEF TokenInv, OneToken
<1>2. unregister \in Nat
  BY DEF TypeOK
<1>3. ~shutting => unregister = 0
  BY <1>1, <1>2
<1> QED
  BY <1>3 DEF TokenInv, SingleWriter, OneToken

\* The FE writer keeps the token or hands it over to mgr.unregister, together
\* with the lock.
LEMMA WriterToken ==
  ASSUME TypeOK, TokenInv, NEW w \in Conns, WriterRuns(w) PROVE TokenInv'
<1> USE DEF writerVars, incVars, managerVars, clientVars, pipes, outcVars
<1>0. LiveWriter(w)
  BY DEF WriterRuns, WriterReceive, WriterDone, WriterCas, WriterLockWait, WriterLock,
    WriterUnregister, WriterClosed, LiveWriter
<1>a. wpc \in [Conns -> {"idle", "select", "cas", "lock", "lockWait", "unregister", "close",
                        "end"}]
  BY DEF TypeOK
<1>b. bkLock = "held" => ~BkReader
  BY DEF TokenInv, TokenLock
<1>c. ~shutting => /\ wpc[w] \in {"select", "cas", "close"} => ~reinit /\ bkLock = "free"
                   /\ wpc[w] = "lock" => reinit /\ bkLock = "free"
                   /\ wpc[w] = "lockWait" => reinit /\ bkLock = "waiting"
                   /\ wpc[w] = "unregister" => reinit /\ bkLock = "held"
  BY DEF TokenInv, TokenLock
<1>d. ASSUME NEW pc \in {"select", "cas", "lock", "lockWait", "unregister", "close", "end"},
             wpc' = [wpc EXCEPT ![w] = pc],
             UNCHANGED <<rpc, writers, spc, unregister, hpc, shutting, closeStep, dialled,
                         crashed>>,
             bkLock' = "held" => ~BkReader,
             ~shutting => /\ pc \in {"select", "cas", "close"} => ~reinit' /\ bkLock' = "free"
                          /\ pc = "lock" => reinit' /\ bkLock' = "free"
                          /\ pc = "lockWait" => reinit' /\ bkLock' = "waiting"
                          /\ pc = "unregister" => reinit' /\ bkLock' = "held"
      PROVE  TokenInv'
  <2>1. TokenLock'
    <3>1. \A v \in Conns : v # w => ~LiveWriter(v)
      BY <1>0, WriterAlone
    <3>2. \A v \in Conns : v # w => wpc'[v] \in {"idle", "end"}
      BY <1>a, <1>d, <3>1 DEF LiveWriter
    <3>3. ~shutting => unregister = 0 /\ \A h \in Handlers : ~Deciding(h) /\ ~Redialling(h)
      BY <1>0, WriterAlone
    <3>4. wpc'[w] = pc
      BY <1>a, <1>d
    <3> QED
      BY <1>d, <3>2, <3>3, <3>4 DEF TokenLock, BkReader, Deciding, Redialling
  <2> QED
    BY <1>0, <1>d, <2>1, WriterMoves DEF TokenInv
<1>1. CASE WriterReceive(w)
  <2>1. PICK pc \in {"select", "close", "cas"} : wpc' = [wpc EXCEPT ![w] = pc]
    BY <1>1 DEF WriterReceive, WriterGoto
  <2>2. wpc[w] = "select" /\ UNCHANGED <<rpc, writers, spc, unregister, hpc, shutting,
          closeStep, dialled, crashed, reinit, bkLock>>
    BY <1>1 DEF WriterReceive, WriterGoto
  <2> QED
    BY <1>b, <1>c, <1>d, <2>1, <2>2
<1>2. CASE WriterDone(w)
  <2>1. PICK pc \in {"close", "cas"} : wpc' = [wpc EXCEPT ![w] = pc]
    BY <1>2 DEF WriterDone, WriterGoto
  <2>2. wpc[w] = "select" /\ UNCHANGED <<rpc, writers, spc, unregister, hpc, shutting,
          closeStep, dialled, crashed, reinit, bkLock>>
    BY <1>2 DEF WriterDone, WriterGoto
  <2> QED
    BY <1>b, <1>c, <1>d, <2>1, <2>2
<1>3. CASE WriterCas(w)
  <2>1. PICK pc \in {"lock", "end"} :
          wpc' = [wpc EXCEPT ![w] = pc] /\ (~reinit => pc = "lock")
    BY <1>3 DEF WriterCas, WriterGoto
  <2>2. wpc[w] = "cas" /\ reinit' = TRUE /\ UNCHANGED <<rpc, writers, spc, unregister, hpc,
          shutting, closeStep, dialled, crashed, bkLock>>
    BY <1>3 DEF WriterCas, WriterGoto
  <2> QED
    BY <1>b, <1>c, <1>d, <2>1, <2>2
<1>4. CASE WriterLockWait(w)
  <2>1. /\ wpc[w] = "lock" /\ wpc' = [wpc EXCEPT ![w] = "lockWait"] /\ bkLock' = "waiting"
        /\ UNCHANGED <<rpc, writers, spc, unregister, hpc, shutting, closeStep, dialled,
                       crashed, reinit>>
    BY <1>4 DEF WriterLockWait, WriterGoto
  <2> QED
    BY <1>c, <1>d, <2>1
<1>5. CASE WriterLock(w)
  <2>1. /\ wpc[w] \in {"lock", "lockWait"} /\ ~BkReader
        /\ wpc' = [wpc EXCEPT ![w] = "unregister"] /\ bkLock' = "held"
        /\ UNCHANGED <<rpc, writers, spc, unregister, hpc, shutting, closeStep, dialled,
                       crashed, reinit>>
    BY <1>5 DEF WriterLock, WriterGoto
  <2> QED
    BY <1>c, <1>d, <2>1
<1>6. CASE WriterUnregister(w)
  <2>1. /\ wpc[w] = "unregister" /\ wpc' = [wpc EXCEPT ![w] = "end"]
        /\ unregister' = unregister + 1
        /\ UNCHANGED <<rpc, writers, spc, hpc, shutting, closeStep, dialled, crashed, reinit,
                       bkLock>>
    BY <1>6 DEF WriterUnregister
  <2>2. \A v \in Conns : ~LiveWriter(v)'
    BY <1>0, <1>a, <2>1, WriterAlone DEF LiveWriter
  <2>3. ~shutting => /\ unregister' = 1
                     /\ \A h \in Handlers : ~Deciding(h) /\ ~Redialling(h)
    BY <1>0, <2>1, WriterAlone
  <2>4. Started
    BY <1>0 DEF LiveWriter, TokenInv, QuietBeforeStart
  <2>5. SingleWriter' /\ SingleRedial' /\ CrashOnlyWhenClosing' /\ ClosedBeforeUnregister'
    BY <2>1, <2>2 DEF TokenInv, SingleWriter, SingleRedial, CrashOnlyWhenClosing,
      ClosedBeforeUnregister, Redialling
  <2>6. QuietBeforeStart'
    BY <2>1, <2>4 DEF QuietBeforeStart, Started
  <2>7. OneToken'
    BY <2>1, <2>2, <2>3 DEF OneToken, Deciding, Redialling
  <2>8. WriterSlots'
    BY <1>a, <2>1 DEF TokenInv, WriterSlots, Reattaching, TypeOK, LiveWriter
  <2>9. TokenLock'
    BY <1>b, <1>c, <2>1, <2>2, <2>3 DEF TokenLock, BkReader, LiveWriter, Deciding, Redialling
  <2> QED
    BY <2>5, <2>6, <2>7, <2>8, <2>9 DEF TokenInv
<1>7. CASE WriterClosed(w)
  <2>1. /\ shutting /\ wpc' = [wpc EXCEPT ![w] = "end"]
        /\ UNCHANGED <<rpc, writers, spc, unregister, hpc, shutting, closeStep, dialled,
                       crashed, reinit, bkLock>>
    BY <1>7 DEF WriterClosed, WriterGoto, CloseReturned, TokenInv, ClosedBeforeUnregister
  <2> QED
    BY <1>b, <1>d, <2>1
<1> QED
  BY <1>1, <1>2, <1>3, <1>4, <1>5, <1>6, <1>7 DEF WriterRuns

\* Admin requests do not touch the token.
LEMMA AdminToken ==
  ASSUME TypeOK, TokenInv, NEW a \in Admins, AdminRequest(a) \/ AdminRuns(a) PROVE TokenInv'
<1> USE BoundsAssumption DEF TypeOK, TokenInv, SingleWriter, SingleRedial,
       CrashOnlyWhenClosing, QuietBeforeStart, ClosedBeforeUnregister, OneToken, WriterSlots, TokenLock, Started, LiveWriter, Redialling,
       Deciding, Reattaching, BkReader, clientVars, pipes, incVars, writerVars, managerVars, outcVars, AdminGoto
<1>1. CASE AdminRequest(a)
  BY <1>1 DEF AdminRequest
<1>2. CASE AdminClosed(a)
  BY <1>2 DEF AdminClosed
<1>3. CASE AbortLock(a)
  BY <1>3 DEF AbortLock
<1>4. CASE AbortDone(a)
  BY <1>4 DEF AbortDone
<1>5. CASE AbortSend(a)
  BY <1>5 DEF AbortSend
<1> QED
  BY <1>1, <1>2, <1>3, <1>4, <1>5 DEF AdminRuns

\* ServeWs creates the token with the first writer.
LEMMA ServeToken ==
  ASSUME TypeOK, TokenInv, ServeWs PROVE TokenInv'
<1> USE BoundsAssumption DEF TypeOK, TokenInv, SingleWriter, SingleRedial,
       CrashOnlyWhenClosing, QuietBeforeStart, ClosedBeforeUnregister, OneToken, WriterSlots, TokenLock, Started, LiveWriter, Redialling,
       Deciding, Reattaching, BkReader, clientVars, pipes, incVars, writerVars, managerVars, outcVars
<1>1. CASE ServeRegister
  BY <1>1 DEF ServeRegister
<1>2. CASE ServeStartWaits
  BY <1>2 DEF ServeStartWaits
<1>3. CASE ServeStartFE
  BY <1>3, SMTT(30) DEF ServeStartFE, Start, SpawnWriter, Conns
<1>4. CASE ServeStartBE
  BY <1>4 DEF ServeStartBE, StartOutc
<1> QED
  BY <1>1, <1>2, <1>3, <1>4 DEF ServeWs

\* The loop turns an entry of mgr.unregister into a handler that decides.
LEMMA LoopHandsOver == ASSUME TypeOK, TokenInv, LoopUnregister PROVE TokenInv'
<1>1. PICK h \in Handlers : hpc[h] = "idle" /\ hpc' = [hpc EXCEPT ![h] = "exists"]
  BY DEF LoopUnregister
<1>2. /\ unregister > 0 /\ unregister' = unregister - 1
      /\ UNCHANGED <<rpc, wpc, writers, spc, reinit, bkLock, shutting, closeStep, dialled,
                     crashed>>
  BY DEF LoopUnregister, incVars, writerVars, outcVars
<1>3. hpc \in [Handlers -> {"idle", "exists", "active", "dial", "add", "resume",
                           "resumeWait", "start", "close", "remove"}]
  BY DEF TypeOK
<1>4. unregister \in Nat
  BY DEF TypeOK
<1>5. /\ \A g \in Handlers : Redialling(g)' <=> Redialling(g)
      /\ \A g \in Handlers : Reattaching(g)' <=> Reattaching(g)
      /\ \A g \in Handlers : Deciding(g)' <=> Deciding(g) \/ g = h
      /\ \A w \in Conns : LiveWriter(w)' <=> LiveWriter(w)
  BY <1>1, <1>2, <1>3 DEF Redialling, Reattaching, Deciding, LiveWriter
<1>6. SingleWriter' /\ SingleRedial' /\ CrashOnlyWhenClosing' /\ ClosedBeforeUnregister'
  BY <1>2, <1>5 DEF TokenInv, SingleWriter, SingleRedial, CrashOnlyWhenClosing,
    ClosedBeforeUnregister
<1>7. QuietBeforeStart'
  BY <1>2 DEF TokenInv, QuietBeforeStart, Started
<1>8. ~shutting => /\ unregister = 1 /\ reinit /\ bkLock = "held"
                   /\ \A w \in Conns : ~LiveWriter(w)
                   /\ \A g \in Handlers : ~Deciding(g) /\ ~Redialling(g)
  BY <1>2, <1>4 DEF TokenInv, OneToken, TokenLock
<1>9. OneToken'
  BY <1>2, <1>5, <1>8 DEF OneToken
<1>10. WriterSlots'
  BY <1>2, <1>5 DEF TokenInv, WriterSlots
<1>11. TokenLock'
  BY <1>2, <1>5, <1>8 DEF TokenInv, TokenLock, BkReader, LiveWriter
<1> QED
  BY <1>6, <1>7, <1>9, <1>10, <1>11 DEF TokenInv

\* The manager's loop passes the token on.
LEMMA LoopToken ==
  ASSUME TypeOK, TokenInv, LoopRegister \/ LoopUnregister \/ ClientLeaves PROVE TokenInv'
<1> USE BoundsAssumption DEF TypeOK, TokenInv, SingleWriter, SingleRedial,
       CrashOnlyWhenClosing, QuietBeforeStart, ClosedBeforeUnregister, OneToken, WriterSlots, TokenLock, Started, LiveWriter, Redialling,
       Deciding, Reattaching, BkReader, clientVars, pipes, incVars, writerVars, managerVars, outcVars
<1>1. CASE LoopRegister
  BY <1>1 DEF LoopRegister
<1>2. CASE LoopUnregister
  BY <1>2, LoopHandsOver
<1>3. CASE ClientLeaves
  BY <1>3 DEF ClientLeaves
<1> QED
  BY <1>1, <1>2, <1>3

\* The dialer's answer: the handler now has a connection in hand.
LEMMA DialledToken ==
  ASSUME TypeOK, TokenInv, NEW h \in Handlers, HandlerDialled(h) PROVE TokenInv'
<1>1. /\ hpc[h] = "dial" /\ hpc' = [hpc EXCEPT ![h] = "add"] /\ dialled' = dialled + 1
      /\ UNCHANGED <<rpc, wpc, writers, spc, unregister, reinit, bkLock, shutting, closeStep,
                     crashed>>
  BY DEF HandlerDialled, HandlerGoto, incVars, writerVars
<1>2. hpc \in [Handlers -> {"idle", "exists", "active", "dial", "add", "resume",
                           "resumeWait", "start", "close", "remove"}]
  BY DEF TypeOK
<1>3. writers \in Nat /\ dialled \in Nat
  BY BoundsAssumption DEF TypeOK, Conns
<1>4. /\ \A g \in Handlers : Redialling(g)' <=> Redialling(g)
      /\ \A g \in Handlers : Deciding(g)' <=> Deciding(g)
      /\ \A w \in Conns : LiveWriter(w)' <=> LiveWriter(w)
  BY <1>1, <1>2 DEF Redialling, Deciding, LiveWriter
<1>5. SingleWriter' /\ SingleRedial' /\ CrashOnlyWhenClosing' /\ ClosedBeforeUnregister'
  BY <1>1, <1>4 DEF TokenInv, SingleWriter, SingleRedial, CrashOnlyWhenClosing,
    ClosedBeforeUnregister
<1>6. QuietBeforeStart'
  BY <1>1 DEF TokenInv, QuietBeforeStart, Started
<1>7. OneToken'
  BY <1>1, <1>4 DEF TokenInv, OneToken
<1>8. WriterSlots'
  BY <1>1, <1>3 DEF TokenInv, WriterSlots
<1>9. TokenLock'
  BY <1>1, <1>4 DEF TokenInv, TokenLock, BkReader, LiveWriter
<1> QED
  BY <1>5, <1>6, <1>7, <1>8, <1>9 DEF TokenInv

\* resume: the token goes from the handler to the writer it spawns, and the
\* lock from the session back to the reader.
LEMMA ResumeToken ==
  ASSUME TypeOK, TokenInv, NEW h \in Handlers, HandlerResume(h) PROVE TokenInv'
<1> DEFINE w == writers + 1
<1>1. /\ hpc[h] \in {"resume", "resumeWait"} /\ hpc' = [hpc EXCEPT ![h] = "start"]
      /\ writers' = w /\ wpc' = [wpc EXCEPT ![w] = "select"]
      /\ reinit' = FALSE /\ bkLock' = "free"
      /\ UNCHANGED <<rpc, spc, unregister, shutting, closeStep, dialled>>
  BY DEF HandlerResume, HandlerGoto, resume, SpawnWriter, BkUnlock, outcVars
<1>2. /\ hpc \in [Handlers -> {"idle", "exists", "active", "dial", "add", "resume",
                              "resumeWait", "start", "close", "remove"}]
      /\ wpc \in [Conns -> {"idle", "select", "cas", "lock", "lockWait", "unregister",
                            "close", "end"}]
  BY DEF TypeOK
<1>3. Redialling(h) /\ Reattaching(h)
  BY <1>1 DEF Redialling, Reattaching
<1>4. writers < dialled /\ w \in Conns
  BY <1>3, BoundsAssumption DEF TokenInv, WriterSlots, TypeOK, Conns
<1>5. Started
  BY <1>1 DEF TokenInv, QuietBeforeStart
<1>6. /\ \A g \in Handlers : ~Redialling(g)' /\ ~Reattaching(g)'
      /\ \A g \in Handlers : Deciding(g)' <=> Deciding(g)
  <2>1. \A g \in Handlers : Redialling(g) => g = h
    BY <1>3 DEF TokenInv, SingleRedial
  <2> QED
    BY <1>1, <1>2, <2>1 DEF Redialling, Reattaching, Deciding
<1>7. \A v \in Conns : LiveWriter(v)' <=> v = w
  <2>1. \A v \in Conns : ~LiveWriter(v)
    BY <1>3 DEF TokenInv, SingleWriter
  <2> QED
    BY <1>1, <1>2, <1>4, <2>1 DEF LiveWriter
<1>8. ~shutting => unregister = 0 /\ \A g \in Handlers : ~Deciding(g)
  BY <1>3 DEF TokenInv, OneToken, TypeOK
<1>9. SingleWriter' /\ SingleRedial' /\ ClosedBeforeUnregister'
  BY <1>1, <1>6, <1>7 DEF TokenInv, SingleWriter, SingleRedial, ClosedBeforeUnregister
<1>10. CrashOnlyWhenClosing'
  <2>1. ~shutting => bkLock = "held"
    BY <1>3 DEF TokenInv, TokenLock
  <2>2. bkLock # "free" => ~crashed'
    BY DEF HandlerResume, resume, BkUnlock
  <2> QED
    BY <1>1, <2>1, <2>2 DEF CrashOnlyWhenClosing
<1>11. QuietBeforeStart'
  BY <1>1, <1>5 DEF QuietBeforeStart, Started
<1>12. OneToken'
  BY <1>1, <1>6, <1>7, <1>8 DEF OneToken
<1>13. WriterSlots'
  <2>1. \A v \in Conns : v > w => wpc'[v] = "idle"
    <3>1. \A v \in Conns : v > w => v > writers /\ v # w
      BY DEF TypeOK, Conns
    <3> QED
      BY <1>1, <1>2, <3>1 DEF TokenInv, WriterSlots
  <2>2. w <= dialled
    BY <1>4 DEF TypeOK, Conns
  <2> QED
    BY <1>1, <1>6, <2>1, <2>2 DEF WriterSlots
<1>14. TokenLock'
  <2>1. \A v \in Conns : wpc'[v] \in {"select", "idle", "end"}
    BY <1>1, <1>2, <1>4, <1>7 DEF LiveWriter
  <2> QED
    BY <1>1, <1>6, <1>8, <2>1 DEF TokenLock
<1> QED
  BY <1>9, <1>10, <1>11, <1>12, <1>13, <1>14 DEF TokenInv

\* handleUnregistration keeps the token, drops it with a closed session, or gives
\* it to the next writer.
LEMMA HandlerToken ==
  ASSUME TypeOK, TokenInv, NEW h \in Handlers, HandlerRuns(h) PROVE TokenInv'
<1> USE BoundsAssumption DEF TypeOK, TokenInv, SingleWriter, SingleRedial,
       CrashOnlyWhenClosing, QuietBeforeStart, ClosedBeforeUnregister, OneToken, WriterSlots, TokenLock, Started, LiveWriter, Redialling,
       Deciding, Reattaching, BkReader, clientVars, pipes, incVars, writerVars, managerVars, outcVars, HandlerGoto, handlerOnly
<1>1. CASE HandlerExists(h)
  BY <1>1 DEF HandlerExists
<1>2. CASE HandlerActive(h)
  BY <1>2 DEF HandlerActive
<1>3. CASE HandlerDialFails(h)
  BY <1>3 DEF HandlerDialFails
<1>4. CASE HandlerClosed(h)
  BY <1>4 DEF HandlerClosed
<1>5. CASE HandlerRemove(h)
  BY <1>5 DEF HandlerRemove
<1>6. CASE HandlerAdd(h)
  BY <1>6 DEF HandlerAdd
<1>7. CASE HandlerResumeWaits(h)
  BY <1>7 DEF HandlerResumeWaits
<1>8. CASE HandlerDialled(h)
  BY <1>8, DialledToken
<1>9. CASE HandlerResume(h)
  BY <1>9, ResumeToken
<1>10. CASE HandlerStart(h)
  BY <1>10 DEF HandlerStart, StartOutc
<1> QED
  BY <1>1, <1>2, <1>3, <1>4, <1>5, <1>6, <1>7, <1>8, <1>9, <1>10 DEF HandlerRuns

-----------------------------------------------------------------------------
(* Theorems.                                                                *)

\* Every step of the system, and stuttering, preserves types and the token.
LEMMA StepInv == TypeOK /\ TokenInv /\ [Next]_vars => (TypeOK /\ TokenInv)'
<1> SUFFICES ASSUME TypeOK, TokenInv, [Next]_vars PROVE TypeOK' /\ TokenInv'
  OBVIOUS
<1>0. QuietBeforeStart /\ WriterSlots
  BY DEF TokenInv
<1>1. CASE UNCHANGED vars
  <2>1. TypeOK'
    BY <1>1 DEF TypeOK, vars, clientVars, pipes, incVars, writerVars, managerVars, outcVars
  <2>2. UNCHANGED tokenVars
    BY <1>1 DEF tokenVars, vars, incVars, writerVars, managerVars, outcVars
  <2> QED
    BY <2>1, <2>2, UnchangedToken
<1>2. CASE ReadData \/ ReaderRuns
  BY <1>2, ReaderType, ReaderToken
<1>3. CASE CloseBody
  BY <1>3, CloseType, CloseToken
<1>4. CASE \E w \in Conns : WriterRuns(w)
  BY <1>4, WriterType, WriterToken
<1>5. CASE \E c \in Conns : BackendRuns(c) \/ BackendData(c) \/ BackendLost(c)
                             \/ BackendCloses(c)
  <2>1. PICK c \in Conns : BackendRuns(c) \/ BackendData(c) \/ BackendLost(c)
                             \/ BackendCloses(c)
    BY <1>5
  <2>2. TypeOK'
    BY <2>1, BackendReaderType, BackendWriterType, LinkType DEF BackendRuns
  <2> QED
    BY <2>1, <2>2, BackendToken
<1>6. CASE \E a \in Admins : AdminRequest(a) \/ AdminRuns(a)
  BY <1>6, AdminType, AdminToken
<1>7. CASE \E h \in Handlers : HandlerRuns(h)
  BY <1>0, <1>7, HandlerType, HandlerToken
<1>8. CASE ServeWs
  BY <1>0, <1>8, ServeType, ServeToken
<1>9. CASE LoopRegister \/ LoopUnregister \/ ClientLeaves
  BY <1>9, LoopType, LoopToken
<1> QED
  BY <1>1, <1>2, <1>3, <1>4, <1>5, <1>6, <1>7, <1>8, <1>9 DEF Next, Environment, Balancer

\* The inductive invariant: a session that nobody closes has one token, and the
\* token's holder knows the state of bkConnectionLock.
THEOREM TokenHolds == Spec => [](TypeOK /\ TokenInv)
<1>1. Init => TypeOK /\ TokenInv
  BY InitType, InitToken
<1> QED
  BY <1>1, StepInv, PTL DEF Spec

\* Every variable keeps its type and no channel exceeds its capacity, for every
\* capacity and number of goroutines.
THEOREM TypeCorrect == Spec => []TypeOK
BY TokenHolds, PTL

\* Two FE writers never run at once, nor one beside a handler that is replacing
\* the backend connection, whatever failures and admin requests overlap.
THEOREM OneWriterAtATime == Spec => []SingleWriter
<1>1. TokenInv => SingleWriter
  BY DEF TokenInv
<1> QED
  BY <1>1, TokenHolds, PTL

\* One failure never makes two handlers dial for the same client.
THEOREM OneRedialAtATime == Spec => []SingleRedial
<1>1. TokenInv => SingleRedial
  BY DEF TokenInv
<1> QED
  BY <1>1, TokenHolds, PTL

\* While a session that nobody closes is being reconnected its reader forwards
\* nothing.
THEOREM ReaderWaitsForRedial == Spec => []ReaderHeldBack
<1>1. TokenInv => ReaderHeldBack
  BY DEF TokenInv, TokenLock, ReaderHeldBack
<1> QED
  BY <1>1, TokenHolds, PTL

\* A session that nobody closes cannot take the process down.
THEOREM OnlyClosingCrashes == Spec => []CrashOnlyWhenClosing
<1>1. TokenInv => CrashOnlyWhenClosing
  BY DEF TokenInv
<1> QED
  BY <1>1, TokenHolds, PTL

=============================================================================
