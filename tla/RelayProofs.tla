----------------------------- MODULE RelayProofs -----------------------------
(***************************************************************************)
(* Proofs about where the client's messages go in Session: no message is   *)
(* sent twice, none overtakes another on a connection, and the session     *)
(* keeps the promise that Relay states.  With the types and the token of   *)
(* SessionProofs, for every value of the constants.                        *)
(***************************************************************************)
EXTENDS SessionProofs

-----------------------------------------------------------------------------
(* Sequences of message numbers.                                            *)

\* The empty sequence has no numbers.
LEMMA EmptyRises == ToSet(<<>>) = {} /\ Rising(<<>>)
BY DEF ToSet, Rising

\* A number appended to smaller ones.
LEMMA AppendRises ==
  \A s \in Seq(Nat), n \in Nat :
    /\ ToSet(Append(s, n)) = ToSet(s) \cup {n}
    /\ Rising(s) /\ Before(ToSet(s), {n}) => Rising(Append(s, n))
<1> SUFFICES ASSUME NEW s \in Seq(Nat), NEW n \in Nat
             PROVE  /\ ToSet(Append(s, n)) = ToSet(s) \cup {n}
                    /\ Rising(s) /\ Before(ToSet(s), {n}) => Rising(Append(s, n))
  OBVIOUS
<1> DEFINE t == Append(s, n)
<1>1. PICK N \in Nat : /\ DOMAIN t = 1..(N + 1) /\ DOMAIN s = 1..N
                       /\ \A i \in 1..N : t[i] = s[i]
                       /\ t[N + 1] = n
  <2>1. /\ t \in Seq(Nat) /\ Len(t) = Len(s) + 1 /\ Len(s) \in Nat
        /\ \A i \in 1..Len(s) : t[i] = s[i]
        /\ t[Len(s) + 1] = n
    BY AppendProperties, LenProperties
  <2> QED
    BY <2>1, LenProperties
<1> HIDE DEF t
<1>2. ToSet(t) = ToSet(s) \cup {n}
  <2>1. ToSet(t) \subseteq ToSet(s) \cup {n}
    BY <1>1 DEF ToSet
  <2>2. n \in ToSet(t) /\ \A i \in DOMAIN s : s[i] \in ToSet(t)
    BY <1>1 DEF ToSet
  <2> QED
    BY <2>1, <2>2 DEF ToSet
<1>3. ASSUME Rising(s), Before(ToSet(s), {n}) PROVE Rising(t)
  <2>1. \A i \in DOMAIN s : s[i] < n
    BY <1>3 DEF Before, ToSet
  <2> QED
    BY <1>1, <1>3, <2>1 DEF Rising
<1> QED
  BY <1>2, <1>3 DEF t

\* The first number of a rising sequence is smaller than the others.
LEMMA TailRises ==
  \A s \in Seq(Nat) : s # <<>> =>
    /\ Head(s) \in Nat /\ Tail(s) \in Seq(Nat)
    /\ ToSet(s) = {Head(s)} \cup ToSet(Tail(s))
    /\ Rising(s) => Rising(Tail(s)) /\ Before({Head(s)}, ToSet(Tail(s)))
    /\ Len(s) = 1 => Tail(s) = <<>>
<1> SUFFICES ASSUME NEW s \in Seq(Nat), s # <<>>
             PROVE  /\ Head(s) \in Nat /\ Tail(s) \in Seq(Nat)
                    /\ ToSet(s) = {Head(s)} \cup ToSet(Tail(s))
                    /\ Rising(s) => Rising(Tail(s)) /\ Before({Head(s)}, ToSet(Tail(s)))
                    /\ Len(s) = 1 => Tail(s) = <<>>
  OBVIOUS
<1> DEFINE t == Tail(s)
<1>0. /\ t \in Seq(Nat) /\ Len(t) = Len(s) - 1 /\ Len(s) \in Nat \ {0}
      /\ \A i \in 1..(Len(s) - 1) : t[i] = s[i + 1]
      /\ Head(s) = s[1] /\ s[1] \in Nat
  BY HeadTailProperties, LenProperties, EmptySeq, ElementOfSeq
<1>1. PICK N \in Nat : /\ DOMAIN t = 1..N /\ DOMAIN s = 1..(N + 1)
                       /\ \A i \in 1..N : t[i] = s[i + 1]
  <2>1. Len(t) \in Nat /\ Len(s) = Len(t) + 1
    BY <1>0, LenProperties
  <2> QED
    BY <1>0, <2>1, LenProperties, ZenonT(60)
<1> HIDE DEF t
<1>4. Len(s) = 1 => t = <<>>
  BY <1>0, EmptySeq
<1>5. 1 \in DOMAIN s /\ \A i \in DOMAIN t : i + 1 \in DOMAIN s /\ t[i] = s[i + 1] /\ 1 < i + 1
  BY <1>1
<1>2. ToSet(s) = {s[1]} \cup ToSet(t)
  <2>1. ToSet(s) \subseteq {s[1]} \cup ToSet(t)
    <3> SUFFICES ASSUME NEW i \in DOMAIN s PROVE s[i] \in {s[1]} \cup ToSet(t)
      BY DEF ToSet
    <3>1. CASE i = 1
      BY <3>1
    <3>2. CASE i # 1
      <4>1. i - 1 \in DOMAIN t /\ t[i - 1] = s[i]
        BY <1>1, <3>2
      <4> QED
        BY <4>1 DEF ToSet
    <3> QED
      BY <3>1, <3>2
  <2>2. s[1] \in ToSet(s) /\ \A i \in DOMAIN t : t[i] \in ToSet(s)
    BY <1>5 DEF ToSet
  <2> QED
    BY <2>1, <2>2 DEF ToSet
<1>3. ASSUME Rising(s) PROVE Rising(t) /\ Before({s[1]}, ToSet(t))
  <2>1. \A i \in DOMAIN t : s[1] < t[i]
    BY <1>3, <1>5 DEF Rising
  <2>2. Rising(t)
    <3> SUFFICES ASSUME NEW i \in DOMAIN t, NEW j \in DOMAIN t, i < j PROVE t[i] < t[j]
      BY DEF Rising
    <3>1. i + 1 < j + 1
      BY <1>1
    <3> QED
      BY <1>3, <1>5, <3>1 DEF Rising
  <2> QED
    BY <2>1, <2>2 DEF Before, ToSet
<1> QED
  BY <1>0, <1>2, <1>3, <1>4 DEF t

\* Two rising sequences, one before the other.
LEMMA ConcatRises ==
  \A s, t \in Seq(Nat) :
    /\ ToSet(s \o t) = ToSet(s) \cup ToSet(t)
    /\ Rising(s) /\ Rising(t) /\ Before(ToSet(s), ToSet(t)) => Rising(s \o t)
<1> SUFFICES ASSUME NEW s \in Seq(Nat), NEW t \in Seq(Nat)
             PROVE  /\ ToSet(s \o t) = ToSet(s) \cup ToSet(t)
                    /\ Rising(s) /\ Rising(t) /\ Before(ToSet(s), ToSet(t))
                         => Rising(s \o t)
  OBVIOUS
<1> DEFINE u == s \o t
<1>1. PICK N \in Nat, M \in Nat :
        /\ DOMAIN u = 1..(N + M) /\ DOMAIN s = 1..N /\ DOMAIN t = 1..M
        /\ \A i \in 1..(N + M) : u[i] = IF i <= N THEN s[i] ELSE t[i - N]
  <2>1. /\ u \in Seq(Nat) /\ Len(u) = Len(s) + Len(t) /\ Len(s) \in Nat /\ Len(t) \in Nat
        /\ \A i \in 1..(Len(s) + Len(t)) :
              u[i] = IF i <= Len(s) THEN s[i] ELSE t[i - Len(s)]
    BY ConcatProperties, LenProperties
  <2> QED
    BY <2>1, LenProperties
<1> HIDE DEF u
<1>2. \A i \in DOMAIN s : i \in DOMAIN u /\ u[i] = s[i]
  BY <1>1
<1>3. \A j \in DOMAIN t : N + j \in DOMAIN u /\ u[N + j] = t[j]
  BY <1>1
<1>4. \A i \in DOMAIN u : \/ i \in DOMAIN s /\ u[i] = s[i]
                          \/ i - N \in DOMAIN t /\ u[i] = t[i - N] /\ i > N
  <2> SUFFICES ASSUME NEW i \in DOMAIN u
               PROVE  \/ i \in DOMAIN s /\ u[i] = s[i]
                      \/ i - N \in DOMAIN t /\ u[i] = t[i - N] /\ i > N
    OBVIOUS
  <2>1. i \in 1..(N + M) /\ u[i] = IF i <= N THEN s[i] ELSE t[i - N]
    BY <1>1
  <2>2. i \in 1..N \/ (i - N \in 1..M /\ i > N)
    BY <2>1
  <2> QED
    BY <1>1, <2>1, <2>2
<1>5. ToSet(u) = ToSet(s) \cup ToSet(t)
  <2>1. ToSet(u) \subseteq ToSet(s) \cup ToSet(t)
    BY <1>4 DEF ToSet
  <2>2. ToSet(s) \subseteq ToSet(u)
    BY <1>2 DEF ToSet
  <2>3. ToSet(t) \subseteq ToSet(u)
    BY <1>3 DEF ToSet
  <2> QED
    BY <2>1, <2>2, <2>3
<1>6. ASSUME Rising(s), Rising(t), Before(ToSet(s), ToSet(t)) PROVE Rising(u)
  <2>1. \A i \in DOMAIN s, j \in DOMAIN t : s[i] < t[j]
    BY <1>6 DEF Before, ToSet
  <2> SUFFICES ASSUME NEW i \in DOMAIN u, NEW j \in DOMAIN u, i < j PROVE u[i] < u[j]
    BY DEF Rising
  <2>2. CASE i <= N /\ j <= N
    BY <1>1, <1>6, <2>2 DEF Rising
  <2>3. CASE i <= N /\ j > N
    <3>1. i \in DOMAIN s /\ u[i] = s[i]
      BY <1>1, <2>3
    <3>2. j - N \in DOMAIN t /\ u[j] = t[j - N]
      BY <1>1, <1>4, <2>3
    <3> QED
      BY <2>1, <3>1, <3>2
  <2>4. CASE i > N
    <3>1. /\ i - N \in DOMAIN t /\ j - N \in DOMAIN t /\ i - N < j - N
          /\ u[i] = t[i - N] /\ u[j] = t[j - N]
      BY <1>1, <2>4
    <3> QED
      BY <3>1, <1>6 DEF Rising
  <2> QED
    BY <1>1, <2>2, <2>3, <2>4
<1> QED
  BY <1>5, <1>6 DEF u

\* A message appended to a channel: a data message is to have the largest number.
LEMMA AppendData ==
  \A q \in Seq(Messages), m \in Messages :
    /\ m.type = "data" => DataIn(Append(q, m)) = DataIn(q) \cup {m.id}
    /\ m.type # "data" => DataIn(Append(q, m)) = DataIn(q)
    /\ RisingData(q) /\ (m.type = "data" => Before(DataIn(q), {m.id}))
         => RisingData(Append(q, m))
<1> SUFFICES ASSUME NEW q \in Seq(Messages), NEW m \in Messages
             PROVE  /\ m.type = "data" => DataIn(Append(q, m)) = DataIn(q) \cup {m.id}
                    /\ m.type # "data" => DataIn(Append(q, m)) = DataIn(q)
                    /\ RisingData(q) /\ (m.type = "data" => Before(DataIn(q), {m.id}))
                         => RisingData(Append(q, m))
  OBVIOUS
<1> DEFINE t == Append(q, m)
<1>1. PICK N \in Nat : /\ DOMAIN t = 1..(N + 1) /\ DOMAIN q = 1..N
                       /\ \A i \in 1..N : t[i] = q[i]
                       /\ t[N + 1] = m
  <2>1. /\ t \in Seq(Messages) /\ Len(t) = Len(q) + 1 /\ Len(q) \in Nat
        /\ \A i \in 1..Len(q) : t[i] = q[i]
        /\ t[Len(q) + 1] = m
    BY AppendProperties, LenProperties
  <2> QED
    BY <2>1, LenProperties
<1> HIDE DEF t
<1>2. DataIn(t) = DataIn(q) \cup {n \in {m.id} : m.type = "data"}
  <2>1. DataIn(t) \subseteq DataIn(q) \cup {n \in {m.id} : m.type = "data"}
    BY <1>1 DEF DataIn
  <2>2. DataIn(q) \subseteq DataIn(t)
    BY <1>1 DEF DataIn
  <2>3. m.type = "data" => m.id \in DataIn(t)
    BY <1>1 DEF DataIn
  <2> QED
    BY <2>1, <2>2, <2>3
<1>3. ASSUME RisingData(q), m.type = "data" => Before(DataIn(q), {m.id})
      PROVE  RisingData(t)
  <2>1. \A i \in DOMAIN q : q[i].type = "data" /\ m.type = "data" => q[i].id < m.id
    BY <1>3 DEF Before, DataIn
  <2> QED
    BY <1>1, <1>3, <2>1 DEF RisingData
<1> QED
  <2>1. m.type = "data" => {n \in {m.id} : m.type = "data"} = {m.id}
    OBVIOUS
  <2>2. m.type # "data" => {n \in {m.id} : m.type = "data"} = {}
    OBVIOUS
  <2> QED
    BY <1>2, <1>3, <2>1, <2>2 DEF t

\* A message taken from a channel: a data message is smaller than those left.
LEMMA TailData ==
  \A q \in Seq(Messages) : q # <<>> =>
    /\ DataIn(Tail(q)) \subseteq DataIn(q)
    /\ RisingData(q) => RisingData(Tail(q))
    /\ Head(q).type = "data" =>
         /\ Head(q).id \in DataIn(q)
         /\ RisingData(q) => Before({Head(q).id}, DataIn(Tail(q)))
<1> SUFFICES ASSUME NEW q \in Seq(Messages), q # <<>>
             PROVE  /\ DataIn(Tail(q)) \subseteq DataIn(q)
                    /\ RisingData(q) => RisingData(Tail(q))
                    /\ Head(q).type = "data" =>
                         /\ Head(q).id \in DataIn(q)
                         /\ RisingData(q) => Before({Head(q).id}, DataIn(Tail(q)))
  OBVIOUS
<1> DEFINE t == Tail(q)
<1>1. PICK N \in Nat : /\ DOMAIN t = 1..N /\ DOMAIN q = 1..(N + 1)
                       /\ \A i \in 1..N : t[i] = q[i + 1]
                       /\ Head(q) = q[1]
  <2>1. /\ t \in Seq(Messages) /\ Len(t) = Len(q) - 1 /\ Len(q) \in Nat \ {0}
        /\ \A i \in 1..(Len(q) - 1) : t[i] = q[i + 1]
        /\ Head(q) = q[1]
    BY HeadTailProperties, LenProperties, EmptySeq
  <2>2. Len(t) \in Nat /\ Len(q) = Len(t) + 1
    BY <2>1, LenProperties
  <2> QED
    BY <2>1, <2>2, LenProperties, ZenonT(60)
<1> HIDE DEF t
<1>2. \A i \in DOMAIN t : i + 1 \in DOMAIN q /\ t[i] = q[i + 1] /\ 1 < i + 1 /\ 1 \in DOMAIN q
  BY <1>1
<1>3. DataIn(t) \subseteq DataIn(q)
  BY <1>2 DEF DataIn
<1>4. ASSUME RisingData(q) PROVE RisingData(t)
  <2> SUFFICES ASSUME NEW i \in DOMAIN t, NEW j \in DOMAIN t, i < j,
                      t[i].type = "data", t[j].type = "data"
               PROVE  t[i].id < t[j].id
    BY DEF RisingData
  <2>1. i + 1 < j + 1
    BY <1>1
  <2> QED
    BY <1>2, <1>4, <2>1 DEF RisingData
<1>5. q[1].type = "data" => q[1].id \in DataIn(q)
  BY <1>1 DEF DataIn
<1>6. ASSUME q[1].type = "data", RisingData(q) PROVE Before({q[1].id}, DataIn(t))
  <2>1. \A i \in DOMAIN t : t[i].type = "data" => q[1].id < t[i].id
    BY <1>2, <1>6 DEF RisingData
  <2> QED
    BY <2>1 DEF Before, DataIn
<1> QED
  BY <1>1, <1>3, <1>4, <1>5, <1>6 DEF t

-----------------------------------------------------------------------------
(* The connections of a session.                                            *)

connState == <<spc, registering, mapped, hpc, hcon, dialled, owpc>>

\* A session starts with one connection, not yet started.
LEMMA InitConn == Init => ConnInv
BY BoundsAssumption DEF Init, ConnInv, Bringing, Conns

\* Who does not touch the manager, the handlers and the connections' writers, or
\* moves only writers that have started, breaks nothing.
LEMMA SameConn ==
  ASSUME ConnInv, UNCHANGED <<spc, registering, mapped, hpc, hcon, dialled>>,
         \A c \in Conns \cup {1} : owpc[c] = "idle" => owpc'[c] = "idle",
         dialled \in Conns
  PROVE  ConnInv'
<1>1. \A h \in Handlers : hcon[h] \in 2..dialled => hcon[h] \in Conns
  BY BoundsAssumption DEF Conns
<1> QED
  BY <1>1 DEF ConnInv, Bringing

\* A BE writer that does anything has started.
LEMMA WriterStarted ==
  ASSUME TypeOK, NEW c \in Conns, BackendWriterRuns(c)
  PROVE  /\ owpc[c] # "idle" /\ \A d \in Conns \ {c} : owpc'[d] = owpc[d]
         /\ UNCHANGED <<spc, registering, mapped, hpc, hcon, dialled, sent, rpc>>
<1> USE DEF TypeOK, elsewhere, clientVars, managerVars, connVars, WriterAt
<1>1. CASE ClearCache(c) \/ FlushWrite(c) \/ FlushFails(c)
  BY <1>1, SMTT(30) DEF ClearCache, FlushWrite, FlushFails
<1>2. CASE TakeNormal(c) \/ TakeWrite(c) \/ TakeFails(c)
  BY <1>2, SMTT(30) DEF TakeNormal, TakeWrite, TakeFails
<1>3. CASE PingFails(c) \/ WriteErrorNotified(c) \/ TakeDone(c)
  BY <1>3, SMTT(30) DEF PingFails, WriteErrorNotified, TakeDone
<1> QED
  BY <1>1, <1>2, <1>3 DEF BackendWriterRuns

\* The client's, the connections' and the admin's goroutines.
LEMMA GoroutinesConn ==
  ASSUME TypeOK, ConnInv,
         \/ ReadData \/ ReaderRuns \/ CloseBody \/ ClientLeaves
         \/ \E w \in Conns : WriterRuns(w)
         \/ \E c \in Conns : BackendData(c) \/ BackendLost(c) \/ BackendCloses(c)
                               \/ BackendReaderRuns(c) \/ NotifySend(c)
         \/ \E a \in Admins : AdminRequest(a) \/ AdminRuns(a)
  PROVE  UNCHANGED connState
<1> USE DEF connState, clientVars, pipes, incVars, writerVars, managerVars, outcVars,
            elsewhere, connVars, readerVars, beWriterVars
<1>1. CASE ReadData \/ ReaderRuns \/ ClientLeaves
  BY <1>1 DEF ReadData, ReaderRuns, ReadError, LockBkConnection, SendData, SendNormalOnError,
              ReaderClosed, ReaderUnregister, ClientLeaves
<1>2. CASE CloseBody
  BY <1>2 DEF CloseBody, CloseBegin, CloseLock, CloseSend, CloseFinish
<1>3. CASE \E w \in Conns : WriterRuns(w)
  BY <1>3 DEF WriterRuns, WriterReceive, WriterDone, WriterCas, WriterLockWait, WriterLock,
              WriterUnregister, WriterClosed, WriterGoto
<1>4. CASE \E c \in Conns : BackendData(c) \/ BackendLost(c) \/ BackendCloses(c)
                             \/ BackendReaderRuns(c) \/ NotifySend(c)
  BY <1>4 DEF BackendData, BackendLost, BackendCloses, BackendReaderRuns, BackendForward,
              BackendReadError, BackendNotified, NotifySend
<1>5. CASE \E a \in Admins : AdminRequest(a) \/ AdminRuns(a)
  BY <1>5 DEF AdminRequest, AdminRuns, AdminClosed, AbortLock, AbortDone, AbortSend, AdminGoto
<1> QED
  BY <1>1, <1>2, <1>3, <1>4, <1>5

\* ServeWs starts connection 1; until the session is registered no handler dials.
LEMMA ServeConn == ASSUME TypeOK, ConnInv, ServeWs PROVE ConnInv'
<1> USE DEF TypeOK, ConnInv, Bringing, clientVars, pipes, incVars, writerVars, outcVars
<1>1. CASE ServeRegister
  BY <1>1 DEF ServeRegister
<1>2. CASE ServeStartWaits
  BY <1>2 DEF ServeStartWaits
<1>3. CASE ServeStartFE
  BY <1>3 DEF ServeStartFE
<1>4. CASE ServeStartBE
  <2>5. \A n \in 2..dialled : n \in Conns \ {1}
    BY BoundsAssumption DEF Conns
  <2>1. \A h \in Handlers : Bringing(h) => hcon[h] \in Conns \ {1}
    BY <2>5
  <2>2. \A c \in Conns : c > dialled => c # 1
    BY BoundsAssumption DEF Conns
  <2>3. /\ UNCHANGED <<registering, mapped, hpc, hcon, dialled>> /\ spc' = "end"
        /\ spc = "beStart" /\ owpc' = [owpc EXCEPT ![1] = "clear"]
    BY <1>4 DEF ServeStartBE, StartOutc
  <2>4. \A c \in Conns \ {1} : owpc'[c] = owpc[c]
    BY <2>3
  <2> QED
    BY <2>1, <2>2, <2>3, <2>4, SMTT(30)
<1> QED
  BY <1>1, <1>2, <1>3, <1>4 DEF ServeWs

\* The manager's loop registers the session once, before any connection but the
\* first is dialled.
LEMMA LoopConn == ASSUME TypeOK, ConnInv, LoopRegister \/ LoopUnregister PROVE ConnInv'
<1> USE DEF TypeOK, ConnInv, Bringing, clientVars, pipes, incVars, writerVars, outcVars
<1>1. CASE LoopRegister
  <2>1. 1 <= dialled
    BY BoundsAssumption DEF Conns
  <2>2. spc # "register" /\ mapped' = 1 /\ ~registering'
    BY <1>1 DEF LoopRegister
  <2>3. UNCHANGED <<spc, hpc, hcon, dialled, owpc>>
    BY <1>1 DEF LoopRegister
  <2> QED
    BY <2>1, <2>2, <2>3
<1>2. CASE LoopUnregister
  <2>1. PICK h \in Handlers : hpc[h] = "idle" /\ hpc' = [hpc EXCEPT ![h] = "exists"]
    BY <1>2 DEF LoopUnregister
  <2> QED
    BY <1>2, <2>1 DEF LoopUnregister
<1> QED
  BY <1>1, <1>2

\* A handler brings the newest connection; two that bring one at the same time
\* cannot be, and one that starts a connection has it to itself.
LEMMA HandlerConn ==
  ASSUME TypeOK, TokenInv, ConnInv, NEW h \in Handlers, HandlerRuns(h) PROVE ConnInv'
<1> USE DEF TypeOK, ConnInv, Bringing, clientVars, pipes, incVars, writerVars, outcVars,
            handlerOnly, HandlerGoto
<1>0. SingleRedial /\ dialled \in Nat \ {0} /\ MaxConns \in Nat
  BY BoundsAssumption DEF TokenInv, Conns
<1>1. CASE HandlerExists(h)
  BY <1>1 DEF HandlerExists
<1>2. CASE HandlerActive(h)
  BY <1>2 DEF HandlerActive
<1>3. CASE HandlerDialled(h)
  <2>1. /\ UNCHANGED <<spc, registering, mapped, owpc>> /\ hpc[h] = "dial"
        /\ dialled < MaxConns /\ dialled' = dialled + 1
        /\ hcon' = [hcon EXCEPT ![h] = dialled + 1] /\ hpc' = [hpc EXCEPT ![h] = "add"]
    BY <1>3 DEF HandlerDialled
  <2>2. dialled + 1 \in Conns /\ dialled + 1 > dialled /\ dialled + 1 \in 2..(dialled + 1)
    BY <1>0, <2>1 DEF Conns
  <2>3. /\ hcon'[h] = dialled' /\ hpc'[h] = "add" /\ owpc'[hcon'[h]] = "idle"
        /\ \A g \in Handlers \ {h} : hcon'[g] = hcon[g] /\ hpc'[g] = hpc[g]
    BY <2>1, <2>2
  <2>4. \A g \in Handlers \ {h} : hpc[g] # "add"
    BY <1>0, <2>1 DEF SingleRedial, Redialling
  <2>5. \A g \in Handlers \ {h} : Bringing(g) => hcon[g] # dialled + 1
    BY <1>0
  <2>6. \A g \in Handlers : Bringing(g)' => hcon'[g] \in 2..dialled' /\ owpc'[hcon'[g]] = "idle"
    BY <1>0, <2>1, <2>2, <2>3, SMTT(30)
  <2>7. \A f, g \in Handlers : Bringing(f)' /\ Bringing(g)' /\ hcon'[f] = hcon'[g] => f = g
    BY <2>1, <2>3, <2>5
  <2>8. \A c \in Conns : c > dialled' => owpc'[c] = "idle"
    BY <1>0, <2>1 DEF Conns
  <2>9. spc # "register" /\ ~registering
    BY <2>1
  <2> QED
    BY <1>0, <2>1, <2>3, <2>4, <2>6, <2>7, <2>8, <2>9
<1>4. CASE HandlerDialFails(h)
  BY <1>4 DEF HandlerDialFails
<1>5. CASE HandlerClosed(h)
  BY <1>5 DEF HandlerClosed
<1>6. CASE HandlerRemove(h)
  BY <1>0, <1>6 DEF HandlerRemove
<1>7. CASE HandlerAdd(h)
  <2>1. /\ UNCHANGED <<spc, registering, hcon, dialled, owpc>> /\ hpc[h] = "add"
        /\ mapped' = hcon[h] /\ hpc' = [hpc EXCEPT ![h] = "resume"]
    BY <1>7 DEF HandlerAdd
  <2>2. mapped' = dialled /\ spc # "register" /\ ~registering
    BY <2>1
  <2>3. /\ hpc'[h] = "resume"
        /\ \A g \in Handlers \ {h} : hpc'[g] = hpc[g]
    BY <2>1
  <2>4. \A g \in Handlers : Bringing(g)' => Bringing(g)
    BY <2>1, <2>3
  <2> QED
    BY <1>0, <2>1, <2>2, <2>3, <2>4
<1>8. CASE HandlerResumeWaits(h)
  BY <1>8 DEF HandlerResumeWaits
<1>9. CASE HandlerResume(h)
  <2>1. /\ UNCHANGED <<spc, registering, mapped, hcon, dialled, owpc>>
        /\ hpc[h] \in {"resume", "resumeWait"} /\ hpc' = [hpc EXCEPT ![h] = "start"]
    BY <1>9 DEF HandlerResume
  <2>2. spc # "register" /\ ~registering
    BY <2>1
  <2>3. /\ hpc'[h] = "start"
        /\ \A g \in Handlers \ {h} : hpc'[g] = hpc[g]
    BY <2>1
  <2>4. \A g \in Handlers : Bringing(g)' => Bringing(g)
    BY <2>1, <2>3
  <2> QED
    BY <1>0, <2>1, <2>2, <2>3, <2>4
<1>10. CASE HandlerStart(h)
  <2>1. PICK c \in Conns : hcon[h] = c
    BY <1>0, <1>10 DEF HandlerStart, Conns
  <2>2. /\ UNCHANGED <<spc, registering, mapped, dialled>> /\ Bringing(h)
        /\ owpc' = [owpc EXCEPT ![c] = "clear"]
        /\ hcon' = [hcon EXCEPT ![h] = 0] /\ hpc' = [hpc EXCEPT ![h] = "idle"]
    BY <1>10, <2>1 DEF HandlerStart, StartOutc
  <2>3. c \in 2..dialled
    BY <2>1, <2>2
  <2>4. \A d \in Conns \ {c} : owpc'[d] = owpc[d]
    BY <2>2
  <2>5. /\ hpc'[h] = "idle"
        /\ \A g \in Handlers \ {h} : hcon'[g] = hcon[g] /\ hpc'[g] = hpc[g]
    BY <2>2
  <2>14. \A n \in 2..dialled : n \in Conns
    BY <1>0 DEF Conns
  <2>6. \A g \in Handlers : Bringing(g)' =>
          /\ g # h /\ Bringing(g) /\ hcon'[g] = hcon[g] /\ hcon[g] # c /\ hcon[g] \in Conns
    <3> SUFFICES ASSUME NEW g \in Handlers, Bringing(g)'
                 PROVE  /\ g # h /\ Bringing(g) /\ hcon'[g] = hcon[g]
                        /\ hcon[g] # c /\ hcon[g] \in Conns
      OBVIOUS
    <3>1. g # h
      BY <2>5
    <3>2. Bringing(g) /\ hcon'[g] = hcon[g]
      BY <2>5, <3>1
    <3>3. hcon[g] # hcon[h]
      BY <2>2, <3>1, <3>2
    <3> QED
      BY <2>1, <2>14, <3>1, <3>2, <3>3
  <2>7. \A d \in Conns : d > dialled => d # c
    BY <1>0, <2>3 DEF Conns
  <2>8. 1 \in Conns /\ c # 1
    BY <1>0, <2>3 DEF Conns
  <2>9. \A g \in Handlers : Bringing(g)' => hcon'[g] \in 2..dialled' /\ owpc'[hcon'[g]] = "idle"
    BY <2>2, <2>4, <2>6
  <2>10. \A f, g \in Handlers : Bringing(f)' /\ Bringing(g)' /\ hcon'[f] = hcon'[g] => f = g
    <3> HIDE DEF Bringing, TypeOK
    <3> QED
      BY <2>6
  <2>11. \A c1 \in Conns : c1 > dialled' => owpc'[c1] = "idle"
    BY <2>2, <2>4, <2>7
  <2>12. spc' # "end" => owpc'[1] = "idle"
    BY <2>2, <2>4, <2>8
  <2>13. \A g \in Handlers : hpc'[g] = "add" => hcon'[g] = dialled'
    BY <2>2, <2>5
  <2> QED
    BY <2>2, <2>5, <2>9, <2>10, <2>11, <2>12, <2>13
<1> QED
  BY <1>1, <1>2, <1>3, <1>4, <1>5, <1>6, <1>7, <1>8, <1>9, <1>10 DEF HandlerRuns

\* Every step of the system, and stuttering.
LEMMA StepConn == TypeOK /\ TokenInv /\ ConnInv /\ [Next]_vars => ConnInv'
<1> SUFFICES ASSUME TypeOK, TokenInv, ConnInv, [Next]_vars PROVE ConnInv'
  OBVIOUS
<1>0. dialled \in Conns
  BY DEF TypeOK
<1>1. CASE UNCHANGED connState
  BY <1>0, <1>1, SameConn DEF connState
<1>2. CASE \E c \in Conns : BackendWriterRuns(c)
  <2>1. PICK c \in Conns : BackendWriterRuns(c)
    BY <1>2
  <2>2. 1 \in Conns
    BY BoundsAssumption DEF Conns
  <2> QED
    BY <1>0, <2>1, <2>2, WriterStarted, SameConn
<1>3. CASE ServeWs \/ LoopRegister \/ LoopUnregister \/ \E h \in Handlers : HandlerRuns(h)
  BY <1>3, ServeConn, LoopConn, HandlerConn
<1>4. UNCHANGED vars => UNCHANGED connState
  BY DEF vars, connState, managerVars, outcVars
<1> QED
  BY <1>1, <1>2, <1>3, <1>4, GoroutinesConn DEF Next, Environment, Balancer, BackendRuns

\* An earlier backend connection of a session never comes back, whatever handlers
\* and failures overlap: the manager maps the connection dialled last, also when it
\* maps a session anew that another handler has removed.
THEOREM MapOnlyMovesForward == Spec => MapMovesForward
<1>1. Init => TypeOK /\ TokenInv /\ ConnInv
  BY InitType, InitToken, InitConn
<1>2. TypeOK /\ TokenInv /\ ConnInv /\ [Next]_vars => (TypeOK /\ TokenInv /\ ConnInv)'
  BY StepInv, StepConn
<1>3. TypeOK /\ TokenInv /\ ConnInv /\ [Next]_vars => [mapped' = 0 \/ mapped' = dialled]_mapped
  <2> SUFFICES ASSUME TypeOK, ConnInv, [Next]_vars
               PROVE  [mapped' = 0 \/ mapped' = dialled]_mapped
    OBVIOUS
  <2>1. CASE LoopRegister
    BY <2>1 DEF LoopRegister, ConnInv
  <2>2. CASE \E h \in Handlers : HandlerRuns(h)
    <3>1. PICK h \in Handlers : HandlerRuns(h)
      BY <2>2
    <3>2. CASE HandlerAdd(h)
      BY <3>2 DEF HandlerAdd, ConnInv, TypeOK
    <3>3. CASE HandlerRemove(h)
      BY <3>3 DEF HandlerRemove
    <3> QED
      BY <3>1, <3>2, <3>3 DEF HandlerRuns, HandlerExists, HandlerActive, HandlerDialled,
             HandlerDialFails, HandlerClosed, HandlerResumeWaits, HandlerResume, HandlerStart
  <2>3. CASE \E c \in Conns : BackendWriterRuns(c)
    BY <2>3, WriterStarted
  <2>4. CASE ServeWs \/ LoopUnregister
    BY <2>4 DEF ServeWs, ServeRegister, ServeStartWaits, ServeStartFE, ServeStartBE,
                LoopUnregister
  <2>5. UNCHANGED connState => UNCHANGED mapped
    BY DEF connState
  <2>6. UNCHANGED vars => UNCHANGED mapped
    BY DEF vars, managerVars
  <2> QED
    BY <2>1, <2>2, <2>3, <2>4, <2>5, <2>6, GoroutinesConn
       DEF Next, Environment, Balancer, BackendRuns
<1> QED
  BY <1>1, <1>2, <1>3, PTL DEF Spec, MapMovesForward

-----------------------------------------------------------------------------
(* What a step does to the client's messages.                               *)

messageState == <<send, cache, flush, delivered, owpc>>

\* Messages that are passed on stay passed on.
PassedGrows ==
  /\ sent' \in Nat /\ sent' >= sent
  /\ rpc' \in {"lock", "sendData"} => sent' > sent \/ rpc \in {"lock", "sendData"}

\* That is what PassedGrows says.
LEMMA PassedOn == TypeOK /\ PassedGrows => Passed \subseteq Passed'
<1> SUFFICES ASSUME sent \in Nat, PassedGrows, NEW n \in Passed PROVE n \in Passed'
  BY BoundsAssumption DEF TypeOK
<1>1. n \in 1..sent /\ (rpc \in {"lock", "sendData"} => n < sent)
  BY DEF Passed
<1>2. n \in 1..sent'
  BY <1>1 DEF PassedGrows
<1>3. ASSUME rpc' \in {"lock", "sendData"} PROVE n < sent'
  BY <1>1, <1>3 DEF PassedGrows
<1> QED
  BY <1>2, <1>3 DEF Passed

\* The channel gets a normal closure.
NormalSent == send' = Append(send, Normal(0)) /\ UNCHANGED <<sent, cache, flush, delivered, owpc>>

\* The goroutines of the frontend connection.
LEMMA FrontendSteps ==
  ASSUME TypeOK,
         \/ ReadData \/ ReaderRuns \/ CloseBody \/ ClientLeaves
         \/ \E w \in Conns : WriterRuns(w)
         \/ \E a \in Admins : AdminRequest(a) \/ AdminRuns(a)
  PROVE  \/ ReadData \/ SendData
         \/ NormalSent /\ PassedGrows
         \/ UNCHANGED <<messageState, sent>> /\ PassedGrows
<1> USE DEF messageState, PassedGrows, clientVars, pipes, incVars, writerVars, managerVars,
            outcVars
<1>0. sent \in Nat
  BY BoundsAssumption DEF TypeOK
<1>1. CASE ReadData \/ SendData
  BY <1>1
<1>2. CASE ReadError \/ LockBkConnection \/ ReaderClosed \/ ReaderUnregister \/ ClientLeaves
  BY <1>0, <1>2 DEF ReadError, LockBkConnection, ReaderClosed, ReaderUnregister, ClientLeaves
<1>3. CASE SendNormalOnError
  BY <1>0, <1>3 DEF SendNormalOnError, NormalSent
<1>4. CASE CloseBody
  <2>1. UNCHANGED <<messageState, sent, rpc>>
    BY <1>4 DEF CloseBody, CloseBegin, CloseLock, CloseSend, CloseFinish
  <2> QED
    BY <1>0, <2>1
<1>5. CASE \E w \in Conns : WriterRuns(w)
  <2>1. UNCHANGED <<messageState, sent, rpc>>
    BY <1>5 DEF WriterRuns, WriterReceive, WriterDone, WriterCas, WriterLockWait,
                WriterLock, WriterUnregister, WriterClosed, WriterGoto
  <2> QED
    BY <1>0, <2>1
<1>6. CASE \E a \in Admins : AdminRequest(a) \/ AdminRuns(a)
  <2>1. (NormalSent /\ UNCHANGED rpc) \/ UNCHANGED <<messageState, sent, rpc>>
    BY <1>6 DEF AdminRequest, AdminRuns, AdminClosed, AbortLock, AbortDone, AbortSend,
                AdminGoto, NormalSent
  <2>2. UNCHANGED <<rpc, sent>> => PassedGrows
    BY <1>0
  <2> QED
    BY <2>1, <2>2 DEF NormalSent
<1> QED
  BY <1>1, <1>2, <1>3, <1>4, <1>5, <1>6 DEF ReaderRuns

\* ServeWs, the manager's loop and its handlers: only the first start, and a
\* handler's dial and start, touch what connections hold.
LEMMA ManagerSteps ==
  ASSUME TypeOK,
         ServeWs \/ LoopRegister \/ LoopUnregister \/ \E h \in Handlers : HandlerRuns(h)
  PROVE  \/ ServeStartBE
         \/ \E h \in Handlers : HandlerDialled(h) \/ HandlerStart(h)
         \/ UNCHANGED <<messageState, sent>> /\ PassedGrows
<1> USE DEF messageState, PassedGrows, clientVars, pipes, incVars, writerVars, outcVars
<1>0. sent \in Nat
  BY BoundsAssumption DEF TypeOK
<1>1. CASE ServeWs
  BY <1>0, <1>1 DEF ServeWs, ServeRegister, ServeStartWaits, ServeStartFE, Start
<1>2. CASE LoopRegister \/ LoopUnregister
  BY <1>0, <1>2 DEF LoopRegister, LoopUnregister
<1>3. CASE \E h \in Handlers : HandlerRuns(h)
  <2>1. PICK h \in Handlers : HandlerRuns(h)
    BY <1>3
  <2> QED
    BY <1>0, <2>1 DEF HandlerRuns, HandlerExists, HandlerActive, HandlerDialFails,
           HandlerClosed, HandlerRemove, HandlerAdd, HandlerResumeWaits, HandlerResume,
           handlerOnly, resume
<1> QED
  BY <1>1, <1>2, <1>3

\* The steps that move a client's message or that start or dial a connection; all
\* others leave the messages where they are.
LEMMA MessageSteps ==
  ASSUME TypeOK, [Next]_vars
  PROVE  \/ ReadData \/ SendData
         \/ NormalSent /\ PassedGrows
         \/ \E c \in Conns : BackendWriterRuns(c)
         \/ ServeStartBE
         \/ \E h \in Handlers : HandlerDialled(h) \/ HandlerStart(h)
         \/ UNCHANGED <<messageState, sent>> /\ PassedGrows
<1>0. sent \in Nat
  BY BoundsAssumption DEF TypeOK
<1>1. CASE UNCHANGED vars
  <2>1. UNCHANGED <<messageState, sent, rpc>>
    BY <1>1 DEF vars, messageState, clientVars, pipes, outcVars
  <2> QED
    BY <1>0, <2>1 DEF PassedGrows
<1>2. CASE \E c \in Conns : BackendData(c) \/ BackendLost(c) \/ BackendCloses(c)
                             \/ BackendReaderRuns(c) \/ NotifySend(c)
  <2>1. UNCHANGED <<messageState, sent, rpc>>
    BY <1>2 DEF BackendData, BackendLost, BackendCloses, BackendReaderRuns, BackendForward,
              BackendReadError, BackendNotified, NotifySend, messageState, elsewhere,
              clientVars, pipes, beWriterVars
  <2> QED
    BY <1>0, <2>1 DEF PassedGrows
<1> QED
  BY <1>1, <1>2, FrontendSteps, ManagerSteps DEF Next, Environment, Balancer, BackendRuns

-----------------------------------------------------------------------------
(* Every message is in one place, in order.                                 *)

\* A session starts without messages.
LEMMA InitMessages == Init => MessageInv
<1> SUFFICES ASSUME Init PROVE MessageInv
  OBVIOUS
<1>1. \A c \in Conns : cache[c] = <<>> /\ flush[c] = <<>> /\ delivered[c] = <<>>
  BY DEF Init
<1>2. send = <<>> /\ DataIn(send) = {} /\ RisingData(send)
  BY DEF Init, DataIn, RisingData
<1>3. \A c \in Conns : With(c) = {}
  BY <1>1, EmptyRises DEF With, Unsent, Received
<1>4. ChannelInOrder
  <2>1. rpc = "idle"
    BY DEF Init
  <2> QED
    BY <1>2, <1>3, <2>1 DEF ChannelInOrder, Before
<1>5. \A c \in Conns : OrderedOn(c)
  BY <1>1, EmptyRises DEF OrderedOn, Before, Received
<1>6. \A c \in Conns : WriterHolds(c)
  BY <1>1 DEF WriterHolds
<1>7. \A c \in Conns : OnePlace(c)
  BY <1>3 DEF OnePlace, With
<1> QED
  BY <1>4, <1>5, <1>6, <1>7 DEF MessageInv

\* The connections keep what they have, and the channel gets no message that one
\* of them could have had.
LEMMA SameHands ==
  ASSUME TypeOK, MessageInv, UNCHANGED <<cache, flush, delivered, owpc>>, PassedGrows,
         RisingData(send'), DataIn(send') \subseteq Passed',
         \A c \in Conns : Before(With(c), DataIn(send'))
  PROVE  MessageInv'
<1>1. \A c \in Conns : With(c)' = With(c) /\ Unsent(c)' = Unsent(c) /\ Received(c)' = Received(c)
  BY DEF With, Unsent, Received
<1>2. ChannelInOrder'
  <2>1. rpc' \in {"lock", "sendData"} => sent' > 0
    BY BoundsAssumption DEF TypeOK, MessageInv, ChannelInOrder, PassedGrows
  <2> QED
    BY <1>1, <2>1, PassedOn DEF MessageInv, ChannelInOrder
<1>3. \A c \in Conns : OrderedOn(c)'
  BY <1>1 DEF MessageInv, OrderedOn
<1>4. \A c \in Conns : WriterHolds(c)'
  BY DEF MessageInv, WriterHolds
<1>5. \A c \in Conns : OnePlace(c)'
  BY <1>1 DEF MessageInv, OnePlace
<1> QED
  BY <1>2, <1>3, <1>4, <1>5 DEF MessageInv

\* The FE reader and the admin requests put messages into the channel: data only
\* in the order it was read.
LEMMA ChannelMessages ==
  ASSUME TypeOK, MessageInv,
         \/ ReadData \/ SendData
         \/ NormalSent /\ PassedGrows
         \/ UNCHANGED <<messageState, sent>> /\ PassedGrows
  PROVE  MessageInv'
<1> USE DEF messageState
<1>0. /\ sent \in Nat /\ send \in Seq(Messages)
      /\ RisingData(send) /\ DataIn(send) \subseteq Passed
      /\ rpc \in {"lock", "sendData"} => sent > 0
      /\ \A c \in Conns : With(c) \subseteq Passed /\ Before(With(c), DataIn(send))
  BY BoundsAssumption DEF TypeOK, MessageInv, ChannelInOrder
<1>1. CASE ReadData
  <2>1. UNCHANGED <<send, cache, flush, delivered, owpc>> /\ PassedGrows
    BY <1>0, <1>1 DEF ReadData, pipes, outcVars, PassedGrows
  <2> QED
    BY <1>0, <2>1, PassedOn, SameHands
<1>2. CASE SendData
  <2>1. /\ UNCHANGED <<cache, flush, delivered, owpc, sent>> /\ PassedGrows
        /\ rpc = "sendData" /\ rpc' = "read" /\ send' = Append(send, Data(sent))
    BY <1>0, <1>2 DEF SendData, clientVars, outcVars, PassedGrows
  <2>2. Passed \subseteq Passed' /\ Before(Passed, {sent})
    BY <2>1, PassedOn DEF Passed, Before
  <2>3. Data(sent) \in Messages /\ Data(sent).type = "data" /\ Data(sent).id = sent
    BY <1>0, MessageTypes DEF Data
  <2>4. DataIn(send') = DataIn(send) \cup {sent}
    BY <1>0, <2>1, <2>3, AppendData
  <2>5. RisingData(send')
    <3>1. Before(DataIn(send), {sent})
      BY <1>0, <2>2 DEF Before
    <3> QED
      BY <1>0, <2>1, <2>3, <3>1, AppendData
  <2>6. \A c \in Conns : Before(With(c), DataIn(send'))
    BY <1>0, <2>2, <2>4 DEF Before
  <2>7. sent \in Passed'
    BY <1>0, <2>1 DEF Passed
  <2> QED
    BY <1>0, <2>1, <2>2, <2>4, <2>5, <2>6, <2>7, SameHands
<1>3. CASE NormalSent /\ PassedGrows
  <2>1. Normal(0) \in Messages /\ Normal(0).type = "normal"
    BY MessageTypes DEF Normal
  <2>2. DataIn(send') = DataIn(send) /\ RisingData(send')
    BY <1>0, <1>3, <2>1, AppendData DEF NormalSent
  <2> QED
    BY <1>0, <1>3, <2>2, PassedOn, SameHands DEF NormalSent
<1>4. CASE UNCHANGED <<messageState, sent>> /\ PassedGrows
  BY <1>0, <1>4, PassedOn, SameHands
<1> QED
  BY <1>1, <1>2, <1>3, <1>4

\* Connection c moves messages between its cache, its writer's hand and its
\* backend, and takes those of N from the channel.
LEMMA OwnHands ==
  ASSUME MessageInv, UNCHANGED <<sent, rpc>>, NEW c \in Conns, NEW N,
         \A d \in Conns \ {c} : /\ cache'[d] = cache[d] /\ flush'[d] = flush[d]
                               /\ delivered'[d] = delivered[d] /\ owpc'[d] = owpc[d],
         RisingData(send'), DataIn(send') \subseteq DataIn(send),
         N \subseteq DataIn(send), Before(N, DataIn(send')),
         With(c)' \subseteq With(c) \cup N, Unsent(c)' \cap Received(c)' = {},
         OrderedOn(c)', WriterHolds(c)'
  PROVE  MessageInv'
<1>0. /\ ChannelInOrder
      /\ \A d \in Conns : OrderedOn(d) /\ WriterHolds(d) /\ OnePlace(d)
  BY DEF MessageInv
<1>1. \A d \in Conns \ {c} : /\ With(d)' = With(d) /\ Unsent(d)' = Unsent(d)
                            /\ Received(d)' = Received(d)
  BY DEF With, Unsent, Received
<1>2. Passed' = Passed
  BY DEF Passed
<1>3. ASSUME NEW d \in Conns PROVE With(d)' \subseteq Passed' /\ Before(With(d)', DataIn(send'))
  <2>1. With(d) \subseteq Passed /\ Before(With(d), DataIn(send)) /\ DataIn(send) \subseteq Passed
    BY <1>0 DEF ChannelInOrder
  <2>2. Before(With(d), DataIn(send')) /\ Before(N, DataIn(send'))
    BY <2>1 DEF Before
  <2>3. With(d)' \subseteq With(d) \cup N
    BY <1>1
  <2> QED
    BY <1>2, <2>1, <2>2, <2>3 DEF Before
<1>4. ChannelInOrder'
  BY <1>0, <1>2, <1>3 DEF ChannelInOrder
<1>5. \A d \in Conns \ {c} : OrderedOn(d)' /\ WriterHolds(d)'
  BY <1>0, <1>1 DEF OrderedOn, WriterHolds
<1>6. ASSUME NEW d \in Conns \ {c} PROVE With(c)' \cap With(d)' = {}
  <2>1. With(d) \subseteq Nat /\ DataIn(send) \subseteq Nat
    BY <1>0 DEF ChannelInOrder, Passed
  <2>2. With(d) \cap N = {}
    <3> SUFFICES ASSUME NEW n \in With(d), n \in N PROVE FALSE
      OBVIOUS
    <3>1. n < n /\ n \in Nat
      BY <1>0, <2>1 DEF ChannelInOrder, Before
    <3> QED
      BY <3>1
  <2>3. With(c) \cap With(d) = {}
    BY <1>0 DEF OnePlace
  <2> QED
    BY <1>1, <2>2, <2>3
<1>7. \A d, e \in Conns \ {c} : d # e => With(d)' \cap With(e)' = {}
  BY <1>0, <1>1 DEF OnePlace
<1>8. \A d \in Conns : OnePlace(d)'
  <2>1. OnePlace(c)'
    BY <1>6 DEF OnePlace
  <2>2. ASSUME NEW d \in Conns \ {c} PROVE OnePlace(d)'
    <3>1. Unsent(d)' \cap Received(d)' = {}
      BY <1>0, <1>1 DEF OnePlace
    <3>2. ASSUME NEW e \in Conns \ {d} PROVE With(d)' \cap With(e)' = {}
      BY <1>6, <1>7
    <3> QED
      BY <3>1, <3>2 DEF OnePlace
  <2> QED
    BY <2>1, <2>2
<1> QED
  BY <1>4, <1>5, <1>8 DEF MessageInv

\* What a step of c's BE writer does with what it has; n is the message written,
\* if it is.
Wrote(c, n) ==
  \/ delivered' = delivered
  \/ delivered' = [delivered EXCEPT ![c] = Append(@, n)]

\* A message written goes to c's backend, or is lost.
LEMMA WrittenIs == \A c, n : Written(c, n) => Wrote(c, n)
BY DEF Written, Wrote

\* ... which appends it to what the backend has.
LEMMA WroteReceived ==
  ASSUME TypeOK, NEW c \in Conns, NEW n \in Nat, Wrote(c, n), Rising(delivered[c]),
         Before(Received(c), {n})
  PROVE  /\ Received(c) \subseteq Received(c)' /\ Received(c)' \subseteq Received(c) \cup {n}
         /\ Rising(delivered'[c]) /\ \A d \in Conns \ {c} : delivered'[d] = delivered[d]
<1>0. delivered \in [Conns -> Seq(Nat)] /\ delivered[c] \in Seq(Nat)
  BY DEF TypeOK
<1>1. CASE delivered' = delivered
  BY <1>1 DEF Received
<1>2. CASE delivered' = [delivered EXCEPT ![c] = Append(@, n)]
  <2>1. delivered'[c] = Append(delivered[c], n) /\ \A d \in Conns \ {c} : delivered'[d] = delivered[d]
    BY <1>0, <1>2
  <2> QED
    BY <1>0, <2>1, AppendRises DEF Received
<1> QED
  BY <1>1, <1>2 DEF Wrote

\* clearCache and what it does with the messages taken out of the cache.
LEMMA CacheMessages ==
  ASSUME TypeOK, MessageInv, NEW c \in Conns, ClearCache(c) \/ FlushWrite(c) \/ FlushFails(c)
  PROVE  MessageInv'
<1> DEFINE n == Head(flush[c])
           T == ToSet(Tail(flush[c]))
<1>0. /\ cache \in [Conns -> Seq(Nat)] /\ flush \in [Conns -> Seq(Nat)]
      /\ owpc \in [Conns -> {"idle", "clear", "flush", "select", "notify", "end"}]
      /\ cache[c] \in Seq(Nat) /\ flush[c] \in Seq(Nat) /\ delivered[c] \in Seq(Nat)
  BY DEF TypeOK
<1>1. /\ RisingData(send) /\ OrderedOn(c) /\ WriterHolds(c) /\ OnePlace(c)
  BY DEF MessageInv, ChannelInOrder
<1>2. UNCHANGED <<sent, rpc, send>>
  BY DEF ClearCache, FlushWrite, FlushFails, elsewhere, clientVars, pipes
<1>3. Before({}, DataIn(send')) /\ {} \subseteq DataIn(send) /\ DataIn(send') \subseteq DataIn(send)
  BY <1>2 DEF Before
<1>4. CASE ClearCache(c)
  <2>1. /\ cache' = [cache EXCEPT ![c] = <<>>] /\ flush' = [flush EXCEPT ![c] = cache[c]]
        /\ delivered' = delivered /\ owpc[c] = "clear"
        /\ owpc' = [owpc EXCEPT ![c] = IF cache[c] = <<>> THEN "select" ELSE "flush"]
    BY <1>4 DEF ClearCache, WriterAt
  <2>2. /\ cache'[c] = <<>> /\ flush'[c] = cache[c] /\ delivered'[c] = <<>> /\ flush[c] = <<>>
        /\ delivered[c] = <<>>
    BY <1>0, <1>1, <2>1 DEF WriterHolds
  <2>3. With(c)' = With(c) /\ Received(c)' = {}
    BY <2>2, EmptyRises DEF With, Unsent, Received
  <2>4. OrderedOn(c)'
    BY <1>1, <2>2, <2>3, EmptyRises DEF OrderedOn, Before
  <2>5. WriterHolds(c)'
    BY <1>0, <2>1, <2>2 DEF WriterHolds
  <2> QED
    BY <1>0, <1>1, <1>2, <1>3, <2>1, <2>3, <2>4, <2>5, OwnHands
<1>5. ASSUME owpc[c] = "flush", flush[c] # <<>>
      PROVE  /\ n \in Nat /\ Tail(flush[c]) \in Seq(Nat) /\ ToSet(flush[c]) = {n} \cup T
             /\ Rising(Tail(flush[c])) /\ Before({n}, T) /\ n \notin T
             /\ cache[c] = <<>> /\ Before(Received(c), {n}) /\ Before(Received(c), T)
             /\ n \notin Received(c) /\ T \cap Received(c) = {}
             /\ Len(flush[c]) = 1 => Tail(flush[c]) = <<>>
  <2>1. /\ n \in Nat /\ Tail(flush[c]) \in Seq(Nat) /\ ToSet(flush[c]) = {n} \cup T
        /\ Rising(Tail(flush[c])) /\ Before({n}, T)
        /\ Len(flush[c]) = 1 => Tail(flush[c]) = <<>>
    BY <1>0, <1>1, <1>5, TailRises DEF OrderedOn
  <2>2. n \notin T
    BY <2>1 DEF Before
  <2>3. Before(Received(c), {n}) /\ Before(Received(c), T)
    BY <1>1, <1>5, <2>1 DEF OrderedOn, Before
  <2>4. n \notin Received(c) /\ T \cap Received(c) = {}
    BY <1>1, <2>1 DEF OnePlace, Unsent
  <2>5. cache[c] = <<>>
    BY <1>1, <1>5 DEF WriterHolds
  <2> QED
    BY <2>1, <2>2, <2>3, <2>4, <2>5
<1> HIDE DEF n, T
<1>6. CASE FlushWrite(c)
  <2>1. /\ Wrote(c, n) /\ flush' = [flush EXCEPT ![c] = Tail(@)]
        /\ cache' = cache /\ owpc[c] = "flush" /\ flush[c] # <<>>
        /\ owpc' = [owpc EXCEPT ![c] = IF Len(flush[c]) = 1 THEN "select" ELSE "flush"]
    BY <1>6, WrittenIs DEF FlushWrite, WriterAt, n
  <2>2. /\ Received(c)' \subseteq Received(c) \cup {n} /\ Rising(delivered'[c])
        /\ \A d \in Conns \ {c} : delivered'[d] = delivered[d]
    BY <1>1, <1>5, <2>1, WroteReceived DEF OrderedOn
  <2>3. /\ flush'[c] = Tail(flush[c]) /\ cache'[c] = <<>> /\ ToSet(flush'[c]) = T
        /\ owpc'[c] = IF Len(flush[c]) = 1 THEN "select" ELSE "flush"
    BY <1>0, <1>5, <2>1 DEF T
  <2>4. Unsent(c)' = T /\ Unsent(c) = {n} \cup T
    BY <1>5, <2>1, <2>3, EmptyRises DEF Unsent
  <2>5. With(c)' \subseteq With(c) /\ Unsent(c)' \cap Received(c)' = {}
    BY <1>5, <2>1, <2>2, <2>4 DEF With
  <2>6. OrderedOn(c)'
    <3>1. Before(Received(c)', T)
      BY <1>5, <2>1, <2>2 DEF Before
    <3> QED
      BY <1>5, <2>1, <2>2, <2>3, <3>1, EmptyRises DEF OrderedOn, Before
  <2>7. WriterHolds(c)'
    BY <1>5, <2>1, <2>3 DEF WriterHolds
  <2> QED
    BY <1>0, <1>1, <1>2, <1>3, <2>1, <2>2, <2>5, <2>6, <2>7, OwnHands
<1>7. CASE FlushFails(c)
  <2>1. /\ delivered' = delivered /\ flush' = [flush EXCEPT ![c] = Tail(@)]
        /\ cache' = [cache EXCEPT ![c] = Append(@, n)] /\ owpc[c] = "flush" /\ flush[c] # <<>>
        /\ owpc' = [owpc EXCEPT ![c] = "notify"]
    BY <1>7 DEF FlushFails, WriterAt, n
  <2>2. /\ flush'[c] = Tail(flush[c]) /\ ToSet(flush'[c]) = T
        /\ cache'[c] = Append(cache[c], n) /\ owpc'[c] = "notify"
    BY <1>0, <2>1 DEF T
  <2>3. ToSet(cache'[c]) = {n} /\ Rising(cache'[c])
    BY <1>0, <1>5, <2>1, <2>2, EmptyRises, AppendRises, ZenonT(60) DEF Before
  <2>4. Unsent(c)' = Unsent(c) /\ Received(c)' = Received(c) /\ With(c)' = With(c)
    BY <1>5, <2>1, <2>2, <2>3, EmptyRises DEF Unsent, Received, With
  <2>5. OrderedOn(c)'
    BY <1>1, <1>5, <2>1, <2>2, <2>3 DEF OrderedOn
  <2>6. WriterHolds(c)'
    BY <1>1, <2>1, <2>2 DEF WriterHolds
  <2>7. Unsent(c)' \cap Received(c)' = {}
    BY <1>1, <2>4 DEF OnePlace
  <2> QED
    BY <1>0, <1>1, <1>2, <1>3, <2>1, <2>4, <2>5, <2>6, <2>7, OwnHands
<1> QED
  BY <1>4, <1>6, <1>7

\* A connection whose messages stay where they are, while its writer goes on and
\* may take a closure from the channel.
LEMMA HandsStill ==
  ASSUME TypeOK, MessageInv, NEW c \in Conns, UNCHANGED <<sent, rpc, cache, flush, delivered>>,
         \A d \in Conns \ {c} : owpc'[d] = owpc[d],
         RisingData(send'), DataIn(send') \subseteq DataIn(send),
         owpc'[c] # "flush", WriterHolds(c)'
  PROVE  MessageInv'
<1>1. OrderedOn(c) /\ OnePlace(c)
  BY DEF MessageInv
<1>2. With(c)' = With(c) /\ Unsent(c)' = Unsent(c) /\ Received(c)' = Received(c)
  BY DEF With, Unsent, Received
<1>3. OrderedOn(c)'
  BY <1>1 DEF OrderedOn
<1>4. Unsent(c)' \cap Received(c)' = {}
  BY <1>1, <1>2 DEF OnePlace
<1>5. Before({}, DataIn(send')) /\ {} \subseteq DataIn(send)
  BY DEF Before
<1> QED
  BY <1>2, <1>3, <1>4, <1>5, OwnHands

\* startWriting takes a data message from the channel, which is then written or
\* stays in the writer's hand.
LEMMA TakenMessages ==
  ASSUME TypeOK, MessageInv, NEW c \in Conns, TakeWrite(c) \/ TakeFails(c) PROVE MessageInv'
<1> DEFINE n == Head(send).id
<1>0. /\ cache \in [Conns -> Seq(Nat)] /\ flush \in [Conns -> Seq(Nat)]
      /\ owpc \in [Conns -> {"idle", "clear", "flush", "select", "notify", "end"}]
      /\ delivered[c] \in Seq(Nat) /\ send \in Seq(Messages)
  BY DEF TypeOK
<1>1. /\ ChannelInOrder /\ RisingData(send) /\ OrderedOn(c) /\ WriterHolds(c) /\ OnePlace(c)
      /\ Before(With(c), DataIn(send)) /\ DataIn(send) \subseteq Nat /\ With(c) \subseteq Nat
  BY DEF MessageInv, ChannelInOrder, Passed
<1>2. /\ UNCHANGED <<sent, rpc>> /\ send' = Tail(send) /\ send # <<>>
      /\ Head(send).type = "data" /\ owpc[c] = "select"
  BY DEF TakeWrite, TakeFails, elsewhere, clientVars
<1>3. /\ {n} \subseteq DataIn(send) /\ Before({n}, DataIn(send'))
      /\ RisingData(send') /\ DataIn(send') \subseteq DataIn(send)
  BY <1>0, <1>1, <1>2, TailData
<1> HIDE DEF n
<1>4. n \in Nat /\ Before(Received(c), {n}) /\ n \notin Received(c)
  BY <1>1, <1>3 DEF Before, With
<1>5. cache[c] = <<>> /\ flush[c] = <<>> /\ Unsent(c) = {}
  BY <1>1, <1>2, EmptyRises DEF WriterHolds, Unsent
<1>6. CASE TakeWrite(c)
  <2>1. Wrote(c, n) /\ UNCHANGED <<owpc, flush, cache>>
    BY <1>6, WrittenIs DEF TakeWrite, n
  <2>2. /\ Received(c)' \subseteq Received(c) \cup {n} /\ Rising(delivered'[c])
        /\ \A d \in Conns \ {c} : delivered'[d] = delivered[d]
    BY <1>1, <1>4, <2>1, WroteReceived DEF OrderedOn
  <2>3. Unsent(c)' = {}
    BY <1>5, <2>1, EmptyRises DEF Unsent
  <2>4. With(c)' \subseteq With(c) \cup {n} /\ Unsent(c)' \cap Received(c)' = {}
    BY <2>2, <2>3 DEF With
  <2>5. OrderedOn(c)'
    BY <1>2, <1>5, <2>1, <2>2, EmptyRises DEF OrderedOn, Before
  <2>6. WriterHolds(c)'
    BY <1>2, <1>5, <2>1 DEF WriterHolds
  <2> QED
    BY <1>0, <1>2, <1>3, <2>1, <2>2, <2>4, <2>5, <2>6, OwnHands
<1>7. CASE TakeFails(c)
  <2>1. /\ UNCHANGED <<cache, delivered>> /\ flush' = [flush EXCEPT ![c] = <<n>>]
        /\ owpc' = [owpc EXCEPT ![c] = "notify"]
    BY <1>7 DEF TakeFails, WriterAt, n
  <2>2. flush'[c] = <<n>> /\ cache'[c] = <<>> /\ owpc'[c] = "notify"
    BY <1>0, <1>5, <2>1
  <2>3. ToSet(<<n>>) = {n} /\ Rising(<<n>>)
    BY <1>4 DEF ToSet, Rising
  <2>4. Unsent(c)' = {n} /\ Received(c)' = Received(c)
    BY <2>1, <2>2, <2>3, EmptyRises DEF Unsent, Received
  <2>5. With(c)' \subseteq With(c) \cup {n} /\ Unsent(c)' \cap Received(c)' = {}
    BY <1>4, <2>4 DEF With
  <2>6. OrderedOn(c)'
    BY <1>1, <2>1, <2>2, <2>3, EmptyRises DEF OrderedOn, Before
  <2>7. WriterHolds(c)'
    BY <2>1, <2>2 DEF WriterHolds
  <2> QED
    BY <1>0, <1>2, <1>3, <2>1, <2>5, <2>6, <2>7, OwnHands
<1> QED
  BY <1>6, <1>7

\* After the notification what the writer has in hand goes behind the cache.
LEMMA CachedMessages ==
  ASSUME TypeOK, MessageInv, NEW c \in Conns, WriteErrorNotified(c) PROVE MessageInv'
<1>0. /\ cache \in [Conns -> Seq(Nat)] /\ flush \in [Conns -> Seq(Nat)]
      /\ owpc \in [Conns -> {"idle", "clear", "flush", "select", "notify", "end"}]
      /\ cache[c] \in Seq(Nat) /\ flush[c] \in Seq(Nat)
  BY DEF TypeOK
<1>1. RisingData(send) /\ OrderedOn(c) /\ WriterHolds(c) /\ OnePlace(c)
  BY DEF MessageInv, ChannelInOrder
<1>2. /\ UNCHANGED <<sent, rpc, send, delivered>> /\ owpc[c] = "notify"
      /\ cache' = [cache EXCEPT ![c] = @ \o flush[c]] /\ flush' = [flush EXCEPT ![c] = <<>>]
      /\ owpc' = [owpc EXCEPT ![c] = "end"]
  BY DEF WriteErrorNotified, WriterAt, elsewhere, clientVars, pipes
<1>3. cache'[c] = cache[c] \o flush[c] /\ flush'[c] = <<>> /\ owpc'[c] = "end"
  BY <1>0, <1>2
<1>4. ToSet(cache'[c]) = Unsent(c) /\ Rising(cache'[c])
  BY <1>0, <1>1, <1>3, ConcatRises DEF OrderedOn, Unsent
<1>5. Unsent(c)' = Unsent(c) /\ Received(c)' = Received(c) /\ With(c)' = With(c)
  BY <1>2, <1>3, <1>4, EmptyRises DEF Unsent, Received, With
<1>6. OrderedOn(c)'
  BY <1>1, <1>2, <1>3, <1>4, EmptyRises DEF OrderedOn, Before
<1>7. WriterHolds(c)'
  BY <1>2, <1>3 DEF WriterHolds
<1>8. Unsent(c)' \cap Received(c)' = {} /\ {} \subseteq DataIn(send) /\ Before({}, DataIn(send'))
  BY <1>1, <1>5 DEF OnePlace, Before
<1> QED
  BY <1>0, <1>1, <1>2, <1>5, <1>6, <1>7, <1>8, OwnHands

\* Every step of a BE writer.
LEMMA WriterMessages ==
  ASSUME TypeOK, MessageInv, NEW c \in Conns, BackendWriterRuns(c) PROVE MessageInv'
<1>0. /\ owpc \in [Conns -> {"idle", "clear", "flush", "select", "notify", "end"}]
      /\ send \in Seq(Messages)
  BY DEF TypeOK
<1>1. RisingData(send) /\ WriterHolds(c)
  BY DEF MessageInv, ChannelInOrder
<1>2. CASE TakeNormal(c) \/ PingFails(c) \/ TakeDone(c)
  <2>1. /\ UNCHANGED <<sent, rpc, cache, flush, delivered>> /\ owpc[c] = "select"
        /\ owpc' = [owpc EXCEPT ![c] = "end"] \/ owpc' = [owpc EXCEPT ![c] = "notify"]
        /\ send' = send \/ (send # <<>> /\ send' = Tail(send))
    BY <1>2 DEF TakeNormal, PingFails, TakeDone, WriterAt, elsewhere, clientVars, pipes
  <2>2. RisingData(send') /\ DataIn(send') \subseteq DataIn(send)
    BY <1>0, <1>1, <2>1, TailData
  <2>3. owpc'[c] \in {"end", "notify"} /\ \A d \in Conns \ {c} : owpc'[d] = owpc[d]
    BY <1>0, <2>1
  <2>4. WriterHolds(c)'
    BY <1>1, <2>1, <2>3 DEF WriterHolds
  <2> QED
    BY <2>1, <2>2, <2>3, <2>4, HandsStill
<1> QED
  BY <1>2, CacheMessages, TakenMessages, CachedMessages DEF BackendWriterRuns

\* A new connection takes over the old one's cache.
LEMMA DialledMessages ==
  ASSUME TypeOK, ConnInv, MessageInv, NEW h \in Handlers, HandlerDialled(h) PROVE MessageInv'
<1>9. /\ cache \in [Conns -> Seq(Nat)] /\ hcon[h] \in 0..MaxConns
      /\ dialled \in Nat /\ MaxConns \in Nat /\ sent \in Nat
      /\ dialled + 1 \in Conns /\ dialled + 1 > dialled
  BY BoundsAssumption DEF TypeOK, Conns, HandlerDialled
<1>10. PICK c \in Conns : c = dialled + 1
  BY <1>9
<1>11. PICK old \in 0..MaxConns : old = hcon[h]
  BY <1>9
<1>0. /\ cache \in [Conns -> Seq(Nat)] /\ MaxConns \in Nat /\ sent \in Nat
      /\ c > dialled
  BY <1>9, <1>10
<1>1. /\ ChannelInOrder
      /\ \A d \in Conns : OrderedOn(d) /\ WriterHolds(d) /\ OnePlace(d)
  BY DEF MessageInv
<1>2. /\ UNCHANGED <<sent, rpc, send, flush, delivered, owpc>>
      /\ cache' = IF old = 0 THEN cache ELSE [cache EXCEPT ![c] = cache[old], ![old] = <<>>]
  BY <1>10, <1>11 DEF HandlerDialled, newOutc, clientVars, pipes
<1>3. owpc[c] = "idle"
  BY <1>0 DEF ConnInv
<1>4. flush[c] = <<>> /\ delivered[c] = <<>>
  BY <1>0, <1>1, <1>3 DEF WriterHolds
<1>5. CASE old = 0
  <2>1. PassedGrows /\ UNCHANGED <<cache, flush, delivered, owpc, send>>
    BY <1>0, <1>2, <1>5 DEF PassedGrows
  <2>2. DataIn(send') \subseteq Passed'
    BY <1>1, <2>1, PassedOn DEF ChannelInOrder
  <2> QED
    BY <1>1, <2>1, <2>2, SameHands DEF ChannelInOrder
<1>6. CASE old = c
  <2>1. cache'[c] = <<>> /\ \A d \in Conns \ {c} : cache'[d] = cache[d]
    BY <1>0, <1>2, <1>6 DEF Conns
  <2>2. With(c)' = {} /\ Unsent(c)' = {}
    BY <1>2, <1>4, <2>1, EmptyRises DEF With, Unsent, Received
  <2>3. OrderedOn(c)' /\ WriterHolds(c)'
    BY <1>2, <1>3, <1>4, <2>1, EmptyRises DEF OrderedOn, WriterHolds, Before
  <2>4. Before({}, DataIn(send')) /\ {} \subseteq DataIn(send) /\ RisingData(send')
    BY <1>1, <1>2 DEF Before, ChannelInOrder
  <2> QED
    BY <1>0, <1>2, <2>1, <2>2, <2>3, <2>4, OwnHands
<1>7. CASE old # 0 /\ old # c
  <2>0. old \in Conns
    BY <1>0, <1>7 DEF Conns
  <2>1. /\ cache'[c] = cache[old] /\ cache'[old] = <<>>
        /\ \A d \in Conns \ {c, old} : cache'[d] = cache[d]
    BY <1>0, <1>2, <1>7, <2>0
  <2>2. /\ With(c)' = ToSet(cache[old]) /\ Received(c)' = {}
        /\ With(old)' = ToSet(flush[old]) \cup Received(old)
        /\ Unsent(old)' = ToSet(flush[old]) /\ Received(old)' = Received(old)
    BY <1>2, <1>4, <2>1, EmptyRises DEF With, Unsent, Received
  <2>3. \A d \in Conns \ {c, old} : /\ With(d)' = With(d) /\ Unsent(d)' = Unsent(d)
                                   /\ Received(d)' = Received(d)
    BY <1>2, <2>1 DEF With, Unsent, Received
  <2>4. With(c)' \subseteq With(old) /\ With(old)' \subseteq With(old)
    BY <2>2 DEF With, Unsent
  <2>5. With(c)' \cap With(old)' = {}
    <3>1. ToSet(cache[old]) \cap Received(old) = {} /\ With(old) \subseteq Nat
      BY <1>1, <2>0 DEF OnePlace, Unsent, ChannelInOrder, Passed
    <3>2. ASSUME NEW n \in ToSet(cache[old]), n \in ToSet(flush[old]) PROVE FALSE
      <4>1. n < n /\ n \in Nat
        BY <1>1, <2>0, <3>1, <3>2 DEF OrderedOn, Before, With, Unsent
      <4> QED
        BY <4>1
    <3> QED
      BY <2>2, <3>1, <3>2
  <2>6. ChannelInOrder'
    <3>1. Passed' = Passed
      BY <1>2 DEF Passed
    <3>2. ASSUME NEW d \in Conns
          PROVE  With(d)' \subseteq Passed /\ Before(With(d)', DataIn(send))
      <4>1. With(d)' \subseteq With(d) \/ With(d)' \subseteq With(old)
        BY <2>3, <2>4
      <4> QED
        BY <1>1, <2>0, <4>1 DEF ChannelInOrder, Before
    <3> QED
      BY <1>1, <1>2, <3>1, <3>2 DEF ChannelInOrder
  <2>7. \A d \in Conns : OrderedOn(d)'
    <3>1. OrderedOn(c)'
      BY <1>1, <1>2, <1>3, <1>4, <2>0, <2>1, EmptyRises DEF OrderedOn, Before
    <3>2. OrderedOn(old)'
      BY <1>1, <1>2, <2>0, <2>1, <2>2, EmptyRises DEF OrderedOn, Before
    <3>3. \A d \in Conns \ {c, old} : OrderedOn(d)'
      BY <1>1, <1>2, <2>1, <2>3 DEF OrderedOn
    <3> QED
      BY <3>1, <3>2, <3>3
  <2>8. \A d \in Conns : WriterHolds(d)'
    BY <1>1, <1>2, <1>3, <2>1 DEF WriterHolds
  <2>9. ASSUME NEW d \in Conns PROVE OnePlace(d)'
    <3>1. Unsent(d)' \cap Received(d)' = {}
      BY <1>1, <2>0, <2>2, <2>3 DEF OnePlace, Unsent
    <3>2. ASSUME NEW e \in Conns \ {d} PROVE With(d)' \cap With(e)' = {}
      <4>1. \A x, y \in Conns : x # y => With(x) \cap With(y) = {}
        BY <1>1 DEF OnePlace
      <4>2. \A x \in Conns \ {c, old} : /\ With(x)' \cap With(c)' = {}
                                        /\ With(x)' \cap With(old)' = {}
        BY <2>0, <2>3, <2>4, <4>1
      <4>3. \A x, y \in Conns \ {c, old} : x # y => With(x)' \cap With(y)' = {}
        BY <2>3, <4>1
      <4> QED
        BY <2>5, <4>2, <4>3
    <3> QED
      BY <3>1, <3>2 DEF OnePlace
  <2> QED
    BY <2>6, <2>7, <2>8, <2>9 DEF MessageInv
<1> QED
  BY <1>5, <1>6, <1>7

\* A connection is started when its backend has received nothing.
LEMMA StartMessages ==
  ASSUME TypeOK, ConnInv, MessageInv, ServeStartBE \/ \E h \in Handlers : HandlerStart(h)
  PROVE  MessageInv'
<1>1. PICK c \in Conns : owpc[c] = "idle" /\ owpc' = [owpc EXCEPT ![c] = "clear"]
  <2>1. CASE ServeStartBE
    <3>1. 1 \in Conns /\ owpc[1] = "idle"
      BY <2>1, BoundsAssumption DEF ServeStartBE, ConnInv, Conns
    <3> QED
      BY <2>1, <3>1 DEF ServeStartBE, StartOutc
  <2>2. CASE \E h \in Handlers : HandlerStart(h)
    <3>1. PICK h \in Handlers : HandlerStart(h)
      BY <2>2
    <3>2. hcon[h] \in 2..dialled /\ owpc[hcon[h]] = "idle"
      BY <3>1 DEF HandlerStart, ConnInv, Bringing
    <3>3. hcon[h] \in Conns
      BY <3>2, BoundsAssumption DEF TypeOK, Conns
    <3> QED
      BY <3>1, <3>2, <3>3 DEF HandlerStart, StartOutc
  <2> QED
    BY <2>1, <2>2
<1>2. UNCHANGED <<sent, rpc, send, cache, flush, delivered>>
  BY DEF ServeStartBE, HandlerStart, clientVars, pipes
<1>3. RisingData(send) /\ WriterHolds(c)
  BY DEF MessageInv, ChannelInOrder
<1>4. owpc'[c] = "clear" /\ \A d \in Conns \ {c} : owpc'[d] = owpc[d]
  BY <1>1 DEF TypeOK
<1>5. WriterHolds(c)'
  BY <1>1, <1>2, <1>3, <1>4 DEF WriterHolds
<1> QED
  BY <1>2, <1>3, <1>4, <1>5, HandsStill

\* Every step of the system, and stuttering.
LEMMA StepMessages == TypeOK /\ ConnInv /\ MessageInv /\ [Next]_vars => MessageInv'
BY MessageSteps, ChannelMessages, WriterMessages, DialledMessages, StartMessages

-----------------------------------------------------------------------------
(* Theorems.                                                                *)

\* The inductive invariant: connections are started once, and every message of
\* the client is in one place, in order.
THEOREM MessagesHaveOnePlace == Spec => [](TypeOK /\ TokenInv /\ ConnInv /\ MessageInv)
<1>1. Init => TypeOK /\ TokenInv /\ ConnInv /\ MessageInv
  BY InitType, InitToken, InitConn, InitMessages
<1>2. TypeOK /\ TokenInv /\ ConnInv /\ MessageInv /\ [Next]_vars
        => (TypeOK /\ TokenInv /\ ConnInv /\ MessageInv)'
  BY StepInv, StepConn, StepMessages
<1> QED
  BY <1>1, <1>2, PTL DEF Spec

\* For every number of connections, handlers and messages: a connection is started
\* once, by the goroutine that dialled it, and addClient gets the newest one.
THEOREM ConnectionsAreOwned == Spec => []ConnInv
BY MessagesHaveOnePlace, PTL

\* Whatever connection a message was cached on, handed over to and sent again on,
\* the backends receive it once.
THEOREM SentAtMostOnce == Spec => []AtMostOnce
<1>1. TypeOK /\ MessageInv => AtMostOnce
  <2> SUFFICES ASSUME TypeOK, MessageInv, NEW c \in Conns, NEW d \in Conns,
                      NEW i \in DOMAIN delivered[c], NEW j \in DOMAIN delivered[d],
                      delivered[c][i] = delivered[d][j]
               PROVE  c = d /\ i = j
    BY DEF AtMostOnce
  <2>1. delivered[c][i] \in With(c) /\ delivered[d][j] \in With(d)
    BY DEF With, Received, ToSet
  <2>2. c = d
    BY <2>1 DEF MessageInv, OnePlace
  <2>3. i \in Nat /\ j \in Nat /\ delivered[c][i] \in Nat
    <3>1. delivered[c] \in Seq(Nat) /\ delivered[d] \in Seq(Nat)
      BY DEF TypeOK
    <3> QED
      BY <3>1, LenProperties, ElementOfSeq
  <2>4. ~(i < j) /\ ~(j < i)
    BY <2>2, <2>3 DEF MessageInv, OrderedOn, Rising
  <2> QED
    BY <2>2, <2>3, <2>4
<1> QED
  BY <1>1, MessagesHaveOnePlace, PTL

\* No message overtakes another on a backend connection, whether it came from the
\* channel or from the cache of the connection before.
THEOREM SentInOrder == Spec => []InOrder
<1>1. MessageInv => InOrder
  BY DEF MessageInv, OrderedOn, Rising, InOrder
<1> QED
  BY <1>1, MessagesHaveOnePlace, PTL

-----------------------------------------------------------------------------
(* The session implements Relay.                                            *)

\* A message that a BE writer writes is one that Relay may deliver.
LEMMA WriteDelivers ==
  ASSUME TypeOK, MessageInv, NEW c \in Conns, NEW n \in Passed, UNCHANGED sent, Wrote(c, n),
         \A d \in Conns : n \notin Received(d), Before(Received(c), {n})
  PROVE  [RelayOf!Next]_<<sent, delivered>>
<1>1. n \in 1..sent
  BY DEF Passed
<1>2. \A d \in Conns : \A i \in DOMAIN delivered[d] : delivered[d][i] # n
  BY DEF Received, ToSet
<1>3. \A i \in DOMAIN delivered[c] : delivered[c][i] < n
  BY DEF Received, ToSet, Before
<1>4. CASE delivered' = [delivered EXCEPT ![c] = Append(@, n)]
  <2>1. RelayOf!Deliver(c, n)
    BY <1>2, <1>3, <1>4 DEF RelayOf!Deliver
  <2> QED
    BY <1>1, <2>1 DEF RelayOf!Next
<1>5. CASE delivered' = delivered
  BY <1>5
<1> QED
  BY <1>4, <1>5 DEF Wrote

\* What the writer of c clears out of its cache, or takes from the channel, has been
\* passed on, has not been received and comes after all that c's backend received.
LEMMA WriterDelivers ==
  ASSUME TypeOK, MessageInv, NEW c \in Conns, BackendWriterRuns(c)
  PROVE  [RelayOf!Next]_<<sent, delivered>>
<1>0. /\ flush[c] \in Seq(Nat) /\ send \in Seq(Messages) /\ UNCHANGED sent
      /\ ChannelInOrder /\ \A d \in Conns : OrderedOn(d) /\ OnePlace(d)
  BY WriterStarted DEF TypeOK, MessageInv
<1>1. CASE FlushWrite(c)
  <2> DEFINE n == Head(flush[c])
  <2>1. Wrote(c, n) /\ flush[c] # <<>> /\ owpc[c] = "flush"
    BY <1>1, WrittenIs DEF FlushWrite
  <2>2. n \in ToSet(flush[c])
    BY <1>0, <2>1, TailRises
  <2> HIDE DEF n
  <2>3. n \in Unsent(c) /\ n \in With(c)
    BY <2>2 DEF With, Unsent
  <2>4. n \in Passed /\ Before(Received(c), {n})
    BY <1>0, <2>1, <2>2, <2>3 DEF ChannelInOrder, OrderedOn, Before
  <2>5. \A d \in Conns : n \notin Received(d)
    BY <1>0, <2>3 DEF OnePlace, With
  <2> QED
    BY <1>0, <2>1, <2>4, <2>5, WriteDelivers
<1>2. CASE TakeWrite(c)
  <2> DEFINE n == Head(send).id
  <2>1. Wrote(c, n) /\ send # <<>> /\ Head(send).type = "data"
    BY <1>2, WrittenIs DEF TakeWrite
  <2>2. n \in DataIn(send)
    BY <1>0, <2>1, TailData
  <2> HIDE DEF n
  <2>3. n \in Passed /\ n \in Nat /\ \A d \in Conns : Before(Received(d), {n})
    BY <1>0, <2>2 DEF ChannelInOrder, With, Before, Passed
  <2>4. \A d \in Conns : n \notin Received(d)
    BY <2>3 DEF Before
  <2> QED
    BY <1>0, <2>1, <2>3, <2>4, WriteDelivers
<1>3. CASE \/ ClearCache(c) \/ FlushFails(c) \/ TakeNormal(c) \/ TakeFails(c)
           \/ PingFails(c) \/ WriteErrorNotified(c) \/ TakeDone(c)
  <2>1. UNCHANGED delivered
    BY <1>3 DEF ClearCache, FlushFails, TakeNormal, TakeFails, PingFails,
                WriteErrorNotified, TakeDone
  <2> QED
    BY <1>0, <2>1
<1> QED
  BY <1>1, <1>2, <1>3 DEF BackendWriterRuns

\* Every step of the session is a step that Relay allows, or none.
LEMMA StepRelays == TypeOK /\ MessageInv /\ [Next]_vars => [RelayOf!Next]_<<sent, delivered>>
<1> SUFFICES ASSUME TypeOK, MessageInv, [Next]_vars PROVE [RelayOf!Next]_<<sent, delivered>>
  OBVIOUS
<1>1. CASE ReadData
  BY <1>1 DEF ReadData, outcVars, RelayOf!Next, RelayOf!Accept
<1>2. CASE \E c \in Conns : BackendWriterRuns(c)
  BY <1>2, WriterDelivers
<1>3. CASE \/ SendData \/ NormalSent \/ ServeStartBE
           \/ \E h \in Handlers : HandlerDialled(h) \/ HandlerStart(h)
           \/ UNCHANGED <<messageState, sent>>
  <2>1. UNCHANGED <<sent, delivered>>
    BY <1>3 DEF SendData, NormalSent, ServeStartBE, HandlerDialled, HandlerStart, messageState,
                clientVars, outcVars
  <2> QED
    BY <2>1
<1> QED
  BY <1>1, <1>2, <1>3, MessageSteps

\* The session with its channels, caches, failures and hand-overs implements Relay:
\* messages are accepted in order and delivered at most once, in order.
THEOREM SessionImplementsRelay == Spec => KeepsRelayPromise
<1>1. Init => RelayOf!Init
  BY DEF Init, RelayOf!Init
<1> QED
  BY <1>1, StepRelays, MessagesHaveOnePlace, PTL DEF Spec, KeepsRelayPromise, RelayOf!Spec

=============================================================================
