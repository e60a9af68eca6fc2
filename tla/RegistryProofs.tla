--------------------------- MODULE RegistryProofs ----------------------------
(***************************************************************************)
(* Proofs about Registry, for every number of sessions, backends, handlers  *)
(* and faults and every capacity of the manager's channels.                 *)
(***************************************************************************)
EXTENDS Registry, SequenceTheorems, FiniteSetTheorems, TLAPS

\* A handler at work has the session it was started for.
HandlerHasSession == \A h \in Handlers : hpc[h] # "idle" => hses[h] \in Sessions

TypeInv == TypeOK /\ HandlerHasSession

-----------------------------------------------------------------------------
(* Types.                                                                   *)

\* The manager starts well typed.
LEMMA InitType == Init => TypeInv
<1> SUFFICES ASSUME Init PROVE TypeInv
  OBVIOUS
<1> USE RegistryAssumption
<1>1. \A S : <<>> \in Seq(S) /\ Len(<<>>) = 0
  OBVIOUS
<1>2. /\ spc \in [Sessions -> {"idle", "dial", "start", "served", "refused"}]
      /\ con \in [Sessions -> Backends \cup {None}]
      /\ offer \in [Sessions \cup Handlers -> SUBSET Backends]
      /\ clients \in [Sessions -> Backends \cup {None}]
      /\ gauge \in [Backends -> Int]
  BY DEF Init
<1>3. /\ hpc \in [Handlers -> {"idle", "exists", "active", "dial", "resume", "waiting", "close"}]
      /\ hses \in [Handlers -> Sessions \cup {None}]
      /\ HandlerHasSession
  BY DEF Init, HandlerHasSession
<1>4. /\ writer \in [Sessions -> {"idle", "running", "gone"}]
      /\ reader \in [Sessions -> {"idle", "running", "gone"}]
      /\ closing \in [Sessions -> {"no", "begun", "done"}]
      /\ jammed \in [Sessions -> BOOLEAN]
  BY DEF Init
<1>5. /\ apc \in [Backends -> {"idle", "look", "abort", "stuck", "end"}]
      /\ toAbort \in [Backends -> SUBSET Sessions] /\ missed \in [Backends -> SUBSET Sessions]
      /\ deleted \subseteq Backends /\ ghosts \subseteq Sessions /\ toClose \subseteq Sessions
      /\ blocked \subseteq Sessions
      /\ stpc = "idle" /\ faults \in 0..MaxFaults
  BY DEF Init
<1>6. looping \in BOOLEAN /\ crashed \in BOOLEAN
  BY Zenon DEF Init
<1>7. /\ register \in Seq(Sessions) /\ Len(register) <= QueueCap
      /\ unregister \in Seq(Sessions) /\ Len(unregister) <= QueueCap
  BY <1>1 DEF Init
<1> QED
  BY <1>2, <1>3, <1>4, <1>5, <1>6, <1>7 DEF TypeOK, TypeInv

FrontendType ==
  /\ writer \in [Sessions -> {"idle", "running", "gone"}]
  /\ reader \in [Sessions -> {"idle", "running", "gone"}]
  /\ closing \in [Sessions -> {"no", "begun", "done"}] /\ jammed \in [Sessions -> BOOLEAN]

\* inc.Close, whoever calls it, keeps the types of the session's variables.
LEMMA CloseBeginType ==
  ASSUME NEW s \in Sessions, FrontendType, CloseBegin(s)
  PROVE  FrontendType'
<1>1. (jammed[s] \/ ~Started(s)) \in BOOLEAN
  BY Zenon DEF FrontendType
<1> QED
  BY <1>1 DEF FrontendType, CloseBegin

\* ServeWs keeps types.
LEMMA ServeType ==
  ASSUME NEW s \in Sessions, TypeInv, ServeDial(s) \/ ServeRuns(s)
  PROVE  TypeInv'
<1> USE RegistryAssumption DEF TypeInv, TypeOK, HandlerHasSession, serveVars, queues, mapVars,
                               handlerVars, feVars, deleteVars, stopVars, ServeGoto
<1>1. CASE ServeDial(s)
  BY <1>1 DEF ServeDial
<1>2. CASE ServeRefuses(s)
  BY <1>2 DEF ServeRefuses
<1>3. CASE ServeRegister(s)
  BY <1>3 DEF ServeRegister
<1>4. CASE ServeStart(s)
  BY <1>4 DEF ServeStart
<1> QED
  BY <1>1, <1>2, <1>3, <1>4 DEF ServeRuns

\* A session's goroutines keep types.
LEMMA SessionType ==
  ASSUME NEW s \in Sessions, TypeInv, SessionRuns(s) \/ SessionCloses(s) \/ BackendBreaks(s)
  PROVE  TypeInv'
<1> USE RegistryAssumption DEF TypeInv, TypeOK, HandlerHasSession, sessionOnly, serveVars, queues,
                               mapVars, handlerVars, feVars, deleteVars, stopVars
<1>1. CASE CloseFinish(s)
  BY <1>1 DEF CloseFinish
<1>2. CASE WriterEnds(s)
  BY <1>2 DEF WriterEnds
<1>3. CASE ReaderUnregister(s)
  BY <1>3 DEF ReaderUnregister
<1>4. CASE SessionCloses(s)
  BY <1>4 DEF SessionCloses, CloseBegin
<1>5. CASE BackendBreaks(s)
  BY <1>5 DEF BackendBreaks, reinitUpstream
<1> QED
  BY <1>1, <1>2, <1>3, <1>4, <1>5 DEF SessionRuns

\* The manager's loop keeps types.
LEMMA LoopType == TypeInv /\ (LoopRegister \/ LoopUnregister) => TypeInv'
<1> SUFFICES ASSUME TypeInv, LoopRegister \/ LoopUnregister PROVE TypeInv'
  OBVIOUS
<1> USE RegistryAssumption DEF TypeInv, TypeOK, HandlerHasSession, loopOnly, serveVars, queues,
                               mapVars, handlerVars, feVars, deleteVars, stopVars
<1>1. CASE LoopRegister
  <2>1. Head(register) \in Sessions /\ Tail(register) \in Seq(Sessions)
        /\ Len(Tail(register)) = Len(register) - 1
    BY <1>1 DEF LoopRegister
  <2> QED
    BY <1>1, <2>1 DEF LoopRegister, addClient, Told
<1>2. CASE LoopUnregister
  <2>1. Head(unregister) \in Sessions /\ Tail(unregister) \in Seq(Sessions)
        /\ Len(Tail(unregister)) = Len(unregister) - 1
    BY <1>2 DEF LoopUnregister
  <2> QED
    BY <1>2, <2>1 DEF LoopUnregister
<1> QED
  BY <1>1, <1>2

\* The handlers keep types.
LEMMA HandlerType ==
  ASSUME NEW h \in Handlers, TypeInv, HandlerRuns(h)
  PROVE  TypeInv'
<1> USE RegistryAssumption DEF TypeInv, TypeOK, HandlerHasSession, serveVars, queues, mapVars,
                               handlerVars, feVars, deleteVars, stopVars, HandlerGoto, HandlerEnds
<1>1. CASE HandlerExists(h)
  <2>1. CASE Registered(hses[h])
    BY <1>1, <2>1, ZenonT(60) DEF HandlerExists
  <2>2. CASE ~Registered(hses[h])
    <3>1. hses[h] \in Sessions
      BY <1>1 DEF HandlerExists
    <3>2. ghosts' \subseteq Sessions
      BY <1>1, <2>2, <3>1 DEF HandlerExists
    <3>3. /\ hpc' = [hpc EXCEPT ![h] = "idle"]
          /\ hses' = [hses EXCEPT ![h] = None]
      BY <1>1, <2>2 DEF HandlerExists
    <3>4. HandlerHasSession'
      BY <3>3
    <3> QED
      BY <1>1, <2>2, <3>2, <3>3, <3>4 DEF HandlerExists
  <2> QED
    BY <2>1, <2>2
<1>2. CASE HandlerActive(h)
  BY <1>2 DEF HandlerActive
<1>3. CASE HandlerDialFails(h)
  <2>1. hses[h] \in Sessions
    BY <1>3 DEF HandlerDialFails
  <2>2. CASE closing[hses[h]] = "no"
    <3>1. CloseBegin(hses[h])
      BY <1>3, <2>2 DEF HandlerDialFails
    <3>2. /\ writer' \in [Sessions -> {"idle", "running", "gone"}]
          /\ reader' \in [Sessions -> {"idle", "running", "gone"}]
          /\ closing' \in [Sessions -> {"no", "begun", "done"}]
          /\ jammed' \in [Sessions -> BOOLEAN]
      BY <2>1, <3>1, CloseBeginType DEF FrontendType
    <3> QED
      BY <1>3, <2>1, <3>2 DEF HandlerDialFails
  <2>3. CASE closing[hses[h]] # "no"
    BY <1>3, <2>1, <2>3 DEF HandlerDialFails
  <2> QED
    BY <2>2, <2>3
<1>4. CASE HandlerRemove(h)
  BY <1>4 DEF HandlerRemove, removeClient, Told
<1>5. CASE HandlerAdd(h)
  BY <1>5 DEF HandlerAdd, addClient, Told
<1>6. CASE HandlerResume(h)
  BY <1>6 DEF HandlerResume
<1>7. CASE HandlerResumeWaits(h)
  BY <1>7 DEF HandlerResumeWaits
<1> QED
  BY <1>1, <1>2, <1>3, <1>4, <1>5, <1>6, <1>7 DEF HandlerRuns

\* Deleting a backend or failing it over keeps types.
LEMMA AbortType ==
  ASSUME NEW b \in Backends, TypeInv, DeleteBackend(b) \/ FailoverBackend(b) \/ AbortRuns(b)
  PROVE  TypeInv'
<1> USE RegistryAssumption DEF TypeInv, TypeOK, HandlerHasSession, deleteOnly, serveVars, queues,
                               mapVars, handlerVars, feVars, deleteVars, stopVars
<1>1. CASE DeleteBackend(b)
  BY <1>1 DEF DeleteBackend, Request
<1>2. CASE FailoverBackend(b)
  BY <1>2 DEF FailoverBackend, Request
<1>3. CASE AbortLook(b)
  BY <1>3 DEF AbortLook
<1>4. CASE AbortOne(b)
  <2>1. PICK s \in toAbort[b] :
          /\ toAbort' = [toAbort EXCEPT ![b] = @ \ {s}]
          /\ \/ reinitUpstream(s) /\ UNCHANGED missed
             \/ /\ missed' = [missed EXCEPT ![b] = @ \cup {s}]
                /\ UNCHANGED <<unregister, feVars>>
    BY <1>4 DEF AbortOne
  <2>2. s \in Sessions
    BY <2>1
  <2>3. /\ toAbort' \in [Backends -> SUBSET Sessions]
        /\ missed' \in [Backends -> SUBSET Sessions]
    <3>1. CASE UNCHANGED missed
      BY <2>1, <3>1
    <3>2. CASE missed' = [missed EXCEPT ![b] = @ \cup {s}]
      <4>1. missed[b] \cup {s} \in SUBSET Sessions
        BY <2>2
      <4> QED
        BY <2>1, <3>2, <4>1
    <3> QED
      BY <2>1, <3>1, <3>2
  <2>4. /\ unregister' \in Seq(Sessions) /\ Len(unregister') <= QueueCap
        /\ writer' \in [Sessions -> {"idle", "running", "gone"}]
        /\ UNCHANGED <<reader, closing, jammed>>
    <3>1. CASE reinitUpstream(s)
      BY <2>2, <3>1 DEF reinitUpstream
    <3>2. CASE UNCHANGED <<unregister, feVars>>
      BY <3>2
    <3> QED
      BY <2>1, <3>1, <3>2
  <2> QED
    BY <1>4, <2>3, <2>4 DEF AbortOne
<1>5. CASE AbortStuck(b)
  BY <1>5 DEF AbortStuck
<1>6. CASE AbortEnds(b)
  BY <1>6 DEF AbortEnds
<1>7. CASE AbortBlocks(b)
  <2>1. PICK s \in toAbort[b] : /\ blocked' = blocked \cup {s}
                               /\ (reinitUpstream(s) \/ UNCHANGED <<unregister, feVars>>)
    BY <1>7 DEF AbortBlocks
  <2>2. s \in Sessions
    BY <2>1
  <2>3. blocked' \subseteq Sessions /\ apc' \in [Backends -> {"idle", "look", "abort", "stuck", "end"}]
    BY <1>7, <2>1, <2>2 DEF AbortBlocks
  <2>4. /\ unregister' \in Seq(Sessions) /\ Len(unregister') <= QueueCap
        /\ writer' \in [Sessions -> {"idle", "running", "gone"}]
        /\ UNCHANGED <<reader, closing, jammed>>
    <3>1. CASE reinitUpstream(s)
      BY <2>2, <3>1 DEF reinitUpstream
    <3>2. CASE UNCHANGED <<unregister, feVars>>
      BY <3>2
    <3> QED
      BY <2>1, <3>1, <3>2
  <2> QED
    BY <1>7, <2>3, <2>4 DEF AbortBlocks
<1> QED
  BY <1>1, <1>2, <1>3, <1>4, <1>5, <1>6, <1>7 DEF AbortRuns

\* Stop keeps types.
LEMMA StopType == TypeInv /\ (StopBegin \/ StopRuns) => TypeInv'
<1> SUFFICES ASSUME TypeInv, StopBegin \/ StopRuns PROVE TypeInv'
  OBVIOUS
<1> USE RegistryAssumption DEF TypeInv, TypeOK, HandlerHasSession, stopOnly, serveVars, queues,
                               mapVars, handlerVars, feVars, deleteVars, stopVars
<1>1. CASE StopBegin
  BY <1>1 DEF StopBegin
<1>2. CASE StopClose
  BY <1>2, ZenonT(60) DEF StopClose, CloseBegin
<1>3. CASE StopClosed
  BY <1>3 DEF StopClosed
<1>4. CASE StopLoop
  BY <1>4 DEF StopLoop
<1> QED
  BY <1>1, <1>2, <1>3, <1>4 DEF StopRuns

\* Every step, and no step, keeps types.
LEMMA StepType == TypeInv /\ [Next]_vars => TypeInv'
<1> SUFFICES ASSUME TypeInv, [Next]_vars PROVE TypeInv'
  OBVIOUS
<1>1. CASE UNCHANGED vars
  BY <1>1 DEF TypeInv, TypeOK, HandlerHasSession, vars, serveVars, queues, mapVars, handlerVars,
              feVars, deleteVars, stopVars
<1>2. CASE Next
  <2>1. ASSUME NEW s \in Sessions,
               ServeDial(s) \/ SessionCloses(s) \/ BackendBreaks(s) \/ ServeRuns(s) \/ SessionRuns(s)
        PROVE  TypeInv'
    BY <2>1, ServeType, SessionType
  <2>2. ASSUME NEW b \in Backends, DeleteBackend(b) \/ FailoverBackend(b) \/ AbortRuns(b)
        PROVE  TypeInv'
    BY <2>2, AbortType
  <2>3. ASSUME NEW h \in Handlers, HandlerRuns(h) PROVE TypeInv'
    BY <2>3, HandlerType
  <2>4. Edited \subseteq Backends
    BY RegistryAssumption
  <2> QED
    BY <1>2, <2>1, <2>2, <2>3, <2>4, LoopType, StopType DEF Next, Environment, Balancer
<1> QED
  BY <1>1, <1>2

\* Every variable keeps its type and the manager's channels their capacity.
THEOREM TypeCorrect == Spec => []TypeOK
<1>1. Spec => []TypeInv
  BY InitType, StepType, PTL DEF Spec
<1>2. TypeInv => TypeOK
  BY DEF TypeInv
<1> QED
  BY <1>1, <1>2, PTL

-----------------------------------------------------------------------------
(* The gauge.                                                               *)

On(f, b) == {s \in Sessions : f[s] = b}

\* When one session's entry changes from "was" to v, the number of entries that
\* are b changes by what a listener is told about the two.
LEMMA EntryChanges ==
  \A f : \A s \in Sessions : \A v, b :
    DOMAIN f = Sessions =>
      Cardinality(On([f EXCEPT ![s] = v], b)) =
        Cardinality(On(f, b)) + Told(b, v) - Told(b, f[s])
<1> SUFFICES ASSUME NEW f, NEW s \in Sessions, NEW v, NEW b, DOMAIN f = Sessions
             PROVE  Cardinality(On([f EXCEPT ![s] = v], b)) =
                      Cardinality(On(f, b)) + Told(b, v) - Told(b, f[s])
  OBVIOUS
<1> DEFINE g == [f EXCEPT ![s] = v]
<1>1. IsFiniteSet(On(f, b))
  <2>1. On(f, b) \in SUBSET Sessions
    BY DEF On
  <2> QED
    BY <2>1, RegistryAssumption, FS_Subset
<1>2. Cardinality(On(f, b)) \in Nat
  BY <1>1, FS_CardinalityType
<1>3. CASE v = b /\ f[s] = b
  <2>1. On(g, b) = On(f, b)
    BY <1>3 DEF On
  <2> QED
    BY <1>2, <1>3, <2>1 DEF Told
<1>4. CASE v = b /\ f[s] # b
  <2>1. On(g, b) = On(f, b) \cup {s} /\ s \notin On(f, b)
    BY <1>4 DEF On
  <2>2. Cardinality(On(g, b)) = Cardinality(On(f, b)) + 1
    BY <1>1, <2>1, FS_AddElement
  <2> QED
    BY <1>2, <1>4, <2>2 DEF Told
<1>5. CASE v # b /\ f[s] = b
  <2>1. On(g, b) = On(f, b) \ {s} /\ s \in On(f, b)
    BY <1>5 DEF On
  <2>2. Cardinality(On(g, b)) = Cardinality(On(f, b)) - 1
    BY <1>1, <2>1, FS_RemoveElement
  <2> QED
    BY <1>2, <1>5, <2>2 DEF Told
<1>6. CASE v # b /\ f[s] # b
  <2>1. On(g, b) = On(f, b)
    BY <1>6 DEF On
  <2> QED
    BY <1>2, <1>6, <2>1 DEF Told
<1> QED
  BY <1>3, <1>4, <1>5, <1>6

\* addClient tells the listeners what it does to clients.
LEMMA addClientCounts ==
  ASSUME NEW s \in Sessions, NEW c, TypeInv, GaugeCounts, addClient(s, c)
  PROVE  GaugeCounts'
<1> SUFFICES ASSUME NEW b \in Backends PROVE gauge'[b] = Cardinality(On(clients', b))
  BY DEF GaugeCounts, On
<1>1. gauge[b] = Cardinality(On(clients, b))
  BY DEF GaugeCounts, On
<1>2. gauge'[b] = gauge[b] + Told(b, c) - Told(b, clients[s])
  BY DEF addClient, TypeInv, TypeOK
<1>3. DOMAIN clients = Sessions /\ clients' = [clients EXCEPT ![s] = c]
  BY DEF addClient, TypeInv, TypeOK
<1>4. Cardinality(On(clients', b)) = Cardinality(On(clients, b)) + Told(b, c) - Told(b, clients[s])
  BY <1>3, EntryChanges
<1> QED
  BY <1>1, <1>2, <1>4

\* removeClient does so too, also when the session has been removed before.
LEMMA removeClientCounts ==
  ASSUME NEW s \in Sessions, TypeInv, GaugeCounts, removeClient(s)
  PROVE  GaugeCounts'
<1> SUFFICES ASSUME NEW b \in Backends PROVE gauge'[b] = Cardinality(On(clients', b))
  BY DEF GaugeCounts, On
<1>1. gauge[b] = Cardinality(On(clients, b)) /\ gauge[b] \in Int
  BY DEF GaugeCounts, On, TypeInv, TypeOK
<1>2. gauge'[b] = gauge[b] - Told(b, clients[s])
  BY DEF removeClient, TypeInv, TypeOK
<1>3. DOMAIN clients = Sessions /\ clients' = [clients EXCEPT ![s] = None]
  BY DEF removeClient, TypeInv, TypeOK
<1>4. Told(b, None) = 0
  BY RegistryAssumption DEF Told
<1>5. Cardinality(On(clients', b)) = Cardinality(On(clients, b)) + Told(b, None) - Told(b, clients[s])
  BY <1>3, EntryChanges
<1> QED
  BY <1>1, <1>2, <1>4, <1>5 DEF Told

\* Only these two touch the map of clients and the gauge.
LEMMA OnlyAddAndRemove ==
  ASSUME TypeInv, [Next]_vars
  PROVE  \/ UNCHANGED mapVars
         \/ \E s \in Sessions : removeClient(s) \/ \E c \in Backends \cup {None} : addClient(s, c)
<1> USE DEF mapVars
<1>1. CASE UNCHANGED vars
  BY <1>1 DEF vars
<1>2. ASSUME NEW s \in Sessions, ServeDial(s) \/ ServeRuns(s) PROVE UNCHANGED mapVars
  BY <1>2 DEF ServeDial, ServeRuns, ServeRefuses, ServeRegister, ServeStart
<1>3. ASSUME NEW s \in Sessions, SessionRuns(s) \/ SessionCloses(s) \/ BackendBreaks(s)
      PROVE  UNCHANGED mapVars
  BY <1>3 DEF SessionRuns, CloseFinish, WriterEnds, ReaderUnregister, SessionCloses,
              BackendBreaks, sessionOnly
<1>4. CASE LoopRegister
  <2>1. Head(register) \in Sessions
    BY <1>4 DEF LoopRegister, TypeInv, TypeOK
  <2>2. con[Head(register)] \in Backends \cup {None}
    BY <2>1 DEF TypeInv, TypeOK
  <2> QED
    BY <1>4, <2>1, <2>2 DEF LoopRegister
<1>5. CASE LoopUnregister
  BY <1>5 DEF LoopUnregister
<1>6. ASSUME NEW h \in Handlers, HandlerRuns(h)
      PROVE  \/ UNCHANGED mapVars
             \/ \E s \in Sessions : removeClient(s) \/ \E c \in Backends \cup {None} : addClient(s, c)
  <2>1. CASE \/ HandlerExists(h) \/ HandlerActive(h) \/ HandlerDialFails(h)
             \/ HandlerResumeWaits(h) \/ HandlerResume(h)
    BY <2>1 DEF HandlerExists, HandlerActive, HandlerDialFails, HandlerResumeWaits, HandlerResume
  <2>2. CASE HandlerRemove(h)
    <3>1. hses[h] \in Sessions
      BY <2>2 DEF HandlerRemove, HandlerEnds, HandlerGoto, TypeInv, HandlerHasSession
    <3> QED
      BY <2>2, <3>1 DEF HandlerRemove
  <2>3. CASE HandlerAdd(h)
    <3>1. hses[h] \in Sessions
      BY <2>3 DEF HandlerAdd, HandlerGoto, TypeInv, HandlerHasSession
    <3>2. offer[h] \subseteq Backends
      BY DEF TypeInv, TypeOK
    <3> QED
      BY <2>3, <3>1, <3>2 DEF HandlerAdd
  <2> QED
    BY <1>6, <2>1, <2>2, <2>3 DEF HandlerRuns
<1>7. ASSUME NEW b \in Backends, DeleteBackend(b) \/ FailoverBackend(b) \/ AbortRuns(b)
      PROVE  UNCHANGED mapVars
  BY <1>7 DEF DeleteBackend, FailoverBackend, AbortRuns, AbortLook, AbortOne, AbortBlocks,
              AbortStuck, AbortEnds, deleteOnly
<1>8. CASE StopBegin \/ StopRuns
  BY <1>8 DEF StopBegin, StopRuns, StopClose, StopClosed, StopLoop, stopOnly
<1>9. Edited \subseteq Backends
  BY RegistryAssumption
<1> QED
  BY <1>1, <1>2, <1>3, <1>4, <1>5, <1>6, <1>7, <1>8, <1>9 DEF Next, Environment, Balancer

\* The listeners' gauge counts the sessions that clients maps to a backend, for
\* every number of sessions, backends, handlers and administrators at once.
THEOREM GaugeIsRight == Spec => []GaugeCounts
<1>1. Init => GaugeCounts
  <2> SUFFICES ASSUME Init, NEW b \in Backends PROVE gauge[b] = Cardinality(On(clients, b))
    BY DEF GaugeCounts, On
  <2>1. On(clients, b) = {}
    BY RegistryAssumption DEF Init, On
  <2> QED
    BY <2>1, FS_EmptySet DEF Init
<1>2. TypeInv /\ GaugeCounts /\ [Next]_vars => GaugeCounts'
  <2> SUFFICES ASSUME TypeInv, GaugeCounts, [Next]_vars PROVE GaugeCounts'
    OBVIOUS
  <2>1. CASE UNCHANGED mapVars
    BY <2>1 DEF mapVars, GaugeCounts
  <2>2. ASSUME NEW s \in Sessions, removeClient(s) PROVE GaugeCounts'
    BY <2>2, removeClientCounts
  <2>3. ASSUME NEW s \in Sessions, NEW c \in Backends \cup {None}, addClient(s, c)
        PROVE  GaugeCounts'
    BY <2>3, addClientCounts
  <2> QED
    BY <2>1, <2>2, <2>3, OnlyAddAndRemove
<1> QED
  BY <1>1, <1>2, InitType, StepType, PTL DEF Spec

-----------------------------------------------------------------------------
(* Removal.                                                                 *)

Among(queue, s) == \E i \in DOMAIN queue : queue[i] = s

Distinct(queue) == \A i, j \in DOMAIN queue : queue[i] = queue[j] => i = j

Past(h) == hpc[h] \notin {"idle", "exists"}

\* A session is registered once: it is in register, then in clients or past it.
OncePerSession ==
  /\ Distinct(register)
  /\ \A s \in Sessions :
       /\ Among(register, s) => spc[s] \in {"start", "served"}
       /\ Registered(s) => ~Among(register, s) /\ spc[s] \in {"start", "served"}
  /\ \A h \in Handlers :
       Past(h) => ~Among(register, hses[h]) /\ spc[hses[h]] \in {"start", "served"}

\* The reader is the last of a session's goroutines to hand it to the manager, ...
ReaderEndsClosed ==
  \A s \in Sessions :
    /\ reader[s] # "idle" => spc[s] = "served"
    /\ reader[s] = "gone" => closing[s] = "done"

AtWork(h, s) == hpc[h] # "idle" /\ hses[h] = s

\* ... which does not lose sight of it until it is out of clients, but for the two
\* exceptions of SettledIsRemoved.
InSight(s) ==
  \/ Among(unregister, s) \/ \E h \in Handlers : AtWork(h, s)
  \/ ~Registered(s) /\ ~Among(register, s)
  \/ s \in ghosts \/ crashed

NobodyLost == \A s \in Sessions : reader[s] = "gone" => InSight(s)

RemovalInv == OncePerSession /\ ReaderEndsClosed /\ NobodyLost

\* What is in a channel after a send and after a receive.
LEMMA Sending ==
  ASSUME NEW queue \in Seq(Sessions), NEW s \in Sessions
  PROVE  /\ \A t : Among(Append(queue, s), t) <=> Among(queue, t) \/ t = s
         /\ Distinct(queue) /\ ~Among(queue, s) => Distinct(Append(queue, s))
<1>1. /\ DOMAIN Append(queue, s) = DOMAIN queue \cup {Len(queue) + 1}
      /\ \A i \in DOMAIN queue : Append(queue, s)[i] = queue[i] /\ i # Len(queue) + 1
      /\ Append(queue, s)[Len(queue) + 1] = s
  OBVIOUS
<1> QED
  BY <1>1, Zenon DEF Among, Distinct

\* See Sending.
LEMMA Receiving ==
  ASSUME NEW queue \in Seq(Sessions), queue # <<>>
  PROVE  /\ \A t : Among(queue, t) <=> Among(Tail(queue), t) \/ t = Head(queue)
         /\ Distinct(queue) => Distinct(Tail(queue)) /\ ~Among(Tail(queue), Head(queue))
<1>1. /\ DOMAIN queue = 1..Len(queue) /\ DOMAIN Tail(queue) = 1..(Len(queue) - 1)
      /\ \A i \in DOMAIN Tail(queue) : Tail(queue)[i] = queue[i + 1]
      /\ Head(queue) = queue[1] /\ Len(queue) \in Nat \ {0}
  OBVIOUS
<1>2. \A i \in DOMAIN queue : i = 1 \/ (i - 1 \in DOMAIN Tail(queue) /\ Tail(queue)[i - 1] = queue[i])
  BY <1>1
<1>3. \A t : Among(queue, t) <=> Among(Tail(queue), t) \/ t = Head(queue)
  <2>1. ASSUME NEW t, NEW i \in DOMAIN queue, queue[i] = t
        PROVE  Among(Tail(queue), t) \/ t = Head(queue)
    <3>1. CASE i = 1
      BY <1>1, <2>1, <3>1
    <3>2. CASE i # 1
      BY <1>2, <2>1, <3>2, Zenon DEF Among
    <3> QED
      BY <3>1, <3>2
  <2>2. ASSUME NEW i \in DOMAIN Tail(queue) PROVE i + 1 \in DOMAIN queue /\ Tail(queue)[i] = queue[i + 1]
    BY <1>1
  <2>3. 1 \in DOMAIN queue /\ queue[1] = Head(queue)
    BY <1>1
  <2> QED
    BY <2>1, <2>2, <2>3, Zenon DEF Among
<1>4. ASSUME Distinct(queue) PROVE Distinct(Tail(queue)) /\ ~Among(Tail(queue), Head(queue))
  <2>1. \A i \in DOMAIN Tail(queue) : i \in Int /\ i + 1 \in DOMAIN queue /\ i + 1 # 1
    BY <1>1
  <2>2. \A i, j \in DOMAIN queue : queue[i] = queue[j] => i = j
    BY <1>4 DEF Distinct
  <2>3. 1 \in DOMAIN queue
    BY <1>1
  <2>4. ASSUME NEW i \in DOMAIN Tail(queue), NEW j \in DOMAIN Tail(queue),
               Tail(queue)[i] = Tail(queue)[j]
        PROVE  i = j
    <3>1. queue[i + 1] = queue[j + 1]
      BY <1>1, <2>4
    <3>2. i + 1 = j + 1
      BY <2>1, <2>2, <3>1
    <3> QED
      BY <2>1, <3>2
  <2>5. ASSUME NEW i \in DOMAIN Tail(queue) PROVE Tail(queue)[i] # Head(queue)
    <3>1. Tail(queue)[i] = queue[i + 1] /\ Head(queue) = queue[1]
      BY <1>1
    <3> QED
      BY <2>1, <2>2, <2>3, <3>1
  <2> QED
    BY <2>4, <2>5, Zenon DEF Among, Distinct
<1> QED
  BY <1>3, <1>4

\* ServeWs registers a session once, before it starts its reader.
LEMMA ServeRemoval ==
  ASSUME NEW s \in Sessions, TypeInv, RemovalInv, ~crashed, ServeDial(s) \/ ServeRuns(s)
  PROVE  RemovalInv'
<1> USE DEF RemovalInv, ServeGoto, handlerVars, mapVars, queues, feVars
<1>1. /\ UNCHANGED <<clients, unregister, hpc, hses, ghosts, crashed, closing>>
      /\ \E pc : spc' = [spc EXCEPT ![s] = pc]
  BY DEF ServeDial, ServeRuns, ServeRefuses, ServeRegister, ServeStart
<1>2. /\ spc \in [Sessions -> {"idle", "dial", "start", "served", "refused"}]
      /\ reader \in [Sessions -> {"idle", "running", "gone"}]
      /\ register \in Seq(Sessions)
      /\ \A h \in Handlers : Past(h) => hses[h] \in Sessions
  BY DEF TypeInv, TypeOK, HandlerHasSession, Past
<1>3. CASE ServeDial(s) \/ ServeRefuses(s)
  <2>1. /\ UNCHANGED <<register, reader>>
        /\ spc[s] \in {"idle", "dial"} /\ \E pc \in {"dial", "refused"} : spc' = [spc EXCEPT ![s] = pc]
    BY <1>3 DEF ServeDial, ServeRefuses
  <2> QED
    BY <1>1, <1>2, <2>1 DEF OncePerSession, ReaderEndsClosed, NobodyLost, InSight, AtWork, Past,
                            Registered
<1>4. CASE ServeRegister(s)
  <2>1. /\ UNCHANGED reader /\ register' = Append(register, s)
        /\ spc[s] = "dial" /\ spc' = [spc EXCEPT ![s] = "start"]
    BY <1>4 DEF ServeRegister
  <2>2. ~Among(register, s)
    BY <2>1 DEF OncePerSession
  <2>3. /\ \A t : Among(register', t) <=> Among(register, t) \/ t = s
        /\ Distinct(register')
    BY <1>2, <2>1, <2>2, Sending DEF OncePerSession
  <2>4. OncePerSession'
    BY <1>1, <1>2, <2>1, <2>3 DEF OncePerSession, Registered, Past
  <2> QED
    BY <1>1, <1>2, <2>1, <2>3, <2>4 DEF ReaderEndsClosed, NobodyLost, InSight, AtWork, Registered
<1>5. CASE ServeStart(s)
  <2>1. /\ UNCHANGED register /\ reader' = [reader EXCEPT ![s] = "running"]
        /\ spc[s] = "start" /\ spc' = [spc EXCEPT ![s] = "served"]
    BY <1>5 DEF ServeStart
  <2> QED
    BY <1>1, <1>2, <2>1 DEF OncePerSession, ReaderEndsClosed, NobodyLost, InSight, AtWork, Past,
                            Registered
<1> QED
  BY <1>3, <1>4, <1>5 DEF ServeRuns

\* A step that leaves the map of clients, register and the handlers alone, and
\* after which a reader that ends has closed its session and handed it over.
LEMMA Elsewhere ==
  ASSUME RemovalInv, UNCHANGED <<register, clients, spc, hpc, hses, ghosts, crashed>>,
         \A s \in Sessions : Among(unregister, s) => Among(unregister', s),
         \A s \in Sessions : closing[s] = "done" => closing'[s] = "done",
         \A s \in Sessions :
           \/ reader'[s] = reader[s]
           \/ reader[s] = "running" /\ closing'[s] = "done" /\ Among(unregister', s)
  PROVE  RemovalInv'
<1>1. OncePerSession'
  BY DEF RemovalInv, OncePerSession, Registered, Past
<1>2. ReaderEndsClosed'
  BY DEF RemovalInv, ReaderEndsClosed
<1>3. NobodyLost'
  BY DEF RemovalInv, NobodyLost, InSight, AtWork, Registered
<1> QED
  BY <1>1, <1>2, <1>3 DEF RemovalInv

\* inc.Close does not end a session's reader, nor is it called again when done.
LEMMA CloseBeginKeeps ==
  ASSUME NEW s \in Sessions, TypeInv, CloseBegin(s)
  PROVE  /\ UNCHANGED reader
         /\ \A t \in Sessions : closing[t] = "done" => closing'[t] = "done"
BY DEF CloseBegin, TypeInv, TypeOK

\* The goroutine that is told of a broken connection hands the session over.
LEMMA ReinitKeeps ==
  ASSUME NEW s \in Sessions, TypeInv, reinitUpstream(s)
  PROVE  /\ UNCHANGED <<reader, closing>>
         /\ \A t \in Sessions : Among(unregister, t) => Among(unregister', t)
<1>1. unregister \in Seq(Sessions) /\ unregister' = Append(unregister, s)
  BY DEF reinitUpstream, TypeInv, TypeOK
<1>2. \A t : Among(unregister', t) <=> Among(unregister, t) \/ t = s
  BY <1>1, Sending
<1> QED
  BY <1>2 DEF reinitUpstream

\* A session's goroutines end the reader last.
LEMMA SessionRemoval ==
  ASSUME NEW s \in Sessions, TypeInv, RemovalInv,
         SessionRuns(s) \/ SessionCloses(s) \/ BackendBreaks(s)
  PROVE  RemovalInv'
<1>1. UNCHANGED <<register, clients, spc, hpc, hses, ghosts, crashed>>
  BY DEF SessionRuns, CloseFinish, WriterEnds, ReaderUnregister, SessionCloses, BackendBreaks,
         sessionOnly, serveVars, mapVars, handlerVars
<1>2. CASE CloseFinish(s)
  <2>1. UNCHANGED <<unregister, reader>> /\ closing' = [closing EXCEPT ![s] = "done"]
    BY <1>2 DEF CloseFinish
  <2>2. \A t \in Sessions : closing[t] = "done" => closing'[t] = "done"
    BY <2>1 DEF TypeInv, TypeOK
  <2> QED
    BY <1>1, <2>1, <2>2, Elsewhere
<1>3. CASE WriterEnds(s)
  BY <1>1, <1>3, Elsewhere DEF WriterEnds
<1>4. CASE ReaderUnregister(s)
  <2>1. /\ UNCHANGED closing /\ unregister' = Append(unregister, s)
        /\ reader[s] = "running" /\ closing[s] = "done" /\ reader' = [reader EXCEPT ![s] = "gone"]
        /\ unregister \in Seq(Sessions) /\ reader \in [Sessions -> {"idle", "running", "gone"}]
    BY <1>4 DEF ReaderUnregister, TypeInv, TypeOK
  <2>2. \A t : Among(unregister', t) <=> Among(unregister, t) \/ t = s
    BY <2>1, Sending
  <2>3. \A t \in Sessions :
          \/ reader'[t] = reader[t]
          \/ reader[t] = "running" /\ closing'[t] = "done" /\ Among(unregister', t)
    BY <2>1, <2>2
  <2> QED
    BY <1>1, <2>1, <2>2, <2>3, Elsewhere
<1>5. CASE SessionCloses(s)
  <2>1. CloseBegin(s) /\ UNCHANGED unregister
    BY <1>5 DEF SessionCloses
  <2> QED
    BY <1>1, <2>1, CloseBeginKeeps, Elsewhere
<1>6. CASE BackendBreaks(s)
  <2>1. reinitUpstream(s)
    BY <1>6 DEF BackendBreaks
  <2> QED
    BY <1>1, <2>1, ReinitKeeps, Elsewhere
<1> QED
  BY <1>2, <1>3, <1>4, <1>5, <1>6 DEF SessionRuns

\* Stop closes sessions and does not end their readers.
LEMMA StopRemoval == TypeInv /\ RemovalInv /\ (StopBegin \/ StopRuns) => RemovalInv'
<1> SUFFICES ASSUME TypeInv, RemovalInv, StopBegin \/ StopRuns PROVE RemovalInv'
  OBVIOUS
<1>1. UNCHANGED <<register, unregister, clients, spc, hpc, hses, ghosts, crashed>>
  BY DEF StopBegin, StopRuns, StopClose, StopClosed, StopLoop, stopOnly, serveVars, mapVars,
         handlerVars
<1>2. CASE UNCHANGED feVars
  BY <1>1, <1>2, Elsewhere DEF feVars
<1>3. CASE StopClose
  <2>1. PICK s \in toClose : IF closing[s] = "no" THEN CloseBegin(s) ELSE UNCHANGED feVars
    BY <1>3 DEF StopClose
  <2>2. s \in Sessions
    BY DEF TypeInv, TypeOK
  <2>3. CASE CloseBegin(s)
    BY <1>1, <2>2, <2>3, CloseBeginKeeps, Elsewhere
  <2> QED
    BY <1>2, <2>1, <2>3
<1> QED
  BY <1>2, <1>3 DEF StopBegin, StopRuns, StopClosed, StopLoop

\* So does the administration, which hands sessions over.
LEMMA AbortRemoval ==
  ASSUME NEW b \in Backends, TypeInv, RemovalInv,
         DeleteBackend(b) \/ FailoverBackend(b) \/ AbortRuns(b)
  PROVE  RemovalInv'
<1>1. UNCHANGED <<register, clients, spc, hpc, hses, ghosts, crashed>>
  BY DEF DeleteBackend, FailoverBackend, AbortRuns, AbortLook, AbortOne, AbortBlocks, AbortStuck,
         AbortEnds, deleteOnly, queues, serveVars, mapVars, handlerVars
<1>2. CASE UNCHANGED <<unregister, reader, closing>>
  BY <1>1, <1>2, Elsewhere
<1>3. CASE AbortOne(b) \/ AbortBlocks(b)
  <2>1. PICK s \in toAbort[b] : reinitUpstream(s) \/ UNCHANGED <<unregister, feVars>>
    BY <1>3 DEF AbortOne, AbortBlocks
  <2>2. s \in Sessions
    BY DEF TypeInv, TypeOK
  <2>3. CASE reinitUpstream(s)
    BY <1>1, <2>2, <2>3, ReinitKeeps, Elsewhere
  <2>4. CASE UNCHANGED <<unregister, feVars>>
    BY <1>2, <2>4 DEF feVars
  <2> QED
    BY <2>1, <2>3, <2>4
<1> QED
  BY <1>2, <1>3 DEF DeleteBackend, FailoverBackend, AbortRuns, AbortLook, AbortStuck, AbortEnds,
                    deleteOnly, queues, feVars

\* The loop moves a session from register into clients, or from unregister to a
\* handler.
LEMMA LoopRemoval == TypeInv /\ RemovalInv /\ (LoopRegister \/ LoopUnregister) => RemovalInv'
<1> SUFFICES ASSUME TypeInv, RemovalInv, LoopRegister \/ LoopUnregister PROVE RemovalInv'
  OBVIOUS
<1>1. UNCHANGED <<spc, closing, reader, ghosts, crashed>>
  BY DEF LoopRegister, LoopUnregister, loopOnly, serveVars, feVars, handlerVars
<1>2. ReaderEndsClosed'
  BY <1>1 DEF RemovalInv, ReaderEndsClosed
<1>3. /\ register \in Seq(Sessions) /\ unregister \in Seq(Sessions)
      /\ clients \in [Sessions -> Backends \cup {None}]
      /\ hpc \in [Handlers -> {"idle", "exists", "active", "dial", "resume", "waiting", "close"}]
      /\ hses \in [Handlers -> Sessions \cup {None}]
  BY DEF TypeInv, TypeOK
<1>4. CASE LoopRegister
  <2> DEFINE r == Head(register)
  <2>1. /\ UNCHANGED <<unregister, hpc, hses>> /\ register # <<>> /\ register' = Tail(register)
        /\ clients' = [clients EXCEPT ![r] = con[r]]
    BY <1>4 DEF LoopRegister, addClient, handlerVars
  <2>2. /\ \A s : Among(register, s) <=> Among(register', s) \/ s = r
        /\ Distinct(register') /\ ~Among(register', r)
    BY <1>3, <2>1, Receiving DEF RemovalInv, OncePerSession
  <2>3. \A s \in Sessions : s # r => (Registered(s)' <=> Registered(s))
    BY <1>3, <2>1 DEF Registered
  <2>4. OncePerSession'
    BY <1>1, <2>1, <2>2, <2>3 DEF RemovalInv, OncePerSession, Past
  <2>5. NobodyLost'
    BY <1>1, <2>1, <2>2, <2>3 DEF RemovalInv, NobodyLost, InSight, AtWork
  <2> QED
    BY <1>2, <2>4, <2>5 DEF RemovalInv
<1>5. CASE LoopUnregister
  <2>1. PICK h \in Handlers : /\ hpc[h] = "idle"
                              /\ hpc' = [hpc EXCEPT ![h] = "exists"]
                              /\ hses' = [hses EXCEPT ![h] = Head(unregister)]
    BY <1>5 DEF LoopUnregister
  <2>2. /\ UNCHANGED <<register, clients>> /\ unregister # <<>>
        /\ unregister' = Tail(unregister)
    BY <1>5 DEF LoopUnregister, mapVars
  <2>3. \A s : Among(unregister, s) => Among(unregister', s) \/ s = Head(unregister)
    BY <1>3, <2>2, Receiving
  <2>4. \A s : Among(unregister, s) => Among(unregister', s) \/ AtWork(h, s)'
    BY <1>3, <2>1, <2>3 DEF AtWork
  <2>5. \A k \in Handlers : \A s : AtWork(k, s) => AtWork(k, s)'
    BY <1>3, <2>1 DEF AtWork
  <2>6. \A k \in Handlers : Past(k)' => Past(k) /\ hses'[k] = hses[k]
    BY <1>3, <2>1 DEF Past
  <2>7. OncePerSession'
    BY <1>1, <2>2, <2>6 DEF RemovalInv, OncePerSession, Registered
  <2>8. NobodyLost'
    BY <1>1, <2>2, <2>4, <2>5 DEF RemovalInv, NobodyLost, InSight, Registered
  <2> QED
    BY <1>2, <2>7, <2>8 DEF RemovalInv
<1> QED
  BY <1>4, <1>5

\* A handler ends when its session is out of clients or at work again.
LEMMA HandlerRemoval ==
  ASSUME NEW h \in Handlers, TypeInv, RemovalInv, ~crashed, HandlerRuns(h)
  PROVE  RemovalInv'
<1>1. PICK s \in Sessions :
        hses[h] = s /\ hpc[h] # "idle" /\ UNCHANGED <<spc, register, unregister, reader>>
  BY DEF HandlerRuns, HandlerExists, HandlerActive, HandlerDialFails, HandlerRemove, HandlerAdd,
         HandlerResumeWaits, HandlerResume, HandlerEnds, HandlerGoto, serveVars, queues, feVars, CloseBegin, TypeInv,
         HandlerHasSession
<1>2. /\ clients \in [Sessions -> Backends \cup {None}]
      /\ hpc \in [Handlers -> {"idle", "exists", "active", "dial", "resume", "waiting", "close"}]
      /\ hses \in [Handlers -> Sessions \cup {None}]
  BY DEF TypeInv, TypeOK
<1>3. \A t \in Sessions : closing[t] = "done" => closing'[t] = "done"
  <2>1. CASE HandlerDialFails(h) /\ closing[s] = "no"
    <3>1. CloseBegin(s)
      BY <1>1, <2>1 DEF HandlerDialFails
    <3> QED
      BY <1>1, <3>1, CloseBeginKeeps
  <2>2. CASE ~(HandlerDialFails(h) /\ closing[s] = "no")
    BY <1>1, <2>2 DEF HandlerRuns, HandlerExists, HandlerActive, HandlerDialFails, HandlerRemove,
                HandlerAdd, HandlerResumeWaits, HandlerResume, feVars
  <2> QED
    BY <2>1, <2>2
<1>4. ReaderEndsClosed'
  BY <1>1, <1>3 DEF RemovalInv, ReaderEndsClosed
<1>5. ASSUME UNCHANGED <<hses, clients, ghosts, crashed>>,
             Past(h) \/ Registered(s), \E pc : pc # "idle" /\ hpc' = [hpc EXCEPT ![h] = pc]
      PROVE  RemovalInv'
  <2>1. \A k \in Handlers : Past(k)' => Past(k) \/ k = h
    BY <1>2, <1>5 DEF Past
  <2>2. \A k \in Handlers : \A t : AtWork(k, t) => AtWork(k, t)'
    BY <1>2, <1>5 DEF AtWork
  <2>3. ~Among(register, s) /\ spc[s] \in {"start", "served"}
    BY <1>1, <1>5 DEF RemovalInv, OncePerSession
  <2>4. OncePerSession'
    BY <1>1, <1>5, <2>1, <2>3 DEF RemovalInv, OncePerSession, Registered
  <2>5. NobodyLost'
    BY <1>1, <1>5, <2>2 DEF RemovalInv, NobodyLost, InSight, Registered
  <2> QED
    BY <1>4, <2>4, <2>5 DEF RemovalInv
<1>6. ASSUME hpc' = [hpc EXCEPT ![h] = "idle"], hses' = [hses EXCEPT ![h] = None],
             ghosts \subseteq ghosts', crashed => crashed',
             \A t \in Sessions : Registered(t)' => Registered(t),
             reader[s] = "gone" => \/ ~Registered(s)' /\ ~Among(register, s)
                                   \/ s \in ghosts' \/ crashed'
      PROVE  RemovalInv'
  <2>1. \A k \in Handlers : Past(k)' => Past(k) /\ hses'[k] = hses[k]
    BY <1>2, <1>6 DEF Past
  <2>2. \A k \in Handlers : \A t : t # s /\ AtWork(k, t) => AtWork(k, t)'
    BY <1>1, <1>2, <1>6 DEF AtWork
  <2>3. OncePerSession'
    BY <1>1, <1>6, <2>1 DEF RemovalInv, OncePerSession
  <2>4. NobodyLost'
    <3> SUFFICES ASSUME NEW t \in Sessions, reader[t] = "gone" PROVE InSight(t)'
      BY <1>1 DEF NobodyLost
    <3>1. CASE t = s
      BY <1>1, <1>6, <3>1 DEF InSight
    <3>2. CASE t # s
      BY <1>1, <1>6, <2>2, <3>2 DEF RemovalInv, NobodyLost, InSight
    <3> QED
      BY <3>1, <3>2
  <2> QED
    BY <1>4, <2>3, <2>4 DEF RemovalInv
<1> USE DEF HandlerEnds, HandlerGoto, mapVars
<1>7. CASE HandlerExists(h)
  <2>1. CASE Registered(s)
    BY <1>1, <1>5, <1>7, <2>1 DEF HandlerExists
  <2>2. CASE ~Registered(s)
    <3>1. /\ hpc' = [hpc EXCEPT ![h] = "idle"] /\ hses' = [hses EXCEPT ![h] = None]
          /\ UNCHANGED <<clients, crashed>>
          /\ ghosts' = IF ToBeRegistered(s) THEN ghosts \cup {s} ELSE ghosts
      BY <1>1, <1>7, <2>2 DEF HandlerExists
    <3>2. ghosts \subseteq ghosts' /\ (Among(register, s) => s \in ghosts')
      BY <3>1 DEF Among, ToBeRegistered
    <3> QED
      BY <1>1, <1>6, <2>2, <3>1, <3>2 DEF Registered
  <2> QED
    BY <2>1, <2>2
<1>8. CASE HandlerActive(h)
  BY <1>5, <1>8 DEF HandlerActive, Past
<1>9. CASE HandlerDialFails(h)
  BY <1>5, <1>9 DEF HandlerDialFails, Past
<1>10. CASE HandlerRemove(h)
  <2>1. /\ Past(h) /\ clients' = [clients EXCEPT ![s] = None] /\ UNCHANGED <<ghosts, crashed>>
        /\ hpc' = [hpc EXCEPT ![h] = "idle"] /\ hses' = [hses EXCEPT ![h] = None]
    BY <1>1, <1>10 DEF HandlerRemove, removeClient, Past
  <2>2. ~Registered(s)' /\ \A t \in Sessions : Registered(t)' => Registered(t)
    BY <1>1, <1>2, <2>1 DEF Registered
  <2>3. ~Among(register, s)
    BY <1>1, <2>1 DEF RemovalInv, OncePerSession
  <2> QED
    BY <1>6, <2>1, <2>2, <2>3
<1>11. CASE HandlerAdd(h)
  <2>1. PICK b \in offer[h] : clients' = [clients EXCEPT ![s] = b]
    BY <1>1, <1>11 DEF HandlerAdd, addClient
  <2>2. Past(h) /\ UNCHANGED <<hses, ghosts, crashed>> /\ hpc' = [hpc EXCEPT ![h] = "resume"]
    BY <1>11 DEF HandlerAdd, Past
  <2>3. ~Among(register, s) /\ spc[s] \in {"start", "served"}
    BY <1>1, <2>2 DEF RemovalInv, OncePerSession
  <2>4. \A t \in Sessions : t # s => (Registered(t)' <=> Registered(t))
    BY <1>2, <2>1 DEF Registered
  <2>5. /\ \A k \in Handlers : Past(k)' => Past(k)
        /\ \A k \in Handlers : \A t : AtWork(k, t) => AtWork(k, t)'
    BY <1>2, <2>2 DEF Past, AtWork
  <2>6. AtWork(h, s)'
    BY <1>1, <1>2, <2>2 DEF AtWork
  <2>7. OncePerSession'
    BY <1>1, <2>2, <2>3, <2>4, <2>5 DEF RemovalInv, OncePerSession
  <2>8. NobodyLost'
    BY <1>1, <2>2, <2>4, <2>5, <2>6 DEF RemovalInv, NobodyLost, InSight
  <2> QED
    BY <1>4, <2>7, <2>8 DEF RemovalInv
<1>12. CASE HandlerResume(h)
  <2>1. /\ UNCHANGED <<clients, ghosts>> /\ crashed' = (closing[s] = "done")
        /\ hpc' = [hpc EXCEPT ![h] = "idle"] /\ hses' = [hses EXCEPT ![h] = None]
    BY <1>1, <1>12 DEF HandlerResume
  <2>2. reader[s] = "gone" => crashed'
    BY <1>1, <2>1 DEF RemovalInv, ReaderEndsClosed
  <2> QED
    BY <1>1, <1>6, <2>1, <2>2 DEF Registered
<1>13. CASE HandlerResumeWaits(h)
  BY <1>5, <1>13 DEF HandlerResumeWaits, Past
<1> QED
  BY <1>7, <1>8, <1>9, <1>10, <1>11, <1>12, <1>13 DEF HandlerRuns

\* Every step, and no step, keeps a session in sight.
LEMMA StepRemoval == TypeInv /\ RemovalInv /\ [Next]_vars => RemovalInv'
<1> SUFFICES ASSUME TypeInv, RemovalInv, [Next]_vars PROVE RemovalInv'
  OBVIOUS
<1>1. CASE UNCHANGED vars
  BY <1>1, Elsewhere DEF vars, serveVars, queues, mapVars, handlerVars, feVars
<1>2. CASE Next
  <2>1. ~crashed /\ Edited \subseteq Backends
    BY <1>2, RegistryAssumption DEF Next
  <2>2. ASSUME NEW s \in Sessions,
               ServeDial(s) \/ SessionCloses(s) \/ BackendBreaks(s) \/ ServeRuns(s) \/ SessionRuns(s)
        PROVE  RemovalInv'
    BY <2>1, <2>2, ServeRemoval, SessionRemoval
  <2>3. ASSUME NEW b \in Backends, DeleteBackend(b) \/ FailoverBackend(b) \/ AbortRuns(b)
        PROVE  RemovalInv'
    BY <2>3, AbortRemoval
  <2>4. ASSUME NEW h \in Handlers, HandlerRuns(h) PROVE RemovalInv'
    BY <2>1, <2>4, HandlerRemoval
  <2> QED
    BY <1>2, <2>1, <2>2, <2>3, <2>4, LoopRemoval, StopRemoval DEF Next, Environment, Balancer
<1> QED
  BY <1>1, <1>2

\* A session whose goroutines have ended is out of clients, in whatever order the
\* manager's loop and its handlers served it, but for the two named exceptions.
THEOREM SettledAreRemoved == Spec => []SettledIsRemoved
<1>1. Init => RemovalInv
  <2> SUFFICES ASSUME Init PROVE RemovalInv
    OBVIOUS
  <2>1. \A s : ~Among(register, s)
    BY DEF Init, Among
  <2>2. Distinct(register)
    BY DEF Init, Distinct
  <2>3. \A s \in Sessions : ~Registered(s) /\ reader[s] = "idle"
    BY DEF Init, Registered
  <2>4. \A h \in Handlers : ~Past(h)
    BY DEF Init, Past
  <2> QED
    BY <2>1, <2>2, <2>3, <2>4 DEF RemovalInv, OncePerSession, ReaderEndsClosed, NobodyLost
<1>2. RemovalInv => SettledIsRemoved
  BY DEF RemovalInv, NobodyLost, InSight, AtWork, SettledIsRemoved, Settled, Among
<1> QED
  BY <1>1, <1>2, InitType, StepType, StepRemoval, PTL DEF Spec
-----------------------------------------------------------------------------
(* Deleted backends.                                                        *)

\* A handler that is not dialling has no list of backends.
OffersInDials == \A h \in Handlers : offer[h] # {} => hpc[h] = "dial"

\* Whoever may still get to backend b is known, ...
Known(b) == \A s \in Sessions : OnTheWay(s, b) => s \in missed[b]

\* ... and whoever has it is known, is told or is leaving.
Parting(b) == \A s \in Sessions : clients[s] = b => s \in missed[b] \cup toAbort[b] \/ Leaving(s)

\* Once abortAllBackendConnections has looked for the sessions of a deleted backend,
\* nobody gets to it without being known.
LeavingInv ==
  /\ OffersInDials
  /\ \A b \in deleted : /\ apc[b] # "idle"
                        /\ apc[b] = "end" => toAbort[b] = {}
                        /\ apc[b] # "look" => Known(b) /\ Parting(b)

\* Session s is on its way through register.
Arrives(s, b) == con[s] = b /\ Among(register, s)

\* Session s has b after a step only if it had it or was on its way, and it does not
\* stop leaving while it has it.
Follows(s, b) == clients'[s] = b => OnTheWay(s, b) \/ (clients[s] = b /\ (Leaving(s) => Leaving(s)'))

\* A step that lets nobody get to a deleted backend.
LEMMA NobodyGets ==
  ASSUME LeavingInv, OffersInDials', UNCHANGED deleteVars,
         \A b \in deleted, s \in Sessions : (OnTheWay(s, b)' => OnTheWay(s, b)) /\ Follows(s, b)
  PROVE  LeavingInv'
<1>1. UNCHANGED <<deleted, apc, toAbort, missed>>
  BY DEF deleteVars
<1>2. ASSUME NEW b \in deleted, apc[b] # "look" PROVE Known(b)' /\ Parting(b)'
  <2>1. Known(b) /\ Parting(b)
    BY <1>2 DEF LeavingInv
  <2>2. Known(b)'
    BY <1>1, <2>1 DEF Known
  <2>3. Parting(b)'
    BY <1>1, <2>1 DEF Known, Parting, Follows
  <2> QED
    BY <2>2, <2>3
<1> QED
  BY <1>1, <1>2 DEF LeavingInv

\* Such is every step that sends at most to unregister.
LEMMA OthersLeaving ==
  ASSUME LeavingInv, UNCHANGED <<deleteVars, offer, con, register, clients, hpc, hses>>,
         \A s \in Sessions : Among(unregister, s) => Among(unregister', s)
  PROVE  LeavingInv'
<1>1. OffersInDials'
  BY DEF LeavingInv, OffersInDials
<1>2. \A s \in Sessions : Leaving(s) => Leaving(s)'
  BY DEF Leaving, Among
<1>3. \A b, s : OnTheWay(s, b)' => OnTheWay(s, b)
  BY DEF OnTheWay, ToBeRegistered
<1> QED
  BY <1>1, <1>2, <1>3, NobodyGets DEF Follows

\* ServeWs takes a list without the deleted backends, and a backend of its list.
LEMMA ServeLeaving ==
  ASSUME NEW s \in Sessions, TypeInv, LeavingInv, ServeDial(s) \/ ServeRuns(s)
  PROVE  LeavingInv'
<1>1. UNCHANGED <<deleteVars, unregister, clients, hpc, hses>>
  BY DEF ServeDial, ServeRuns, ServeRefuses, ServeRegister, ServeStart, ServeGoto, queues, mapVars,
         handlerVars
<1>2. /\ offer \in [Sessions \cup Handlers -> SUBSET Backends]
      /\ con \in [Sessions -> Backends \cup {None}] /\ register \in Seq(Sessions)
      /\ s \notin Handlers
  BY RegistryAssumption DEF TypeInv, TypeOK
<1>3. \A t \in Sessions : Leaving(t)' = Leaving(t)
  BY <1>1 DEF Leaving
<1>4. CASE ServeStart(s)
  <2>1. UNCHANGED <<offer, con, register>>
    BY <1>4 DEF ServeStart, queues
  <2> QED
    BY <1>1, <2>1, OthersLeaving
<1>5. ASSUME NEW list, offer' = [offer EXCEPT ![s] = list], list \cap deleted = {},
             \A t \in Sessions : \A b : Arrives(t, b)' => Arrives(t, b) \/ b \in offer[t]
      PROVE  LeavingInv'
  <2>1. OffersInDials'
    BY <1>1, <1>2, <1>5 DEF LeavingInv, OffersInDials
  <2>2. ASSUME NEW b \in deleted, NEW t \in Sessions, OnTheWay(t, b)' PROVE OnTheWay(t, b)
    <3>1. CASE b \in offer'[t]
      BY <1>2, <1>5, <3>1 DEF OnTheWay
    <3>2. CASE Arrives(t, b)'
      BY <1>5, <3>2 DEF OnTheWay, ToBeRegistered, Among, Arrives
    <3>3. ASSUME NEW h \in Handlers, hses'[h] = t, b \in offer'[h] PROVE OnTheWay(t, b)
      <4>1. offer'[h] = offer[h]
        BY <1>2, <1>5
      <4> QED
        BY <1>1, <3>3, <4>1 DEF OnTheWay
    <3> QED
      BY <2>2, <3>1, <3>2, <3>3 DEF OnTheWay, ToBeRegistered, Among, Arrives
  <2> QED
    BY <1>1, <1>3, <2>1, <2>2, NobodyGets DEF Follows
<1>6. CASE ServeDial(s) \/ ServeRefuses(s)
  <2>1. PICK list : offer' = [offer EXCEPT ![s] = list] /\ list \cap deleted = {}
    BY <1>6 DEF ServeDial, ServeRefuses
  <2>2. UNCHANGED <<con, register>>
    BY <1>6 DEF ServeDial, ServeRefuses, queues
  <2>3. \A t \in Sessions : \A b : Arrives(t, b)' => Arrives(t, b)
    BY <2>2 DEF Arrives
  <2> QED
    BY <1>5, <2>1, <2>3
<1>7. CASE ServeRegister(s)
  <2>1. PICK c \in offer[s] : con' = [con EXCEPT ![s] = c]
    BY <1>7 DEF ServeRegister
  <2>2. register' = Append(register, s) /\ offer' = [offer EXCEPT ![s] = {}]
    BY <1>7 DEF ServeRegister
  <2>3. \A t : Among(register', t) <=> Among(register, t) \/ t = s
    BY <1>2, <2>2, Sending
  <2>4. con'[s] = c /\ \A t \in Sessions \ {s} : con'[t] = con[t]
    BY <1>2, <2>1
  <2>5. \A t \in Sessions : \A b : Arrives(t, b)' => Arrives(t, b) \/ b \in offer[t]
    BY <2>3, <2>4 DEF Arrives
  <2>6. {} \cap deleted = {}
    OBVIOUS
  <2> QED
    BY <1>5, <2>2, <2>5, <2>6
<1> QED
  BY <1>4, <1>6, <1>7 DEF ServeRuns

\* A session's goroutines, and Stop, send at most to unregister.
LEMMA SessionLeaving ==
  ASSUME NEW s \in Sessions, TypeInv, LeavingInv,
         SessionRuns(s) \/ SessionCloses(s) \/ BackendBreaks(s)
  PROVE  LeavingInv'
<1>1. UNCHANGED <<deleteVars, offer, con, register, clients, hpc, hses>>
  BY DEF SessionRuns, CloseFinish, WriterEnds, ReaderUnregister, SessionCloses, BackendBreaks,
         sessionOnly, serveVars, mapVars, handlerVars
<1>2. unregister' = unregister \/ unregister' = Append(unregister, s)
  BY DEF SessionRuns, CloseFinish, WriterEnds, ReaderUnregister, SessionCloses, BackendBreaks,
         reinitUpstream
<1>3. \A t \in Sessions : Among(unregister, t) => Among(unregister', t)
  <2>1. unregister \in Seq(Sessions)
    BY DEF TypeInv, TypeOK
  <2>2. CASE unregister' = unregister
    BY <2>2
  <2>3. CASE unregister' = Append(unregister, s)
    BY <2>1, <2>3, Sending
  <2> QED
    BY <1>2, <2>2, <2>3
<1> QED
  BY <1>1, <1>3, OthersLeaving

\* See SessionLeaving.
LEMMA StopLeaving == LeavingInv /\ (StopBegin \/ StopRuns) => LeavingInv'
<1> SUFFICES ASSUME LeavingInv, StopBegin \/ StopRuns PROVE LeavingInv'
  OBVIOUS
<1>1. UNCHANGED <<deleteVars, offer, con, register, unregister, clients, hpc, hses>>
  BY DEF StopBegin, StopRuns, StopClose, StopClosed, StopLoop, stopOnly, serveVars, mapVars,
         handlerVars
<1> QED
  BY <1>1, OthersLeaving

\* The loop takes a session of register into clients, or one of unregister to a handler
\* that has no list yet.
LEMMA LoopLeaving == TypeInv /\ LeavingInv /\ (LoopRegister \/ LoopUnregister) => LeavingInv'
<1> SUFFICES ASSUME TypeInv, LeavingInv, LoopRegister \/ LoopUnregister PROVE LeavingInv'
  OBVIOUS
<1>1. UNCHANGED <<deleteVars, offer, con>>
  BY DEF LoopRegister, LoopUnregister, loopOnly, serveVars
<1>2. /\ register \in Seq(Sessions) /\ unregister \in Seq(Sessions)
      /\ clients \in [Sessions -> Backends \cup {None}]
      /\ hpc \in [Handlers -> {"idle", "exists", "active", "dial", "resume", "waiting", "close"}]
      /\ hses \in [Handlers -> Sessions \cup {None}]
  BY DEF TypeInv, TypeOK
<1>3. CASE LoopRegister
  <2>1. PICK r : r = Head(register)
    OBVIOUS
  <2>2. /\ UNCHANGED <<unregister, hpc, hses>> /\ register # <<>> /\ register' = Tail(register)
        /\ clients' = [clients EXCEPT ![r] = con[r]]
    BY <1>3, <2>1 DEF LoopRegister, addClient, handlerVars
  <2>3. \A s : Among(register, s) <=> Among(register', s) \/ s = r
    BY <1>2, <2>1, <2>2, Receiving
  <2>4. OffersInDials'
    BY <1>1, <2>2 DEF LeavingInv, OffersInDials
  <2>5. \A b, s : OnTheWay(s, b)' => OnTheWay(s, b)
    BY <1>1, <2>2, <2>3 DEF OnTheWay, ToBeRegistered, Among
  <2>6. \A s \in Sessions : Leaving(s) => Leaving(s)'
    BY <2>2 DEF Leaving
  <2>7. \A b, s : s \in Sessions /\ clients'[s] = b => clients[s] = b \/ OnTheWay(s, b)
    BY <1>2, <2>2, <2>3 DEF OnTheWay, ToBeRegistered, Among
  <2> QED
    BY <1>1, <2>4, <2>5, <2>6, <2>7, NobodyGets DEF Follows
<1>4. CASE LoopUnregister
  <2>1. PICK h \in Handlers : /\ hpc[h] = "idle"
                              /\ hpc' = [hpc EXCEPT ![h] = "exists"]
                              /\ hses' = [hses EXCEPT ![h] = Head(unregister)]
    BY <1>4 DEF LoopUnregister
  <2>2. /\ UNCHANGED <<register, clients>> /\ unregister # <<>> /\ unregister' = Tail(unregister)
    BY <1>4 DEF LoopUnregister, mapVars
  <2>3. \A s : Among(unregister, s) => Among(unregister', s) \/ s = Head(unregister)
    BY <1>2, <2>2, Receiving
  <2>4. offer[h] = {}
    BY <2>1 DEF LeavingInv, OffersInDials
  <2>5. OffersInDials'
    BY <1>1, <1>2, <2>1, <2>4 DEF LeavingInv, OffersInDials
  <2>6. \A b, s : OnTheWay(s, b)' => OnTheWay(s, b)
    BY <1>1, <1>2, <2>1, <2>2, <2>4 DEF OnTheWay, ToBeRegistered
  <2>7. \A s \in Sessions : Leaving(s) => Leaving(s)'
    <3> SUFFICES ASSUME NEW s \in Sessions, Leaving(s) PROVE Leaving(s)'
      OBVIOUS
    <3>1. CASE Among(unregister, s)
      <4>1. CASE Among(unregister', s)
        BY <4>1 DEF Leaving, Among
      <4>2. CASE s = Head(unregister)
        <5>1. hses'[h] = s /\ hpc'[h] = "exists"
          BY <1>2, <2>1, <4>2
        <5> QED
          BY <5>1 DEF Leaving
      <4> QED
        BY <2>3, <3>1, <4>1, <4>2
    <3>2. ASSUME NEW k \in Handlers, hses[k] = s, hpc[k] \in {"exists", "active", "dial", "close"}
          PROVE  Leaving(s)'
      <4>1. k # h /\ hses'[k] = s /\ hpc'[k] = hpc[k]
        BY <1>2, <2>1, <3>2
      <4> QED
        BY <3>2, <4>1 DEF Leaving
    <3> QED
      BY <3>1, <3>2 DEF Leaving, Among
  <2> QED
    BY <1>1, <2>2, <2>5, <2>6, <2>7, NobodyGets DEF Follows
<1> QED
  BY <1>3, <1>4

\* Session s does not stop leaving while it has a deleted backend, unless it was on its
\* way to it, and no other session gets one.
HandsOver(s) ==
  \A b \in deleted, t \in Sessions : clients'[t] = b =>
    OnTheWay(t, b) \/ (clients[t] = b /\ (t = s /\ Leaving(t) => Leaving(t)'))

\* A handler gives a session one of its list, removes it, or finds it gone.
LEMMA HandlerLeaving ==
  ASSUME NEW h \in Handlers, TypeInv, LeavingInv, HandlerRuns(h)
  PROVE  LeavingInv'
<1>1. PICK s \in Sessions : hses[h] = s
  BY DEF HandlerRuns, HandlerExists, HandlerActive, HandlerDialFails, HandlerRemove, HandlerAdd,
         HandlerResumeWaits, HandlerResume, HandlerEnds, HandlerGoto, TypeInv, HandlerHasSession
<1>2. UNCHANGED <<deleteVars, con, register, unregister>>
  BY DEF HandlerRuns, HandlerExists, HandlerActive, HandlerDialFails, HandlerRemove, HandlerAdd,
         HandlerResumeWaits, HandlerResume, HandlerEnds, HandlerGoto, serveVars, queues
<1>3. /\ clients \in [Sessions -> Backends \cup {None}]
      /\ hpc \in [Handlers -> {"idle", "exists", "active", "dial", "resume", "waiting", "close"}]
      /\ hses \in [Handlers -> Sessions \cup {None}]
      /\ offer \in [Sessions \cup Handlers -> SUBSET Backends]
      /\ deleted \subseteq Backends
  BY DEF TypeInv, TypeOK
\* The handler goes on or ends, with a new list, none, or the one it has.
<1>4. ASSUME NEW pc, hpc' = [hpc EXCEPT ![h] = pc],
             hses' = hses \/ hses' = [hses EXCEPT ![h] = None],
             NEW list, offer' = [offer EXCEPT ![h] = list],
             \A b \in deleted : b \notin list, list = {} \/ pc = "dial",
             HandsOver(s)
      PROVE  LeavingInv'
  <2>1. OffersInDials'
    <3> SUFFICES ASSUME NEW k \in Handlers, offer'[k] # {} PROVE hpc'[k] = "dial"
      BY DEF OffersInDials
    <3>1. CASE k = h
      BY <1>3, <1>4, <3>1
    <3>2. CASE k # h
      BY <1>3, <1>4, <3>2 DEF LeavingInv, OffersInDials
    <3> QED
      BY <3>1, <3>2
  <2>2. ASSUME NEW b \in deleted, NEW t \in Sessions, OnTheWay(t, b)' PROVE OnTheWay(t, b)
    <3>1. CASE b \in offer'[t]
      <4>1. t # h /\ offer'[t] = offer[t]
        BY <1>3, <1>4, RegistryAssumption
      <4> QED
        BY <3>1, <4>1 DEF OnTheWay
    <3>2. CASE (con[t] = b /\ ToBeRegistered(t))'
      BY <1>2, <3>2 DEF OnTheWay, ToBeRegistered
    <3>3. ASSUME NEW k \in Handlers, hses'[k] = t, b \in offer'[k] PROVE OnTheWay(t, b)
      <4>1. k # h
        BY <1>3, <1>4, <3>3
      <4>2. offer'[k] = offer[k] /\ hses'[k] = hses[k]
        BY <1>3, <1>4, <4>1
      <4> QED
        BY <3>3, <4>2 DEF OnTheWay
    <3> QED
      BY <2>2, <3>1, <3>2, <3>3 DEF OnTheWay
  <2>3. ASSUME NEW t \in Sessions, t # s, Leaving(t) PROVE Leaving(t)'
    <3>1. ASSUME NEW k \in Handlers, hses[k] = t, hpc[k] \in {"exists", "active", "dial", "close"}
          PROVE  Leaving(t)'
      <4>1. k # h
        BY <1>1, <2>3, <3>1
      <4>2. hses'[k] = t /\ hpc'[k] = hpc[k]
        BY <1>3, <1>4, <3>1, <4>1
      <4> QED
        BY <3>1, <4>2 DEF Leaving
    <3> QED
      BY <1>2, <2>3, <3>1 DEF Leaving
  <2>4. \A b \in deleted, t \in Sessions : Follows(t, b)
    BY <1>4, <2>3 DEF Follows, HandsOver
  <2> QED
    BY <1>2, <2>1, <2>2, <2>4, NobodyGets
<1>5. ASSUME NEW pc, hpc' = [hpc EXCEPT ![h] = pc],
             hses' = hses \/ hses' = [hses EXCEPT ![h] = None],
             offer' = [offer EXCEPT ![h] = {}], HandsOver(s)
      PROVE  LeavingInv'
  <2>1. PICK list : list = {}
    OBVIOUS
  <2>2. offer' = [offer EXCEPT ![h] = list] /\ (\A b \in deleted : b \notin list)
    BY <1>5, <2>1
  <2> QED
    BY <1>4, <1>5, <2>1, <2>2
<1>6. ASSUME NEW pc \in {"active", "dial", "close"}, hpc' = [hpc EXCEPT ![h] = pc], hses' = hses
      PROVE  Leaving(s)'
  <2>1. hses'[h] = s /\ hpc'[h] = pc
    BY <1>1, <1>3, <1>6
  <2> QED
    BY <2>1 DEF Leaving
<1>7. hpc[h] # "dial" => offer[h] = {}
  BY DEF LeavingInv, OffersInDials
<1>8. offer = [offer EXCEPT ![h] = offer[h]]
  BY <1>3
<1> USE DEF HandlerEnds, HandlerGoto, mapVars
<1>9. CASE HandlerExists(h)
  <2>1. offer' = [offer EXCEPT ![h] = {}] /\ UNCHANGED clients
    BY <1>7, <1>8, <1>9 DEF HandlerExists
  <2>2. CASE Registered(s)
    <3>1. hpc' = [hpc EXCEPT ![h] = "active"] /\ hses' = hses
      BY <1>1, <1>9, <2>2 DEF HandlerExists
    <3>2. Leaving(s)'
      BY <1>6, <3>1
    <3>3. HandsOver(s)
      BY <2>1, <3>2 DEF HandsOver
    <3> QED
      BY <1>5, <2>1, <3>1, <3>3
  <2>3. CASE ~Registered(s)
    <3>1. hpc' = [hpc EXCEPT ![h] = "idle"] /\ hses' = [hses EXCEPT ![h] = None]
      BY <1>1, <1>9, <2>3 DEF HandlerExists
    <3>2. \A b \in deleted : clients'[s] # b
      BY <1>3, <2>1, <2>3, RegistryAssumption DEF Registered
    <3>3. HandsOver(s)
      BY <2>1, <3>2 DEF HandsOver
    <3> QED
      BY <1>5, <2>1, <3>1, <3>3
  <2> QED
    BY <2>2, <2>3
<1>10. CASE HandlerActive(h)
  <2>1. PICK pc \in {"dial", "close"}, list \in SUBSET Backends :
          /\ hpc' = [hpc EXCEPT ![h] = pc] /\ offer' = [offer EXCEPT ![h] = list]
          /\ \A b \in deleted : b \notin list
          /\ list = {} \/ pc = "dial"
    BY <1>10 DEF HandlerActive
  <2>2. UNCHANGED <<hses, clients>>
    BY <1>10 DEF HandlerActive
  <2>3. Leaving(s)'
    BY <1>6, <2>1, <2>2
  <2>4. HandsOver(s)
    BY <2>2, <2>3 DEF HandsOver
  <2> QED
    BY <1>4, <2>1, <2>2, <2>4
<1>11. CASE HandlerDialFails(h)
  <2>1. /\ hpc' = [hpc EXCEPT ![h] = "close"] /\ offer' = [offer EXCEPT ![h] = {}]
        /\ UNCHANGED <<hses, clients>>
    BY <1>11 DEF HandlerDialFails
  <2>2. Leaving(s)'
    BY <1>6, <2>1
  <2>3. HandsOver(s)
    BY <2>1, <2>2 DEF HandsOver
  <2> QED
    BY <1>5, <2>1, <2>3
<1>12. CASE HandlerRemove(h)
  <2>1. /\ hpc' = [hpc EXCEPT ![h] = "idle"] /\ hses' = [hses EXCEPT ![h] = None]
        /\ clients' = [clients EXCEPT ![s] = None] /\ offer' = offer /\ hpc[h] = "close"
    BY <1>1, <1>12 DEF HandlerRemove, removeClient
  <2>2. offer' = [offer EXCEPT ![h] = {}]
    BY <1>7, <1>8, <2>1
  <2>3. \A b \in deleted : clients'[s] # b
    BY <1>3, <2>1, RegistryAssumption
  <2>4. \A t \in Sessions : t # s => clients'[t] = clients[t]
    BY <1>3, <2>1
  <2>5. HandsOver(s)
    BY <2>3, <2>4 DEF HandsOver
  <2> QED
    BY <1>5, <2>1, <2>2, <2>5
<1>13. CASE HandlerAdd(h)
  <2>1. PICK c \in offer[h] : clients' = [clients EXCEPT ![s] = c]
    BY <1>1, <1>13 DEF HandlerAdd, addClient
  <2>2. /\ hpc' = [hpc EXCEPT ![h] = "resume"] /\ offer' = [offer EXCEPT ![h] = {}]
        /\ UNCHANGED hses
    BY <1>13 DEF HandlerAdd
  <2>3. clients'[s] = c /\ OnTheWay(s, c)
    BY <1>1, <1>3, <2>1 DEF OnTheWay
  <2>4. \A t \in Sessions : t # s => clients'[t] = clients[t]
    BY <1>3, <2>1
  <2>5. HandsOver(s)
    BY <2>3, <2>4 DEF HandsOver
  <2> QED
    BY <1>5, <2>2, <2>5
<1>14. CASE HandlerResume(h)
  <2>1. /\ hpc' = [hpc EXCEPT ![h] = "idle"] /\ hses' = [hses EXCEPT ![h] = None]
        /\ UNCHANGED <<clients, offer>> /\ hpc[h] = "resume"
    BY <1>1, <1>14 DEF HandlerResume
  <2>2. offer' = [offer EXCEPT ![h] = {}]
    BY <1>7, <1>8, <2>1
  <2>3. Leaving(s) => Leaving(s)'
    <3>1. ASSUME NEW k \in Handlers, hses[k] = s, hpc[k] \in {"exists", "active", "dial", "close"}
          PROVE  Leaving(s)'
      <4>1. k # h
        BY <2>1, <3>1
      <4>2. hses'[k] = s /\ hpc'[k] = hpc[k]
        BY <1>3, <2>1, <3>1, <4>1
      <4> QED
        BY <3>1, <4>2 DEF Leaving
    <3> QED
      BY <1>2, <3>1 DEF Leaving
  <2>4. HandsOver(s)
    BY <2>1, <2>3 DEF HandsOver
  <2> QED
    BY <1>5, <2>1, <2>2, <2>4
<1>15. CASE HandlerResumeWaits(h)
  <2>1. /\ hpc' = [hpc EXCEPT ![h] = "waiting"]
        /\ UNCHANGED <<hses, clients, offer>> /\ hpc[h] = "resume"
    BY <1>15 DEF HandlerResumeWaits
  <2>2. offer' = [offer EXCEPT ![h] = {}]
    BY <1>7, <1>8, <2>1
  <2>3. Leaving(s) => Leaving(s)'
    <3>1. ASSUME NEW k \in Handlers, hses[k] = s, hpc[k] \in {"exists", "active", "dial", "close"}
          PROVE  Leaving(s)'
      <4>1. k # h
        BY <2>1, <3>1
      <4>2. hses'[k] = s /\ hpc'[k] = hpc[k]
        BY <1>3, <2>1, <3>1, <4>1
      <4> QED
        BY <3>1, <4>2 DEF Leaving
    <3> QED
      BY <1>2, <3>1 DEF Leaving
  <2>4. HandsOver(s)
    BY <2>1, <2>3 DEF HandsOver
  <2> QED
    BY <1>5, <2>1, <2>2, <2>4
<1> QED
  BY <1>9, <1>10, <1>11, <1>12, <1>13, <1>14, <1>15 DEF HandlerRuns

\* Who is on the way when abortAllBackendConnections looks is known; it tells the others.
LEMMA AbortLeaving ==
  ASSUME NEW b \in Backends, TypeInv, LeavingInv,
         DeleteBackend(b) \/ FailoverBackend(b) \/ AbortRuns(b)
  PROVE  LeavingInv'
<1>1. UNCHANGED <<offer, con, register, clients, hpc, hses>>
  BY DEF DeleteBackend, FailoverBackend, AbortRuns, AbortLook, AbortOne, AbortBlocks, AbortStuck,
         AbortEnds, deleteOnly, queues, serveVars, mapVars, handlerVars
<1>2. /\ apc \in [Backends -> {"idle", "look", "abort", "stuck", "end"}]
      /\ toAbort \in [Backends -> SUBSET Sessions] /\ missed \in [Backends -> SUBSET Sessions]
      /\ deleted \subseteq Backends /\ unregister \in Seq(Sessions)
  BY DEF TypeInv, TypeOK
<1>3. OffersInDials'
  BY <1>1 DEF LeavingInv, OffersInDials
<1>4. \A s, c : OnTheWay(s, c)' = OnTheWay(s, c)
  BY <1>1 DEF OnTheWay, ToBeRegistered
<1>5. \A s \in Sessions : Leaving(s) => Leaving(s)'
  <2>1. unregister' = unregister \/ \E s \in Sessions : unregister' = Append(unregister, s)
    BY <1>2 DEF DeleteBackend, FailoverBackend, AbortRuns, AbortLook, AbortOne, AbortBlocks,
                AbortStuck, AbortEnds, deleteOnly, queues, reinitUpstream
  <2>2. \A s : Among(unregister, s) => Among(unregister', s)
    <3>1. ASSUME NEW s \in Sessions, unregister' = Append(unregister, s)
          PROVE  \A t : Among(unregister, t) => Among(unregister', t)
      BY <1>2, <3>1, Sending
    <3> QED
      BY <2>1, <3>1
  <2> QED
    BY <1>1, <2>2 DEF Leaving, Among
\* The backends that this is not about, ...
<1>6. ASSUME NEW c \in deleted \ {b}, apc'[c] = apc[c], toAbort'[c] = toAbort[c],
             missed'[c] = missed[c]
      PROVE  /\ apc'[c] # "idle" /\ (apc'[c] = "end" => toAbort'[c] = {})
             /\ apc'[c] # "look" => Known(c)' /\ Parting(c)'
  BY <1>1, <1>4, <1>5, <1>6 DEF LeavingInv, Known, Parting
\* ... and b, if it is deleted.
<1>7. ASSUME \A c \in Backends \ {b} : apc'[c] = apc[c] /\ toAbort'[c] = toAbort[c] /\
                                       missed'[c] = missed[c],
             deleted' \subseteq deleted \cup {b},
             b \in deleted' => /\ apc'[b] # "idle" /\ (apc'[b] = "end" => toAbort'[b] = {})
                               /\ apc'[b] # "look" => Known(b)' /\ Parting(b)'
      PROVE  LeavingInv'
  BY <1>2, <1>3, <1>6, <1>7 DEF LeavingInv
<1>8. CASE DeleteBackend(b)
  <2>1. apc' = [apc EXCEPT ![b] = "look"] /\ deleted' = deleted \cup {b}
        /\ UNCHANGED <<toAbort, missed>>
    BY <1>8 DEF DeleteBackend
  <2>2. apc'[b] = "look" /\ \A c \in Backends \ {b} : apc'[c] = apc[c]
    BY <1>2, <2>1
  <2> QED
    BY <1>7, <2>1, <2>2
<1>9. CASE FailoverBackend(b)
  <2>1. apc' = [apc EXCEPT ![b] = "look"] /\ UNCHANGED <<deleted, toAbort, missed>>
    BY <1>9 DEF FailoverBackend
  <2>2. apc'[b] = "look" /\ \A c \in Backends \ {b} : apc'[c] = apc[c]
    BY <1>2, <2>1
  <2> QED
    BY <1>7, <2>1, <2>2
<1>10. CASE AbortLook(b)
  <2>1. /\ apc' = [apc EXCEPT ![b] = "abort"] /\ UNCHANGED deleted
        /\ toAbort' = [toAbort EXCEPT ![b] = {s \in Sessions : clients[s] = b}]
        /\ missed' = [missed EXCEPT ![b] = {s \in Sessions : OnTheWay(s, b)}]
    BY <1>10 DEF AbortLook
  <2>2. /\ apc'[b] = "abort" /\ toAbort'[b] = {s \in Sessions : clients[s] = b}
        /\ missed'[b] = {s \in Sessions : OnTheWay(s, b)}
        /\ \A c \in Backends \ {b} : apc'[c] = apc[c] /\ toAbort'[c] = toAbort[c] /\
                                     missed'[c] = missed[c]
    BY <1>2, <2>1
  <2>3. Known(b)'
    BY <1>4, <2>2 DEF Known
  <2>4. Parting(b)'
    BY <1>1, <2>2 DEF Parting
  <2> QED
    BY <1>7, <2>1, <2>2, <2>3, <2>4
<1>11. CASE AbortOne(b)
  <2>1. PICK s \in toAbort[b] :
          /\ toAbort' = [toAbort EXCEPT ![b] = @ \ {s}] /\ UNCHANGED <<deleted, apc>>
          /\ \/ unregister' = Append(unregister, s) /\ UNCHANGED missed
             \/ missed' = [missed EXCEPT ![b] = @ \cup {s}]
    BY <1>11 DEF AbortOne, reinitUpstream
  <2>2. /\ apc[b] = "abort" /\ s \in Sessions /\ toAbort'[b] = toAbort[b] \ {s}
        /\ missed[b] \subseteq missed'[b]
        /\ \A c \in Backends \ {b} : toAbort'[c] = toAbort[c] /\ missed'[c] = missed[c]
    BY <1>2, <1>11, <2>1 DEF AbortOne
  <2>3. Leaving(s)' \/ s \in missed'[b]
    <3>1. CASE unregister' = Append(unregister, s)
      <4>1. Among(unregister', s)
        BY <1>2, <2>2, <3>1, Sending
      <4> QED
        BY <4>1 DEF Leaving, Among
    <3>2. CASE missed' = [missed EXCEPT ![b] = @ \cup {s}]
      BY <1>2, <3>2
    <3> QED
      BY <2>1, <3>1, <3>2
  <2>4. ASSUME b \in deleted PROVE Known(b)' /\ Parting(b)'
    <3>1. Known(b) /\ Parting(b)
      BY <2>2, <2>4 DEF LeavingInv
    <3>2. Known(b)'
      BY <1>4, <2>2, <3>1 DEF Known
    <3>3. Parting(b)'
      BY <1>1, <1>5, <2>2, <2>3, <3>1 DEF Parting
    <3> QED
      BY <3>2, <3>3
  <2> QED
    BY <1>7, <2>1, <2>2, <2>4
<1>12. CASE AbortBlocks(b) \/ AbortStuck(b) \/ AbortEnds(b)
  <2>1. /\ apc[b] = "abort" /\ UNCHANGED <<deleted, toAbort, missed>>
        /\ \E pc : /\ apc' = [apc EXCEPT ![b] = pc] /\ (b \in deleted => pc \in {"stuck", "end"})
                   /\ pc = "end" => toAbort[b] = {}
    BY <1>12 DEF AbortBlocks, AbortStuck, AbortEnds
  <2>2. /\ b \in deleted => apc'[b] \in {"stuck", "end"}
        /\ apc'[b] = "end" => toAbort'[b] = {}
        /\ \A c \in Backends \ {b} : apc'[c] = apc[c]
    BY <1>2, <2>1
  <2>3. b \in deleted => Known(b)' /\ Parting(b)'
    BY <1>1, <1>4, <1>5, <2>1 DEF LeavingInv, Known, Parting
  <2> QED
    BY <1>7, <2>1, <2>2, <2>3
<1> QED
  BY <1>8, <1>9, <1>10, <1>11, <1>12 DEF AbortRuns

\* So nobody is forgotten.
LEMMA StepLeaving == TypeInv /\ LeavingInv /\ [Next]_vars => LeavingInv'
<1> SUFFICES ASSUME TypeInv, LeavingInv, [Next]_vars PROVE LeavingInv'
  OBVIOUS
<1>1. CASE UNCHANGED vars
  BY <1>1, OthersLeaving DEF vars, serveVars, queues, mapVars, handlerVars
<1>2. CASE Next
  <2>1. Edited \subseteq Backends
    BY RegistryAssumption
  <2>2. ASSUME NEW s \in Sessions,
               ServeDial(s) \/ SessionCloses(s) \/ BackendBreaks(s) \/ ServeRuns(s) \/ SessionRuns(s)
        PROVE  LeavingInv'
    BY <2>2, ServeLeaving, SessionLeaving
  <2>3. ASSUME NEW b \in Backends, DeleteBackend(b) \/ FailoverBackend(b) \/ AbortRuns(b)
        PROVE  LeavingInv'
    BY <2>3, AbortLeaving
  <2>4. ASSUME NEW h \in Handlers, HandlerRuns(h) PROVE LeavingInv'
    BY <2>4, HandlerLeaving
  <2> QED
    BY <1>2, <2>1, <2>2, <2>3, <2>4, LoopLeaving, StopLeaving DEF Next, Environment, Balancer
<1> QED
  BY <1>1, <1>2

\* For every number of sessions, handlers and administrators at once: a session that has
\* a deleted backend is still to be looked for or told, or has been told and is with the
\* manager, or is one that abortAllBackendConnections cannot move.
THEOREM DeletedAreBeingLeft == Spec => []DeletedIsBeingLeft
<1>1. Init => LeavingInv
  BY DEF Init, LeavingInv, OffersInDials
<1>2. TypeInv /\ LeavingInv => DeletedIsBeingLeft
  <2> SUFFICES ASSUME TypeInv, LeavingInv, NEW b \in deleted, NEW s \in Sessions, clients[s] = b,
                      apc[b] # "look", s \notin missed[b], ~Leaving(s)
               PROVE  apc[b] \in {"abort", "stuck"} /\ s \in toAbort[b]
    BY DEF DeletedIsBeingLeft
  <2>1. s \in toAbort[b] /\ apc[b] # "idle" /\ apc[b] # "end"
    BY DEF LeavingInv, Parting
  <2>2. apc[b] \in {"idle", "look", "abort", "stuck", "end"}
    BY DEF TypeInv, TypeOK
  <2> QED
    BY <2>1, <2>2
<1> QED
  BY <1>1, <1>2, InitType, StepType, StepLeaving, PTL DEF Spec


=============================================================================
