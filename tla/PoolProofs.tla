----------------------------- MODULE PoolProofs ------------------------------
(***************************************************************************)
(* Proofs about BackendPool, for every number of backends, dials and edits, *)
(* every breaker threshold and every capacity of conDone.                   *)
(***************************************************************************)
EXTENDS BackendPool, FiniteSetTheorems, TLAPS

Counting == {"connected", "hollow", "started", "closing", "refused"}

\* The connections that activeConnections has beside the reports in conDone.
Counted(b) == With(b, Counting)

CountRight ==
  \A b \in Backends : activeConnections[b] = Cardinality(Counted(b)) + conDone[b]

\* What the accounting rests on.
CountInv ==
  /\ DOMAIN dpc = Dialers /\ DOMAIN con = Dialers
  /\ activeConnections \in [Backends -> Int] /\ conDone \in [Backends -> Int]
  /\ CountRight

\* The dials in ds with a backend b in hand, that is counted.
On(ds, pc, b) == {d \in Dialers : ds[d] = b /\ pc[d] \in Counting}

\* That is what Counted says.
LEMMA CountedIsOn == \A b : Counted(b) = On(con, dpc, b)
BY DEF Counted, With, On, Counting

\* There are finitely many, so that they can be counted.
LEMMA OnFinite == \A c, pc, b : IsFiniteSet(On(c, pc, b)) /\ Cardinality(On(c, pc, b)) \in Nat
<1> SUFFICES ASSUME NEW c, NEW pc, NEW b
             PROVE  IsFiniteSet(On(c, pc, b)) /\ Cardinality(On(c, pc, b)) \in Nat
  OBVIOUS
<1>1. On(c, pc, b) \in SUBSET Dialers /\ IsFiniteSet(Dialers)
  BY PoolAssumption DEF On
<1>2. IsFiniteSet(On(c, pc, b))
  BY <1>1, FS_Subset
<1> QED
  BY <1>2, FS_CardinalityType

\* A step that counts no dial more or less and touches no count keeps them right.
LEMMA SameCount ==
  ASSUME CountInv, DOMAIN dpc' = Dialers, DOMAIN con' = Dialers,
         UNCHANGED <<activeConnections, conDone>>,
         \A b \in Backends, d \in Dialers :
           con'[d] = b /\ dpc'[d] \in Counting <=> con[d] = b /\ dpc[d] \in Counting
  PROVE  CountInv'
<1>1. \A b \in Backends : Counted(b)' = Counted(b)
  BY DEF Counted, With, Counting
<1> QED
  BY <1>1 DEF CountInv, CountRight

-----------------------------------------------------------------------------
(* The steps of a dial and of the connection it returns.                    *)

\* Building the list of backends counts nothing.
LEMMA ListCount ==
  ASSUME NEW d \in Dialers, CountInv,
         DialLock(d) \/ DialPick(d) \/ DialOverruns(d) \/ DialUnlock(d)
  PROVE  CountInv'
<1> USE DEF DialGoto, countVars, dialVars, Counting
<1>1. UNCHANGED <<activeConnections, conDone, con>>
  BY DEF DialLock, DialPick, DialOverruns, DialUnlock
<1>2. /\ dpc[d] \notin Counting
      /\ dpc' = dpc \/ \E pc \in {"build", "panicked", "next"} : dpc' = [dpc EXCEPT ![d] = pc]
  <2>1. CASE DialPick(d)
    BY <2>1 DEF DialPick, CountInv
  <2>2. CASE DialLock(d) \/ DialOverruns(d) \/ DialUnlock(d)
    BY <2>2 DEF DialLock, DialOverruns, DialUnlock
  <2> QED
    BY <2>1, <2>2
<1> QED
  BY <1>1, <1>2, SameCount DEF CountInv

\* Nor does going through that list without success.
LEMMA TryCount ==
  ASSUME NEW d \in Dialers, CountInv,
         DialNext(d) \/ DialExhausted(d) \/ DialFails(d) \/ DialDeclined(d)
  PROVE  CountInv'
<1> USE DEF DialGoto, countVars, Counting
<1>1. UNCHANGED <<activeConnections, conDone>>
  BY DEF DialNext, DialExhausted, DialFails, DialDeclined
<1>2. /\ dpc[d] \notin Counting
      /\ \E pc \in {"dialling", "panicked", "next", "exhausted", "declined"} :
           dpc' = [dpc EXCEPT ![d] = pc]
      /\ con' = con \/ \E c : con' = [con EXCEPT ![d] = c]
  BY DEF DialNext, DialExhausted, DialFails, DialDeclined
<1> QED
  BY <1>1, <1>2, SameCount DEF CountInv

\* A dial that succeeds, with or without a websocket, is counted once.
LEMMA SuccessCount ==
  ASSUME NEW d \in Dialers, CountInv, DialSucceeds(d) \/ DialHollow(d)
  PROVE  CountInv'
<1>1. /\ dpc[d] = "dialling" /\ UNCHANGED <<con, conDone>>
      /\ \E pc \in {"connected", "hollow"} : dpc' = [dpc EXCEPT ![d] = pc]
      /\ activeConnections' = [activeConnections EXCEPT ![con[d]] = @ + 1]
  BY DEF DialSucceeds, DialHollow, DialGoto
<1>2. ASSUME NEW b \in Backends
      PROVE  activeConnections'[b] = Cardinality(Counted(b)') + conDone'[b]
  <2>1. IsFiniteSet(Counted(b)) /\ Cardinality(Counted(b)) \in Nat
    BY OnFinite, CountedIsOn
  <2>2. activeConnections[b] = Cardinality(Counted(b)) + conDone[b]
    BY DEF CountInv, CountRight
  <2>3. CASE con[d] = b
    <3>1. Counted(b)' = Counted(b) \cup {d} /\ d \notin Counted(b)
      BY <1>1, <2>3 DEF Counted, With, Counting, CountInv
    <3>2. Cardinality(Counted(b)') = Cardinality(Counted(b)) + 1
      BY <2>1, <3>1, FS_AddElement
    <3> QED
      BY <1>1, <2>1, <2>2, <2>3, <3>2 DEF CountInv
  <2>4. CASE con[d] # b
    <3>1. Counted(b)' = Counted(b)
      BY <1>1, <2>4 DEF Counted, With, Counting, CountInv
    <3> QED
      BY <1>1, <2>2, <2>4, <3>1 DEF CountInv
  <2> QED
    BY <2>3, <2>4
<1>3. DOMAIN dpc' = Dialers /\ DOMAIN con' = Dialers
  BY <1>1 DEF CountInv
<1>4. activeConnections' \in [Backends -> Int]
  <2>1. CASE con[d] \in Backends
    BY <1>1, <2>1 DEF CountInv
  <2>2. CASE con[d] \notin Backends
    <3>1. activeConnections' = activeConnections
      BY <1>1, <2>2 DEF CountInv
    <3> QED
      BY <3>1 DEF CountInv
  <2> QED
    BY <2>1, <2>2
<1>5. conDone' \in [Backends -> Int]
  BY <1>1 DEF CountInv
<1> QED
  BY <1>2, <1>3, <1>4, <1>5 DEF CountInv, CountRight

\* Starting, refusing or losing the connection leaves it counted.
LEMMA LifeCount ==
  ASSUME NEW d \in Dialers, CountInv, ConStart(d) \/ UpgradeFails(d) \/ ConEnds(d)
  PROVE  CountInv'
<1>1. /\ UNCHANGED <<activeConnections, conDone, con>>
      /\ dpc[d] \in Counting
      /\ \E pc \in Counting : dpc' = [dpc EXCEPT ![d] = pc]
  BY DEF ConStart, UpgradeFails, ConEnds, ConGoto, DialGoto, Counting
<1> QED
  BY <1>1, SameCount DEF CountInv

\* The report of its end moves it from the dials into conDone.
LEMMA NotifyCount ==
  ASSUME NEW d \in Dialers, CountInv, notifyBackend(d)
  PROVE  CountInv'
<1>1. /\ dpc[d] = "closing" /\ UNCHANGED <<con, activeConnections>>
      /\ dpc' = [dpc EXCEPT ![d] = "closed"]
      /\ conDone' = [conDone EXCEPT ![con[d]] = @ + 1]
  BY DEF notifyBackend, ConGoto, DialGoto
<1>2. ASSUME NEW b \in Backends
      PROVE  activeConnections'[b] = Cardinality(Counted(b)') + conDone'[b]
  <2>1. IsFiniteSet(Counted(b)) /\ Cardinality(Counted(b)) \in Nat
    BY OnFinite, CountedIsOn
  <2>2. activeConnections[b] = Cardinality(Counted(b)) + conDone[b]
    BY DEF CountInv, CountRight
  <2>3. CASE con[d] = b
    <3>1. Counted(b)' = Counted(b) \ {d} /\ d \in Counted(b)
      BY <1>1, <2>3 DEF Counted, With, Counting, CountInv
    <3>2. Cardinality(Counted(b)') = Cardinality(Counted(b)) - 1
      BY <2>1, <3>1, FS_RemoveElement
    <3> QED
      BY <1>1, <2>1, <2>2, <2>3, <3>2 DEF CountInv
  <2>4. CASE con[d] # b
    <3>1. Counted(b)' = Counted(b)
      BY <1>1, <2>4 DEF Counted, With, Counting, CountInv
    <3> QED
      BY <1>1, <2>2, <2>4, <3>1 DEF CountInv
  <2> QED
    BY <2>3, <2>4
<1>3. DOMAIN dpc' = Dialers /\ DOMAIN con' = Dialers
  BY <1>1 DEF CountInv
<1>4. activeConnections' \in [Backends -> Int]
  BY <1>1 DEF CountInv
<1>5. conDone' \in [Backends -> Int]
  <2>1. CASE con[d] \in Backends
    BY <1>1, <2>1 DEF CountInv
  <2>2. CASE con[d] \notin Backends
    <3>1. conDone' = conDone
      BY <1>1, <2>2 DEF CountInv
    <3> QED
      BY <3>1 DEF CountInv
  <2> QED
    BY <2>1, <2>2
<1> QED
  BY <1>2, <1>3, <1>4, <1>5 DEF CountInv, CountRight

-----------------------------------------------------------------------------
(* The backends' goroutines and the administration.                         *)

\* The listener takes a report out of conDone and off the count; deleting a
\* backend changes neither.
LEMMA BackendCount ==
  ASSUME NEW b \in Backends, CountInv, BackendRuns(b)
  PROVE  CountInv'
<1>1. UNCHANGED <<dpc, con>>
  BY DEF BackendRuns, ListenConDone, DeleteDrained, DeleteAnyway, ListenDeleted, backendOnly,
         dialVars
<1>2. \A c \in Backends : Counted(c)' = Counted(c)
  BY <1>1 DEF Counted, With
<1>3. CASE ListenConDone(b)
  <2>1. /\ conDone' = [conDone EXCEPT ![b] = @ - 1]
        /\ activeConnections' = [activeConnections EXCEPT ![b] = @ - 1]
    BY <1>3 DEF ListenConDone
  <2>2. ASSUME NEW c \in Backends
        PROVE  activeConnections'[c] = Cardinality(Counted(c)') + conDone'[c]
    <3>1. Cardinality(Counted(c)) \in Nat
      BY OnFinite, CountedIsOn
    <3>2. activeConnections[c] = Cardinality(Counted(c)) + conDone[c]
      BY DEF CountInv, CountRight
    <3> QED
      BY <1>2, <2>1, <3>1, <3>2 DEF CountInv
  <2> QED
    BY <1>1, <2>1, <2>2 DEF CountInv, CountRight
<1>4. CASE DeleteDrained(b) \/ DeleteAnyway(b) \/ ListenDeleted(b)
  <2>1. UNCHANGED <<activeConnections, conDone>>
    BY <1>4 DEF DeleteDrained, DeleteAnyway, ListenDeleted
  <2> QED
    BY <1>1, <2>1, SameCount DEF CountInv
<1> QED
  BY <1>3, <1>4 DEF BackendRuns

\* No edit of the pool touches a connection.
LEMMA AdminCount == CountInv /\ Admin => CountInv'
<1> SUFFICES ASSUME CountInv, Admin PROVE CountInv'
  OBVIOUS
<1>1. Edit
  BY DEF Admin, AddRequest, AddBackend, DisableBackend, EnableBackend, DeleteDisabled, DeleteEnabled,
         ResetBackend
<1>2. UNCHANGED <<activeConnections, conDone, dpc, con>>
  BY <1>1 DEF Edit, dialVars
<1> QED
  BY <1>2, SameCount DEF CountInv

\* Before the first dial nothing is counted.
LEMMA InitCount == Init => CountInv
<1> SUFFICES ASSUME Init PROVE CountInv
  OBVIOUS
<1>1. ASSUME NEW b \in Backends
      PROVE  activeConnections[b] = Cardinality(Counted(b)) + conDone[b]
  <2>1. Counted(b) = {}
    BY DEF Init, Counted, With, Counting
  <2>2. activeConnections[b] = 0 /\ conDone[b] = 0
    BY DEF Init
  <2>3. Cardinality(Counted(b)) = 0
    BY <2>1, FS_EmptySet
  <2> QED
    BY <2>2, <2>3
<1>2. DOMAIN dpc = Dialers /\ DOMAIN con = Dialers
  BY DEF Init
<1>3. activeConnections \in [Backends -> Int] /\ conDone \in [Backends -> Int]
  BY DEF Init
<1> QED
  BY <1>1, <1>2, <1>3 DEF CountInv, CountRight

\* Every step keeps the accounting right.
LEMMA CountStep == CountInv /\ [Next]_vars => CountInv'
<1> SUFFICES ASSUME CountInv, [Next]_vars PROVE CountInv'
  OBVIOUS
<1>1. CASE UNCHANGED vars
  BY <1>1, SameCount DEF CountInv, vars, dialVars, countVars
<1>2. ASSUME NEW d \in Dialers,
             DialRuns(d) \/ ConStart(d) \/ notifyBackend(d) \/ UpgradeFails(d) \/ ConEnds(d)
      PROVE  CountInv'
  BY <1>2, ListCount, TryCount, SuccessCount, LifeCount, NotifyCount DEF DialRuns
<1> QED
  BY <1>1, <1>2, BackendCount, AdminCount DEF Next, Environment, Balancer

\* What is counted is in use, about to be reported, or never will be.
LEMMA CountedParts == \A b : Counted(b) = InUse(b) \cup Ending(b) \cup NeverReported(b)
BY DEF Counted, Counting, With, InUse, Ending, NeverReported

\* activeConnections is at every moment the connections in use, those ending, the
\* reports that wait and the connections that are never reported, whatever the
\* dials, the connections and the administration do at once.
THEOREM ActiveIsAccounted == Spec => []ActiveAccounted
<1>1. CountInv => ActiveAccounted
  BY CountedParts DEF CountInv, CountRight, ActiveAccounted
<1> QED
  BY <1>1, InitCount, CountStep, PTL DEF Spec

=============================================================================
