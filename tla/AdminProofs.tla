----------------------------- MODULE AdminProofs -----------------------------
(***************************************************************************)
(* Proofs about the lists of BackendPool: their types, that a backend is on *)
(* one of them at most, and that they agree with the saved configuration.   *)
(***************************************************************************)
EXTENDS PoolProofs, SequenceTheorems, WellFoundedInduction

-----------------------------------------------------------------------------
(* The operations on lists that the edits are made of.                      *)

\* A set of numbers has a least one.
LEMMA LeastNumber ==
  ASSUME NEW S \in SUBSET Nat, S # {}
  PROVE  \E n \in S : \A m \in S : n <= m
<1>1. PICK n \in S : \A m \in S : <<m, n>> \notin OpToRel(<, Nat)
  BY NatLessThanWellFounded, WFMin
<1>2. \A m \in S : m \in Nat /\ n \in Nat /\ ~(m < n)
  BY <1>1 DEF OpToRel
<1> QED
  BY <1>2

\* The entries of a list are where its type says.
LEMMA Elements ==
  ASSUME NEW S, NEW s \in Seq(S)
  PROVE  \A k \in DOMAIN s : s[k] \in S
OBVIOUS

\* findIndex answers an entry with that id, or 0 if there is none.
LEMMA Found ==
  ASSUME NEW S, NEW s \in Seq(S), NEW n
  PROVE  \/ findIndex(s, n) = 0 /\ \A j \in DOMAIN s : id[s[j]] # n
         \/ findIndex(s, n) \in DOMAIN s /\ id[s[findIndex(s, n)]] = n
<1> DEFINE I == {i \in 1..Len(s) : id[s[i]] = n}
<1>1. findIndex(s, n) = IF I # {} THEN Min(I) ELSE 0
  BY DEF findIndex, SelectInSeq
<1>2. CASE I = {}
  BY <1>1, <1>2
<1>3. CASE I # {}
  <2>1. \E i \in I : \A j \in I : i <= j
    <3>1. I \in SUBSET Nat
      OBVIOUS
    <3> HIDE DEF I
    <3> QED
      BY <1>3, <3>1, LeastNumber
  <2>2. Min(I) \in I
    <3> HIDE DEF I
    <3> QED
      BY <2>1 DEF Min
  <2> QED
    BY <1>1, <1>3, <2>2
<1> QED
  BY <1>2, <1>3

\* RemoveAt closes the gap.
LEMMA Removed ==
  ASSUME NEW S, NEW s \in Seq(S), NEW i \in DOMAIN s
  PROVE  /\ RemoveAt(s, i) \in Seq(S) /\ Len(RemoveAt(s, i)) = Len(s) - 1
         /\ DOMAIN RemoveAt(s, i) = 1..(Len(s) - 1)
         /\ \A j \in DOMAIN RemoveAt(s, i) :
              RemoveAt(s, i)[j] = IF j < i THEN s[j] ELSE s[j + 1]
<1>1. PICK N \in Nat : N = Len(s) /\ DOMAIN s = 1..N /\ i \in 1..N /\ \A k \in 1..N : s[k] \in S
  OBVIOUS
<1>2. PICK u : u = SubSeq(s, 1, i - 1)
  OBVIOUS
<1>3. PICK v : v = SubSeq(s, i + 1, N)
  OBVIOUS
<1>4. u \in Seq(S) /\ Len(u) = i - 1 /\ \A k \in 1..(i - 1) : u[k] = s[k]
  <2>1. 1 \in Int /\ i - 1 \in Int /\ \A k \in 1..(i - 1) : s[k] \in S
    BY <1>1
  <2>2. /\ u \in Seq(S) /\ Len(u) = IF 1 <= i - 1 THEN (i - 1) - 1 + 1 ELSE 0
        /\ \A k \in 1..((i - 1) - 1 + 1) : u[k] = s[1 + k - 1]
    BY <1>2, <2>1, SubSeqProperties
  <2> QED
    BY <1>1, <2>2
<1>5. v \in Seq(S) /\ Len(v) = N - i /\ \A k \in 1..(N - i) : v[k] = s[i + k]
  <2>1. i + 1 \in Int /\ N \in Int /\ \A k \in (i + 1)..N : s[k] \in S
    BY <1>1
  <2>2. /\ v \in Seq(S) /\ Len(v) = IF i + 1 <= N THEN N - (i + 1) + 1 ELSE 0
        /\ \A k \in 1..(N - (i + 1) + 1) : v[k] = s[(i + 1) + k - 1]
    BY <1>3, <2>1, SubSeqProperties
  <2> QED
    BY <1>1, <2>2, SMTT(30)
<1>6. PICK t : t = u \o v
  OBVIOUS
<1>7. /\ t \in Seq(S) /\ Len(t) = N - 1
      /\ \A k \in 1..(N - 1) : t[k] = IF k <= i - 1 THEN u[k] ELSE v[k - (i - 1)]
  <2>1. /\ t \in Seq(S) /\ Len(t) = Len(u) + Len(v)
        /\ \A k \in 1..(Len(u) + Len(v)) : t[k] = IF k <= Len(u) THEN u[k] ELSE v[k - Len(u)]
    BY <1>4, <1>5, <1>6, ConcatProperties
  <2>2. Len(u) + Len(v) = N - 1
    BY <1>1, <1>4, <1>5
  <2> QED
    BY <1>4, <2>1, <2>2
<1>8. RemoveAt(s, i) = t
  BY <1>1, <1>2, <1>3, <1>6 DEF RemoveAt
<1>9. ASSUME NEW j \in 1..(N - 1)
      PROVE  t[j] = IF j < i THEN s[j] ELSE s[j + 1]
  <2>1. CASE j < i
    <3>1. j \in 1..(i - 1) /\ j <= i - 1
      BY <1>1, <2>1
    <3> QED
      BY <1>4, <1>7, <2>1, <3>1
  <2>2. CASE ~(j < i)
    <3>1. PICK k \in 1..(N - i) : k = j - (i - 1)
      BY <1>1, <2>2
    <3>2. t[j] = v[k] /\ v[k] = s[i + k] /\ i + k = j + 1
      BY <1>1, <1>5, <1>7, <2>2, <3>1
    <3> QED
      BY <2>2, <3>2
  <2> QED
    BY <2>1, <2>2
<1>10. DOMAIN t = 1..(N - 1) /\ Len(s) - 1 = N - 1
  BY <1>1, <1>7
<1> QED
  BY <1>7, <1>8, <1>9, <1>10

\* The entries that stay are those that were there, each once.
LEMMA Stayed ==
  ASSUME NEW S, NEW s \in Seq(S), NEW i \in DOMAIN s
  PROVE  /\ \A j \in DOMAIN RemoveAt(s, i) :
              \E k \in DOMAIN s \ {i} : RemoveAt(s, i)[j] = s[k]
         /\ \A k \in DOMAIN s \ {i} :
              \E j \in DOMAIN RemoveAt(s, i) : RemoveAt(s, i)[j] = s[k]
<1>1. PICK t : t = RemoveAt(s, i)
  OBVIOUS
<1>2. PICK N \in Nat : DOMAIN s = 1..N /\ DOMAIN t = 1..(N - 1) /\ N = Len(s)
  BY <1>1, Removed
<1>3. \A j \in 1..(N - 1) : t[j] = IF j < i THEN s[j] ELSE s[j + 1]
  BY <1>1, <1>2, Removed
<1>4. ASSUME NEW j \in 1..(N - 1)
      PROVE  \E k \in DOMAIN s \ {i} : t[j] = s[k]
  <2>1. CASE j < i
    BY <1>2, <1>3, <2>1
  <2>2. CASE ~(j < i)
    <3>1. j + 1 \in DOMAIN s \ {i} /\ t[j] = s[j + 1]
      BY <1>2, <1>3, <2>2
    <3> QED
      BY <3>1
  <2> QED
    BY <2>1, <2>2
<1>5. ASSUME NEW k \in DOMAIN s \ {i}
      PROVE  \E j \in 1..(N - 1) : t[j] = s[k]
  <2>1. CASE k < i
    <3>1. k \in 1..(N - 1) /\ t[k] = s[k]
      BY <1>2, <1>3, <2>1
    <3> QED
      BY <3>1
  <2>2. CASE ~(k < i)
    <3>1. k - 1 \in 1..(N - 1) /\ ~(k - 1 < i) /\ (k - 1) + 1 = k
      BY <1>2, <2>2
    <3>2. t[k - 1] = s[k]
      BY <1>3, <3>1
    <3> QED
      BY <3>1, <3>2
  <2> QED
    BY <2>1, <2>2
<1> QED
  BY <1>1, <1>2, <1>4, <1>5

\* What the pool's own variables contain.
PoolType ==
  /\ backends \in Seq(Backends) /\ disabledBe \in Seq(Backends)
  /\ config \in Seq(0..NumIds)
  /\ nextBackendIdx \in Nat /\ nxtIdxLock \in BOOLEAN
  /\ created \in 0..MaxBackends /\ id \in [Backends -> 0..NumIds]
  /\ url \in [Backends -> (0..NumIds) \X (0..NumPaths)]

\* Breaker, listener and deletion of each backend.
BackendType ==
  /\ tripped \in [Backends -> BOOLEAN] /\ failures \in [Backends -> 0..Threshold]
  /\ conDone \in [Backends -> 0..ConDoneCap]
  /\ listener \in [Backends -> {"none", "running", "ended"}]
  /\ deleting \in [Backends -> {"none", "draining", "signal", "gone"}]

\* The dials and the edits.
DialType ==
  /\ dpc \in [Dialers -> {"idle", "build", "next", "dialling", "connected", "hollow",
                          "started", "closing", "closed", "refused", "exhausted",
                          "declined", "panicked"}]
  /\ bkList \in [Dialers -> Seq(0..MaxBackends)] /\ idx \in [Dialers -> Nat]
  /\ con \in [Dialers -> 0..MaxBackends]
  /\ edits \in 0..MaxEdits /\ calm \in BOOLEAN

\* TypeOK but for the count of active connections, which the accounting types.
Types == PoolType /\ BackendType /\ DialType

\* Counts of connections are never negative.
LEMMA AccountingTypes ==
  ASSUME Types, CountInv
  PROVE  TypeOK
<1>1. ASSUME NEW b \in Backends
      PROVE  activeConnections[b] \in Nat
  <2>1. Cardinality(Counted(b)) \in Nat
    BY OnFinite, CountedIsOn
  <2>2. conDone[b] \in Nat
    BY DEF Types, BackendType
  <2> QED
    BY <2>1, <2>2 DEF CountInv, CountRight
<1>2. activeConnections \in [Backends -> Nat]
  BY <1>1 DEF CountInv
<1> QED
  BY <1>2 DEF Types, PoolType, BackendType, DialType, TypeOK

-----------------------------------------------------------------------------
(* Types.                                                                   *)

\* A remainder is less than what one divides by.
LEMMA Remainder ==
  ASSUME NEW a \in Nat, NEW n \in Nat, n > 0
  PROVE  a % n \in 0..(n - 1)
OBVIOUS

\* A new list is as long as the pool.
LEMMA ListTypes ==
  ASSUME NEW d \in Dialers, Types,
         DialLock(d) \/ DialPick(d) \/ DialOverruns(d) \/ DialUnlock(d)
  PROVE  Types'
<1> USE DEF Types, DialGoto
<1>1. BackendType'
  BY DEF DialLock, DialPick, DialOverruns, DialUnlock, BackendType, breakerVars, countVars
<1>2. PoolType'
  <2>1. nextBackendIdx' \in {nextBackendIdx, nextBackendIdx + 1} /\ nxtIdxLock' \in {nxtIdxLock, TRUE, FALSE}
    BY DEF DialLock, DialPick, DialOverruns, DialUnlock, poolVars
  <2>2. UNCHANGED <<backends, disabledBe, config, created, id, url>>
    BY DEF DialLock, DialPick, DialOverruns, DialUnlock, poolVars
  <2>3. nextBackendIdx' \in Nat
    BY <2>1 DEF PoolType
  <2>4. nxtIdxLock' \in BOOLEAN
    BY <2>1 DEF PoolType
  <2> QED
    BY <2>2, <2>3, <2>4 DEF PoolType
<1>3. DialType'
  <2>1. CASE DialLock(d)
    <3>1. PICK t : t = [i \in 1..Len(backends) |-> 0]
      OBVIOUS
    <3>2. t \in Seq(0..MaxBackends)
      <4>1. Len(backends) \in Nat /\ 0 \in 0..MaxBackends
        BY PoolAssumption DEF PoolType
      <4> QED
        BY <3>1, <4>1, IsASeq
    <3>3. bkList' = [bkList EXCEPT ![d] = t]
      BY <2>1, <3>1 DEF DialLock
    <3> QED
      BY <2>1, <3>2, <3>3 DEF DialLock, DialType, editVars
  <2>2. CASE DialPick(d)
    <3>1. PICK e : e = backends[((nextBackendIdx + idx[d]) % Len(backends)) + 1]
      OBVIOUS
    <3>2. e \in 0..MaxBackends
      <4>1. Len(backends) \in Nat /\ Len(backends) > 0 /\ nextBackendIdx + idx[d] \in Nat
        <5>1. idx[d] \in Nat /\ nextBackendIdx \in Nat /\ Len(backends) \in Nat
          BY DEF PoolType, DialType
        <5>2. idx[d] < Len(backends)
          BY <2>2 DEF DialPick
        <5> QED
          BY <5>1, <5>2
      <4>2. PICK r \in 0..(Len(backends) - 1) : r = (nextBackendIdx + idx[d]) % Len(backends)
        BY <4>1, Remainder
      <4>3. r + 1 \in DOMAIN backends /\ e = backends[r + 1]
        BY <3>1, <4>1, <4>2 DEF PoolType
      <4>4. \A k \in DOMAIN backends : backends[k] \in 1..MaxBackends
        BY Elements DEF PoolType, Backends
      <4> QED
        BY <4>3, <4>4, PoolAssumption
    <3>3. PICK k \in DOMAIN bkList[d] : k = idx[d] + 1
      BY <2>2 DEF DialPick, DialType
    <3>4. bkList' = [bkList EXCEPT ![d] = [bkList[d] EXCEPT ![k] = e]]
      BY <2>2, <3>1, <3>3 DEF DialPick
    <3>5. [bkList[d] EXCEPT ![k] = e] \in Seq(0..MaxBackends)
      BY <3>2, <3>3, ExceptSeq DEF DialType
    <3>6. bkList' \in [Dialers -> Seq(0..MaxBackends)]
      BY <3>4, <3>5 DEF DialType
    <3> QED
      BY <2>2, <3>6 DEF DialPick, DialType, editVars
  <2>3. CASE DialOverruns(d)
    BY <2>3 DEF DialOverruns, DialType, editVars
  <2>4. CASE DialUnlock(d)
    BY <2>4 DEF DialUnlock, DialType, editVars
  <2> QED
    BY <2>1, <2>2, <2>3, <2>4
<1> QED
  BY <1>1, <1>2, <1>3

\* What the breaker counts stays below its threshold.
LEMMA BreakerTypes ==
  ASSUME BackendType, NEW b, Success(b) \/ Fail(b)
  PROVE  tripped' \in [Backends -> BOOLEAN] /\ failures' \in [Backends -> 0..Threshold]
<1>1. CASE Success(b)
  <2>1. failures' \in [Backends -> 0..Threshold]
    <3>1. 0 \in 0..Threshold
      BY PoolAssumption
    <3>2. CASE b \in Backends
      BY <1>1, <3>1, <3>2 DEF Success, BackendType
    <3>3. CASE b \notin Backends
      BY <1>1, <3>3 DEF Success, BackendType
    <3> QED
      BY <3>2, <3>3
  <2>2. PICK still \in {FALSE, tripped[b]} : tripped' = [tripped EXCEPT ![b] = still]
    BY <1>1 DEF Success
  <2>3. CASE b \in Backends
    BY <2>1, <2>2, <2>3 DEF BackendType
  <2>4. CASE b \notin Backends
    BY <2>1, <2>2, <2>4 DEF BackendType
  <2> QED
    BY <2>3, <2>4
<1>2. CASE Fail(b)
  <2>1. CASE b \in Backends
    <3>1. failures[b] \in 0..Threshold /\ Threshold \in Nat
      BY <2>1, PoolAssumption DEF BackendType
    <3>2. failures' \in [Backends -> 0..Threshold]
      <4>1. (IF failures[b] < Threshold THEN failures[b] + 1 ELSE failures[b]) \in 0..Threshold
        BY <3>1
      <4> QED
        BY <1>2, <4>1 DEF Fail, BackendType
    <3>3. tripped' \in [Backends -> BOOLEAN]
      BY <1>2, <2>1 DEF Fail, BackendType
    <3> QED
      BY <3>2, <3>3
  <2>2. CASE b \notin Backends
    <3>1. tripped' = tripped /\ failures' = failures
      BY <1>2, <2>2 DEF Fail, BackendType
    <3> QED
      BY <3>1 DEF BackendType
  <2> QED
    BY <2>1, <2>2
<1> QED
  BY <1>1, <1>2

\* Going through the list, with or without success.
LEMMA TryTypes ==
  ASSUME NEW d \in Dialers, Types,
         \/ DialNext(d) \/ DialExhausted(d) \/ DialSucceeds(d) \/ DialHollow(d)
         \/ DialFails(d) \/ DialDeclined(d)
  PROVE  Types'
<1> USE DEF Types, DialGoto
<1>1. PoolType'
  BY DEF DialNext, DialExhausted, DialSucceeds, DialHollow, DialFails, DialDeclined, PoolType,
         poolVars
<1>2. BackendType'
  <2>1. tripped' \in [Backends -> BOOLEAN] /\ failures' \in [Backends -> 0..Threshold]
    <3>1. CASE Success(con[d]) \/ Fail(con[d])
      BY <3>1, BreakerTypes
    <3>2. CASE UNCHANGED breakerVars
      BY <3>2 DEF breakerVars, BackendType
    <3> QED
      BY <3>1, <3>2 DEF DialNext, DialExhausted, DialSucceeds, DialHollow, DialFails,
                        DialDeclined
  <2>2. UNCHANGED <<conDone, listener, deleting>>
    BY DEF DialNext, DialExhausted, DialSucceeds, DialHollow, DialFails, DialDeclined, countVars
  <2> QED
    BY <2>1, <2>2 DEF BackendType
<1>3. UNCHANGED <<bkList, edits, calm>>
  BY DEF DialNext, DialExhausted, DialSucceeds, DialHollow, DialFails, DialDeclined, editVars
<1>4. dpc' \in [Dialers -> {"idle", "build", "next", "dialling", "connected", "hollow",
                          "started", "closing", "closed", "refused", "exhausted",
                          "declined", "panicked"}]
  <2>1. \E pc \in {"next", "dialling", "connected", "hollow", "exhausted", "declined", "panicked"} :
          dpc' = [dpc EXCEPT ![d] = pc]
    BY DEF DialNext, DialExhausted, DialSucceeds, DialHollow, DialFails, DialDeclined
  <2> QED
    BY <2>1 DEF DialType
<1>5. idx' \in [Dialers -> Nat]
  BY DEF DialNext, DialExhausted, DialSucceeds, DialHollow, DialFails, DialDeclined, DialType
<1>6. con' \in [Dialers -> 0..MaxBackends]
  <2>1. \/ con' = con
        \/ \E b \in 0..MaxBackends : con' = [con EXCEPT ![d] = b]
    <3>1. CASE DialNext(d)
      <4>1. PICK k \in DOMAIN bkList[d] : k = idx[d] + 1
        BY <3>1 DEF DialNext, DialType
      <4>2. bkList[d][k] \in 0..MaxBackends /\ 0 \in 0..MaxBackends
        BY <4>1, PoolAssumption DEF DialType
      <4> QED
        BY <3>1, <4>1, <4>2 DEF DialNext
    <3>2. CASE DialFails(d) \/ DialDeclined(d)
      BY <3>2, PoolAssumption DEF DialFails, DialDeclined
    <3> QED
      BY <3>1, <3>2 DEF DialExhausted, DialSucceeds, DialHollow
  <2> QED
    BY <2>1 DEF DialType
<1> QED
  BY <1>1, <1>2, <1>3, <1>4, <1>5, <1>6 DEF DialType

\* The connection and the goroutines of the backend.
LEMMA RunTypes ==
  ASSUME Types, CountInv,
         \/ \E d \in Dialers : ConStart(d) \/ UpgradeFails(d) \/ ConEnds(d) \/ notifyBackend(d)
         \/ \E b \in Backends : BackendRuns(b)
  PROVE  Types'
<1> USE DEF Types
<1>1. ASSUME NEW d \in Dialers, ConStart(d) \/ UpgradeFails(d) \/ ConEnds(d) \/ notifyBackend(d)
      PROVE  Types'
  <2>1. /\ UNCHANGED <<poolVars, created, id, url, breakerVars, activeConnections, listener,
                      deleting, bkList, idx, con, editVars>>
        /\ \E pc \in {"started", "refused", "closing", "closed"} : dpc' = [dpc EXCEPT ![d] = pc]
    BY <1>1 DEF ConStart, UpgradeFails, ConEnds, notifyBackend, ConGoto, DialGoto
  <2>2. conDone' \in [Backends -> 0..ConDoneCap]
    <3>1. CASE notifyBackend(d)
      <4>1. CASE con[d] \in Backends
        BY <3>1, <4>1, PoolAssumption DEF notifyBackend, BackendType
      <4>2. CASE con[d] \notin Backends
        BY <3>1, <4>2 DEF notifyBackend, BackendType
      <4> QED
        BY <4>1, <4>2
    <3> QED
      BY <1>1, <3>1 DEF ConStart, UpgradeFails, ConEnds, BackendType
  <2>3. PoolType' /\ BackendType'
    BY <2>1, <2>2 DEF PoolType, BackendType, poolVars, breakerVars
  <2>4. DialType'
    BY <2>1 DEF DialType, editVars
  <2> QED
    BY <2>3, <2>4
<1>2. ASSUME NEW b \in Backends, BackendRuns(b)
      PROVE  Types'
  <2>1. UNCHANGED backendOnly
    BY <1>2 DEF BackendRuns, ListenConDone, DeleteDrained, DeleteAnyway, ListenDeleted
  <2>2. /\ conDone' \in [Backends -> 0..ConDoneCap]
        /\ listener' \in [Backends -> {"none", "running", "ended"}]
        /\ deleting' \in [Backends -> {"none", "draining", "signal", "gone"}]
    BY <1>2, PoolAssumption DEF BackendRuns, ListenConDone, DeleteDrained, DeleteAnyway,
                                ListenDeleted, BackendType
  <2> QED
    BY <2>1, <2>2 DEF PoolType, BackendType, DialType, backendOnly, poolVars, breakerVars,
                      dialVars, editVars
<1> QED
  BY <1>1, <1>2

\* What is found in a list is a place of it, and a backend.
LEMMA FoundBackend ==
  ASSUME NEW s \in Seq(Backends), NEW n, findIndex(s, n) > 0
  PROVE  /\ findIndex(s, n) \in DOMAIN s /\ s[findIndex(s, n)] \in Backends
         /\ id[s[findIndex(s, n)]] = n
<1>1. findIndex(s, n) # 0
  OBVIOUS
<1>2. findIndex(s, n) \in DOMAIN s /\ id[s[findIndex(s, n)]] = n
  BY <1>1, Found
<1> QED
  BY <1>2

\* The configuration gets one entry shorter.
LEMMA ConfigTypes ==
  ASSUME PoolType, NEW n, ~ConfigPanics(n), deleteBackendConfig(n)
  PROVE  config' \in Seq(0..NumIds)
<1>1. PICK N \in Nat : N = Len(config) /\ DOMAIN config = 1..N
  BY DEF PoolType
<1>2. N - 1 \in Nat
  BY <1>1 DEF ConfigPanics, Contains
<1>3. PICK t : t = [k \in 1..(N - 1) |->
                     IF CopiedFrom(n, k) = {} THEN 0
                     ELSE config[CHOOSE i \in CopiedFrom(n, k) : TRUE]]
  OBVIOUS
<1>4. config' = t
  BY <1>1, <1>3 DEF deleteBackendConfig
<1>5. \A i \in 1..N : config[i] \in 0..NumIds
  BY <1>1, Elements DEF PoolType
<1>6. ASSUME NEW k \in 1..(N - 1)
      PROVE  t[k] \in 0..NumIds
  <2>1. CASE CopiedFrom(n, k) = {}
    BY <1>3, <2>1, PoolAssumption
  <2>2. CASE CopiedFrom(n, k) # {}
    <3>1. PICK i \in CopiedFrom(n, k) : i = CHOOSE j \in CopiedFrom(n, k) : TRUE
      BY <2>2
    <3>2. t[k] = config[i]
      BY <1>3, <2>2, <3>1
    <3>3. i \in 1..N
      BY <1>1, <3>1 DEF CopiedFrom
    <3> QED
      BY <1>5, <3>2, <3>3
  <2> QED
    BY <2>1, <2>2
<1>7. t \in Seq(0..NumIds)
  BY <1>2, <1>3, <1>6, IsASeq
<1> QED
  BY <1>4, <1>7

\* Every edit is about one id, the one an added backend gets included.
LEMMA EditHasId ==
  Admin => \E n \in Ids :
             \/ \E u \in Urls : AddBackend(u, n)
             \/ DisableBackend(n) \/ EnableBackend(n)
             \/ DeleteDisabled(n) \/ DeleteEnabled(n) \/ ResetBackend(n)
<1> SUFFICES ASSUME NEW u \in Urls, NEW given \in {0} \cup Ids, AddRequest(u, given)
             PROVE  \E n \in Ids : AddBackend(u, n)
  BY DEF Admin
<1>1. u[1] \in Ids
  BY DEF Urls
<1> QED
  BY <1>1 DEF AddRequest, NormalizeForID

\* The edits.
LEMMA EditTypes == Types /\ Admin => Types'
<1> SUFFICES ASSUME Types, NEW n \in Ids,
                    \/ \E u \in Urls : AddBackend(u, n)
                    \/ DisableBackend(n) \/ EnableBackend(n)
                    \/ DeleteDisabled(n) \/ DeleteEnabled(n) \/ ResetBackend(n)
             PROVE  Types'
  BY EditHasId
<1>1. Edit
  BY DEF AddBackend, DisableBackend, EnableBackend, DeleteDisabled, DeleteEnabled, ResetBackend
<1>2. DialType'
  <2>1. edits' \in 0..MaxEdits
    BY <1>1, PoolAssumption DEF Edit, Types, DialType
  <2>2. calm' \in BOOLEAN
    BY <1>1 DEF Edit, Types, DialType
  <2> QED
    BY <1>1, <2>1, <2>2 DEF Edit, Types, DialType, dialVars
<1>3. conDone' \in [Backends -> 0..ConDoneCap] /\ nxtIdxLock' \in BOOLEAN
  BY <1>1 DEF Edit, Types, PoolType, BackendType
<1>4. PICK i : i = findIndex(backends, n)
  OBVIOUS
<1>5. PICK j : j = findIndex(disabledBe, n)
  OBVIOUS
<1>6. i > 0 => /\ i \in DOMAIN backends /\ backends[i] \in Backends
               /\ RemoveAt(backends, i) \in Seq(Backends)
  BY <1>4, FoundBackend, Removed DEF Types, PoolType
<1>7. j > 0 => /\ j \in DOMAIN disabledBe /\ disabledBe[j] \in Backends
               /\ RemoveAt(disabledBe, j) \in Seq(Backends)
  BY <1>5, FoundBackend, Removed DEF Types, PoolType
<1>8. ASSUME NEW u \in Urls, AddBackend(u, n)
      PROVE  Types'
  <2>1. created + 1 \in Backends /\ created' \in 0..MaxBackends
    BY <1>8, PoolAssumption DEF AddBackend, Types, PoolType, Backends
  <2>2. backends' \in Seq(Backends)
    BY <1>8, <2>1 DEF AddBackend, Types, PoolType
  <2>3. n \in 0..NumIds
    BY PoolAssumption DEF Ids
  <2>4. config' \in Seq(0..NumIds) /\ id' \in [Backends -> 0..NumIds]
    BY <1>8, <2>1, <2>3 DEF AddBackend, Types, PoolType
  <2>6. url' \in [Backends -> (0..NumIds) \X (0..NumPaths)]
    <3>1. Urls \subseteq (0..NumIds) \X (0..NumPaths)
      BY PoolAssumption DEF Urls, Ids
    <3>2. u \in (0..NumIds) \X (0..NumPaths)
      BY <3>1
    <3> QED
      BY <1>8, <2>1, <3>2 DEF AddBackend, Types, PoolType
  <2>5. listener' \in [Backends -> {"none", "running", "ended"}]
    BY <1>8, <2>1 DEF AddBackend, Types, BackendType
  <2> QED
    BY <1>2, <1>3, <1>8, <2>1, <2>2, <2>4, <2>5, <2>6 DEF AddBackend, Types, PoolType, BackendType,
                                                   breakerVars
<1>9. CASE DisableBackend(n)
  <2>1. backends' \in Seq(Backends) /\ disabledBe' \in Seq(Backends)
    BY <1>4, <1>6, <1>9 DEF DisableBackend, Types, PoolType
  <2> QED
    BY <1>2, <1>3, <1>9, <2>1 DEF DisableBackend, Types, PoolType, BackendType, breakerVars
<1>10. CASE EnableBackend(n)
  <2>1. backends' \in Seq(Backends) /\ disabledBe' \in Seq(Backends)
    BY <1>5, <1>7, <1>10 DEF EnableBackend, Types, PoolType
  <2> QED
    BY <1>2, <1>3, <1>10, <2>1 DEF EnableBackend, Types, PoolType, BackendType, breakerVars
<1>11. CASE DeleteDisabled(n)
  <2>1. deleting' \in [Backends -> {"none", "draining", "signal", "gone"}]
    BY <1>5, <1>7, <1>11 DEF DeleteDisabled, delete, Types, BackendType
  <2>2. disabledBe' \in Seq(Backends)
    BY <1>5, <1>7, <1>11 DEF DeleteDisabled, Types, PoolType
  <2>3. config' \in Seq(0..NumIds)
    BY <1>11, ConfigTypes DEF DeleteDisabled, Types, PoolType
  <2> QED
    BY <1>2, <1>3, <1>11, <2>1, <2>2, <2>3 DEF DeleteDisabled, Types, PoolType, BackendType,
                                               breakerVars
<1>12. CASE DeleteEnabled(n)
  <2>1. deleting' \in [Backends -> {"none", "draining", "signal", "gone"}]
    BY <1>4, <1>6, <1>12 DEF DeleteEnabled, delete, Types, BackendType
  <2>2. backends' \in Seq(Backends)
    BY <1>4, <1>6, <1>12 DEF DeleteEnabled, Types, PoolType
  <2>3. config' \in Seq(0..NumIds) /\ nextBackendIdx' \in Nat
    <3>1. CASE ConfigPanics(n)
      BY <1>12, <3>1 DEF DeleteEnabled, Types, PoolType
    <3>2. CASE ~ConfigPanics(n)
      <4>1. deleteBackendConfig(n) /\ nextBackendIdx' = 0
        BY <1>12, <3>2 DEF DeleteEnabled
      <4> QED
        BY <3>2, <4>1, ConfigTypes DEF Types
    <3> QED
      BY <3>1, <3>2
  <2> QED
    BY <1>2, <1>3, <1>12, <2>1, <2>2, <2>3 DEF DeleteEnabled, Types, PoolType, BackendType,
                                               breakerVars
<1>13. CASE ResetBackend(n)
  <2>1. UNCHANGED <<backends, disabledBe, config, nextBackendIdx, created, id, url, listener,
                    deleting>>
    BY <1>13 DEF ResetBackend
  <2>2. tripped' \in [Backends -> BOOLEAN] /\ failures' \in [Backends -> 0..Threshold]
    <3>1. PICK b : tripped' = [tripped EXCEPT ![b] = FALSE] /\ failures' = [failures EXCEPT ![b] = 0]
      BY <1>13 DEF ResetBackend
    <3>2. 0 \in 0..Threshold
      BY PoolAssumption
    <3>3. CASE b \in Backends
      BY <3>1, <3>2, <3>3 DEF Types, BackendType
    <3>4. CASE b \notin Backends
      <4>1. tripped' = tripped /\ failures' = failures
        BY <3>1, <3>4 DEF Types, BackendType
      <4> QED
        BY <4>1 DEF Types, BackendType
    <3> QED
      BY <3>3, <3>4
  <2> QED
    BY <1>2, <1>3, <2>1, <2>2 DEF Types, PoolType, BackendType
<1> QED
  BY <1>8, <1>9, <1>10, <1>11, <1>12, <1>13

\* Initially every type is right.
LEMMA InitTypes == Init => Types
<1> SUFFICES ASSUME Init PROVE Types
  OBVIOUS
<1>1. \A k \in 1..NumInitial : k \in Backends /\ k \in 0..NumIds
  BY PoolAssumption DEF Backends
<1>2. backends \in Seq(Backends) /\ config \in Seq(0..NumIds)
  <2>1. PICK N \in Nat : N = NumInitial
    BY PoolAssumption
  <2> QED
    BY <1>1, <2>1, IsASeq DEF Init
<1>3. id \in [Backends -> 0..NumIds]
  <2>1. ASSUME NEW b \in Backends
        PROVE  (IF b <= NumInitial THEN b ELSE 0) \in 0..NumIds
    BY PoolAssumption DEF Backends
  <2> QED
    BY <2>1 DEF Init
<1>7. url \in [Backends -> (0..NumIds) \X (0..NumPaths)]
  <2>1. ASSUME NEW b \in Backends
        PROVE  (IF b <= NumInitial THEN <<b, 1>> ELSE <<0, 0>>) \in (0..NumIds) \X (0..NumPaths)
    <3>1. CASE b <= NumInitial
      BY <3>1, PoolAssumption DEF Backends
    <3>2. CASE ~(b <= NumInitial)
      BY <3>2, PoolAssumption
    <3> QED
      BY <3>1, <3>2
  <2> QED
    BY <2>1 DEF Init
<1>4. PoolType
  <2>1. NumInitial \in 0..MaxBackends
    BY PoolAssumption
  <2>2. disabledBe \in Seq(Backends)
    BY DEF Init
  <2> QED
    BY <1>2, <1>3, <1>7, <2>1, <2>2 DEF Init, PoolType
<1>5. BackendType
  BY PoolAssumption DEF Init, BackendType
<1>6. DialType
  BY PoolAssumption DEF Init, DialType
<1> QED
  BY <1>4, <1>5, <1>6 DEF Types

\* Every step keeps the types and the accounting.
LEMMA TypeStep == Types /\ CountInv /\ [Next]_vars => Types'
<1> SUFFICES ASSUME Types, CountInv, [Next]_vars PROVE Types'
  OBVIOUS
<1>1. CASE UNCHANGED vars
  BY <1>1 DEF vars, Types, PoolType, BackendType, DialType, poolVars, breakerVars, countVars,
              dialVars, editVars
<1>2. ASSUME NEW d \in Dialers, DialRuns(d)
      PROVE  Types'
  BY <1>2, ListTypes, TryTypes DEF DialRuns
<1> QED
  BY <1>1, <1>2, RunTypes, EditTypes DEF Next, Environment, Balancer

\* Every variable keeps its type: no count of connections is negative, no channel
\* overflows, and no list holds what is not a backend.
THEOREM TypeCorrect == Spec => []TypeOK
<1>1. Init => Types /\ CountInv
  BY InitTypes, InitCount
<1>2. Types /\ CountInv /\ [Next]_vars => (Types /\ CountInv)'
  BY TypeStep, CountStep
<1>3. Types /\ CountInv => TypeOK
  BY AccountingTypes
<1> QED
  BY <1>1, <1>2, <1>3, PTL DEF Spec

-----------------------------------------------------------------------------
(* One list for each backend.                                               *)

\* An entry taken out leaves the others, each once.
LEMMA RemovedApart ==
  ASSUME NEW S, NEW s \in Seq(S), NEW i \in DOMAIN s, IsInjective(s)
  PROVE  /\ IsInjective(RemoveAt(s, i))
         /\ ToSet(RemoveAt(s, i)) = ToSet(s) \ {s[i]}
<1>1. PICK t : t = RemoveAt(s, i)
  OBVIOUS
<1>2. PICK N \in Nat : DOMAIN s = 1..N /\ DOMAIN t = 1..(N - 1) /\ i \in 1..N
  BY <1>1, Removed
<1>3. \A j \in 1..(N - 1) : t[j] = IF j < i THEN s[j] ELSE s[j + 1]
  BY <1>1, <1>2, Removed
<1>4. \A j \in 1..(N - 1) : j \in 1..N /\ j + 1 \in 1..N
  BY <1>2
<1>5. \A j, k \in 1..N : s[j] = s[k] => j = k
  BY <1>2 DEF IsInjective
<1>6. ASSUME NEW j \in 1..(N - 1), NEW k \in 1..(N - 1), t[j] = t[k]
      PROVE  j = k
  BY <1>2, <1>3, <1>4, <1>5, <1>6
<1>7. \A x : x \in ToSet(t) <=> x \in ToSet(s) /\ x # s[i]
  <2>1. ASSUME NEW x \in ToSet(t)
        PROVE  x \in ToSet(s) /\ x # s[i]
    <3>1. PICK k \in DOMAIN s \ {i} : x = s[k]
      BY <1>1, <2>1, Stayed DEF ToSet
    <3> QED
      BY <1>2, <1>5, <3>1 DEF ToSet
  <2>2. ASSUME NEW x \in ToSet(s), x # s[i]
        PROVE  x \in ToSet(t)
    <3>1. PICK k \in DOMAIN s \ {i} : x = s[k]
      BY <2>2 DEF ToSet
    <3> QED
      BY <1>1, <3>1, Stayed DEF ToSet
  <2> QED
    BY <2>1, <2>2
<1> QED
  BY <1>1, <1>2, <1>6, <1>7 DEF IsInjective

\* An entry added is there once if it was not there.
LEMMA AppendedApart ==
  ASSUME NEW S, NEW s \in Seq(S), NEW e \in S, IsInjective(s), e \notin ToSet(s)
  PROVE  /\ IsInjective(Append(s, e))
         /\ ToSet(Append(s, e)) = ToSet(s) \cup {e}
<1>1. PICK t : t = Append(s, e)
  OBVIOUS
<1>2. PICK N \in Nat : N = Len(s) /\ DOMAIN s = 1..N /\ DOMAIN t = 1..(N + 1)
  BY <1>1
<1>3. t[N + 1] = e /\ \A j \in 1..N : t[j] = s[j] /\ s[j] # e
  BY <1>1, <1>2 DEF ToSet
<1>4. \A j, k \in 1..N : s[j] = s[k] => j = k
  BY <1>2 DEF IsInjective
<1>5. \A j \in 1..(N + 1) : j \in 1..N \/ j = N + 1
  OBVIOUS
<1>6. \A j, k \in 1..(N + 1) : t[j] = t[k] => j = k
  BY <1>3, <1>4, <1>5
<1>7. \A x : x \in ToSet(t) <=> x \in ToSet(s) \/ x = e
  <2>1. N + 1 \in 1..(N + 1) /\ \A j \in 1..N : j \in 1..(N + 1)
    OBVIOUS
  <2> QED
    BY <1>2, <1>3, <1>5, <2>1 DEF ToSet
<1> QED
  BY <1>1, <1>2, <1>6, <1>7 DEF IsInjective

\* The backends that were created have ids, and each is enabled, disabled or
\* neither, and no more than once.
OneList ==
  /\ ToSet(backends) \subseteq 1..created /\ ToSet(disabledBe) \subseteq 1..created
  /\ \A b \in 1..created : id[b] \in Ids
  /\ IsInjective(backends) /\ IsInjective(disabledBe)
  /\ ToSet(backends) \cap ToSet(disabledBe) = {}

\* What findIndex finds in such a list can be taken out of it.
LEMMA FoundApart ==
  ASSUME NEW s \in Seq(Backends), NEW n, findIndex(s, n) > 0, IsInjective(s)
  PROVE  LET i == findIndex(s, n) IN
         /\ s[i] \in Backends /\ s[i] \in ToSet(s)
         /\ IsInjective(RemoveAt(s, i)) /\ ToSet(RemoveAt(s, i)) = ToSet(s) \ {s[i]}
<1>1. PICK i : i = findIndex(s, n)
  OBVIOUS
<1>2. i \in DOMAIN s /\ s[i] \in Backends
  BY <1>1, FoundBackend
<1>3. s[i] \in ToSet(s)
  BY <1>2 DEF ToSet
<1>4. IsInjective(RemoveAt(s, i)) /\ ToSet(RemoveAt(s, i)) = ToSet(s) \ {s[i]}
  BY <1>2, RemovedApart
<1> QED
  BY <1>1, <1>2, <1>3, <1>4

\* No edit puts a backend on two lists, or on one of them twice.
LEMMA OneListEdit == Types /\ OneList /\ Admin => OneList'
<1> SUFFICES ASSUME Types, OneList, NEW n \in Ids,
                    \/ \E u \in Urls : AddBackend(u, n)
                    \/ DisableBackend(n) \/ EnableBackend(n)
                    \/ DeleteDisabled(n) \/ DeleteEnabled(n) \/ ResetBackend(n)
             PROVE  OneList'
  BY EditHasId
<1>1. PICK i : i = findIndex(backends, n)
  OBVIOUS
<1>2. PICK j : j = findIndex(disabledBe, n)
  OBVIOUS
<1>3. i > 0 => /\ backends[i] \in Backends /\ backends[i] \in ToSet(backends)
               /\ IsInjective(RemoveAt(backends, i))
               /\ ToSet(RemoveAt(backends, i)) = ToSet(backends) \ {backends[i]}
  BY <1>1, FoundApart DEF Types, PoolType, OneList
<1>4. j > 0 => /\ disabledBe[j] \in Backends /\ disabledBe[j] \in ToSet(disabledBe)
               /\ IsInjective(RemoveAt(disabledBe, j))
               /\ ToSet(RemoveAt(disabledBe, j)) = ToSet(disabledBe) \ {disabledBe[j]}
  BY <1>2, FoundApart DEF Types, PoolType, OneList
<1>5. ASSUME NEW u \in Urls, AddBackend(u, n)
      PROVE  OneList'
  <2>1. PICK c : /\ c = created + 1 /\ c \in Backends /\ c \notin 1..created
                 /\ 1..c = (1..created) \cup {c}
    <3>1. created \in Nat /\ MaxBackends \in Nat
      BY PoolAssumption DEF Types, PoolType
    <3>2. created < MaxBackends
      BY <1>5 DEF AddBackend
    <3> QED
      BY <3>1, <3>2 DEF Backends
  <2>2. /\ created' = c /\ backends' = Append(backends, c) /\ disabledBe' = disabledBe
        /\ id' = [id EXCEPT ![c] = n]
    BY <1>5, <2>1 DEF AddBackend
  <2>3. IsInjective(backends') /\ ToSet(backends') = ToSet(backends) \cup {c}
    BY <2>1, <2>2, AppendedApart DEF Types, PoolType, OneList
  <2>4. \A b \in 1..c : id'[b] \in Ids
    <3>1. id'[c] = n /\ \A b \in 1..created : id'[b] = id[b]
      BY <2>1, <2>2 DEF Types, PoolType
    <3> QED
      BY <2>1, <3>1 DEF OneList
  <2>5. c \notin ToSet(disabledBe)
    BY <2>1 DEF OneList
  <2> QED
    BY <2>1, <2>2, <2>3, <2>4, <2>5 DEF OneList
<1>6. CASE DisableBackend(n)
  <2>1. /\ i > 0 /\ disabledBe' = Append(disabledBe, backends[i])
        /\ backends' = RemoveAt(backends, i) /\ UNCHANGED <<created, id, url>>
    BY <1>1, <1>6 DEF DisableBackend
  <2>2. backends[i] \notin ToSet(disabledBe)
    BY <1>3, <2>1 DEF OneList
  <2>3. /\ IsInjective(disabledBe')
        /\ ToSet(disabledBe') = ToSet(disabledBe) \cup {backends[i]}
    <3>1. /\ disabledBe \in Seq(Backends) /\ IsInjective(disabledBe)
          /\ backends[i] \in Backends /\ disabledBe' = Append(disabledBe, backends[i])
      BY <1>3, <2>1 DEF Types, PoolType, OneList
    <3> QED
      BY <2>2, <3>1, AppendedApart
  <2> QED
    BY <1>3, <2>1, <2>3 DEF OneList
<1>7. CASE EnableBackend(n)
  <2>1. /\ j > 0 /\ backends' = Append(backends, disabledBe[j])
        /\ disabledBe' = RemoveAt(disabledBe, j) /\ UNCHANGED <<created, id, url>>
    BY <1>2, <1>7 DEF EnableBackend
  <2>2. disabledBe[j] \notin ToSet(backends)
    BY <1>4, <2>1 DEF OneList
  <2>3. /\ IsInjective(backends')
        /\ ToSet(backends') = ToSet(backends) \cup {disabledBe[j]}
    <3>1. /\ backends \in Seq(Backends) /\ IsInjective(backends)
          /\ disabledBe[j] \in Backends /\ backends' = Append(backends, disabledBe[j])
      BY <1>4, <2>1 DEF Types, PoolType, OneList
    <3> QED
      BY <2>2, <3>1, AppendedApart
  <2> QED
    BY <1>4, <2>1, <2>3 DEF OneList
<1>8. CASE DeleteDisabled(n)
  <2>1. /\ j > 0 /\ disabledBe' \in {disabledBe, RemoveAt(disabledBe, j)}
        /\ UNCHANGED <<backends, created, id, url>>
    BY <1>2, <1>8 DEF DeleteDisabled
  <2> QED
    BY <1>4, <2>1 DEF OneList
<1>9. CASE DeleteEnabled(n)
  <2>1. /\ i > 0 /\ backends' = RemoveAt(backends, i)
        /\ UNCHANGED <<disabledBe, created, id, url>>
    BY <1>1, <1>9 DEF DeleteEnabled
  <2> QED
    BY <1>3, <2>1 DEF OneList
<1>10. CASE ResetBackend(n)
  BY <1>10 DEF ResetBackend, OneList
<1> QED
  BY <1>5, <1>6, <1>7, <1>8, <1>9, <1>10

\* What is not an edit leaves the lists alone.
LEMMA ListsStay ==
  [Next]_vars => Admin \/ UNCHANGED <<backends, disabledBe, config, created, id, url>>
<1> SUFFICES ASSUME [Next]_vars, ~Admin
             PROVE  UNCHANGED <<backends, disabledBe, config, created, id, url>>
  OBVIOUS
<1>1. CASE UNCHANGED vars
  BY <1>1 DEF vars, poolVars
<1>2. ASSUME NEW d \in Dialers, DialRuns(d)
      PROVE  UNCHANGED <<backends, disabledBe, config, created, id, url>>
  BY <1>2 DEF DialRuns, DialLock, DialPick, DialOverruns, DialUnlock, DialNext, DialExhausted,
              DialSucceeds, DialHollow, DialFails, DialDeclined, poolVars
<1>3. ASSUME NEW d \in Dialers, ConStart(d) \/ notifyBackend(d) \/ UpgradeFails(d) \/ ConEnds(d)
      PROVE  UNCHANGED <<backends, disabledBe, config, created, id, url>>
  BY <1>3 DEF ConStart, notifyBackend, UpgradeFails, ConEnds, ConGoto, poolVars
<1>4. ASSUME NEW b \in Backends, BackendRuns(b)
      PROVE  UNCHANGED <<backends, disabledBe, config, created, id, url>>
  BY <1>4 DEF BackendRuns, ListenConDone, DeleteDrained, DeleteAnyway, ListenDeleted,
              backendOnly, poolVars
<1> QED
  BY <1>1, <1>2, <1>3, <1>4 DEF Next, Environment, Balancer

\* The configuration file's backends are all enabled.
LEMMA OneListInit == Init => OneList
<1> SUFFICES ASSUME Init PROVE OneList
  OBVIOUS
<1>1. ToSet(backends) = 1..created /\ ToSet(disabledBe) = {}
  BY PoolAssumption DEF Init, ToSet
<1>2. IsInjective(backends) /\ IsInjective(disabledBe)
  BY PoolAssumption DEF Init, IsInjective
<1>3. \A b \in 1..created : id[b] \in Ids
  BY PoolAssumption DEF Init, Ids, Backends
<1> QED
  BY <1>1, <1>2, <1>3 DEF OneList

\* A backend is enabled or disabled or gone, never two of these nor listed twice,
\* also after AddBackend has added a second one with its URL.
THEOREM BackendOnOneList == Spec => []OneList
<1>1. Init => Types /\ CountInv /\ OneList
  BY InitTypes, InitCount, OneListInit
<1>2. Types /\ CountInv /\ OneList /\ [Next]_vars => (Types /\ CountInv /\ OneList)'
  <2> SUFFICES ASSUME Types, CountInv, OneList, [Next]_vars PROVE OneList'
    BY TypeStep, CountStep
  <2>1. CASE UNCHANGED <<backends, disabledBe, config, created, id, url>>
    BY <2>1 DEF OneList
  <2> QED
    BY <2>1, ListsStay, OneListEdit
<1> QED
  BY <1>1, <1>2, PTL DEF Spec

-----------------------------------------------------------------------------
(* The pool and the saved configuration.                                    *)

\* The ids of the backends on a list.
Named(s) == [i \in DOMAIN s |-> id[s[i]]]

\* Each id has one backend and one entry in the configuration.
ConfigInv ==
  /\ IsInjective(Named(backends)) /\ IsInjective(Named(disabledBe)) /\ IsInjective(config)
  /\ ToSet(Named(backends)) \cap ToSet(Named(disabledBe)) = {}
  /\ ToSet(config) = ToSet(Named(backends)) \cup ToSet(Named(disabledBe))
  /\ Len(config) = Len(backends) + Len(disabledBe)

\* The ids of a list are a list of the same length.
LEMMA NamedList ==
  ASSUME Types, NEW s \in Seq(Backends)
  PROVE  Named(s) \in Seq(0..NumIds) /\ Len(Named(s)) = Len(s)
<1>1. PICK N \in Nat : N = Len(s) /\ DOMAIN s = 1..N
  OBVIOUS
<1>2. \A i \in 1..N : id[s[i]] \in 0..NumIds
  BY <1>1, Elements DEF Types, PoolType
<1>3. Named(s) = [i \in 1..N |-> id[s[i]]]
  BY <1>1 DEF Named
<1>4. Named(s) \in Seq(0..NumIds)
  BY <1>2, <1>3, IsASeq
<1>5. DOMAIN Named(s) = 1..N
  BY <1>3
<1> QED
  BY <1>1, <1>4, <1>5

\* Taking out a backend takes out its id.
LEMMA NamedRemoved ==
  ASSUME Types, NEW s \in Seq(Backends), NEW i \in DOMAIN s
  PROVE  Named(RemoveAt(s, i)) = RemoveAt(Named(s), i)
<1>1. PICK t : t = RemoveAt(s, i)
  OBVIOUS
<1>2. PICK u : u = Named(s)
  OBVIOUS
<1>3. PICK N \in Nat : N = Len(s) /\ DOMAIN s = 1..N /\ i \in 1..N
  OBVIOUS
<1>4. DOMAIN t = 1..(N - 1) /\ \A j \in 1..(N - 1) : t[j] = IF j < i THEN s[j] ELSE s[j + 1]
  BY <1>1, <1>3, Removed
<1>5. u \in Seq(0..NumIds) /\ Len(u) = N /\ DOMAIN u = 1..N /\ \A j \in 1..N : u[j] = id[s[j]]
  BY <1>2, <1>3, NamedList DEF Named
<1>6. PICK v : v = RemoveAt(u, i)
  OBVIOUS
<1>7. /\ v \in Seq(0..NumIds) /\ DOMAIN v = 1..(N - 1)
      /\ \A j \in 1..(N - 1) : v[j] = IF j < i THEN u[j] ELSE u[j + 1]
  BY <1>3, <1>5, <1>6, Removed, SMTT(30)
<1>8. \A j \in 1..(N - 1) : j \in 1..N /\ j + 1 \in 1..N
  OBVIOUS
<1>9. \A j \in 1..(N - 1) : id[t[j]] = v[j]
  BY <1>4, <1>5, <1>7, <1>8, ZenonT(60)
<1>10. v = [j \in 1..(N - 1) |-> v[j]]
  BY <1>7
<1>11. Named(t) = [j \in 1..(N - 1) |-> id[t[j]]]
  BY <1>4 DEF Named
<1> QED
  BY <1>1, <1>2, <1>6, <1>9, <1>10, <1>11

\* Adding a backend adds its id.
LEMMA NamedAppended ==
  ASSUME Types, NEW s \in Seq(Backends), NEW b \in Backends
  PROVE  Named(Append(s, b)) = Append(Named(s), id[b])
<1>1. PICK t : t = Append(s, b)
  OBVIOUS
<1>2. PICK u : u = Named(s)
  OBVIOUS
<1>3. PICK N \in Nat : N = Len(s) /\ DOMAIN s = 1..N
  OBVIOUS
<1>4. DOMAIN t = 1..(N + 1) /\ t[N + 1] = b /\ \A j \in 1..N : t[j] = s[j]
  BY <1>1, <1>3
<1>5. u \in Seq(0..NumIds) /\ Len(u) = N /\ \A j \in 1..N : u[j] = id[s[j]]
  BY <1>2, <1>3, NamedList DEF Named
<1>6. PICK v : v = Append(u, id[b])
  OBVIOUS
<1>7. id[b] \in 0..NumIds
  BY DEF Types, PoolType
<1>8. /\ v \in Seq(0..NumIds) /\ DOMAIN v = 1..(N + 1) /\ v[N + 1] = id[b]
      /\ \A j \in 1..N : v[j] = u[j]
  BY <1>5, <1>6, <1>7
<1>9. \A j \in 1..(N + 1) : j \in 1..N \/ j = N + 1
  OBVIOUS
<1>10. \A j \in 1..(N + 1) : id[t[j]] = v[j]
  BY <1>4, <1>5, <1>8, <1>9
<1>11. v = [j \in 1..(N + 1) |-> v[j]]
  BY <1>8
<1>12. Named(t) = [j \in 1..(N + 1) |-> id[t[j]]]
  BY <1>4 DEF Named
<1> QED
  BY <1>1, <1>2, <1>6, <1>10, <1>11, <1>12

\* The number of entries with another id among the first i.
LEMMA KeptAmong ==
  ASSUME PoolType, IsInjective(config), NEW p \in DOMAIN config, NEW i \in DOMAIN config
  PROVE  Cardinality({j \in 1..i : config[j] # config[p]}) = IF i < p THEN i ELSE i - 1
<1>1. PICK N \in Nat : DOMAIN config = 1..N
  BY DEF PoolType
<1>2. \A j \in 1..i : j \in 1..N /\ (config[j] = config[p] => j = p)
  BY <1>1 DEF IsInjective
<1>3. IsFiniteSet(1..i) /\ Cardinality(1..i) = i
  BY <1>1, FS_Interval
<1>4. CASE i < p
  <2>1. {j \in 1..i : config[j] # config[p]} = 1..i
    BY <1>1, <1>2, <1>4
  <2> QED
    BY <1>3, <1>4, <2>1
<1>5. CASE ~(i < p)
  <2>1. {j \in 1..i : config[j] # config[p]} = (1..i) \ {p}
    BY <1>2
  <2>2. p \in 1..i
    BY <1>1, <1>5
  <2>3. Cardinality((1..i) \ {p}) = i - 1
    BY <1>3, <2>2, FS_RemoveElement
  <2> QED
    BY <1>5, <2>1, <2>3
<1> QED
  BY <1>4, <1>5

\* With one entry for each id, deleteBackendConfig takes the one named out.
LEMMA CopyRemoves ==
  ASSUME PoolType, IsInjective(config), NEW p \in DOMAIN config, NEW n, config[p] = n,
         deleteBackendConfig(n)
  PROVE  config' = RemoveAt(config, p)
<1>1. PICK N \in Nat : N = Len(config) /\ DOMAIN config = 1..N /\ p \in 1..N
  <2>1. Len(config) \in Nat /\ DOMAIN config = 1..Len(config)
    BY DEF PoolType
  <2> QED
    BY <2>1
<1>2. PICK t : t = [k \in 1..(N - 1) |->
                     IF CopiedFrom(n, k) = {} THEN 0
                     ELSE config[CHOOSE i \in CopiedFrom(n, k) : TRUE]]
  OBVIOUS
<1>3. config' = t
  BY <1>1, <1>2 DEF deleteBackendConfig
<1>4. PICK v : v = RemoveAt(config, p)
  OBVIOUS
<1>5. /\ DOMAIN v = 1..(N - 1) /\ v = [k \in 1..(N - 1) |-> v[k]]
      /\ \A k \in 1..(N - 1) : v[k] = IF k < p THEN config[k] ELSE config[k + 1]
  <2>1. /\ v \in Seq(0..NumIds) /\ DOMAIN v = 1..(N - 1)
        /\ \A k \in 1..(N - 1) : v[k] = IF k < p THEN config[k] ELSE config[k + 1]
    BY <1>1, <1>4, Removed DEF PoolType
  <2> QED
    BY <2>1
<1>6. ASSUME NEW k \in 1..(N - 1)
      PROVE  t[k] = v[k]
  <2>1. PICK m \in 1..N : m = IF k < p THEN k ELSE k + 1
    BY <1>1
  <2>2. \A i \in 1..N : config[i] = n <=> i = p
    BY <1>1 DEF IsInjective
  <2>3. \A i \in 1..N : Cardinality({j \in 1..i : config[j] # n}) = IF i < p THEN i ELSE i - 1
    BY <1>1, KeptAmong
  <2>4. \A i : i \in CopiedFrom(n, k) <=> i \in 1..N /\ i # p /\ k = IF i < p THEN i ELSE i - 1
    BY <1>1, <2>2, <2>3 DEF CopiedFrom
  <2>5. \A i : i \in CopiedFrom(n, k) <=> i = m
    BY <1>1, <2>1, <2>4
  <2>6. CopiedFrom(n, k) = {m}
    BY <2>5
  <2>7. t[k] = config[m]
    BY <1>2, <2>6
  <2> QED
    BY <1>5, <2>1, <2>7
<1>7. t = v
  BY <1>2, <1>5, <1>6
<1> QED
  BY <1>3, <1>4, <1>7

\* An id that findIndex finds can be taken out, the others cannot be there.
LEMMA FoundNamed ==
  ASSUME Types, NEW s \in Seq(Backends), NEW n, IsInjective(Named(s))
  PROVE  LET i == findIndex(s, n) IN
         /\ i = 0 => n \notin ToSet(Named(s))
         /\ i > 0 => /\ i \in DOMAIN s /\ s[i] \in Backends /\ id[s[i]] = n
                     /\ n \in ToSet(Named(s))
                     /\ IsInjective(Named(RemoveAt(s, i)))
                     /\ ToSet(Named(RemoveAt(s, i))) = ToSet(Named(s)) \ {n}
                     /\ Len(RemoveAt(s, i)) = Len(s) - 1
<1>1. PICK i : i = findIndex(s, n)
  OBVIOUS
<1>2. DOMAIN Named(s) = DOMAIN s /\ \A j \in DOMAIN s : Named(s)[j] = id[s[j]]
  BY DEF Named
<1>3. i = 0 => n \notin ToSet(Named(s))
  <2>1. 0 \notin DOMAIN s
    OBVIOUS
  <2>2. i = 0 => \A j \in DOMAIN s : id[s[j]] # n
    BY <1>1, <2>1, Found
  <2> QED
    BY <1>2, <2>2 DEF ToSet
<1>4. ASSUME i > 0
      PROVE  /\ i \in DOMAIN s /\ s[i] \in Backends /\ id[s[i]] = n
             /\ n \in ToSet(Named(s))
             /\ IsInjective(Named(RemoveAt(s, i)))
             /\ ToSet(Named(RemoveAt(s, i))) = ToSet(Named(s)) \ {n}
             /\ Len(RemoveAt(s, i)) = Len(s) - 1
  <2>1. i \in DOMAIN s /\ s[i] \in Backends /\ id[s[i]] = n
    BY <1>1, <1>4, FoundBackend
  <2>2. n \in ToSet(Named(s)) /\ Named(s)[i] = n /\ i \in DOMAIN Named(s)
    BY <1>2, <2>1 DEF ToSet
  <2>3. Named(s) \in Seq(0..NumIds)
    BY NamedList
  <2>4. /\ IsInjective(RemoveAt(Named(s), i))
        /\ ToSet(RemoveAt(Named(s), i)) = ToSet(Named(s)) \ {n}
    BY <2>2, <2>3, RemovedApart
  <2>5. Named(RemoveAt(s, i)) = RemoveAt(Named(s), i)
    BY <2>1, NamedRemoved
  <2>6. Len(RemoveAt(s, i)) = Len(s) - 1
    BY <2>1, Removed
  <2> QED
    BY <2>1, <2>2, <2>4, <2>5, <2>6
<1> QED
  BY <1>1, <1>3, <1>4

\* A backend whose id is new can be added.
LEMMA AddedNamed ==
  ASSUME Types, NEW s \in Seq(Backends), NEW b \in Backends, IsInjective(Named(s)),
         id[b] \notin ToSet(Named(s))
  PROVE  /\ IsInjective(Named(Append(s, b)))
         /\ ToSet(Named(Append(s, b))) = ToSet(Named(s)) \cup {id[b]}
         /\ Len(Append(s, b)) = Len(s) + 1
<1>1. PICK S : S = 0..NumIds
  OBVIOUS
<1>2. id[b] \in S /\ Named(s) \in Seq(S)
  BY <1>1, NamedList DEF Types, PoolType
<1>3. /\ IsInjective(Append(Named(s), id[b]))
      /\ ToSet(Append(Named(s), id[b])) = ToSet(Named(s)) \cup {id[b]}
  BY <1>2, AppendedApart
<1>4. Len(Append(s, b)) = Len(s) + 1
  OBVIOUS
<1> QED
  BY <1>3, <1>4, NamedAppended

\* Deleting a backend deletes its id from the configuration.
LEMMA ConfigDeleted ==
  ASSUME Types, OneList, ConfigInv, NEW n,
         n \in ToSet(Named(backends)) \cup ToSet(Named(disabledBe))
  PROVE  /\ ~ConfigPanics(n)
         /\ deleteBackendConfig(n) => /\ IsInjective(config') /\ ToSet(config') = ToSet(config) \ {n}
                                      /\ Len(config') = Len(config) - 1
<1>1. Len(config) \in Nat /\ DOMAIN config = 1..Len(config) /\ config \in Seq(0..NumIds)
  BY DEF Types, PoolType
<1>2. PICK p \in 1..Len(config) : config[p] = n
  BY <1>1 DEF ConfigInv, ToSet
<1>3. \A b \in ToSet(backends) \cup ToSet(disabledBe) : id[b] # 0
  BY DEF OneList, Ids
<1>4. 0 \notin ToSet(config)
  <2>1. ASSUME NEW s, ToSet(s) \subseteq ToSet(backends) \cup ToSet(disabledBe)
        PROVE  0 \notin ToSet(Named(s))
    BY <1>3, <2>1 DEF ToSet, Named
  <2>2. 0 \notin ToSet(Named(backends)) /\ 0 \notin ToSet(Named(disabledBe))
    BY <2>1
  <2> QED
    BY <2>2 DEF ConfigInv
<1>5. ~ConfigPanics(n)
  BY <1>1, <1>2, <1>4 DEF ConfigPanics, Contains, ToSet
<1>6. ASSUME deleteBackendConfig(n)
      PROVE  /\ IsInjective(config') /\ ToSet(config') = ToSet(config) \ {n}
             /\ Len(config') = Len(config) - 1
  <2>1. p \in DOMAIN config /\ IsInjective(config) /\ PoolType
    BY <1>1 DEF ConfigInv, Types
  <2>2. config' = RemoveAt(config, p)
    BY <1>2, <1>6, <2>1, CopyRemoves
  <2> QED
    BY <1>1, <1>2, <2>1, <2>2, RemovedApart, Removed
<1> QED
  BY <1>5, <1>6

\* A backend added under a new id.
LEMMA AddConfig ==
  ASSUME Types, OneList, ConfigInv, NEW n \in Ids, NEW a, AddBackend(a, n), UniqueIds
  PROVE  ConfigInv'
<1>1. PICK c : c = created + 1 /\ c \in Backends /\ c \notin 1..created
  <2>1. created \in Nat /\ MaxBackends \in Nat
    BY PoolAssumption DEF Types, PoolType
  <2>2. created < MaxBackends
    BY DEF AddBackend
  <2> QED
    BY <2>1, <2>2 DEF Backends
<1>2. /\ backends' = Append(backends, c) /\ disabledBe' = disabledBe
      /\ id' = [id EXCEPT ![c] = n] /\ config' = Append(config, n)
  BY <1>1 DEF AddBackend
<1>3. n \notin ToSet(Named(backends)) /\ n \notin ToSet(Named(disabledBe))
  BY FoundNamed DEF AddBackend, ConfigInv, Types, PoolType
<1>4. id'[c] = n /\ \A b \in 1..created : id'[b] = id[b]
  BY <1>1, <1>2 DEF Types, PoolType
<1>5. Named(disabledBe)' = Named(disabledBe)
  <2>1. \A j \in DOMAIN disabledBe : disabledBe[j] \in 1..created
    BY DEF OneList, ToSet
  <2> QED
    BY <1>2, <1>4, <2>1 DEF Named
<1>6. Named(backends)' = Append(Named(backends), n)
  <2>1. \A j \in DOMAIN backends : backends[j] \in 1..created
    BY DEF OneList, ToSet
  <2>2. PICK N \in Nat : N = Len(backends) /\ DOMAIN backends = 1..N
    <3>1. Len(backends) \in Nat /\ DOMAIN backends = 1..Len(backends)
      BY DEF Types, PoolType
    <3> QED
      BY <3>1
  <2>3. PICK t : t = Append(backends, c)
    OBVIOUS
  <2>4. DOMAIN t = 1..(N + 1) /\ t[N + 1] = c /\ \A j \in 1..N : t[j] = backends[j]
    BY <1>1, <2>2, <2>3 DEF Types, PoolType
  <2>5. PICK u : u = Named(backends)
    OBVIOUS
  <2>6. u \in Seq(0..NumIds) /\ Len(u) = N /\ \A j \in 1..N : u[j] = id[backends[j]]
    BY <2>2, <2>5, NamedList DEF Named, Types, PoolType
  <2>7. PICK v : v = Append(u, n)
    OBVIOUS
  <2>8. /\ DOMAIN v = 1..(N + 1) /\ v[N + 1] = n /\ v = [j \in 1..(N + 1) |-> v[j]]
        /\ \A j \in 1..N : v[j] = u[j]
    <3>1. PICK S : S = 0..NumIds
      OBVIOUS
    <3>2. n \in S /\ u \in Seq(S) /\ Len(u) = N
      BY <2>6, <3>1, PoolAssumption DEF Ids
    <3>3. v \in Seq(S) /\ DOMAIN v = 1..(N + 1)
      BY <2>7, <3>2
    <3>4. v[N + 1] = n /\ \A j \in 1..N : v[j] = u[j]
      BY <2>7, <3>2
    <3> QED
      BY <3>3, <3>4
  <2>9. \A j \in 1..(N + 1) : j \in 1..N \/ j = N + 1
    OBVIOUS
  <2>10. \A j \in 1..(N + 1) : id'[t[j]] = v[j]
    BY <1>4, <2>1, <2>2, <2>4, <2>6, <2>8, <2>9, ZenonT(60)
  <2>11. Named(backends)' = [j \in 1..(N + 1) |-> id'[t[j]]]
    BY <1>2, <2>3, <2>4 DEF Named
  <2> QED
    BY <2>5, <2>7, <2>8, <2>10, <2>11
<1>7. PICK S : S = 0..NumIds
  OBVIOUS
<1>8. /\ n \in S /\ Named(backends) \in Seq(S) /\ config \in Seq(S)
      /\ IsInjective(Named(backends)) /\ IsInjective(config) /\ n \notin ToSet(config)
  <2>1. n \in S /\ Named(backends) \in Seq(S) /\ config \in Seq(S)
    BY <1>7, NamedList, PoolAssumption DEF Types, PoolType, Ids
  <2> QED
    BY <1>3, <2>1 DEF ConfigInv
<1>9. /\ IsInjective(Named(backends)') /\ ToSet(Named(backends)') = ToSet(Named(backends)) \cup {n}
      /\ IsInjective(config') /\ ToSet(config') = ToSet(config) \cup {n}
  BY <1>2, <1>3, <1>6, <1>8, AppendedApart
<1>10. Len(config') = Len(backends') + Len(disabledBe')
  <2>1. Len(config') = Len(config) + 1 /\ Len(backends') = Len(backends) + 1
    BY <1>1, <1>2, <1>8 DEF Types, PoolType
  <2>2. Len(backends) \in Nat /\ Len(disabledBe) \in Nat
    BY DEF Types, PoolType
  <2> QED
    BY <1>2, <2>1, <2>2 DEF ConfigInv
<1> QED
  BY <1>3, <1>5, <1>9, <1>10 DEF ConfigInv

\* The other edits move ids between the lists, or delete one everywhere.
LEMMA EditConfig ==
  ASSUME Types, OneList, ConfigInv, NEW n \in Ids,
         \/ DisableBackend(n) \/ EnableBackend(n) \/ DeleteDisabled(n) \/ DeleteEnabled(n)
         \/ ResetBackend(n)
  PROVE  ConfigInv'
<1>1. PICK i : i = findIndex(backends, n)
  OBVIOUS
<1>2. PICK j : j = findIndex(disabledBe, n)
  OBVIOUS
<1>3. UNCHANGED id
  BY DEF DisableBackend, EnableBackend, DeleteDisabled, DeleteEnabled, ResetBackend
<1>4. Named(backends)' = Named(backends') /\ Named(disabledBe)' = Named(disabledBe')
  BY <1>3 DEF Named
<1>5. i > 0 => /\ backends[i] \in Backends /\ id[backends[i]] = n
               /\ n \in ToSet(Named(backends))
               /\ IsInjective(Named(RemoveAt(backends, i)))
               /\ ToSet(Named(RemoveAt(backends, i))) = ToSet(Named(backends)) \ {n}
               /\ Len(RemoveAt(backends, i)) = Len(backends) - 1
  BY <1>1, FoundNamed DEF ConfigInv, Types, PoolType
<1>6. j > 0 => /\ disabledBe[j] \in Backends /\ id[disabledBe[j]] = n
               /\ n \in ToSet(Named(disabledBe))
               /\ IsInjective(Named(RemoveAt(disabledBe, j)))
               /\ ToSet(Named(RemoveAt(disabledBe, j))) = ToSet(Named(disabledBe)) \ {n}
               /\ Len(RemoveAt(disabledBe, j)) = Len(disabledBe) - 1
  BY <1>2, FoundNamed DEF ConfigInv, Types, PoolType
<1>7. Len(backends) \in Nat /\ Len(disabledBe) \in Nat /\ Len(config) \in Nat
  BY DEF Types, PoolType
<1>8. CASE DisableBackend(n)
  <2>1. /\ i > 0 /\ backends' = RemoveAt(backends, i)
        /\ disabledBe' = Append(disabledBe, backends[i]) /\ config' = config
    BY <1>1, <1>8 DEF DisableBackend
  <2>2. n \notin ToSet(Named(disabledBe))
    BY <1>5, <2>1 DEF ConfigInv
  <2>3. /\ IsInjective(Named(disabledBe'))
        /\ ToSet(Named(disabledBe')) = ToSet(Named(disabledBe)) \cup {n}
        /\ Len(disabledBe') = Len(disabledBe) + 1
    BY <1>5, <2>1, <2>2, AddedNamed DEF ConfigInv, Types, PoolType
  <2>4. Len(config') = Len(backends') + Len(disabledBe')
    BY <1>5, <1>7, <2>1, <2>3 DEF ConfigInv
  <2> QED
    BY <1>4, <1>5, <2>1, <2>2, <2>3, <2>4 DEF ConfigInv
<1>9. CASE EnableBackend(n)
  <2>1. /\ j > 0 /\ disabledBe' = RemoveAt(disabledBe, j)
        /\ backends' = Append(backends, disabledBe[j]) /\ config' = config
    BY <1>2, <1>9 DEF EnableBackend
  <2>2. n \notin ToSet(Named(backends))
    BY <1>6, <2>1 DEF ConfigInv
  <2>3. /\ IsInjective(Named(backends'))
        /\ ToSet(Named(backends')) = ToSet(Named(backends)) \cup {n}
        /\ Len(backends') = Len(backends) + 1
    BY <1>6, <2>1, <2>2, AddedNamed DEF ConfigInv, Types, PoolType
  <2>4. Len(config') = Len(backends') + Len(disabledBe')
    BY <1>6, <1>7, <2>1, <2>3 DEF ConfigInv
  <2> QED
    BY <1>4, <1>6, <2>1, <2>2, <2>3, <2>4 DEF ConfigInv
<1>10. CASE DeleteDisabled(n)
  <2>1. j > 0 /\ backends' = backends
    BY <1>2, <1>10 DEF DeleteDisabled
  <2>2. ~ConfigPanics(n) /\ n \notin ToSet(Named(backends))
    BY <1>6, <2>1, ConfigDeleted DEF ConfigInv
  <2>3. disabledBe' = RemoveAt(disabledBe, j) /\ deleteBackendConfig(n)
    BY <1>2, <1>10, <2>2 DEF DeleteDisabled
  <2>4. /\ IsInjective(config') /\ ToSet(config') = ToSet(config) \ {n}
        /\ Len(config') = Len(config) - 1
    BY <1>6, <2>1, <2>3, ConfigDeleted
  <2>5. Len(config') = Len(backends') + Len(disabledBe')
    BY <1>6, <1>7, <2>1, <2>3, <2>4 DEF ConfigInv
  <2> QED
    BY <1>4, <1>6, <2>1, <2>2, <2>3, <2>4, <2>5 DEF ConfigInv
<1>11. CASE DeleteEnabled(n)
  <2>1. i > 0 /\ backends' = RemoveAt(backends, i) /\ disabledBe' = disabledBe
    BY <1>1, <1>11 DEF DeleteEnabled
  <2>2. ~ConfigPanics(n) /\ n \notin ToSet(Named(disabledBe))
    BY <1>5, <2>1, ConfigDeleted DEF ConfigInv
  <2>3. deleteBackendConfig(n)
    BY <1>11, <2>2 DEF DeleteEnabled
  <2>4. /\ IsInjective(config') /\ ToSet(config') = ToSet(config) \ {n}
        /\ Len(config') = Len(config) - 1
    BY <1>5, <2>1, <2>3, ConfigDeleted
  <2>5. Len(config') = Len(backends') + Len(disabledBe')
    BY <1>5, <1>7, <2>1, <2>4 DEF ConfigInv
  <2> QED
    BY <1>4, <1>5, <2>1, <2>2, <2>4, <2>5 DEF ConfigInv
<1>12. CASE ResetBackend(n)
  BY <1>4, <1>12 DEF ResetBackend, ConfigInv
<1> QED
  BY <1>8, <1>9, <1>10, <1>11, <1>12

\* The configuration file has each id once.
LEMMA ConfigInit == Init => ConfigInv
<1> SUFFICES ASSUME Init PROVE ConfigInv
  OBVIOUS
<1>1. PICK N \in Nat : N = NumInitial
  BY PoolAssumption
<1>2. \A b \in 1..N : b \in Backends /\ id[b] = b
  BY <1>1, PoolAssumption DEF Init, Backends
<1>3. backends = [i \in 1..N |-> i] /\ config = [i \in 1..N |-> i]
  BY <1>1 DEF Init
<1>4. Named(backends) = [i \in 1..N |-> i]
  BY <1>2, <1>3 DEF Named
<1>5. Len(backends) = N /\ Len(config) = N
  BY <1>3
<1>6. disabledBe = <<>> /\ DOMAIN Named(disabledBe) = {} /\ Len(disabledBe) = 0
  BY DEF Init, Named
<1>7. ToSet(Named(disabledBe)) = {} /\ IsInjective(Named(disabledBe))
  BY <1>6 DEF ToSet, IsInjective
<1>8. IsInjective(config)
  BY <1>3 DEF IsInjective
<1> QED
  BY <1>3, <1>4, <1>5, <1>6, <1>7, <1>8 DEF ConfigInv

\* The whole pool, enabled backends first.
LEMMA WholePool ==
  ASSUME Types, ConfigInv
  PROVE  PoolMatchesConfig /\ IdsIdentify
<1>1. PICK N \in Nat : N = Len(backends) /\ DOMAIN backends = 1..N
  <2>1. Len(backends) \in Nat /\ DOMAIN backends = 1..Len(backends)
    BY DEF Types, PoolType
  <2> QED
    BY <2>1
<1>2. PICK M \in Nat : M = Len(disabledBe) /\ DOMAIN disabledBe = 1..M
  <2>1. Len(disabledBe) \in Nat /\ DOMAIN disabledBe = 1..Len(disabledBe)
    BY DEF Types, PoolType
  <2> QED
    BY <2>1
<1>3. PICK pool : pool = backends \o disabledBe
  OBVIOUS
<1>4. /\ Len(pool) = N + M /\ DOMAIN pool = 1..(N + M)
      /\ \A i \in 1..(N + M) : pool[i] = IF i <= N THEN backends[i] ELSE disabledBe[i - N]
  <2>1. /\ pool \in Seq(Backends) /\ Len(pool) = N + M
        /\ \A i \in 1..(N + M) : pool[i] = IF i <= N THEN backends[i] ELSE disabledBe[i - N]
    BY <1>1, <1>2, <1>3, ConcatProperties DEF Types, PoolType
  <2> QED
    BY <2>1
<1>5. PICK B, D : B = Named(backends) /\ D = Named(disabledBe)
  OBVIOUS
<1>6. /\ DOMAIN B = 1..N /\ \A i \in 1..N : B[i] = id[backends[i]]
      /\ DOMAIN D = 1..M /\ \A i \in 1..M : D[i] = id[disabledBe[i]]
  BY <1>1, <1>2, <1>5 DEF Named
<1>7. \A i \in 1..(N + M) : (i <= N => i \in 1..N) /\ (~(i <= N) => i - N \in 1..M)
  OBVIOUS
<1>8. \A i \in 1..(N + M) : id[pool[i]] = IF i <= N THEN B[i] ELSE D[i - N]
  BY <1>4, <1>6, <1>7
<1>9. {id[pool[i]] : i \in DOMAIN pool} = ToSet(B) \cup ToSet(D)
  <2>1. ASSUME NEW i \in 1..(N + M)
        PROVE  id[pool[i]] \in ToSet(B) \cup ToSet(D)
    BY <1>6, <1>7, <1>8 DEF ToSet
  <2>2. ASSUME NEW i \in 1..N
        PROVE  i \in 1..(N + M) /\ id[pool[i]] = B[i]
    BY <1>8
  <2>3. ASSUME NEW i \in 1..M
        PROVE  N + i \in 1..(N + M) /\ id[pool[N + i]] = D[i]
    <3>1. N + i \in 1..(N + M) /\ ~(N + i <= N) /\ (N + i) - N = i
      OBVIOUS
    <3> QED
      BY <1>8, <3>1
  <2>4. ASSUME NEW x \in ToSet(B) \cup ToSet(D)
        PROVE  \E i \in 1..(N + M) : x = id[pool[i]]
    <3>1. CASE x \in ToSet(B)
      BY <1>6, <2>2, <3>1 DEF ToSet
    <3>2. CASE x \in ToSet(D)
      BY <1>6, <2>3, <3>2 DEF ToSet
    <3> QED
      BY <3>1, <3>2
  <2> QED
    BY <1>4, <2>1, <2>4
<1>10. PoolMatchesConfig
  BY <1>1, <1>2, <1>3, <1>4, <1>5, <1>9 DEF PoolMatchesConfig, ConfigInv
<1>11. ASSUME NEW i \in 1..(N + M), NEW j \in 1..(N + M), id[pool[i]] = id[pool[j]]
       PROVE  i = j
  <2>1. CASE i <= N /\ j <= N
    BY <1>5, <1>6, <1>7, <1>8, <1>11, <2>1 DEF ConfigInv, IsInjective
  <2>2. CASE ~(i <= N) /\ ~(j <= N)
    <3>1. i - N \in 1..M /\ j - N \in 1..M /\ D[i - N] = D[j - N]
      BY <1>7, <1>8, <1>11, <2>2
    <3>2. i - N = j - N
      BY <1>5, <1>6, <3>1 DEF ConfigInv, IsInjective
    <3> QED
      BY <3>2
  <2>3. ASSUME NEW k \in 1..N, NEW m \in 1..M
        PROVE  B[k] # D[m]
    BY <1>5, <1>6 DEF ConfigInv, ToSet
  <2>4. CASE i <= N /\ ~(j <= N)
    BY <1>7, <1>8, <1>11, <2>3, <2>4
  <2>5. CASE ~(i <= N) /\ j <= N
    BY <1>7, <1>8, <1>11, <2>3, <2>5
  <2> QED
    BY <2>1, <2>2, <2>4, <2>5
<1>12. IdsIdentify
  BY <1>3, <1>4, <1>11 DEF IdsIdentify
<1> QED
  BY <1>10, <1>12

\* If no backend is added under an id that one of the pool has, given or made of its
\* URL, then every id keeps naming one backend, and pool and saved configuration stay
\* in step, whatever the order of the edits and whatever panics.
THEOREM ConfigKeepsStep ==
  ASSUME UniqueIds
  PROVE  Spec => [](PoolMatchesConfig /\ IdsIdentify)
<1>1. Init => Types /\ CountInv /\ OneList /\ ConfigInv
  BY InitTypes, InitCount, OneListInit, ConfigInit
<1>2. Types /\ CountInv /\ OneList /\ ConfigInv /\ [Next]_vars
        => (Types /\ CountInv /\ OneList /\ ConfigInv)'
  <2> SUFFICES ASSUME Types, CountInv, OneList, ConfigInv, [Next]_vars
               PROVE  OneList' /\ ConfigInv'
    BY TypeStep, CountStep
  <2>1. CASE UNCHANGED <<backends, disabledBe, config, created, id, url>>
    BY <2>1 DEF OneList, ConfigInv, Named
  <2>2. CASE Admin
    <3>1. OneList'
      BY <2>2, OneListEdit
    <3>2. ConfigInv'
      BY <2>2, EditHasId, AddConfig, EditConfig
    <3> QED
      BY <3>1, <3>2
  <2> QED
    BY <2>1, <2>2, ListsStay
<1>3. Types /\ ConfigInv => PoolMatchesConfig /\ IdsIdentify
  BY WholePool
<1> QED
  BY <1>1, <1>2, <1>3, PTL DEF Spec

=============================================================================
