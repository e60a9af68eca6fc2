----------------------------- MODULE DialProofs ------------------------------
(***************************************************************************)
(* Proofs about the dials of BackendPool: the index is protected, and in a  *)
(* pool that nobody edits meanwhile every dial goes round the whole of it,  *)
(* none panics, and the backends are tried first in turn.                   *)
(***************************************************************************)
EXTENDS AdminProofs

-----------------------------------------------------------------------------
(* Going round a list of n entries.                                         *)

\* What remains of a number is smaller than n.
LEMMA Division ==
  ASSUME NEW a \in Nat, NEW n \in Nat, n > 0
  PROVE  \E p \in Nat, u \in 0..(n - 1) : a = n * p + u /\ u = a % n
<1>1. a = n * (a \div n) + (a % n) /\ a \div n \in Nat
  OBVIOUS
<1>2. a % n \in 0..(n - 1)
  BY Remainder
<1> QED
  BY <1>1, <1>2

\* A multiple of n between -n and n is 0.
LEMMA NoMultiple ==
  ASSUME NEW n \in Nat, n > 0, NEW q \in Int, n * q < n, n * q > -n
  PROVE  q = 0
<1>1. CASE q >= 1
  <2>1. n * q >= n
    BY <1>1
  <2> QED
    BY <2>1
<1>2. CASE q <= -1
  <2>1. n * q <= -n
    BY <1>2
  <2> QED
    BY <2>1
<1> QED
  BY <1>1, <1>2

\* There is one way to divide.
LEMMA OneRemainder ==
  ASSUME NEW n \in Nat, n > 0, NEW q \in Nat, NEW t \in 0..(n - 1)
  PROVE  (n * q + t) % n = t
<1>1. PICK a \in Nat : a = n * q + t
  OBVIOUS
<1>2. PICK p \in Nat, u \in 0..(n - 1) : a = n * p + u /\ u = a % n
  BY Division
<1>3. n * (p - q) = t - u
  BY <1>1, <1>2
<1>4. p - q = 0
  BY <1>3, NoMultiple
<1>5. p = q
  BY <1>4
<1>6. n * p = n * q
  BY <1>5
<1>7. u = t
  BY <1>1, <1>2, <1>6
<1> QED
  BY <1>1, <1>2, <1>7

\* b steps further round.
LEMMA Round ==
  ASSUME NEW a \in Nat, NEW n \in Nat, n > 0, NEW b \in 0..(n - 1)
  PROVE  (a + b) % n = IF (a % n) + b < n THEN (a % n) + b ELSE (a % n) + b - n
<1>1. PICK p \in Nat, u \in 0..(n - 1) : a = n * p + u /\ u = a % n
  BY Division
<1>2. CASE u + b < n
  <2>1. u + b \in 0..(n - 1) /\ a + b = n * p + (u + b)
    BY <1>1, <1>2
  <2>2. (n * p + (u + b)) % n = u + b
    BY <2>1, OneRemainder
  <2> QED
    BY <1>1, <1>2, <2>1, <2>2
<1>3. CASE ~(u + b < n)
  <2>1. PICK v \in 0..(n - 1) : v = u + b - n
    BY <1>1, <1>3
  <2>2. PICK q \in Nat : q = p + 1
    OBVIOUS
  <2>3. n * q = n * p + n
    BY <2>2
  <2>4. a + b = n * q + v
    BY <1>1, <2>1, <2>3
  <2>5. (n * q + v) % n = v
    BY OneRemainder
  <2> QED
    BY <1>1, <1>3, <2>1, <2>4, <2>5
<1> QED
  BY <1>2, <1>3

\* n steps lead to every entry, and to each of them once.
LEMMA WholeRound ==
  ASSUME NEW a \in Nat, NEW n \in Nat, n > 0
  PROVE  /\ \A i \in 0..(n - 1) : \E b \in 0..(n - 1) : (a + b) % n = i
         /\ \A b, c \in 0..(n - 1) : (a + b) % n = (a + c) % n => b = c
<1>1. PICK u \in 0..(n - 1) : u = a % n
  BY Remainder
<1>2. \A b \in 0..(n - 1) : (a + b) % n = IF u + b < n THEN u + b ELSE u + b - n
  BY <1>1, Round
<1>3. ASSUME NEW i \in 0..(n - 1)
      PROVE  \E b \in 0..(n - 1) : (a + b) % n = i
  <2>1. PICK b \in 0..(n - 1) : b = IF i >= u THEN i - u ELSE i - u + n
    OBVIOUS
  <2>2. i = IF u + b < n THEN u + b ELSE u + b - n
    BY <2>1
  <2> QED
    BY <1>2, <2>2
<1>4. ASSUME NEW b \in 0..(n - 1), NEW c \in 0..(n - 1), (a + b) % n = (a + c) % n
      PROVE  b = c
  <2>1. (IF u + b < n THEN u + b ELSE u + b - n) = (IF u + c < n THEN u + c ELSE u + c - n)
    BY <1>2, <1>4
  <2> QED
    BY <2>1
<1> QED
  BY <1>3, <1>4

\* After turn m, f counts how often each of n entries was first: none of them once
\* more than another, and those that were last are the first to have more.
Even(f, n, m) ==
  \E k \in Nat, t \in 0..(n - 1) :
    \A a \in 0..(n - 1) : f[(m + a) % n] = IF a + t >= n THEN k + 1 ELSE k

\* The next turn keeps that.
LEMMA NextTurnEven ==
  ASSUME NEW n \in Nat, n > 0, NEW m \in Nat, NEW f, NEW g, Even(f, n, m),
         g[m % n] = f[m % n] + 1,
         \A i \in 0..(n - 1) : i # m % n => g[i] = f[i]
  PROVE  Even(g, n, m + 1)
<1>1. PICK k \in Nat, t \in 0..(n - 1) :
        \A a \in 0..(n - 1) : f[(m + a) % n] = IF a + t >= n THEN k + 1 ELSE k
  BY DEF Even
<1>2. (m + 0) % n = m % n /\ 0 \in 0..(n - 1)
  OBVIOUS
<1>3. g[m % n] = k + 1
  BY <1>1, <1>2
<1>4. ASSUME NEW a \in 0..(n - 1), a # 0
      PROVE  g[(m + a) % n] = IF a + t >= n THEN k + 1 ELSE k
  <2>1. (m + a) % n # m % n
    <3>1. 0 \in 0..(n - 1) /\ m + 0 = m
      OBVIOUS
    <3>2. (m + a) % n = (m + 0) % n => a = 0
      BY <3>1, WholeRound
    <3> QED
      BY <1>4, <3>1, <3>2
  <2>2. (m + a) % n \in 0..(n - 1)
    BY Remainder
  <2> QED
    BY <1>1, <2>1, <2>2
<1>5. ASSUME NEW b \in 0..(n - 1), b < n - 1
      PROVE  g[((m + 1) + b) % n] = IF b + 1 + t >= n THEN k + 1 ELSE k
  <2>1. PICK a \in 0..(n - 1) : a = b + 1 /\ a # 0 /\ m + a = (m + 1) + b
    BY <1>5
  <2> QED
    BY <1>4, <2>1
<1>6. g[((m + 1) + (n - 1)) % n] = k + 1
  <2>1. PICK p \in Nat, u \in 0..(n - 1) : m = n * p + u /\ u = m % n
    BY Division
  <2>2. PICK q \in Nat : q = p + 1
    OBVIOUS
  <2>3. n * q = n * p + n
    BY <2>2
  <2>4. (m + 1) + (n - 1) = n * q + u
    BY <2>1, <2>3
  <2>5. (n * q + u) % n = u
    BY OneRemainder
  <2> QED
    BY <1>3, <2>1, <2>4, <2>5
<1>7. \A b \in 0..(n - 1) : b < n - 1 \/ b = n - 1
  OBVIOUS
<1>8. CASE t + 1 < n
  <2>1. PICK s \in 0..(n - 1) : s = t + 1
    BY <1>8
  <2>2. \A b \in 0..(n - 1) : g[((m + 1) + b) % n] = IF b + s >= n THEN k + 1 ELSE k
    <3>1. ASSUME NEW b \in 0..(n - 1), b < n - 1
          PROVE  g[((m + 1) + b) % n] = IF b + s >= n THEN k + 1 ELSE k
      BY <1>5, <2>1, <3>1
    <3>2. ASSUME NEW b \in 0..(n - 1), b = n - 1
          PROVE  g[((m + 1) + b) % n] = IF b + s >= n THEN k + 1 ELSE k
      BY <1>6, <2>1, <3>2
    <3> QED
      BY <1>7, <3>1, <3>2
  <2> QED
    BY <2>2 DEF Even
<1>9. CASE ~(t + 1 < n)
  <2>1. PICK h \in Nat : h = k + 1
    OBVIOUS
  <2>2. PICK s \in 0..(n - 1) : s = 0
    OBVIOUS
  <2>3. \A b \in 0..(n - 1) : g[((m + 1) + b) % n] = IF b + s >= n THEN h + 1 ELSE h
    <3>1. ASSUME NEW b \in 0..(n - 1), b < n - 1
          PROVE  g[((m + 1) + b) % n] = IF b + s >= n THEN h + 1 ELSE h
      BY <1>5, <1>9, <2>1, <2>2, <3>1
    <3>2. ASSUME NEW b \in 0..(n - 1), b = n - 1
          PROVE  g[((m + 1) + b) % n] = IF b + s >= n THEN h + 1 ELSE h
      BY <1>6, <2>1, <2>2, <3>2
    <3> QED
      BY <1>7, <3>1, <3>2
  <2> QED
    BY <2>3 DEF Even
<1> QED
  BY <1>8, <1>9

\* Counts that are even in that sense differ by one at most.
LEMMA EvenIsFair ==
  ASSUME NEW n \in Nat, n > 0, NEW m \in Nat, NEW f, Even(f, n, m)
  PROVE  \A i, j \in 0..(n - 1) : f[i] \in Nat /\ f[j] \in Nat /\ f[i] <= f[j] + 1
<1> SUFFICES ASSUME NEW i \in 0..(n - 1), NEW j \in 0..(n - 1)
             PROVE  f[i] \in Nat /\ f[j] \in Nat /\ f[i] <= f[j] + 1
  OBVIOUS
<1>1. PICK k \in Nat, t \in 0..(n - 1) :
        \A a \in 0..(n - 1) : f[(m + a) % n] = IF a + t >= n THEN k + 1 ELSE k
  BY DEF Even
<1>2. PICK a \in 0..(n - 1) : (m + a) % n = i
  BY WholeRound, ZenonT(60)
<1>3. PICK b \in 0..(n - 1) : (m + b) % n = j
  BY WholeRound
<1>4. f[i] \in {k, k + 1} /\ f[j] \in {k, k + 1}
  BY <1>1, <1>2, <1>3
<1> QED
  BY <1>4

-----------------------------------------------------------------------------
(* What is true of the dials.                                               *)

\* Only one dial builds its list, and it holds the lock.
LockInv ==
  /\ \A d \in Dialers : dpc[d] = "idle" => idx[d] = 0
  /\ \A d \in Dialers : dpc[d] = "build" => nxtIdxLock
  /\ \A d, e \in Dialers : dpc[d] = "build" /\ dpc[e] = "build" => d = e

\* The backend tried first by the dial with number i.
Turn(i) == backends[(i % Len(backends)) + 1]

\* Without an edit, what a list holds so far are the backends in turn, and in the
\* end all of them.
Building(d) ==
  /\ Len(bkList[d]) = Len(backends) /\ idx[d] <= Len(backends)
  /\ \A i \in 1..idx[d] : bkList[d][i] = Turn(nextBackendIdx + (i - 1))

Built(d) ==
  /\ Len(bkList[d]) = Len(backends) /\ idx[d] <= Len(backends)
  /\ ToSet(bkList[d]) = ToSet(backends)

CalmInv ==
  calm => \A d \in Dialers :
            /\ dpc[d] # "panicked"
            /\ dpc[d] = "build" => Building(d)
            /\ dpc[d] \notin {"idle", "build"} => Built(d)
            /\ dpc[d] = "exhausted" => idx[d] = Len(backends)

\* The number of the next dial to complete its list.
NextTurn == IF \E d \in Dialers : dpc[d] = "build" THEN nextBackendIdx ELSE nextBackendIdx + 1

\* How often each backend was tried first.
Shares == [i \in 0..(Len(backends) - 1) |-> Cardinality(Led(backends[i + 1]))]

EvenInv == calm /\ Len(backends) > 0 => Even(Shares, Len(backends), NextTurn)

\* A step of one dial, or of its connection.
DialStep(d) == DialRuns(d) \/ ConStart(d) \/ notifyBackend(d) \/ UpgradeFails(d) \/ ConEnds(d)

\* It leaves the pool and the other dials alone.
LEMMA OwnDial ==
  ASSUME Types, NEW d \in Dialers, DialStep(d)
  PROVE  /\ UNCHANGED <<backends, calm>>
         /\ \A e \in Dialers \ {d} : dpc'[e] = dpc[e] /\ idx'[e] = idx[e] /\ bkList'[e] = bkList[e]
<1>1. UNCHANGED <<backends, calm>>
  BY DEF DialStep, DialRuns, DialLock, DialPick, DialOverruns, DialUnlock, DialNext,
         DialExhausted, DialSucceeds, DialHollow, DialFails, DialDeclined, ConStart,
         notifyBackend, UpgradeFails, ConEnds, ConGoto, poolVars, editVars
<1>2. dpc' = dpc \/ \E pc : dpc' = [dpc EXCEPT ![d] = pc]
  BY DEF DialStep, DialRuns, DialLock, DialPick, DialOverruns, DialUnlock, DialNext,
         DialExhausted, DialSucceeds, DialHollow, DialFails, DialDeclined, ConStart,
         notifyBackend, UpgradeFails, ConEnds, ConGoto, DialGoto
<1>3. idx' = idx \/ \E i : idx' = [idx EXCEPT ![d] = i]
  BY DEF DialStep, DialRuns, DialLock, DialPick, DialOverruns, DialUnlock, DialNext,
         DialExhausted, DialSucceeds, DialHollow, DialFails, DialDeclined, ConStart,
         notifyBackend, UpgradeFails, ConEnds, ConGoto
<1>4. bkList' = bkList \/ \E l : bkList' = [bkList EXCEPT ![d] = l]
  BY DEF DialStep, DialRuns, DialLock, DialPick, DialOverruns, DialUnlock, DialNext,
         DialExhausted, DialSucceeds, DialHollow, DialFails, DialDeclined, ConStart,
         notifyBackend, UpgradeFails, ConEnds, ConGoto
<1> QED
  BY <1>1, <1>2, <1>3, <1>4 DEF Types, DialType

\* Once its list is complete, a dial keeps it to the end.
Later(d) ==
  /\ dpc[d] \notin {"idle", "build"} /\ dpc'[d] \notin {"idle", "build"}
  /\ UNCHANGED <<nextBackendIdx, nxtIdxLock, bkList>>

\* Those are the steps of a dial that builds no list.
LEMMA LaterSteps ==
  ASSUME Types, NEW d \in Dialers, DialStep(d)
  PROVE  DialLock(d) \/ DialPick(d) \/ DialOverruns(d) \/ DialUnlock(d) \/ Later(d)
<1>1. CASE \/ DialNext(d) \/ DialExhausted(d) \/ DialSucceeds(d) \/ DialHollow(d)
           \/ DialFails(d) \/ DialDeclined(d)
  <2>1. /\ dpc[d] \in {"next", "dialling"} /\ UNCHANGED <<nextBackendIdx, nxtIdxLock, bkList>>
        /\ \E pc \in {"next", "dialling", "connected", "hollow", "exhausted", "declined",
                       "panicked"} : dpc' = [dpc EXCEPT ![d] = pc]
    BY <1>1 DEF DialNext, DialExhausted, DialSucceeds, DialHollow, DialFails, DialDeclined,
                DialGoto, poolVars
  <2> QED
    BY <2>1 DEF Later, Types, DialType
<1>2. CASE ConStart(d) \/ notifyBackend(d) \/ UpgradeFails(d) \/ ConEnds(d)
  <2>1. /\ dpc[d] \in {"connected", "started", "closing"}
        /\ UNCHANGED <<nextBackendIdx, nxtIdxLock, bkList>>
        /\ \E pc \in {"started", "closed", "refused", "closing"} : dpc' = [dpc EXCEPT ![d] = pc]
    BY <1>2 DEF ConStart, notifyBackend, UpgradeFails, ConEnds, ConGoto, DialGoto, poolVars
  <2> QED
    BY <2>1 DEF Later, Types, DialType
<1> QED
  BY <1>1, <1>2 DEF DialStep, DialRuns

\* The index has one user at a time.
LEMMA LockStep ==
  ASSUME Types, LockInv, NEW d \in Dialers, DialStep(d)
  PROVE  LockInv'
<1>1. \A e \in Dialers \ {d} : dpc'[e] = dpc[e] /\ idx'[e] = idx[e]
  BY OwnDial
<1>2. CASE DialLock(d)
  <2>1. ~nxtIdxLock /\ nxtIdxLock' /\ dpc'[d] = "build"
    BY <1>2 DEF DialLock, DialGoto, Types, DialType
  <2> QED
    BY <1>1, <2>1 DEF LockInv
<1>3. CASE DialPick(d)
  <2>1. UNCHANGED <<dpc, nxtIdxLock>> /\ dpc[d] = "build"
    BY <1>3 DEF DialPick, poolVars
  <2> QED
    BY <1>1, <2>1 DEF LockInv
<1>4. CASE DialOverruns(d) \/ DialUnlock(d)
  <2>1. dpc[d] = "build" /\ dpc'[d] \in {"panicked", "next"}
    BY <1>4 DEF DialOverruns, DialUnlock, DialGoto, Types, DialType
  <2>2. \A e \in Dialers : dpc'[e] # "build"
    BY <1>1, <2>1 DEF LockInv
  <2> QED
    BY <1>1, <2>1, <2>2 DEF LockInv
<1>5. CASE Later(d)
  BY <1>1, <1>5 DEF Later, LockInv
<1> QED
  BY <1>2, <1>3, <1>4, <1>5, LaterSteps

\* What CalmInv says of one dial.
CalmDial(d) ==
  /\ dpc[d] # "panicked"
  /\ dpc[d] = "build" => Building(d)
  /\ dpc[d] \notin {"idle", "build"} => Built(d)
  /\ dpc[d] = "exhausted" => idx[d] = Len(backends)

\* CalmInv says it of every one.
LEMMA CalmDials == CalmInv <=> (calm => \A d \in Dialers : CalmDial(d))
BY DEF CalmInv, CalmDial

\* The lock keeps the index as it is while another dial builds its list.
LEMMA OthersCalm ==
  ASSUME Types, LockInv, NEW d \in Dialers, DialStep(d), NEW e \in Dialers \ {d}, CalmDial(e)
  PROVE  CalmDial(e)'
<1>1. UNCHANGED backends /\ dpc'[e] = dpc[e] /\ idx'[e] = idx[e] /\ bkList'[e] = bkList[e]
  BY OwnDial
<1>2. dpc[e] = "build" => nextBackendIdx' = nextBackendIdx
  <2>1. DialLock(d) => ~nxtIdxLock
    BY DEF DialLock
  <2>2. ~DialLock(d) => nextBackendIdx' = nextBackendIdx
    BY LaterSteps DEF DialPick, DialOverruns, DialUnlock, Later, poolVars
  <2> QED
    BY <2>1, <2>2 DEF LockInv
<1>3. dpc[e] = "build" => Building(e)'
  BY <1>1, <1>2 DEF CalmDial, Building, Turn
<1>4. Built(e) => Built(e)'
  BY <1>1 DEF Built
<1> QED
  BY <1>1, <1>3, <1>4 DEF CalmDial

\* The list that a dial has gone through holds every backend.
LEMMA RoundIsBuilt ==
  ASSUME Types, NEW d \in Dialers, Building(d), idx[d] = Len(backends)
  PROVE  ToSet(bkList[d]) = ToSet(backends)
<1>1. PICK n \in Nat : n = Len(backends) /\ DOMAIN backends = 1..n
  <2>1. Len(backends) \in Nat /\ DOMAIN backends = 1..Len(backends)
    BY DEF Types, PoolType
  <2> QED
    BY <2>1
<1>2. PICK s : s = bkList[d]
  OBVIOUS
<1>3. PICK m \in Nat : m = nextBackendIdx
  BY DEF Types, PoolType
<1>4. DOMAIN s = 1..n
  <2>1. s \in Seq(0..MaxBackends) /\ Len(s) = n
    BY <1>1, <1>2 DEF Types, DialType, Building
  <2> QED
    BY <2>1
<1>5. \A i \in 1..n : s[i] = backends[((m + (i - 1)) % n) + 1]
  BY <1>1, <1>2, <1>3 DEF Building, Turn
<1>6. ASSUME NEW x \in ToSet(s)
      PROVE  x \in ToSet(backends)
  <2>1. PICK i \in 1..n : x = s[i]
    BY <1>4, <1>6 DEF ToSet
  <2>2. PICK r \in 0..(n - 1) : r = (m + (i - 1)) % n
    <3>1. m + (i - 1) \in Nat /\ n > 0
      OBVIOUS
    <3> QED
      BY <3>1, Remainder
  <2>3. r + 1 \in 1..n /\ x = backends[r + 1]
    BY <1>5, <2>1, <2>2
  <2> QED
    BY <1>1, <2>3 DEF ToSet
<1>7. ASSUME NEW x \in ToSet(backends)
      PROVE  x \in ToSet(s)
  <2>1. PICK j \in 1..n : x = backends[j]
    BY <1>1, <1>7 DEF ToSet
  <2>2. PICK b \in 0..(n - 1) : (m + b) % n = j - 1
    <3>1. j - 1 \in 0..(n - 1) /\ n > 0
      OBVIOUS
    <3> QED
      BY <3>1, WholeRound
  <2>3. PICK i \in 1..n : i = b + 1 /\ i - 1 = b
    OBVIOUS
  <2>4. s[i] = backends[(j - 1) + 1]
    BY <1>5, <2>2, <2>3
  <2> QED
    BY <1>4, <2>1, <2>3, <2>4 DEF ToSet
<1> QED
  BY <1>2, <1>6, <1>7

\* A dial starts with an empty part of its list, ...
LEMMA LockCalm ==
  ASSUME Types, LockInv, NEW d \in Dialers, DialLock(d)
  PROVE  CalmDial(d)'
<1>1. PICK n \in Nat : n = Len(backends)
  BY DEF Types, PoolType
<1>2. PICK t : t = [i \in 1..n |-> 0]
  OBVIOUS
<1>3. Len(t) = n
  BY <1>2
<1>4. /\ dpc'[d] = "build" /\ bkList'[d] = t /\ idx'[d] = 0 /\ backends' = backends
  BY <1>1, <1>2 DEF DialLock, DialGoto, LockInv, Types, DialType
<1>5. \A i : i \notin 1..0
  OBVIOUS
<1> QED
  BY <1>1, <1>3, <1>4, <1>5 DEF CalmDial, Building

\* ... puts the backends into it in turn, ...
LEMMA PickCalm ==
  ASSUME Types, NEW d \in Dialers, CalmDial(d), DialPick(d)
  PROVE  CalmDial(d)'
<1>1. Building(d) /\ dpc[d] = "build" /\ idx[d] < Len(backends)
  BY DEF CalmDial, DialPick
<1>2. PICK n \in Nat, k \in Nat, s \in Seq(0..MaxBackends) :
        n = Len(backends) /\ k = idx[d] /\ s = bkList[d]
  BY DEF Types, PoolType, DialType
<1>3. k < n /\ Len(s) = n /\ DOMAIN s = 1..n /\ k + 1 \in 1..n
  BY <1>1, <1>2 DEF Building
<1>4. PICK e : e = Turn(nextBackendIdx + k)
  OBVIOUS
<1>5. bkList'[d] = [s EXCEPT ![k + 1] = e]
  <2>1. bkList' = [bkList EXCEPT ![d] = [s EXCEPT ![k + 1] = e]]
    BY <1>2, <1>4 DEF DialPick, Turn
  <2> QED
    BY <2>1 DEF Types, DialType
<1>6. /\ UNCHANGED <<backends, nextBackendIdx, dpc>> /\ idx'[d] = k + 1
  BY <1>2 DEF DialPick, poolVars, Types, DialType
<1>7. PICK u : u = [s EXCEPT ![k + 1] = e]
  OBVIOUS
<1>8. /\ DOMAIN u = 1..n /\ u[k + 1] = e /\ \A i \in 1..k : u[i] = s[i]
  BY <1>3, <1>7
<1>9. Len(u) = n
  BY <1>8
<1>10. \A i \in 1..(k + 1) : u[i] = Turn(nextBackendIdx + (i - 1))
  <2>1. \A i \in 1..k : s[i] = Turn(nextBackendIdx + (i - 1))
    BY <1>1, <1>2 DEF Building
  <2>2. \A i \in 1..(k + 1) : i \in 1..k \/ (i = k + 1 /\ i - 1 = k)
    OBVIOUS
  <2> QED
    BY <1>4, <1>8, <2>1, <2>2
<1>11. Building(d)'
  <2>1. \A i : Turn(i)' = backends[(i % Len(backends)) + 1]
    BY <1>6 DEF Turn
  <2>2. k + 1 <= n
    BY <1>3
  <2> QED
    BY <1>2, <1>5, <1>6, <1>7, <1>9, <1>10, <2>1, <2>2 DEF Building, Turn
<1> QED
  BY <1>1, <1>6, <1>11 DEF CalmDial

\* ... leaves when it is full, ...
LEMMA UnlockCalm ==
  ASSUME Types, NEW d \in Dialers, CalmDial(d), DialUnlock(d)
  PROVE  CalmDial(d)' /\ ToSet(bkList[d]) = ToSet(backends) /\ idx[d] = Len(backends)
<1>1. Building(d) /\ idx[d] >= Len(backends)
  BY DEF CalmDial, DialUnlock
<1>2. Len(backends) \in Nat /\ idx[d] \in Nat
  BY DEF Types, PoolType, DialType
<1>3. idx[d] = Len(backends)
  BY <1>1, <1>2 DEF Building
<1>4. ToSet(bkList[d]) = ToSet(backends)
  BY <1>1, <1>3, RoundIsBuilt
<1>5. dpc'[d] = "next" /\ idx'[d] = 0 /\ UNCHANGED <<backends, bkList>>
  BY DEF DialUnlock, DialGoto, Types, DialType
<1> QED
  BY <1>1, <1>2, <1>3, <1>4, <1>5 DEF CalmDial, Built, Building

\* ... and finds backends only in it.
LEMMA LaterCalm ==
  ASSUME Types, OneList, NEW d \in Dialers, CalmDial(d), DialStep(d), Later(d)
  PROVE  CalmDial(d)'
<1>1. Built(d) /\ UNCHANGED <<backends, bkList>>
  BY OwnDial DEF Later, CalmDial
<1>2. PICK n \in Nat, k \in Nat : n = Len(backends) /\ k = idx[d] /\ k <= n
  BY <1>1 DEF Built, Types, PoolType, DialType
<1>3. /\ idx'[d] \in Nat /\ idx'[d] <= n /\ dpc'[d] # "panicked"
      /\ dpc'[d] = "exhausted" => idx'[d] = n
  <2>1. CASE DialNext(d)
    <3>1. k < n
      BY <1>1, <1>2, <2>1 DEF DialNext, Built
    <3>2. bkList[d][k + 1] # 0
      <4>1. k + 1 \in DOMAIN bkList[d]
        BY <1>1, <1>2, <3>1 DEF Built, Types, DialType
      <4>2. bkList[d][k + 1] \in ToSet(backends)
        BY <1>1, <4>1 DEF Built, ToSet
      <4> QED
        BY <4>2 DEF OneList
    <3>3. idx'[d] = k + 1 /\ dpc'[d] \in {"dialling", "next"}
      BY <1>2, <2>1, <3>2 DEF DialNext, DialGoto, Types, DialType
    <3> QED
      BY <3>1, <3>3
  <2>2. CASE DialExhausted(d)
    <3>1. k >= n
      BY <1>1, <1>2, <2>2 DEF DialExhausted, Built
    <3>2. idx'[d] = k /\ dpc'[d] = "exhausted"
      BY <1>2, <2>2 DEF DialExhausted, DialGoto, Types, DialType
    <3> QED
      BY <1>2, <3>1, <3>2
  <2>3. CASE DialSucceeds(d) \/ DialHollow(d) \/ DialFails(d) \/ DialDeclined(d)
    <3>1. idx'[d] = k /\ dpc'[d] \in {"connected", "hollow", "next", "declined"}
      BY <1>2, <2>3 DEF DialSucceeds, DialHollow, DialFails, DialDeclined, DialGoto, Types,
                        DialType
    <3> QED
      BY <1>2, <3>1
  <2>4. CASE ConStart(d) \/ notifyBackend(d) \/ UpgradeFails(d) \/ ConEnds(d)
    <3>1. idx'[d] = k /\ dpc'[d] \in {"started", "closed", "refused", "closing"}
      BY <1>2, <2>4 DEF ConStart, notifyBackend, UpgradeFails, ConEnds, ConGoto, DialGoto,
                        Types, DialType
    <3> QED
      BY <1>2, <3>1
  <2>5. CASE DialLock(d) \/ DialPick(d) \/ DialOverruns(d) \/ DialUnlock(d)
    BY <2>5 DEF DialLock, DialPick, DialOverruns, DialUnlock, Later
  <2> QED
    BY <2>1, <2>2, <2>3, <2>4, <2>5 DEF DialStep, DialRuns
<1> QED
  BY <1>1, <1>2, <1>3 DEF CalmDial, Built, Later

\* So a dial that no edit disturbs keeps its part of CalmInv.
LEMMA CalmStep ==
  ASSUME Types, OneList, LockInv, CalmInv, NEW d \in Dialers, DialStep(d)
  PROVE  CalmInv'
<1> SUFFICES ASSUME calm' PROVE \A e \in Dialers : CalmDial(e)'
  BY DEF CalmInv, CalmDial
<1>1. \A e \in Dialers : CalmDial(e)
  BY OwnDial, CalmDials
<1>2. CalmDial(d)'
  <2>1. CASE DialLock(d)
    BY <2>1, LockCalm
  <2>2. CASE DialPick(d)
    BY <1>1, <2>2, PickCalm
  <2>3. CASE DialOverruns(d)
    <3>1. Building(d) /\ idx[d] \in Nat /\ Len(backends) \in Nat
      BY <1>1, <2>3 DEF CalmDial, DialOverruns, Types, PoolType, DialType
    <3> QED
      BY <2>3, <3>1 DEF DialOverruns, Building
  <2>4. CASE DialUnlock(d)
    BY <1>1, <2>4, UnlockCalm
  <2>5. CASE Later(d)
    BY <1>1, <2>5, LaterCalm
  <2> QED
    BY <2>1, <2>2, <2>3, <2>4, <2>5, LaterSteps
<1> QED
  BY <1>1, <1>2, OthersCalm

\* The shares can be counted.
LEMMA LedFinite == \A b : IsFiniteSet(Led(b)) /\ Cardinality(Led(b)) \in Nat
<1> SUFFICES ASSUME NEW b PROVE IsFiniteSet(Led(b)) /\ Cardinality(Led(b)) \in Nat
  OBVIOUS
<1>1. Led(b) \in SUBSET Dialers /\ IsFiniteSet(Dialers)
  BY PoolAssumption DEF Led
<1>2. IsFiniteSet(Led(b))
  BY <1>1, FS_Subset
<1> QED
  BY <1>2, FS_CardinalityType

\* A step that completes no list changes no share.
LEMMA SameShares ==
  ASSUME EvenInv, UNCHANGED <<calm, backends>>, calm => NextTurn' = NextTurn,
         calm => \A d \in Dialers : /\ Listed(d)' = Listed(d)
                                  /\ (Listed(d) => bkList'[d] = bkList[d])
  PROVE  EvenInv'
<1> SUFFICES ASSUME calm', Len(backends') > 0
             PROVE  Even(Shares', Len(backends'), NextTurn')
  BY DEF EvenInv
<1>1. \A b : Led(b)' = Led(b)
  <2>1. \A d \in Dialers : /\ Listed(d)' = Listed(d)
                          /\ (Listed(d) => bkList'[d] = bkList[d])
    OBVIOUS
  <2> QED
    BY <2>1 DEF Led
<1>2. Shares' = Shares
  BY <1>1 DEF Shares
<1> QED
  BY <1>2 DEF EvenInv

\* The dial that completes its list takes the next turn.
LEMMA UnlockEven ==
  ASSUME Types, OneList, LockInv, CalmInv, EvenInv, NEW d \in Dialers, DialUnlock(d)
  PROVE  EvenInv'
<1>1. UNCHANGED <<backends, calm, bkList, nextBackendIdx>> /\ dpc[d] = "build"
  BY DEF DialUnlock, editVars
<1>2. dpc'[d] = "next" /\ \A e \in Dialers \ {d} : dpc'[e] = dpc[e] /\ dpc[e] # "build"
  BY <1>1 DEF DialUnlock, DialGoto, LockInv, Types, DialType
<1> SUFFICES ASSUME calm, Len(backends) > 0
             PROVE  Even(Shares', Len(backends), NextTurn')
  BY <1>1 DEF EvenInv
<1>3. PICK n \in Nat : n = Len(backends) /\ n > 0 /\ DOMAIN backends = 1..n
  <2>1. Len(backends) \in Nat /\ DOMAIN backends = 1..Len(backends)
    BY DEF Types, PoolType
  <2> QED
    BY <2>1
<1>4. PICK m \in Nat : m = nextBackendIdx
  BY DEF Types, PoolType
<1>5. NextTurn = m /\ NextTurn' = m + 1
  BY <1>1, <1>2, <1>4 DEF NextTurn
<1>6. PICK r \in 0..(n - 1) : r = m % n
  BY <1>3, Remainder
<1>7. bkList[d] # <<>> /\ bkList[d][1] = backends[r + 1]
  <2>1. CalmDial(d)
    BY CalmDials
  <2>2. Building(d) /\ idx[d] = n
    BY <1>1, <1>3, <2>1, UnlockCalm DEF CalmDial
  <2>3. 1 \in 1..n /\ m + (1 - 1) = m
    BY <1>3
  <2>4. bkList[d][1] = Turn(m)
    BY <1>4, <2>2, <2>3 DEF Building
  <2>5. Len(bkList[d]) # 0
    BY <1>3, <2>2 DEF Building
  <2>6. bkList[d] # <<>>
    BY <2>5
  <2> QED
    BY <1>3, <1>6, <2>4, <2>6 DEF Turn
<1>8. ~Listed(d) /\ Listed(d)' /\ \A e \in Dialers \ {d} : Listed(e)' = Listed(e)
  BY <1>1, <1>2, <1>7 DEF Listed
<1>9. \A b : Led(b)' = IF b = backends[r + 1] THEN Led(b) \cup {d} ELSE Led(b)
  BY <1>1, <1>7, <1>8 DEF Led
<1>10. \A b : d \notin Led(b)
  BY <1>8 DEF Led
<1>11. PICK f, g : f = Shares /\ g = Shares'
  OBVIOUS
<1>12. PICK be : be = backends
  OBVIOUS
<1>13. \A i \in 0..(n - 1) : /\ f[i] = Cardinality(Led(be[i + 1]))
                             /\ g[i] = Cardinality(Led(be[i + 1])')
  BY <1>1, <1>3, <1>11, <1>12 DEF Shares
<1>14. g[r] = f[r] + 1
  <2>1. Led(be[r + 1])' = Led(be[r + 1]) \cup {d}
    BY <1>9, <1>12
  <2>2. Cardinality(Led(be[r + 1]) \cup {d}) = Cardinality(Led(be[r + 1])) + 1
    BY <1>10, LedFinite, FS_AddElement
  <2> QED
    BY <1>13, <2>1, <2>2
<1>15. \A i \in 0..(n - 1) : i # r => g[i] = f[i]
  <2>1. \A i \in 0..(n - 1) : i + 1 \in 1..n /\ (i + 1 = r + 1 => i = r)
    OBVIOUS
  <2>2. \A i \in 0..(n - 1) : i # r => be[i + 1] # be[r + 1]
    BY <1>3, <1>12, <2>1 DEF OneList, IsInjective
  <2>3. \A i \in 0..(n - 1) : i # r => Led(be[i + 1])' = Led(be[i + 1])
    BY <1>9, <1>12, <2>2
  <2> QED
    BY <1>13, <2>3
<1>16. Even(f, n, m)
  BY <1>3, <1>5, <1>11 DEF EvenInv
<1>17. Even(g, n, m + 1)
  BY <1>3, <1>6, <1>14, <1>15, <1>16, NextTurnEven
<1> QED
  BY <1>3, <1>5, <1>11, <1>17

\* The other steps of a dial leave the shares as they are.
LEMMA EvenStep ==
  ASSUME Types, OneList, LockInv, CalmInv, CalmInv', EvenInv, NEW d \in Dialers, DialStep(d)
  PROVE  EvenInv'
<1>1. /\ UNCHANGED <<backends, calm>>
      /\ \A e \in Dialers \ {d} : dpc'[e] = dpc[e] /\ bkList'[e] = bkList[e]
  BY OwnDial
<1>2. \A e \in Dialers \ {d} : Listed(e)' = Listed(e)
  BY <1>1 DEF Listed
<1>3. CASE DialLock(d)
  <2>1. /\ dpc[d] = "idle" /\ dpc'[d] = "build" /\ ~nxtIdxLock
        /\ nextBackendIdx' = nextBackendIdx + 1
    BY <1>3 DEF DialLock, DialGoto, Types, DialType
  <2>2. NextTurn' = NextTurn
    BY <2>1 DEF NextTurn, LockInv
  <2>3. ~Listed(d) /\ Listed(d)' = Listed(d)
    BY <2>1 DEF Listed
  <2>4. \A e \in Dialers : /\ Listed(e)' = Listed(e)
                          /\ (Listed(e) => bkList'[e] = bkList[e])
    BY <1>1, <1>2, <2>3
  <2> QED
    BY <1>1, <2>2, <2>4, SameShares
<1>4. CASE DialPick(d)
  <2>1. dpc[d] = "build" /\ UNCHANGED <<dpc, nextBackendIdx>>
    BY <1>4 DEF DialPick, poolVars
  <2>2. NextTurn' = NextTurn
    BY <2>1 DEF NextTurn
  <2>3. ~Listed(d) /\ Listed(d)' = Listed(d)
    BY <2>1 DEF Listed
  <2>4. \A e \in Dialers : /\ Listed(e)' = Listed(e)
                          /\ (Listed(e) => bkList'[e] = bkList[e])
    BY <1>1, <1>2, <2>3
  <2> QED
    BY <1>1, <2>2, <2>4, SameShares
<1>5. CASE DialOverruns(d)
  <2>1. dpc'[d] = "panicked"
    BY <1>5 DEF DialOverruns, DialGoto, Types, DialType
  <2>2. ~calm'
    BY <2>1 DEF CalmInv
  <2> QED
    BY <2>2 DEF EvenInv
<1>6. CASE DialUnlock(d)
  BY <1>6, UnlockEven
<1>7. CASE Later(d)
  <2>1. NextTurn' = NextTurn
    <3>1. (\E e \in Dialers : dpc'[e] = "build") <=> (\E e \in Dialers : dpc[e] = "build")
      BY <1>1, <1>7 DEF Later
    <3> QED
      BY <1>7, <3>1 DEF Later, NextTurn
  <2>2. calm => dpc[d] # "panicked" /\ dpc'[d] # "panicked"
    BY <1>1 DEF CalmInv
  <2>3. bkList' = bkList /\ (calm => Listed(d)' = Listed(d))
    BY <1>7, <2>2 DEF Later, Listed
  <2> QED
    BY <1>1, <1>2, <2>1, <2>3, SameShares
<1> QED
  BY <1>3, <1>4, <1>5, <1>6, <1>7, LaterSteps

-----------------------------------------------------------------------------
(* The invariant, and what follows from it.                                 *)

DialInv == LockInv /\ CalmInv /\ EvenInv

\* Counts that are all 0 are even.
LEMMA AllIdleEven ==
  ASSUME Types, \A d \in Dialers : dpc[d] = "idle"
  PROVE  EvenInv
<1> SUFFICES ASSUME Len(backends) > 0 PROVE Even(Shares, Len(backends), NextTurn)
  BY DEF EvenInv
<1>1. PICK n \in Nat : n = Len(backends) /\ n > 0
  BY DEF Types, PoolType
<1>2. PICK m \in Nat : m = NextTurn
  <2>1. nextBackendIdx \in Nat
    BY DEF Types, PoolType
  <2>2. NextTurn = nextBackendIdx \/ NextTurn = nextBackendIdx + 1
    BY DEF NextTurn
  <2> QED
    BY <2>1, <2>2
<1>3. \A b : Cardinality(Led(b)) = 0
  <2>1. \A b : Led(b) = {}
    BY DEF Led, Listed
  <2> QED
    BY <2>1, FS_EmptySet
<1>4. \A i \in 0..(n - 1) : Shares[i] = 0
  BY <1>1, <1>3 DEF Shares
<1>5. \A a \in 0..(n - 1) : (m + a) % n \in 0..(n - 1)
  BY <1>1, Remainder
<1>6. PICK k \in Nat, t \in 0..(n - 1) : k = 0 /\ t = 0
  BY <1>1
<1>7. \A a \in 0..(n - 1) : Shares[(m + a) % n] = IF a + t >= n THEN k + 1 ELSE k
  BY <1>4, <1>5, <1>6
<1> QED
  BY <1>1, <1>2, <1>7 DEF Even

\* Before any dial it holds, ...
LEMMA DialInit == Init => DialInv
<1> SUFFICES ASSUME Init PROVE DialInv
  OBVIOUS
<1>1. \A d \in Dialers : dpc[d] = "idle" /\ idx[d] = 0
  BY DEF Init
<1>2. EvenInv
  BY <1>1, InitTypes, AllIdleEven
<1> QED
  BY <1>1, <1>2 DEF DialInv, LockInv, CalmInv

\* ... and every step keeps it.
LEMMA DialInvStep ==
  ASSUME Types, Types', OneList, DialInv, [Next]_vars
  PROVE  DialInv'
<1>1. CASE UNCHANGED <<backends, nextBackendIdx, nxtIdxLock, dialVars, editVars>>
  <2>1. UNCHANGED <<backends, nextBackendIdx, nxtIdxLock, dpc, idx, bkList, calm>>
    BY <1>1 DEF dialVars, editVars
  <2>2. \A b : Led(b)' = Led(b)
    BY <2>1 DEF Led, Listed
  <2>3. Shares' = Shares /\ NextTurn' = NextTurn
    BY <2>1, <2>2 DEF Shares, NextTurn
  <2>4. EvenInv'
    BY <2>1, <2>3 DEF EvenInv, DialInv
  <2>5. LockInv' /\ CalmInv'
    BY <2>1 DEF DialInv, LockInv, CalmInv, Building, Built, Turn
  <2> QED
    BY <2>4, <2>5 DEF DialInv
<1>2. CASE Admin
  <2>1. Edit
    BY <1>2 DEF Admin, AddRequest, AddBackend, DisableBackend, EnableBackend, DeleteDisabled, DeleteEnabled,
                ResetBackend
  <2>2. /\ UNCHANGED <<nxtIdxLock, dpc, idx>>
        /\ calm' => \A d \in Dialers : dpc'[d] = "idle"
    BY <2>1 DEF Edit, dialVars
  <2>3. LockInv'
    BY <2>2 DEF DialInv, LockInv
  <2>4. CalmInv'
    BY <2>2 DEF CalmInv
  <2>5. EvenInv'
    <3>1. CASE calm'
      <4>1. (\A d \in Dialers : dpc[d] = "idle")'
        BY <2>2, <3>1
      <4> QED
        BY <4>1, AllIdleEven, PTL
    <3>2. CASE ~calm'
      BY <3>2 DEF EvenInv
    <3> QED
      BY <3>1, <3>2
  <2> QED
    BY <2>3, <2>4, <2>5 DEF DialInv
<1>3. ASSUME NEW d \in Dialers, DialStep(d)
      PROVE  DialInv'
  BY <1>3, LockStep, CalmStep, EvenStep DEF DialInv
<1>4. ASSUME NEW b \in Backends, BackendRuns(b)
      PROVE  UNCHANGED <<backends, nextBackendIdx, nxtIdxLock, dialVars, editVars>>
  BY <1>4 DEF BackendRuns, ListenConDone, DeleteDrained, DeleteAnyway, ListenDeleted,
              backendOnly, poolVars
<1>5. CASE UNCHANGED vars
  BY <1>1, <1>5 DEF vars, poolVars
<1> QED
  BY <1>1, <1>2, <1>3, <1>4, <1>5 DEF Next, Environment, Balancer, DialStep

\* The invariant of the dials, with what it rests on.
LEMMA DialsKeepIt == Spec => [](Types /\ CountInv /\ OneList /\ DialInv)
<1>1. Init => Types /\ CountInv /\ OneList /\ DialInv
  BY InitTypes, InitCount, OneListInit, DialInit
<1>2. Types /\ CountInv /\ OneList /\ DialInv /\ [Next]_vars
        => (Types /\ CountInv /\ OneList /\ DialInv)'
  <2> SUFFICES ASSUME Types, CountInv, OneList, DialInv, [Next]_vars
               PROVE  (Types /\ CountInv /\ OneList /\ DialInv)'
    OBVIOUS
  <2>1. Types' /\ CountInv'
    BY TypeStep, CountStep
  <2>2. OneList'
    BY ListsStay, OneListEdit DEF OneList
  <2>3. DialInv'
    BY <2>1, DialInvStep
  <2> QED
    BY <2>1, <2>2, <2>3
<1> QED
  BY <1>1, <1>2, PTL DEF Spec

\* One dial at a time uses the index, whatever is edited meanwhile.
THEOREM IndexIsProtected == Spec => []LockInv
<1>1. DialInv => LockInv
  BY DEF DialInv
<1> QED
  BY <1>1, DialsKeepIt, PTL

\* Round robin is fair to every backend, for any number of dials at once.
THEOREM ShareIsFair == Spec => []FairShare
<1>1. Types /\ DialInv => FairShare
  <2> SUFFICES ASSUME Types, DialInv, calm, NEW b \in ToSet(backends), NEW c \in ToSet(backends)
               PROVE  Cardinality(Led(b)) <= Cardinality(Led(c)) + 1
    BY DEF FairShare
  <2>1. PICK n \in Nat : n = Len(backends) /\ DOMAIN backends = 1..n
    <3>1. Len(backends) \in Nat /\ DOMAIN backends = 1..Len(backends)
      BY DEF Types, PoolType
    <3> QED
      BY <3>1
  <2>2. PICK i \in 1..n, j \in 1..n : b = backends[i] /\ c = backends[j]
    BY <2>1 DEF ToSet
  <2>3. PICK h \in 0..(n - 1), k \in 0..(n - 1) : i = h + 1 /\ j = k + 1
    <3>1. i - 1 \in 0..(n - 1) /\ j - 1 \in 0..(n - 1) /\ i = (i - 1) + 1 /\ j = (j - 1) + 1
      OBVIOUS
    <3> QED
      BY <3>1
  <2>4. n > 0
    OBVIOUS
  <2>5. NextTurn \in Nat
    BY DEF NextTurn, Types, PoolType
  <2>6. Shares[h] <= Shares[k] + 1
    BY <2>1, <2>4, <2>5, EvenIsFair DEF DialInv, EvenInv
  <2> QED
    BY <2>1, <2>2, <2>3, <2>6 DEF Shares
<1> QED
  BY <1>1, DialsKeepIt, PTL

\* A dial that gives up has tried every backend of a pool that nobody edited.
THEOREM AllAreOffered == Spec => []EveryBackendOffered
<1>1. Types /\ DialInv => EveryBackendOffered
  <2> SUFFICES ASSUME Types, DialInv, calm, NEW d \in Dialers, dpc[d] = "exhausted"
               PROVE  {bkList[d][i] : i \in 1..idx[d]} = ToSet(backends)
    BY DEF EveryBackendOffered
  <2>1. Built(d) /\ idx[d] = Len(backends)
    BY DEF DialInv, CalmInv
  <2>2. DOMAIN bkList[d] = 1..idx[d]
    <3>1. bkList[d] \in Seq(0..MaxBackends)
      BY DEF Types, DialType
    <3>2. DOMAIN bkList[d] = 1..Len(bkList[d])
      BY <3>1
    <3> QED
      BY <2>1, <3>2 DEF Built
  <2> QED
    BY <2>1, <2>2 DEF Built, ToSet
<1> QED
  BY <1>1, DialsKeepIt, PTL

\* A dial panics only if the pool was edited after some dial began: an edit is the
\* only cause of what the run panic finds.
THEOREM OnlyEditsHarm == Spec => [](calm => EditsAreHarmless)
<1>1. DialInv => (calm => EditsAreHarmless)
  BY DEF DialInv, CalmInv, EditsAreHarmless
<1> QED
  BY <1>1, DialsKeepIt, PTL

=============================================================================
