----------------------------- MODULE ValveProofs -----------------------------
(***************************************************************************)
(* Proofs about the valves of Composition, what is measured in them and the *)
(* module's types, for any number of providers that the embedding program   *)
(* adds, and whatever their valves do to messages.                          *)
(*                                                                         *)
(* Valves folds over a list of providers and over a chain of valves.  That  *)
(* the folds satisfy their equations is shown first, by induction over the  *)
(* numbers in a set.                                                        *)
(***************************************************************************)
EXTENDS CompositionProofs, WellFoundedInduction

-----------------------------------------------------------------------------
(* Induction, and folds over 1..n.                                          *)

\* A set that has 0, and the next of every number in it, has all.
LEMMA Induction ==
  ASSUME NEW S, 0 \in S, \A n \in Nat : n \in S => n + 1 \in S
  PROVE  \A n \in Nat : n \in S
<1> DEFINE R == Nat \ S
<1> SUFFICES ASSUME R # {} PROVE FALSE
  OBVIOUS
<1>1. PICK n \in R : \A m \in R : <<m, n>> \notin OpToRel(<, Nat)
  <2>1. R \in SUBSET Nat
    OBVIOUS
  <2> HIDE DEF R
  <2> QED
    BY <2>1, NatLessThanWellFounded, WFMin
<1>2. n \in Nat /\ n # 0 /\ n \notin S
  OBVIOUS
<1>3. n - 1 \in Nat /\ (n - 1) + 1 = n /\ n - 1 < n
  BY <1>2
<1>4. n - 1 \in R
  BY <1>2, <1>3
<1> QED
  BY <1>1, <1>2, <1>3, <1>4 DEF OpToRel

\* The largest of some numbers up to n.
LEMMA MaxIs ==
  ASSUME NEW n \in Nat, NEW T \in SUBSET (1..n)
  PROVE  /\ T # {} => Max(T) \in T /\ \A t \in T : t <= Max(T)
         /\ n \in T => Max(T) = n
<1> DEFINE S == {k \in Nat : T \cap (1..k) # {} => \E m \in T \cap (1..k) : \A t \in T \cap (1..k) : m >= t}
<1>1. 0 \in S
  OBVIOUS
<1>2. ASSUME NEW k \in Nat, k \in S PROVE k + 1 \in S
  <2>1. CASE k + 1 \in T
    <3>1. k + 1 \in T \cap (1..(k + 1)) /\ \A t \in T \cap (1..(k + 1)) : k + 1 >= t
      BY <2>1
    <3> QED
      BY <3>1
  <2>2. CASE k + 1 \notin T
    <3>1. T \cap (1..(k + 1)) = T \cap (1..k)
      BY <2>2
    <3> QED
      BY <1>2, <3>1
  <2> QED
    BY <2>1, <2>2
<1>3. n \in S
  <2> HIDE DEF S
  <2> QED
    BY <1>1, <1>2, Induction
<1>4. T # {} => \E m \in T : \A t \in T : m >= t
  <2>1. T \cap (1..n) = T
    OBVIOUS
  <2> QED
    BY <1>3, <2>1
<1>5. T # {} => Max(T) \in T /\ \A t \in T : Max(T) >= t
  BY <1>4, Zenon DEF Max
<1>6. PICK m : m = Max(T)
  OBVIOUS
<1>7. T # {} => m \in T /\ \A t \in T : t <= m /\ t <= n /\ t \in Int
  BY <1>5, <1>6
<1>8. ASSUME n \in T PROVE m = n
  <2>1. m \in T /\ n <= m
    BY <1>7, <1>8
  <2>2. m <= n /\ m \in Int
    BY <1>7, <2>1
  <2> QED
    BY <2>1, <2>2
<1> QED
  BY <1>6, <1>7, <1>8

\* A fold over 1..n with the largest number first is a function on its subsets.
FoldsTo(f, n, base, step) ==
  \A T \in SUBSET (1..n) : f[T] = IF T = {} THEN base ELSE step[Max(T)][f[T \ {Max(T)}]]

\* There is one.
LEMMA FoldExists ==
  ASSUME NEW n \in Nat, NEW M, NEW base \in M, NEW step \in [1..n -> [M -> M]]
  PROVE  \E f \in [SUBSET (1..n) -> M] : FoldsTo(f, n, base, step)
<1> DEFINE Folds(k) == \E f \in [SUBSET (1..k) -> M] : FoldsTo(f, k, base, step)
<1>1. Folds(0)
  <2>1. PICK f : f = [T \in SUBSET (1..0) |-> base]
    OBVIOUS
  <2>2. \A T \in SUBSET (1..0) : T = {}
    OBVIOUS
  <2>3. f \in [SUBSET (1..0) -> M] /\ FoldsTo(f, 0, base, step)
    BY <2>1, <2>2 DEF FoldsTo
  <2> QED
    BY <2>3
<1>2. ASSUME NEW k \in Nat, k + 1 <= n, Folds(k) PROVE Folds(k + 1)
  <2>1. PICK f \in [SUBSET (1..k) -> M] : FoldsTo(f, k, base, step)
    BY <1>2
  <2>2. PICK g : g = [T \in SUBSET (1..(k + 1)) |->
                        IF k + 1 \in T THEN step[k + 1][f[T \ {k + 1}]] ELSE f[T]]
    OBVIOUS
  <2>3. \A T \in SUBSET (1..(k + 1)) : T \ {k + 1} \in SUBSET (1..k)
    OBVIOUS
  <2>4. k + 1 \in 1..n /\ k + 1 \in Nat
    BY <1>2
  <2>5. ASSUME NEW T \in SUBSET (1..(k + 1)), k + 1 \in T
        PROVE  g[T] \in M /\ g[T] = IF T = {} THEN base ELSE step[Max(T)][g[T \ {Max(T)}]]
    <3>1. Max(T) = k + 1 /\ T # {}
      BY <2>4, <2>5, MaxIs
    <3>2. T \ {k + 1} \in SUBSET (1..k) /\ T \ {k + 1} \in SUBSET (1..(k + 1))
      BY <2>3
    <3>3. g[T \ {k + 1}] = f[T \ {k + 1}] /\ f[T \ {k + 1}] \in M
      BY <2>2, <3>2
    <3>4. g[T] = step[k + 1][f[T \ {k + 1}]]
      BY <2>2, <2>5
    <3>5. step[k + 1][f[T \ {k + 1}]] \in M
      BY <2>4, <3>3
    <3> QED
      BY <3>1, <3>3, <3>4, <3>5
  <2>6. ASSUME NEW T \in SUBSET (1..(k + 1)), k + 1 \notin T
        PROVE  g[T] \in M /\ g[T] = IF T = {} THEN base ELSE step[Max(T)][g[T \ {Max(T)}]]
    <3>0. \A t \in T : t \in 1..(k + 1) /\ t # k + 1
      BY <2>6
    <3>9. \A t \in T : t \in 1..k
      BY <3>0
    <3>1. T \in SUBSET (1..k) /\ \A t : T \ {t} \in SUBSET (1..k)
      BY <3>9
    <3>2. g[T] = f[T] /\ f[T] \in M
      BY <2>2, <2>6, <3>1
    <3>3. g[T \ {Max(T)}] = f[T \ {Max(T)}]
      BY <2>2, <2>6, <3>1
    <3>4. f[T] = IF T = {} THEN base ELSE step[Max(T)][f[T \ {Max(T)}]]
      BY <2>1, <3>1 DEF FoldsTo
    <3> QED
      BY <3>2, <3>3, <3>4
  <2>7. g \in [SUBSET (1..(k + 1)) -> M] /\ FoldsTo(g, k + 1, base, step)
    <3>1. \A T \in SUBSET (1..(k + 1)) : g[T] \in M
      BY <2>5, <2>6
    <3>2. g \in [SUBSET (1..(k + 1)) -> M]
      BY <2>2, <3>1
    <3> QED
      BY <2>5, <2>6, <3>2 DEF FoldsTo
  <2> QED
    BY <2>7
<1> HIDE DEF Folds
<1>3. PICK S : S = {k \in Nat : k <= n => Folds(k)}
  OBVIOUS
<1>4. 0 \in S /\ \A k \in Nat : k \in S => k + 1 \in S
  BY <1>1, <1>2, <1>3
<1>5. n \in S
  BY <1>4, Induction
<1>6. Folds(n)
  BY <1>3, <1>5
<1> QED
  BY <1>6 DEF Folds

-----------------------------------------------------------------------------
(* A message on its way through a chain.                                    *)

Valve == {"inst", "own", "nil"}

\* How far a message may have come.
Outcomes == {"passing", "error", "panic"}

Messages(msg) == [msg : {msg, "nil"}, out : Outcomes, seen : Nat]

\* The three of them.
LEMMA OutcomesAre == "passing" \in Outcomes /\ "error" \in Outcomes /\ "panic" \in Outcomes
  BY DEF Outcomes

Start(msg) == [msg |-> msg, out |-> "passing", seen |-> 0]

\* A message starts like this.
LEMMA StartIs == \A msg : Start(msg) \in Messages(msg)
  BY DEF Start, Messages, Outcomes

\* Such a message has these parts.
LEMMA MessageIs ==
  ASSUME NEW msg, NEW a \in {msg, "nil"}, NEW b \in Outcomes, NEW c \in Nat,
         NEW r, r = [msg |-> a, out |-> b, seen |-> c]
  PROVE  r \in Messages(msg) /\ r.msg = a /\ r.out = b /\ r.seen = c
<1>1. r \in Messages(msg)
  BY DEF Messages
<1> QED
  BY <1>1

\* r is what valve v makes of message m.
Turns(msg, v, m, r) ==
  /\ r \in Messages(msg)
  /\ m.out # "passing" => r = m
  /\ m.out = "passing" /\ v = "own" => r.seen = m.seen /\ r.out # "panic"
  /\ m.out = "passing" /\ v = "inst" /\ m.msg # "nil" =>
       /\ r.msg = m.msg /\ r.out = "passing"
       /\ r.seen = IF IsControl(m.msg) THEN m.seen ELSE m.seen + 1
  /\ m.out = "passing" /\ v = "inst" /\ m.msg = "nil" => r.out = "panic" /\ r.seen = m.seen
  /\ m.out = "passing" /\ v = "nil" => r.out = "panic" /\ r.seen = m.seen

\* Through is that.
LEMMA ThroughTurns ==
  ASSUME NEW msg, NEW v \in Valve, NEW m \in Messages(msg), NEW answer
  PROVE  Turns(msg, v, m, Through(v, m, answer))
<1>0. PICK r : r = Through(v, m, answer)
  OBVIOUS
<1> SUFFICES Turns(msg, v, m, r)
  BY <1>0
<1> USE DEF Turns
<1>1. PICK a \in {msg, "nil"}, b \in Outcomes, c \in Nat :
        m = [msg |-> a, out |-> b, seen |-> c]
  BY DEF Messages
<1>2. m.msg = a /\ m.out = b /\ m.seen = c
  BY <1>1
<1>3. CASE m.out # "passing"
  <2>1. r = m
    BY <1>0, <1>3 DEF Through
  <2> QED
    BY <1>3, <2>1
<1>4. CASE m.out = "passing" /\ v = "own"
  <2>1. r = Own(m, answer)
    BY <1>0, <1>4 DEF Through
  <2>2. \/ r = m
        \/ r = [msg |-> "nil", out |-> b, seen |-> c]
        \/ r = [msg |-> a, out |-> "error", seen |-> c]
    BY <1>1, <2>1 DEF Own
  <2>3. PICK p \in {msg, "nil"}, o \in Outcomes :
          o # "panic" /\ r = [msg |-> p, out |-> o, seen |-> c]
    <3>1. "error" # "panic" /\ b # "panic" /\ "error" \in Outcomes
      BY <1>2, <1>4, OutcomesAre
    <3> QED
      BY <1>1, <2>2, <3>1
  <2>4. r \in Messages(msg) /\ r.seen = c /\ r.out = o
    BY <2>3, MessageIs
  <2>5. r.out # "panic"
    BY <2>3, <2>4
  <2> QED
    BY <1>2, <1>4, <2>4, <2>5
<1>5. CASE m.out = "passing" /\ v = "inst" /\ a = "nil"
  <2>1. r = [msg |-> a, out |-> "panic", seen |-> c]
    BY <1>0, <1>1, <1>5 DEF Through, Instrument
  <2>3. PICK o \in Outcomes : o = "panic"
    BY OutcomesAre
  <2>2. r \in Messages(msg) /\ r.out = o /\ r.seen = c
    BY <2>1, <2>3, MessageIs
  <2> QED
    BY <1>2, <1>5, <2>2, <2>3
<1>6. CASE m.out = "passing" /\ v = "inst" /\ a # "nil"
  <2>1. PICK d \in Nat : d = IF IsControl(a) THEN c ELSE c + 1
    BY DEF IsControl
  <2>2. r = [msg |-> a, out |-> b, seen |-> d]
    BY <1>0, <1>1, <1>6, <2>1 DEF Through, Instrument
  <2>3. r \in Messages(msg) /\ r.msg = a /\ r.out = b /\ r.seen = d
    BY <2>2, MessageIs
  <2> QED
    BY <1>2, <1>6, <2>1, <2>3
<1>7. CASE m.out = "passing" /\ v = "nil"
  <2>1. r = [msg |-> a, out |-> "panic", seen |-> c]
    BY <1>0, <1>1, <1>7 DEF Through
  <2>3. PICK o \in Outcomes : o = "panic"
    BY OutcomesAre
  <2>2. r \in Messages(msg) /\ r.out = o /\ r.seen = c
    BY <2>1, <2>3, MessageIs
  <2> QED
    BY <1>2, <1>7, <2>2, <2>3
<1>8. v \in {"inst", "own", "nil"}
  BY DEF Valve
<1> QED
  BY <1>3, <1>4, <1>5, <1>6, <1>7, <1>8

\* It remains such a message.
LEMMA ThroughKeeps ==
  ASSUME NEW msg, NEW v \in Valve, NEW m \in Messages(msg), NEW answer
  PROVE  Through(v, m, answer) \in Messages(msg)
<1>1. Turns(msg, v, m, Through(v, m, answer))
  BY ThroughTurns
<1> QED
  BY <1>1 DEF Turns

\* Only the InstrumentValve has Prometheus see it.
LEMMA ThroughUnseen ==
  ASSUME NEW msg, NEW v \in Valve, v # "inst", NEW m \in Messages(msg), NEW answer
  PROVE  Through(v, m, answer).seen = m.seen
<1>1. Turns(msg, v, m, Through(v, m, answer))
  BY ThroughTurns
<1> QED
  BY <1>1 DEF Turns, Valve

\* m[k] is the message after k valves of the chain.
Goes(m, valves, msg, answers) ==
  /\ m[0] = Start(msg)
  /\ \A k \in 1..Len(valves) : m[k] = Through(valves[k], m[k - 1], answers[k])

\* Pass takes it through the valves one by one.
LEMMA PassGoes ==
  ASSUME NEW valves \in Seq(Valve), NEW msg, NEW answers
  PROVE  \E m : Goes(m, valves, msg, answers) /\ Pass(valves, msg, answers) = m[Len(valves)]
<1>1. PICK n \in Nat : n = Len(valves) /\ DOMAIN valves = 1..n
  OBVIOUS
<1> DEFINE ids == [i \in DOMAIN valves |-> i]
<1>3. DOMAIN ids = 1..n /\ \A k \in 1..n : ids[k] = k /\ valves[k] \in Valve
  BY <1>1
<1> HIDE DEF ids
<1>4. PICK step : step = [k \in 1..n |-> [m \in Messages(msg) |-> Through(valves[k], m, answers[k])]]
  OBVIOUS
<1>5. step \in [1..n -> [Messages(msg) -> Messages(msg)]]
  <2>1. ASSUME NEW k \in 1..n, NEW m \in Messages(msg)
        PROVE  Through(valves[k], m, answers[k]) \in Messages(msg)
    BY <1>3, ThroughKeeps
  <2> QED
    BY <1>4, <2>1
<1>6. Start(msg) \in Messages(msg)
  BY StartIs
<1>7. PICK f \in [SUBSET (1..n) -> Messages(msg)] : FoldsTo(f, n, Start(msg), step)
  BY <1>5, <1>6, FoldExists
<1>8. ASSUME NEW T \in SUBSET (1..n)
      PROVE  f[T] = IF T = {} THEN Start(msg)
                    ELSE Through(valves[ids[Max(T)]], f[T \ {Max(T)}], answers[ids[Max(T)]])
  <2>1. CASE T = {}
    BY <1>7, <2>1 DEF FoldsTo
  <2>2. CASE T # {}
    <3>1. Max(T) \in 1..n /\ T \ {Max(T)} \in SUBSET (1..n)
      BY <2>2, MaxIs
    <3>2. f[T] = step[Max(T)][f[T \ {Max(T)}]] /\ f[T \ {Max(T)}] \in Messages(msg)
      BY <1>7, <2>2, <3>1 DEF FoldsTo
    <3> QED
      BY <1>3, <1>4, <2>2, <3>1, <3>2
  <2> QED
    BY <2>1, <2>2
<1>9. f = [T \in SUBSET DOMAIN ids |->
             IF T = {} THEN Start(msg)
             ELSE Through(valves[ids[Max(T)]], f[T \ {Max(T)}], answers[ids[Max(T)]])]
  BY <1>3, <1>8
<1>10. PICK g : /\ g = [T \in SUBSET DOMAIN ids |->
                         IF T = {} THEN Start(msg)
                         ELSE Through(valves[ids[Max(T)]], g[T \ {Max(T)}], answers[ids[Max(T)]])]
                /\ Pass(valves, msg, answers) = g[DOMAIN ids]
  BY <1>9, Zenon DEF ids, Pass, FoldLeftDomain, FoldLeft, MapThenFoldSet, Start
<1>11. g[{}] = Start(msg)
  BY <1>3, <1>10
<1>12. ASSUME NEW k \in 1..n
       PROVE  g[1..k] = Through(valves[k], g[1..(k - 1)], answers[k])
  <2>1. 1..k \in SUBSET (1..n) /\ k \in 1..k /\ k \in Nat /\ 1..k # {}
    BY <1>1
  <2>2. PICK T : T = 1..k /\ T \in SUBSET (1..n) /\ T # {}
    BY <2>1
  <2>3. Max(T) = k /\ T \ {k} = 1..(k - 1)
    BY <2>1, <2>2, MaxIs
  <2>4. T \in SUBSET DOMAIN ids
    BY <1>3, <2>2
  <2>5. g[T] = Through(valves[ids[Max(T)]], g[T \ {Max(T)}], answers[ids[Max(T)]])
    BY <1>10, <2>2, <2>4, Zenon
  <2> QED
    BY <1>3, <2>2, <2>3, <2>5
<1>13. PICK m : m = [k \in 0..n |-> g[1..k]]
  OBVIOUS
<1>14. Goes(m, valves, msg, answers)
  <2>1. m[0] = Start(msg)
    BY <1>11, <1>13
  <2>2. ASSUME NEW k \in 1..n PROVE m[k] = Through(valves[k], m[k - 1], answers[k])
    <3>1. k \in 0..n /\ k - 1 \in 0..n
      OBVIOUS
    <3> QED
      BY <1>12, <1>13, <3>1
  <2> QED
    BY <1>1, <2>1, <2>2 DEF Goes
<1>15. Pass(valves, msg, answers) = m[n]
  BY <1>3, <1>10, <1>13
<1> QED
  BY <1>1, <1>14, <1>15

-----------------------------------------------------------------------------
(* The chain that a list of providers builds.                               *)

\* chain[k] is the chain after the first k providers.
Builds(chain, providers) ==
  /\ chain[0] = <<>>
  /\ \A k \in 1..Len(providers) : chain[k] = AddValves(providers[k], chain[k - 1])

\* new is a chain longer by what the provider gives.
Longer(new, provider, valves) ==
  /\ new \in Seq(Valve) /\ Len(new) = Len(valves) + 1
  /\ \A i \in 1..Len(valves) : new[i] = valves[i]
  /\ new[Len(valves) + 1] = IF provider = "own" THEN "own"
                            ELSE IF valves = <<>> THEN "inst" ELSE "nil"

\* A provider makes a longer chain of a chain.
LEMMA AddValvesIs ==
  ASSUME NEW provider \in Providers, NEW valves \in Seq(Valve)
  PROVE  Longer(AddValves(provider, valves), provider, valves)
<1> DEFINE r == AddValves(provider, valves)
<1>1. PICK v \in Valve : v = IF provider = "own" THEN "own"
                             ELSE IF valves = <<>> THEN "inst" ELSE "nil"
  BY DEF Valve
<1>2. r = Append(valves, v)
  <2>1. CASE provider = "own"
    BY <1>1, <2>1 DEF AddValves
  <2>2. CASE provider = "prometheus" /\ valves = <<>>
    <3>1. r = <<"inst">> /\ v = "inst"
      BY <1>1, <2>2 DEF AddValves, AddPrometheus
    <3> QED
      BY <2>2, <3>1
  <2>3. CASE provider = "prometheus" /\ valves # <<>>
    BY <1>1, <2>3 DEF AddValves, AddPrometheus
  <2> QED
    BY <2>1, <2>2, <2>3 DEF Providers
<1> HIDE DEF r
<1> QED
  BY <1>1, <1>2 DEF Longer, r

\* addValves asks the providers one by one.
LEMMA addValvesBuilds ==
  ASSUME NEW providers \in Seq(Providers)
  PROVE  \E chain : Builds(chain, providers) /\ addValves(providers) = chain[Len(providers)]
<1>1. PICK n \in Nat : n = Len(providers) /\ DOMAIN providers = 1..n
  OBVIOUS
<1>2. \A k \in 1..n : providers[k] \in Providers
  BY <1>1
<1>3. PICK step : step = [k \in 1..n |-> [c \in Seq(Valve) |-> AddValves(providers[k], c)]]
  OBVIOUS
<1>4. step \in [1..n -> [Seq(Valve) -> Seq(Valve)]]
  <2>1. ASSUME NEW k \in 1..n, NEW c \in Seq(Valve)
        PROVE  AddValves(providers[k], c) \in Seq(Valve)
    <3> QED
      BY <1>2, AddValvesIs DEF Longer
  <2> QED
    BY <1>3, <2>1
<1>5. <<>> \in Seq(Valve)
  OBVIOUS
<1>6. PICK f \in [SUBSET (1..n) -> Seq(Valve)] : FoldsTo(f, n, <<>>, step)
  BY <1>4, <1>5, FoldExists
<1>7. ASSUME NEW T \in SUBSET (1..n)
      PROVE  f[T] = IF T = {} THEN <<>> ELSE AddValves(providers[Max(T)], f[T \ {Max(T)}])
  <2>1. CASE T = {}
    BY <1>6, <2>1 DEF FoldsTo
  <2>2. CASE T # {}
    <3>1. Max(T) \in 1..n /\ T \ {Max(T)} \in SUBSET (1..n)
      BY <2>2, MaxIs
    <3>2. f[T] = step[Max(T)][f[T \ {Max(T)}]] /\ f[T \ {Max(T)}] \in Seq(Valve)
      BY <1>6, <2>2, <3>1 DEF FoldsTo
    <3> QED
      BY <1>3, <2>2, <3>1, <3>2
  <2> QED
    BY <2>1, <2>2
<1>8. f = [T \in SUBSET DOMAIN providers |->
             IF T = {} THEN <<>> ELSE AddValves(providers[Max(T)], f[T \ {Max(T)}])]
  BY <1>1, <1>7
<1>9. PICK g : /\ g = [T \in SUBSET DOMAIN providers |->
                         IF T = {} THEN <<>> ELSE AddValves(providers[Max(T)], g[T \ {Max(T)}])]
               /\ addValves(providers) = g[DOMAIN providers]
  BY <1>8, Zenon DEF addValves, FoldLeft, MapThenFoldSet
<1>10. g[{}] = <<>>
  BY <1>9
<1>11. ASSUME NEW k \in 1..n
       PROVE  g[1..k] = AddValves(providers[k], g[1..(k - 1)])
  <2>1. 1..k \in SUBSET (1..n) /\ k \in 1..k /\ k \in Nat /\ 1..k # {}
    BY <1>1
  <2>2. PICK T : T = 1..k /\ T \in SUBSET (1..n) /\ T # {}
    BY <2>1
  <2>3. Max(T) = k /\ T \ {k} = 1..(k - 1)
    BY <2>1, <2>2, MaxIs
  <2>4. T \in SUBSET DOMAIN providers
    BY <1>1, <2>2
  <2>5. g[T] = AddValves(providers[Max(T)], g[T \ {Max(T)}])
    BY <1>9, <2>2, <2>4, Zenon
  <2> QED
    BY <2>2, <2>3, <2>5
<1>12. PICK chain : chain = [k \in 0..n |-> g[1..k]]
  OBVIOUS
<1>13. Builds(chain, providers)
  <2>1. chain[0] = <<>>
    BY <1>10, <1>12
  <2>2. ASSUME NEW k \in 1..n PROVE chain[k] = AddValves(providers[k], chain[k - 1])
    <3>1. k \in 0..n /\ k - 1 \in 0..n
      OBVIOUS
    <3> QED
      BY <1>11, <1>12, <3>1
  <2> QED
    BY <1>1, <2>1, <2>2 DEF Builds
<1>14. addValves(providers) = chain[n]
  BY <1>1, <1>9, <1>12
<1> QED
  BY <1>1, <1>13, <1>14

\* The valve that provider i of a list gives: Prometheus' own only if it is asked first.
LEMMA addValvesIs ==
  ASSUME NEW providers \in Seq(Providers), NEW r, r = addValves(providers)
  PROVE  /\ r \in Seq(Valve) /\ Len(r) = Len(providers)
         /\ \A i \in 1..Len(providers) :
              r[i] = IF providers[i] = "own" THEN "own" ELSE IF i = 1 THEN "inst" ELSE "nil"
<1>1. PICK n \in Nat : n = Len(providers) /\ \A k \in 1..n : providers[k] \in Providers
  OBVIOUS
<1>2. PICK chain : Builds(chain, providers) /\ addValves(providers) = chain[n]
  BY <1>1, addValvesBuilds
<1> DEFINE Entry(i) == IF providers[i] = "own" THEN "own" ELSE IF i = 1 THEN "inst" ELSE "nil"
           Good(k) == /\ chain[k] \in Seq(Valve) /\ Len(chain[k]) = k
                      /\ \A i \in 1..k : chain[k][i] = Entry(i)
<1>3. Good(0)
  <2>1. chain[0] = <<>>
    BY <1>2 DEF Builds
  <2> QED
    BY <2>1
<1>4. ASSUME NEW k \in Nat, k + 1 <= n, Good(k) PROVE Good(k + 1)
  <2>1. k + 1 \in 1..n /\ (k + 1) - 1 = k
    BY <1>1, <1>4
  <2>2. PICK provider, old, new :
          /\ provider \in Providers /\ old \in Seq(Valve)
          /\ provider = providers[k + 1] /\ old = chain[k] /\ new = chain[k + 1]
          /\ new = AddValves(provider, old)
    BY <1>1, <1>2, <1>4, <2>1 DEF Builds
  <2>8. Longer(new, provider, old)
    BY <2>2, AddValvesIs, Zenon
  <2>3. /\ new \in Seq(Valve) /\ Len(new) = Len(old) + 1
        /\ \A i \in 1..Len(old) : new[i] = old[i]
        /\ new[Len(old) + 1] = IF provider = "own" THEN "own"
                               ELSE IF old = <<>> THEN "inst" ELSE "nil"
    BY <2>8 DEF Longer
  <2>4. Len(old) = k /\ (old = <<>> <=> k + 1 = 1)
    BY <1>4, <2>2
  <2>5. new[k + 1] = Entry(k + 1)
    BY <2>2, <2>3, <2>4
  <2>6. \A i \in 1..k : new[i] = Entry(i)
    BY <1>4, <2>2, <2>3, <2>4
  <2>7. \A i \in 1..(k + 1) : i \in 1..k \/ i = k + 1
    OBVIOUS
  <2> QED
    BY <2>2, <2>3, <2>4, <2>5, <2>6, <2>7
<1> HIDE DEF Good
<1>5. PICK S : S = {k \in Nat : k <= n => Good(k)}
  OBVIOUS
<1>6. 0 \in S /\ \A k \in Nat : k \in S => k + 1 \in S
  BY <1>1, <1>3, <1>4, <1>5
<1>7. n \in S
  BY <1>6, Induction
<1>8. Good(n)
  BY <1>5, <1>7
<1> QED
  BY <1>1, <1>2, <1>8 DEF Good

\* A message of a session, and what it has become after the valves.
Travelling == {"data"} \cup Controls

\* After every valve it is still such a message.
LEMMA MessagesGo ==
  ASSUME NEW valves \in Seq(Valve), NEW msg, NEW answers, NEW m, Goes(m, valves, msg, answers)
  PROVE  \A k \in 0..Len(valves) : m[k] \in Messages(msg)
<1>1. PICK n \in Nat : n = Len(valves) /\ \A k \in 1..n : valves[k] \in Valve
  OBVIOUS
<1>2. PICK S : S = {k \in Nat : k <= n => m[k] \in Messages(msg)}
  OBVIOUS
<1>3. 0 \in S
  <2>1. m[0] \in Messages(msg)
    BY StartIs, Zenon DEF Goes
  <2> QED
    BY <1>2, <2>1
<1>4. ASSUME NEW k \in Nat, k \in S PROVE k + 1 \in S
  <2> SUFFICES ASSUME k + 1 <= n PROVE m[k + 1] \in Messages(msg)
    BY <1>2
  <2>1. k + 1 \in 1..n /\ (k + 1) - 1 = k
    BY <1>1
  <2>2. valves[k + 1] \in Valve /\ m[k] \in Messages(msg)
    BY <1>1, <1>2, <1>4, <2>1
  <2>3. Through(valves[k + 1], m[k], answers[k + 1]) \in Messages(msg)
    BY <2>2, ThroughKeeps, Zenon
  <2>4. m[k + 1] = Through(valves[k + 1], m[k], answers[k + 1])
    BY <1>1, <2>1 DEF Goes
  <2> QED
    BY <2>2, <2>3, <2>4
<1>5. \A k \in Nat : k \in S
  BY <1>3, <1>4, Induction
<1> QED
  BY <1>1, <1>2, <1>5

\* Where there is no InstrumentValve, Prometheus sees no message.
LEMMA SeenStays ==
  ASSUME NEW valves \in Seq(Valve), NEW msg, NEW answers, NEW m, Goes(m, valves, msg, answers),
         NEW j \in 0..Len(valves), NEW l \in 0..Len(valves), j <= l,
         \A i \in (j + 1)..l : valves[i] # "inst"
  PROVE  m[l].seen = m[j].seen
<1>1. PICK n \in Nat : n = Len(valves) /\ \A k \in 1..n : valves[k] \in Valve
  OBVIOUS
<1>2. PICK S : S = {k \in Nat : j <= k /\ k <= l => m[k].seen = m[j].seen}
  OBVIOUS
<1>3. 0 \in S
  BY <1>1, <1>2
<1>4. ASSUME NEW k \in Nat, k \in S PROVE k + 1 \in S
  <2> SUFFICES ASSUME j <= k + 1, k + 1 <= l PROVE m[k + 1].seen = m[j].seen
    BY <1>2
  <2>1. CASE k + 1 = j
    BY <2>1
  <2>2. CASE k + 1 # j
    <3>1. j <= k /\ k <= l /\ k + 1 \in (j + 1)..l /\ k + 1 \in 1..n /\ k \in 0..n /\ (k + 1) - 1 = k
      BY <1>1, <2>2
    <3>2. m[k].seen = m[j].seen
      BY <1>2, <1>4, <3>1
    <3>3. valves[k + 1] \in Valve /\ valves[k + 1] # "inst" /\ m[k] \in Messages(msg)
      BY <1>1, <3>1, MessagesGo
    <3>4. Through(valves[k + 1], m[k], answers[k + 1]).seen = m[k].seen
      BY <3>3, ThroughUnseen, Zenon
    <3>5. m[k + 1] = Through(valves[k + 1], m[k], answers[k + 1])
      BY <1>1, <3>1 DEF Goes
    <3> QED
      BY <3>2, <3>3, <3>4, <3>5
  <2> QED
    BY <2>1, <2>2
<1>5. \A k \in Nat : k \in S
  BY <1>3, <1>4, Induction
<1> QED
  BY <1>1, <1>2, <1>5

\* Prometheus sees nothing of a chain without its valve.
LEMMA NoneSeen ==
  ASSUME NEW valves \in Seq(Valve), NEW msg, NEW answers,
         \A i \in 1..Len(valves) : valves[i] # "inst"
  PROVE  Pass(valves, msg, answers).seen = 0
<1>1. PICK m : Goes(m, valves, msg, answers) /\ Pass(valves, msg, answers) = m[Len(valves)]
  BY PassGoes
<1>2. PICK n \in Nat : n = Len(valves) /\ 0 \in 0..n /\ n \in 0..n /\ 0 <= n /\ (0 + 1)..n = 1..n
  OBVIOUS
<1>3. m[n].seen = m[0].seen
  BY <1>1, <1>2, SeenStays
<1>4. m[0].seen = 0
  BY <1>1 DEF Goes, Start
<1> QED
  BY <1>1, <1>2, <1>3, <1>4

\* When its valve is the first, it sees every message that is not control.
LEMMA FirstSees ==
  ASSUME NEW valves \in Seq(Valve), NEW msg \in Travelling, NEW answers, valves # <<>>,
         \A i \in 1..Len(valves) : valves[i] = "inst" <=> i = 1
  PROVE  Pass(valves, msg, answers).seen = IF IsControl(msg) THEN 0 ELSE 1
<1>1. PICK m : Goes(m, valves, msg, answers) /\ Pass(valves, msg, answers) = m[Len(valves)]
  BY PassGoes
<1>2. PICK n \in Nat : n = Len(valves) /\ 1 \in 0..n /\ n \in 0..n /\ 1 <= n /\ 1 \in 1..n
  OBVIOUS
<1>3. m[n].seen = m[1].seen
  <2>1. \A i \in (1 + 1)..n : valves[i] # "inst"
    BY <1>2
  <2> QED
    BY <1>1, <1>2, <2>1, SeenStays
<1>4. m[0] = Start(msg) /\ m[1] = Through("inst", m[0], answers[1])
  BY <1>1, <1>2 DEF Goes
<1>5. Turns(msg, "inst", m[0], m[1])
  BY <1>4, StartIs, ThroughTurns DEF Valve
<1>6. m[0].msg = msg /\ m[0].out = "passing" /\ m[0].seen = 0
  BY <1>4 DEF Start
<1>7. msg # "nil"
  BY DEF Travelling, Controls
<1>8. m[1].seen = IF IsControl(msg) THEN 0 ELSE 0 + 1
  BY <1>5, <1>6, <1>7, Zenon DEF Turns
<1> QED
  BY <1>1, <1>2, <1>3, <1>8

\* When its valve is the last, it sees those that get through.
LEMMA LastSees ==
  ASSUME NEW valves \in Seq(Valve), NEW msg \in Travelling, NEW answers, valves # <<>>,
         \A i \in 1..Len(valves) : valves[i] = "inst" <=> i = Len(valves),
         NEW p, p = Pass(valves, msg, answers)
  PROVE  /\ p.out = "passing" => p.msg = msg
         /\ p.seen = IF p.out = "passing" /\ ~IsControl(msg) THEN 1 ELSE 0
<1>1. PICK m : Goes(m, valves, msg, answers) /\ p = m[Len(valves)]
  BY PassGoes
<1>2. PICK n \in Nat, k \in Nat :
        n = Len(valves) /\ k = n - 1 /\ 0 \in 0..n /\ k \in 0..n /\ 0 <= k /\ n \in 1..n
  <2>1. Len(valves) \in Nat /\ Len(valves) # 0
    OBVIOUS
  <2> QED
    BY <2>1
<1>3. m[k].seen = m[0].seen
  <2>1. \A i \in (0 + 1)..k : valves[i] # "inst"
    BY <1>2
  <2> QED
    BY <1>1, <1>2, <2>1, SeenStays
<1>4. m[0] = Start(msg) /\ m[n] = Through("inst", m[k], answers[n])
  BY <1>1, <1>2 DEF Goes
<1>5. m[k] \in Messages(msg)
  BY <1>1, <1>2, MessagesGo
<1>6. Turns(msg, "inst", m[k], m[n])
  BY <1>4, <1>5, ThroughTurns DEF Valve
<1>7. m[k].seen = 0
  BY <1>3, <1>4 DEF Start
<1>8. msg # "nil" /\ m[k].msg \in {msg, "nil"}
  BY <1>5 DEF Travelling, Controls, Messages
<1>9. CASE m[k].out # "passing"
  <2>1. m[n] = m[k]
    BY <1>6, <1>9 DEF Turns
  <2> QED
    BY <1>1, <1>2, <1>7, <1>9, <2>1
<1>10. CASE m[k].out = "passing" /\ m[k].msg = "nil"
  <2>1. m[n].out = "panic" /\ m[n].seen = m[k].seen
    BY <1>6, <1>10 DEF Turns
  <2>2. m[n].out # "passing"
    BY <2>1
  <2> QED
    BY <1>1, <1>2, <1>7, <2>1, <2>2
<1>11. CASE m[k].out = "passing" /\ m[k].msg = msg
  <2>1. m[k].msg # "nil"
    BY <1>8, <1>11
  <2>2. /\ m[n].msg = m[k].msg /\ m[n].out = "passing"
        /\ m[n].seen = IF IsControl(m[k].msg) THEN m[k].seen ELSE m[k].seen + 1
    BY <1>6, <1>11, <2>1, Zenon DEF Turns
  <2>3. m[n].msg = msg /\ m[n].seen = IF IsControl(msg) THEN 0 ELSE 0 + 1
    BY <1>7, <1>11, <2>2
  <2> QED
    BY <1>1, <1>2, <2>2, <2>3
<1> QED
  BY <1>8, <1>9, <1>10, <1>11

-----------------------------------------------------------------------------
(* Who is to blame for a message that is not passed on.                     *)

\* Message m is still what it was.
Unharmed(m, msg) == m.out = "passing" /\ m.msg = msg

\* Valve v passes on what it is given.
Harmless(v, answer) == v = "inst" \/ (v = "own" /\ answer = "pass")

\* What one valve does to a message that is still what it was, and to another.
Treats(msg, v, answer, m, r) ==
  /\ Unharmed(m, msg) /\ Harmless(v, answer) => Unharmed(r, msg)
  /\ Unharmed(m, msg) /\ v = "nil" => r.out = "panic"
  /\ Unharmed(m, msg) /\ v = "own" /\ answer # "pass" => ~Unharmed(r, msg)
  /\ ~Unharmed(m, msg) => ~Unharmed(r, msg)
  /\ m.out = "panic" => r.out = "panic"

\* Through does that.
LEMMA ThroughTreats ==
  ASSUME NEW msg \in Travelling, NEW v \in Valve, NEW m \in Messages(msg), NEW answer \in Answers
  PROVE  Treats(msg, v, answer, m, Through(v, m, answer))
<1>0. PICK r : r = Through(v, m, answer)
  OBVIOUS
<1> SUFFICES Treats(msg, v, answer, m, r)
  BY <1>0
<1>1. PICK a \in {msg, "nil"}, b \in Outcomes, c \in Nat :
        m = [msg |-> a, out |-> b, seen |-> c]
  BY DEF Messages
<1>2. m.msg = a /\ m.out = b /\ m.seen = c /\ msg # "nil"
  BY <1>1 DEF Travelling, Controls
<1>3. CASE b # "passing"
  <2>1. r = m
    BY <1>0, <1>2, <1>3 DEF Through
  <2> QED
    BY <1>2, <1>3, <2>1 DEF Treats, Unharmed
<1>4. CASE b = "passing" /\ v = "own"
  <2>1. r = Own(m, answer)
    BY <1>0, <1>2, <1>4 DEF Through
  <2>2. answer = "pass" => r = m
    BY <2>1 DEF Own
  <2>3. answer = "drop" => r.msg = "nil"
    <3>1. answer = "drop" => r = [msg |-> "nil", out |-> b, seen |-> c]
      BY <1>1, <2>1 DEF Own
    <3> QED
      BY <3>1
  <2>4. answer = "fail" => r.out = "error" \/ (r = m /\ a = "nil")
    <3>1. answer = "fail" /\ a # "nil" => r = [msg |-> a, out |-> "error", seen |-> c]
      BY <1>1, <1>2, <2>1 DEF Own
    <3>2. answer = "fail" /\ a = "nil" => r = m
      BY <1>2, <2>1 DEF Own
    <3> QED
      BY <3>1, <3>2
  <2>5. answer \in {"pass", "drop", "fail"}
    BY DEF Answers
  <2>6. ~Unharmed(m, msg) => a = "nil"
    BY <1>2, <1>4 DEF Unharmed
  <2>7. CASE answer = "pass"
    BY <1>2, <1>4, <2>2, <2>7 DEF Treats, Harmless, Valve
  <2>8. CASE answer # "pass"
    <3>1. ~Unharmed(r, msg)
      BY <1>2, <2>3, <2>4, <2>5, <2>8 DEF Unharmed
    <3> QED
      BY <1>2, <1>4, <2>8, <3>1 DEF Treats, Harmless
  <2> QED
    BY <2>7, <2>8
<1>5. CASE b = "passing" /\ v # "own"
  <2>1. Turns(msg, v, m, r)
    BY <1>0, ThroughTurns
  <2>2. v = "inst" \/ v = "nil"
    BY <1>5 DEF Valve
  <2>3. CASE v = "inst" /\ a # "nil"
    <3>0. m.msg # "nil" /\ m.out = "passing"
      BY <1>2, <1>5, <2>3
    <3>1. r.msg = m.msg /\ r.out = "passing"
      BY <2>1, <2>3, <3>0, Zenon DEF Turns
    <3> QED
      BY <1>2, <1>5, <2>3, <3>1 DEF Treats, Unharmed
  <2>4. CASE v = "inst" /\ a = "nil"
    <3>1. r.out = "panic"
      BY <1>2, <1>5, <2>1, <2>4, Zenon DEF Turns
    <3> QED
      BY <1>2, <1>5, <2>4, <3>1 DEF Treats, Unharmed
  <2>5. CASE v = "nil"
    <3>1. r.out = "panic"
      BY <1>2, <1>5, <2>1, <2>5, Zenon DEF Turns
    <3> QED
      BY <1>2, <1>5, <2>5, <3>1 DEF Treats, Unharmed, Harmless
  <2> QED
    BY <2>2, <2>3, <2>4, <2>5
<1> QED
  BY <1>3, <1>4, <1>5

\* The valves before number i pass everything on.
Before(valves, answers, i) == \A j \in 1..(i - 1) : Harmless(valves[j], answers[j])

\* A message has come through the first k valves, or it has met a nil valve, or an
\* own valve has refused it; a refused message never gets well again.
Fate(valves, answers, msg, m, k) ==
  \/ Unharmed(m, msg) /\ \A i \in 1..k : Harmless(valves[i], answers[i])
  \/ m.out = "panic" /\ \E i \in 1..k : valves[i] = "nil"
  \/ ~Unharmed(m, msg) /\ \E i \in 1..k : /\ valves[i] = "own" /\ answers[i] # "pass"
                                        /\ Before(valves, answers, i)

\* One valve more.
LEMMA NextFate ==
  ASSUME NEW k \in Nat, NEW valves, NEW answers, NEW msg \in Travelling,
         NEW m \in Messages(msg), Fate(valves, answers, msg, m, k),
         valves[k + 1] \in Valve, answers[k + 1] \in Answers, NEW r,
         r = Through(valves[k + 1], m, answers[k + 1])
  PROVE  Fate(valves, answers, msg, r, k + 1)
<1>1. PICK v \in Valve, answer \in Answers : v = valves[k + 1] /\ answer = answers[k + 1]
  OBVIOUS
<1>2. Treats(msg, v, answer, m, r)
  BY <1>1, ThroughTreats
<1>3. k + 1 \in 1..(k + 1) /\ \A i \in 1..k : i \in 1..(k + 1)
  OBVIOUS
<1>4. (k + 1) - 1 = k /\ \A i \in 1..(k + 1) : i \in 1..k \/ i = k + 1
  OBVIOUS
<1>5. CASE Unharmed(m, msg) /\ \A i \in 1..k : Harmless(valves[i], answers[i])
  <2>1. CASE Harmless(v, answer)
    <3>1. Unharmed(r, msg)
      BY <1>2, <1>5, <2>1 DEF Treats
    <3> QED
      BY <1>1, <1>4, <1>5, <2>1, <3>1 DEF Fate
  <2>2. CASE v = "nil"
    <3>1. r.out = "panic"
      BY <1>2, <1>5, <2>2 DEF Treats
    <3> QED
      BY <1>1, <1>3, <2>2, <3>1 DEF Fate
  <2>3. CASE v = "own" /\ answer # "pass"
    <3>1. ~Unharmed(r, msg)
      BY <1>2, <1>5, <2>3 DEF Treats
    <3>2. Before(valves, answers, k + 1)
      BY <1>4, <1>5 DEF Before
    <3> QED
      BY <1>1, <1>3, <2>3, <3>1, <3>2 DEF Fate
  <2> QED
    BY <2>1, <2>2, <2>3 DEF Harmless, Valve
<1>6. CASE m.out = "panic" /\ \E i \in 1..k : valves[i] = "nil"
  <2>1. r.out = "panic"
    BY <1>2, <1>6 DEF Treats
  <2> QED
    BY <1>3, <1>6, <2>1 DEF Fate
<1>7. CASE ~Unharmed(m, msg) /\ \E i \in 1..k : /\ valves[i] = "own" /\ answers[i] # "pass"
                                               /\ Before(valves, answers, i)
  <2>1. ~Unharmed(r, msg)
    BY <1>2, <1>7 DEF Treats
  <2> QED
    BY <1>3, <1>7, <2>1 DEF Fate
<1> QED
  BY <1>5, <1>6, <1>7 DEF Fate

\* So it is after all of them.
LEMMA PassFate ==
  ASSUME NEW valves \in Seq(Valve), NEW msg \in Travelling,
         NEW answers \in [DOMAIN valves -> Answers], NEW p, p = Pass(valves, msg, answers)
  PROVE  p \in Messages(msg) /\ Fate(valves, answers, msg, p, Len(valves))
<1>1. PICK n \in Nat : n = Len(valves) /\ DOMAIN valves = 1..n
  OBVIOUS
<1>2. \A k \in 1..n : valves[k] \in Valve /\ answers[k] \in Answers
  BY <1>1
<1>3. PICK m : Goes(m, valves, msg, answers) /\ p = m[n]
  BY <1>1, PassGoes
<1>4. \A k \in 0..n : m[k] \in Messages(msg)
  BY <1>1, <1>3, MessagesGo
<1>5. PICK S : S = {k \in Nat : k <= n => Fate(valves, answers, msg, m[k], k)}
  OBVIOUS
<1>6. 0 \in S
  <2>1. Unharmed(m[0], msg)
    BY <1>3 DEF Goes, Start, Unharmed
  <2>2. Fate(valves, answers, msg, m[0], 0)
    BY <2>1 DEF Fate
  <2> QED
    BY <1>5, <2>2
<1>7. ASSUME NEW k \in Nat, k \in S PROVE k + 1 \in S
  <2> SUFFICES ASSUME k + 1 <= n PROVE Fate(valves, answers, msg, m[k + 1], k + 1)
    BY <1>5
  <2>1. k + 1 \in 1..n /\ (k + 1) - 1 = k /\ k \in 0..n /\ k <= n
    BY <1>1
  <2>2. Fate(valves, answers, msg, m[k], k)
    BY <1>5, <1>7, <2>1
  <2>3. m[k + 1] = Through(valves[k + 1], m[k], answers[k + 1])
    BY <1>1, <1>3, <2>1 DEF Goes
  <2>4. m[k] \in Messages(msg) /\ valves[k + 1] \in Valve /\ answers[k + 1] \in Answers
    BY <1>2, <1>4, <2>1
  <2> QED
    BY <2>2, <2>3, <2>4, NextFate
<1>8. \A k \in Nat : k \in S
  BY <1>6, <1>7, Induction
<1>9. n \in 0..n /\ n <= n
  OBVIOUS
<1> QED
  BY <1>1, <1>3, <1>4, <1>5, <1>8, <1>9

\* An unharmed message was not refused, and one that was not refused is unharmed or
\* has met a nil valve.
Blamed(valves, msg, answers, p) ==
  /\ Unharmed(p, msg) => ~Refuses(valves, answers)
  /\ ~Unharmed(p, msg) /\ ~Refuses(valves, answers) => p.out = "panic" /\ Contains(valves, "nil")

\* Nothing else happens to a message.
LEMMA PassBlamed ==
  ASSUME NEW valves \in Seq(Valve), NEW msg \in Travelling,
         NEW answers \in [DOMAIN valves -> Answers], NEW p, p = Pass(valves, msg, answers)
  PROVE  Blamed(valves, msg, answers, p)
<1>1. PICK n \in Nat : n = Len(valves) /\ DOMAIN valves = 1..n
  OBVIOUS
<1>2. Fate(valves, answers, msg, p, n) /\ p \in Messages(msg)
  BY <1>1, PassFate
<1>3. CASE Unharmed(p, msg) /\ \A i \in 1..n : Harmless(valves[i], answers[i])
  <2>1. ~Refuses(valves, answers)
    BY <1>1, <1>3 DEF Refuses, Harmless
  <2> QED
    BY <1>3, <2>1 DEF Blamed
<1>4. CASE p.out = "panic" /\ \E i \in 1..n : valves[i] = "nil"
  <2>1. ~Unharmed(p, msg)
    BY <1>4 DEF Unharmed
  <2> QED
    BY <1>1, <1>4, <2>1 DEF Blamed, Contains
<1>5. CASE ~Unharmed(p, msg) /\ \E i \in 1..n : /\ valves[i] = "own" /\ answers[i] # "pass"
                                               /\ Before(valves, answers, i)
  <2>1. PICK i \in 1..n : valves[i] = "own" /\ answers[i] # "pass" /\ Before(valves, answers, i)
    BY <1>5
  <2>2. \A j \in 1..(i - 1) : valves[j] # "nil"
    BY <2>1 DEF Before, Harmless
  <2>3. Refuses(valves, answers)
    BY <1>1, <2>1, <2>2 DEF Refuses
  <2> QED
    BY <1>5, <2>3 DEF Blamed
<1> QED
  BY <1>2, <1>3, <1>4, <1>5 DEF Fate

-----------------------------------------------------------------------------
(* The chains that sessions have.                                           *)

\* Prometheus is asked for valves once.
Once(providers) ==
  /\ providers \in Seq(Providers)
  /\ \A i, j \in 1..Len(providers) :
       providers[i] = "prometheus" /\ providers[j] = "prometheus" => i = j

\* An InstrumentValve is first, and a nil valve is behind one of the embedding program.
Chain(c) ==
  /\ c \in Seq(Valve)
  /\ \A i \in 1..Len(c) : c[i] = "inst" => i = 1
  /\ Contains(c, "nil") => Overwritten(c)

\* The chain of a session that has none yet.
LEMMA NoChain == Chain(<<>>) /\ ~Contains(<<>>, "inst")
<1>1. <<>> \in Seq(Valve) /\ \A i \in 1..Len(<<>>) : FALSE
  OBVIOUS
<1> QED
  BY <1>1 DEF Chain, Contains

\* The chains that are built.
LEMMA ChainBuilt ==
  ASSUME NEW providers, Once(providers)
  PROVE  Chain(addValves(providers)) /\ Len(addValves(providers)) = Len(providers)
<1>1. PICK c : c = addValves(providers)
  OBVIOUS
<1>2. providers \in Seq(Providers)
  BY DEF Once
<1>3. PICK n \in Nat : n = Len(providers) /\ \A i \in 1..n : providers[i] \in Providers
  BY <1>2
<1>4. /\ c \in Seq(Valve) /\ Len(c) = n
      /\ \A i \in 1..n : c[i] = IF providers[i] = "own" THEN "own" ELSE IF i = 1 THEN "inst" ELSE "nil"
  BY <1>1, <1>2, <1>3, addValvesIs
<1>5. ASSUME Contains(c, "nil") PROVE Overwritten(c)
  <2>1. PICK i \in 1..n : c[i] = "nil"
    BY <1>4, <1>5 DEF Contains
  <2>2. i # 1 /\ providers[i] = "prometheus" /\ 1 \in 1..n
    BY <1>3, <1>4, <2>1 DEF Providers
  <2>3. providers[1] = "own"
    BY <1>3, <2>2 DEF Once, Providers
  <2>4. c[1] = "own"
    BY <1>4, <2>2, <2>3
  <2> QED
    BY <1>5, <2>4 DEF Overwritten
<1>6. \A i \in 1..Len(c) : c[i] = "inst" => i = 1
  BY <1>4
<1> QED
  BY <1>1, <1>3, <1>4, <1>5, <1>6 DEF Chain

\* A refused message is not passed on, and any other only fails to be if it panics in
\* a chain whose valve of Prometheus is overwritten.
Accounted(c, refuses, result) ==
  /\ refuses => result # "sent"
  /\ result # "sent" /\ ~refuses => result = "panic" /\ Overwritten(c)

\* On the way to a backend, Prometheus sees the messages that are not control.
LEMMA ToBackend ==
  ASSUME NEW c, Chain(c), NEW msg \in Travelling, NEW answers \in [DOMAIN c -> Answers],
         NEW r, r = BeforeTransmit(c, msg, answers)
  PROVE  /\ r.seen = IF Contains(c, "inst") /\ ~IsControl(msg) THEN 1 ELSE 0
         /\ Accounted(c, Refuses(c, answers), r.result)
<1>1. PICK p : p = Pass(c, msg, answers)
  OBVIOUS
<1>2. /\ r.seen = p.seen
      /\ r.result = IF p.out = "panic" THEN "panic"
                    ELSE IF p.out = "error" \/ p.msg = "nil" THEN "discarded" ELSE "sent"
  BY <1>1 DEF BeforeTransmit
<1>5. Accounted(c, Refuses(c, answers), r.result)
  <2>1. Blamed(c, msg, answers, p) /\ p \in Messages(msg)
    BY <1>1, PassBlamed, PassFate DEF Chain
  <2>2. msg # "nil"
    BY DEF Travelling, Controls
  <2>3. r.result = "sent" <=> Unharmed(p, msg)
    BY <1>2, <2>1, <2>2 DEF Unharmed, Messages, Outcomes
  <2>4. p.out = "panic" => r.result = "panic"
    BY <1>2
  <2> QED
    BY <2>1, <2>3, <2>4 DEF Accounted, Blamed, Chain
<1>3. CASE Contains(c, "inst")
  <2>1. c \in Seq(Valve) /\ c # <<>> /\ \A i \in 1..Len(c) : c[i] = "inst" <=> i = 1
    BY <1>3 DEF Chain, Contains
  <2>2. p.seen = IF IsControl(msg) THEN 0 ELSE 1
    BY <1>1, <2>1, FirstSees
  <2> QED
    BY <1>2, <1>3, <2>2, <1>5
<1>4. CASE ~Contains(c, "inst")
  <2>1. c \in Seq(Valve) /\ \A i \in 1..Len(c) : c[i] # "inst"
    BY <1>4 DEF Chain, Contains
  <2>2. p.seen = 0
    BY <1>1, <2>1, NoneSeen
  <2> QED
    BY <1>2, <1>4, <2>2, <1>5
<1> QED
  BY <1>3, <1>4

\* On the way to a client, those that get there.
LEMMA ToClient ==
  ASSUME NEW c, Chain(c), NEW msg \in Travelling, NEW answers \in [DOMAIN c -> Answers],
         NEW r, r = AfterReceive(c, msg, answers)
  PROVE  /\ r.seen = IF Contains(c, "inst") /\ ~IsControl(msg) /\ r.result = "sent" THEN 1 ELSE 0
         /\ Accounted(c, Refuses(Reverse(c), answers), r.result)
<1>1. PICK n \in Nat, rev \in {Reverse(c)} : n = Len(c) /\ rev = Reverse(c)
  BY DEF Chain
<1>2. rev \in Seq(Valve) /\ Len(rev) = n /\ \A i \in 1..n : rev[i] = c[(n - i) + 1]
  BY <1>1 DEF Chain, Reverse
<1>3. PICK p : p = Pass(rev, msg, answers)
  OBVIOUS
<1>4. /\ r.seen = p.seen
      /\ r.result = IF p.out = "error" THEN "error"
                    ELSE IF p.out = "panic" \/ p.msg = "nil" THEN "panic" ELSE "sent"
  BY <1>1, <1>3 DEF AfterReceive, Received
<1>5. p \in Messages(msg) /\ msg # "nil"
  <2>1. PICK m : Goes(m, rev, msg, answers) /\ p = m[n]
    BY <1>2, <1>3, PassGoes
  <2>2. p \in Messages(msg)
    BY <1>2, <2>1, MessagesGo
  <2> QED
    BY <2>2 DEF Travelling, Controls
<1>8. Accounted(c, Refuses(rev, answers), r.result)
  <2>0. DOMAIN rev = 1..n /\ DOMAIN c = 1..n
    BY <1>1, <1>2 DEF Chain
  <2>1. Blamed(rev, msg, answers, p)
    BY <1>2, <1>3, <2>0, PassBlamed
  <2>2. r.result = "sent" <=> Unharmed(p, msg)
    BY <1>4, <1>5 DEF Unharmed, Messages, Outcomes
  <2>3. p.out = "panic" => r.result = "panic"
    BY <1>4
  <2>4. Contains(rev, "nil") => Contains(c, "nil")
    <3> SUFFICES ASSUME NEW i \in 1..n, rev[i] = "nil" PROVE Contains(c, "nil")
      BY <1>2 DEF Contains
    <3>1. (n - i) + 1 \in 1..n
      OBVIOUS
    <3> QED
      BY <1>1, <1>2, <3>1 DEF Contains
  <2> QED
    BY <2>1, <2>2, <2>3, <2>4 DEF Accounted, Blamed, Chain
<1>6. CASE Contains(c, "inst")
  <2>1. n # 0 /\ \A i \in 1..n : c[i] = "inst" <=> i = 1
    BY <1>1, <1>6 DEF Chain, Contains
  <2>2. ASSUME NEW i \in 1..n PROVE rev[i] = "inst" <=> i = n
    <3>1. (n - i) + 1 \in 1..n /\ ((n - i) + 1 = 1 <=> i = n)
      OBVIOUS
    <3> QED
      BY <1>2, <2>1, <3>1
  <2>3. rev # <<>>
    BY <1>2, <2>1
  <2>4. /\ p.out = "passing" => p.msg = msg
        /\ p.seen = IF p.out = "passing" /\ ~IsControl(msg) THEN 1 ELSE 0
    BY <1>2, <1>3, <2>2, <2>3, LastSees
  <2>5. r.result = "sent" <=> p.out = "passing"
    BY <1>4, <1>5, <2>4 DEF Messages, Outcomes
  <2> QED
    BY <1>1, <1>4, <1>6, <2>4, <2>5, <1>8
<1>7. CASE ~Contains(c, "inst")
  <2>1. ASSUME NEW i \in 1..n PROVE rev[i] # "inst"
    <3>1. (n - i) + 1 \in 1..n
      OBVIOUS
    <3> QED
      BY <1>1, <1>2, <1>7, <3>1 DEF Contains
  <2>2. p.seen = 0
    BY <1>2, <1>3, <2>1, NoneSeen
  <2> QED
    BY <1>1, <1>4, <1>7, <2>2, <1>8
<1> QED
  BY <1>6, <1>7

-----------------------------------------------------------------------------
(* Providers and chains in every state.                                     *)

Owns(providers) == {i \in DOMAIN providers : providers[i] = "own"}

\* Prometheus is added when the admin server gets ready, once.
ProviderInv ==
  /\ Once(valveProvider)
  /\ admin # "up" => \A i \in 1..Len(valveProvider) : valveProvider[i] # "prometheus"
  /\ Cardinality(Owns(valveProvider)) <= MaxOwn

\* A session has no chain, and loses no message, until it is served.
ChainInv ==
  /\ session \in [Sessions -> {"none", "served", "open", "closed"}]
  /\ messageValves \in [Sessions -> Seq(Valve)]
  /\ \A s \in Sessions : Chain(messageValves[s]) /\ Len(messageValves[s]) <= MaxOwn + 1
  /\ lost \in [Sessions -> SUBSET (1..MaxMessages)]
  /\ refused \in [Sessions -> SUBSET (1..MaxMessages)]
  /\ crashed \in BOOLEAN /\ messages \in 0..MaxMessages
  /\ \A s \in Sessions : session[s] = "none" => messageValves[s] = <<>> /\ lost[s] = {}
  /\ OnlyOwnValvesHarm

\* There are no more providers than those of the embedding program and Prometheus.
LEMMA ProvidersBounded ==
  ASSUME NEW providers, Once(providers), Cardinality(Owns(providers)) <= MaxOwn
  PROVE  Len(providers) <= MaxOwn + 1
<1>1. PICK n \in Nat : /\ n = Len(providers) /\ DOMAIN providers = 1..n
                     /\ \A i \in 1..n : providers[i] \in {"own", "prometheus"}
  BY DEF Once, Providers
<1>2. IsFiniteSet(1..n) /\ Cardinality(1..n) = n
  BY FS_Interval
<1>3. CASE \A i \in 1..n : providers[i] # "prometheus"
  <2>1. Owns(providers) = 1..n
    BY <1>1, <1>3 DEF Owns
  <2> QED
    BY <1>1, <1>2, <2>1, CompositionAssumption
<1>4. ASSUME NEW j \in 1..n, providers[j] = "prometheus" PROVE n <= MaxOwn + 1
  <2>1. Owns(providers) = (1..n) \ {j}
    BY <1>1, <1>4 DEF Owns, Once
  <2>2. Cardinality((1..n) \ {j}) = n - 1
    BY <1>2, FS_RemoveElement
  <2> QED
    BY <2>1, <2>2, CompositionAssumption
<1> QED
  BY <1>1, <1>3, <1>4

\* One more provider, and Prometheus only if it was not there.
LEMMA OneMore ==
  ASSUME NEW providers, Once(providers), NEW provider \in Providers,
         provider = "prometheus" => \A i \in 1..Len(providers) : providers[i] # "prometheus",
         NEW new, new = Append(providers, provider)
  PROVE  /\ Once(new)
         /\ Cardinality(Owns(new)) =
              Cardinality(Owns(providers)) + (IF provider = "own" THEN 1 ELSE 0)
         /\ provider # "prometheus" /\ (\A i \in 1..Len(providers) : providers[i] # "prometheus") =>
              \A i \in 1..Len(new) : new[i] # "prometheus"
<1>1. PICK n \in Nat : n = Len(providers) /\ DOMAIN providers = 1..n
  BY DEF Once
<1>2. /\ new \in Seq(Providers) /\ Len(new) = n + 1 /\ DOMAIN new = 1..(n + 1)
      /\ new[n + 1] = provider /\ \A i \in 1..n : new[i] = providers[i]
  BY <1>1, AppendProperties DEF Once
<1>3. \A i \in 1..(n + 1) : i \in 1..n \/ i = n + 1
  OBVIOUS
<1>4. Once(new)
  BY <1>1, <1>2, <1>3 DEF Once
<1>5. Owns(new) = IF provider = "own" THEN Owns(providers) \cup {n + 1} ELSE Owns(providers)
  BY <1>1, <1>2, <1>3 DEF Owns
<1>6. IsFiniteSet(Owns(providers)) /\ n + 1 \notin Owns(providers)
  <2>1. Owns(providers) \in SUBSET (1..n) /\ n + 1 \notin 1..n
    BY <1>1 DEF Owns
  <2>2. IsFiniteSet(1..n)
    BY FS_Interval
  <2> QED
    BY <2>1, <2>2, FS_Subset
<1>7. /\ Cardinality(Owns(providers)) \in Nat
      /\ Cardinality(Owns(providers) \cup {n + 1}) = Cardinality(Owns(providers)) + 1
  BY <1>6, FS_AddElement, FS_CardinalityType
<1>8. Cardinality(Owns(new)) =
        Cardinality(Owns(providers)) + (IF provider = "own" THEN 1 ELSE 0)
  BY <1>5, <1>7
<1> QED
  BY <1>1, <1>2, <1>3, <1>4, <1>8

\* They can be counted.
LEMMA CardinalityOwns == \A providers : Once(providers) => Cardinality(Owns(providers)) \in Nat
<1> SUFFICES ASSUME NEW providers, Once(providers) PROVE Cardinality(Owns(providers)) \in Nat
  OBVIOUS
<1>1. PICK n \in Nat : DOMAIN providers = 1..n
  BY DEF Once
<1>2. Owns(providers) \in SUBSET (1..n) /\ IsFiniteSet(1..n)
  BY <1>1, FS_Interval DEF Owns
<1> QED
  BY <1>2, FS_Subset, FS_CardinalityType

\* So every provider there is may be asked for valves.
LEMMA ProviderStep ==
  ProviderInv /\ [Next]_vars => ProviderInv'
<1> SUFFICES ASSUME ProviderInv, [Next]_vars PROVE ProviderInv'
  OBVIOUS
<1>1. PICK providers : providers = valveProvider
  OBVIOUS
<1>2. PICK new : new = valveProvider'
  OBVIOUS
<1>3. /\ Once(providers) /\ Cardinality(Owns(providers)) <= MaxOwn
      /\ admin # "up" => \A i \in 1..Len(providers) : providers[i] # "prometheus"
  BY <1>1 DEF ProviderInv
<1>4. CASE valveProvider' = valveProvider /\ (admin = "up" => admin' = "up")
  BY <1>4 DEF ProviderInv
<1>5. CASE AttachValves
  <2>1. new = Append(providers, "prometheus") /\ admin = "valves" /\ admin' = "up"
    BY <1>1, <1>2, <1>5 DEF AttachValves, AddValveProvider
  <2>2. "prometheus" \in Providers /\ "prometheus" # "own"
    BY DEF Providers
  <2>3. PICK provider \in Providers :
          provider = "prometheus" /\ provider # "own" /\ new = Append(providers, provider)
    BY <2>1, <2>2
  <2>4. Once(new) /\ Cardinality(Owns(new)) = Cardinality(Owns(providers)) + 0
    BY <1>3, <2>1, <2>3, OneMore
  <2> QED
    BY <1>2, <1>3, <2>1, <2>4, CardinalityOwns DEF ProviderInv
<1>6. CASE Embed
  <2>1. new = Append(providers, "own") /\ admin' = admin /\ Cardinality(Owns(providers)) < MaxOwn
    BY <1>1, <1>2, <1>6 DEF Embed, AddValveProvider, Owns
  <2>3. PICK provider \in Providers :
          provider = "own" /\ provider # "prometheus" /\ new = Append(providers, provider)
    BY <2>1 DEF Providers
  <2>4. /\ Once(new) /\ Cardinality(Owns(new)) = Cardinality(Owns(providers)) + 1
        /\ (\A i \in 1..Len(providers) : providers[i] # "prometheus") =>
             \A i \in 1..Len(new) : new[i] # "prometheus"
    BY <1>3, <2>3, OneMore
  <2> QED
    BY <1>2, <1>3, <2>1, <2>4, CardinalityOwns, CompositionAssumption DEF ProviderInv
<1>7. CASE NewManager
  BY <1>4, <1>7 DEF NewManager, attachVars
<1>8. CASE AttachListener
  BY <1>4, <1>8 DEF AttachListener
<1>9. ASSUME NEW url, NEW id, NEW request, AddBackend(url, id, request) PROVE ProviderInv'
  BY <1>4, <1>9 DEF AddBackend, attachVars
<1>10. ASSUME NEW s \in Sessions, SessionStep(s) PROVE ProviderInv'
  BY <1>4, <1>10 DEF SessionStep, ServeWs, Register, SendToUpstream, ReceiveFromUpstream, attachVars
<1>11. CASE UNCHANGED vars
  BY <1>4, <1>11 DEF vars, attachVars
<1> QED
  BY <1>5, <1>6, <1>7, <1>8, <1>9, <1>10, <1>11 DEF Next, SessionStep

\* A session that is served gets a chain, ...
LEMMA ServeWsChain ==
  ASSUME ProviderInv, ChainInv, NEW s \in Sessions, NEW i, ServeWs(s, i)
  PROVE  ChainInv'
<1>1. PICK c : c = addValves(valveProvider)
  OBVIOUS
<1>2. /\ session[s] = "none" /\ session' = [session EXCEPT ![s] = "served"]
      /\ messageValves' = [messageValves EXCEPT ![s] = c]
      /\ UNCHANGED <<lost, refused, crashed, messages>>
  BY <1>1 DEF ServeWs, endVars
<1>3. Chain(c) /\ Len(c) <= MaxOwn + 1 /\ c \in Seq(Valve)
  <2>1. Once(valveProvider) /\ Cardinality(Owns(valveProvider)) <= MaxOwn
    BY DEF ProviderInv
  <2>2. Len(valveProvider) <= MaxOwn + 1
    BY <2>1, ProvidersBounded
  <2>3. Chain(c) /\ Len(c) = Len(valveProvider)
    BY <1>1, <2>1, ChainBuilt
  <2> QED
    BY <2>2, <2>3 DEF Chain
<1>4. lost[s] = {}
  BY <1>2 DEF ChainInv
<1>5. /\ messageValves' \in [Sessions -> Seq(Valve)] /\ messageValves'[s] = c
      /\ \A t \in Sessions \ {s} : messageValves'[t] = messageValves[t]
      /\ session' \in [Sessions -> {"none", "served", "open", "closed"}] /\ session'[s] = "served"
      /\ \A t \in Sessions \ {s} : session'[t] = session[t]
  BY <1>2, <1>3 DEF ChainInv
<1>6. \A t \in Sessions : Chain(messageValves'[t]) /\ Len(messageValves'[t]) <= MaxOwn + 1
  BY <1>3, <1>5 DEF ChainInv
<1>7. \A t \in Sessions : session'[t] = "none" => messageValves'[t] = <<>> /\ lost'[t] = {}
  BY <1>2, <1>5 DEF ChainInv
<1>8. OnlyOwnValvesHarm'
  BY <1>2, <1>4, <1>5 DEF ChainInv, OnlyOwnValvesHarm
<1> QED
  BY <1>2, <1>5, <1>6, <1>7, <1>8 DEF ChainInv

\* ... and keeps it, whatever becomes of its messages.
LEMMA MessageChain ==
  ASSUME ChainInv, NEW s \in Sessions, ~crashed, session[s] # "none",
         messageValves' = messageValves,
         \/ session' = session
         \/ \E state \in {"open", "closed"} : session' = [session EXCEPT ![s] = state],
         NEW valves, NEW answers, NEW result, ReadMessage(s, valves, answers, result),
         Accounted(messageValves[s], Refuses(valves, answers), result)
  PROVE  ChainInv'
<1>1. PICK m \in 1..MaxMessages, refuses \in BOOLEAN :
        /\ m = messages + 1 /\ messages' = m /\ (refuses <=> Refuses(valves, answers))
        /\ lost' = [lost EXCEPT ![s] = IF result = "sent" THEN @ ELSE @ \cup {m}]
        /\ refused' = [refused EXCEPT ![s] = IF refuses THEN @ \cup {m} ELSE @]
        /\ crashed' = (result = "panic")
  <2>1. messages + 1 \in 1..MaxMessages
    BY CompositionAssumption DEF ReadMessage, ChainInv
  <2> QED
    BY <2>1 DEF ReadMessage
<1>2. /\ lost' \in [Sessions -> SUBSET (1..MaxMessages)]
      /\ refused' \in [Sessions -> SUBSET (1..MaxMessages)]
      /\ lost'[s] = IF result = "sent" THEN lost[s] ELSE lost[s] \cup {m}
      /\ refused'[s] = IF refuses THEN refused[s] \cup {m} ELSE refused[s]
      /\ \A t \in Sessions \ {s} : lost'[t] = lost[t] /\ refused'[t] = refused[t]
      /\ crashed' \in BOOLEAN /\ messages' \in 0..MaxMessages
  BY <1>1, CompositionAssumption DEF ChainInv
<1>3. /\ session' \in [Sessions -> {"none", "served", "open", "closed"}]
      /\ session'[s] # "none" /\ \A t \in Sessions \ {s} : session'[t] = session[t]
  BY DEF ChainInv
<1>4. \A t \in Sessions : lost[t] = refused[t]
  BY DEF ChainInv, OnlyOwnValvesHarm
<1>5. /\ refuses => result # "sent"
      /\ result # "sent" /\ ~refuses => result = "panic" /\ Overwritten(messageValves[s])
  BY <1>1 DEF Accounted
<1>6. OnlyOwnValvesHarm'
  <2>1. \A t \in Sessions : refused'[t] \subseteq lost'[t]
    BY <1>2, <1>4, <1>5
  <2>2. \A t \in Sessions : \A n \in lost'[t] \ refused'[t] :
          t = s /\ n = m /\ result # "sent" /\ ~refuses
    BY <1>2, <1>4
  <2>3. crashed' => m \in lost'[s]
    BY <1>1, <1>2
  <2> QED
    BY <1>1, <1>5, <2>1, <2>2, <2>3 DEF OnlyOwnValvesHarm
<1>7. \A t \in Sessions : session'[t] = "none" => messageValves'[t] = <<>> /\ lost'[t] = {}
  BY <1>2, <1>3 DEF ChainInv
<1>8. \A t \in Sessions : Chain(messageValves'[t]) /\ Len(messageValves'[t]) <= MaxOwn + 1
  BY DEF ChainInv
<1> QED
  BY <1>2, <1>3, <1>6, <1>7, <1>8 DEF ChainInv

\* The client's messages ...
LEMMA SendChain ==
  ASSUME ChainInv, ~crashed, NEW s \in Sessions, NEW msg \in {"data", "normal"},
         NEW answers \in [DOMAIN messageValves[s] -> Answers], SendToUpstream(s, msg, answers)
  PROVE  ChainInv'
<1>1. PICK c, r : c = messageValves[s] /\ r = BeforeTransmit(c, msg, answers)
  OBVIOUS
<1>2. Chain(c) /\ msg \in Travelling
  BY <1>1 DEF ChainInv, Travelling, Controls
<1>3. Accounted(c, Refuses(c, answers), r.result)
  BY <1>1, <1>2, ToBackend
<1>4. /\ session[s] = "open" /\ messageValves' = messageValves
      /\ ReadMessage(s, c, answers, r.result)
  BY <1>1 DEF SendToUpstream
<1>5. session' = session \/ session' = [session EXCEPT ![s] = "closed"]
  BY DEF SendToUpstream, Leave
<1> QED
  BY <1>1, <1>3, <1>4, <1>5, MessageChain

\* ... and the backend's.
LEMMA ReceiveChain ==
  ASSUME ChainInv, ~crashed, NEW s \in Sessions, NEW msg \in {"data", "normal", "abnormal"},
         NEW answers \in [DOMAIN messageValves[s] -> Answers], ReceiveFromUpstream(s, msg, answers)
  PROVE  ChainInv'
<1>1. PICK c, r : c = messageValves[s] /\ r = AfterReceive(c, msg, answers)
  OBVIOUS
<1>2. Chain(c) /\ msg \in Travelling
  BY <1>1 DEF ChainInv, Travelling, Controls
<1>3. Accounted(c, Refuses(Reverse(c), answers), r.result)
  BY <1>1, <1>2, ToClient
<1>4. /\ session[s] = "open" /\ messageValves' = messageValves
      /\ ReadMessage(s, Reverse(c), answers, r.result)
  BY <1>1 DEF ReceiveFromUpstream
<1>5. session' = session \/ session' = [session EXCEPT ![s] = "closed"]
  BY DEF ReceiveFromUpstream, Leave, Reconnect
<1> QED
  BY <1>1, <1>3, <1>4, <1>5, MessageChain

\* So it is in all steps.
LEMMA ChainStep == ProviderInv /\ ChainInv /\ [Next]_vars => ChainInv'
<1> SUFFICES ASSUME ProviderInv, ChainInv, [Next]_vars PROVE ChainInv'
  OBVIOUS
<1>1. CASE UNCHANGED <<sessionVars, endVars>>
  BY <1>1 DEF sessionVars, endVars, ChainInv, OnlyOwnValvesHarm
<1>2. CASE UNCHANGED vars
  BY <1>1, <1>2 DEF vars
<1>3. CASE NewManager \/ AttachListener \/ AttachValves \/ Embed
  BY <1>1, <1>3 DEF NewManager, AttachListener, AttachValves, Embed
<1>4. ASSUME NEW url, NEW id, NEW request, AddBackend(url, id, request) PROVE ChainInv'
  BY <1>1, <1>4 DEF AddBackend
<1>5. ASSUME NEW s \in Sessions, Register(s) PROVE ChainInv'
  <2>1. /\ session[s] = "served" /\ session' = [session EXCEPT ![s] = "open"]
        /\ UNCHANGED <<messageValves, lost, refused, messages, crashed>>
    BY <1>5 DEF Register, endVars
  <2>2. /\ session' \in [Sessions -> {"none", "served", "open", "closed"}]
        /\ session'[s] # "none" /\ \A t \in Sessions \ {s} : session'[t] = session[t]
    BY <2>1 DEF ChainInv
  <2>3. OnlyOwnValvesHarm'
    BY <2>1 DEF ChainInv, OnlyOwnValvesHarm
  <2> QED
    BY <2>1, <2>2, <2>3 DEF ChainInv
<1> QED
  BY <1>2, <1>3, <1>4, <1>5, ServeWsChain, SendChain, ReceiveChain DEF Next

\* At the start there is nothing.
LEMMA ValvesInit == Init => ProviderInv /\ ChainInv
<1> SUFFICES ASSUME Init PROVE ProviderInv /\ ChainInv
  OBVIOUS
<1>1. ProviderInv
  <2>1. valveProvider = <<>>
    BY DEF Init
  <2>2. Once(valveProvider) /\ Owns(valveProvider) = {} /\ \A i \in 1..Len(valveProvider) : FALSE
    BY <2>1 DEF Once, Owns
  <2> QED
    BY <2>2, FS_EmptySet, CompositionAssumption DEF ProviderInv
<1>2. /\ messageValves = [s \in Sessions |-> <<>>] /\ session = [s \in Sessions |-> "none"]
      /\ lost = [s \in Sessions |-> {}] /\ refused = [s \in Sessions |-> {}]
      /\ crashed = FALSE /\ messages = 0
  BY DEF Init
<1>3. <<>> \in Seq(Valve) /\ Len(<<>>) <= MaxOwn + 1 /\ 0 \in 0..MaxMessages
  BY CompositionAssumption
<1>4. OnlyOwnValvesHarm
  BY <1>2 DEF OnlyOwnValvesHarm
<1> QED
  BY <1>1, <1>2, <1>3, <1>4, NoChain DEF ChainInv

\* For every list of providers, and whatever their valves do: no message that such a
\* valve refuses is passed on, and every other one is, up to one that panics on the nil
\* valve in a chain whose valve of Prometheus its AddValves has overwritten.
THEOREM OwnValvesHarm == Spec => []OnlyOwnValvesHarm
<1>1. ChainInv => OnlyOwnValvesHarm
  BY DEF ChainInv
<1> QED
  BY <1>1, ValvesInit, ProviderStep, ChainStep, PTL DEF Spec

-----------------------------------------------------------------------------
(* Sums over sessions.                                                      *)

\* What the sessions of S have counted, one by one.
Counted(S, count) ==
  {p \in Sessions \X (1..MaxMessages) : p[1] \in S /\ p[2] <= count[p[1]]}

\* It is finite.
LEMMA CountedFinite ==
  \A S, count : /\ IsFiniteSet(Counted(S, count)) /\ Cardinality(Counted(S, count)) \in Nat
<1> SUFFICES ASSUME NEW S, NEW count
             PROVE  IsFiniteSet(Counted(S, count)) /\ Cardinality(Counted(S, count)) \in Nat
  OBVIOUS
<1>1. IsFiniteSet(Sessions) /\ IsFiniteSet(1..MaxMessages)
  BY CompositionAssumption, FS_Interval
<1>2. IsFiniteSet(Sessions \X (1..MaxMessages))
  BY <1>1, FS_Product
<1>3. Counted(S, count) \in SUBSET (Sessions \X (1..MaxMessages))
  BY DEF Counted
<1> QED
  BY <1>2, <1>3, FS_Subset, FS_CardinalityType

\* One session more counts what it has counted.
LEMMA CountedSession ==
  ASSUME NEW T \in SUBSET Sessions, NEW x \in T, NEW count \in [Sessions -> 0..MaxMessages]
  PROVE  Cardinality(Counted(T, count)) = count[x] + Cardinality(Counted(T \ {x}, count))
<1>1. PICK n \in Nat : n = count[x] /\ n <= MaxMessages
  BY CompositionAssumption
<1>2. PICK A, B, C : A = Counted(T, count) /\ B = Counted(T \ {x}, count) /\ C = {x} \X (1..n)
  OBVIOUS
<1>3. A = B \cup C /\ B \cap C = {}
  <2>1. ASSUME NEW y \in T, NEW k \in 1..MaxMessages
        PROVE  <<y, k>> \in A <=> k <= count[y]
    BY <1>2 DEF Counted
  <2>2. ASSUME NEW y \in T, NEW k \in 1..MaxMessages
        PROVE  <<y, k>> \in B <=> y # x /\ k <= count[y]
    BY <1>2 DEF Counted
  <2>3. ASSUME NEW y \in T, NEW k \in 1..MaxMessages
        PROVE  <<y, k>> \in C <=> y = x /\ k <= n
    BY <1>1, <1>2
  <2>4. \A p \in A \cup B \cup C : \E y \in T, k \in 1..MaxMessages : p = <<y, k>>
    <3>1. \A k \in 1..n : k \in 1..MaxMessages
      BY <1>1, CompositionAssumption
    <3> QED
      BY <1>2, <3>1 DEF Counted
  <2>5. \A p \in A \cup B \cup C : (p \in A <=> p \in B \/ p \in C) /\ ~(p \in B /\ p \in C)
    BY <1>1, <2>1, <2>2, <2>3, <2>4
  <2> QED
    BY <2>5
<1>4. IsFiniteSet(C) /\ Cardinality(C) = n
  <2>3. IsFiniteSet({x}) /\ Cardinality({x}) = 1
    BY FS_Singleton
  <2>4. IsFiniteSet(1..n) /\ Cardinality(1..n) = n
    BY FS_Interval
  <2>1. IsFiniteSet({x}) /\ Cardinality({x}) = 1 /\ IsFiniteSet(1..n) /\ Cardinality(1..n) = n
    BY <2>3, <2>4
  <2>2. IsFiniteSet(C) /\ Cardinality(C) = Cardinality({x}) * Cardinality(1..n)
    BY <1>2, <2>1, FS_Product
  <2> QED
    BY <2>1, <2>2
<1>5. IsFiniteSet(B) /\ Cardinality(B) \in Nat
  BY <1>2, CountedFinite
<1>6. Cardinality(A) = Cardinality(B) + Cardinality(C) - 0
  BY <1>3, <1>4, <1>5, FS_Union, FS_EmptySet
<1> QED
  BY <1>1, <1>2, <1>4, <1>5, <1>6

\* The sum adds up the counts.
LEMMA SumIsCounted ==
  ASSUME NEW S \in SUBSET Sessions, NEW count \in [Sessions -> 0..MaxMessages]
  PROVE  SumOver(S, count) = Cardinality(Counted(S, count))
<1> DEFINE Pick(T) == CHOOSE x \in T : TRUE
           Total(T) == Cardinality(Counted(T, count))
<1>1. \A T : T # {} => Pick(T) \in T
  OBVIOUS
<1>2. Total({}) = 0
  <2>1. Counted({}, count) = {}
    BY DEF Counted
  <2> QED
    BY <2>1, FS_EmptySet
<1>3. ASSUME NEW T \in SUBSET S, T # {}
      PROVE  Total(T) = count[Pick(T)] + Total(T \ {Pick(T)})
  <2>1. PICK x \in T : x = Pick(T)
    BY <1>1, <1>3
  <2>2. T \in SUBSET Sessions
    OBVIOUS
  <2>3. Total(T) = count[x] + Total(T \ {x})
    BY <2>2, CountedSession
  <2> QED
    BY <2>1, <2>3
<1>4. PICK f : f = [T \in SUBSET S |-> Total(T)]
  OBVIOUS
<1>5. f = [T \in SUBSET S |-> IF T = {} THEN 0 ELSE count[Pick(T)] + f[T \ {Pick(T)}]]
  <2>1. ASSUME NEW T \in SUBSET S
        PROVE  f[T] = IF T = {} THEN 0 ELSE count[Pick(T)] + f[T \ {Pick(T)}]
    <3>1. T \ {Pick(T)} \in SUBSET S
      OBVIOUS
    <3> HIDE DEF Pick, Total
    <3> QED
      BY <1>2, <1>3, <1>4, <3>1
  <2> HIDE DEF Pick, Total
  <2> QED
    BY <1>4, <2>1
<1>6. PICK g : /\ g = [T \in SUBSET S |-> IF T = {} THEN 0 ELSE count[Pick(T)] + g[T \ {Pick(T)}]]
               /\ SumOver(S, count) = g[S]
  <2> HIDE DEF Total
  <2> QED
    BY <1>5, Zenon DEF SumOver, MapThenSumSet, MapThenFoldSet
<1> HIDE DEF Pick, Total
<1>7. PICK K : K = {k \in Nat : \A T \in SUBSET S : Cardinality(T) = k => g[T] = Total(T)}
  OBVIOUS
<1>8. IsFiniteSet(S) /\ \A T \in SUBSET S : IsFiniteSet(T)
  BY CompositionAssumption, FS_Subset
<1>9. 0 \in K
  <2>1. \A T \in SUBSET S : Cardinality(T) = 0 => T = {}
    BY <1>8, FS_EmptySet
  <2>2. g[{}] = 0
    BY <1>6
  <2> QED
    BY <1>2, <1>7, <2>1, <2>2
<1>10. ASSUME NEW k \in Nat, k \in K PROVE k + 1 \in K
  <2> SUFFICES ASSUME NEW T \in SUBSET S, Cardinality(T) = k + 1 PROVE g[T] = Total(T)
    BY <1>7
  <2>1. T # {}
    BY FS_EmptySet
  <2>2. PICK x \in T : x = Pick(T)
    BY <1>1, <2>1
  <2>7. IsFiniteSet(T)
    BY <1>8
  <2>8. Cardinality(T \ {x}) = Cardinality(T) - 1
    BY <2>7, FS_RemoveElement
  <2>3. IsFiniteSet(T) /\ Cardinality(T \ {x}) = k
    BY <2>7, <2>8
  <2>4. T \ {x} \in SUBSET S
    OBVIOUS
  <2>5. g[T \ {x}] = Total(T \ {x})
    BY <1>7, <1>10, <2>3, <2>4
  <2>6. g[T] = count[x] + g[T \ {x}]
    BY <1>6, <2>1, <2>2
  <2> QED
    BY <1>3, <2>1, <2>2, <2>5, <2>6
<1>11. \A k \in Nat : k \in K
  BY <1>9, <1>10, Induction
<1>12. Cardinality(S) \in K /\ S \in SUBSET S
  BY <1>8, <1>11, FS_CardinalityType
<1>13. g[S] = Total(S)
  BY <1>7, <1>12
<1> QED
  BY <1>6, <1>13 DEF Total

-----------------------------------------------------------------------------
(* What Prometheus measures.                                                *)

\* The sessions of backend l whose messages Prometheus sees.
Measured(l) == {s \in Sessions : Instrumented(s) /\ label[s] = l}

Meters == [l \in Labels |-> Measured(l)]

\* Nothing has been counted more often than n times.
Bounded(D, count, n) == count \in [D -> 0..MaxMessages] /\ \A x \in D : count[x] <= n

\* The meter of a label has what the sessions with that label have counted.
Agree(measured, count, meter) ==
  \A l \in Labels : meter[l] = Cardinality(Counted(measured[l], count))

\* The meters count what the sessions do, as long as the process lives; a session
\* that is not served yet has counted nothing.
MeasureInv ==
  /\ messages \in 0..MaxMessages
  /\ Bounded(Sessions, totalReceived, messages) /\ Bounded(Sessions, totalSent, messages)
  /\ \A s \in Sessions : session[s] = "none" => totalReceived[s] = 0 /\ totalSent[s] = 0
  /\ label \in [Sessions -> Labels \cup {"none"}]
  /\ \A s \in Sessions : session[s] # "none" => label[s] \in Labels
  /\ Bounded(Labels, f2b, messages) /\ Bounded(Labels, b2f, messages)
  /\ ~crashed => Agree(Meters, totalReceived, f2b) /\ Agree(Meters, totalSent, b2f)

\* A message is counted or not.
Bit == {0, 1}

\* Session s has counted d more.
CountsMore(count, new, s, d) ==
  new[s] = count[s] + d /\ \A t \in Sessions \ {s} : new[t] = count[t]

\* The sessions of S have then, if s is one of them.
AllCountMore(S, count, new, s, d) ==
  Cardinality(Counted(S, new)) = Cardinality(Counted(S, count)) + (IF s \in S THEN d ELSE 0)

\* One count more, of a session that belongs to S, is one more of them all.
LEMMA CountOne ==
  ASSUME NEW S \in SUBSET Sessions, NEW s \in Sessions, NEW count \in [Sessions -> 0..MaxMessages],
         NEW d \in Bit, NEW new \in [Sessions -> 0..MaxMessages],
         CountsMore(count, new, s, d)
  PROVE  AllCountMore(S, count, new, s, d)
<1> USE DEF AllCountMore, Bit
<1>1. new[s] = count[s] + d /\ \A t \in Sessions \ {s} : new[t] = count[t]
  BY DEF CountsMore
<1>2. PICK n \in 0..MaxMessages : n = count[s] /\ n + d = new[s] /\ n + d \in 0..MaxMessages
  BY <1>1
<1>3. ASSUME NEW t \in Sessions, NEW k \in 1..MaxMessages, NEW c
      PROVE  <<t, k>> \in Counted(S, c) <=> t \in S /\ k <= c[t]
  BY DEF Counted
<1>4. \A c : \A p \in Counted(S, c) : \E t \in Sessions, k \in 1..MaxMessages : p = <<t, k>>
  BY DEF Counted
<1>5. CASE d = 0 \/ s \notin S
  <2>1. \A t \in S : new[t] = count[t]
    BY <1>1, <1>2, <1>5
  <2>2. Counted(S, new) = Counted(S, count)
    BY <2>1 DEF Counted
  <2> QED
    BY <1>5, <2>2, CountedFinite
<1>6. CASE d = 1 /\ s \in S
  <2>1. n + 1 \in 1..MaxMessages /\ new[s] = n + 1 /\ count[s] = n
    BY <1>2, <1>6, CompositionAssumption
  <2>2. PICK q : q = <<s, n + 1>>
    OBVIOUS
  <2>3. ASSUME NEW t \in Sessions, NEW k \in 1..MaxMessages
        PROVE  <<t, k>> \in Counted(S, new) <=> <<t, k>> \in Counted(S, count) \cup {q}
    <3>1. CASE t = s
      <4>1. k <= n + 1 <=> k <= n \/ k = n + 1
        BY CompositionAssumption
      <4> QED
        BY <1>3, <1>6, <2>1, <2>2, <3>1, <4>1
    <3>2. CASE t # s
      BY <1>1, <1>3, <2>2, <3>2
    <3> QED
      BY <3>1, <3>2
  <2>4. q \in Counted(S, new) /\ q \notin Counted(S, count)
    <3>1. n + 1 <= n + 1 /\ ~(n + 1 <= n)
      OBVIOUS
    <3> QED
      BY <1>3, <1>6, <2>1, <2>2, <3>1
  <2>7. PICK A, B : A = Counted(S, new) /\ B = Counted(S, count)
    OBVIOUS
  <2>8. ASSUME NEW p, p \in A \/ p \in B PROVE p \in A <=> p \in B \cup {q}
    <3>1. PICK t \in Sessions, k \in 1..MaxMessages : p = <<t, k>>
      BY <1>4, <2>7, <2>8, Zenon
    <3> QED
      BY <2>3, <2>7, <3>1, Zenon
  <2>5. Counted(S, new) = Counted(S, count) \cup {q}
    BY <2>4, <2>7, <2>8
  <2>6. Cardinality(Counted(S, count) \cup {q}) = Cardinality(Counted(S, count)) + 1
    BY <2>4, CountedFinite, FS_AddElement
  <2> QED
    BY <1>6, <2>5, <2>6
<1> QED
  BY <1>5, <1>6

\* x has been counted d times more.
Adds(count, new, x, d) == new = [count EXCEPT ![x] = @ + d]

\* After one more there is nothing that has been counted more than n + 1 times.
LEMMA BoundedMore ==
  ASSUME NEW n \in Nat, n < MaxMessages, NEW D, NEW count, Bounded(D, count, n),
         NEW x \in D, NEW d \in Bit, NEW new, Adds(count, new, x, d)
  PROVE  Bounded(D, new, n + 1)
<1>1. MaxMessages \in Nat
  BY CompositionAssumption
<1>2. count \in [D -> 0..MaxMessages] /\ \A y \in D : count[y] \in 0..MaxMessages /\ count[y] <= n
  BY DEF Bounded
<1>3. \A y \in D : new[y] = IF y = x THEN count[y] + d ELSE count[y]
  BY <1>2 DEF Adds
<1>4. \A y \in D : new[y] \in 0..MaxMessages /\ new[y] <= n + 1
  BY <1>1, <1>2, <1>3 DEF Bit
<1> QED
  BY <1>2, <1>4 DEF Bounded, Adds

\* A message that Prometheus sees exactly when its session counts it keeps that so.
LEMMA MeterFollows ==
  ASSUME NEW measured, measured \in [Labels -> SUBSET Sessions], NEW s \in Sessions, NEW l0 \in Labels,
         \A l \in Labels : s \in measured[l] => l = l0,
         NEW count, count \in [Sessions -> 0..MaxMessages],
         NEW meter, meter \in [Labels -> 0..MaxMessages],
         NEW d \in Bit, NEW new, Adds(count, new, s, d),
         new \in [Sessions -> 0..MaxMessages],
         NEW seen \in Bit, seen = (IF s \in measured[l0] THEN d ELSE 0),
         NEW newMeter, Adds(meter, newMeter, l0, seen),
         Agree(measured, count, meter)
  PROVE  Agree(measured, new, newMeter)
<1>1. ASSUME NEW l \in Labels
      PROVE  newMeter[l] = Cardinality(Counted(measured[l], new))
  <2>1. PICK S \in SUBSET Sessions : S = measured[l]
    OBVIOUS
  <2>2. CountsMore(count, new, s, d)
    BY DEF CountsMore, Adds
  <2>3. AllCountMore(S, count, new, s, d)
    BY <2>2, CountOne, Zenon
  <2>4. Cardinality(Counted(S, new)) =
          Cardinality(Counted(S, count)) + (IF s \in S THEN d ELSE 0)
    BY <2>3 DEF AllCountMore
  <2>5. newMeter[l] = meter[l] + (IF s \in S THEN d ELSE 0)
    <3>1. newMeter[l] = IF l = l0 THEN meter[l] + seen ELSE meter[l]
      BY DEF Adds
    <3>2. meter[l] \in Nat
      BY CompositionAssumption
    <3>3. CASE l = l0
      BY <2>1, <3>1, <3>3
    <3>4. CASE l # l0
      BY <2>1, <3>1, <3>2, <3>4
    <3> QED
      BY <3>3, <3>4
  <2>6. meter[l] = Cardinality(Counted(S, count))
    BY <2>1 DEF Agree
  <2> QED
    BY <2>1, <2>4, <2>5, <2>6
<1> QED
  BY <1>1 DEF Agree

\* A session is served with the id of a backend.
LEMMA IdIsLabel ==
  ASSUME ConfigInv, phase = "running", NEW i \in DOMAIN config.backends
  PROVE  backendID(i) \in Labels
<1>1. /\ config.backends[i] \in Backends /\ given[i] \in Gifts
      /\ Resolved(config.backends[i], given[i])
  <2>1. AllResolved(config.backends, given)
    BY DEF ConfigInv
  <2>2. i \in 1..Len(config.backends) /\ i \in 1..Len(given)
    BY <2>1 DEF AllResolved
  <2> QED
    BY <2>1, <2>2 DEF AllResolved
<1>2. CASE given[i].id = "unset"
  <2>1. config.backends[i].id = NormalizeForID(config.backends[i].url) /\ config.backends[i].url \in Urls
    BY <1>1, <1>2 DEF Resolved, Backends
  <2> QED
    BY <2>1 DEF Labels, backendID
<1>3. CASE given[i].id # "unset"
  <2>1. config.backends[i].id = given[i].id /\ given[i].id \in Ids
    BY <1>1, <1>3 DEF Resolved, Gifts
  <2> QED
    BY <2>1 DEF Labels, backendID
<1> QED
  BY <1>2, <1>3

\* A new session has counted nothing, so the meters need not count anything of it.
LEMMA ServeWsMeasure ==
  ASSUME ConfigInv, MeasureInv, NEW s \in Sessions, NEW i \in DOMAIN config.backends,
         ServeWs(s, i)
  PROVE  MeasureInv'
<1>1. /\ phase = "running" /\ session[s] = "none"
      /\ session' = [session EXCEPT ![s] = "served"]
      /\ label' = [label EXCEPT ![s] = backendID(i)]
      /\ \A t \in Sessions \ {s} : messageValves'[t] = messageValves[t]
      /\ UNCHANGED <<totalReceived, totalSent, f2b, b2f, messages, crashed>>
  BY DEF ServeWs, meterVars, endVars
<1>2. PICK id \in Labels : id = backendID(i)
  BY <1>1, IdIsLabel
<1>3. /\ label' \in [Sessions -> Labels \cup {"none"}] /\ label'[s] = id
      /\ \A t \in Sessions \ {s} : label'[t] = label[t]
  BY <1>1, <1>2 DEF MeasureInv
<1>4. \A t \in Sessions \ {s} : session'[t] = session[t]
  BY <1>1
<1>5. totalReceived[s] = 0 /\ totalSent[s] = 0
  BY <1>1 DEF MeasureInv
<1>6. ASSUME NEW l, NEW count, count[s] = 0
      PROVE  Counted(Measured(l)', count) = Counted(Measured(l), count)
  <2>1. PICK A, B : A = Measured(l) /\ B = Measured(l)'
    OBVIOUS
  <2>2. \A t \in Sessions \ {s} : t \in A <=> t \in B
    BY <1>1, <1>3, <2>1 DEF Measured, Instrumented
  <2>3. \A t \in Sessions, k \in 1..MaxMessages : k <= count[t] => t # s
    BY <1>6, CompositionAssumption
  <2>4. Counted(B, count) = Counted(A, count)
    BY <2>2, <2>3 DEF Counted
  <2> QED
    BY <2>1, <2>4
<1>7. \A l : /\ Cardinality(Counted(Measured(l)', totalReceived)) =
                  Cardinality(Counted(Measured(l), totalReceived))
             /\ Cardinality(Counted(Measured(l)', totalSent)) =
                  Cardinality(Counted(Measured(l), totalSent))
  BY <1>5, <1>6
<1>8. \A t \in Sessions : /\ session'[t] = "none" => totalReceived[t] = 0 /\ totalSent[t] = 0
                          /\ session'[t] # "none" => label'[t] \in Labels
  BY <1>3, <1>4, <1>5 DEF MeasureInv
<1>9. ~crashed => Agree(Meters', totalReceived, f2b) /\ Agree(Meters', totalSent, b2f)
  BY <1>7 DEF MeasureInv, Agree, Meters
<1>10. /\ Bounded(Sessions, totalReceived, messages)' /\ Bounded(Sessions, totalSent, messages)'
       /\ Bounded(Labels, f2b, messages)' /\ Bounded(Labels, b2f, messages)'
  BY <1>1 DEF MeasureInv, Bounded
<1> QED
  BY <1>1, <1>3, <1>8, <1>9, <1>10 DEF MeasureInv

\* The sessions by backend.
LEMMA MetersAre ==
  ASSUME NEW s \in Sessions
  PROVE  /\ Meters \in [Labels -> SUBSET Sessions]
         /\ \A l \in Labels : s \in Meters[l] <=> Instrumented(s) /\ l = label[s]
BY DEF Measured, Meters

\* A message that a session counts, and a meter with it.
LEMMA Metered ==
  ASSUME MeasureInv, NEW s \in Sessions, session[s] = "open",
         NEW count, Bounded(Sessions, count, messages),
         NEW meter, Bounded(Labels, meter, messages),
         messages < MaxMessages, NEW d \in Bit, NEW new, Adds(count, new, s, d),
         NEW seen \in Bit, NEW newMeter, Adds(meter, newMeter, label[s], seen)
  PROVE  /\ Bounded(Sessions, new, messages + 1) /\ Bounded(Labels, newMeter, messages + 1)
         /\ seen = (IF Instrumented(s) THEN d ELSE 0) /\ Agree(Meters, count, meter) =>
              Agree(Meters, new, newMeter)
<1>1. PICK n \in Nat, l0 \in Labels, measured \in {Meters} :
        n = messages /\ n < MaxMessages /\ l0 = label[s] /\ measured = Meters
  BY CompositionAssumption DEF MeasureInv
<1>2. /\ Adds(meter, newMeter, l0, seen)
      /\ Bounded(Sessions, count, n) /\ Bounded(Labels, meter, n)
  BY <1>1
<1>6. Bounded(Sessions, new, n + 1)
  BY <1>1, <1>2, BoundedMore, Zenon
<1>7. Bounded(Labels, newMeter, n + 1)
  BY <1>1, <1>2, BoundedMore, Zenon
<1>3. Bounded(Sessions, new, n + 1) /\ Bounded(Labels, newMeter, n + 1)
  BY <1>6, <1>7
<1>4. /\ measured \in [Labels -> SUBSET Sessions]
      /\ \A l \in Labels : s \in measured[l] => l = l0
      /\ s \in measured[l0] <=> Instrumented(s)
  BY <1>1, MetersAre
<1>5. ASSUME seen = (IF Instrumented(s) THEN d ELSE 0), Agree(measured, count, meter)
      PROVE  Agree(measured, new, newMeter)
  <2>1. seen = (IF s \in measured[l0] THEN d ELSE 0)
    BY <1>4, <1>5
  <2>2. count \in [Sessions -> 0..MaxMessages] /\ meter \in [Labels -> 0..MaxMessages]
        /\ new \in [Sessions -> 0..MaxMessages]
    BY <1>3 DEF Bounded
  <2> QED
    BY <1>2, <1>4, <1>5, <2>1, <2>2, MeterFollows, Zenon
<1> QED
  BY <1>1, <1>3, <1>5

\* A bound remains one when it grows.
LEMMA BoundedStays ==
  ASSUME NEW n \in Nat, NEW D, NEW count, Bounded(D, count, n)
  PROVE  Bounded(D, count, n + 1)
<1>1. \A x \in D : count[x] \in 0..MaxMessages /\ count[x] <= n
  BY DEF Bounded
<1> QED
  BY <1>1, CompositionAssumption DEF Bounded

\* What remains of the invariant when a message goes either way.
LEMMA MeasureMoves ==
  ASSUME ChainInv, MeasureInv, ~crashed, NEW s \in Sessions, session[s] = "open",
         session' = session \/ session' = [session EXCEPT ![s] = "closed"],
         UNCHANGED <<label, messageValves>>,
         messages < MaxMessages, messages' = messages + 1,
         \A t \in Sessions \ {s} : totalReceived'[t] = totalReceived[t] /\ totalSent'[t] = totalSent[t],
         Bounded(Sessions, totalReceived', messages + 1), Bounded(Sessions, totalSent', messages + 1),
         Bounded(Labels, f2b', messages + 1), Bounded(Labels, b2f', messages + 1),
         ~crashed' => Agree(Meters, totalReceived', f2b') /\ Agree(Meters, totalSent', b2f')
  PROVE  MeasureInv'
<1>1. messages' \in 0..MaxMessages
  BY CompositionAssumption DEF MeasureInv
<1>2. Meters' = Meters
  BY DEF Meters, Measured, Instrumented
<1>3. session'[s] # "none" /\ \A t \in Sessions \ {s} : session'[t] = session[t]
  BY DEF ChainInv
<1>4. \A t \in Sessions : /\ session'[t] = "none" => totalReceived'[t] = 0 /\ totalSent'[t] = 0
                          /\ session'[t] # "none" => label[t] \in Labels
  BY <1>3 DEF MeasureInv
<1> QED
  BY <1>1, <1>2, <1>4 DEF MeasureInv

\* The client's messages are measured on the way to the backend ...
LEMMA SendMeasure ==
  ASSUME ChainInv, MeasureInv, ~crashed, NEW s \in Sessions, NEW msg \in {"data", "normal"},
         NEW answers \in [DOMAIN messageValves[s] -> Answers], SendToUpstream(s, msg, answers)
  PROVE  MeasureInv'
<1>1. PICK c, r : c = messageValves[s] /\ r = BeforeTransmit(c, msg, answers)
  OBVIOUS
<1>2. Chain(c) /\ msg \in Travelling
  BY <1>1 DEF ChainInv, Travelling, Controls
<1>3. PICK d \in Bit : d = IF IsControl(msg) THEN 0 ELSE 1
  BY DEF Bit
<1>4. PICK seen \in Bit : seen = r.seen /\ seen = IF Instrumented(s) THEN d ELSE 0
  <2>1. r.seen = IF Contains(c, "inst") /\ ~IsControl(msg) THEN 1 ELSE 0
    BY <1>1, <1>2, ToBackend
  <2> QED
    BY <1>1, <1>3, <2>1 DEF Instrumented, Bit
<1>5. /\ session[s] = "open" /\ UNCHANGED <<totalSent, b2f, label, messageValves>>
      /\ session' = session \/ session' = [session EXCEPT ![s] = "closed"]
      /\ messages < MaxMessages /\ messages' = messages + 1
  BY DEF SendToUpstream, Leave, ReadMessage
<1>6. /\ totalReceived' = [totalReceived EXCEPT ![s] = @ + d]
      /\ f2b' = [f2b EXCEPT ![label[s]] = @ + seen]
  <2>1. /\ totalReceived' = [totalReceived EXCEPT ![s] = IF IsControl(msg) THEN @ ELSE @ + 1]
        /\ f2b' = [f2b EXCEPT ![label[s]] = @ + seen]
    BY <1>1, <1>4 DEF SendToUpstream, Observe
  <2>2. totalReceived[s] + 0 = totalReceived[s]
    BY CompositionAssumption DEF MeasureInv, Bounded
  <2> QED
    BY <1>3, <2>1, <2>2
<1>7. /\ Bounded(Sessions, totalReceived', messages + 1) /\ Bounded(Labels, f2b', messages + 1)
      /\ Agree(Meters, totalReceived, f2b) => Agree(Meters, totalReceived', f2b')
  <2>1. PICK count, new, meter, newMeter :
          count = totalReceived /\ new = totalReceived' /\ meter = f2b /\ newMeter = f2b'
    OBVIOUS
  <2>2. Bounded(Sessions, count, messages) /\ Bounded(Labels, meter, messages)
    BY <2>1 DEF MeasureInv
  <2>3. Adds(count, new, s, d) /\ Adds(meter, newMeter, label[s], seen)
    BY <1>6, <2>1 DEF Adds
  <2>4. /\ Bounded(Sessions, new, messages + 1) /\ Bounded(Labels, newMeter, messages + 1)
        /\ seen = (IF Instrumented(s) THEN d ELSE 0) /\ Agree(Meters, count, meter) =>
             Agree(Meters, new, newMeter)
    BY <1>5, <2>2, <2>3, Metered, Zenon
  <2> QED
    BY <1>4, <2>1, <2>4
<1>8. Bounded(Sessions, totalSent, messages + 1) /\ Bounded(Labels, b2f, messages + 1)
  BY BoundedStays, CompositionAssumption DEF MeasureInv
<1>9. \A t \in Sessions \ {s} : totalReceived'[t] = totalReceived[t]
  BY <1>6 DEF MeasureInv, Bounded
<1> QED
  BY <1>5, <1>7, <1>8, <1>9, MeasureMoves DEF MeasureInv

\* ... and the backend's when they have got to the client.
LEMMA ReceiveMeasure ==
  ASSUME ChainInv, MeasureInv, ~crashed, NEW s \in Sessions,
         NEW msg \in {"data", "normal", "abnormal"},
         NEW answers \in [DOMAIN messageValves[s] -> Answers], ReceiveFromUpstream(s, msg, answers)
  PROVE  MeasureInv'
<1>1. PICK c, r : c = messageValves[s] /\ r = AfterReceive(c, msg, answers)
  OBVIOUS
<1>2. Chain(c) /\ msg \in Travelling /\ (IsControl(msg) <=> msg # "data")
  BY <1>1 DEF ChainInv, Travelling, Controls, IsControl
<1>3. PICK d \in Bit : d = IF msg = "data" /\ r.result = "sent" THEN 1 ELSE 0
  BY DEF Bit
<1>4. PICK seen \in Bit : seen = r.seen /\ seen = IF Instrumented(s) THEN d ELSE 0
  <2>1. r.seen = IF Contains(c, "inst") /\ ~IsControl(msg) /\ r.result = "sent" THEN 1 ELSE 0
    BY <1>1, <1>2, ToClient
  <2> QED
    BY <1>1, <1>2, <1>3, <2>1 DEF Instrumented, Bit
<1>5. /\ session[s] = "open" /\ UNCHANGED <<totalReceived, f2b, label, messageValves>>
      /\ session' = session \/ session' = [session EXCEPT ![s] = "closed"]
      /\ messages < MaxMessages /\ messages' = messages + 1
  BY DEF ReceiveFromUpstream, Leave, Reconnect, ReadMessage
<1>6. /\ totalSent' = [totalSent EXCEPT ![s] = @ + d]
      /\ b2f' = [b2f EXCEPT ![label[s]] = @ + seen]
  <2>1. /\ totalSent' = [totalSent EXCEPT
                           ![s] = IF msg = "data" /\ r.result = "sent" THEN @ + 1 ELSE @]
        /\ b2f' = [b2f EXCEPT ![label[s]] = @ + seen]
    BY <1>1, <1>4 DEF ReceiveFromUpstream, Observe
  <2>2. totalSent[s] + 0 = totalSent[s]
    BY CompositionAssumption DEF MeasureInv, Bounded
  <2> QED
    BY <1>3, <2>1, <2>2
<1>7. /\ Bounded(Sessions, totalSent', messages + 1) /\ Bounded(Labels, b2f', messages + 1)
      /\ Agree(Meters, totalSent, b2f) => Agree(Meters, totalSent', b2f')
  <2>1. PICK count, new, meter, newMeter :
          count = totalSent /\ new = totalSent' /\ meter = b2f /\ newMeter = b2f'
    OBVIOUS
  <2>2. Bounded(Sessions, count, messages) /\ Bounded(Labels, meter, messages)
    BY <2>1 DEF MeasureInv
  <2>3. Adds(count, new, s, d) /\ Adds(meter, newMeter, label[s], seen)
    BY <1>6, <2>1 DEF Adds
  <2>4. /\ Bounded(Sessions, new, messages + 1) /\ Bounded(Labels, newMeter, messages + 1)
        /\ seen = (IF Instrumented(s) THEN d ELSE 0) /\ Agree(Meters, count, meter) =>
             Agree(Meters, new, newMeter)
    BY <1>5, <2>2, <2>3, Metered, Zenon
  <2> QED
    BY <1>4, <2>1, <2>4
<1>8. Bounded(Sessions, totalReceived, messages + 1) /\ Bounded(Labels, f2b, messages + 1)
  BY BoundedStays, CompositionAssumption DEF MeasureInv
<1>9. \A t \in Sessions \ {s} : totalSent'[t] = totalSent[t]
  BY <1>6 DEF MeasureInv, Bounded
<1> QED
  BY <1>5, <1>7, <1>8, <1>9, MeasureMoves DEF MeasureInv

\* So the meters are right after every step.
LEMMA MeasureStep ==
  ConfigInv /\ ChainInv /\ MeasureInv /\ [Next]_vars => MeasureInv'
<1> SUFFICES ASSUME ConfigInv, ChainInv, MeasureInv, [Next]_vars PROVE MeasureInv'
  OBVIOUS
<1>1. CASE UNCHANGED <<session, messageValves, label, totalReceived, totalSent, f2b, b2f,
                       messages, crashed>>
  <2>1. Meters' = Meters
    BY <1>1 DEF Meters, Measured, Instrumented
  <2> QED
    BY <1>1, <2>1 DEF MeasureInv
<1>2. CASE UNCHANGED <<sessionVars, meterVars, endVars>>
  BY <1>1, <1>2 DEF sessionVars, meterVars, endVars
<1>3. CASE UNCHANGED vars
  BY <1>2, <1>3 DEF vars
<1>4. CASE NewManager \/ AttachListener \/ AttachValves \/ Embed
  BY <1>2, <1>4 DEF NewManager, AttachListener, AttachValves, Embed
<1>5. ASSUME NEW url, NEW id, NEW request, AddBackend(url, id, request) PROVE MeasureInv'
  BY <1>2, <1>5 DEF AddBackend
<1>6. ASSUME NEW s \in Sessions, Register(s) PROVE MeasureInv'
  <2>1. /\ session[s] = "served" /\ session' = [session EXCEPT ![s] = "open"]
        /\ UNCHANGED <<messageValves, label, totalReceived, totalSent, f2b, b2f, messages, crashed>>
    BY <1>6 DEF Register, meterVars, endVars
  <2>2. session'[s] # "none" /\ \A t \in Sessions \ {s} : session'[t] = session[t]
    BY <2>1 DEF ChainInv
  <2>3. \A t \in Sessions : session'[t] = "none" <=> session[t] = "none"
    BY <2>1, <2>2
  <2>4. Meters' = Meters
    BY <2>1 DEF Meters, Measured, Instrumented
  <2> QED
    BY <2>1, <2>3, <2>4 DEF MeasureInv
<1> QED
  BY <1>3, <1>4, <1>5, <1>6, ServeWsMeasure, SendMeasure, ReceiveMeasure DEF Next

\* At the start nothing has been counted.
LEMMA MeasureInit == Init => MeasureInv
<1> SUFFICES ASSUME Init PROVE MeasureInv
  OBVIOUS
<1>1. /\ totalReceived = [s \in Sessions |-> 0] /\ totalSent = [s \in Sessions |-> 0]
      /\ f2b = [l \in Labels |-> 0] /\ b2f = [l \in Labels |-> 0] /\ messages = 0
      /\ label = [s \in Sessions |-> "none"] /\ session = [s \in Sessions |-> "none"]
  BY DEF Init
<1>2. 0 \in 0..MaxMessages
  BY CompositionAssumption
<1>3. \A D : Bounded(D, [x \in D |-> 0], 0)
  BY <1>2 DEF Bounded
<1>4. \A S : Counted(S, [s \in Sessions |-> 0]) = {}
  BY CompositionAssumption DEF Counted
<1>5. \A measured : Agree(measured, [s \in Sessions |-> 0], [l \in Labels |-> 0])
  BY <1>4, FS_EmptySet DEF Agree
<1>6. /\ \A s \in Sessions : totalReceived[s] = 0 /\ totalSent[s] = 0 /\ session[s] = "none"
      /\ label \in [Sessions -> Labels \cup {"none"}]
  BY <1>1
<1> QED
  BY <1>1, <1>2, <1>3, <1>5, <1>6 DEF MeasureInv

\* Whatever the valves of the embedding program do with messages, Prometheus and the
\* counters of instrumented sessions agree, in both directions.
THEOREM MetersMeasureAtClient == Spec => []MeasuredAtClient
<1>1. MeasureInv => MeasuredAtClient
  <2> SUFFICES ASSUME MeasureInv, ~crashed, NEW l \in Labels
               PROVE  /\ f2b[l] = SumOver(Measured(l), totalReceived)
                      /\ b2f[l] = SumOver(Measured(l), totalSent)
    BY Zenon DEF MeasuredAtClient, Measured
  <2>1. PICK S \in SUBSET Sessions : S = Measured(l)
    BY DEF Measured
  <2>2. PICK received \in [Sessions -> 0..MaxMessages], sent \in [Sessions -> 0..MaxMessages] :
          received = totalReceived /\ sent = totalSent
    BY DEF MeasureInv, Bounded
  <2>3. /\ f2b[l] = Cardinality(Counted(S, received))
        /\ b2f[l] = Cardinality(Counted(S, sent))
    BY <2>1, <2>2 DEF MeasureInv, Agree, Meters
  <2>4. /\ SumOver(S, received) = Cardinality(Counted(S, received))
        /\ SumOver(S, sent) = Cardinality(Counted(S, sent))
    BY SumIsCounted
  <2> QED
    BY <2>1, <2>2, <2>3, <2>4
<1> QED
  BY <1>1, ConfigInit, ConfigStep, ValvesInit, ProviderStep, ChainStep, MeasureInit, MeasureStep,
     PTL DEF Spec

-----------------------------------------------------------------------------
(* The type invariant.                                                      *)

\* An entry of the configuration that is not a backend yet.
Entry(bk) == bk.id \in Labels \cup {"unset"} /\ bk.values \in [Settings -> Origins]

AddedTo(gifts) == {i \in DOMAIN gifts : gifts[i].added}

\* What is left to show: main, the admin server, and how many backends there are.
MainInv ==
  /\ phase \in {"read", "running", "failed", "panicked"}
  /\ admin \in {"listener", "valves", "up"} /\ instrumented \in BOOLEAN /\ listening \in BOOLEAN
  /\ unheard \in [Sessions -> Labels \cup {"none"}]
  /\ phase # "running" => \A i \in DOMAIN config.backends : Entry(config.backends[i])
  /\ phase = "read" => Len(config.backends) <= MaxFile /\ Len(config.URLs) <= 1
  /\ phase = "running" => /\ Cardinality(AddedTo(given)) <= MaxAdded
                          /\ Len(given) <= MaxFile + 1 + Cardinality(AddedTo(given))

\* A backend of the file is an entry.
LEMMA FileIsEntry == \A bk \in FromFile : Entry(bk)
<1> SUFFICES ASSUME NEW bk \in FromFile PROVE Entry(bk)
  OBVIOUS
<1>1. PICK url \in Urls, id \in Ids \cup {"unset"}, own \in SUBSET Settings :
        bk = FileBackend(url, id, own)
  BY DEF FromFile
<1>2. bk.id = id /\ bk.values = From("own", own)
  BY <1>1 DEF FileBackend
<1>3. From("own", own) \in [Settings -> Origins]
  BY DEF From, Origins
<1> QED
  BY <1>2, <1>3 DEF Entry, Labels

\* Added backends can be counted.
LEMMA AddedFinite ==
  ASSUME NEW gifts \in Seq(Gifts)
  PROVE  IsFiniteSet(AddedTo(gifts)) /\ Cardinality(AddedTo(gifts)) \in Nat
<1>1. PICK n \in Nat : DOMAIN gifts = 1..n
  OBVIOUS
<1>2. AddedTo(gifts) \in SUBSET (1..n) /\ IsFiniteSet(1..n)
  BY <1>1, FS_Interval DEF AddedTo
<1> QED
  BY <1>2, FS_Subset, FS_CardinalityType

\* main starts with a configuration of at most MaxFile backends and one of BE_URLS.
LEMMA MainInit == Init => MainInv
<1> SUFFICES ASSUME Init PROVE MainInv
  OBVIOUS
<1>1. /\ phase = "read" /\ admin = "listener" /\ instrumented \in BOOLEAN /\ listening = FALSE
      /\ unheard = [s \in Sessions |-> "none"]
  BY DEF Init
<1>2. PICK b \in SeqOf(FileBackends, MaxFile), urls \in SeqOf(Urls, 1), ids \in SeqOf(Ids, 2) :
        config = [backends |-> b, URLs |-> urls, IDs |-> ids, values |-> From("env", EnvGiven),
                  headers |-> <<"env">>, codes |-> <<"env">>]
  BY DEF Init
<1>3. config.backends = b /\ config.URLs = urls
  BY <1>2
<1>4. \A S : \A n \in Nat : \A q \in SeqOf(S, n) : Len(q) <= n
  <2> SUFFICES ASSUME NEW S, NEW n \in Nat, NEW q \in SeqOf(S, n) PROVE Len(q) <= n
    OBVIOUS
  <2>1. PICK m \in 0..n : q \in [1..m -> S]
    BY DEF SeqOf
  <2>2. Len(q) = m
    BY <2>1, FunctionIsSeq
  <2> QED
    BY <2>2
<1>5. Len(b) <= MaxFile /\ Len(urls) <= 1
  BY <1>4, CompositionAssumption
<1>6. \A i \in DOMAIN config.backends : Entry(config.backends[i])
  <2>1. config.backends \in Seq(FromFile)
    BY <1>1, ConfigInit DEF ConfigInv, Read
  <2> QED
    BY <2>1, FileIsEntry
<1> QED
  BY <1>1, <1>3, <1>5, <1>6 DEF MainInv

\* NewManager has one backend for every one of the file and of BE_URLS.
LEMMA NewManagerMain == ConfigInv /\ MainInv /\ NewManager => MainInv'
<1> SUFFICES ASSUME ConfigInv, MainInv, NewManager PROVE MainInv'
  OBVIOUS
<1>1. /\ phase = "read" /\ UNCHANGED <<admin, instrumented, listening, unheard>>
      /\ \/ sanitizePanics(config) /\ phase' = "panicked" /\ UNCHANGED <<config, given>>
         \/ /\ given' = GivenByFile(config) \o GivenByEnv(config)
            /\ phase' = IF config'.backends = <<>> THEN "failed" ELSE "running"
  BY DEF NewManager, attachVars, gaugeVars
<1>2. CASE phase' = "panicked" /\ UNCHANGED <<config, given>>
  BY <1>1, <1>2 DEF MainInv
<1>3. CASE given' = GivenByFile(config) \o GivenByEnv(config) /\ phase' = "failed"
           /\ config'.backends = <<>>
  <2>1. \A i \in DOMAIN config'.backends : Entry(config'.backends[i])
    BY <1>3
  <2> QED
    BY <1>1, <1>3, <2>1 DEF MainInv
<1>4. CASE given' = GivenByFile(config) \o GivenByEnv(config) /\ phase' = "running"
  <2>0. PICK old, urls : old = config.backends /\ urls = config.URLs
    OBVIOUS
  <2>1. PICK n \in Nat, m \in Nat :
          /\ n = Len(old) /\ DOMAIN old = 1..n /\ m = Len(urls) /\ DOMAIN urls = 1..m
          /\ n <= MaxFile /\ m <= 1
    BY <1>1, <2>0 DEF MainInv, ConfigInv, Read
  <2>2. PICK a, b : a = GivenByFile(config) /\ b = GivenByEnv(config)
    OBVIOUS
  <2>3. /\ DOMAIN a = 1..n /\ a = [i \in 1..n |-> a[i]] /\ \A i \in 1..n : a[i].added = FALSE
        /\ DOMAIN b = 1..m /\ b = [i \in 1..m |-> b[i]] /\ \A i \in 1..m : b[i].added = FALSE
    BY <2>0, <2>1, <2>2 DEF GivenByFile, GivenByEnv, Given
  <2>4. PICK S : (\A i \in 1..n : a[i] \in S) /\ (\A i \in 1..m : b[i] \in S)
    <3>1. PICK A, B : A = {a[i] : i \in 1..n} /\ B = {b[i] : i \in 1..m}
      OBVIOUS
    <3>2. (\A i \in 1..n : a[i] \in A \cup B) /\ (\A i \in 1..m : b[i] \in A \cup B)
      BY <3>1
    <3> QED
      BY <3>2
  <2>5. a \in Seq(S) /\ b \in Seq(S) /\ Len(a) = n /\ Len(b) = m
    <3>1. a \in [1..n -> S] /\ b \in [1..m -> S]
      BY <2>3, <2>4
    <3> QED
      BY <3>1, FunctionIsSeq
  <2>6. PICK g : g = a \o b /\ g = given'
    BY <1>4, <2>2
  <2>7. /\ Len(g) = n + m /\ DOMAIN g = 1..(n + m)
        /\ \A i \in 1..(n + m) : g[i] = IF i <= n THEN a[i] ELSE b[i - n]
    <3>1. /\ a \o b \in Seq(S) /\ Len(a \o b) = Len(a) + Len(b)
          /\ \A i \in 1..(Len(a) + Len(b)) :
               (a \o b)[i] = IF i <= Len(a) THEN a[i] ELSE b[i - Len(a)]
      BY <2>5, ConcatProperties
    <3>2. g \in Seq(S) /\ Len(g) = n + m
      BY <2>5, <2>6, <3>1
    <3>3. DOMAIN g = 1..(n + m)
      BY <3>2
    <3> QED
      BY <2>5, <2>6, <3>1, <3>2, <3>3
  <2>8. \A i \in 1..(n + m) : g[i].added = FALSE
    <3> SUFFICES ASSUME NEW i \in 1..(n + m) PROVE g[i].added = FALSE
      OBVIOUS
    <3>1. CASE i <= n
      <4>1. i \in 1..n
        BY <3>1
      <4>2. g[i] = a[i]
        BY <2>7, <3>1
      <4> QED
        BY <2>3, <4>1, <4>2
    <3>2. CASE ~(i <= n)
      <4>1. i - n \in 1..m
        BY <3>2
      <4>2. g[i] = b[i - n]
        BY <2>7, <3>2
      <4> QED
        BY <2>3, <4>1, <4>2
    <3> QED
      BY <3>1, <3>2
  <2>9. AddedTo(g) = {}
    BY <2>7, <2>8 DEF AddedTo
  <2>10. Cardinality(AddedTo(g)) = 0
    BY <2>9, FS_EmptySet
  <2> QED
    BY <1>1, <1>4, <2>1, <2>6, <2>7, <2>10, CompositionAssumption DEF MainInv
<1> QED
  BY <1>1, <1>2, <1>3, <1>4

\* One more is added.
LEMMA AddBackendMain ==
  ASSUME ConfigInv, MainInv, NEW url \in Urls, NEW id \in Ids \cup {"unset"},
         NEW request \in {{}, RequestGiven}, AddBackend(url, id, request)
  PROVE  MainInv'
<1>1. /\ admin = "up" /\ UNCHANGED <<phase, admin, instrumented, listening, unheard>>
      /\ Cardinality(AddedTo(given)) < MaxAdded
      /\ given' = Append(given, Given(id, {}, request, TRUE))
  BY DEF AddBackend, attachVars, gaugeVars, AddedTo
<1>2. phase = "running"
  BY <1>1 DEF ConfigInv
<1>3. PICK old \in Seq(Gifts), n \in Nat : old = given /\ n = Len(old) /\ DOMAIN old = 1..n
  BY <1>1, <1>2 DEF ConfigInv, AllResolved
<1>4. PICK gift \in Gifts : gift = Given(id, {}, request, TRUE) /\ gift.added = TRUE
  <2>1. PICK asked \in SUBSET Settings : asked = request
    BY CompositionAssumption
  <2>2. PICK none \in SUBSET Settings : none = {}
    OBVIOUS
  <2>3. Given(id, none, asked, TRUE) \in Gifts /\ Given(id, none, asked, TRUE).added = TRUE
    BY DEF Gifts, Given
  <2> QED
    BY <2>1, <2>2, <2>3
<1>5. PICK new : new = given' /\ new = Append(old, gift)
  BY <1>1, <1>3, <1>4
<1>6. /\ Len(new) = n + 1 /\ DOMAIN new = 1..(n + 1) /\ new[n + 1] = gift
      /\ \A i \in 1..n : new[i] = old[i]
  <2>1. new \in Seq(Gifts) /\ Len(new) = Len(old) + 1 /\ new[Len(old) + 1] = gift
        /\ \A i \in 1..Len(old) : new[i] = old[i]
    BY <1>3, <1>5, AppendProperties
  <2>2. DOMAIN new = 1..Len(new)
    BY <2>1
  <2> QED
    BY <1>3, <2>1, <2>2
<1>7. AddedTo(new) = AddedTo(old) \cup {n + 1} /\ n + 1 \notin AddedTo(old)
  <2>1. \A i : i \in 1..(n + 1) <=> i \in 1..n \/ i = n + 1
    OBVIOUS
  <2>2. n + 1 \notin 1..n
    OBVIOUS
  <2>3. \A i : i \in AddedTo(old) <=> i \in 1..n /\ old[i].added
    BY <1>3 DEF AddedTo
  <2>4. \A i : i \in AddedTo(new) <=> i \in 1..(n + 1) /\ new[i].added
    BY <1>6 DEF AddedTo
  <2> QED
    BY <1>4, <1>6, <2>1, <2>2, <2>3, <2>4, Zenon
<1>8. /\ Cardinality(AddedTo(old)) \in Nat
      /\ Cardinality(AddedTo(old) \cup {n + 1}) = Cardinality(AddedTo(old)) + 1
  BY <1>3, <1>7, AddedFinite, FS_AddElement
<1>9. /\ Cardinality(AddedTo(new)) <= MaxAdded
      /\ Len(new) <= MaxFile + 1 + Cardinality(AddedTo(new))
  BY <1>1, <1>2, <1>3, <1>6, <1>7, <1>8, CompositionAssumption DEF MainInv
<1> QED
  BY <1>1, <1>2, <1>5, <1>9 DEF MainInv
\* Prometheus hears of sessions by their labels; nobody else changes what MainInv
\* speaks of.
LEMMA AttachMain ==
  ASSUME ConfigInv, GaugeInv, MainInv, AttachListener \/ AttachValves
  PROVE  MainInv'
<1>1. phase = "running" /\ UNCHANGED <<phase, config, given, instrumented>>
  BY DEF AttachListener, AttachValves, mainVars
<1>2. admin' \in {"listener", "valves", "up"} /\ listening' \in BOOLEAN
  BY DEF AttachListener, AttachValves, MainInv
<1>3. unheard' \in [Sessions -> Labels \cup {"none"}]
  <2>1. CASE unheard' = unheard
    BY <2>1 DEF MainInv
  <2>2. CASE unheard' = [s \in Sessions |-> IF clients[s] = 0 THEN "none"
                                            ELSE backendID(clients[s])]
    <3> SUFFICES ASSUME NEW s \in Sessions, clients[s] # 0 PROVE backendID(clients[s]) \in Labels
      BY <2>2
    <3>1. clients[s] \in DOMAIN config.backends
      <4>1. config.backends \in Seq(Backends)
        BY <1>1 DEF ConfigInv, AllResolved
      <4>2. PICK n \in Nat : n = Len(config.backends) /\ DOMAIN config.backends = 1..n
        BY <4>1
      <4>3. clients[s] \in Nat /\ clients[s] <= n
        BY <1>1, <4>2 DEF GaugeInv
      <4> QED
        BY <4>2, <4>3
    <3> QED
      BY <1>1, <3>1, IdIsLabel
  <2> QED
    BY <2>1, <2>2 DEF AttachListener, AttachValves, gaugeVars, backendID
<1> QED
  BY <1>1, <1>2, <1>3 DEF MainInv

\* So it stays.
LEMMA MainStep == ConfigInv /\ GaugeInv /\ MainInv /\ [Next]_vars => MainInv'
<1> SUFFICES ASSUME ConfigInv, GaugeInv, MainInv, [Next]_vars PROVE MainInv'
  OBVIOUS
<1>1. CASE UNCHANGED <<phase, config, given, admin, instrumented, listening, unheard>>
  BY <1>1 DEF MainInv, AddedTo
<1>2. CASE UNCHANGED vars
  BY <1>1, <1>2 DEF vars, mainVars, attachVars, gaugeVars
<1>3. CASE Embed
  BY <1>1, <1>3 DEF Embed, mainVars, gaugeVars
<1>4. ASSUME NEW s \in Sessions, SessionStep(s) PROVE MainInv'
  <2>1. UNCHANGED <<phase, config, given, admin, listening>>
    BY <1>4, OthersConfig DEF mainVars
  <2>2. UNCHANGED instrumented
    BY <1>4 DEF SessionStep, ServeWs, Register, SendToUpstream, ReceiveFromUpstream, attachVars
  <2>3. UNCHANGED unheard
    BY <1>4, SessionMoves DEF SetClient, gaugeVars
  <2> QED
    BY <1>1, <2>1, <2>2, <2>3
<1> QED
  BY <1>2, <1>3, <1>4, NewManagerMain, AddBackendMain, AttachMain DEF Next, SessionStep

-----------------------------------------------------------------------------
\* A sequence that is not too long is one of the bounded ones.
LEMMA ShortIsSeqOf ==
  \A S : \A n \in Nat : \A q \in Seq(S) : Len(q) <= n => q \in SeqOf(S, n)
<1> SUFFICES ASSUME NEW S, NEW n \in Nat, NEW q \in Seq(S), Len(q) <= n PROVE q \in SeqOf(S, n)
  OBVIOUS
<1>1. PICK m \in 0..n : m = Len(q)
  OBVIOUS
<1>2. q \in [1..m -> S]
  BY <1>1
<1> QED
  BY <1>2 DEF SeqOf

\* A running balancer has no more backends than the bounds allow.
LEMMA BackendsBounded ==
  ASSUME ConfigInv, MainInv, phase = "running"
  PROVE  Len(config.backends) <= MaxFile + 1 + MaxAdded
<1>1. PICK n \in Nat : n = Len(config.backends) /\ n = Len(given)
  BY DEF ConfigInv, AllResolved
<1>2. Cardinality(AddedTo(given)) \in Nat
  BY AddedFinite DEF ConfigInv, AllResolved
<1> QED
  BY <1>1, <1>2, CompositionAssumption DEF MainInv

\* The backends of the configuration have labels, and every setting a value.
LEMMA BackendsTyped ==
  ASSUME ConfigInv, MainInv, NEW i \in DOMAIN config.backends
  PROVE  /\ config.backends[i].id \in Labels \cup (IF phase = "running" THEN {} ELSE {"unset"})
         /\ config.backends[i].values \in [Settings -> Origins]
<1>1. CASE phase = "running"
  <2>1. config.backends[i] \in Backends
    <3>1. AllResolved(config.backends, given)
      BY <1>1 DEF ConfigInv
    <3> QED
      BY <3>1 DEF AllResolved
  <2>2. config.backends[i].id \in Labels
    BY <1>1, IdIsLabel DEF backendID
  <2> QED
    BY <1>1, <2>1, <2>2 DEF Backends
<1>2. CASE phase # "running"
  BY <1>2 DEF MainInv, Entry
<1> QED
  BY <1>1, <1>2

\* Sessions have backends of the configuration.
LEMMA IndexesTyped ==
  ASSUME ConfigInv, GaugeInv, MainInv
  PROVE  clients \in [Sessions -> Indexes] /\ con \in [Sessions -> Indexes]
<1>1. clients \in [Sessions -> Nat] /\ con \in [Sessions -> Nat]
  BY DEF GaugeInv
<1>2. ASSUME NEW s \in Sessions PROVE clients[s] \in Indexes /\ con[s] \in Indexes
  <2>1. clients[s] \in Nat /\ con[s] \in Nat
    BY <1>1
  <2>2. CASE phase = "running"
    <3>1. PICK n \in Nat : n = Len(config.backends)
      BY <2>2 DEF ConfigInv, AllResolved
    <3>2. n <= MaxFile + 1 + MaxAdded /\ clients[s] <= n /\ con[s] <= n
      BY <2>2, <3>1, BackendsBounded DEF GaugeInv
    <3> QED
      BY <2>1, <3>1, <3>2, CompositionAssumption DEF Indexes
  <2>3. CASE phase # "running"
    <3>1. clients[s] = 0 /\ con[s] = 0
      BY <2>3 DEF GaugeInv
    <3> QED
      BY <3>1, CompositionAssumption DEF Indexes
  <2> QED
    BY <2>2, <2>3
<1> QED
  BY <1>1, <1>2

\* Chains and providers are not longer than the providers that there can be.
LEMMA ValvesTyped ==
  ASSUME ProviderInv, ChainInv
  PROVE  /\ valveProvider \in SeqOf(Providers, MaxOwn + 1)
         /\ messageValves \in [Sessions -> SeqOf({"inst", "own", "nil"}, MaxOwn + 1)]
<1>1. MaxOwn + 1 \in Nat
  BY CompositionAssumption
<1>2. valveProvider \in Seq(Providers) /\ Len(valveProvider) <= MaxOwn + 1
  BY ProvidersBounded DEF ProviderInv, Once
<1>3. \A s \in Sessions : messageValves[s] \in Seq(Valve) /\ Len(messageValves[s]) <= MaxOwn + 1
  BY DEF ChainInv
<1>4. \A s \in Sessions : messageValves[s] \in SeqOf(Valve, MaxOwn + 1)
  BY <1>1, <1>3, ShortIsSeqOf
<1>5. messageValves \in [Sessions -> Seq(Valve)]
  BY DEF ChainInv
<1>6. messageValves \in [Sessions -> SeqOf(Valve, MaxOwn + 1)]
  BY <1>4, <1>5
<1> QED
  BY <1>1, <1>2, <1>6, ShortIsSeqOf DEF Valve

\* In every program that is put together so, for all configurations, embedding programs
\* and bounds: no session has an index outside the configuration, a label that no
\* backend has, or more valves than there are providers, and no meter leaves its range.
THEOREM CompositionTypes == Spec => []TypeOK
<1>1. ConfigInv /\ GaugeInv /\ MainInv /\ ProviderInv /\ ChainInv /\ MeasureInv => TypeOK
  <2> SUFFICES ASSUME ConfigInv, GaugeInv, MainInv, ProviderInv, ChainInv, MeasureInv PROVE TypeOK
    OBVIOUS
  <2>1. /\ phase \in {"read", "running", "failed", "panicked"}
        /\ admin \in {"listener", "valves", "up"} /\ instrumented \in BOOLEAN
        /\ listening \in BOOLEAN /\ unheard \in [Sessions -> Labels \cup {"none"}]
    BY DEF MainInv
  <2>2. /\ session \in [Sessions -> {"none", "served", "open", "closed"}]
        /\ {lost, refused} \subseteq [Sessions -> SUBSET (1..MaxMessages)]
        /\ crashed \in BOOLEAN
    BY DEF ChainInv
  <2>3. /\ label \in [Sessions -> Labels \cup {"none"}] /\ messages \in 0..MaxMessages
        /\ totalReceived \in [Sessions -> 0..MaxMessages]
        /\ totalSent \in [Sessions -> 0..MaxMessages]
        /\ f2b \in [Labels -> 0..MaxMessages] /\ b2f \in [Labels -> 0..MaxMessages]
    BY DEF MeasureInv, Bounded
  <2>4. gauge \in [Labels -> Int]
    BY DEF GaugeInv
  <2>5. \A i \in DOMAIN config.backends :
          /\ config.backends[i].id \in Labels \cup (IF phase = "running" THEN {} ELSE {"unset"})
          /\ config.backends[i].values \in [Settings -> Origins]
    BY BackendsTyped
  <2> QED
    BY <2>1, <2>2, <2>3, <2>4, <2>5, IndexesTyped, ValvesTyped DEF TypeOK
<1> QED
  BY <1>1, ConfigInit, ConfigStep, GaugeInit, GaugeStep, MainInit, MainStep, ValvesInit,
     ProviderStep, ChainStep, MeasureInit, MeasureStep, PTL DEF Spec


=============================================================================
