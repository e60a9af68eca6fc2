------------------------------- MODULE Valves --------------------------------
(***************************************************************************)
(* The chain of message valves of a session: how the providers build it     *)
(* (in/inc_manager.go, inst/prometheus.go) and how a message goes through   *)
(* it in the two directions (in/inc.go).                                    *)
(*                                                                         *)
(* A valve is "inst" (the InstrumentValve of Prometheus), "own" (one of the *)
(* program that embeds the balancer) or "nil" (an interface without value). *)
(* A message is "data", a control message, or "nil".                        *)
(***************************************************************************)
EXTENDS Naturals, Sequences, SequencesExt

Providers == {"own", "prometheus"}
Controls  == {"normal", "abnormal"}   \* RemoteConnection...Closure
Answers   == {"pass", "drop", "fail"}   \* of an own valve: the message, nil, an error

IsControl(msg) == msg \in Controls

-----------------------------------------------------------------------------
(* Building the chain.                                                      *)

\* Mutant: the chain is made one entry longer than it has to be.
AddPrometheusRoomy(valves) == (IF valves = <<>> THEN <<"inst">> ELSE valves) \o <<"nil">>

\* PrometheusProvider.AddValves: the new valve is put in front, and then the old
\* chain is copied over it.  What is behind the old chain stays nil.
AddPrometheus(valves) == IF valves = <<>> THEN <<"inst">> ELSE Append(valves, "nil")

AddValves(provider, valves) ==
  IF provider = "prometheus" THEN AddPrometheus(valves) ELSE Append(valves, "own")

\* Manager.addValves: every provider in turn is given the chain so far.
addValves(valveProvider) ==
  FoldLeft(LAMBDA valves, provider : AddValves(provider, valves), <<>>, valveProvider)

-----------------------------------------------------------------------------
(* A message on its way.  "out" is how far it has come, "seen" how often    *)
(* Prometheus has observed it.                                              *)

\* InstrumentValve: a call on a nil message panics; control is not observed.
Instrument(m) ==
  IF m.msg = "nil" THEN [m EXCEPT !.out = "panic"]
  ELSE [m EXCEPT !.seen = IF IsControl(m.msg) THEN @ ELSE @ + 1]

\* The embedding program's valve; it leaves a nil message alone.
Own(m, answer) ==
  CASE answer = "drop" -> [m EXCEPT !.msg = "nil"]
    [] answer = "fail" /\ m.msg # "nil" -> [m EXCEPT !.out = "error"]
    [] OTHER -> m

Through(valve, m, answer) ==
  IF m.out # "passing" THEN m
  ELSE CASE valve = "nil"  -> [m EXCEPT !.out = "panic"]
         [] valve = "inst" -> Instrument(m)
         [] valve = "own"  -> Own(m, answer)

\* answers[i] is what valve i of the order the message takes makes of it.
Pass(valves, msg, answers) ==
  FoldLeftDomain(LAMBDA m, i : Through(valves[i], m, answers[i]),
                 [msg |-> msg, out |-> "passing", seen |-> 0], valves)

\* The valves of sendToUpstream: a nil result is discarded like an error.
BeforeTransmit(messageValves, msg, answers) ==
  LET m == Pass(messageValves, msg, answers) IN
  [seen |-> m.seen,
   result |-> IF m.out = "panic" THEN "panic"
              ELSE IF m.out = "error" \/ m.msg = "nil" THEN "discarded" ELSE "sent"]

\* onReceiveFromUpstream looks at the type of what comes out, which panics on nil.
Received(m) ==
  [seen |-> m.seen,
   result |-> IF m.out = "error" THEN "error"
              ELSE IF m.out = "panic" \/ m.msg = "nil" THEN "panic" ELSE "sent"]

\* Mutant: both directions go through the chain from the first to the last.
AfterReceiveForward(messageValves, msg, answers) == Received(Pass(messageValves, msg, answers))

\* The valves of onReceiveFromUpstream, last one first.
AfterReceive(messageValves, msg, answers) ==
  Received(Pass(Reverse(messageValves), msg, answers))

-----------------------------------------------------------------------------
(* What the embedding program answers for.                                  *)

\* One of its valves refuses a message: it is dropped or failed before it could meet
\* a nil valve.  "valves" is in the order the message takes.
Refuses(valves, answers) ==
  \E i \in DOMAIN valves :
    /\ valves[i] = "own" /\ answers[i] # "pass"
    /\ \A j \in 1..(i - 1) : valves[j] # "nil"

\* Prometheus came after a provider of the embedding program: a nil valve is behind.
Overwritten(valves) == Contains(valves, "nil") /\ Head(valves) = "own"

=============================================================================
