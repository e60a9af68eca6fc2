----------------------------- MODULE Composition -----------------------------
(***************************************************************************)
(* The whole program put together: main.go reads the configuration, builds  *)
(* the two managers and starts the frontend and the admin server, each in a *)
(* goroutine of its own; cmd/compose.go attaches Prometheus to the frontend *)
(* manager while the admin server is being built.  Sessions come and go     *)
(* meanwhile, their messages pass the valves, and an operator adds backends. *)
(*                                                                         *)
(* What a session's goroutines do to each other is Session's, and how the   *)
(* manager orders their requests is Registry's: here a session registers,   *)
(* changes its backend or leaves in one step.                               *)
(***************************************************************************)
EXTENDS Config, Valves, Integers, FiniteSets, FiniteSetsExt

CONSTANTS
  Sessions,
  Urls,                 \* pairs of host and path
  Ids,                  \* ids that the file, BE_URL_IDS or an operator give
  FileBackends,         \* bound: entries that the file may have
  EnvGiven, RequestGiven,   \* settings that the environment and an operator give
  MaxFile,              \* bound: backends in the file
  MaxAdded,             \* bound: backends that operators add
  MaxOwn,               \* bound: valve providers of the embedding program
  MaxMessages           \* bound: messages read from clients and backends

Labels == Ids \cup {NormalizeForID(u) : u \in Urls}

\* "none" stands for no label.
ASSUME CompositionAssumption ==
  /\ IsFiniteSet(Sessions)
  /\ EnvGiven \cup RequestGiven \subseteq Settings
  /\ {MaxFile, MaxAdded, MaxOwn, MaxMessages} \subseteq Nat
  /\ "none" \notin Labels

VARIABLES
  \* --- main
  phase,          \* "read": before out.NewManager; "running", "failed", "panicked"
  config,         \* the UpstreamConfig
  given,          \* history: what every entry of config.backends has been given
  \* --- cmd
  admin,          \* startAdminServer: what it does next; "up" when it serves
  instrumented,   \* EnableInstrumentation
  \* --- in.Manager
  valveProvider, listening,    \* listening: Prometheus is among sessionListeners
  clients,        \* index of the backend that a registered session has, else 0
  \* --- the sessions
  session,        \* "none", "served", "open" (registered), "closed"
  con,            \* index of the backend connected to
  messageValves, label,        \* label: backend that the InstrumentValve was made for
  totalReceived, totalSent,
  lost, refused,  \* history: numbers of the session's messages that were not passed
                  \* on, and of those that a valve of the embedding program refused
  \* --- Prometheus
  gauge,          \* active_sessions
  f2b, b2f,       \* message_size, observations of the two directions
  unheard,        \* history: label of a session registered before Prometheus listened
  \* --- bounds, and the end
  messages, crashed

mainVars    == <<phase, config, given>>
attachVars  == <<admin, instrumented, valveProvider, listening>>
sessionVars == <<session, con, messageValves, label, totalReceived, totalSent, lost,
                 refused>>
gaugeVars   == <<clients, gauge, unheard>>
meterVars   == <<f2b, b2f>>
endVars     == <<messages, crashed>>
vars == <<mainVars, attachVars, sessionVars, gaugeVars, meterVars, endVars>>

Indexes == 0..(MaxFile + 2 + MaxAdded)

TypeOK ==
  /\ phase \in {"read", "running", "failed", "panicked"}
  /\ \A i \in DOMAIN config.backends :
       /\ config.backends[i].id \in Labels \cup (IF phase = "running" THEN {} ELSE {"unset"})
       /\ config.backends[i].values \in [Settings -> Origins]
  /\ admin \in {"listener", "valves", "up"} /\ instrumented \in BOOLEAN
  /\ valveProvider \in SeqOf(Providers, MaxOwn + 1) /\ listening \in BOOLEAN
  /\ clients \in [Sessions -> Indexes]
  /\ session \in [Sessions -> {"none", "served", "open", "closed"}]
  /\ con \in [Sessions -> Indexes]
  /\ messageValves \in [Sessions -> SeqOf({"inst", "own", "nil"}, MaxOwn + 1)]
  /\ label \in [Sessions -> Labels \cup {"none"}]
  /\ totalReceived \in [Sessions -> 0..MaxMessages]
  /\ totalSent \in [Sessions -> 0..MaxMessages]
  /\ {lost, refused} \subseteq [Sessions -> SUBSET (1..MaxMessages)]
  /\ gauge \in [Labels -> Int]
  /\ f2b \in [Labels -> 0..MaxMessages] /\ b2f \in [Labels -> 0..MaxMessages]
  /\ unheard \in [Sessions -> Labels \cup {"none"}]
  /\ messages \in 0..MaxMessages /\ crashed \in BOOLEAN

-----------------------------------------------------------------------------
(* What the configuration may be.                                           *)

\* An entry of the file with the settings in "own", and with headers and close
\* codes of its own if there are any.
FileBackend(url, id, own) ==
  [url |-> url, id |-> id, values |-> From("own", own),
   headers |-> IF own = {} THEN <<>> ELSE <<"own">>,
   codes |-> IF own = {} THEN <<>> ELSE <<"own">>]

ASSUME FileAssumption ==
  FileBackends \subseteq
    {FileBackend(url, id, own) : url \in Urls, id \in Ids \cup {"unset"}, own \in SUBSET Settings}

\* As cleanenv leaves it: the environment gives headers and close codes, too.
Init ==
  /\ phase = "read"
  /\ \E backends \in SeqOf(FileBackends, MaxFile), URLs \in SeqOf(Urls, 1),
        IDs \in SeqOf(Ids, 2) :
       config = [backends |-> backends, URLs |-> URLs, IDs |-> IDs,
                 values |-> From("env", EnvGiven), headers |-> <<"env">>, codes |-> <<"env">>]
  /\ given = <<>>
  /\ admin = "listener" /\ instrumented \in BOOLEAN
  /\ valveProvider = <<>> /\ listening = FALSE
  /\ clients = [s \in Sessions |-> 0] /\ session = [s \in Sessions |-> "none"]
  /\ con = [s \in Sessions |-> 0] /\ messageValves = [s \in Sessions |-> <<>>]
  /\ label = [s \in Sessions |-> "none"]
  /\ totalReceived = [s \in Sessions |-> 0] /\ totalSent = [s \in Sessions |-> 0]
  /\ lost = [s \in Sessions |-> {}] /\ refused = [s \in Sessions |-> {}]
  /\ gauge = [l \in Labels |-> 0]
  /\ f2b = [l \in Labels |-> 0] /\ b2f = [l \in Labels |-> 0]
  /\ unheard = [s \in Sessions |-> "none"]
  /\ messages = 0 /\ crashed = FALSE

-----------------------------------------------------------------------------
(* main and cmd.                                                            *)

GivenSettings(values) == {x \in Settings : values[x] # "unset"}

\* What is given for a backend: an id, its own settings and those of a request.
Given(id, own, request, added) ==
  [id |-> id, own |-> own, request |-> request, added |-> added]

GivenByFile(uc) ==
  [i \in DOMAIN uc.backends |->
     Given(uc.backends[i].id, GivenSettings(uc.backends[i].values), {}, FALSE)]

GivenByEnv(uc) ==
  [i \in DOMAIN uc.URLs |-> Given(IF uc.IDs = <<>> THEN "unset" ELSE uc.IDs[i], {}, {}, FALSE)]

\* out.NewManager; main then builds the frontend manager and starts the servers.
NewManager ==
  /\ phase = "read"
  /\ IF sanitizePanics(config)
       THEN phase' = "panicked" /\ UNCHANGED <<config, given>>
       ELSE /\ config' = sanitize(config)
            /\ given' = GivenByFile(config) \o GivenByEnv(config)
            /\ phase' = IF config'.backends = <<>> THEN "failed" ELSE "running"
  /\ UNCHANGED <<attachVars, sessionVars, gaugeVars, meterVars, endVars>>

\* BuildAdminServer: Prometheus first becomes a session listener, ...
AttachListener ==
  /\ phase = "running" /\ admin = "listener"
  /\ IF instrumented
       THEN /\ listening' = TRUE
            /\ unheard' = [s \in Sessions |-> IF clients[s] = 0 THEN "none"
                                             ELSE config.backends[clients[s]].id]
            /\ admin' = "valves"
       ELSE admin' = "up" /\ UNCHANGED <<listening, unheard>>
  /\ UNCHANGED <<mainVars, instrumented, valveProvider, sessionVars, clients, gauge, meterVars,
                 endVars>>

AddValveProvider(provider) == valveProvider' = Append(valveProvider, provider)

\* ... then a valve provider; then the server is there to serve.
AttachValves ==
  /\ phase = "running" /\ admin = "valves"
  /\ AddValveProvider("prometheus")
  /\ admin' = "up"
  /\ UNCHANGED <<mainVars, instrumented, listening, sessionVars, gaugeVars, meterVars, endVars>>

\* A program that embeds the balancer adds a provider of its own.
Embed ==
  /\ phase = "running"
  /\ Cardinality({i \in DOMAIN valveProvider : valveProvider[i] = "own"}) < MaxOwn
  /\ AddValveProvider("own")
  /\ UNCHANGED <<mainVars, admin, instrumented, listening, sessionVars, gaugeVars, meterVars,
                 endVars>>

\* An operator's AddBackend: the settings of the request may be left out.
AddBackend(url, id, request) ==
  /\ admin = "up" /\ \A i \in DOMAIN config.backends : config.backends[i].url # url
  /\ Cardinality({i \in DOMAIN given : given[i].added}) < MaxAdded
  /\ LET origin == IF request = {} THEN <<>> ELSE <<"request">> IN
       config' = addBackendConfig(config, url, id, request, origin, origin)
  /\ given' = Append(given, Given(id, {}, request, TRUE))
  /\ UNCHANGED <<phase, attachVars, sessionVars, gaugeVars, meterVars, endVars>>

-----------------------------------------------------------------------------
(* Sessions.                                                                *)

backendID(i) == config.backends[i].id

\* ServeWs: the dial, the valves of all providers there are by now, and the
\* session on its way into mgr.register.
ServeWs(s, i) ==
  /\ phase = "running" /\ session[s] = "none"
  /\ con' = [con EXCEPT ![s] = i]
  /\ messageValves' = [messageValves EXCEPT ![s] = addValves(valveProvider)]
  /\ label' = [label EXCEPT ![s] = backendID(i)]
  /\ session' = [session EXCEPT ![s] = "served"]
  /\ UNCHANGED <<mainVars, attachVars, totalReceived, totalSent, lost, refused, gaugeVars,
                 meterVars, endVars>>

\* What the listener counts for label l when a session has backend i, or none.
Counts(l, i) == IF i # 0 /\ backendID(i) = l THEN 1 ELSE 0

\* Mutant: a replaced connection is reported as created only.
SetClientUnreported(s, i) ==
  /\ clients' = [clients EXCEPT ![s] = i]
  /\ gauge' = IF listening THEN [l \in Labels |-> gauge[l] + Counts(l, i)
                                   - IF i = 0 THEN Counts(l, clients[s]) ELSE 0] ELSE gauge
  /\ UNCHANGED unheard

\* addClient and removeClient (i = 0) with the listeners there are by now.
SetClient(s, i) ==
  /\ clients' = [clients EXCEPT ![s] = i]
  /\ gauge' = IF listening
                 THEN [l \in Labels |-> gauge[l] + Counts(l, i) - Counts(l, clients[s])]
                 ELSE gauge
  /\ UNCHANGED unheard

\* The loop takes the session out of mgr.register.
Register(s) ==
  /\ session[s] = "served"
  /\ SetClient(s, con[s])
  /\ session' = [session EXCEPT ![s] = "open"]
  /\ UNCHANGED <<mainVars, attachVars, con, messageValves, label, totalReceived, totalSent,
                 lost, refused, meterVars, endVars>>

\* The session is closed and unregistered.
Leave(s) ==
  /\ session' = [session EXCEPT ![s] = "closed"]
  /\ SetClient(s, 0)

-----------------------------------------------------------------------------
(* Messages through the valves.                                             *)

\* The next message: what becomes of it in session s, and what the embedding
\* program wants, "valves" being in the order that the message takes.
ReadMessage(s, valves, answers, result) ==
  /\ messages < MaxMessages
  /\ messages' = messages + 1
  /\ lost' = [lost EXCEPT ![s] = IF result = "sent" THEN @ ELSE @ \cup {messages + 1}]
  /\ refused' = [refused EXCEPT ![s] = IF Refuses(valves, answers)
                                       THEN @ \cup {messages + 1} ELSE @]
  /\ crashed' = (result = "panic")

Observe(meter, s, seen) == meter' = [meter EXCEPT ![label[s]] = @ + seen]

\* The client sends data, or goes away ("normal"): sendToUpstream.  When it goes
\* away and the valves keep that from the backend, the session ends all the same.
SendToUpstream(s, msg, answers) ==
  LET r == BeforeTransmit(messageValves[s], msg, answers) IN
  /\ session[s] = "open"
  /\ ReadMessage(s, messageValves[s], answers, r.result)
  /\ totalReceived' = [totalReceived EXCEPT ![s] = IF IsControl(msg) THEN @ ELSE @ + 1]
  /\ Observe(f2b, s, r.seen) /\ UNCHANGED b2f
  /\ IF IsControl(msg) /\ r.result # "panic"
       THEN Leave(s) ELSE UNCHANGED <<session, gaugeVars>>
  /\ UNCHANGED <<mainVars, attachVars, con, messageValves, label, totalSent>>

\* A reconnection: the session's valves stay those of its first backend.
Reconnect(s) ==
  \E i \in DOMAIN config.backends :
    /\ con' = [con EXCEPT ![s] = i]
    /\ SetClient(s, i)
    /\ UNCHANGED session

\* The backend sends data, closes ("normal") or breaks ("abnormal"), and the FE
\* writer takes that from inc.receive: onReceiveFromUpstream.  The session of a
\* broken connection gets another one, or ends if there is none to be had.
ReceiveFromUpstream(s, msg, answers) ==
  LET r == AfterReceive(messageValves[s], msg, answers)
      ends   == r.result = "error" \/ (msg = "normal" /\ r.result # "panic")
      broken == r.result = "sent" /\ msg = "abnormal"
  IN
  /\ session[s] = "open"
  /\ ReadMessage(s, Reverse(messageValves[s]), answers, r.result)
  /\ totalSent' = [totalSent EXCEPT ![s] = IF msg = "data" /\ r.result = "sent" THEN @ + 1 ELSE @]
  /\ Observe(b2f, s, r.seen) /\ UNCHANGED f2b
  /\ \/ (ends \/ broken) /\ Leave(s) /\ UNCHANGED con
     \/ broken /\ Reconnect(s)
     \/ ~ends /\ ~broken /\ UNCHANGED <<session, con, gaugeVars>>
  /\ UNCHANGED <<mainVars, attachVars, messageValves, label, totalReceived>>

-----------------------------------------------------------------------------
Next ==
  /\ ~crashed
  /\ \/ NewManager \/ AttachListener \/ AttachValves \/ Embed
     \/ \E url \in Urls, id \in Ids \cup {"unset"}, request \in {{}, RequestGiven} :
          AddBackend(url, id, request)
     \/ \E s \in Sessions :
          \/ \E i \in DOMAIN config.backends : ServeWs(s, i)
          \/ Register(s)
          \/ \E answers \in [DOMAIN messageValves[s] -> Answers] :
               \/ \E msg \in {"data", "normal"} : SendToUpstream(s, msg, answers)
               \/ \E msg \in {"data", "normal", "abnormal"} : ReceiveFromUpstream(s, msg, answers)

Spec == Init /\ [][Next]_vars

-----------------------------------------------------------------------------
(* Properties.                                                              *)

Expected(g, x) ==
  IF x \in g.request THEN "request"
  ELSE IF x \in EnvGiven THEN "env" ELSE IF x \in g.own THEN "own" ELSE "default"

\* Every backend, wherever it comes from, has an id, and each timeout, threshold and
\* buffer size of it is what the highest authority gives that gives one: a request
\* to add it, the environment, its entry in the file, the default (config.go:26-31).
\* Two settings do not follow this order.  The environment's headers are added to
\* the backend's own, but not to a request's; and the environment's close codes
\* never win, whatever else is given, although config.go:39 says that they overwrite
\* (updateAbnormalCloseCodes, config.go:127-136, does not look at them).
SettingsResolved ==
  phase = "running" =>
    \A i \in DOMAIN config.backends :
      LET bk == config.backends[i]
          g  == given[i]
      IN
      /\ \A x \in Settings : bk.values[x] = Expected(g, x)
      /\ bk.id = IF g.id = "unset" THEN NormalizeForID(bk.url) ELSE g.id
      /\ g.request # {} => ToSet(bk.headers) = {"request"} /\ ToSet(bk.codes) = {"request"}
      /\ g.request = {} /\ g.own # {} =>
           ToSet(bk.headers) = {"env", "own"} /\ ToSet(bk.codes) = {"own"}
      /\ g.request = {} /\ g.own = {} =>
           ToSet(bk.headers) = {"env"} /\ ToSet(bk.codes) = {"default"}

\* The gauge of a backend is the number of registered sessions that have it, less
\* one for every session that was registered with it before Prometheus listened,
\* for good, even if that session moves or leaves: compose.go:41-45.
GaugeDrift ==
  listening =>
    \A l \in Labels :
      gauge[l] = Cardinality({s \in Sessions : Counts(l, clients[s]) = 1})
                 - Cardinality({s \in Sessions : unheard[s] = l})

Instrumented(s) == Contains(messageValves[s], "inst")

SumOver(S, count) == MapThenSumSet(LAMBDA s : count[s], S)

\* Whatever the valves of the embedding program do with messages, Prometheus and
\* the sessions' own counters agree on the messages of instrumented sessions, in
\* both directions: inc.go:240-246, 268-278.
MeasuredAtClient ==
  ~crashed => \A l \in Labels :
    LET measured == {s \in Sessions : Instrumented(s) /\ label[s] = l} IN
    /\ f2b[l] = SumOver(measured, totalReceived)
    /\ b2f[l] = SumOver(measured, totalSent)

\* A message that a valve of the embedding program refuses is not passed on; any
\* other is, data or control and in both directions (inc.go:234-280), up to one: that
\* which takes the process down on the nil valve that Prometheus' AddValves leaves
\* when it comes after a provider of the embedding program (prometheus.go:52-58), not
\* at the beginning of the chain as its comment says.  (A message that is refused by
\* nil on the way to the client is not just discarded, as contract.go:188-189 has it:
\* it takes the process down, too, inc.go:276.)
OnlyOwnValvesHarm ==
  /\ \A s \in Sessions :
       /\ refused[s] \subseteq lost[s]
       /\ \A m \in lost[s] \ refused[s] :
            crashed /\ m = messages /\ Overwritten(messageValves[s])
  /\ crashed => \E s \in Sessions : messages \in lost[s]

=============================================================================
