-------------------------- MODULE CompositionProofs --------------------------
(***************************************************************************)
(* Proofs about Composition, for every configuration and any number of      *)
(* sessions, backends that operators add, and messages: every backend's     *)
(* settings come from the highest authority that gives them, and the gauge  *)
(* of a backend drifts by the sessions that Prometheus never heard of.      *)
(*                                                                         *)
(* What a chain of valves answers is not looked at: whatever it answers, a  *)
(* session stays, leaves or gets another backend.                           *)
(***************************************************************************)
EXTENDS Composition, SequenceTheorems, FiniteSetTheorems, TLAPS

Texts == {"own", "env", "request", "default"}

\* A backend of the configuration, and what is given for one.
Backends ==
  [url : Urls, id : Labels \cup {"unset"}, values : [Settings -> Origins],
   headers : Seq(Texts), codes : Seq(Texts)]

Gifts ==
  [id : Ids \cup {"unset"}, own : SUBSET Settings, request : SUBSET Settings, added : BOOLEAN]

\* A backend is what SettingsResolved says when g has been given for it.
Resolved(bk, g) ==
  /\ \A x \in Settings : bk.values[x] = Expected(g, x)
  /\ bk.id = IF g.id = "unset" THEN NormalizeForID(bk.url) ELSE g.id
  /\ g.request # {} => ToSet(bk.headers) = {"request"} /\ ToSet(bk.codes) = {"request"}
  /\ g.request = {} /\ g.own # {} =>
       ToSet(bk.headers) = {"env", "own"} /\ ToSet(bk.codes) = {"own"}
  /\ g.request = {} /\ g.own = {} =>
       ToSet(bk.headers) = {"env"} /\ ToSet(bk.codes) = {"default"}

\* The id that a backend gets when "id" has been given for it.
WithId(bk, id) == [bk EXCEPT !.id = IF id = "unset" THEN NormalizeForID(bk.url) ELSE id]

-----------------------------------------------------------------------------
(* What sanitizeBackend makes of a backend.                                 *)

\* Headers and close codes are put together from at most two lists of at most one.
LEMMA Short ==
  ASSUME NEW a, NEW b
  PROVE  /\ <<>> \o <<a>> = <<a>> /\ <<a>> \o <<b>> = <<a, b>>
         /\ ToSet(<<a>>) = {a} /\ ToSet(<<a, b>>) = {a, b}
         /\ a \in Texts /\ b \in Texts => <<a>> \in Seq(Texts) /\ <<a, b>> \in Seq(Texts)
<1>1. <<>> \o <<a>> = <<a>> /\ <<a>> \o <<b>> = <<a, b>>
  <2>1. PICK S : S = {a, b}
    OBVIOUS
  <2>2. <<>> \in Seq(S) /\ <<a>> \in Seq(S) /\ <<b>> \in Seq(S) /\ <<a, b>> \in Seq(S)
    BY <2>1
  <2>3. <<>> \o <<a>> = <<a>>
    BY <2>2, ConcatEmptySeq
  <2>4. PICK s \in Seq(S), t \in Seq(S) : s = <<a>> \o <<b>> /\ t = <<a, b>>
    BY <2>2, ConcatProperties
  <2>5. Len(s) = 2 /\ s[1] = a /\ s[2] = b
    BY <2>2, <2>4, ConcatProperties
  <2>6. Len(t) = 2 /\ t[1] = a /\ t[2] = b
    BY <2>4
  <2>7. s = t
    BY <2>5, <2>6, SeqEqual
  <2> QED
    BY <2>3, <2>4, <2>7
<1>2. DOMAIN <<a>> = {1} /\ DOMAIN <<a, b>> = {1, 2}
  OBVIOUS
<1>3. ToSet(<<a>>) = {a} /\ ToSet(<<a, b>>) = {a, b}
  BY <1>2 DEF ToSet
<1>4. a \in Texts /\ b \in Texts => <<a>> \in Seq(Texts) /\ <<a, b>> \in Seq(Texts)
  OBVIOUS
<1> QED
  BY <1>1, <1>3, <1>4

\* A configuration; nothing changes the settings, headers and codes of the environment.
Environment(uc) ==
  uc = [backends |-> uc.backends, URLs |-> uc.URLs, IDs |-> uc.IDs,
        values |-> From("env", EnvGiven), headers |-> <<"env">>, codes |-> <<"env">>]

\* A backend of the file: the environment's value where there is one, then its own,
\* then the default; its own headers and the environment's.
LEMMA FileIsResolved ==
  ASSUME NEW uc, Environment(uc), NEW url \in Urls, NEW id \in Labels \cup {"unset"},
         NEW own \in SUBSET Settings, NEW old, old = FileBackend(url, id, own),
         NEW bk, bk = sanitizeBackend(uc, old), NEW g \in Gifts, g.own = own, g.request = {}
  PROVE  /\ bk.url = url /\ bk.id = id
         /\ bk \in Backends
         /\ GivenSettings(old.values) = own
         /\ Resolved(WithId(bk, g.id), g)
<1> DEFINE headers == IF own = {} THEN <<"env">> ELSE <<"own", "env">>
           codes   == IF own = {} THEN <<"default">> ELSE <<"own", "own">>
           value   == [x \in Settings |-> IF x \in EnvGiven THEN "env"
                                          ELSE IF x \in own THEN "own" ELSE "default"]
<1>1. bk = [url |-> url, id |-> id, values |-> value, headers |-> headers, codes |-> codes]
  <2>1. PICK text, code : /\ text = IF own = {} THEN <<>> ELSE <<"own">>
                          /\ code = IF own = {} THEN <<"default">> ELSE <<"own">>
    OBVIOUS
  <2>2. text \o <<"env">> = headers /\ text \o code = codes
    <3>1. CASE own = {}
      BY <2>1, <3>1, Short
    <3>2. CASE own # {}
      BY <2>1, <3>2, Short
    <3> QED
      BY <3>1, <3>2
  <2>3. old = [url |-> url, id |-> id, values |-> From("own", own), headers |-> text,
               codes |-> text]
    BY <2>1 DEF FileBackend
  <2>4. addPassHeaders(uc, old) =
          [url |-> url, id |-> id, values |-> From("own", own), headers |-> headers,
           codes |-> text]
    BY <2>2, <2>3, SMTT(30) DEF addPassHeaders, Environment
  <2>5. updateAbnormalCloseCodes(addPassHeaders(uc, old)) =
          [url |-> url, id |-> id, values |-> From("own", own), headers |-> headers,
           codes |-> codes]
    <3>1. text = <<>> <=> own = {}
      BY <2>1
    <3>2. code = IF text = <<>> THEN <<"default">> ELSE text
      BY <2>1, <3>1
    <3>3. PICK rec : rec = addPassHeaders(uc, old)
      OBVIOUS
    <3> HIDE DEF headers, codes
    <3>4. rec.codes = text /\ [rec EXCEPT !.codes = codes] =
            [url |-> url, id |-> id, values |-> From("own", own), headers |-> headers,
             codes |-> codes]
      BY <2>4, <3>3
    <3>5. text \o (IF text = <<>> THEN <<"default">> ELSE text) = codes
      BY <2>2, <3>2
    <3>6. updateAbnormalCloseCodes(rec) = [rec EXCEPT !.codes = codes]
      BY <3>4, <3>5 DEF updateAbnormalCloseCodes
    <3> QED
      BY <3>3, <3>4, <3>6
  <2>6. \A x \in Settings : /\ From("own", own)[x] = IF x \in own THEN "own" ELSE "unset"
                            /\ uc.values[x] = IF x \in EnvGiven THEN "env" ELSE "unset"
    BY DEF From, Environment
  <2>7. [x \in Settings |-> IF uc.values[x] # "unset" THEN uc.values[x]
           ELSE IF From("own", own)[x] = "unset" THEN "default" ELSE From("own", own)[x]] = value
    BY <2>6
  <2> HIDE DEF headers, codes, value
  <2>8. bk = updateBackendValues(uc, updateAbnormalCloseCodes(addPassHeaders(uc, old)))
    BY DEF sanitizeBackend
  <2> QED
    BY <2>5, <2>7, <2>8 DEF updateBackendValues
<1>2. headers \in Seq(Texts) /\ codes \in Seq(Texts)
  BY Short DEF Texts
<1>3. value \in [Settings -> Origins]
  BY DEF Origins
<1>4. bk \in Backends
  <2> HIDE DEF headers, codes, value
  <2> QED
    BY <1>1, <1>2, <1>3 DEF Backends, Labels
<1>5. GivenSettings(old.values) = own
  BY DEF GivenSettings, FileBackend, From
<1>6. /\ own # {} => ToSet(headers) = {"env", "own"} /\ ToSet(codes) = {"own"}
      /\ own = {} => ToSet(headers) = {"env"} /\ ToSet(codes) = {"default"}
  <2>1. CASE own = {}
    BY <2>1, Short
  <2>2. CASE own # {}
    <3>1. headers = <<"own", "env">> /\ codes = <<"own", "own">>
      BY <2>2
    <3>2. ToSet(<<"own", "env">>) = {"own", "env"} /\ ToSet(<<"own", "own">>) = {"own", "own"}
      BY Short
    <3> HIDE DEF headers, codes
    <3> QED
      BY <2>2, <3>1, <3>2
  <2> QED
    BY <2>1, <2>2
<1>7. Resolved(WithId(bk, g.id), g)
  <2> DEFINE new == WithId(bk, g.id)
  <2>1. new.url = url /\ new.id = IF g.id = "unset" THEN NormalizeForID(url) ELSE g.id
    BY <1>1 DEF WithId
  <2>2. new.values = value /\ new.headers = headers /\ new.codes = codes
    BY <1>1 DEF WithId
  <2>3. \A x \in Settings : value[x] = Expected(g, x)
    BY DEF Expected
  <2>4. Resolved(new, g)
    <3> HIDE DEF new, value, headers, codes
    <3> QED
      BY <1>6, <2>1, <2>2, <2>3 DEF Resolved
  <2> QED
    BY <2>4
<1> QED
  BY <1>1, <1>4, <1>5, <1>7

\* A backend of BE_URLS or of an operator, before the request's settings.
LEMMA NewIsResolved ==
  ASSUME NEW uc, Environment(uc), NEW url \in Urls, NEW id \in Ids \cup {"unset"},
         NEW g \in Gifts, g.id = id, g.own = {}, g.request = {}
  PROVE  newBackend(uc, url, id) \in Backends /\ Resolved(newBackend(uc, url, id), g)
<1>1. PICK name \in Labels \cup {"unset"} : name = IF id = "unset" THEN NormalizeForID(url) ELSE id
  BY DEF Labels
<1>2. PICK bk : bk = newBackend(uc, url, id)
  OBVIOUS
<1>3. bk = sanitizeBackend(uc, FileBackend(url, name, {}))
  BY <1>1, <1>2 DEF newBackend, FileBackend
<1>4. PICK own \in SUBSET Settings : own = {}
  OBVIOUS
<1>5. PICK old : old = FileBackend(url, name, own)
  OBVIOUS
<1>6. bk = sanitizeBackend(uc, old) /\ g.own = own /\ g.request = {}
  BY <1>3, <1>4, <1>5
<1>7. bk \in Backends /\ bk.id = name /\ bk.url = url /\ Resolved(WithId(bk, g.id), g)
  BY <1>5, <1>6, FileIsResolved
<1>8. WithId(bk, g.id) = bk
  <2>1. [bk EXCEPT !.id = name] = bk
    BY <1>7 DEF Backends
  <2> QED
    BY <1>1, <1>7, <2>1 DEF WithId
<1> QED
  BY <1>2, <1>7, <1>8

\* The configuration with one more backend.
With(uc, bk) == [uc EXCEPT !.backends = Append(@, bk)]

\* A backend of an operator: what the request gives goes before all else.
LEMMA AddedIsResolved ==
  ASSUME NEW uc, Environment(uc), uc.backends \in Seq(Backends), NEW url \in Urls,
         NEW id \in Ids \cup {"unset"}, NEW request \in SUBSET Settings,
         NEW origin, origin = IF request = {} THEN <<>> ELSE <<"request">>
  PROVE  \E bk \in Backends :
           /\ addBackendConfig(uc, url, id, request, origin, origin) = With(uc, bk)
           /\ Resolved(bk, Given(id, {}, request, TRUE))
<1>1. PICK old : old = newBackend(uc, url, id)
  OBVIOUS
<1>2. PICK g \in Gifts : g = Given(id, {}, {}, TRUE)
  BY DEF Gifts, Given
<1>3. old \in Backends /\ Resolved(old, g)
  BY <1>1, <1>2, NewIsResolved DEF Given
<1>4. PICK values, headers, codes :
        /\ values = [x \in Settings |-> IF x \in request THEN "request" ELSE old.values[x]]
        /\ headers = IF origin = <<>> THEN old.headers ELSE origin
        /\ codes = IF origin = <<>> THEN old.codes ELSE origin
  OBVIOUS
<1>5. PICK bk : bk = [url |-> old.url, id |-> old.id, values |-> values, headers |-> headers,
                      codes |-> codes]
  OBVIOUS
<1>6. values \in [Settings -> Origins] /\ headers \in Seq(Texts) /\ codes \in Seq(Texts)
  <2>1. <<"request">> \in Seq(Texts)
    BY Short DEF Texts
  <2>2. old.values \in [Settings -> Origins] /\ old.headers \in Seq(Texts) /\ old.codes \in Seq(Texts)
    BY <1>3 DEF Backends
  <2>3. headers \in Seq(Texts) /\ codes \in Seq(Texts)
    BY <1>4, <2>1, <2>2
  <2>4. values \in [Settings -> Origins]
    BY <1>4, <2>2 DEF Origins
  <2> QED
    BY <2>3, <2>4
<1>7. bk \in Backends
  BY <1>3, <1>5, <1>6 DEF Backends
<1>8. Resolved(bk, Given(id, {}, request, TRUE))
  <2>1. /\ \A x \in Settings : old.values[x] = Expected(g, x)
        /\ old.id = IF id = "unset" THEN NormalizeForID(old.url) ELSE id
        /\ ToSet(old.headers) = {"env"} /\ ToSet(old.codes) = {"default"}
    BY <1>2, <1>3 DEF Resolved, Given
  <2>2. PICK h : h = Given(id, {}, request, TRUE)
    OBVIOUS
  <2>3. h.id = id /\ h.own = {} /\ h.request = request
    BY <2>2 DEF Given
  <2>4. \A x \in Settings : values[x] = Expected(h, x)
    BY <1>2, <1>4, <2>1, <2>3 DEF Expected, Given
  <2>5. /\ request # {} => ToSet(headers) = {"request"} /\ ToSet(codes) = {"request"}
        /\ request = {} => ToSet(headers) = {"env"} /\ ToSet(codes) = {"default"}
    <3>1. CASE request = {}
      BY <1>4, <2>1, <3>1
    <3>2. CASE request # {}
      BY <1>4, <3>2, Short
    <3> QED
      BY <3>1, <3>2
  <2>6. /\ bk.values = values /\ bk.headers = headers /\ bk.codes = codes
        /\ bk.id = old.id /\ bk.url = old.url
    BY <1>5
  <2> QED
    BY <2>1, <2>2, <2>3, <2>4, <2>5, <2>6 DEF Resolved
<1>9. addBackendConfig(uc, url, id, request, origin, origin) = With(uc, bk)
  BY <1>1, <1>4, <1>5 DEF addBackendConfig, With
<1> QED
  BY <1>7, <1>8, <1>9

-----------------------------------------------------------------------------
(* What sanitize makes of a configuration.                                  *)

FromFile == {FileBackend(url, id, own) :
               url \in Urls, id \in Ids \cup {"unset"}, own \in SUBSET Settings}

\* The configuration as main reads it.
Read(uc) == uc.backends \in Seq(FromFile) /\ uc.URLs \in Seq(Urls) /\ uc.IDs \in Seq(Ids)

\* Every backend is what it should be.
AllResolved(bks, gifts) ==
  /\ bks \in Seq(Backends) /\ gifts \in Seq(Gifts) /\ Len(bks) = Len(gifts)
  /\ \A i \in 1..Len(bks) : Resolved(bks[i], gifts[i])

\* A function on 1..n is a sequence.
LEMMA FunctionIsSeq ==
  ASSUME NEW S, NEW n \in Nat, NEW f \in [1..n -> S]
  PROVE  f \in Seq(S) /\ Len(f) = n
OBVIOUS

\* The backends of the file: sanitized, and with an id.
LEMMA FilesResolved ==
  ASSUME NEW uc, Environment(uc), uc.backends \in Seq(FromFile)
  PROVE  AllResolved(normalizeIDs([i \in DOMAIN uc.backends |-> sanitizeBackend(uc, uc.backends[i])]),
                     GivenByFile(uc))
<1> DEFINE old == uc.backends
           bks == [i \in DOMAIN old |-> sanitizeBackend(uc, old[i])]
           new == normalizeIDs(bks)
           g   == GivenByFile(uc)
<1>1. PICK n \in Nat : n = Len(old) /\ DOMAIN old = 1..n
  OBVIOUS
<1>2. /\ DOMAIN bks = 1..n /\ DOMAIN new = 1..n /\ DOMAIN g = 1..n
      /\ new = [i \in 1..n |-> new[i]] /\ g = [i \in 1..n |-> g[i]]
  BY <1>1 DEF normalizeIDs, GivenByFile
<1>3. ASSUME NEW i \in 1..n
      PROVE  new[i] \in Backends /\ g[i] \in Gifts /\ Resolved(new[i], g[i])
  <2>1. PICK url \in Urls, id \in Ids \cup {"unset"}, own \in SUBSET Settings :
          old[i] = FileBackend(url, id, own)
    <3>1. old[i] \in FromFile
      BY <1>1
    <3>2. \A x \in FromFile : \E url \in Urls, id \in Ids \cup {"unset"}, own \in SUBSET Settings :
            x = FileBackend(url, id, own)
      BY DEF FromFile
    <3> HIDE DEF old, bks, new, g
    <3> QED
      BY <3>1, <3>2
  <2>2. PICK bk, entry : entry = old[i] /\ bk = sanitizeBackend(uc, entry)
    OBVIOUS
  <2>3. PICK gift \in Gifts : gift = Given(id, own, {}, FALSE)
    BY DEF Gifts, Given
  <2>4. gift.id = id /\ gift.own = own /\ gift.request = {}
    BY <2>3 DEF Given
  <2>5. id \in Labels \cup {"unset"}
    BY DEF Labels
  <2>6. /\ bk.url = url /\ bk.id = id /\ bk \in Backends /\ GivenSettings(entry.values) = own
        /\ Resolved(WithId(bk, gift.id), gift)
    <3>1. entry = FileBackend(url, id, own) /\ bk = sanitizeBackend(uc, entry)
      BY <2>1, <2>2
    <3>2. PICK name \in Labels \cup {"unset"} : name = id
      BY <2>5
    <3>3. entry = FileBackend(url, name, own)
      BY <3>1, <3>2
    <3> HIDE DEF old, bks, new, g
    <3>4. /\ bk.url = url /\ bk.id = name /\ bk \in Backends /\ GivenSettings(entry.values) = own
          /\ Resolved(WithId(bk, gift.id), gift)
      BY <2>4, <3>1, <3>3, FileIsResolved
    <3> QED
      BY <3>2, <3>4
  <2>7. g[i] = gift
    <3>1. g[i] = Given(old[i].id, GivenSettings(old[i].values), {}, FALSE)
      BY <1>1 DEF GivenByFile
    <3>2. old[i].id = id
      BY <2>1 DEF FileBackend
    <3> QED
      BY <2>2, <2>3, <2>6, <3>1, <3>2
  <2>8. new[i] = WithId(bk, id) /\ new[i] \in Backends
    <3>1. bks[i] = bk
      BY <1>1, <2>2
    <3>2. new[i] = IF bk.id = "unset" THEN [bk EXCEPT !.id = NormalizeForID(bk.url)] ELSE bk
      BY <1>2, <3>1 DEF normalizeIDs
    <3>3. CASE id = "unset"
      <4>1. NormalizeForID(bk.url) \in Labels
        BY <2>6 DEF Labels
      <4> QED
        BY <2>6, <3>2, <3>3, <4>1 DEF WithId, Backends
    <3>4. CASE id # "unset"
      BY <2>6, <3>2, <3>4 DEF WithId, Backends
    <3> QED
      BY <3>3, <3>4
  <2> QED
    BY <2>4, <2>6, <2>7, <2>8
<1>4. new \in [1..n -> Backends] /\ g \in [1..n -> Gifts]
  <2> HIDE DEF new, g
  <2> QED
    BY <1>2, <1>3
<1>5. new \in Seq(Backends) /\ g \in Seq(Gifts) /\ Len(new) = n /\ Len(g) = n
  <2> HIDE DEF new, g
  <2> QED
    BY <1>4, FunctionIsSeq
<1>6. AllResolved(new, g)
  <2> HIDE DEF new, g
  <2> QED
    BY <1>3, <1>5 DEF AllResolved
<1> QED
  BY <1>6

\* The backends of BE_URLS, with the ids of BE_URL_IDS if there are any.
LEMMA EnvResolved ==
  ASSUME NEW uc, Environment(uc), uc.URLs \in Seq(Urls), uc.IDs \in Seq(Ids), ~sanitizePanics(uc)
  PROVE  AllResolved([i \in DOMAIN uc.URLs |->
                        newBackend(uc, uc.URLs[i], IF uc.IDs = <<>> THEN "unset" ELSE uc.IDs[i])],
                     GivenByEnv(uc))
<1> DEFINE ID(i) == IF uc.IDs = <<>> THEN "unset" ELSE uc.IDs[i]
           new == [i \in DOMAIN uc.URLs |-> newBackend(uc, uc.URLs[i], ID(i))]
           g   == GivenByEnv(uc)
<1>1. PICK n \in Nat : n = Len(uc.URLs) /\ DOMAIN uc.URLs = 1..n
  OBVIOUS
<1>2. DOMAIN new = 1..n /\ DOMAIN g = 1..n /\ new = [i \in 1..n |-> new[i]] /\ g = [i \in 1..n |-> g[i]]
  BY <1>1 DEF GivenByEnv
<1>3. ASSUME NEW i \in 1..n
      PROVE  new[i] \in Backends /\ g[i] \in Gifts /\ Resolved(new[i], g[i])
  <2>1. ID(i) \in Ids \cup {"unset"}
    <3>1. CASE uc.IDs = <<>>
      BY <3>1
    <3>2. CASE uc.IDs # <<>>
      <4>1. uc.URLs # <<>>
        BY <1>1
      <4>2. Len(uc.IDs) = n
        BY <1>1, <3>2, <4>1 DEF sanitizePanics
      <4>3. uc.IDs[i] \in Ids
        BY <4>2
      <4> QED
        BY <4>3
    <3> QED
      BY <3>1, <3>2
  <2>2. PICK id \in Ids \cup {"unset"} : id = ID(i)
    BY <2>1
  <2>3. PICK gift \in Gifts : gift = Given(id, {}, {}, FALSE)
    BY DEF Gifts, Given
  <2>4. gift.id = id /\ gift.own = {} /\ gift.request = {}
    BY <2>3 DEF Given
  <2>5. PICK url \in Urls : url = uc.URLs[i]
    BY <1>1
  <2>6. newBackend(uc, url, id) \in Backends /\ Resolved(newBackend(uc, url, id), gift)
    BY <2>4, NewIsResolved
  <2>7. new[i] = newBackend(uc, url, id) /\ g[i] = gift
    BY <1>1, <2>2, <2>3, <2>5 DEF GivenByEnv
  <2> QED
    BY <2>6, <2>7
<1>4. new \in [1..n -> Backends] /\ g \in [1..n -> Gifts]
  <2> HIDE DEF new, g
  <2> QED
    BY <1>2, <1>3
<1>5. new \in Seq(Backends) /\ g \in Seq(Gifts) /\ Len(new) = n /\ Len(g) = n
  <2> HIDE DEF new, g
  <2> QED
    BY <1>4, FunctionIsSeq
<1>6. AllResolved(new, g)
  <2> HIDE DEF new, g
  <2> QED
    BY <1>3, <1>5 DEF AllResolved
<1> QED
  BY <1>6

\* Two lists of such backends make one.
LEMMA BothResolved ==
  ASSUME NEW a, NEW f, AllResolved(a, f), NEW b, NEW g, AllResolved(b, g)
  PROVE  AllResolved(a \o b, f \o g)
<1>1. PICK n \in Nat, m \in Nat : n = Len(a) /\ n = Len(f) /\ m = Len(b) /\ m = Len(g)
  BY DEF AllResolved
<1>2. /\ a \o b \in Seq(Backends) /\ Len(a \o b) = n + m
      /\ \A i \in 1..(n + m) : (a \o b)[i] = IF i <= n THEN a[i] ELSE b[i - n]
  <2>1. a \in Seq(Backends) /\ b \in Seq(Backends)
    BY DEF AllResolved
  <2>2. /\ a \o b \in Seq(Backends) /\ Len(a \o b) = Len(a) + Len(b)
        /\ \A i \in 1..(Len(a) + Len(b)) :
             (a \o b)[i] = IF i <= Len(a) THEN a[i] ELSE b[i - Len(a)]
    BY <2>1, ConcatProperties
  <2> QED
    BY <1>1, <2>2
<1>3. /\ f \o g \in Seq(Gifts) /\ Len(f \o g) = n + m
      /\ \A i \in 1..(n + m) : (f \o g)[i] = IF i <= n THEN f[i] ELSE g[i - n]
  <2>1. f \in Seq(Gifts) /\ g \in Seq(Gifts)
    BY DEF AllResolved
  <2>2. /\ f \o g \in Seq(Gifts) /\ Len(f \o g) = Len(f) + Len(g)
        /\ \A i \in 1..(Len(f) + Len(g)) :
             (f \o g)[i] = IF i <= Len(f) THEN f[i] ELSE g[i - Len(f)]
    BY <2>1, ConcatProperties
  <2> QED
    BY <1>1, <2>2
<1>4. ASSUME NEW i \in 1..(n + m) PROVE Resolved((a \o b)[i], (f \o g)[i])
  <2>1. CASE i <= n
    <3>1. i \in 1..n
      BY <2>1
    <3> QED
      BY <1>1, <1>2, <1>3, <2>1, <3>1 DEF AllResolved
  <2>2. CASE ~(i <= n)
    <3>1. PICK j \in 1..m : j = i - n
      BY <2>2
    <3> QED
      BY <1>1, <1>2, <1>3, <2>2, <3>1 DEF AllResolved
  <2> QED
    BY <2>1, <2>2
<1> QED
  BY <1>2, <1>3, <1>4 DEF AllResolved

\* So sanitize puts every backend of the file and of the environment right.
LEMMA SanitizeResolves ==
  ASSUME NEW uc, Environment(uc), Read(uc), ~sanitizePanics(uc)
  PROVE  /\ Environment(sanitize(uc))
         /\ AllResolved(sanitize(uc).backends, GivenByFile(uc) \o GivenByEnv(uc))
<1>1. PICK files : files = normalizeIDs([i \in DOMAIN uc.backends |-> sanitizeBackend(uc, uc.backends[i])])
  OBVIOUS
<1>2. PICK old : old = [uc EXCEPT !.backends = files]
  OBVIOUS
<1>3. /\ Environment(old) /\ old.backends = files /\ old.URLs = uc.URLs /\ old.IDs = uc.IDs
      /\ DOMAIN old = {"backends", "URLs", "IDs", "values", "headers", "codes"}
  BY <1>2 DEF Environment
<1>4. PICK added : added = [i \in DOMAIN old.URLs |->
                     newBackend(old, old.URLs[i], IF old.IDs = <<>> THEN "unset" ELSE old.IDs[i])]
  OBVIOUS
<1>5. AllResolved(files, GivenByFile(uc))
  BY <1>1, FilesResolved DEF Read
<1>6. AllResolved(added, GivenByEnv(old)) /\ GivenByEnv(old) = GivenByEnv(uc)
  <2>1. ~sanitizePanics(old)
    BY <1>3 DEF sanitizePanics
  <2>2. AllResolved(added, GivenByEnv(old))
    BY <1>3, <1>4, <2>1, EnvResolved DEF Read
  <2> QED
    BY <1>3, <2>2 DEF GivenByEnv
<1>7. sanitize(uc) = [old EXCEPT !.backends = files \o added]
  BY <1>1, <1>2, <1>3, <1>4 DEF sanitize, addEnvBackends
<1>8. Environment(sanitize(uc)) /\ sanitize(uc).backends = files \o added
  <2>1. PICK new, bks : bks = files \o added /\ new = [old EXCEPT !.backends = bks]
    OBVIOUS
  <2>2. PICK b, urls, ids, values, headers, codes :
          /\ old = [backends |-> b, URLs |-> urls, IDs |-> ids, values |-> values,
                    headers |-> headers, codes |-> codes]
          /\ values = From("env", EnvGiven) /\ headers = <<"env">> /\ codes = <<"env">>
    BY <1>3 DEF Environment
  <2>3. new = [backends |-> bks, URLs |-> urls, IDs |-> ids, values |-> values,
               headers |-> headers, codes |-> codes]
    BY <2>1, <2>2
  <2>4. Environment(new) /\ new.backends = bks
    BY <2>2, <2>3 DEF Environment
  <2> QED
    BY <1>7, <2>1, <2>4
<1> QED
  BY <1>5, <1>6, <1>8, BothResolved

-----------------------------------------------------------------------------
(* The configuration from main to the last AddBackend.                      *)

ConfigInv ==
  /\ Environment(config)
  /\ phase = "read" => Read(config)
  /\ phase = "running" => AllResolved(config.backends, given)
  /\ admin # "listener" => phase = "running"

\* cleanenv leaves such a configuration.
LEMMA ConfigInit == Init => ConfigInv
<1> SUFFICES ASSUME Init PROVE ConfigInv
  OBVIOUS
<1>1. phase = "read" /\ admin = "listener"
  BY DEF Init
<1>2. PICK b \in SeqOf(FileBackends, MaxFile), urls \in SeqOf(Urls, 1), ids \in SeqOf(Ids, 2) :
        config = [backends |-> b, URLs |-> urls, IDs |-> ids, values |-> From("env", EnvGiven),
                  headers |-> <<"env">>, codes |-> <<"env">>]
  BY DEF Init
<1>3. Environment(config) /\ config.backends = b /\ config.URLs = urls /\ config.IDs = ids
  BY <1>2 DEF Environment
<1>4. \A S : \A n \in Nat : \A q \in SeqOf(S, n) : q \in Seq(S)
  <2> SUFFICES ASSUME NEW S, NEW n \in Nat, NEW q \in SeqOf(S, n) PROVE q \in Seq(S)
    OBVIOUS
  <2>1. PICK m \in 0..n : q \in [1..m -> S]
    BY DEF SeqOf
  <2>2. m \in Nat
    OBVIOUS
  <2> QED
    BY <2>1, <2>2, FunctionIsSeq
<1>5. b \in Seq(FileBackends) /\ urls \in Seq(Urls) /\ ids \in Seq(Ids)
  BY <1>4, CompositionAssumption
<1>6. FileBackends \subseteq FromFile
  BY FileAssumption DEF FromFile
<1>7. b \in Seq(FromFile)
  BY <1>5, <1>6
<1>8. Read(config)
  BY <1>3, <1>5, <1>7 DEF Read
<1> QED
  BY <1>1, <1>3, <1>8 DEF ConfigInv

\* out.NewManager sanitizes it, ...
LEMMA NewManagerConfig == ConfigInv /\ NewManager => ConfigInv'
<1> SUFFICES ASSUME ConfigInv, NewManager PROVE ConfigInv'
  OBVIOUS
<1>1. phase = "read" /\ admin = "listener" /\ admin' = admin
  BY DEF NewManager, ConfigInv, attachVars
<1>2. CASE sanitizePanics(config)
  BY <1>1, <1>2 DEF NewManager, ConfigInv
<1>3. CASE ~sanitizePanics(config)
  <2>1. /\ config' = sanitize(config) /\ given' = GivenByFile(config) \o GivenByEnv(config)
        /\ phase' \in {"failed", "running"}
    BY <1>3 DEF NewManager
  <2>2. Environment(config') /\ AllResolved(config'.backends, given')
    BY <1>1, <1>3, <2>1, SanitizeResolves DEF ConfigInv
  <2> QED
    BY <1>1, <2>1, <2>2 DEF ConfigInv
<1> QED
  BY <1>2, <1>3

\* ... and an operator's backend joins those there are.
LEMMA AddBackendConfig ==
  ASSUME ConfigInv, NEW url \in Urls, NEW id \in Ids \cup {"unset"},
         NEW request \in {{}, RequestGiven}, AddBackend(url, id, request)
  PROVE  /\ ConfigInv'
         /\ \E bk \in Backends : config'.backends = Append(config.backends, bk)
<1>1. admin = "up" /\ phase = "running" /\ UNCHANGED <<admin, phase>>
  BY DEF AddBackend, ConfigInv, attachVars
<1>2. Environment(config) /\ AllResolved(config.backends, given)
  BY <1>1 DEF ConfigInv
<1>3. PICK n \in Nat : n = Len(config.backends) /\ n = Len(given)
  BY <1>2 DEF AllResolved
<1>4. PICK origin : origin = IF request = {} THEN <<>> ELSE <<"request">>
  OBVIOUS
<1>5. request \in SUBSET Settings
  BY CompositionAssumption
<1>6. PICK bk \in Backends :
        /\ addBackendConfig(config, url, id, request, origin, origin) = With(config, bk)
        /\ Resolved(bk, Given(id, {}, request, TRUE))
  BY <1>2, <1>4, <1>5, AddedIsResolved, ZenonT(60) DEF AllResolved
<1>7. PICK gift \in Gifts : gift = Given(id, {}, request, TRUE)
  BY <1>5 DEF Gifts, Given
<1>8. config' = [config EXCEPT !.backends = Append(@, bk)] /\ given' = Append(given, gift)
  BY <1>4, <1>6, <1>7 DEF AddBackend, With
<1>9. Environment(config') /\ config'.backends = Append(config.backends, bk)
  <2>1. PICK new, b, urls, ids, values, headers, codes :
          /\ config = [backends |-> b, URLs |-> urls, IDs |-> ids, values |-> values,
                       headers |-> headers, codes |-> codes]
          /\ values = From("env", EnvGiven) /\ headers = <<"env">> /\ codes = <<"env">>
          /\ new = Append(b, bk)
    BY <1>2 DEF Environment
  <2>2. config' = [backends |-> new, URLs |-> urls, IDs |-> ids, values |-> values,
                   headers |-> headers, codes |-> codes]
    BY <1>8, <2>1
  <2> QED
    BY <2>1, <2>2 DEF Environment
<1>10. AllResolved(config'.backends, given')
  <2>1. PICK b, g : b = config'.backends /\ g = given'
    OBVIOUS
  <2>2. /\ b \in Seq(Backends) /\ Len(b) = n + 1 /\ b[n + 1] = bk
        /\ \A i \in 1..n : b[i] = config.backends[i]
    BY <1>2, <1>3, <1>9, <2>1, AppendProperties DEF AllResolved
  <2>3. /\ g \in Seq(Gifts) /\ Len(g) = n + 1 /\ g[n + 1] = gift
        /\ \A i \in 1..n : g[i] = given[i]
    BY <1>2, <1>3, <1>8, <2>1, AppendProperties DEF AllResolved
  <2>4. ASSUME NEW i \in 1..(n + 1) PROVE Resolved(b[i], g[i])
    <3>1. CASE i = n + 1
      BY <1>6, <1>7, <2>2, <2>3, <3>1
    <3>2. CASE i \in 1..n
      BY <1>2, <1>3, <2>2, <2>3, <3>2 DEF AllResolved
    <3> QED
      BY <3>1, <3>2
  <2> QED
    BY <2>1, <2>2, <2>3, <2>4 DEF AllResolved
<1> QED
  BY <1>1, <1>9, <1>10 DEF ConfigInv

\* Attaching Prometheus comes after NewManager, and nothing else is changed.
LEMMA AttachConfig ==
  ConfigInv /\ (AttachListener \/ AttachValves) =>
    ConfigInv' /\ phase = "running" /\ UNCHANGED mainVars
BY DEF ConfigInv, AttachListener, AttachValves, mainVars

\* What session s does.
SessionStep(s) ==
  \/ \E i \in DOMAIN config.backends : ServeWs(s, i)
  \/ Register(s)
  \/ \E answers \in [DOMAIN messageValves[s] -> Answers] :
       \/ \E msg \in {"data", "normal"} : SendToUpstream(s, msg, answers)
       \/ \E msg \in {"data", "normal", "abnormal"} : ReceiveFromUpstream(s, msg, answers)

\* Sessions and embedding programs leave the configuration alone.
LEMMA OthersConfig ==
  ASSUME Embed \/ \E s \in Sessions : SessionStep(s)
  PROVE  UNCHANGED <<mainVars, admin, listening>>
<1>1. CASE Embed
  BY <1>1 DEF Embed
<1>2. ASSUME NEW s \in Sessions, SessionStep(s) PROVE UNCHANGED <<mainVars, admin, listening>>
  BY <1>2 DEF SessionStep, ServeWs, Register, SendToUpstream, ReceiveFromUpstream, attachVars
<1> QED
  BY <1>1, <1>2

\* So the configuration stays as it should be.
LEMMA ConfigStep == ConfigInv /\ [Next]_vars => ConfigInv'
<1> SUFFICES ASSUME ConfigInv, [Next]_vars PROVE ConfigInv'
  OBVIOUS
<1>1. CASE UNCHANGED vars
  BY <1>1 DEF vars, mainVars, attachVars, ConfigInv
<1>2. CASE Embed \/ \E s \in Sessions : SessionStep(s)
  BY <1>2, OthersConfig DEF mainVars, ConfigInv
<1> QED
  BY <1>1, <1>2, NewManagerConfig, AttachConfig, AddBackendConfig DEF Next, SessionStep

\* In every configuration, every backend of a running balancer, wherever it comes
\* from, has an id, and each timeout, threshold and buffer size of it is what the
\* highest authority gives that gives one.  Close codes are not among them: the
\* environment's never win.
THEOREM SettingsAreResolved == Spec => []SettingsResolved
<1>1. ConfigInv => SettingsResolved
  <2> SUFFICES ASSUME ConfigInv, phase = "running", NEW i \in DOMAIN config.backends
               PROVE  Resolved(config.backends[i], given[i])
    BY DEF SettingsResolved, Resolved
  <2>1. i \in 1..Len(config.backends)
    BY DEF ConfigInv, AllResolved
  <2> QED
    BY <2>1 DEF ConfigInv, AllResolved
<1> QED
  BY <1>1, ConfigInit, ConfigStep, PTL DEF Spec

-----------------------------------------------------------------------------
(* The gauge.                                                               *)

\* The sessions that have a backend with id l, by the clients map.
Having(bks, map, l) == {s \in Sessions : map[s] # 0 /\ bks[map[s]].id = l}

Unheard(l) == {s \in Sessions : unheard[s] = l}

One(bks, l, i) == IF i # 0 /\ bks[i].id = l THEN 1 ELSE 0

\* Every session that is registered has a backend of the configuration, as has one
\* on its way there; until Prometheus listens the gauges stay 0.
GaugeInv ==
  /\ clients \in [Sessions -> Nat] /\ con \in [Sessions -> Nat] /\ gauge \in [Labels -> Int]
  /\ phase = "running" => \A s \in Sessions : /\ clients[s] <= Len(config.backends)
                                             /\ con[s] <= Len(config.backends)
  /\ phase # "running" => \A s \in Sessions : session[s] = "none" /\ clients[s] = 0 /\ con[s] = 0
  /\ listening => phase = "running" /\ admin # "listener"
  /\ ~listening => gauge = [l \in Labels |-> 0]
  /\ listening => \A l \in Labels :
       gauge[l] = Cardinality(Having(config.backends, clients, l)) - Cardinality(Unheard(l))

\* These sessions can be counted.
LEMMA HavingFinite ==
  \A bks, map, l : /\ IsFiniteSet(Having(bks, map, l))
                   /\ Cardinality(Having(bks, map, l)) \in Nat
<1> SUFFICES ASSUME NEW bks, NEW map, NEW l
             PROVE  /\ IsFiniteSet(Having(bks, map, l))
                    /\ Cardinality(Having(bks, map, l)) \in Nat
  OBVIOUS
<1>1. Having(bks, map, l) \in SUBSET Sessions /\ IsFiniteSet(Sessions)
  BY CompositionAssumption DEF Having
<1>2. IsFiniteSet(Having(bks, map, l))
  BY <1>1, FS_Subset
<1> QED
  BY <1>2, FS_CardinalityType

\* And those that Prometheus has not heard of.
LEMMA UnheardFinite == \A l : Cardinality(Unheard(l)) \in Nat
<1> SUFFICES ASSUME NEW l PROVE Cardinality(Unheard(l)) \in Nat
  OBVIOUS
<1>1. Unheard(l) \in SUBSET Sessions /\ IsFiniteSet(Sessions)
  BY CompositionAssumption DEF Unheard
<1>2. IsFiniteSet(Unheard(l))
  BY <1>1, FS_Subset
<1> QED
  BY <1>2, FS_CardinalityType

\* addClient and removeClient move one session from one count to another.
LEMMA HavingMoves ==
  ASSUME NEW bks, NEW map \in [Sessions -> Nat], NEW s \in Sessions, NEW i \in Nat, NEW l,
         NEW new \in [Sessions -> Nat], new[s] = i, \A t \in Sessions \ {s} : new[t] = map[t]
  PROVE  Cardinality(Having(bks, new, l)) =
           Cardinality(Having(bks, map, l)) + One(bks, l, i) - One(bks, l, map[s])
<1>1. PICK A, B, C : A = Having(bks, map, l) /\ B = Having(bks, new, l) /\ C = A \ {s}
  OBVIOUS
<1>2. B \ {s} = C
  BY <1>1 DEF Having
<1>3. /\ s \in A <=> One(bks, l, map[s]) = 1
      /\ s \in B <=> One(bks, l, i) = 1
      /\ One(bks, l, map[s]) \in {0, 1} /\ One(bks, l, i) \in {0, 1}
  BY <1>1 DEF Having, One
<1>4. /\ IsFiniteSet(A) /\ IsFiniteSet(B)
      /\ Cardinality(A) \in Nat /\ Cardinality(B) \in Nat /\ Cardinality(C) \in Int
  <2>1. IsFiniteSet(A) /\ IsFiniteSet(B) /\ Cardinality(A) \in Nat /\ Cardinality(B) \in Nat
    BY <1>1, HavingFinite
  <2>2. IsFiniteSet(C)
    BY <1>1, <2>1, FS_RemoveElement
  <2> QED
    BY <2>1, <2>2, FS_CardinalityType
<1>5. /\ Cardinality(C) = IF s \in A THEN Cardinality(A) - 1 ELSE Cardinality(A)
      /\ Cardinality(C) = IF s \in B THEN Cardinality(B) - 1 ELSE Cardinality(B)
  <2>1. C = A \ {s} /\ C = B \ {s}
    BY <1>1, <1>2
  <2>2. Cardinality(A \ {s}) = IF s \in A THEN Cardinality(A) - 1 ELSE Cardinality(A)
    BY <1>4, FS_RemoveElement
  <2>3. Cardinality(B \ {s}) = IF s \in B THEN Cardinality(B) - 1 ELSE Cardinality(B)
    BY <1>4, FS_RemoveElement
  <2>4. PICK a, b : a = Cardinality(A) /\ b = Cardinality(B)
    OBVIOUS
  <2> QED
    BY <2>1, <2>2, <2>3
<1>6. Cardinality(A) = Cardinality(C) + One(bks, l, map[s])
  BY <1>3, <1>4, <1>5
<1>7. Cardinality(B) = Cardinality(C) + One(bks, l, i)
  BY <1>3, <1>4, <1>5
<1> QED
  BY <1>1, <1>3, <1>4, <1>6, <1>7

\* Before NewManager there is no session and no gauge.
LEMMA GaugeInit == Init => GaugeInv
<1> SUFFICES ASSUME Init PROVE GaugeInv
  OBVIOUS
<1>1. /\ clients \in [Sessions -> Nat] /\ con \in [Sessions -> Nat] /\ gauge \in [Labels -> Int]
      /\ phase = "read" /\ ~listening /\ gauge = [l \in Labels |-> 0]
  BY DEF Init
<1>2. \A s \in Sessions : session[s] = "none" /\ clients[s] = 0 /\ con[s] = 0
  BY DEF Init
<1> QED
  BY <1>1, <1>2 DEF GaugeInv

\* NewManager leaves it so, ...
LEMMA NewManagerGauge == ConfigInv /\ GaugeInv /\ NewManager => GaugeInv'
<1> SUFFICES ASSUME ConfigInv, GaugeInv, NewManager PROVE GaugeInv'
  OBVIOUS
<1>1. /\ UNCHANGED <<clients, con, gauge, session, listening, admin>>
      /\ phase = "read" /\ ~listening
  BY DEF NewManager, GaugeInv, attachVars, sessionVars, gaugeVars
<1>2. \A s \in Sessions : session[s] = "none" /\ clients[s] = 0 /\ con[s] = 0
  BY <1>1 DEF GaugeInv
<1>3. phase' = "running" => \A s \in Sessions : /\ clients'[s] <= Len(config'.backends)
                                              /\ con'[s] <= Len(config'.backends)
  <2> SUFFICES ASSUME phase' = "running" PROVE Len(config'.backends) >= 0
    BY <1>1, <1>2
  <2>1. config'.backends \in Seq(Backends)
    BY NewManagerConfig DEF ConfigInv, AllResolved
  <2> QED
    BY <2>1
<1> QED
  BY <1>1, <1>2, <1>3 DEF GaugeInv

\* ... and from its first step on Prometheus does not hear of the sessions there are.
LEMMA AttachGauge == ConfigInv /\ GaugeInv /\ AttachListener => GaugeInv'
<1> SUFFICES ASSUME ConfigInv, GaugeInv, AttachListener PROVE GaugeInv'
  OBVIOUS
<1>1. UNCHANGED <<phase, config, clients, con, gauge, session>> /\ phase = "running"
  BY DEF AttachListener, mainVars, sessionVars
<1>2. CASE ~instrumented
  BY <1>1, <1>2 DEF AttachListener, GaugeInv, Unheard
<1>3. CASE instrumented
  <2>1. /\ listening' = TRUE
        /\ unheard' = [s \in Sessions |-> IF clients[s] = 0 THEN "none"
                                          ELSE config.backends[clients[s]].id]
    BY <1>3 DEF AttachListener
  <2>2. ~listening /\ admin' # "listener"
    BY <1>3 DEF AttachListener, GaugeInv
  <2>3. \A l \in Labels : Unheard(l)' = Having(config.backends, clients, l)
    BY <2>1, CompositionAssumption DEF Unheard, Having
  <2>4. \A l \in Labels :
          gauge'[l] = Cardinality(Having(config.backends, clients, l)) - Cardinality(Unheard(l)')
    BY <1>1, <2>2, <2>3, HavingFinite DEF GaugeInv
  <2> QED
    BY <1>1, <2>1, <2>2, <2>4 DEF GaugeInv
<1> QED
  BY <1>2, <1>3

\* A backend that an operator adds is nobody's yet.
LEMMA AddBackendGauge ==
  ASSUME ConfigInv, GaugeInv, NEW url \in Urls, NEW id \in Ids \cup {"unset"},
         NEW request \in {{}, RequestGiven}, AddBackend(url, id, request)
  PROVE  GaugeInv'
<1>1. /\ UNCHANGED <<phase, clients, con, gauge, session, listening, admin, unheard>>
      /\ phase = "running"
  BY DEF AddBackend, ConfigInv, attachVars, sessionVars, gaugeVars
<1>2. PICK old, new : /\ old = config.backends /\ new = config'.backends
                    /\ \E bk \in Backends : new = Append(old, bk)
  BY AddBackendConfig
<1>3. PICK n \in Nat : n = Len(old) /\ old \in Seq(Backends)
  BY <1>1, <1>2 DEF ConfigInv, AllResolved
<1>4. Len(new) = n + 1 /\ \A i \in 1..n : new[i] = old[i]
  BY <1>2, <1>3, AppendProperties
<1>5. clients \in [Sessions -> Nat] /\ con \in [Sessions -> Nat]
      /\ \A s \in Sessions : clients[s] <= n /\ con[s] <= n
  BY <1>1, <1>2, <1>3 DEF GaugeInv
<1>6. \A l : Having(new, clients, l) = Having(old, clients, l)
  <2>1. \A s \in Sessions : clients[s] # 0 => clients[s] \in 1..n
    BY <1>5
  <2> QED
    BY <1>4, <2>1 DEF Having
<1>7. \A s \in Sessions : clients[s] <= Len(new) /\ con[s] <= Len(new)
  BY <1>4, <1>5
<1>8. \A l : Unheard(l)' = Unheard(l)
  BY <1>1 DEF Unheard
<1> QED
  BY <1>1, <1>2, <1>6, <1>7, <1>8 DEF GaugeInv

\* A step of a session changes its own backend, and its own entry of clients, if any.
LEMMA SessionMoves ==
  ASSUME ConfigInv, GaugeInv, NEW s \in Sessions, SessionStep(s)
  PROVE  /\ phase = "running"
         /\ con' = con \/ \E i \in 1..Len(config.backends) : con' = [con EXCEPT ![s] = i]
         /\ UNCHANGED gaugeVars \/ \E i \in 0..Len(config.backends) : SetClient(s, i)
<1>1. phase = "running"
  <2>1. phase = "running" \/ session[s] # "none"
    BY DEF SessionStep, ServeWs, Register, SendToUpstream, ReceiveFromUpstream
  <2> QED
    BY <2>1 DEF GaugeInv
<1>2. PICK n \in Nat : /\ n = Len(config.backends) /\ DOMAIN config.backends = 1..n
                     /\ con[s] \in 0..n
  <2>1. config.backends \in Seq(Backends)
    BY <1>1 DEF ConfigInv, AllResolved
  <2>2. con[s] \in Nat /\ con[s] <= Len(config.backends)
    BY <1>1 DEF GaugeInv
  <2> QED
    BY <2>1, <2>2
<1>3. ASSUME NEW i \in DOMAIN config.backends, ServeWs(s, i)
      PROVE  con' = [con EXCEPT ![s] = i] /\ UNCHANGED gaugeVars
  BY <1>3 DEF ServeWs
<1>4. CASE Register(s)
  <2>1. con' = con /\ SetClient(s, con[s])
    BY <1>4 DEF Register
  <2> QED
    BY <1>1, <1>2, <2>1
<1>5. ASSUME NEW msg, NEW answers, SendToUpstream(s, msg, answers)
      PROVE  con' = con /\ (UNCHANGED gaugeVars \/ SetClient(s, 0))
  <2>1. con' = con
    BY <1>5 DEF SendToUpstream
  <2>2. UNCHANGED gaugeVars \/ Leave(s)
    BY <1>5 DEF SendToUpstream
  <2> QED
    BY <2>1, <2>2 DEF Leave
<1>6. ASSUME NEW msg, NEW answers, ReceiveFromUpstream(s, msg, answers)
      PROVE  \/ con' = con /\ (UNCHANGED gaugeVars \/ SetClient(s, 0))
             \/ \E i \in DOMAIN config.backends :
                  con' = [con EXCEPT ![s] = i] /\ SetClient(s, i)
  BY <1>6 DEF ReceiveFromUpstream, Leave, Reconnect
<1>7. CASE \E i \in DOMAIN config.backends : ServeWs(s, i)
  BY <1>1, <1>2, <1>3, <1>7
<1>8. CASE \E answers \in [DOMAIN messageValves[s] -> Answers] :
             \/ \E msg \in {"data", "normal"} : SendToUpstream(s, msg, answers)
             \/ \E msg \in {"data", "normal", "abnormal"} : ReceiveFromUpstream(s, msg, answers)
  <2>1. \/ con' = con /\ (UNCHANGED gaugeVars \/ SetClient(s, 0))
        \/ \E i \in 1..n : con' = [con EXCEPT ![s] = i] /\ SetClient(s, i)
    BY <1>2, <1>5, <1>6, <1>8
  <2>2. 0 \in 0..n /\ \A i \in 1..n : i \in 0..n
    OBVIOUS
  <2> QED
    BY <1>1, <1>2, <2>1, <2>2
<1> QED
  BY <1>4, <1>7, <1>8 DEF SessionStep

\* And the gauge follows.
LEMMA SessionGauge ==
  ASSUME ConfigInv, GaugeInv, NEW s \in Sessions, SessionStep(s)
  PROVE  GaugeInv'
<1>1. UNCHANGED <<phase, config, listening, admin>> /\ phase = "running"
  BY OthersConfig, SessionMoves DEF mainVars
<1>2. PICK n \in Nat : n = Len(config.backends)
  BY <1>1 DEF ConfigInv, AllResolved
<1>3. /\ con' \in [Sessions -> Nat] /\ \A t \in Sessions : con'[t] <= n
  <2>1. con \in [Sessions -> Nat] /\ \A t \in Sessions : con[t] <= n
    BY <1>1, <1>2 DEF GaugeInv
  <2>2. CASE con' = con
    BY <2>1, <2>2
  <2>3. ASSUME NEW i \in 1..n, con' = [con EXCEPT ![s] = i]
        PROVE  con' \in [Sessions -> Nat] /\ \A t \in Sessions : con'[t] <= n
    BY <2>1, <2>3
  <2> QED
    BY <1>2, <2>2, <2>3, SessionMoves
<1>4. CASE UNCHANGED gaugeVars
  <2>1. UNCHANGED <<clients, gauge, unheard>>
    BY <1>4 DEF gaugeVars
  <2>2. \A l : Unheard(l)' = Unheard(l)
    BY <2>1 DEF Unheard
  <2> QED
    BY <1>1, <1>2, <1>3, <2>1, <2>2 DEF GaugeInv
<1>5. ASSUME NEW i \in 0..n, SetClient(s, i)
      PROVE  GaugeInv'
  <2>1. /\ clients' = [clients EXCEPT ![s] = i] /\ unheard' = unheard
        /\ gauge' = IF listening
                       THEN [l \in Labels |-> gauge[l] + One(config.backends, l, i)
                                                        - One(config.backends, l, clients[s])]
                       ELSE gauge
    BY <1>5 DEF SetClient, Counts, backendID, One
  <2>2. clients \in [Sessions -> Nat] /\ gauge \in [Labels -> Int]
        /\ \A t \in Sessions : clients[t] <= n
    BY <1>1, <1>2 DEF GaugeInv
  <2>3. clients' \in [Sessions -> Nat] /\ \A t \in Sessions : clients'[t] <= n
    BY <2>1, <2>2
  <2>4. \A l : Unheard(l)' = Unheard(l)
    BY <2>1 DEF Unheard
  <2>5. CASE ~listening
    BY <1>1, <1>2, <1>3, <2>1, <2>3, <2>5 DEF GaugeInv
  <2>6. CASE listening
    <3>1. \A l, j : One(config.backends, l, j) \in Int
      BY DEF One
    <3>2. gauge' \in [Labels -> Int]
      BY <2>1, <2>2, <2>6, <3>1
    <3>3. ASSUME NEW l \in Labels
          PROVE  gauge'[l] = Cardinality(Having(config.backends, clients', l))
                             - Cardinality(Unheard(l))
      <4>1. gauge'[l] = gauge[l] + One(config.backends, l, i) - One(config.backends, l, clients[s])
        BY <2>1, <2>6
      <4>2. Cardinality(Having(config.backends, clients', l)) =
              Cardinality(Having(config.backends, clients, l)) + One(config.backends, l, i)
              - One(config.backends, l, clients[s])
        <5>1. PICK map \in [Sessions -> Nat] : map = clients
          BY <2>2
        <5>2. PICK new \in [Sessions -> Nat] : new = clients'
          BY <2>3
        <5>3. PICK j \in Nat : j = i
          OBVIOUS
        <5>4. new[s] = j /\ \A t \in Sessions \ {s} : new[t] = map[t]
          BY <2>1, <5>1, <5>2, <5>3
        <5>5. Cardinality(Having(config.backends, new, l)) =
                Cardinality(Having(config.backends, map, l)) + One(config.backends, l, j)
                - One(config.backends, l, map[s])
          BY <5>4, HavingMoves
        <5> QED
          BY <5>1, <5>2, <5>3, <5>5
      <4>3. gauge[l] = Cardinality(Having(config.backends, clients, l)) - Cardinality(Unheard(l))
        BY <2>6 DEF GaugeInv
      <4>4. /\ Cardinality(Unheard(l)) \in Int
            /\ Cardinality(Having(config.backends, clients, l)) \in Int
        BY HavingFinite, UnheardFinite
      <4> QED
        BY <3>1, <4>1, <4>2, <4>3, <4>4
    <3> QED
      BY <1>1, <1>2, <1>3, <2>3, <2>4, <2>6, <3>2, <3>3 DEF GaugeInv
  <2> QED
    BY <2>5, <2>6
<1> QED
  BY <1>2, <1>4, <1>5, SessionMoves

\* The other steps have nothing to do with sessions.
LEMMA GaugeStep == ConfigInv /\ GaugeInv /\ [Next]_vars => GaugeInv'
<1> SUFFICES ASSUME ConfigInv, GaugeInv, [Next]_vars PROVE GaugeInv'
  OBVIOUS
<1>1. CASE UNCHANGED vars \/ AttachValves \/ Embed
  <2>1. /\ UNCHANGED <<phase, config, listening, clients, con, gauge, session, unheard>>
        /\ admin' = admin \/ admin' = "up"
    <3>1. CASE UNCHANGED vars
      BY <3>1 DEF vars, mainVars, attachVars, sessionVars, gaugeVars
    <3>2. CASE AttachValves
      BY <3>2 DEF AttachValves, mainVars, sessionVars, gaugeVars
    <3>3. CASE Embed
      BY <3>3 DEF Embed, mainVars, sessionVars, gaugeVars
    <3> QED
      BY <1>1, <3>1, <3>2, <3>3
  <2>2. \A l : Unheard(l)' = Unheard(l)
    BY <2>1 DEF Unheard
  <2> QED
    BY <2>1, <2>2 DEF GaugeInv
<1> QED
  BY <1>1, NewManagerGauge, AttachGauge, AddBackendGauge, SessionGauge DEF Next, SessionStep

\* The gauge of a backend is the number of registered sessions that have it, less one
\* for good for every session that had it before Prometheus listened.
THEOREM GaugeDriftsByUnheard == Spec => []GaugeDrift
<1>1. GaugeInv => GaugeDrift
  <2> SUFFICES ASSUME GaugeInv, listening, NEW l \in Labels
               PROVE  {s \in Sessions : Counts(l, clients[s]) = 1} =
                        Having(config.backends, clients, l)
    BY DEF GaugeInv, GaugeDrift, Unheard
  <2> QED
    BY DEF Counts, backendID, Having
<1> QED
  BY <1>1, ConfigInit, ConfigStep, GaugeInit, GaugeStep, PTL DEF Spec

=============================================================================
