------------------------------- MODULE Config --------------------------------
(***************************************************************************)
(* The configuration of the backends: out/config.go and AddBackend of       *)
(* out/outc_manager.go.                                                     *)
(*                                                                         *)
(* What matters of a setting's value is where it comes from, and that is    *)
(* its value here: "own" (the backend's entry in the file), "env",          *)
(* "request" (AddBackend), "default", or "unset" for the zero value.        *)
(* A URL is a pair of host and path.                                        *)
(***************************************************************************)
EXTENDS Naturals, Sequences, SequencesExt

Settings == {"PingTime", "HandshakeTimeout", "BreakerThreshold", "ReadBufferSize",
             "WriteBufferSize"}
Origins  == {"unset", "own", "env", "request", "default"}

\* The settings in "given" come from "origin".
From(origin, given) == [x \in Settings |-> IF x \in given THEN origin ELSE "unset"]

\* NormalizeForID keeps host and port; two paths of one host get the same id.
NormalizeForID(url) == url[1]

-----------------------------------------------------------------------------
(* sanitizeBackend; uc is the UpstreamConfig, bk a BackendConfig.           *)

addPassHeaders(uc, bk) == [bk EXCEPT !.headers = @ \o uc.headers]

\* The default codes, or the backend's own ones once more.
updateAbnormalCloseCodes(bk) ==
  [bk EXCEPT !.codes = @ \o (IF @ = <<>> THEN <<"default">> ELSE @)]

\* Mutant: the environment only fills in what the file leaves open.
updateBackendValuesTimid(uc, bk) ==
  [bk EXCEPT !.values = [x \in Settings |->
     IF @[x] # "unset" THEN @[x]
     ELSE IF uc.values[x] # "unset" THEN uc.values[x] ELSE "default"]]

updateBackendValues(uc, bk) ==
  [bk EXCEPT !.values = [x \in Settings |->
     IF uc.values[x] # "unset" THEN uc.values[x]
     ELSE IF @[x] = "unset" THEN "default" ELSE @[x]]]

sanitizeBackend(uc, bk) ==
  updateBackendValues(uc, updateAbnormalCloseCodes(addPassHeaders(uc, bk)))

-----------------------------------------------------------------------------
(* sanitize                                                                 *)

\* The backend that appendBackend appends.
newBackend(uc, url, id) ==
  sanitizeBackend(uc, [url |-> url, id |-> IF id = "unset" THEN NormalizeForID(url) ELSE id,
                       values |-> From("own", {}), headers |-> <<>>, codes |-> <<>>])

\* BE_URLS are appended one by one, with BE_URL_IDS if there are any.
addEnvBackends(uc) ==
  [uc EXCEPT !.backends = @ \o [i \in DOMAIN uc.URLs |->
     newBackend(uc, uc.URLs[i], IF uc.IDs = <<>> THEN "unset" ELSE uc.IDs[i])]]

normalizeIDs(bks) ==
  [i \in DOMAIN bks |-> IF bks[i].id = "unset"
                        THEN [bks[i] EXCEPT !.id = NormalizeForID(bks[i].url)] ELSE bks[i]]

sanitizePanics(uc) == uc.URLs # <<>> /\ uc.IDs # <<>> /\ Len(uc.URLs) # Len(uc.IDs)

sanitize(uc) ==
  addEnvBackends([uc EXCEPT !.backends =
    normalizeIDs([i \in DOMAIN @ |-> sanitizeBackend(uc, @[i])])])

-----------------------------------------------------------------------------
\* AddBackend, once it has accepted the URL: what the request gives replaces
\* what sanitizeBackend has put together.
addBackendConfig(uc, url, id, given, headers, codes) ==
  LET bk == newBackend(uc, url, id) IN
  [uc EXCEPT !.backends = Append(@,
     [url |-> bk.url, id |-> bk.id,
      values |-> [x \in Settings |-> IF x \in given THEN "request" ELSE bk.values[x]],
      headers |-> IF headers = <<>> THEN bk.headers ELSE headers,
      codes |-> IF codes = <<>> THEN bk.codes ELSE codes])]

=============================================================================
