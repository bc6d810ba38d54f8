-------------------------------- MODULE Ingress --------------------------------
(* Who may do what over HTTP: the bearer tokens, scopes and replay store of    *)
(* opsswarm/auth.py, and the endpoints of opsswarm/api.py from the arrival of  *)
(* a request to its status, with the awaits at which requests interleave.     *)
(* A token is a MAC over an endpoint and a second, under the name of a scope;  *)
(* the MAC is modelled by what it is computed from.  A process that restarts   *)
(* has an empty store.  The limiter's answer is free: RateLimit models it.     *)
EXTENDS Integers, Sequences, FiniteSets

CONSTANTS
  Slots,           \* requests under way
  Credentials,     \* what may come in the Authorization header
  Configs,         \* [production, secret, keys]: the environment of a process
  Peers, Trusted,  \* addresses, and those in trusted_proxies
  Chains,          \* what X-Forwarded-For may hold
  MaxHops,         \* max_proxy_hops
  SkewTolerance, TokenTtl,   \* SKEW_TOLERANCE_SECS, TOKEN_TTL_SECONDS: 60 s and 300 s
  MaxArrivals, MaxRestarts, LastTick   \* bounds

ASSUME IngressConstants ==
  /\ {SkewTolerance, TokenTtl} \subseteq Nat \ {0} /\ SkewTolerance <= TokenTtl
  /\ MaxHops \in Nat \ {0}
  /\ {MaxArrivals, MaxRestarts, LastTick} \subseteq Nat

VARIABLES
  wall,      \* the clock
  service,   \* "starting", "open", "draining" or "failed" (the start-up check)
  config,    \* the environment that reload_auth_config has read
  used,      \* _anti_replay._used: a function from MACs to the time of their use
  http,      \* [Slots -> the request]
  uses,      \* ghost: a function from MACs to what became of each presentation
  arrivals, restarts
ingressVars == <<wall, service, config, used, http, uses, arrivals, restarts>>

Scopes == {"read", "write", "monitor", "admin"}
Endpoints == {"monitoring", "runs", "resume", "metrics", "ready"}

NoCredential == [kind |-> "none", scope |-> "none", for |-> "none", at |-> 0]
NoHttp == [stage |-> "idle", endpoint |-> "none", cred |-> NoCredential, key |-> "none",
           by |-> "none", owed |-> FALSE, status |-> 0]

\* A token of an unknown scope is refused as no credential is: it is not registered.  No
\* address has the name of a scope.
ASSUME IngressInputs ==
  /\ Credentials \subseteq {NoCredential} \cup
       [kind : {"key", "token"}, scope : Scopes, for : Endpoints \cup {"none"}, at : Int]
  /\ Configs \subseteq
       [production : BOOLEAN, secret : BOOLEAN, keys : SUBSET Scopes, ha : BOOLEAN]
  /\ Peers \cap Scopes = {} /\ \A f \in Chains : DOMAIN f \subseteq Nat

IngressInit ==
  /\ wall = 0 /\ service = "starting" /\ config \in Configs
  /\ used = <<>> /\ uses = <<>> /\ http = [r \in Slots |-> NoHttp]
  /\ arrivals = 0 /\ restarts = 0

(* --------------------------------- scopes --------------------------------- *)

ScopeEndpoints ==
  [read |-> {"runs", "metrics"}, write |-> {"resume", "runs", "metrics"},
   monitor |-> {"monitoring"}, admin |-> {"runs", "metrics", "resume", "monitoring"}]
Implied ==
  [admin |-> Scopes, write |-> {"write", "read"}, monitor |-> {"monitor"}, read |-> {"read"}]

\* _scope_covers_endpoint.
Covers(scope, endpoint) == \E s \in Implied[scope] : endpoint \in ScopeEndpoints[s]

\* A form named ...Bug is what a check must notice.
DependencyBug(scope, endpoint) == TRUE
\* read_scope, write_scope, admin_scope; the monitoring endpoint has no dependency.
Dependency(scope, endpoint) ==
  CASE endpoint = "runs" -> scope \in {"read", "admin"}
    [] endpoint = "resume" -> scope \in {"write", "admin"}
    [] endpoint = "metrics" -> scope = "admin"
    [] OTHER -> TRUE

\* What ADR-014 says of each endpoint: no scope implies another, but for admin.
Serves(endpoint) ==
  {"admin"} \cup (CASE endpoint = "runs" -> {"read"} [] endpoint = "resume" -> {"write"}
                    [] endpoint = "monitoring" -> {"monitor"} [] OTHER -> {})

(* ------------------------------ bearer tokens ----------------------------- *)

Mac(c) == <<c.for, c.at>>
ReplayWindow == TokenTtl + SkewTolerance

KeptBug(t) == t >= wall - SkewTolerance
Kept(t) == t >= wall - ReplayWindow
Evicted == [m \in {m \in DOMAIN used : Kept(used[m])} |-> used[m]]

\* _AntiReplayStore.is_replay, which registers what it has not seen.
Replayed(c) == Mac(c) \in DOMAIN Evicted
Registered(c) == [m \in DOMAIN Evicted \cup {Mac(c)} |-> IF m \in DOMAIN Evicted
                                                        THEN Evicted[m] ELSE wall]

\* verify_bearer_hmac over the seconds the tolerance allows.
Within(c, tolerance) == c.at - wall \in -tolerance..tolerance
Genuine(c, endpoint) == config.secret /\ c.for = endpoint /\ Within(c, SkewTolerance)

\* verify_scoped_bearer: the scope, or the status of the refusal.
Refused(status) == [scope |-> "none", status |-> status]
Scoped(c, endpoint) ==
  IF Covers(c.scope, endpoint) THEN [scope |-> c.scope, status |-> 200] ELSE Refused(403)
Verified(c, endpoint) ==
  CASE c.kind = "key" /\ c.scope \in config.keys -> Scoped(c, endpoint)
    [] c.kind = "token" /\ ~Replayed(c) /\ Genuine(c, endpoint) -> Scoped(c, endpoint)
    [] OTHER -> Refused(401)

\* Every token of a known scope is registered, on whatever path it comes.
Presented(c, endpoint) ==
  IF c.kind = "token"
  THEN /\ used' = Registered(c)
       /\ LET m == Mac(c)
              past == IF m \in DOMAIN uses THEN uses[m] ELSE <<>>
              now == IF Replayed(c) THEN "replay"
                     ELSE IF Genuine(c, endpoint) THEN "granted" ELSE "refused"
          IN  uses' = [n \in DOMAIN uses \cup {m} |->
                         IF n = m THEN Append(past, now) ELSE uses[n]]
  ELSE UNCHANGED <<used, uses>>

\* ghost: the credential is good here and nobody has used it.
Owed(c, endpoint) ==
  /\ c.scope \in Serves(endpoint)
  /\ \/ c.kind = "key" /\ c.scope \in config.keys
     \/ c.kind = "token" /\ Genuine(c, endpoint) /\ Mac(c) \notin DOMAIN uses

(* ----------------------------- the rate key ------------------------------- *)

\* _get_real_client_ip: the first address of the chain that is no proxy of ours.
Address(peer, chain) ==
  LET foreign == {i \in DOMAIN chain : i <= MaxHops /\ chain[i] \in Peers \ Trusted}
  IN  IF peer \in Trusted /\ foreign # {}
      THEN chain[CHOOSE i \in foreign : \A j \in foreign : i <= j] ELSE peer

\* _probe_scope_from_bearer registers nothing, looks for no replay, and takes one tick
\* more of either side.
Probed(c, endpoint) ==
  IF \/ c.kind = "key" /\ c.scope \in config.keys
     \/ c.kind = "token" /\ config.secret /\ c.for = endpoint /\ Within(c, SkewTolerance + 1)
  THEN c.scope ELSE "none"
RateKey(c, address) ==
  IF Probed(c, "monitoring") \in {"monitor", "admin"} THEN Probed(c, "monitoring") ELSE address

(* -------------------------------- requests -------------------------------- *)

Answer(r, status) ==
  http' = [http EXCEPT ![r] = [@ EXCEPT !.stage = "answered", !.key = "none",
                                        !.status = status]]
Reach(r, stage) == http' = [http EXCEPT ![r].stage = stage]
NoPresentation == UNCHANGED <<used, uses>>
Elsewhere == UNCHANGED <<wall, service, config, arrivals, restarts>>

Incoming(r) ==
  /\ service \in {"open", "draining"} /\ http[r].stage \in {"idle", "answered"}
  /\ arrivals < MaxArrivals /\ arrivals' = arrivals + 1
  /\ \E e \in Endpoints, c \in Credentials :
       /\ e = "ready" => c = NoCredential
       /\ http' = [http EXCEPT ![r] =
                     [NoHttp EXCEPT !.stage = "gate", !.endpoint = e, !.cred = c]]
  /\ NoPresentation /\ UNCHANGED <<wall, service, config, restarts>>

\* GET /runs, POST /runs/{n}/resume, GET /metrics: one step; no such run is a 404, a run
\* with no checkpoint to resume a 400.
Endpoint(r) ==
  LET h == http[r]
      v == Verified(h.cred, h.endpoint)
      served == v.status = 200 /\ Dependency(v.scope, h.endpoint)
  IN  /\ h.stage = "gate" /\ h.endpoint \in {"runs", "resume", "metrics"}
      /\ Presented(h.cred, h.endpoint)
      /\ \E status \in (IF ~served THEN {IF v.status = 200 THEN 403 ELSE v.status}
                        ELSE CASE h.endpoint = "runs" -> {200, 404}
                               [] h.endpoint = "resume" -> {200, 400, 404}
                               [] OTHER -> {200}) :
           http' = [http EXCEPT ![r] = [h EXCEPT !.stage = "answered", !.status = status,
                                        !.owed = Owed(h.cred, h.endpoint)]]
      /\ Elsewhere

(* ---------------------------- POST /hooks/monitoring ---------------------- *)

\* check_draining, and the length that the header gives.
MonitoringGate(r) ==
  /\ http[r].endpoint = "monitoring" /\ http[r].stage = "gate"
  /\ \/ service # "open" /\ Answer(r, 503)
     \/ service = "open" /\ (Answer(r, 413) \/ Reach(r, "body"))
  /\ NoPresentation /\ Elsewhere

\* The body has come; it may be longer than the header said.
BodyRead(r) ==
  /\ http[r].stage = "body"
  /\ \/ Answer(r, 413)
     \/ \E p \in Peers, f \in Chains :
          http' = [http EXCEPT ![r] =
                     [@ EXCEPT !.stage = "limiter",
                               !.key = RateKey(http[r].cred, Address(p, f))]]
  /\ NoPresentation /\ Elsewhere

\* The limit of this key is reached, or its store is not usable as deployed.
LimiterRefuses(r) ==
  /\ http[r].stage = "limiter" /\ (Answer(r, 429) \/ Answer(r, 500))
  /\ NoPresentation /\ Elsewhere

\* A 403 propagates; after a 401 the signature of the body decides.  A body that is not
\* JSON raises once the caller is authenticated.
Authenticate(r) ==
  LET h == http[r]
      v == Verified(h.cred, "monitoring")
      end(stage, by, status) ==
        http' = [http EXCEPT ![r] = [h EXCEPT !.stage = stage, !.by = by, !.key = "none",
                                    !.status = status, !.owed = Owed(h.cred, "monitoring")]]
  IN  /\ h.stage = "limiter" /\ Presented(h.cred, "monitoring")
      /\ \/ v.status # 200 /\ end("answered", "none", v.status)
         \/ v.status = 200 /\ (end("creating", "bearer", 0) \/ end("answered", "bearer", 500))
         \/ v.status = 401
            /\ (end("creating", "signature", 0) \/ end("answered", "signature", 500))
      /\ Elsewhere

\* create_issue returns, and start_background_dispatch starts the run; or it raises.
IssueCreated(r) == http[r].stage = "creating" /\ Answer(r, 200) /\ NoPresentation /\ Elsewhere
CreateFails(r) == http[r].stage = "creating" /\ Answer(r, 500) /\ NoPresentation /\ Elsewhere

(* ------------------------------- GET /ready ------------------------------- *)

\* The gate is read once; with HA the database is asked after it.
ReadyGate(r) ==
  /\ http[r].endpoint = "ready" /\ http[r].stage = "gate"
  /\ \/ service # "open" /\ Answer(r, 503)
     \/ service = "open" /\ config.ha /\ Reach(r, "health")
     \/ service = "open" /\ ~config.ha /\ Answer(r, 200)
  /\ NoPresentation /\ Elsewhere
ReadyHealth(r) ==
  /\ http[r].stage = "health" /\ (Answer(r, 503) \/ Reach(r, "leases"))
  /\ NoPresentation /\ Elsewhere
\* check_instance_leases never raises, and its answer is only reported.
ReadyLeases(r) == http[r].stage = "leases" /\ Answer(r, 200) /\ NoPresentation /\ Elsewhere

(* ------------------------------- the process ------------------------------ *)

\* _startup_auth_check: a production process needs a secret or a key.
StartUp ==
  /\ service = "starting"
  /\ service' = IF config.production /\ ~config.secret /\ config.keys = {}
                THEN "failed" ELSE "open"
  /\ NoPresentation /\ UNCHANGED <<wall, config, http, arrivals, restarts>>

StartDrain ==
  /\ service = "open" /\ service' = "draining"
  /\ NoPresentation /\ UNCHANGED <<wall, config, http, arrivals, restarts>>

\* The process ends, requests and store with it, and a new one reads its environment.
RestartProcess ==
  /\ restarts < MaxRestarts /\ restarts' = restarts + 1 /\ service' = "starting"
  /\ config' \in Configs /\ used' = <<>> /\ uses' = <<>>
  /\ http' = [r \in Slots |-> NoHttp] /\ UNCHANGED <<wall, arrivals>>

WallTick ==
  /\ wall < LastTick /\ wall' = wall + 1
  /\ NoPresentation /\ UNCHANGED <<service, config, http, arrivals, restarts>>

IngressNext ==
  \/ \E r \in Slots :
       \/ Incoming(r) \/ Endpoint(r) \/ MonitoringGate(r) \/ BodyRead(r) \/ LimiterRefuses(r)
       \/ Authenticate(r) \/ IssueCreated(r) \/ CreateFails(r)
       \/ ReadyGate(r) \/ ReadyHealth(r) \/ ReadyLeases(r)
  \/ StartUp \/ StartDrain \/ RestartProcess \/ WallTick

IngressSpec == IngressInit /\ [][IngressNext]_ingressVars

(* ------------------------------- properties ------------------------------- *)

\* Of the uses of a token in one process at most one authenticates, and the first is never
\* taken for a replay: for every order of requests, with the eviction of old entries, and
\* although the same token is looked at before, for the rate limit.  A token that comes
\* before its time is refused, and may be good once its entry is evicted.
FirstUseWins ==
  \A m \in DOMAIN uses :
    /\ uses[m][1] # "replay"
    /\ \A i, j \in DOMAIN uses[m] : uses[m][i] = "granted" /\ uses[m][j] = "granted" => i = j

\* What was authenticated by its credential was for the scope of the endpoint or admin,
\* although coverage lets write imply read; and whoever has such a credential and has
\* not used it is refused by no check of credentials.  Only such a caller spends the
\* quota that a scope has for all its callers.
ScopesAreSeparate ==
  \A r \in Slots :
    LET h == http[r]
    IN  /\ h.stage = "answered" /\ h.endpoint \in {"runs", "resume", "metrics"}
             /\ h.status \notin {401, 403}
           => h.cred.scope \in Serves(h.endpoint)
        /\ h.by = "bearer" \/ h.key \in Scopes => h.cred.scope \in Serves(h.endpoint)
        /\ h.owed => h.status \notin {401, 403}

===============================================================================
