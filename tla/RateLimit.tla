------------------------------- MODULE RateLimit -------------------------------
(* The limit of the monitoring endpoint with HA on, in one process:           *)
(* _PgRateLimiter (opsswarm/auth.py) on check_rate_limit_pg and its pool of   *)
(* connections (opsswarm/ha_db.py), and _rate_limit_fallback, the             *)
(* _SimpleRateLimiter that answers while PostgreSQL is out of reach.  A       *)
(* request is a coroutine; an action goes from one await to the next.         *)
(* PostgreSQL runs a transaction per request, READ COMMITTED: what it has     *)
(* written is seen when it commits, and the row it works on is locked until   *)
(* then.  Nobody locks a row that is not there.                               *)
EXTENDS Integers, Sequences, FiniteSets, SequencesExt

CONSTANTS
  Requests, Sources,
  NoRequest,
  Limit,        \* MONITORING_RATE_LIMIT
  LocalLimit,   \* what the fallback lets a source have
  Window,       \* of both limiters
  MaxBuckets,   \* sources the fallback keeps count of
  PoolSize,     \* _pool_size
  MaxTime, MaxOutages   \* bounds on the clock and on the outages

ASSUME RateLimitConstants ==
  /\ IsFiniteSet(Requests) /\ NoRequest \notin Requests
  /\ {Limit, LocalLimit, Window, MaxBuckets, PoolSize} \subseteq Nat \ {0}
  /\ {MaxTime, MaxOutages} \subseteq Nat

VARIABLES
  now, up, outages,
  rows,      \* [Sources \X Windows -> committed hits; 0: there is no row]
  locks,     \* [Sources \X Windows -> the request whose transaction holds the row]
  pool,      \* [made, good, broken]: the queue of connections; a broken one has lost
             \* its server, which shows only when it is used
  request,   \* [Requests -> stage, key, saw a row or none, connection, verdict]
  bucket,    \* [Sources -> times the fallback has kept; empty: not tracked]
  access,    \* [Sources -> _last_access]
  admitted   \* ghost: [Sources -> times admitted locally since the last eviction]
vars == <<now, up, outages, rows, locks, pool, request, bucket, access, admitted>>

Windows == 0..(MaxTime \div Window)
Keys == Sources \X Windows
Idle == [stage |-> "idle", key |-> <<>>, saw |-> "nothing", conn |-> "none", verdict |-> "none"]

Tracked == {s \in Sources : bucket[s] # <<>>}
Source(r) == request[r].key[1]

TypeOK ==
  /\ now \in 0..MaxTime /\ up \in BOOLEAN /\ outages \in 0..MaxOutages
  /\ rows \in [Keys -> 0..Cardinality(Requests)]
  /\ locks \in [Keys -> Requests \cup {NoRequest}]
  /\ pool \in [made : Nat, good : 0..PoolSize, broken : 0..PoolSize]
  /\ pool.good + pool.broken <= PoolSize
  /\ request \in [Requests ->
       [stage : {"idle", "creating", "getting", "select", "write", "commit", "reply",
                 "return", "answered"},
        key : Keys \cup {<<>>}, saw : {"nothing", "row", "no row"},
        conn : {"none", "good", "broken"}, verdict : {"none", "allowed", "denied", "error",
                                                      "local allowed", "local denied"}]]
  /\ bucket \in [Sources -> Seq(0..MaxTime)] /\ Cardinality(Tracked) <= MaxBuckets
  /\ access \in [Sources -> 0..MaxTime] /\ admitted \in [Sources -> Seq(0..MaxTime)]

Init ==
  /\ now = 0 /\ up = TRUE /\ outages = 0
  /\ rows = [k \in Keys |-> 0] /\ locks = [k \in Keys |-> NoRequest]
  /\ pool = [made |-> 0, good |-> 0, broken |-> 0]
  /\ request = [r \in Requests |-> Idle]
  /\ bucket = [s \in Sources |-> <<>>] /\ access = [s \in Sources |-> 0]
  /\ admitted = [s \in Sources |-> <<>>]

(* ----------------------- _SimpleRateLimiter.is_allowed -------------------- *)

\* The times are in order: what is over is before what is kept.
Recent(times, ticks) ==
  SubSeq(times, Max({0} \cup {i \in DOMAIN times : times[i] <= now - ticks}) + 1, Len(times))

\* With the window one tick short, hits are forgotten too early.
PrunedBug(times) == Recent(times, Window - 1)
Pruned(times) == Recent(times, Window)

FullBug == Cardinality(Tracked) > MaxBuckets
\* A form named ...Bug is what a check must notice.
Full == Cardinality(Tracked) >= MaxBuckets

\* Who was seen after the new source was last seen is kept.
EvictableBug(s) ==
  IF Full /\ s \notin Tracked THEN {o \in Tracked : access[o] < access[s]} ELSE {s}
\* The source with the least recent access makes room for a new one.
Evictable(s) ==
  IF Full /\ s \notin Tracked
  THEN {o \in Tracked : \A t \in Tracked : access[o] <= access[t]}
  ELSE {s}

\* A rejected source is neither touched nor pruned.
Answered(r, verdict) ==
  request' = [request EXCEPT ![r].stage = "answered", ![r].conn = "none", ![r].verdict = verdict]

LocallyLimited(r) ==
  LET s == Source(r)
      times == Pruned(bucket[s])
  IN  IF Len(times) >= LocalLimit
      THEN Answered(r, "local denied") /\ UNCHANGED <<bucket, access, admitted>>
      ELSE \E o \in Evictable(s) :
             LET kept(f) == IF o = s THEN f ELSE [f EXCEPT ![o] = <<>>]
             IN  /\ bucket' = [kept(bucket) EXCEPT ![s] = Append(times, now)]
                 /\ admitted' = [kept(admitted) EXCEPT ![s] = Append(@, now)]
                 /\ access' = [access EXCEPT ![s] = now]
                 /\ Answered(r, "local allowed")

(* ------------------------------- connections ------------------------------ *)

Reached(r, stage) == request' = [request EXCEPT ![r].stage = stage]
LocalUnchanged == UNCHANGED <<bucket, access, admitted>>

Begin(r, s) ==
  /\ request[r].stage = "idle"
  /\ request' = [request EXCEPT ![r].key = <<s, now \div Window>>,
                   ![r].stage = IF pool.made = 0 THEN "creating" ELSE "getting"]
  /\ LocalUnchanged /\ UNCHANGED <<now, up, outages, rows, locks, pool>>

\* _create_pool: whoever saw no pool makes one, and the last one made stays.
CreatePool(r) ==
  /\ request[r].stage = "creating"
  /\ \/ /\ up /\ pool' = [made |-> pool.made + 1, good |-> PoolSize, broken |-> 0]
        /\ Reached(r, "getting") /\ LocalUnchanged
     \/ ~up /\ LocallyLimited(r) /\ UNCHANGED pool
  /\ UNCHANGED <<now, up, outages, rows, locks>>

GetConnection(r) ==
  /\ request[r].stage = "getting"
  /\ \E c \in {"good", "broken"} :
       /\ pool[c] > 0 /\ pool' = [pool EXCEPT ![c] = @ - 1]
       /\ request' = [request EXCEPT ![r].stage = "select", ![r].conn = c]
  /\ LocalUnchanged /\ UNCHANGED <<now, up, outages, rows, locks>>

TimedOutBug == FALSE
TimedOut == pool.good + pool.broken = 0
\* pool.get() gives up after 5 s.
PoolTimeout(r) ==
  /\ request[r].stage = "getting" /\ TimedOut /\ LocallyLimited(r)
  /\ UNCHANGED <<now, up, outages, rows, locks, pool>>

\* _return_connection, whose put waits while the queue is full.
ReturnConnection(r) ==
  /\ request[r].stage = "return" /\ pool.good + pool.broken < PoolSize
  /\ pool' = [pool EXCEPT ![request[r].conn] = @ + 1]
  /\ Answered(r, request[r].verdict)
  /\ LocalUnchanged /\ UNCHANGED <<now, up, outages, rows, locks>>

(* --------------------------- check_rate_limit_pg -------------------------- *)

Query(r, stage) == request[r].stage = stage /\ request[r].conn = "good"
Unlocked(r) == [k \in Keys |-> IF locks[k] = r THEN NoRequest ELSE locks[k]]

WithinBug(hits) == hits <= Limit
Within(hits) == hits < Limit

\* SELECT ... FOR UPDATE waits for the lock of a row that is there.
Select(r) ==
  LET k == request[r].key
  IN  /\ Query(r, "select")
      /\ \/ /\ rows[k] = 0
            /\ request' = [request EXCEPT ![r].stage = "write", ![r].saw = "no row"]
            /\ UNCHANGED locks
         \/ /\ rows[k] > 0 /\ locks[k] = NoRequest /\ locks' = [locks EXCEPT ![k] = r]
            /\ request' = [request EXCEPT ![r].saw = "row",
                 ![r].stage = IF Within(rows[k]) THEN "write" ELSE "commit",
                 ![r].verdict = IF Within(rows[k]) THEN @ ELSE "denied"]
      /\ LocalUnchanged /\ UNCHANGED <<now, up, outages, rows, pool>>

\* INSERT ... ON CONFLICT DO UPDATE, or UPDATE: both wait for another writer.
Write(r) ==
  LET k == request[r].key
  IN  /\ Query(r, "write") /\ locks[k] \in {NoRequest, r}
      /\ locks' = [locks EXCEPT ![k] = r]
      /\ request' = [request EXCEPT ![r].stage = "commit", ![r].verdict = "allowed"]
      /\ LocalUnchanged /\ UNCHANGED <<now, up, outages, rows, pool>>

\* ON CONFLICT DO NOTHING does not count who comes second.
WrittenBug(r) == IF request[r].saw = "no row" THEN 1 ELSE rows[request[r].key] + 1
\* The hits of the row that the transaction of an allowed request leaves.
Written(r) == rows[request[r].key] + 1

\* The server commits; then its answer comes, or the connection breaks.
Commit(r) ==
  /\ Query(r, "commit") /\ Reached(r, "reply") /\ locks' = Unlocked(r)
  /\ rows' = [rows EXCEPT ![request[r].key] =
                IF request[r].verdict = "allowed" THEN Written(r) ELSE @]
  /\ LocalUnchanged /\ UNCHANGED <<now, up, outages, pool>>

Committed(r) ==
  /\ Query(r, "reply") /\ Reached(r, "return")
  /\ LocalUnchanged /\ UNCHANGED <<now, up, outages, rows, locks, pool>>

\* An error of the query itself rolls back and ends in RateLimitProgrammingError.
Defect(r) ==
  /\ Query(r, "select") \/ Query(r, "write")
  /\ request' = [request EXCEPT ![r].stage = "return", ![r].verdict = "error"]
  /\ locks' = Unlocked(r)
  /\ LocalUnchanged /\ UNCHANGED <<now, up, outages, rows, pool>>

\* The use of a broken connection closes it.  The rollback fails too, a closed
\* connection is not put back, and the fallback answers.
ConnectionError(r) ==
  /\ request[r].stage \in {"select", "write", "commit", "reply"}
  /\ request[r].conn = "broken" /\ LocallyLimited(r)
  /\ UNCHANGED <<now, up, outages, rows, locks, pool>>

(* ------------------------------ environment ------------------------------- *)

\* The server goes down: its transactions are rolled back, all connections lost.
Outage ==
  /\ up /\ outages < MaxOutages /\ up' = FALSE /\ outages' = outages + 1
  /\ locks' = [k \in Keys |-> NoRequest]
  /\ pool' = [pool EXCEPT !.good = 0, !.broken = pool.good + pool.broken]
  /\ request' = [r \in Requests |->
                   IF request[r].conn = "good" THEN [request[r] EXCEPT !.conn = "broken"]
                   ELSE request[r]]
  /\ LocalUnchanged /\ UNCHANGED <<now, rows>>

Repair ==
  /\ ~up /\ up' = TRUE
  /\ LocalUnchanged /\ UNCHANGED <<now, outages, rows, locks, pool, request>>

Tick ==
  /\ now < MaxTime /\ now' = now + 1
  /\ LocalUnchanged /\ UNCHANGED <<up, outages, rows, locks, pool, request>>

Step(r) ==
  \/ CreatePool(r) \/ GetConnection(r) \/ PoolTimeout(r) \/ ReturnConnection(r)
  \/ Select(r) \/ Write(r) \/ Commit(r) \/ Committed(r) \/ ConnectionError(r)

Next ==
  \/ \E r \in Requests : (\E s \in Sources : Begin(r, s)) \/ Step(r) \/ Defect(r)
  \/ Outage \/ Repair \/ Tick

Spec == Init /\ [][Next]_vars

(* ------------------------------- properties ------------------------------- *)

Allowed(k) == {r \in Requests : request[r].key = k /\ request[r].stage = "answered"
                                /\ request[r].verdict = "allowed"}
\* Who looked for the row before the first insertion was committed.
Blind(k) == {r \in Requests : request[r].key = k /\ request[r].saw = "no row"}

\* Whoever the shared limiter lets pass is counted in the row of its window, for
\* every order in which transactions insert, update, wait and are rolled back.
AllowedAreCounted == \A k \in Keys : Cardinality(Allowed(k)) <= rows[k]

\* SELECT FOR UPDATE serializes all but the requests that found no row to lock:
\* the limit is exceeded by fewer than these.
ExcessIsBlind == \A k \in Keys : rows[k] > Limit => rows[k] - Limit < Cardinality(Blind(k))

\* A source that is not evicted has at most LocalLimit admissions in any window
\* of time, whichever requests the outages send to the fallback.
SlidingWindow ==
  \A s \in Sources : \A i \in DOMAIN admitted[s] :
    i + LocalLimit \in DOMAIN admitted[s] =>
      admitted[s][i + LocalLimit] - admitted[s][i] >= Window

Waiting == {"creating", "getting", "select", "write", "commit", "reply", "return"}

\* Request r is not waiting for another one, nor for room in the queue.
Ready(r) ==
  LET k == request[r].key
  IN  \/ request[r].stage = "creating"
      \/ request[r].stage = "getting" /\ (pool.good + pool.broken > 0 \/ TimedOut)
      \/ request[r].stage \in {"select", "write", "commit", "reply"} /\ request[r].conn = "broken"
      \/ Query(r, "select") /\ (rows[k] = 0 \/ locks[k] = NoRequest)
      \/ Query(r, "write") /\ locks[k] \in {NoRequest, r}
      \/ Query(r, "commit") \/ Query(r, "reply")
      \/ request[r].stage = "return" /\ pool.good + pool.broken < PoolSize

\* What is ready has a step, whatever the fallback has to do in it, and nothing else has.
ReadyIsEnabled == \A r \in Requests : Ready(r) <=> ENABLED Step(r)

\* While a request is under way some request can go on: no outage, timeout or
\* lock leaves all of them waiting, unless the pool was made twice: then a
\* connection too many may wait for room in the queue for ever.
SomebodyGoesOn ==
  (\E r \in Requests : request[r].stage \in Waiting) =>
    (\E r \in Requests : Ready(r)) \/ pool.made > 1

===============================================================================
