------------------------------- MODULE HaProofs --------------------------------
(* The counts of the shared limiter are right for any number of requests,     *)
(* sources, outages and connections: whoever passes is counted, and only      *)
(* requests that found no row to lock take a row above the limit.  The       *)
(* fallback keeps the end of the list of its admissions, and what it dropped  *)
(* is out of the window.  Connections are counted from the pool to the        *)
(* requests and back, so that somebody can always go on; a lease has one      *)
(* holder among those whose clocks are not behind; and tables that pass the   *)
(* validation of the schema serve the statements that use them.               *)
EXTENDS RateLimit, RunLease, HaSchema, FiniteSetTheorems, SequenceTheorems, WellFoundedInduction, TLAPS

Early == {"idle", "creating", "getting", "select"}
Pending == {"write", "commit"}
RequestType ==
  [stage : Early \cup Pending \cup {"reply", "return", "answered"},
   key : Keys \cup {<<>>}, saw : {"nothing", "row", "no row"},
   conn : {"none", "good", "broken"},
   verdict : {"none", "allowed", "denied", "error", "local allowed", "local denied"}]

Typed ==
  /\ now \in 0..MaxTime
  /\ rows \in [Keys -> Nat] /\ locks \in [Keys -> Requests \cup {NoRequest}]
  /\ request \in [Requests -> RequestType]

\* What a request has seen and said at each stage.
Staged ==
  \A r \in Requests :
    /\ request[r].stage # "idle" => request[r].key \in Keys
    /\ request[r].stage \in Early =>
         request[r].saw = "nothing" /\ request[r].verdict = "none"
    /\ request[r].stage = "write" => request[r].verdict = "none"
    /\ request[r].stage \in Pending => request[r].saw # "nothing"
    /\ request[r].stage = "commit" => request[r].verdict \in {"allowed", "denied"}
    /\ request[r].stage = "commit" /\ request[r].verdict = "denied" => request[r].saw = "row"

\* Who is about to commit has the lock, and who saw a row below the limit has
\* kept it as it was.
Locked ==
  \A r \in Requests : request[r].conn = "good" =>
    /\ request[r].stage = "commit" => locks[request[r].key] = r
    /\ request[r].stage \in Pending /\ request[r].saw = "row"
         /\ request[r].verdict # "denied" =>
         /\ locks[request[r].key] = r
         /\ rows[request[r].key] > 0 /\ rows[request[r].key] < Limit

\* The requests of the store's answer "allowed", and the blind ones that are
\* through with their transaction, in whatever way.
Passed(k) == {r \in Requests : request[r].key = k /\ request[r].verdict = "allowed"
                               /\ request[r].stage \in {"reply", "return", "answered"}}
Settled(k) == {r \in Requests : request[r].key = k /\ request[r].saw = "no row"
                                /\ request[r].stage \notin Pending}

Counted(k) ==
  /\ Cardinality(Passed(k)) <= rows[k]
  /\ rows[k] > 0 => Cardinality(Settled(k)) >= 1
  /\ rows[k] > Limit => rows[k] - Limit < Cardinality(Settled(k))

IInv == Typed /\ Staged /\ Locked /\ \A k \in Keys : Counted(k)

-------------------------------------------------------------------------------

LEMMA Finite ==
  ASSUME NEW S \in SUBSET Requests
  PROVE  IsFiniteSet(S) /\ Cardinality(S) \in Nat
  BY FS_Subset, FS_CardinalityType, RateLimitConstants

LEMMA Fewer ==
  ASSUME NEW S \in SUBSET Requests, NEW T \in SUBSET Requests, S \subseteq T
  PROVE  Cardinality(S) <= Cardinality(T)
  BY Finite, FS_Subset

LEMMA OneMore ==
  ASSUME NEW S \in SUBSET Requests, NEW r \in Requests
  PROVE  /\ Cardinality(S \cup {r}) <= Cardinality(S) + 1
         /\ r \notin S => Cardinality(S \cup {r}) = Cardinality(S) + 1
<1>1. IsFiniteSet(S) /\ Cardinality(S) \in Nat
  BY Finite
<1>2. CASE r \in S
  <2>1. S \cup {r} = S
    BY <1>2
  <2> QED BY <1>1, <1>2, <2>1
<1>3. CASE r \notin S
  <2>1. Cardinality(S \cup {r}) = Cardinality(S) + 1
    BY <1>1, <1>3, FS_AddElement
  <2> QED BY <1>1, <2>1
<1> QED BY <1>2, <1>3

LEMMA LimitIsPositive == Limit \in Nat /\ Limit > 0
  BY RateLimitConstants

LEMMA InitIInv == Init => IInv
<1> SUFFICES ASSUME Init PROVE IInv
  OBVIOUS
<1>1. Typed
  BY RateLimitConstants DEF Init, Typed, Idle, RequestType, Early, Pending
<1>2. Staged /\ Locked
  BY DEF Init, Staged, Locked, Idle, Early, Pending
<1>3. ASSUME NEW k \in Keys PROVE Counted(k)
  <2>1. Passed(k) = {} /\ rows[k] = 0
    BY <1>3 DEF Init, Passed, Idle
  <2> QED BY <2>1, FS_EmptySet, LimitIsPositive DEF Counted
<1> QED BY <1>1, <1>2, <1>3 DEF IInv

\* A step that writes no row, lets nobody pass and takes no settled one back.
LEMMA QuietStep ==
  ASSUME IInv, NEW k \in Keys, rows'[k] = rows[k],
         Passed(k)' \subseteq Passed(k), Settled(k) \subseteq Settled(k)'
  PROVE  Counted(k)'
<1>1. /\ Passed(k) \in SUBSET Requests /\ Passed(k)' \in SUBSET Requests
      /\ Settled(k) \in SUBSET Requests /\ Settled(k)' \in SUBSET Requests
  BY DEF Passed, Settled
<1>2. /\ Cardinality(Passed(k)') <= Cardinality(Passed(k))
      /\ Cardinality(Settled(k)) <= Cardinality(Settled(k)')
      /\ {Cardinality(Passed(k)), Cardinality(Passed(k)'),
          Cardinality(Settled(k)), Cardinality(Settled(k)')} \subseteq Nat
  BY <1>1, Fewer, Finite
<1>3. rows[k] \in Nat /\ Counted(k)
  BY DEF IInv, Typed
<1> QED BY <1>2, <1>3, LimitIsPositive DEF Counted

\* A step of one request that writes no row.
LEMMA RequestStep ==
  ASSUME IInv, NEW r \in Requests, NEW q \in RequestType, now' \in 0..MaxTime,
         request' = [request EXCEPT ![r] = q], UNCHANGED rows,
         locks' \in [Keys -> Requests \cup {NoRequest}],
         \A k \in Keys : locks[k] # NoRequest /\ locks[k] # r => locks'[k] = locks[k],
         request[r].stage # "idle" => q.key = request[r].key /\ q.key \in Keys,
         q.stage # "idle" => q.key \in Keys,
         q.stage \in Early => q.saw = "nothing" /\ q.verdict = "none",
         q.stage \in Pending => q.saw # "nothing" /\ q.conn = "good",
         q.stage = "write" => q.verdict = "none",
         q.stage = "commit" => q.verdict \in {"allowed", "denied"} /\ locks'[q.key] = r,
         q.stage = "commit" /\ q.verdict = "denied" => q.saw = "row",
         q.stage \in Pending /\ q.saw = "row" /\ q.verdict # "denied" =>
           locks'[q.key] = r /\ rows[q.key] > 0 /\ rows[q.key] < Limit,
         q.verdict = "allowed" /\ q.stage \in {"reply", "return", "answered"} =>
           /\ request[r].verdict = "allowed"
           /\ request[r].stage \in {"reply", "return", "answered"},
         request[r].stage \notin Early => q.saw = request[r].saw,
         request[r].stage \notin Early \cup Pending => q.stage \notin Pending
  PROVE  IInv'
<1>1. /\ request \in [Requests -> RequestType] /\ request'[r] = q
      /\ \A p \in Requests \ {r} : request'[p] = request[p]
  BY DEF IInv, Typed
<1>2. Typed'
  BY DEF IInv, Typed
<1>3. Staged'
  BY <1>1 DEF IInv, Staged
<1>4. Locked'
  <2> SUFFICES ASSUME NEW p \in Requests, request'[p].conn = "good"
               PROVE  /\ request'[p].stage = "commit" => locks'[request'[p].key] = p
                      /\ request'[p].stage \in Pending /\ request'[p].saw = "row"
                           /\ request'[p].verdict # "denied" =>
                           /\ locks'[request'[p].key] = p
                           /\ rows'[request'[p].key] > 0 /\ rows'[request'[p].key] < Limit
    BY DEF Locked
  <2>1. CASE p = r
    BY <1>1, <2>1
  <2>2. CASE p # r
    <3>1. request'[p] = request[p]
      BY <1>1, <2>2
    <3>2. request[p].stage \in Pending => request[p].key \in Keys
      BY DEF IInv, Staged, Pending
    <3>3. p # NoRequest
      BY RateLimitConstants
    <3> QED BY <2>2, <3>1, <3>2, <3>3 DEF IInv, Locked, Pending
  <2> QED BY <2>1, <2>2
<1>5. ASSUME NEW k \in Keys PROVE Counted(k)'
  <2>1. Passed(k)' \subseteq Passed(k)
    BY <1>1 DEF Passed, IInv, Staged, Early, RequestType
  <2>2. Settled(k) \subseteq Settled(k)'
    BY <1>1 DEF Settled, IInv, Staged, Early, Pending, RequestType
  <2> QED BY <2>1, <2>2, QuietStep
<1> QED BY <1>2, <1>3, <1>4, <1>5 DEF IInv

\* An answer of the fallback, or of a request that gives its connection back.
LEMMA AnswerKeeps ==
  ASSUME IInv, NEW r \in Requests, NEW v \in {"allowed", "denied", "error", "none",
                                              "local allowed", "local denied"},
         request[r].stage # "idle", Answered(r, v), UNCHANGED <<now, rows, locks>>,
         v = "allowed" => request[r].verdict = "allowed" /\ request[r].stage = "return"
  PROVE  IInv'
<1> DEFINE q == [request[r] EXCEPT !.stage = "answered", !.conn = "none", !.verdict = v]
<1>1. request[r] \in RequestType /\ request[r].key \in Keys
  BY DEF IInv, Typed, Staged
<1>2. /\ q \in RequestType /\ q.stage = "answered" /\ q.conn = "none" /\ q.verdict = v
      /\ q.key = request[r].key /\ q.saw = request[r].saw
  BY <1>1 DEF RequestType
<1>3. request' = [request EXCEPT ![r] = q]
  BY DEF Answered, IInv, Typed
<1> HIDE DEF q
<1> QED BY <1>1, <1>2, <1>3, RequestStep DEF IInv, Typed, Early, Pending

LEMMA LocalKeeps ==
  ASSUME IInv, NEW r \in Requests, request[r].stage # "idle", LocallyLimited(r),
         UNCHANGED <<now, rows, locks>>
  PROVE  IInv'
<1>1. Answered(r, "local denied") \/ Answered(r, "local allowed")
  BY DEF LocallyLimited
<1> QED BY <1>1, AnswerKeeps

LEMMA UnlockedType ==
  ASSUME IInv, NEW r \in Requests
  PROVE  /\ Unlocked(r) \in [Keys -> Requests \cup {NoRequest}]
         /\ \A k \in Keys : locks[k] # r => Unlocked(r)[k] = locks[k]
  BY DEF Unlocked, IInv, Typed

LEMMA ConnectionStepsKeep ==
  ASSUME IInv, NEW r \in Requests,
         \/ \E s \in Sources : Begin(r, s)
         \/ CreatePool(r) \/ GetConnection(r) \/ PoolTimeout(r) \/ ReturnConnection(r)
         \/ ConnectionError(r)
  PROVE  IInv'
<1>1. request[r] \in RequestType
  BY DEF IInv, Typed
<1>2. CASE \E s \in Sources : Begin(r, s)
  <2>1. PICK s \in Sources : Begin(r, s)
    BY <1>2
  <2> DEFINE stage == IF pool.made = 0 THEN "creating" ELSE "getting"
             q == [request[r] EXCEPT !.key = <<s, now \div Window>>, !.stage = stage]
  <2>2. <<s, now \div Window>> \in Keys
    <3>1. /\ now \in Nat /\ now <= MaxTime /\ MaxTime \in Nat
          /\ Window \in Nat /\ Window > 0
      BY RateLimitConstants DEF IInv, Typed
    <3>2. now \div Window \in Nat /\ MaxTime \div Window \in Nat
          /\ now \div Window <= MaxTime \div Window
      BY <3>1, Z3
    <3> QED BY <3>2 DEF Keys, Windows
  <2>3. /\ q \in RequestType /\ q.stage = stage /\ q.key = <<s, now \div Window>>
        /\ q.saw = request[r].saw /\ q.verdict = request[r].verdict
    BY <1>1, <2>2 DEF RequestType, Early
  <2>4. request' = [request EXCEPT ![r] = q]
    BY <2>1 DEF Begin, IInv, Typed
  <2>5. request[r].stage = "idle" /\ request[r].saw = "nothing" /\ request[r].verdict = "none"
        /\ UNCHANGED <<now, rows, locks>>
    BY <2>1 DEF Begin, IInv, Staged, Early
  <2>6. stage \in Early /\ stage \notin Pending \cup {"reply", "return", "answered"}
    BY DEF Early, Pending
  <2> HIDE DEF q, stage
  <2> QED BY <2>2, <2>3, <2>4, <2>5, <2>6, RequestStep DEF IInv, Typed, Pending
<1>3. ASSUME NEW stage \in {"getting", "select"}, NEW c \in {"none", "good", "broken"},
             request[r].stage \in {"creating", "getting"},
             request' = [request EXCEPT ![r].stage = stage, ![r].conn = c],
             UNCHANGED <<now, rows, locks>>
      PROVE  IInv'
  <2> DEFINE q == [request[r] EXCEPT !.stage = stage, !.conn = c]
  <2>1. /\ q \in RequestType /\ q.stage = stage /\ q.key = request[r].key
        /\ q.saw = request[r].saw /\ q.verdict = request[r].verdict
    BY <1>1 DEF RequestType, Early
  <2>2. request' = [request EXCEPT ![r] = q]
    BY <1>3 DEF IInv, Typed
  <2>3. /\ request[r].saw = "nothing" /\ request[r].verdict = "none"
        /\ request[r].key \in Keys /\ request[r].stage \in Early
        /\ stage \in Early /\ stage \notin Pending \cup {"reply", "return", "answered"}
    BY <1>3 DEF IInv, Staged, Early, Pending
  <2> HIDE DEF q
  <2>4. /\ now' \in 0..MaxTime /\ locks' = locks /\ rows' = rows
        /\ locks \in [Keys -> Requests \cup {NoRequest}]
    BY <1>3 DEF IInv, Typed
  <2>5. stage # "write" /\ stage # "commit"
    BY <2>3 DEF Pending
  <2> QED BY <2>1, <2>2, <2>3, <2>4, <2>5, RequestStep
<1>4. CASE CreatePool(r)
  <2>1. CASE up /\ Reached(r, "getting")
    <3>1. request' = [request EXCEPT ![r].stage = "getting", ![r].conn = request[r].conn]
      BY <1>1, <2>1 DEF Reached, RequestType, IInv, Typed
    <3>2. request[r].conn \in {"none", "good", "broken"}
      BY <1>1 DEF RequestType
    <3> QED BY <1>3, <1>4, <3>1, <3>2 DEF CreatePool
  <2>2. CASE LocallyLimited(r)
    BY <1>4, <2>2, LocalKeeps DEF CreatePool
  <2> QED BY <1>4, <2>1, <2>2 DEF CreatePool
<1>5. CASE GetConnection(r)
  BY <1>3, <1>5 DEF GetConnection
<1>6. CASE PoolTimeout(r)
  BY <1>6, LocalKeeps DEF PoolTimeout
<1>7. CASE ReturnConnection(r)
  <2>1. request[r].verdict \in {"allowed", "denied", "error", "none",
                                "local allowed", "local denied"}
    BY <1>1 DEF RequestType
  <2> QED BY <1>7, <2>1, AnswerKeeps DEF ReturnConnection
<1>8. CASE ConnectionError(r)
  BY <1>8, LocalKeeps DEF ConnectionError
<1> QED BY <1>2, <1>4, <1>5, <1>6, <1>7, <1>8

LEMMA QueryStepsKeep ==
  ASSUME IInv, NEW r \in Requests, Select(r) \/ Write(r) \/ Committed(r) \/ Defect(r)
  PROVE  IInv'
<1> DEFINE k == request[r].key
<1>1. request[r] \in RequestType
  BY DEF IInv, Typed
<1>2. k \in Keys /\ request[r].conn = "good" /\ rows[k] \in Nat /\ now \in 0..MaxTime
      /\ locks \in [Keys -> Requests \cup {NoRequest}]
  BY DEF Select, Write, Committed, Defect, Query, IInv, Typed, Staged
<1>3. CASE Select(r)
  <2>1. /\ request[r].stage = "select" /\ request[r].saw = "nothing"
        /\ request[r].verdict = "none" /\ UNCHANGED <<now, rows>>
    BY <1>3 DEF Select, Query, IInv, Staged, Early
  <2>2. CASE request' = [request EXCEPT ![r].stage = "write", ![r].saw = "no row"]
             /\ UNCHANGED locks
    <3> DEFINE q == [request[r] EXCEPT !.stage = "write", !.saw = "no row"]
    <3>1. /\ q \in RequestType /\ q.stage = "write" /\ q.saw = "no row" /\ q.key = k
          /\ q.conn = "good" /\ q.verdict = "none"
      BY <1>1, <1>2, <2>1 DEF RequestType, Pending
    <3>2. request' = [request EXCEPT ![r] = q]
      BY <2>2 DEF IInv, Typed
    <3> HIDE DEF q
    <3> QED BY <1>2, <2>1, <2>2, <3>1, <3>2, RequestStep DEF Early, Pending
  <2>3. CASE /\ rows[k] > 0 /\ locks[k] = NoRequest /\ locks' = [locks EXCEPT ![k] = r]
             /\ request' = [request EXCEPT ![r].saw = "row",
                  ![r].stage = IF Within(rows[k]) THEN "write" ELSE "commit",
                  ![r].verdict = IF Within(rows[k]) THEN @ ELSE "denied"]
    <3> DEFINE q == [request[r] EXCEPT !.saw = "row",
                       !.stage = IF Within(rows[k]) THEN "write" ELSE "commit",
                       !.verdict = IF Within(rows[k]) THEN @ ELSE "denied"]
    <3>1. /\ q \in RequestType /\ q.saw = "row" /\ q.key = k /\ q.conn = "good"
          /\ \/ q.stage = "write" /\ q.verdict = "none" /\ rows[k] < Limit
             \/ q.stage = "commit" /\ q.verdict = "denied"
      BY <1>1, <1>2, <2>1 DEF RequestType, Pending, Within
    <3>2. request' = [request EXCEPT ![r] = q]
      BY <2>3 DEF IInv, Typed
    <3>3. /\ locks' \in [Keys -> Requests \cup {NoRequest}] /\ locks'[k] = r
          /\ \A j \in Keys : locks[j] # NoRequest => locks'[j] = locks[j]
      BY <1>2, <2>3
    <3> HIDE DEF q
    <3> QED BY <1>2, <2>1, <2>3, <3>1, <3>2, <3>3, RequestStep DEF Early, Pending
  <2> QED BY <1>3, <2>2, <2>3 DEF Select
<1>4. CASE Write(r)
  <2> DEFINE q == [request[r] EXCEPT !.stage = "commit", !.verdict = "allowed"]
  <2>1. /\ request[r].stage = "write" /\ request[r].saw # "nothing"
        /\ locks[k] \in {NoRequest, r} /\ locks' = [locks EXCEPT ![k] = r]
        /\ UNCHANGED <<now, rows>>
    BY <1>4 DEF Write, Query, IInv, Staged, Pending
  <2>2. request[r].saw = "row" => rows[k] > 0 /\ rows[k] < Limit
    <3>1. request[r].verdict = "none"
      BY <2>1 DEF IInv, Staged
    <3> QED BY <1>2, <2>1, <3>1 DEF IInv, Locked, Pending
  <2>3. /\ q \in RequestType /\ q.stage = "commit" /\ q.saw = request[r].saw /\ q.key = k
        /\ q.conn = "good" /\ q.verdict = "allowed"
    BY <1>1, <1>2 DEF RequestType, Pending
  <2>4. request' = [request EXCEPT ![r] = q]
    BY <1>4 DEF Write, IInv, Typed
  <2>5. /\ locks' \in [Keys -> Requests \cup {NoRequest}] /\ locks'[k] = r
        /\ \A j \in Keys : locks[j] # NoRequest => locks'[j] = locks[j]
    BY <1>2, <2>1
  <2> HIDE DEF q
  <2> QED BY <1>2, <2>1, <2>2, <2>3, <2>4, <2>5, RequestStep DEF Early, Pending
<1>5. CASE Committed(r)
  <2> DEFINE q == [request[r] EXCEPT !.stage = "return"]
  <2>1. /\ q \in RequestType /\ q.stage = "return" /\ q.key = k /\ q.saw = request[r].saw
        /\ q.verdict = request[r].verdict
    BY <1>1 DEF RequestType
  <2>2. request' = [request EXCEPT ![r] = q]
    BY <1>5 DEF Committed, Reached, IInv, Typed
  <2>3. request[r].stage = "reply" /\ UNCHANGED <<now, rows, locks>>
    BY <1>5 DEF Committed, Query
  <2> HIDE DEF q
  <2> QED BY <1>2, <2>1, <2>2, <2>3, RequestStep DEF Early, Pending
<1>6. CASE Defect(r)
  <2> DEFINE q == [request[r] EXCEPT !.stage = "return", !.verdict = "error"]
  <2>1. /\ q \in RequestType /\ q.stage = "return" /\ q.key = k /\ q.saw = request[r].saw
        /\ q.verdict = "error"
    BY <1>1 DEF RequestType
  <2>2. request' = [request EXCEPT ![r] = q]
    BY <1>6 DEF Defect, IInv, Typed
  <2>3. /\ request[r].stage \in {"select", "write"} /\ locks' = Unlocked(r)
        /\ UNCHANGED <<now, rows>>
    BY <1>6 DEF Defect, Query
  <2> HIDE DEF q
  <2> QED BY <1>2, <2>1, <2>2, <2>3, RequestStep, UnlockedType DEF Early, Pending
<1> QED BY <1>3, <1>4, <1>5, <1>6

LEMMA CommitKeeps ==
  ASSUME IInv, NEW r \in Requests, Commit(r)
  PROVE  IInv'
<1> DEFINE k == request[r].key
<1>1. /\ request[r] \in RequestType /\ request \in [Requests -> RequestType]
      /\ request[r].stage = "commit" /\ request[r].conn = "good" /\ k \in Keys
      /\ request[r].verdict \in {"allowed", "denied"} /\ request[r].saw # "nothing"
      /\ rows \in [Keys -> Nat] /\ locks[k] = r /\ locks' = Unlocked(r) /\ now' = now
  BY DEF Commit, Query, IInv, Typed, Staged, Locked, Pending
<1>2. /\ request'[r] = [request[r] EXCEPT !.stage = "reply"]
      /\ request' \in [Requests -> RequestType]
      /\ \A p \in Requests \ {r} : request'[p] = request[p]
  BY <1>1 DEF Commit, Reached, RequestType
<1>3. /\ request'[r].stage = "reply" /\ request'[r].key = k
      /\ request'[r].saw = request[r].saw /\ request'[r].verdict = request[r].verdict
  BY <1>1, <1>2 DEF RequestType
<1>4. /\ rows' \in [Keys -> Nat] /\ \A j \in Keys \ {k} : rows'[j] = rows[j]
      /\ rows'[k] = IF request[r].verdict = "allowed" THEN rows[k] + 1 ELSE rows[k]
  BY <1>1 DEF Commit, Written
<1>5. Typed'
  BY <1>1, <1>2, <1>4, UnlockedType DEF IInv, Typed
<1>6. Staged'
  <2> SUFFICES ASSUME NEW p \in Requests
               PROVE  /\ request'[p].stage # "idle" => request'[p].key \in Keys
                      /\ request'[p].stage \in Early =>
                           request'[p].saw = "nothing" /\ request'[p].verdict = "none"
                      /\ request'[p].stage = "write" => request'[p].verdict = "none"
                      /\ request'[p].stage \in Pending => request'[p].saw # "nothing"
                      /\ request'[p].stage = "commit" =>
                           request'[p].verdict \in {"allowed", "denied"}
                      /\ request'[p].stage = "commit" /\ request'[p].verdict = "denied" =>
                           request'[p].saw = "row"
    BY DEF Staged
  <2>1. CASE p = r
    BY <1>1, <1>3, <2>1 DEF Early, Pending
  <2>2. CASE p # r
    BY <1>2, <2>2 DEF IInv, Staged
  <2> QED BY <2>1, <2>2
<1>7. Locked'
  <2> SUFFICES ASSUME NEW p \in Requests, request'[p].conn = "good"
               PROVE  /\ request'[p].stage = "commit" => locks'[request'[p].key] = p
                      /\ request'[p].stage \in Pending /\ request'[p].saw = "row"
                           /\ request'[p].verdict # "denied" =>
                           /\ locks'[request'[p].key] = p
                           /\ rows'[request'[p].key] > 0 /\ rows'[request'[p].key] < Limit
    BY DEF Locked
  <2>1. CASE p = r
    BY <1>3, <2>1 DEF Pending
  <2>2. CASE p # r
    <3>1. request'[p] = request[p] /\ (request[p].stage \in Pending => request[p].key \in Keys)
      BY <1>2, <2>2 DEF IInv, Staged, Pending
    <3>2. request[p].stage \in Pending /\ locks[request[p].key] = p =>
            request[p].key # k /\ locks'[request[p].key] = p
      BY <1>1, <2>2, <3>1, UnlockedType
    <3> QED BY <1>4, <3>1, <3>2 DEF IInv, Locked, Pending
  <2> QED BY <2>1, <2>2
<1>8. ASSUME NEW j \in Keys, j # k \/ request[r].verdict = "denied"
      PROVE  Counted(j)'
  <2>1. Passed(j)' \subseteq Passed(j)
    BY <1>2, <1>3, <1>8 DEF Passed
  <2>2. Settled(j) \subseteq Settled(j)'
    BY <1>1, <1>2, <1>3 DEF Settled, Pending
  <2>3. rows'[j] = rows[j]
    BY <1>4, <1>8
  <2> QED BY <2>1, <2>2, <2>3, QuietStep
<1>9. ASSUME NEW j \in Keys, j = k, request[r].verdict = "allowed"
      PROVE  Counted(j)'
  <2>1. Counted(j) /\ rows[j] \in Nat /\ rows'[j] = rows[j] + 1
    BY <1>1, <1>4, <1>9 DEF IInv
  <2>2. /\ Passed(j) \in SUBSET Requests /\ Passed(j)' \in SUBSET Requests
        /\ Settled(j) \in SUBSET Requests /\ Settled(j)' \in SUBSET Requests
    BY DEF Passed, Settled
  <2>3. /\ Cardinality(Passed(j)) \in Nat /\ Cardinality(Passed(j)') \in Nat
        /\ Cardinality(Settled(j)) \in Nat /\ Cardinality(Settled(j)') \in Nat
    BY <2>2, Finite
  <2>4. Cardinality(Passed(j)') <= rows'[j]
    <3>1. Passed(j)' \subseteq Passed(j) \cup {r}
      BY <1>2 DEF Passed
    <3>2. Passed(j) \cup {r} \in SUBSET Requests
      BY <2>2
    <3>3. Cardinality(Passed(j)') <= Cardinality(Passed(j) \cup {r})
      BY <2>2, <3>1, <3>2, Fewer
    <3>4. Cardinality(Passed(j) \cup {r}) <= Cardinality(Passed(j)) + 1
          /\ Cardinality(Passed(j) \cup {r}) \in Nat
      BY <2>2, <3>2, OneMore, Finite
    <3> QED BY <2>1, <2>3, <3>3, <3>4 DEF Counted
  <2>5. CASE request[r].saw = "no row"
    <3>1. Settled(j)' = Settled(j) \cup {r} /\ r \notin Settled(j)
      <4>1. r \in Settled(j)' /\ r \notin Settled(j)
        BY <1>1, <1>3, <1>9, <2>5 DEF Settled, Pending
      <4>2. ASSUME NEW p \in Requests, p # r
            PROVE  p \in Settled(j)' <=> p \in Settled(j)
        <5>1. request'[p] = request[p]
          BY <1>2, <4>2
        <5> QED BY <5>1 DEF Settled
      <4> QED BY <2>2, <4>1, <4>2
    <3>2. Cardinality(Settled(j)') = Cardinality(Settled(j)) + 1
      BY <2>2, <3>1, OneMore
    <3> QED BY <2>1, <2>3, <2>4, <3>2, LimitIsPositive DEF Counted
  <2>6. CASE request[r].saw # "no row"
    <3>1. rows[j] > 0 /\ rows[j] < Limit
      BY <1>1, <1>9, <2>6 DEF IInv, Locked, Pending, RequestType
    <3>2. Settled(j) \subseteq Settled(j)'
      BY <1>1, <1>2, <1>3 DEF Settled, Pending
    <3>3. Cardinality(Settled(j)) <= Cardinality(Settled(j)')
      BY <2>2, <3>2, Fewer
    <3> QED BY <2>1, <2>3, <2>4, <3>1, <3>3, LimitIsPositive DEF Counted
  <2> QED BY <2>5, <2>6
<1> QED BY <1>1, <1>5, <1>6, <1>7, <1>8, <1>9 DEF IInv

LEMMA EnvironmentKeeps ==
  ASSUME IInv, Outage \/ Repair \/ Tick
  PROVE  IInv'
<1>1. CASE Outage
  <2>1. /\ locks' \in [Keys -> Requests \cup {NoRequest}] /\ UNCHANGED <<now, rows>>
        /\ request \in [Requests -> RequestType]
    BY <1>1 DEF Outage, IInv, Typed
  <2>2. ASSUME NEW r \in Requests
        PROVE  /\ request'[r] \in RequestType /\ request'[r].conn # "good"
               /\ request'[r].stage = request[r].stage /\ request'[r].key = request[r].key
               /\ request'[r].saw = request[r].saw /\ request'[r].verdict = request[r].verdict
    <3>1. request[r] \in RequestType
      BY <2>1
    <3>2. request'[r] = IF request[r].conn = "good" THEN [request[r] EXCEPT !.conn = "broken"]
                        ELSE request[r]
      BY <1>1 DEF Outage
    <3> QED BY <3>1, <3>2 DEF RequestType
  <2>3. request' \in [Requests -> RequestType]
    <3>1. request' = [r \in Requests |-> request'[r]]
      BY <1>1 DEF Outage
    <3> QED BY <2>2, <3>1
  <2>4. Typed' /\ Staged' /\ Locked'
    BY <2>1, <2>2, <2>3 DEF IInv, Typed, Staged, Locked
  <2>5. ASSUME NEW k \in Keys PROVE Counted(k)'
    <3>1. Passed(k)' \subseteq Passed(k) /\ Settled(k) \subseteq Settled(k)'
      BY <2>2 DEF Passed, Settled
    <3> QED BY <2>1, <3>1, QuietStep
  <2> QED BY <2>4, <2>5 DEF IInv
<1>2. CASE Repair \/ Tick
  <2>1. now' \in 0..MaxTime /\ UNCHANGED <<rows, locks, request>>
    BY <1>2, RateLimitConstants DEF Repair, Tick, IInv, Typed
  <2>2. Typed' /\ Staged' /\ Locked'
    BY <2>1 DEF IInv, Typed, Staged, Locked
  <2>3. \A k \in Keys : Counted(k)'
    BY <2>1 DEF IInv, Counted, Passed, Settled
  <2> QED BY <2>2, <2>3 DEF IInv
<1> QED BY <1>1, <1>2

LEMMA NextKeeps == IInv /\ [Next]_vars => IInv'
<1> SUFFICES ASSUME IInv, [Next]_vars PROVE IInv'
  OBVIOUS
<1>1. CASE UNCHANGED vars
  <2>1. Typed' /\ Staged' /\ Locked'
    BY <1>1 DEF vars, IInv, Typed, Staged, Locked
  <2>2. \A k \in Keys : Counted(k)'
    BY <1>1 DEF vars, IInv, Counted, Passed, Settled
  <2> QED BY <2>1, <2>2 DEF IInv
<1>2. CASE Next
  BY <1>2, ConnectionStepsKeep, QueryStepsKeep, CommitKeeps, EnvironmentKeeps DEF Next, Step
<1> QED BY <1>1, <1>2

\* Of any number of concurrent requests, each one that the shared limiter lets
\* pass has its hit in a committed row, whatever outages and rollbacks happen.
THEOREM PassedAreCounted == Spec => []AllowedAreCounted
<1>1. IInv => AllowedAreCounted
  <2> SUFFICES ASSUME IInv, NEW k \in Keys PROVE Cardinality(Allowed(k)) <= rows[k]
    BY DEF AllowedAreCounted
  <2>1. Allowed(k) \subseteq Passed(k)
    BY DEF Allowed, Passed
  <2>2. Allowed(k) \in SUBSET Requests /\ Passed(k) \in SUBSET Requests
    BY DEF Allowed, Passed
  <2>3. /\ Cardinality(Allowed(k)) <= Cardinality(Passed(k)) /\ Cardinality(Allowed(k)) \in Nat
        /\ Cardinality(Passed(k)) \in Nat /\ rows[k] \in Nat /\ Cardinality(Passed(k)) <= rows[k]
    BY <2>1, <2>2, Fewer, Finite DEF IInv, Typed, Counted
  <2> QED BY <2>3
<1> QED BY <1>1, InitIInv, NextKeeps, PTL DEF Spec

\* A row goes above the limit by fewer than the requests that found no row when
\* they looked, for any limit and any number of requests.
THEOREM ExcessIsBounded == Spec => []ExcessIsBlind
<1>1. IInv => ExcessIsBlind
  <2> SUFFICES ASSUME IInv, NEW k \in Keys, rows[k] > Limit
               PROVE  rows[k] - Limit < Cardinality(Blind(k))
    BY DEF ExcessIsBlind
  <2>1. Settled(k) \subseteq Blind(k)
    BY DEF Settled, Blind
  <2>2. Settled(k) \in SUBSET Requests /\ Blind(k) \in SUBSET Requests
    BY DEF Settled, Blind
  <2>3. /\ Cardinality(Settled(k)) <= Cardinality(Blind(k)) /\ Cardinality(Settled(k)) \in Nat
        /\ Cardinality(Blind(k)) \in Nat /\ rows[k] \in Nat
        /\ rows[k] - Limit < Cardinality(Settled(k))
    BY <2>1, <2>2, Fewer, Finite DEF IInv, Typed, Counted
  <2> QED BY <2>3, LimitIsPositive
<1> QED BY <1>1, InitIInv, NextKeeps, PTL DEF Spec

(* -------------------------------- numbers --------------------------------- *)

Below == {ss \in Nat \X Nat : ss[1] < ss[2]}

LEMMA LeastOf ==
  ASSUME NEW T, T \subseteq Nat, T # {}
  PROVE  \E i \in T : \A j \in T : i <= j
<1>1. IsWellFoundedOn(Below, Nat)
  BY NatLessThanWellFounded DEF OpToRel, Below
<1>2. PICK i \in T : \A j \in T : <<j, i>> \notin Below
  BY <1>1, WFMin
<1>3. ASSUME NEW j \in T
      PROVE  i <= j
  <2>1. <<j, i>> \in Below <=> j < i
    BY DEF Below
  <2> QED BY <1>2, <2>1
<1> QED BY <1>3

LEMMA MaxIs ==
  ASSUME NEW n \in Nat, NEW T, T \subseteq 0..n, T # {}
  PROVE  Max(T) \in T /\ \A j \in T : Max(T) >= j
<1> DEFINE depths == {n - j : j \in T}
<1>1. depths # {}
  OBVIOUS
<1>2. \A j \in T : j \in Nat /\ j <= n /\ n - j \in Nat
  OBVIOUS
<1>3. depths \subseteq Nat
  BY <1>2
<1>4. PICK d \in depths : \A e \in depths : d <= e
  BY <1>1, <1>3, LeastOf
<1>5. PICK i \in T : d = n - i
  OBVIOUS
<1>6. ASSUME NEW j \in T
      PROVE  i >= j
  <2>1. n - i <= n - j
    BY <1>4, <1>5
  <2> QED BY <1>2, <2>1
<1> QED BY <1>6 DEF Max

(* ------------------------------ the fallback ------------------------------ *)

InOrder(times, t) ==
  /\ \A i, j \in 1..Len(times) : i <= j => times[i] <= times[j]
  /\ \A i \in 1..Len(times) : times[i] <= t

\* What is kept are the last of the times of admission, and the others are over at t.
Kept(kept, times, t) ==
  /\ Len(kept) <= Len(times)
  /\ \A i \in 1..Len(kept) : kept[i] = times[Len(times) - Len(kept) + i]
  /\ \A i \in 1..(Len(times) - Len(kept)) : times[i] <= t - Window

Spaced(times) ==
  \A i \in 1..Len(times) : i + LocalLimit \in 1..Len(times) =>
    times[i + LocalLimit] - times[i] >= Window

Limited(kept, times, t) ==
  /\ kept \in Seq(Nat) /\ times \in Seq(Nat)
  /\ InOrder(times, t) /\ Kept(kept, times, t) /\ Spaced(times)

LocalInv ==
  /\ bucket \in [Sources -> Seq(Nat)] /\ admitted \in [Sources -> Seq(Nat)]
  /\ \A s \in Sources : Limited(bucket[s], admitted[s], now)

LEMMA LimiterConstants == Window \in Nat \ {0} /\ LocalLimit \in Nat \ {0} /\ MaxTime \in Nat
  BY RateLimitConstants

LEMMA LimitedForgets == ASSUME NEW t PROVE Limited(<<>>, <<>>, t)
BY DEF Limited, InOrder, Kept, Spaced

LEMMA LimitedLater ==
  ASSUME NEW kept, NEW times, NEW t \in Nat, NEW u \in Nat, t <= u, Limited(kept, times, t)
  PROVE  Limited(kept, times, u)
BY LimiterConstants DEF Limited, InOrder, Kept

LEMMA PrunedIs ==
  ASSUME now \in Nat, NEW kept, NEW times, Limited(kept, times, now)
  PROVE  Limited(Pruned(kept), times, now)
<1>1. PICK n \in Nat, m \in Nat : n = Len(kept) /\ m = Len(times)
  BY DEF Limited
<1>2. kept \in Seq(Nat) /\ times \in Seq(Nat) /\ n <= m
  BY <1>1 DEF Limited, Kept
<1> DEFINE over == {i \in DOMAIN kept : kept[i] <= now - Window}
<1>3. PICK p : p = Max({0} \cup over)
  OBVIOUS
<1>4. p \in 0..n /\ (p # 0 => p \in over) /\ \A i \in over : i <= p
  <2>1. {0} \cup over \subseteq 0..n
    BY <1>1, <1>2
  <2>2. p \in {0} \cup over /\ \A i \in {0} \cup over : p >= i
    BY <1>3, <2>1, MaxIs
  <2>3. over \subseteq 1..n
    BY <1>1, <1>2
  <2> QED BY <2>1, <2>2, <2>3
<1>5. Pruned(kept) = SubSeq(kept, p + 1, n)
  BY <1>1, <1>3 DEF Pruned, Recent
<1>6. PICK rest : rest = Pruned(kept)
  OBVIOUS
<1>7. rest \in Seq(Nat) /\ Len(rest) = n - p /\ \A i \in 1..(n - p) : rest[i] = kept[p + i]
  <2>1. PICK first \in Int : first = p + 1
    BY <1>4
  <2>2. \A i \in first..n : kept[i] \in Nat
    BY <1>1, <1>2, <1>4, <2>1
  <2>3. /\ SubSeq(kept, first, n) \in Seq(Nat)
        /\ Len(SubSeq(kept, first, n)) = IF first <= n THEN n - first + 1 ELSE 0
        /\ \A i \in 1..(n - first + 1) : SubSeq(kept, first, n)[i] = kept[first + i - 1]
    BY <2>2, SubSeqProperties
  <2>4. \A i \in 1..(n - p) : first + i - 1 = p + i /\ i \in 1..(n - first + 1)
    BY <1>4, <2>1
  <2>5. (IF first <= n THEN n - first + 1 ELSE 0) = n - p
    BY <1>4, <2>1
  <2> QED BY <1>5, <1>6, <2>1, <2>3, <2>4, <2>5
<1>8. \A i \in 1..n : kept[i] = times[m - n + i]
  BY <1>1 DEF Limited, Kept
<1>9. ASSUME NEW i \in 1..(n - p)
      PROVE  rest[i] = times[m - (n - p) + i]
  <2>1. p + i \in 1..n /\ m - n + (p + i) = m - (n - p) + i
    BY <1>4
  <2> QED BY <1>7, <1>8, <2>1
<1>10. ASSUME NEW i \in 1..(m - (n - p))
       PROVE  times[i] <= now - Window
  <2>1. CASE i <= m - n
    BY <1>1, <2>1 DEF Limited, Kept
  <2>2. CASE i > m - n
    <3>1. p # 0 /\ p \in over /\ p \in 1..n
      BY <1>4, <2>2
    <3>2. kept[p] <= now - Window /\ kept[p] = times[m - n + p]
      BY <1>8, <3>1
    <3>3. m - n + p \in 1..m /\ i \in 1..m /\ i <= m - n + p
      BY <1>2, <1>4, <3>1
    <3>4. times[i] <= times[m - n + p] /\ times[i] \in Nat /\ times[m - n + p] \in Nat
      BY <1>1, <1>2, <3>3 DEF Limited, InOrder
    <3> QED BY <3>2, <3>4, LimiterConstants
  <2>3. i <= m - n \/ i > m - n
    BY <1>2
  <2> QED BY <2>1, <2>2, <2>3
<1>11. Kept(rest, times, now)
  BY <1>1, <1>2, <1>4, <1>7, <1>9, <1>10 DEF Kept
<1> QED BY <1>6, <1>7, <1>11 DEF Limited

\* One more admission, with fewer than the limit kept, is far enough from the one that
\* is as many as the limit before it.
LEMMA LimitedAdmits ==
  ASSUME NEW t \in Nat, NEW kept, NEW times, Limited(kept, times, t), Len(kept) < LocalLimit
  PROVE  Limited(Append(kept, t), Append(times, t), t)
<1>1. PICK n \in Nat, m \in Nat : n = Len(kept) /\ m = Len(times)
  BY DEF Limited
<1>2. kept \in Seq(Nat) /\ times \in Seq(Nat) /\ n <= m /\ n < LocalLimit
  BY <1>1 DEF Limited, Kept
<1>3. PICK more, later : more = Append(kept, t) /\ later = Append(times, t)
  OBVIOUS
<1>4. /\ more \in Seq(Nat) /\ Len(more) = n + 1 /\ more[n + 1] = t
      /\ \A i \in 1..n : more[i] = kept[i]
  BY <1>1, <1>2, <1>3, AppendProperties
<1>5. /\ later \in Seq(Nat) /\ Len(later) = m + 1 /\ later[m + 1] = t
      /\ \A i \in 1..m : later[i] = times[i] /\ times[i] \in Nat
  BY <1>1, <1>2, <1>3, AppendProperties
<1>6. \A i \in 1..(m + 1) : i \in 1..m \/ i = m + 1
  OBVIOUS
<1>7. InOrder(later, t)
  <2>1. \A i \in 1..m : times[i] <= t
    BY <1>1 DEF Limited, InOrder
  <2>2. \A i, j \in 1..m : i <= j => times[i] <= times[j]
    BY <1>1 DEF Limited, InOrder
  <2>3. \A i \in 1..(m + 1) : later[i] <= t
    BY <1>5, <1>6, <2>1
  <2>4. ASSUME NEW i \in 1..(m + 1), NEW j \in 1..(m + 1), i <= j
        PROVE  later[i] <= later[j]
    <3>1. CASE j = m + 1
      BY <1>5, <2>3, <3>1
    <3>2. CASE j \in 1..m
      BY <1>5, <2>2, <2>4, <3>2
    <3> QED BY <1>6, <3>1, <3>2
  <2> QED BY <1>5, <2>3, <2>4 DEF InOrder
<1>8. \A i \in 1..(m - n) : times[i] <= t - Window
  BY <1>1 DEF Limited, Kept
<1>9. Kept(more, later, t)
  <2>1. (m + 1) - (n + 1) = m - n /\ n + 1 <= m + 1
    BY <1>2
  <2>2. \A i \in 1..(m - n) : later[i] <= t - Window
    <3>1. \A i \in 1..(m - n) : i \in 1..m
      BY <1>2
    <3> QED BY <1>5, <1>8, <3>1
  <2>3. ASSUME NEW i \in 1..(n + 1)
        PROVE  more[i] = later[m - n + i]
    <3>1. CASE i = n + 1
      <4>1. m - n + i = m + 1
        BY <3>1
      <4> QED BY <1>4, <1>5, <3>1, <4>1
    <3>2. CASE i \in 1..n
      <4>1. kept[i] = times[m - n + i] /\ m - n + i \in 1..m
        BY <1>1, <1>2, <3>2 DEF Limited, Kept
      <4> QED BY <1>4, <1>5, <3>2, <4>1
    <3>3. i = n + 1 \/ i \in 1..n
      OBVIOUS
    <3> QED BY <3>1, <3>2, <3>3
  <2> QED BY <1>4, <1>5, <2>1, <2>2, <2>3 DEF Kept
<1>10. Spaced(later)
  <2>1. SUFFICES ASSUME NEW i \in 1..(m + 1), i + LocalLimit \in 1..(m + 1)
                 PROVE  later[i + LocalLimit] - later[i] >= Window
    BY <1>5 DEF Spaced
  <2>2. i \in 1..m
    BY <2>1, LimiterConstants
  <2>3. CASE i + LocalLimit = m + 1
    <3>1. i \in 1..(m - n)
      BY <1>2, <2>2, <2>3, LimiterConstants
    <3>2. later[i] = times[i] /\ times[i] \in Nat /\ times[i] <= t - Window /\ later[i + LocalLimit] = t
      BY <1>5, <1>8, <2>2, <2>3, <3>1
    <3> QED BY <3>2, LimiterConstants
  <2>4. CASE i + LocalLimit \in 1..m
    <3>1. times[i + LocalLimit] - times[i] >= Window
      BY <1>1, <2>2, <2>4 DEF Limited, Spaced
    <3> QED BY <1>5, <2>2, <2>4, <3>1
  <2> QED BY <1>6, <2>1, <2>3, <2>4
<1> QED BY <1>3, <1>4, <1>5, <1>7, <1>9, <1>10 DEF Limited

LEMMA LocallyLimitedKeeps ==
  ASSUME IInv, LocalInv, NEW r \in Requests, LocallyLimited(r), request[r].stage # "idle",
         now' = now
  PROVE  LocalInv'
<1>1. PICK s \in Sources : s = Source(r)
  BY DEF IInv, Staged, Source, Keys
<1>2. PICK times : times = Pruned(bucket[s])
  OBVIOUS
<1>3. now \in Nat
  BY LimiterConstants DEF IInv, Typed
<1>4. CASE Len(times) >= LocalLimit
  BY <1>1, <1>2, <1>4 DEF LocallyLimited, LocalInv
<1>5. CASE ~(Len(times) >= LocalLimit)
  <2>1. PICK o \in Evictable(s) :
          /\ bucket' = [(IF o = s THEN bucket ELSE [bucket EXCEPT ![o] = <<>>])
                          EXCEPT ![s] = Append(times, now)]
          /\ admitted' = [(IF o = s THEN admitted ELSE [admitted EXCEPT ![o] = <<>>])
                            EXCEPT ![s] = Append(@, now)]
    BY <1>1, <1>2, <1>5 DEF LocallyLimited
  <2>2. Limited(times, admitted[s], now)
    BY <1>2, <1>3, PrunedIs DEF LocalInv
  <2>3. times \in Seq(Nat) /\ Len(times) < LocalLimit
    <3>1. times \in Seq(Nat)
      BY <2>2 DEF Limited
    <3> QED BY <1>5, <3>1, LimiterConstants
  <2>4. Limited(Append(times, now), Append(admitted[s], now), now)
    BY <1>3, <2>2, <2>3, LimitedAdmits
  <2>5. Append(times, now) \in Seq(Nat) /\ Append(admitted[s], now) \in Seq(Nat) /\ <<>> \in Seq(Nat)
    BY <2>4 DEF Limited
  <2>6. /\ bucket' \in [Sources -> Seq(Nat)] /\ admitted' \in [Sources -> Seq(Nat)]
        /\ bucket'[s] = Append(times, now) /\ admitted'[s] = Append(admitted[s], now)
        /\ \A q \in Sources \ {s} :
             \/ bucket'[q] = bucket[q] /\ admitted'[q] = admitted[q]
             \/ bucket'[q] = <<>> /\ admitted'[q] = <<>>
    BY <2>1, <2>5 DEF LocalInv
  <2>7. ASSUME NEW q \in Sources
        PROVE  Limited(bucket'[q], admitted'[q], now)
    <3>1. CASE q = s
      BY <2>4, <2>6, <3>1
    <3>2. CASE q # s
      BY <2>6, <3>2, LimitedForgets DEF LocalInv
    <3> QED BY <3>1, <3>2
  <2> QED BY <2>6, <2>7 DEF LocalInv
<1> QED BY <1>4, <1>5

LEMMA LocalNextKeeps ==
  ASSUME IInv, LocalInv, [Next]_vars
  PROVE  LocalInv'
<1>1. ASSUME UNCHANGED <<bucket, admitted, now>>
      PROVE  LocalInv'
  BY <1>1 DEF LocalInv
<1>2. CASE Tick
  <2>1. now \in Nat /\ now' \in Nat /\ now <= now' /\ UNCHANGED <<bucket, admitted>>
    BY <1>2, LimiterConstants DEF Tick, LocalUnchanged, IInv, Typed
  <2> QED BY <2>1, LimitedLater DEF LocalInv
<1>3. ASSUME NEW r \in Requests, CreatePool(r) \/ PoolTimeout(r) \/ ConnectionError(r)
      PROVE  LocalInv'
  <2>1. now' = now /\ request[r].stage # "idle"
    BY <1>3 DEF CreatePool, PoolTimeout, ConnectionError
  <2>2. LocallyLimited(r) \/ UNCHANGED <<bucket, admitted>>
    BY <1>3 DEF CreatePool, PoolTimeout, ConnectionError, LocalUnchanged
  <2> QED BY <1>1, <2>1, <2>2, LocallyLimitedKeeps
<1>4. ASSUME NEW r \in Requests,
             \/ \E s \in Sources : Begin(r, s)
             \/ GetConnection(r) \/ ReturnConnection(r) \/ Select(r) \/ Write(r) \/ Commit(r)
             \/ Committed(r) \/ Defect(r)
      PROVE  LocalInv'
  <2>1. UNCHANGED <<bucket, admitted, now>>
    BY <1>4 DEF Begin, GetConnection, ReturnConnection, Select, Write, Commit, Committed, Defect,
                LocalUnchanged
  <2> QED BY <1>1, <2>1
<1>5. CASE Outage \/ Repair \/ UNCHANGED vars
  BY <1>1, <1>5 DEF Outage, Repair, LocalUnchanged, vars
<1> QED BY <1>2, <1>3, <1>4, <1>5 DEF Next, Step

\* The fallback keeps its limit in every window of time, for any limit, window, number of
\* sources and of requests, and whenever outages send requests to it.
THEOREM FallbackLimits == Spec => []SlidingWindow
<1>1. Init => LocalInv
  BY LimitedForgets DEF Init, LocalInv
<1>2. ASSUME LocalInv
      PROVE  SlidingWindow
  <2>1. \A s \in Sources : Spaced(admitted[s]) /\ DOMAIN admitted[s] = 1..Len(admitted[s])
    BY <1>2 DEF LocalInv, Limited
  <2> QED BY <2>1 DEF SlidingWindow, Spaced
<1> QED BY InitIInv, NextKeeps, LocalNextKeeps, <1>1, <1>2, PTL DEF Spec

(* ------------------------------ the connections --------------------------- *)

HasConnection == {r \in Requests : request[r].conn # "none"}

PoolType == pool \in [made : Nat, good : Nat, broken : Nat]

\* Who has a connection, and who has the lock of a row: a request whose transaction
\* has a server to be answered by.
Held ==
  /\ \A r \in Requests :
       request[r].conn # "none" <=>
         request[r].stage \in {"select", "write", "commit", "reply", "return"}
  /\ \A k \in Keys : locks[k] # NoRequest =>
       request[locks[k]].stage \in Pending /\ request[locks[k]].conn = "good"
         /\ request[locks[k]].key = k

\* The connections of one pool.
Pooled ==
  /\ pool.made = 0 => pool.good = 0 /\ pool.broken = 0 /\ HasConnection = {}
  /\ pool.made <= 1 => pool.good + pool.broken + Cardinality(HasConnection) <= PoolSize

PoolInv == PoolType /\ Held /\ Pooled

LEMMA InitPoolInv == Init => PoolInv
<1> SUFFICES ASSUME Init PROVE PoolInv
  OBVIOUS
<1>1. HasConnection = {} /\ PoolSize \in Nat
  BY RateLimitConstants DEF Init, HasConnection, Idle
<1>2. Held
  BY DEF Init, Held, Idle
<1> QED BY <1>1, <1>2, FS_EmptySet DEF PoolInv, PoolType, Pooled, Init

\* A request that gets no connection, loses none and gives none back: the row it works
\* on is its own, or as it was.
LEMMA HolderStep ==
  ASSUME IInv, PoolInv, NEW r \in Requests, NEW q \in RequestType,
         request' = [request EXCEPT ![r] = q], UNCHANGED pool, q.conn = request[r].conn,
         request[r].conn # "none" <=>
           q.stage \in {"select", "write", "commit", "reply", "return"},
         \A k \in Keys : \/ locks'[k] = locks[k] /\ locks[k] # r
                         \/ locks'[k] = NoRequest
                         \/ locks'[k] = r /\ q.stage \in Pending /\ q.conn = "good" /\ q.key = k
  PROVE  PoolInv'
<1>1. /\ request \in [Requests -> RequestType] /\ request'[r] = q
      /\ \A p \in Requests \ {r} : request'[p] = request[p]
      /\ locks \in [Keys -> Requests \cup {NoRequest}]
  BY DEF IInv, Typed
<1>2. HasConnection' = HasConnection
  BY <1>1 DEF HasConnection
<1>3. PoolType' /\ Pooled'
  BY <1>2 DEF PoolInv, PoolType, Pooled
<1>4. Held'
  BY <1>1 DEF PoolInv, Held
<1> QED BY <1>3, <1>4 DEF PoolInv

LEMMA Connections == IsFiniteSet(HasConnection) /\ Cardinality(HasConnection) \in Nat
  BY Finite DEF HasConnection

LEMMA NoLockEarly ==
  ASSUME IInv, PoolInv, NEW r \in Requests, request[r].stage \notin Pending \/ request[r].conn # "good"
  PROVE  \A k \in Keys : locks[k] # r
  BY RateLimitConstants DEF IInv, Typed, PoolInv, Held

\* An answer gives the connection back, or has lost it.
LEMMA AnswerPools ==
  ASSUME IInv, PoolInv, NEW r \in Requests, NEW v, Answered(r, v), UNCHANGED locks,
         request[r].stage \notin Pending \/ request[r].conn # "good",
         PoolType', pool'.made = pool.made,
         pool'.good + pool'.broken <= pool.good + pool.broken
                                      + (IF request[r].conn = "none" THEN 0 ELSE 1),
         pool.made = 0 => UNCHANGED pool
  PROVE  PoolInv'
<1>1. /\ request \in [Requests -> RequestType]
      /\ request'[r].conn = "none" /\ request'[r].stage = "answered"
      /\ \A p \in Requests \ {r} : request'[p] = request[p]
      /\ locks \in [Keys -> Requests \cup {NoRequest}]
  BY DEF IInv, Typed, Answered, RequestType
<1>2. HasConnection' = HasConnection \ {r}
  BY <1>1 DEF HasConnection
<1>3. Cardinality(HasConnection') = Cardinality(HasConnection)
                                      - (IF request[r].conn = "none" THEN 0 ELSE 1)
  <2>1. CASE request[r].conn = "none"
    <3>1. HasConnection' = HasConnection
      BY <1>2, <2>1 DEF HasConnection
    <3> QED BY <2>1, <3>1, Connections
  <2>2. CASE request[r].conn # "none"
    <3>1. r \in HasConnection
      BY <2>2 DEF HasConnection
    <3> QED BY <1>2, <2>2, <3>1, Connections, FS_RemoveElement
  <2> QED BY <2>1, <2>2
<1>4. Pooled'
  <2> DEFINE back == IF request[r].conn = "none" THEN 0 ELSE 1
             held == Cardinality(HasConnection)
  <2>1. /\ back \in {0, 1} /\ held \in Nat /\ Cardinality(HasConnection') = held - back
        /\ pool'.good + pool'.broken <= pool.good + pool.broken + back
        /\ {pool'.good, pool'.broken, pool.good, pool.broken, pool.made, PoolSize} \subseteq Nat
    BY <1>3, Connections, RateLimitConstants DEF PoolInv, PoolType
  <2>2. pool.made <= 1 => pool.good + pool.broken + held <= PoolSize
    BY DEF PoolInv, Pooled
  <2> HIDE DEF back, held
  <2>3. pool.made <= 1 => pool'.good + pool'.broken + Cardinality(HasConnection') <= PoolSize
    BY <2>1, <2>2
  <2>4. pool.made = 0 => pool'.good = 0 /\ pool'.broken = 0 /\ HasConnection' = {}
    BY <1>2 DEF PoolInv, Pooled
  <2> QED BY <2>3, <2>4 DEF Pooled
<1>5. Held'
  BY <1>1, NoLockEarly DEF PoolInv, Held
<1> QED BY <1>4, <1>5 DEF PoolInv

LEMMA LocalPools ==
  ASSUME IInv, PoolInv, NEW r \in Requests, LocallyLimited(r), UNCHANGED <<locks, pool>>,
         request[r].stage \notin Pending \/ request[r].conn # "good"
  PROVE  PoolInv'
<1>1. PICK v : Answered(r, v)
  BY DEF LocallyLimited
<1> QED BY <1>1, AnswerPools DEF PoolInv, PoolType

LEMMA SelectedIs ==
  ASSUME IInv, NEW r \in Requests, Select(r)
  PROVE  \E stage \in {"write", "commit"} : \E verdict, saw :
           request'[r] = [request[r] EXCEPT !.stage = stage, !.verdict = verdict, !.saw = saw]
<1> DEFINE k == request[r].key
<1>1. request \in [Requests -> RequestType] /\ request[r] \in RequestType
  BY DEF IInv, Typed
<1>2. CASE request' = [request EXCEPT ![r].stage = "write", ![r].saw = "no row"]
  <2>1. request'[r] = [request[r] EXCEPT !.stage = "write", !.verdict = request[r].verdict,
                                         !.saw = "no row"]
    BY <1>1, <1>2 DEF RequestType
  <2> QED BY <2>1
<1>3. CASE request' = [request EXCEPT ![r].saw = "row",
                         ![r].stage = IF Within(rows[k]) THEN "write" ELSE "commit",
                         ![r].verdict = IF Within(rows[k]) THEN @ ELSE "denied"]
  <2> DEFINE stage == IF Within(rows[k]) THEN "write" ELSE "commit"
             verdict == IF Within(rows[k]) THEN request[r].verdict ELSE "denied"
  <2>1. request'[r] = [request[r] EXCEPT !.stage = stage, !.verdict = verdict, !.saw = "row"]
    BY <1>1, <1>3 DEF RequestType
  <2>2. stage \in {"write", "commit"}
    OBVIOUS
  <2> HIDE DEF stage, verdict
  <2> QED BY <2>1, <2>2
<1> QED BY <1>2, <1>3 DEF Select

LEMMA PoolNextKeeps == IInv /\ PoolInv /\ [Next]_vars => PoolInv'
<1> SUFFICES ASSUME IInv, PoolInv, [Next]_vars PROVE PoolInv'
  OBVIOUS
<1>0. /\ request \in [Requests -> RequestType] /\ PoolType /\ Held /\ Pooled
      /\ locks \in [Keys -> Requests \cup {NoRequest}] /\ PoolSize \in Nat
  BY RateLimitConstants DEF IInv, Typed, PoolInv
<1>1. ASSUME NEW r \in Requests, NEW s \in Sources, Begin(r, s)
      PROVE  PoolInv'
  <2> DEFINE stage == IF pool.made = 0 THEN "creating" ELSE "getting"
             q == [request[r] EXCEPT !.key = <<s, now \div Window>>, !.stage = stage]
  <2>1. request'[r] = q /\ q.conn = request[r].conn /\ q.stage = stage
        /\ \A p \in Requests \ {r} : request'[p] = request[p]
    BY <1>0, <1>1 DEF Begin, RequestType
  <2>2. request[r].conn = "none" /\ stage \in {"creating", "getting"} /\ UNCHANGED <<pool, locks>>
    BY <1>0, <1>1 DEF Begin, Held
  <2>3. HasConnection' = HasConnection
    <3>1. \A p \in Requests : request'[p].conn = request[p].conn
      BY <2>1
    <3> QED BY <3>1 DEF HasConnection
  <2>4. Held'
    BY <1>0, <1>1, <2>1, <2>2, NoLockEarly DEF Held, Begin, Pending
  <2> QED BY <1>0, <2>2, <2>3, <2>4 DEF PoolInv, PoolType, Pooled
<1>2. ASSUME NEW r \in Requests, CreatePool(r)
      PROVE  PoolInv'
  <2>1. request[r].conn = "none" /\ r \notin HasConnection /\ request[r].stage \notin Pending
    BY <1>0, <1>2 DEF CreatePool, Held, HasConnection, Pending
  <2>2. CASE Reached(r, "getting") /\ pool' = [made |-> pool.made + 1, good |-> PoolSize, broken |-> 0]
    <3>1. /\ request'[r].stage = "getting" /\ request'[r].conn = "none"
          /\ \A p \in Requests \ {r} : request'[p] = request[p]
      BY <1>0, <2>1, <2>2 DEF Reached, RequestType
    <3>2. HasConnection' = HasConnection
      BY <2>1, <3>1 DEF HasConnection
    <3>3. PoolType' /\ Pooled'
      <4>1. /\ pool'.made = pool.made + 1 /\ pool'.good = PoolSize /\ pool'.broken = 0 /\ pool.made \in Nat
        BY <1>0, <2>2 DEF PoolType
      <4>2. PoolType'
        BY <1>0, <2>2, <4>1 DEF PoolType
      <4>3. pool'.made <= 1 => Cardinality(HasConnection') = 0
        BY <1>0, <3>2, <4>1, FS_EmptySet DEF Pooled
      <4>4. pool'.made <= 1 => pool'.good + pool'.broken + Cardinality(HasConnection') <= PoolSize
        BY <1>0, <4>1, <4>3
      <4>5. pool'.made # 0
        BY <4>1
      <4> QED BY <4>2, <4>4, <4>5 DEF Pooled
    <3>4. Held'
      BY <1>0, <1>2, <2>1, <3>1, NoLockEarly DEF Held, CreatePool
    <3> QED BY <3>3, <3>4 DEF PoolInv
  <2>3. CASE LocallyLimited(r) /\ UNCHANGED pool
    BY <1>2, <2>1, <2>3, LocalPools DEF CreatePool
  <2> QED BY <1>2, <2>2, <2>3 DEF CreatePool
<1>3. ASSUME NEW r \in Requests, GetConnection(r)
      PROVE  PoolInv'
  <2>1. PICK c \in {"good", "broken"} :
          /\ pool[c] > 0 /\ pool' = [pool EXCEPT ![c] = @ - 1]
          /\ request' = [request EXCEPT ![r].stage = "select", ![r].conn = c]
    BY <1>3 DEF GetConnection
  <2>2. /\ request'[r].stage = "select" /\ request'[r].conn = c
        /\ \A p \in Requests \ {r} : request'[p] = request[p]
        /\ request[r].stage = "getting" /\ UNCHANGED locks /\ r \notin HasConnection
    <3>1. /\ request[r] \in RequestType /\ request[r].stage = "getting" /\ UNCHANGED locks
      BY <1>0, <1>3 DEF GetConnection
    <3>2. request'[r] = [request[r] EXCEPT !.stage = "select", !.conn = c]
          /\ \A p \in Requests \ {r} : request'[p] = request[p]
      BY <1>0, <2>1
    <3>3. request[r].conn = "none"
      BY <1>0, <3>1 DEF Held
    <3> QED BY <3>1, <3>2, <3>3 DEF RequestType, HasConnection
  <2>3. HasConnection' = HasConnection \cup {r}
    BY <2>2 DEF HasConnection
  <2>4. Cardinality(HasConnection') = Cardinality(HasConnection) + 1
    BY <2>2, <2>3, OneMore, Connections DEF HasConnection
  <2>5. /\ pool'.made = pool.made /\ pool'.good + pool'.broken = pool.good + pool.broken - 1
        /\ PoolType' /\ pool.made # 0 /\ pool.made \in Nat /\ pool.good + pool.broken \in Int
    <3>1. CASE c = "good"
      BY <1>0, <2>1, <3>1 DEF PoolType, Pooled
    <3>2. CASE c = "broken"
      BY <1>0, <2>1, <3>2 DEF PoolType, Pooled
    <3> QED BY <2>1, <3>1, <3>2
  <2>6. Pooled'
    <3>1. pool.made <= 1 => pool.good + pool.broken + Cardinality(HasConnection) <= PoolSize
      BY <1>0 DEF Pooled
    <3>2. {pool.good, pool.broken, pool'.good, pool'.broken} \subseteq Nat
      BY <1>0, <2>5 DEF PoolType
    <3>3. pool.made <= 1 => pool'.good + pool'.broken + Cardinality(HasConnection') <= PoolSize
      BY <1>0, <2>4, <2>5, <3>1, <3>2, Connections
    <3> QED BY <2>5, <3>3 DEF Pooled
  <2>7. Held'
    BY <1>0, <2>2, NoLockEarly DEF Held, Pending
  <2> QED BY <2>5, <2>6, <2>7 DEF PoolInv
<1>4. ASSUME NEW r \in Requests, PoolTimeout(r) \/ ConnectionError(r)
      PROVE  PoolInv'
  BY <1>0, <1>4, LocalPools DEF PoolTimeout, ConnectionError, Pending
<1>5. ASSUME NEW r \in Requests, ReturnConnection(r)
      PROVE  PoolInv'
  <2>1. request[r].conn \in {"good", "broken"} /\ r \in HasConnection
    BY <1>0, <1>5 DEF ReturnConnection, Held, HasConnection, RequestType
  <2>2. /\ PoolType' /\ pool'.made = pool.made /\ pool.made # 0
        /\ pool'.good + pool'.broken = pool.good + pool.broken + 1
    <3>1. pool' = [pool EXCEPT ![request[r].conn] = @ + 1]
      BY <1>5 DEF ReturnConnection
    <3>2. CASE request[r].conn = "good"
      BY <1>0, <2>1, <3>1, <3>2 DEF PoolType, Pooled
    <3>3. CASE request[r].conn = "broken"
      BY <1>0, <2>1, <3>1, <3>3 DEF PoolType, Pooled
    <3> QED BY <2>1, <3>2, <3>3
  <2>3. Answered(r, request[r].verdict) /\ UNCHANGED locks /\ request[r].stage \notin Pending
    BY <1>5 DEF ReturnConnection, Pending
  <2>4. pool'.good + pool'.broken \in Int
    BY <2>2 DEF PoolType
  <2> QED BY <2>1, <2>2, <2>3, <2>4, AnswerPools
<1>6. ASSUME NEW r \in Requests, Select(r) \/ Write(r) \/ Commit(r) \/ Committed(r) \/ Defect(r)
      PROVE  PoolInv'
  <2>1. request[r].conn = "good" /\ request'[r] \in RequestType /\ UNCHANGED pool
        /\ request[r].stage \in {"select", "write", "commit", "reply"} /\ request[r].key \in Keys
    <3>1. IInv'
      BY <1>6, QueryStepsKeep, CommitKeeps
    <3> QED BY <1>6, <3>1 DEF Select, Write, Commit, Committed, Defect, Query, IInv, Typed, Staged
  <2>2. /\ request'[r].conn = "good" /\ request'[r].key = request[r].key
        /\ request' = [request EXCEPT ![r] = request'[r]]
        /\ request'[r].stage \in {"write", "commit", "reply", "return"}
    <3>0. request[r] \in RequestType
      BY <1>0
    <3>1. CASE Select(r)
      <4>1. \E stage \in {"write", "commit"} : \E verdict, saw :
              request'[r] = [request[r] EXCEPT !.stage = stage, !.verdict = verdict, !.saw = saw]
        BY <3>1, SelectedIs
      <4>2. request' = [request EXCEPT ![r] = request'[r]]
        BY <1>0, <3>1 DEF Select
      <4> QED BY <2>1, <3>0, <4>1, <4>2 DEF RequestType
    <3>2. CASE Write(r)
      BY <1>0, <2>1, <3>0, <3>2 DEF Write, RequestType
    <3>3. CASE Commit(r)
      BY <1>0, <2>1, <3>0, <3>3 DEF Commit, Reached, RequestType
    <3>4. CASE Committed(r)
      BY <1>0, <2>1, <3>0, <3>4 DEF Committed, Reached, RequestType
    <3>5. CASE Defect(r)
      BY <1>0, <2>1, <3>0, <3>5 DEF Defect, RequestType
    <3> QED BY <1>6, <3>1, <3>2, <3>3, <3>4, <3>5
  <2>3. \A k \in Keys : \/ locks'[k] = locks[k] /\ locks[k] # r
                        \/ locks'[k] = NoRequest
                        \/ locks'[k] = r /\ request'[r].stage \in Pending /\ request[r].key = k
    <3>1. CASE Select(r)
      <4>1. \A k \in Keys : locks[k] # r
        BY <3>1, NoLockEarly DEF Select, Query, Pending
      <4>2. request'[r].stage \in Pending /\ (UNCHANGED locks \/ locks' = [locks EXCEPT ![request[r].key] = r])
        <5>1. request'[r].stage \in {"write", "commit"}
          <6>1. request[r] \in RequestType
            BY <1>0
          <6> QED BY <3>1, <6>1, SelectedIs DEF RequestType
        <5>2. UNCHANGED locks \/ locks' = [locks EXCEPT ![request[r].key] = r]
          BY <3>1 DEF Select
        <5> QED BY <5>1, <5>2 DEF Pending
      <4> QED BY <1>0, <4>1, <4>2
    <3>2. CASE Write(r)
      <4>1. \A k \in Keys : locks[k] = r => request[r].key = k
        BY <1>0, RateLimitConstants DEF Held
      <4>2. request'[r].stage \in Pending /\ locks' = [locks EXCEPT ![request[r].key] = r]
        BY <1>0, <3>2 DEF Write, RequestType, Pending
      <4> QED BY <1>0, <4>1, <4>2
    <3>3. CASE Commit(r) \/ Defect(r)
      BY <1>0, <3>3 DEF Commit, Defect, Unlocked
    <3>4. CASE Committed(r)
      BY <1>0, <3>4, NoLockEarly DEF Committed, Query, Pending
    <3> QED BY <1>6, <3>1, <3>2, <3>3, <3>4
  <2> QED BY <2>1, <2>2, <2>3, HolderStep
<1>7. CASE Outage
  <2>1. /\ \A r \in Requests : /\ request'[r].stage = request[r].stage
                               /\ request'[r].conn = "none" <=> request[r].conn = "none"
        /\ \A k \in Keys : locks'[k] = NoRequest
    BY <1>0, <1>7 DEF Outage, RequestType
  <2>2. HasConnection' = HasConnection
    BY <2>1 DEF HasConnection
  <2>3. /\ PoolType' /\ pool'.made = pool.made /\ pool'.good + pool'.broken = pool.good + pool.broken
        /\ (pool.good = 0 /\ pool.broken = 0 => pool'.good = 0 /\ pool'.broken = 0)
    <3>1. /\ pool' = [pool EXCEPT !.good = 0, !.broken = pool.good + pool.broken]
          /\ pool.good \in Nat /\ pool.broken \in Nat /\ pool.made \in Nat
      BY <1>0, <1>7 DEF Outage, PoolType
    <3>2. pool' = [made |-> pool.made, good |-> 0, broken |-> pool.good + pool.broken]
      BY <1>0, <3>1 DEF PoolType
    <3>3. pool'.made = pool.made /\ pool'.good = 0 /\ pool'.broken = pool.good + pool.broken
      BY <3>2
    <3>4. PoolType'
      BY <3>1, <3>2 DEF PoolType
    <3> QED BY <3>1, <3>3, <3>4
  <2>4. Held'
    BY <1>0, <2>1 DEF Held
  <2> QED BY <1>0, <2>2, <2>3, <2>4 DEF PoolInv, Pooled
<1>8. CASE Repair \/ Tick \/ UNCHANGED vars
  <2>1. UNCHANGED <<locks, pool, request>>
    BY <1>8 DEF Repair, Tick, vars
  <2>2. HasConnection' = HasConnection
    BY <2>1 DEF HasConnection
  <2> QED BY <1>0, <2>1, <2>2 DEF PoolInv, PoolType, Pooled, Held
<1> QED BY <1>1, <1>2, <1>3, <1>4, <1>5, <1>6, <1>7, <1>8 DEF Next, Step

\* In one pool, whoever waits for a lock waits for a request that can go on, and there is
\* room in the queue for whatever connection is to be given back.
THEOREM SomebodyAlwaysGoesOn == Spec => []SomebodyGoesOn
<1>1. ASSUME IInv, PoolInv
      PROVE  SomebodyGoesOn
  <2> SUFFICES ASSUME NEW r \in Requests, request[r].stage \in Waiting, pool.made <= 1,
                      \A p \in Requests : ~Ready(p)
               PROVE  FALSE
    BY <1>1 DEF SomebodyGoesOn, PoolInv, PoolType
  <2>1. /\ request[r] \in RequestType /\ request[r].key \in Keys /\ pool.good \in Nat
        /\ pool.broken \in Nat /\ rows \in [Keys -> Nat]
        /\ locks \in [Keys -> Requests \cup {NoRequest}]
    BY <1>1 DEF IInv, Typed, Staged, PoolInv, PoolType, Waiting
  <2>2. ASSUME NEW k \in Keys PROVE locks[k] = NoRequest
    <3> SUFFICES ASSUME locks[k] # NoRequest PROVE FALSE
      OBVIOUS
    <3>1. PICK p \in Requests : locks[k] = p
      BY <2>1
    <3>2. request[p].stage \in Pending /\ request[p].conn = "good" /\ request[p].key = k
      BY <1>1, <3>1 DEF PoolInv, Held
    <3> QED BY <3>1, <3>2 DEF Ready, Query, Pending
  <2>3. CASE request[r].stage \in {"creating", "getting"}
    BY <2>1, <2>3 DEF Ready, TimedOut
  <2>4. CASE request[r].stage = "return"
    <3>1. r \in HasConnection /\ pool.good + pool.broken + Cardinality(HasConnection) <= PoolSize
      BY <1>1, <2>4 DEF PoolInv, Held, Pooled, HasConnection
    <3>2. Cardinality(HasConnection) >= 1
      BY <3>1, Connections, FS_EmptySet
    <3> QED BY <2>1, <2>4, <3>1, <3>2, Connections, RateLimitConstants DEF Ready
  <2>5. CASE request[r].stage \in {"select", "write", "commit", "reply"}
    <3>1. request[r].conn = "good"
      BY <1>1, <2>1, <2>5 DEF PoolInv, Held, Ready, RequestType
    <3> QED BY <2>1, <2>2, <2>5, <3>1 DEF Ready, Query
  <2> QED BY <2>3, <2>4, <2>5 DEF Waiting
<1> QED BY <1>1, InitIInv, NextKeeps, InitPoolInv, PoolNextKeeps, PTL DEF Spec

(* ------------------------------- the lease -------------------------------- *)

\* What a transaction of instance i knows: an expiry never lies further ahead than
\* one Ttl by the clock of i, and never before the one that i goes by.
SessionSound(i) ==
  /\ session[i].began <= clock
  /\ session[i].expires # 0 => session[i].expires <= InstanceTime(i) + Ttl
  /\ session[i].stage \in {"begin", "write", "commit"} =>
       IF session[i].op = "release" THEN holds[i] = 0
       ELSE holds[i] # 0 => holds[i] <= session[i].expires

\* Whoever was told, or is being told, of a lease that is not over has the row.
Backed(i, until) ==
  until # 0 /\ until > clock => lease.owner = i /\ until <= lease.expires

\* What holds of one instance.
Sound(i) ==
  /\ SessionSound(i)
  /\ holds[i] # 0 => holds[i] <= InstanceTime(i) + Ttl
  /\ Backed(i, holds[i])
  /\ session[i].stage = "reply" => Backed(i, session[i].expires)

LeaseInv == LeaseTypeOK /\ \A i \in Instances : Sound(i)

LEMMA InitLeaseInv == LeaseInit => LeaseInv
<1> SUFFICES ASSUME LeaseInit PROVE LeaseInv
  OBVIOUS
<1>1. LeaseTypeOK
  <2>1. NoSession \in Session /\ NoLease \in Lease
    BY DEF NoSession, Session, NoLease, Lease
  <2>2. clock \in Nat /\ lease \in Lease /\ holds \in [Instances -> Int]
        /\ session \in [Instances -> Session]
    BY <2>1 DEF LeaseInit
  <2>3. known \in BOOLEAN
    BY Zenon DEF LeaseInit
  <2> QED BY <2>2, <2>3 DEF LeaseTypeOK
<1>2. ASSUME NEW i \in Instances PROVE Sound(i)
  <2>1. session[i] = NoSession /\ holds[i] = 0 /\ clock = 0
    BY DEF LeaseInit
  <2> QED BY <2>1 DEF Sound, SessionSound, Backed, NoSession
<1> QED BY <1>1, <1>2 DEF LeaseInv

\* A step of instance i that leaves the row alone disturbs nobody else.
LEMMA OthersKeep ==
  ASSUME LeaseInv, NEW i \in Instances, LeaseTypeOK', Sound(i)', UNCHANGED <<clock, lease>>,
         \A j \in Instances \ {i} : session'[j] = session[j] /\ holds'[j] = holds[j]
  PROVE  LeaseInv'
<1>1. ASSUME NEW j \in Instances \ {i} PROVE Sound(j)'
  BY DEF LeaseInv, Sound, SessionSound, Backed, InstanceTime
<1> QED BY <1>1 DEF LeaseInv

\* A call, a transaction that begins or waits, and one that fails leave the row alone.
LEMMA SessionStepsKeep ==
  ASSUME LeaseInv, NEW i \in Instances,
         \/ CallAcquire(i) \/ CallRelease(i) \/ BeginTransaction(i) \/ WriteLease(i)
         \/ LeaseAnswered(i) \/ LeaseFails(i)
  PROVE  LeaseInv'
<1> USE LeaseConstants
<1>1. /\ clock \in Nat /\ Skew[i] \in Int /\ Ttl \in Nat /\ InstanceTime(i) \in Int
      /\ holds[i] \in Int /\ session[i].expires \in Int /\ session[i].began \in Nat
      /\ LeaseTypeOK /\ Sound(i) /\ InstanceTime(i) + Ttl \in Int
  BY DEF LeaseInv, LeaseTypeOK, Session, InstanceTime
<1>2. CASE CallAcquire(i) \/ CallRelease(i)
  <2> DEFINE e == IF CallAcquire(i) THEN InstanceTime(i) + Ttl ELSE 0
             x == Called(IF CallAcquire(i) THEN "acquire" ELSE "release", e)
  <2>1. /\ session' = [session EXCEPT ![i] = x] /\ UNCHANGED <<clock, known, lease>>
        /\ holds' = IF CallAcquire(i) THEN holds ELSE [holds EXCEPT ![i] = 0]
    BY <1>2 DEF CallAcquire, CallRelease
  <2>2. x \in Session /\ e \in Int
    BY <1>1 DEF Session, Called
  <2>3. LeaseTypeOK'
    BY <1>1, <2>1, <2>2 DEF LeaseTypeOK, Session
  <2>4. /\ session'[i].stage = "begin" /\ session'[i].expires = e /\ session'[i].began = 0
        /\ session'[i].op = IF CallAcquire(i) THEN "acquire" ELSE "release"
        /\ holds'[i] = IF CallAcquire(i) THEN holds[i] ELSE 0
    BY <1>1, <2>1 DEF LeaseTypeOK, Session, Called
  <2>5. Sound(i)'
    <3>1. CASE CallAcquire(i)
      BY <1>1, <2>1, <2>4, <3>1 DEF Sound, SessionSound, Backed, InstanceTime
    <3>2. CASE ~CallAcquire(i)
      <4>1. InstanceTime(i)' = InstanceTime(i) /\ clock' = clock /\ lease' = lease
        BY <2>1 DEF InstanceTime
      <4> QED BY <1>1, <2>4, <3>2, <4>1 DEF Sound, SessionSound, Backed
    <3> QED BY <3>1, <3>2
  <2> QED BY <2>1, <2>3, <2>5, OthersKeep DEF LeaseInv, LeaseTypeOK, Session
<1>4. CASE BeginTransaction(i)
  <2>1. /\ session' = [session EXCEPT ![i] = [@ EXCEPT !.stage = "write", !.began = clock]]
        /\ session[i].stage = "begin" /\ UNCHANGED <<clock, known, lease, holds>>
    BY <1>4 DEF BeginTransaction
  <2>2. LeaseTypeOK' /\ session'[i] = [session[i] EXCEPT !.stage = "write", !.began = clock]
    BY <1>1, <2>1 DEF LeaseTypeOK, Session
  <2>3. /\ session'[i].stage = "write" /\ session'[i].began = clock
        /\ session'[i].expires = session[i].expires /\ session'[i].op = session[i].op
    BY <2>2, <1>1 DEF LeaseTypeOK, Session
  <2>4. Sound(i)'
    BY <1>1, <2>1, <2>3 DEF Sound, SessionSound, Backed, InstanceTime
  <2> QED BY <2>1, <2>2, <2>4, OthersKeep DEF LeaseInv, LeaseTypeOK, Session
<1>5. CASE WriteLease(i) \/ LeaseAnswered(i) \/ LeaseFails(i)
  BY <1>5 DEF WriteLease, LeaseAnswered, LeaseFails, LeaseInv, LeaseTypeOK, Session, Sound,
     SessionSound,
     Backed, InstanceTime, NoSession, Lease
<1> QED BY <1>2, <1>4, <1>5

\* The transaction that commits takes the row only from an owner that is its own
\* instance or whose lease was over when the transaction began.
LEMMA CommitLeaseKeeps ==
  ASSUME LeaseInv, NEW i \in Instances, CommitLease(i)
  PROVE  LeaseInv'
<1> USE LeaseConstants
<1>1. Drafted(i) \in Lease
  BY DEF LeaseInv, LeaseTypeOK, Session, Drafted, NoLease, Lease
<1>2. LeaseTypeOK'
  <2> DEFINE e == IF Acquired(i) THEN Drafted(i).expires ELSE 0
             x == [stage |-> "reply", op |-> session[i].op, began |-> 0, expires |-> e]
  <2>1. e \in Int /\ session[i] \in Session
    BY <1>1 DEF Lease, LeaseInv, LeaseTypeOK, Session
  <2>2. x \in Session
    BY <2>1 DEF Session
  <2>3. session' = [session EXCEPT ![i] = x]
    BY DEF CommitLease
  <2> QED BY <1>1, <2>2, <2>3 DEF CommitLease, LeaseInv, LeaseTypeOK, Session
<1>3. /\ UNCHANGED <<clock, holds>> /\ session'[i].stage = "reply" /\ lease' = Drafted(i)
      /\ session'[i].began = 0
      /\ session'[i].expires = IF Acquired(i) THEN Drafted(i).expires ELSE 0
      /\ \A j \in Instances \ {i} : session'[j] = session[j]
  BY DEF CommitLease, LeaseInv, LeaseTypeOK, Session
<1>4. ASSUME NEW j \in Instances \ {i}, NEW until \in Int, Backed(j, until)
      PROVE  Backed(j, until)'
  <2> SUFFICES ASSUME until # 0, until > clock
               PROVE  lease' = lease
    BY <1>3, <1>4 DEF Backed
  <2>1. lease.owner = j /\ until <= lease.expires /\ lease.expires \in Int
    BY <1>4 DEF Backed, LeaseInv, LeaseTypeOK, Session, Lease
  <2>2. session[i].began <= clock /\ session[i].began \in Nat /\ clock \in Nat
    BY DEF LeaseInv, Sound, SessionSound, LeaseTypeOK, Session
  <2>3. ~Expired(i) /\ lease.owner # i /\ lease # NoLease
    BY <2>1, <2>2 DEF Expired, NoLease
  <2> QED BY <1>3, <2>3 DEF Drafted
<1>5. Drafted(i).owner = i =>
        Drafted(i) = [owner |-> i, expires |-> session[i].expires] \/ session[i].op = "release"
  BY DEF Drafted
<1>6. Acquired(i) => Drafted(i).expires = session[i].expires /\ Drafted(i).owner = i
  BY <1>5 DEF Acquired
<1>7. Backed(i, session[i].expires)'
  BY <1>1, <1>3, <1>6 DEF Backed, Lease
<1>8. Backed(i, holds[i])'
  <2>1. CASE session[i].op = "release"
    <3>1. holds[i] = 0
      BY <2>1 DEF LeaseInv, Sound, SessionSound, CommitLease
    <3> QED BY <3>1, <1>3 DEF Backed
  <2>2. CASE session[i].op # "release"
    <3> SUFFICES ASSUME holds[i] # 0, holds[i] > clock
                 PROVE  Drafted(i).owner = i /\ holds[i] <= Drafted(i).expires
      BY <1>3 DEF Backed
    <3>1. lease.owner = i
      BY DEF LeaseInv, Sound, Backed
    <3>2. Drafted(i) = [owner |-> i, expires |-> session[i].expires]
      BY <2>2, <3>1 DEF Drafted
    <3>3. holds[i] <= session[i].expires
      BY <2>2 DEF LeaseInv, Sound, SessionSound, CommitLease
    <3> QED BY <3>2, <3>3
  <2> QED BY <2>1, <2>2
<1>9. SessionSound(i)'
  <2>1. /\ clock \in Nat
        /\ session[i].expires # 0 => session[i].expires <= InstanceTime(i) + Ttl
    BY DEF LeaseInv, Sound, SessionSound, CommitLease, LeaseTypeOK, Session
  <2>2. InstanceTime(i)' = InstanceTime(i)
    BY <1>3 DEF InstanceTime
  <2>3. session'[i].expires # 0 => session'[i].expires = session[i].expires
    BY <1>3, <1>6
  <2>4. (session[i].began <= clock)'
    BY <1>3, <2>1
  <2>5. (session[i].expires # 0 => session[i].expires <= InstanceTime(i) + Ttl)'
    BY <2>1, <2>2, <2>3
  <2> QED BY <1>3, <2>4, <2>5 DEF SessionSound
<1>10. ASSUME NEW j \in Instances \ {i} PROVE Sound(j)'
  BY <1>3, <1>4 DEF Sound, SessionSound, InstanceTime, LeaseInv, LeaseTypeOK, Session
<1>11. Sound(i)'
  BY <1>3, <1>7, <1>8, <1>9 DEF Sound, InstanceTime, LeaseInv
<1> QED BY <1>2, <1>10, <1>11 DEF LeaseInv

LEMMA LeaseNextKeeps == LeaseInv /\ [LeaseNext]_leaseVars => LeaseInv'
<1> SUFFICES ASSUME LeaseInv, [LeaseNext]_leaseVars PROVE LeaseInv'
  OBVIOUS
<1>1. CASE RunStored \/ TimePasses \/ UNCHANGED leaseVars
  <2>0. LeaseTypeOK /\ clock \in Nat
    BY DEF LeaseInv, LeaseTypeOK
  <2>1. /\ UNCHANGED <<lease, session, holds>> /\ clock' \in Nat /\ clock <= clock'
        /\ LeaseTypeOK /\ clock \in Nat
    BY <1>1, <2>0 DEF RunStored, TimePasses, leaseVars
  <2>2. LeaseTypeOK'
    <3>1. known' \in BOOLEAN
      BY <1>1, <2>0, Zenon DEF RunStored, TimePasses, leaseVars, LeaseTypeOK
    <3> QED BY <2>1, <3>1 DEF LeaseTypeOK
  <2>3. ASSUME NEW i \in Instances PROVE Sound(i)'
    <3>1. Sound(i) /\ Skew[i] \in Int /\ Ttl \in Nat /\ session[i] \in Session
          /\ holds[i] \in Int /\ lease \in Lease
      BY <2>1, LeaseConstants DEF LeaseInv, LeaseTypeOK, Session
    <3>2. session[i].expires \in Int /\ session[i].began \in Nat /\ lease.expires \in Int
      BY <3>1 DEF Session, Lease
    <3>3. InstanceTime(i) \in Int /\ InstanceTime(i)' \in Int
          /\ InstanceTime(i) <= InstanceTime(i)'
      BY <2>1, <3>1 DEF InstanceTime
    <3>4. SessionSound(i)' /\ (holds[i] # 0 => holds[i] <= InstanceTime(i) + Ttl)'
      BY <2>1, <3>1, <3>2, <3>3 DEF Sound, SessionSound
    <3>5. Backed(i, holds[i])' /\ (session[i].stage = "reply" => Backed(i, session[i].expires))'
      BY <2>1, <3>1, <3>2 DEF Sound, Backed
    <3> QED BY <3>4, <3>5 DEF Sound
  <2> QED BY <2>2, <2>3 DEF LeaseInv
<1>2. CASE \E i \in Instances : CommitLease(i)
  BY <1>2, CommitLeaseKeeps
<1>3. ASSUME NEW i \in Instances,
             \/ CallAcquire(i) \/ CallRelease(i) \/ BeginTransaction(i) \/ WriteLease(i)
             \/ LeaseAnswered(i) \/ LeaseFails(i)
      PROVE  LeaseInv'
  BY <1>3, SessionStepsKeep
<1> QED BY <1>1, <1>2, <1>3 DEF LeaseNext

\* Of any number of instances, whatever their clocks say as long as they are not
\* behind the server's, the one that goes by a lease is the owner of a valid row.
THEOREM HoldersHaveLeases == LeaseSpec => []HolderHasLease
<1>1. LeaseInv => HolderHasLease
  BY LeaseConstants DEF LeaseInv, Sound, HolderHasLease, Believes, HasLeases, Backed, InstanceTime,
     LeaseTypeOK, Session, Lease
<1> QED BY <1>1, InitLeaseInv, LeaseNextKeeps, PTL DEF LeaseSpec

(* -------------------------------- the schema ------------------------------ *)

\* What the contract asks of the two tables that are upserted.
LEMMA ContractOfUpserted ==
  /\ {"run_leases", "rate_limit_buckets"} \subseteq DOMAIN Contract
  /\ \A u \in Upserts :
       /\ u.table \in {"run_leases", "rate_limit_buckets"}
       /\ u.written \subseteq DOMAIN Contract[u.table].columns
       /\ Range(Contract[u.table].key) = u.conflict
       /\ \A c \in u.written : Contract[u.table].columns[c].dims = 0
                               /\ ~Contract[u.table].columns[c].nullable
<1>1. /\ {"run_leases", "rate_limit_buckets"} \subseteq DOMAIN Contract
      /\ Contract["run_leases"].key = <<"run_id">>
      /\ Contract["rate_limit_buckets"].key = <<"key", "window_start">>
  BY DEF Contract, TableSpec
<1>2. /\ DOMAIN Contract["run_leases"].columns = {"run_id", "owner_id", "epoch", "expires_at"}
      /\ DOMAIN Contract["rate_limit_buckets"].columns
           = {"key", "window_start", "hits", "window_seconds"}
  BY DEF Contract, TableSpec
<1>3. /\ \A c \in DOMAIN Contract["run_leases"].columns :
           Contract["run_leases"].columns[c] \in {Text, Int64, Time}
      /\ \A c \in DOMAIN Contract["rate_limit_buckets"].columns :
           Contract["rate_limit_buckets"].columns[c] \in {Text, Int32, Time}
  BY DEF Contract, TableSpec
<1>4. \A column \in {Text, Int32, Int64, Time} : column.dims = 0 /\ ~column.nullable
  BY DEF Text, Int32, Int64, Time, Expected
<1>5. Range(<<"run_id">>) = {"run_id"} /\ Range(<<"key", "window_start">>) = {"key", "window_start"}
  BY DEF Range
<1>6. ASSUME NEW u \in Upserts
      PROVE  \/ /\ u.table = "run_leases" /\ u.conflict = {"run_id"}
                /\ u.written = {"run_id", "owner_id", "expires_at"}
             \/ /\ u.table = "rate_limit_buckets" /\ u.conflict = {"key", "window_start"}
                /\ u.written = {"key", "window_start", "hits", "window_seconds"}
  BY DEF Upserts
<1>7. ASSUME NEW u \in Upserts, NEW c \in u.written
      PROVE  Contract[u.table].columns[c].dims = 0 /\ ~Contract[u.table].columns[c].nullable
  <2>1. CASE u.table = "run_leases"
    <3>1. c \in DOMAIN Contract["run_leases"].columns
      BY <1>2, <1>6, <2>1
    <3>2. Contract["run_leases"].columns[c] \in {Text, Int32, Int64, Time}
      BY <1>3, <3>1
    <3> QED BY <1>4, <2>1, <3>2
  <2>2. CASE u.table = "rate_limit_buckets"
    <3>1. c \in DOMAIN Contract["rate_limit_buckets"].columns
      BY <1>2, <1>6, <2>2
    <3>2. Contract["rate_limit_buckets"].columns[c] \in {Text, Int32, Int64, Time}
      BY <1>3, <3>1
    <3> QED BY <1>4, <2>2, <3>2
  <2> QED BY <1>6, <2>1, <2>2
<1>8. ASSUME NEW u \in Upserts
      PROVE  /\ u.table \in {"run_leases", "rate_limit_buckets"}
             /\ u.written \subseteq DOMAIN Contract[u.table].columns
             /\ Range(Contract[u.table].key) = u.conflict
  <2>1. CASE u.table = "run_leases"
    BY <1>1, <1>2, <1>5, <1>6, <2>1
  <2>2. CASE u.table = "rate_limit_buckets"
    BY <1>1, <1>2, <1>5, <1>6, <2>2
  <2> QED BY <1>6, <2>1, <2>2
<1> QED BY <1>1, <1>7, <1>8

LEMMA PassingServes ==
  ASSUME Report(db) = {}
  PROVE  \A u \in Upserts :
           u.table \in DOMAIN db /\ Arbitrated(db[u.table], u) /\ Holds(db[u.table], u)
<1> SUFFICES ASSUME NEW u \in Upserts
             PROVE  u.table \in DOMAIN db /\ Arbitrated(db[u.table], u) /\ Holds(db[u.table], u)
  OBVIOUS
<1> DEFINE spec == Contract[u.table]
           table == db[u.table]
<1>1. u.table \in DOMAIN Contract
  BY ContractOfUpserted
<1>2. u.table \in DOMAIN db /\ Deviations(table, spec) = {}
  <2> DEFINE found(t) == IF t \in DOMAIN db THEN Deviations(db[t], Contract[t])
                         ELSE {<<"missing_table", t>>}
  <2>1. found(u.table) = {}
    <3> SUFFICES ASSUME NEW x \in found(u.table) PROVE FALSE
      OBVIOUS
    <3>1. x \in UNION {found(t) : t \in DOMAIN Contract}
      BY <1>1
    <3> QED BY <3>1, Zenon DEF Report
  <2> QED BY <2>1
<1> HIDE DEF spec, table
<1>3. DOMAIN spec.columns \subseteq DOMAIN table.columns
  BY <1>2 DEF Deviations, ColumnDeviations
<1>4. \A c \in DOMAIN spec.columns : spec.columns[c].dims = table.columns[c].dims
         /\ spec.columns[c].nullable = table.columns[c].nullable
  BY <1>2, <1>3 DEF Deviations, ColumnDeviations, TypeMatches
<1>5. table.key = spec.key
  BY <1>2 DEF Deviations, KeyDeviates
<1>6. \A k \in DOMAIN table.checks : ~TimeDependent(table.checks[k])
  BY <1>2 DEF Deviations
<1> QED BY <1>2, <1>3, <1>4, <1>5, <1>6, ContractOfUpserted DEF spec, table, Arbitrated, Holds

THEOREM ValidTablesServe == SchemaSpec => []ValidServes
<1>1. ValidServes
  BY PassingServes DEF ValidServes
<1> QED BY <1>1, PTL

===============================================================================
