----------------------------- MODULE GitHubClient -----------------------------
(* The GitHub boundary: GitHubClient._req and _attempt                        *)
(* (opsswarm/github_client.py) with the circuit breaker they share            *)
(* (opsswarm/resilience.py).  The breaker's methods hold an asyncio lock but  *)
(* await nothing under it, so each is one atomic step of the event loop.  A   *)
(* call waits for the answer ("sent") or sleeps before a retry ("backoff").   *)
EXTENDS Naturals, FiniteSets

CONSTANTS
  Calls,             \* coroutines that use the client
  Writes,            \* (METHOD, path) of the side-effecting requests
  Read,              \* a GET or HEAD
  FailureThreshold, MaxAttempts, HalfOpenMaxCalls

ASSUME ClientConstants ==
  /\ Read \notin Writes /\ IsFiniteSet(Calls)
  /\ FailureThreshold \in Nat \ {0} /\ MaxAttempts \in Nat \ {0}
  /\ HalfOpenMaxCalls \in Nat \ {0}

VARIABLES
  state, failures,   \* the circuit and its consecutive failures
  cooled,            \* recovery_timeout has passed since it opened
  halfOpenCalls,     \* probe slots taken
  barrier,           \* _unreconciled_writes
  unknown,           \* history: writes whose answer was lost, not acknowledged
  call
vars == <<state, failures, cooled, halfOpenCalls, barrier, unknown, call>>
circuit == <<state, failures, cooled, halfOpenCalls>>

Call == [pc: {"idle", "sent", "backoff"}, key: Writes \cup {Read}, probe: BOOLEAN,
         attempt: 0..MaxAttempts]
IdleCall == [pc |-> "idle", key |-> Read, probe |-> FALSE, attempt |-> 0]

TypeOK ==
  /\ state \in {"CLOSED", "OPEN", "HALF_OPEN"}
  /\ failures \in 0..FailureThreshold   \* counted up to the threshold
  /\ cooled \in BOOLEAN /\ halfOpenCalls \in 0..HalfOpenMaxCalls
  /\ barrier \subseteq Writes /\ unknown \subseteq Writes
  /\ call \in [Calls -> Call]

Init ==
  /\ state = "CLOSED" /\ failures = 0 /\ cooled = FALSE /\ halfOpenCalls = 0
  /\ barrier = {} /\ unknown = {} /\ call = [c \in Calls |-> IdleCall]

(* ------------------------------ circuit breaker --------------------------- *)

\* acquire: an open circuit whose time has come turns half-open first.
HalfOpen == state = "HALF_OPEN" \/ (state = "OPEN" /\ cooled)
SlotsTaken == IF state = "HALF_OPEN" THEN halfOpenCalls ELSE 0
Admissible == state = "CLOSED" \/ (HalfOpen /\ SlotsTaken < HalfOpenMaxCalls)

Acquire ==
  /\ Admissible
  /\ IF HalfOpen
     THEN state' = "HALF_OPEN" /\ halfOpenCalls' = SlotsTaken + 1
     ELSE UNCHANGED <<state, halfOpenCalls>>
  /\ UNCHANGED <<failures, cooled>>

RecordSuccess ==
  /\ failures' = 0 /\ state' = "CLOSED" /\ cooled' = FALSE
  /\ halfOpenCalls' = IF state = "CLOSED" THEN halfOpenCalls ELSE 0

CountFailure(n) == IF n < FailureThreshold THEN n + 1 ELSE n

RecordFailure ==
  /\ failures' = CountFailure(failures)
  /\ \/ /\ state = "HALF_OPEN"
        /\ state' = "OPEN" /\ cooled' = FALSE /\ halfOpenCalls' = 0
     \/ /\ state = "CLOSED" /\ failures' >= FailureThreshold
        /\ state' = "OPEN" /\ cooled' = FALSE /\ UNCHANGED halfOpenCalls
     \/ /\ state = "OPEN" \/ (state = "CLOSED" /\ failures' < FailureThreshold)
        /\ UNCHANGED <<state, cooled, halfOpenCalls>>

\* A form named ...Bug is what a check must notice: no test for a slot to give
\* back, and a slot never given back.
ReleasedBug(s, probe, slots) == IF probe /\ s = "HALF_OPEN" THEN slots - 1 ELSE slots
ReleasedBug2(s, probe, slots) == slots
\* release_probe, after the verdict of this step: the slots left taken.
Released(s, probe, slots) ==
  IF probe /\ s = "HALF_OPEN" /\ slots > 0 THEN slots - 1 ELSE slots

Cool ==
  /\ state = "OPEN" /\ ~cooled /\ cooled' = TRUE
  /\ UNCHANGED <<state, failures, halfOpenCalls, barrier, unknown, call>>

(* --------------------------------- requests ------------------------------- *)

BarredBug(k) == FALSE
Barred(k) == k \in barrier

\* _req: a write of unknown outcome is refused, an open circuit fails fast.
Request(c, k) ==
  /\ call[c].pc = "idle" /\ ~Barred(k) /\ Acquire
  /\ call' = [call EXCEPT ![c] = [pc |-> "sent", key |-> k, probe |-> HalfOpen,
                                  attempt |-> 1]]
  /\ UNCHANGED <<barrier, unknown>>

MayRetry(c) == call[c].key = Read /\ call[c].attempt < MaxAttempts
Sleeping(c) == call' = [call EXCEPT ![c].pc = "backoff"]
Ended(c) == call' = [call EXCEPT ![c] = IdleCall]

\* 2xx: the dependency is reachable, a malformed body raises afterwards.
Success(c) ==
  /\ call[c].pc = "sent" /\ RecordSuccess /\ Ended(c)
  /\ UNCHANGED <<barrier, unknown>>

\* The finally of _req for a call that brought no verdict.
EndWithoutVerdict(c) ==
  /\ Ended(c) /\ halfOpenCalls' = Released(state, call[c].probe, halfOpenCalls)
  /\ UNCHANGED <<state, failures, cooled, barrier>>

\* 4xx, a redirect or an unexpected exception: terminal, of known outcome.
Denied(c) == call[c].pc = "sent" /\ EndWithoutVerdict(c) /\ UNCHANGED unknown

\* 429, or 403 with the evidence: retryable, no failure of the dependency.
Throttled(c) ==
  /\ call[c].pc = "sent"
  /\ \/ MayRetry(c) /\ Sleeping(c) /\ UNCHANGED <<circuit, barrier>>
     \/ ~MayRetry(c) /\ EndWithoutVerdict(c)
  /\ UNCHANGED unknown

\* 5xx, or a connection that was never made: the write was not applied.
Unavailable(c) ==
  /\ call[c].pc = "sent" /\ RecordFailure
  /\ \/ MayRetry(c) /\ Sleeping(c)
     \/ ~MayRetry(c) /\ Ended(c)
  /\ UNCHANGED <<barrier, unknown>>

\* The answer is lost after the request may have been delivered.
Lost(c) ==
  /\ call[c].pc = "sent" /\ call[c].key \in Writes
  /\ RecordFailure /\ Ended(c)
  /\ barrier' = barrier \cup {call[c].key}
  /\ unknown' = unknown \cup {call[c].key}

\* A retry goes out without asking the circuit again.
Retry(c) ==
  /\ call[c].pc = "backoff"
  /\ call' = [call EXCEPT ![c].pc = "sent", ![c].attempt = @ + 1]
  /\ UNCHANGED <<circuit, barrier, unknown>>

\* The task is cancelled while it waits or sleeps: no except clause sees it, and
\* a write that was sent leaves no barrier.
Cancel(c) ==
  /\ call[c].pc \in {"sent", "backoff"}
  /\ EndWithoutVerdict(c) /\ UNCHANGED unknown

AcknowledgeAmbiguousWrite(k) ==
  /\ k \in barrier
  /\ barrier' = barrier \ {k} /\ unknown' = unknown \ {k}
  /\ UNCHANGED <<circuit, call>>

Answer(c) == Success(c) \/ Denied(c) \/ Throttled(c) \/ Unavailable(c) \/ Lost(c)

Next ==
  \/ Cool
  \/ \E c \in Calls :
       \/ \E k \in Writes \cup {Read} : Request(c, k)
       \/ Answer(c) \/ Retry(c) \/ Cancel(c)
  \/ \E k \in Writes : AcknowledgeAmbiguousWrite(k)

Spec == Init /\ [][Next]_vars

\* Every request has a timeout, every sleep ends, and time passes.
Fairness ==
  /\ WF_vars(Cool)
  /\ \A c \in Calls : WF_vars(Answer(c) \/ Retry(c) \/ Cancel(c))

(* -------------------------------- properties ------------------------------ *)

\* The calls that were admitted as probes and are under way.
Probes == {c \in Calls : call[c].probe}

\* Every probe slot that is taken is held by a call still under way, whatever
\* answers, cancellations and late failures of older calls come between: a
\* healthy dependency is not wedged in HALF_OPEN by a slot nobody gives back.
SlotsHaveHolders == state = "HALF_OPEN" => halfOpenCalls <= Cardinality(Probes)

\* A write whose answer was lost is not sent again, by any call, before its
\* outcome is acknowledged: the requests already under way that end later, their
\* cancellations among them, take nothing from the barrier.
NoReplayOfUnknown ==
  [][\A c \in Calls : call[c].pc # "sent" /\ call'[c].pc = "sent" =>
       call'[c].key \notin unknown]_vars

\* However the calls end, a new call is admitted again and again: fail-fast
\* never becomes permanent.
AdmissibleAgain == []<>Admissible

===============================================================================
