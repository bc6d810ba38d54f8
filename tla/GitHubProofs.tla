----------------------------- MODULE GitHubProofs ------------------------------
(* The GitHub boundary: type correctness, the owners of the probe slots and    *)
(* the barrier on writes of unknown outcome, for any number of calls, writes,  *)
(* retries and slots.  The slots are counted, so the invariant says which      *)
(* calls hold one; the barrier is ahead of the history it must cover.  And the *)
(* poll of check runs succeeds only when it may, for any pages: as long as no  *)
(* run was created since the first page, what was heard is a prefix.           *)
EXTENDS GitHubClient, CheckPoll, FiniteSetTheorems, SequenceTheorems, TLAPS

\* A call that is over holds no slot; one that sleeps reads and has an attempt left.
Framed ==
  \A c \in Calls :
    /\ call[c].pc = "idle" => ~call[c].probe
    /\ call[c].pc = "backoff" => call[c].key = Read /\ call[c].attempt < MaxAttempts

IInv == TypeOK /\ Framed /\ SlotsHaveHolders /\ unknown \subseteq barrier

-------------------------------------------------------------------------------

OthersSame(c) == \A d \in Calls \ {c} : call'[d] = call[d]

\* What the record of a call becomes when it ends, sleeps or goes out again.
LEMMA Ends ==
  ASSUME IInv, NEW c \in Calls, Ended(c)
  PROVE  call' \in [Calls -> Call] /\ call'[c] = IdleCall /\ OthersSame(c) /\ Framed'
<1>1. IdleCall \in Call /\ IdleCall.pc = "idle" /\ ~IdleCall.probe
  BY ClientConstants DEF IdleCall, Call
<1>2. call' \in [Calls -> Call] /\ call'[c] = IdleCall /\ OthersSame(c)
  BY <1>1 DEF IInv, TypeOK, Ended, OthersSame
<1> QED BY <1>1, <1>2 DEF IInv, Framed, OthersSame

LEMMA Sleeps ==
  ASSUME IInv, NEW c \in Calls, Sleeping(c)
  PROVE  /\ call' \in [Calls -> Call] /\ OthersSame(c) /\ call'[c].pc = "backoff"
         /\ call'[c].key = call[c].key /\ call'[c].attempt = call[c].attempt
         /\ call'[c].probe = call[c].probe
<1>1. call[c] \in Call
  BY DEF IInv, TypeOK
<1>2. call'[c] = [call[c] EXCEPT !.pc = "backoff"] /\ OthersSame(c)
  BY DEF IInv, TypeOK, Sleeping, OthersSame
<1>3. [call[c] EXCEPT !.pc = "backoff"] \in Call
  BY <1>1 DEF Call
<1>4. call' \in [Calls -> Call]
  BY <1>3 DEF IInv, TypeOK, Sleeping
<1> QED BY <1>1, <1>2, <1>4 DEF Call

LEMMA Retries ==
  ASSUME IInv, NEW c \in Calls, Retry(c)
  PROVE  /\ call' \in [Calls -> Call] /\ OthersSame(c) /\ call'[c].pc = "sent"
         /\ call'[c].key = Read /\ call'[c].probe = call[c].probe
<1>1. call[c] \in Call /\ call[c].key = Read /\ call[c].attempt < MaxAttempts
  BY DEF IInv, TypeOK, Framed, Retry
<1>0. MaxAttempts \in Nat
  BY ClientConstants
<1> DEFINE sent == [call[c] EXCEPT !.pc = "sent", !.attempt = call[c].attempt + 1]
<1>2. call' = [call EXCEPT ![c] = sent]
  BY DEF IInv, TypeOK, Retry
<1>3. sent \in Call /\ sent.pc = "sent" /\ sent.key = Read /\ sent.probe = call[c].probe
  <2>1. call[c].attempt + 1 \in 0..MaxAttempts
    BY <1>0, <1>1 DEF Call
  <2> QED BY <1>1, <2>1 DEF Call
<1> QED BY <1>2, <1>3 DEF IInv, TypeOK, OthersSame

LEMMA Sends ==
  ASSUME IInv, NEW c \in Calls, NEW k \in Writes \cup {Read}, Request(c, k)
  PROVE  /\ call' \in [Calls -> Call] /\ OthersSame(c) /\ call'[c].pc = "sent"
         /\ call'[c].key = k /\ call'[c].probe = HalfOpen
<1> DEFINE sent == [pc |-> "sent", key |-> k, probe |-> HalfOpen, attempt |-> 1]
<1>1. HalfOpen \in BOOLEAN
  BY DEF HalfOpen, IInv, TypeOK
<1>2. sent \in Call
  BY <1>1, ClientConstants DEF Call
<1> QED BY <1>2 DEF IInv, TypeOK, Request, OthersSame

LEMMA ProbesFinite == IsFiniteSet(Probes) /\ Cardinality(Probes) \in Nat
<1>1. IsFiniteSet(Probes)
  BY FS_Subset, ClientConstants DEF Probes
<1> QED BY <1>1, FS_CardinalityType

\* A call that ends takes at most its own probe away.
LEMMA EndedProbes ==
  ASSUME IInv, NEW c \in Calls, Ended(c)
  PROVE  Cardinality(Probes') =
           IF call[c].probe THEN Cardinality(Probes) - 1 ELSE Cardinality(Probes)
<1>1. Probes' = Probes \ {c}
  BY Ends DEF OthersSame, Probes, IdleCall
<1>2. c \in Probes <=> call[c].probe
  BY DEF Probes
<1> QED BY <1>1, <1>2, ProbesFinite, FS_RemoveElement

\* A call that is sent adds its probe, if it is one.
LEMMA SentProbes ==
  ASSUME IInv, NEW c \in Calls, NEW k \in Writes \cup {Read}, Request(c, k)
  PROVE  Cardinality(Probes') =
           IF HalfOpen THEN Cardinality(Probes) + 1 ELSE Cardinality(Probes)
<1>1. c \notin Probes
  BY DEF IInv, Framed, Request, Probes
<1>2. CASE HalfOpen
  <2>1. Probes' = Probes \cup {c}
    BY <1>2, Sends DEF OthersSame, Probes
  <2> QED BY <1>1, <1>2, <2>1, ProbesFinite, FS_AddElement
<1>3. CASE ~HalfOpen
  <2>1. Probes' = Probes
    BY <1>1, <1>3, Sends DEF OthersSame, Probes
  <2> QED BY <1>3, <2>1
<1> QED BY <1>2, <1>3

\* A call that sleeps or goes out again keeps its probe.
LEMMA SameProbes ==
  ASSUME IInv, NEW c \in Calls, Sleeping(c) \/ Retry(c)
  PROVE  Probes' = Probes
  BY Sleeps, Retries DEF OthersSame, Probes

LEMMA InitIInv == Init => IInv
<1> SUFFICES ASSUME Init PROVE IInv
  OBVIOUS
<1>1. IdleCall \in Call /\ IdleCall.pc = "idle" /\ ~IdleCall.probe
  BY ClientConstants DEF IdleCall, Call
<1>2. failures \in 0..FailureThreshold /\ halfOpenCalls \in 0..HalfOpenMaxCalls
  BY ClientConstants DEF Init
<1>3. cooled \in BOOLEAN
  BY Zenon DEF Init
<1>4. TypeOK
  BY <1>1, <1>2, <1>3 DEF Init, TypeOK
<1> QED BY <1>1, <1>4 DEF IInv, Init, Framed, SlotsHaveHolders

-------------------------------------------------------------------------------

LEMMA RequestKeeps ==
  ASSUME IInv, NEW c \in Calls, NEW k \in Writes \cup {Read}, Request(c, k)
  PROVE  IInv'
<1>1. TypeOK'
  <2>1. halfOpenCalls' \in 0..HalfOpenMaxCalls
    BY ClientConstants DEF IInv, TypeOK, Request, Acquire, Admissible, SlotsTaken, HalfOpen
  <2>2. state' \in {"CLOSED", "OPEN", "HALF_OPEN"}
    BY DEF IInv, TypeOK, Request, Acquire
  <2> QED BY <2>1, <2>2, Sends DEF IInv, TypeOK, Request, Acquire
<1>2. Framed'
  BY Sends DEF IInv, Framed, OthersSame
<1>3. SlotsHaveHolders'
  <2>1. state' = "HALF_OPEN" => HalfOpen /\ halfOpenCalls' = SlotsTaken + 1
    BY DEF Request, Acquire, HalfOpen
  <2>2. SlotsTaken <= Cardinality(Probes) /\ SlotsTaken \in Nat
    BY ProbesFinite DEF IInv, TypeOK, SlotsHaveHolders, SlotsTaken
  <2> QED BY <2>1, <2>2, SentProbes, ProbesFinite DEF SlotsHaveHolders
<1> QED BY <1>1, <1>2, <1>3 DEF IInv, Request

LEMMA EndWithoutVerdictKeeps ==
  ASSUME IInv, NEW c \in Calls, EndWithoutVerdict(c), UNCHANGED unknown
  PROVE  IInv'
<1>0. halfOpenCalls \in 0..HalfOpenMaxCalls /\ HalfOpenMaxCalls \in Nat
  BY ClientConstants DEF IInv, TypeOK
<1>1. TypeOK'
  <2>1. halfOpenCalls' \in 0..HalfOpenMaxCalls
    BY <1>0 DEF EndWithoutVerdict, Released
  <2> QED BY <2>1, Ends DEF IInv, TypeOK, EndWithoutVerdict
<1>2. SlotsHaveHolders'
  <2>1. Cardinality(Probes') =
          IF call[c].probe THEN Cardinality(Probes) - 1 ELSE Cardinality(Probes)
    BY EndedProbes DEF EndWithoutVerdict
  <2>2. call[c].probe => Cardinality(Probes) # 0
    BY ProbesFinite, FS_EmptySet DEF Probes
  <2>3. state' = "HALF_OPEN" => halfOpenCalls <= Cardinality(Probes) /\ state = "HALF_OPEN"
    BY DEF IInv, SlotsHaveHolders, EndWithoutVerdict
  <2> QED BY <1>0, <2>1, <2>2, <2>3, ProbesFinite
          DEF SlotsHaveHolders, EndWithoutVerdict, Released
<1> QED BY <1>1, <1>2, Ends DEF IInv, EndWithoutVerdict

\* After a verdict the circuit is not half-open, so it has no slots to account for.
LEMMA VerdictKeeps ==
  ASSUME IInv, RecordSuccess \/ RecordFailure
  PROVE  /\ state' \in {"CLOSED", "OPEN"} /\ failures' \in 0..FailureThreshold
         /\ cooled' \in BOOLEAN /\ halfOpenCalls' \in 0..HalfOpenMaxCalls
         /\ SlotsHaveHolders'
<1>0. FailureThreshold \in Nat /\ HalfOpenMaxCalls \in Nat /\ failures \in 0..FailureThreshold
      /\ halfOpenCalls \in 0..HalfOpenMaxCalls /\ cooled \in BOOLEAN
      /\ state \in {"CLOSED", "OPEN", "HALF_OPEN"}
  BY ClientConstants DEF IInv, TypeOK
<1>1. CASE RecordSuccess
  <2>1. cooled' \in BOOLEAN
    BY <1>1, Zenon DEF RecordSuccess
  <2>2. failures' \in 0..FailureThreshold /\ halfOpenCalls' \in 0..HalfOpenMaxCalls
    BY <1>0, <1>1 DEF RecordSuccess
  <2> QED BY <1>1, <2>1, <2>2 DEF RecordSuccess, SlotsHaveHolders
<1>2. CASE RecordFailure
  <2>1. failures' \in 0..FailureThreshold
    BY <1>0, <1>2 DEF RecordFailure, CountFailure
  <2>2. state' \in {"CLOSED", "OPEN"} /\ halfOpenCalls' \in 0..HalfOpenMaxCalls
    BY <1>0, <1>2 DEF RecordFailure
  <2>3. cooled' \in BOOLEAN
    BY <1>0, <1>2, Zenon DEF RecordFailure
  <2> QED BY <2>1, <2>2, <2>3 DEF SlotsHaveHolders
<1> QED BY <1>1, <1>2

\* Only a read sleeps, and only with an attempt left.
LEMMA SleepsFramed ==
  ASSUME IInv, NEW c \in Calls, MayRetry(c), Sleeping(c)
  PROVE  Framed'
  BY Sleeps DEF IInv, Framed, MayRetry, OthersSame

LEMMA AnswerKeeps ==
  ASSUME IInv, NEW c \in Calls, Answer(c)
  PROVE  IInv'
<1>1. CASE Success(c)
  BY <1>1, VerdictKeeps, Ends DEF IInv, TypeOK, Success
<1>2. CASE Denied(c)
  BY <1>2, EndWithoutVerdictKeeps DEF Denied
<1>3. CASE Throttled(c)
  <2>1. CASE ~MayRetry(c)
    BY <1>3, <2>1, EndWithoutVerdictKeeps DEF Throttled
  <2>2. CASE MayRetry(c)
    <3>1. Sleeping(c) /\ UNCHANGED <<circuit, barrier, unknown>>
      BY <1>3, <2>2 DEF Throttled
    <3>2. SlotsHaveHolders'
      BY <3>1, SameProbes DEF IInv, SlotsHaveHolders, circuit
    <3> QED BY <3>1, <3>2, <2>2, Sleeps, SleepsFramed DEF IInv, TypeOK, circuit
  <2> QED BY <2>1, <2>2
<1>4. CASE Unavailable(c)
  BY <1>4, VerdictKeeps, Ends, Sleeps, SleepsFramed DEF IInv, TypeOK, Unavailable
<1>5. CASE Lost(c)
  BY <1>5, VerdictKeeps, Ends DEF IInv, TypeOK, Lost
<1> QED BY <1>1, <1>2, <1>3, <1>4, <1>5 DEF Answer

LEMMA RetryKeeps ==
  ASSUME IInv, NEW c \in Calls, Retry(c)
  PROVE  IInv'
<1>1. Framed'
  BY Retries DEF IInv, Framed, OthersSame
<1>2. SlotsHaveHolders'
  BY SameProbes DEF IInv, SlotsHaveHolders, Retry, circuit
<1> QED BY <1>1, <1>2, Retries DEF IInv, TypeOK, Retry, circuit

LEMMA NextKeeps ==
  ASSUME IInv, [Next]_vars
  PROVE  IInv'
<1>1. CASE UNCHANGED vars
  BY <1>1 DEF vars, IInv, TypeOK, Framed, SlotsHaveHolders, Probes
<1>2. CASE Cool
  BY <1>2 DEF Cool, IInv, TypeOK, Framed, SlotsHaveHolders, Probes
<1>3. ASSUME NEW k \in Writes, AcknowledgeAmbiguousWrite(k)
      PROVE  IInv'
  BY <1>3
     DEF AcknowledgeAmbiguousWrite, circuit, IInv, TypeOK, Framed, SlotsHaveHolders, Probes
<1>4. ASSUME NEW c \in Calls, Cancel(c)
      PROVE  IInv'
  BY <1>4, EndWithoutVerdictKeeps DEF Cancel
<1> QED BY <1>1, <1>2, <1>3, <1>4, RequestKeeps, AnswerKeeps, RetryKeeps DEF Next

THEOREM Invariant == Spec => []IInv
<1>1. Init => IInv
  BY InitIInv
<1>2. IInv /\ [Next]_vars => IInv'
  BY NextKeeps
<1> QED BY <1>1, <1>2, PTL DEF Spec

\* Every variable of the client has its type: counters stay in their bounds.
THEOREM TypeCorrect == Spec => []TypeOK
<1>1. IInv => TypeOK
  BY DEF IInv
<1> QED BY <1>1, Invariant, PTL

\* A probe slot is held by a call under way (acquire, release_probe).
THEOREM SlotsAreHeld == Spec => []SlotsHaveHolders
<1>1. IInv => SlotsHaveHolders
  BY DEF IInv
<1> QED BY <1>1, Invariant, PTL

\* A write whose answer was lost is not sent again before it is acknowledged
\* (_req, _attempt, acknowledge_ambiguous_write).
THEOREM UnknownIsNotReplayed == Spec => NoReplayOfUnknown
<1> DEFINE Unreplayed == \A c \in Calls : call[c].pc # "sent" /\ call'[c].pc = "sent" =>
                           call'[c].key \notin unknown
<1>1. ASSUME IInv, Next
      PROVE  Unreplayed
  <2> SUFFICES ASSUME NEW c \in Calls, call[c].pc # "sent", call'[c].pc = "sent"
               PROVE  call'[c].key \notin unknown
    OBVIOUS
  <2>1. ASSUME NEW d \in Calls, NEW k \in Writes \cup {Read}, Request(d, k)
        PROVE  call'[c].key \notin unknown
    <3>1. c = d /\ call'[c].key = k
      BY <1>1, <2>1, Sends DEF OthersSame
    <3> QED BY <1>1, <2>1, <3>1 DEF Request, Barred, IInv
  <2>2. ASSUME NEW d \in Calls, Retry(d)
        PROVE  call'[c].key \notin unknown
    <3>1. c = d /\ call'[c].key = Read
      BY <1>1, <2>2, Retries DEF OthersSame
    <3> QED BY <1>1, <3>1, ClientConstants DEF IInv, TypeOK
  <2>3. ASSUME NEW d \in Calls, Answer(d) \/ Cancel(d)
        PROVE  FALSE
    <3>1. Ended(d) \/ Sleeping(d)
      BY <2>3 DEF Answer, Cancel, Success, Denied, Throttled, Unavailable, Lost, EndWithoutVerdict
    <3> QED BY <1>1, <3>1, Ends, Sleeps DEF OthersSame, IdleCall
  <2>4. Next => \/ call' = call
                \/ \E d \in Calls : \/ \E k \in Writes \cup {Read} : Request(d, k)
                                    \/ Answer(d) \/ Retry(d) \/ Cancel(d)
    BY DEF Next, Cool, AcknowledgeAmbiguousWrite
  <2> QED BY <1>1, <2>1, <2>2, <2>3, <2>4
<1>2. IInv /\ [Next]_vars => [Unreplayed]_vars
  BY <1>1
<1> QED BY <1>2, Invariant, PTL DEF Spec, NoReplayOfUnknown

(* ------------------------- the poll of check runs ------------------------- *)

CheckRun == [name : Names, conclusion : Conclusions \cup {"none"}]
Position == [try : Nat, page : Nat \ {0}, total : Nat \cup {-1}, heard : Seq(CheckRun)]

\* What was heard is a prefix of what is there, but for runs that concluded since.
Agrees(heard, runs) ==
  /\ Len(heard) <= Len(runs)
  /\ \A i \in 1..Len(heard) : /\ heard[i].name = runs[i].name
                              /\ heard[i].conclusion \in {"none", runs[i].conclusion}

\* The pages that were read follow each other, and as long as no run was created since
\* the first of them they are a prefix of the list.
Following(at) ==
  /\ Len(at.heard) = (at.page - 1) * PageSize
  /\ IF at.total = -1 THEN at.page = 1
     ELSE /\ Len(at.heard) <= at.total /\ at.total <= Len(checkRuns)
          /\ at.total = Len(checkRuns) => Agrees(at.heard, checkRuns)

PollInv ==
  /\ checkRuns \in Seq(CheckRun) /\ exit \in {0, 1, 2}
  /\ poll \in [stage : {"reading", "asleep"}, polls : Nat, at : Position]
  /\ exit = 2 => Following(poll.at)
  /\ ZeroIsEarned

LEMMA PageIs ==
  ASSUME NEW runs \in Seq(CheckRun), checkRuns = runs, NEW n \in Nat \ {0}, NEW b \in Nat,
         b = (n - 1) * PageSize, b <= Len(runs)
  PROVE  /\ Page(n) \in Seq(CheckRun) /\ n * PageSize = b + PageSize
         /\ Len(Page(n)) = IF n * PageSize < Len(runs) THEN PageSize ELSE Len(runs) - b
         /\ \A i \in 1..Len(Page(n)) : Page(n)[i] = runs[b + i]
<1>1. n * PageSize = b + PageSize /\ PageSize \in Nat \ {0}
  BY PollConstants
<1>2. PICK last \in Nat : last = IF n * PageSize < Len(runs) THEN n * PageSize ELSE Len(runs)
  BY <1>1
<1>3. Page(n) = SubSeq(runs, b + 1, last) /\ last <= Len(runs) /\ b <= last
  BY <1>1, <1>2 DEF Page
<1>4. /\ Page(n) \in Seq(CheckRun) /\ Len(Page(n)) = last - b
      /\ \A i \in 1..(last - b) : Page(n)[i] = runs[b + i]
  <2>1. PICK first \in Int : first = b + 1
    OBVIOUS
  <2>2. \A i \in first..last : runs[i] \in CheckRun
    BY <1>3, <2>1
  <2>3. /\ SubSeq(runs, first, last) \in Seq(CheckRun)
        /\ Len(SubSeq(runs, first, last)) = IF first <= last THEN last - first + 1 ELSE 0
        /\ \A i \in 1..(last - first + 1) : SubSeq(runs, first, last)[i] = runs[first + i - 1]
    BY <2>2, SubSeqProperties
  <2>4. \A i \in 1..(last - b) : first + i - 1 = b + i /\ i \in 1..(last - first + 1)
    BY <2>1
  <2>5. (IF first <= last THEN last - first + 1 ELSE 0) = last - b
    BY <1>3, <2>1
  <2>6. Page(n) = SubSeq(runs, first, last)
    BY <1>3, <2>1
  <2>7. PICK page : page = Page(n)
    OBVIOUS
  <2>8. /\ page \in Seq(CheckRun) /\ Len(page) = last - b
        /\ \A i \in 1..(last - first + 1) : page[i] = runs[first + i - 1]
    BY <2>3, <2>5, <2>6, <2>7
  <2>9. \A i \in 1..(last - b) : page[i] = runs[b + i]
    BY <2>4, <2>8
  <2> QED BY <2>7, <2>8, <2>9
<1>5. CASE n * PageSize < Len(runs)
  <2>1. last = b + PageSize /\ last - b = PageSize
    BY <1>1, <1>2, <1>5
  <2> QED BY <1>1, <1>4, <1>5, <2>1
<1>6. CASE ~(n * PageSize < Len(runs))
  <2>1. last = Len(runs)
    BY <1>2, <1>6
  <2> QED BY <1>1, <1>4, <1>6, <2>1
<1> QED BY <1>5, <1>6

LEMMA HeardGrows ==
  ASSUME NEW runs \in Seq(CheckRun), checkRuns = runs, NEW n \in Nat \ {0},
         NEW heard \in Seq(CheckRun), Len(heard) = (n - 1) * PageSize, Agrees(heard, runs)
  PROVE  /\ heard \o Page(n) \in Seq(CheckRun) /\ Agrees(heard \o Page(n), runs)
         /\ n * PageSize < Len(runs) => Len(heard \o Page(n)) = n * PageSize
<1>1. PICK b \in Nat : b = Len(heard)
  OBVIOUS
<1>2. PICK more : more = Page(n)
  OBVIOUS
<1>3. /\ more \in Seq(CheckRun) /\ n * PageSize = b + PageSize
      /\ Len(more) = IF n * PageSize < Len(runs) THEN PageSize ELSE Len(runs) - b
      /\ \A i \in 1..Len(more) : more[i] = runs[b + i]
  BY <1>1, <1>2, PageIs DEF Agrees
<1>4. /\ heard \o more \in Seq(CheckRun) /\ Len(heard \o more) = Len(heard) + Len(more)
      /\ \A i \in 1..(Len(heard) + Len(more)) :
           (heard \o more)[i] = IF i <= Len(heard) THEN heard[i] ELSE more[i - Len(heard)]
  BY <1>3, ConcatProperties
<1>5. PICK k \in Nat : k = Len(more)
  BY <1>3
<1>6. b + k <= Len(runs)
  <2>1. b <= Len(runs) /\ k = IF b + PageSize < Len(runs) THEN PageSize ELSE Len(runs) - b
    BY <1>1, <1>3, <1>5 DEF Agrees
  <2> QED BY <2>1, PollConstants
<1>7. ASSUME NEW i \in 1..(b + k)
      PROVE  /\ (heard \o more)[i].name = runs[i].name
             /\ (heard \o more)[i].conclusion \in {"none", runs[i].conclusion}
  <2>1. CASE i <= b
    BY <1>1, <1>4, <1>5, <2>1 DEF Agrees
  <2>2. CASE i > b
    <3>1. i - b \in 1..k /\ b + (i - b) = i
      BY <2>2
    <3>2. more[i - b] = runs[i]
      BY <1>3, <1>5, <3>1
    <3>3. (heard \o more)[i] = runs[i]
      BY <1>1, <1>4, <1>5, <2>2, <3>2
    <3> QED BY <3>3
  <2>3. i <= b \/ i > b
    OBVIOUS
  <2> QED BY <2>1, <2>2, <2>3
<1>8. Agrees(heard \o more, runs)
  BY <1>1, <1>4, <1>5, <1>6, <1>7 DEF Agrees
<1>9. n * PageSize < Len(runs) => Len(heard \o more) = n * PageSize
  BY <1>1, <1>3, <1>4
<1> QED BY <1>2, <1>4, <1>8, <1>9

LEMMA PassedIs ==
  ASSUME NEW heard \in Seq(CheckRun), Verdict(heard) = "passed", NEW n \in Names
  PROVE  \E i \in DOMAIN heard : /\ Matches(heard, n) = {i}
                                 /\ heard[i].conclusion # "none"
                                 /\ Accepted(n, heard[i].conclusion)
<1> DEFINE i == CHOOSE i \in Matches(heard, n) : TRUE
<1>1. Matches(heard, n) # {} /\ ~Ambiguous(heard, n)
  BY DEF Verdict
<1>2. i \in Matches(heard, n) /\ i \in DOMAIN heard
  BY <1>1 DEF Matches
<1>3. Matches(heard, n) = {i}
  BY <1>1, <1>2 DEF Ambiguous
<1>4. heard[i].conclusion # "none" /\ Accepted(n, heard[i].conclusion)
  BY <1>1 DEF Verdict
<1> QED BY <1>2, <1>3, <1>4

\* A complete list that is judged well is good of what was there.
LEMMA PassedIsEarned ==
  ASSUME NEW runs \in Seq(CheckRun), NEW heard \in Seq(CheckRun), Agrees(heard, runs),
         Len(heard) = Len(runs), Verdict(heard) = "passed", NEW n \in Names
  PROVE  \E i \in DOMAIN runs : Matches(runs, n) = {i} /\ Accepted(n, runs[i].conclusion)
<1>1. PICK i \in DOMAIN heard : /\ Matches(heard, n) = {i} /\ heard[i].conclusion # "none"
                                /\ Accepted(n, heard[i].conclusion)
  BY PassedIs
<1>2. DOMAIN heard = 1..Len(heard) /\ DOMAIN runs = 1..Len(heard)
  OBVIOUS
<1>3. Matches(runs, n) = Matches(heard, n)
  BY <1>2 DEF Agrees, Matches
<1>4. runs[i].conclusion = heard[i].conclusion
  BY <1>1, <1>2 DEF Agrees
<1> QED BY <1>1, <1>2, <1>3, <1>4

LEMMA PollBegins == ASSUME PollInit PROVE PollInv
<1>1. FirstPage \in Position /\ Len(FirstPage.heard) = 0
  BY DEF FirstPage, Position
<1>2. FirstPage.page = 1 /\ FirstPage.total = -1 /\ 0 = (1 - 1) * PageSize
  BY PollConstants DEF FirstPage
<1> QED BY <1>1, <1>2 DEF PollInit, PollInv, Following, ZeroIsEarned

\* GitHub's own steps leave the prefix a prefix, or make the list longer.
LEMMA GitHubKeeps ==
  ASSUME PollInv, RunCreated \/ RunCompletes
  PROVE  PollInv'
<1>1. CASE RunCreated
  <2>1. PICK n \in Names : checkRuns' = <<[name |-> n, conclusion |-> "none"]>> \o checkRuns
    BY <1>1 DEF RunCreated
  <2>2. checkRuns' \in Seq(CheckRun) /\ Len(checkRuns') = Len(checkRuns) + 1
    <3>1. <<[name |-> n, conclusion |-> "none"]>> \in Seq(CheckRun)
      BY DEF CheckRun
    <3> QED BY <2>1, <3>1, ConcatProperties DEF PollInv
  <2>3. exit = 2 => Following(poll.at)'
    BY <1>1, <2>2 DEF RunCreated, PollInv, Following, Position
  <2> QED BY <1>1, <2>2, <2>3 DEF RunCreated, PollInv, ZeroIsEarned
<1>2. CASE RunCompletes
  <2>1. PICK i \in DOMAIN checkRuns, c \in Conclusions :
          /\ checkRuns[i].conclusion = "none"
          /\ checkRuns' = [checkRuns EXCEPT ![i].conclusion = c]
    BY <1>2 DEF RunCompletes
  <2>2. checkRuns' \in Seq(CheckRun) /\ Len(checkRuns') = Len(checkRuns)
    <3>1. checkRuns[i] \in CheckRun /\ c \in Conclusions \cup {"none"}
      BY <2>1 DEF PollInv
    <3>2. [checkRuns[i] EXCEPT !.conclusion = c] \in CheckRun
      BY <3>1 DEF CheckRun
    <3> QED BY <2>1, <3>2, ExceptSeq DEF PollInv
  <2>3. \A j \in DOMAIN checkRuns :
          /\ checkRuns'[j].name = checkRuns[j].name
          /\ checkRuns[j].conclusion \in {"none", checkRuns'[j].conclusion}
    BY <2>1 DEF PollInv, CheckRun
  <2>4. \A heard \in Seq(CheckRun) : Agrees(heard, checkRuns) => Agrees(heard, checkRuns')
    BY <2>2, <2>3 DEF Agrees, PollInv
  <2>5. exit = 2 => Following(poll.at)'
    BY <1>2, <2>2, <2>4 DEF RunCompletes, PollInv, Following, Position
  <2> QED BY <1>2, <2>2, <2>5 DEF RunCompletes, PollInv, ZeroIsEarned
<1> QED BY <1>1, <1>2

LEMMA PageReadKeeps ==
  ASSUME PollInv, PageRead
  PROVE  PollInv'
<1> DEFINE at == poll.at
           total == IF at.total = -1 THEN Len(checkRuns) ELSE at.total
           heard == at.heard \o Page(at.page)
<1>1. /\ checkRuns \in Seq(CheckRun) /\ at \in Position /\ Following(at) /\ poll.polls \in Nat
      /\ at.page \in Nat \ {0} /\ at.heard \in Seq(CheckRun) /\ exit = 2 /\ Len(at.heard) \in Nat
      /\ Len(checkRuns) \in Nat
  BY DEF PollInv, PageRead, Reading, Position
<1>2. lastSeen' = checkRuns /\ checkRuns' = checkRuns
  BY DEF PageRead
<1>3. ASSUME total = Len(checkRuns)
      PROVE  /\ heard \in Seq(CheckRun) /\ Agrees(heard, checkRuns)
             /\ at.page * PageSize < Len(checkRuns) => Len(heard) = at.page * PageSize
  <2>1. Agrees(at.heard, checkRuns)
    <3>1. CASE at.total = -1
      <4>1. Len(at.heard) = 0
        BY <1>1, <3>1, PollConstants DEF Following
      <4> QED BY <1>1, <4>1 DEF Agrees
    <3>2. CASE at.total # -1
      BY <1>1, <1>3, <3>2 DEF Following
    <3> QED BY <3>1, <3>2
  <2>2. Len(at.heard) = (at.page - 1) * PageSize
    BY <1>1 DEF Following
  <2> QED BY <1>1, <2>1, <2>2, HeardGrows
<1>4. ASSUME Exits(1)
      PROVE  PollInv'
  BY <1>1, <1>2, <1>4 DEF Exits, PollInv, ZeroIsEarned
<1>5. ASSUME Exits(0), total = Len(checkRuns), Complete(heard, total),
             Verdict(heard) = "passed"
      PROVE  PollInv'
  <2>1. heard \in Seq(CheckRun) /\ Agrees(heard, checkRuns) /\ Len(heard) = Len(checkRuns)
    BY <1>3, <1>5 DEF Complete
  <2>2. Verdict(heard) = "passed" /\ Exits(0)
    BY <1>5
  <2> HIDE DEF heard, total
  <2>3. \A n \in Names : \E i \in DOMAIN checkRuns :
          Matches(checkRuns, n) = {i} /\ Accepted(n, checkRuns[i].conclusion)
    BY <1>1, <2>1, <2>2, PassedIsEarned
  <2>4. ZeroIsEarned'
    BY <1>2, <2>3 DEF ZeroIsEarned, Matches
  <2> QED BY <1>1, <1>2, <2>2, <2>4 DEF Exits, PollInv
<1>6. ASSUME total = Len(checkRuns), at.page * PageSize < Len(checkRuns),
             poll' = [poll EXCEPT !.at = [try |-> 1, page |-> at.page + 1,
                                          total |-> total, heard |-> heard]], exit' = exit
      PROVE  PollInv'
  <2>1. PICK n \in Nat \ {0}, t \in Nat, g \in Seq(CheckRun) :
          n = at.page /\ t = total /\ g = heard
    BY <1>1, <1>3, <1>6
  <2>2. Agrees(g, checkRuns) /\ Len(g) = n * PageSize /\ n * PageSize < t /\ t = Len(checkRuns)
    BY <1>3, <1>6, <2>1
  <2>3. poll' = [poll EXCEPT !.at = [try |-> 1, page |-> n + 1, total |-> t, heard |-> g]]
    BY <1>6, <2>1
  <2>4. PICK next : next = [try |-> 1, page |-> n + 1, total |-> t, heard |-> g]
    OBVIOUS
  <2>5. next \in Position /\ poll'.at = next
    BY <2>3, <2>4 DEF Position, PollInv
  <2>6. Following(next)
    <3>1. (n + 1) - 1 = n
      OBVIOUS
    <3> QED BY <2>2, <2>4, <3>1, PollConstants DEF Following
  <2>7. Following(poll.at)'
    BY <1>2, <2>5, <2>6 DEF Following
  <2>8. poll' = [poll EXCEPT !.at = next]
    BY <2>3, <2>4
  <2>9. poll' \in [stage : {"reading", "asleep"}, polls : Nat, at : Position]
    BY <2>5, <2>8 DEF PollInv
  <2> QED BY <1>1, <1>2, <1>6, <2>7, <2>9 DEF PollInv, ZeroIsEarned
<1>7. ASSUME poll' = [poll EXCEPT !.stage = "asleep"], exit' = exit
      PROVE  PollInv'
  BY <1>1, <1>2, <1>7 DEF PollInv, ZeroIsEarned, Following
<1>8. PICK link \in Links(at.page) :
        CASE total # Len(checkRuns) \/ link = "loop" -> Exits(1)
          [] total = Len(checkRuns) /\ link = "next" ->
               /\ poll' = [poll EXCEPT !.at = [try |-> 1, page |-> at.page + 1,
                                               total |-> total, heard |-> heard]]
               /\ UNCHANGED exit
          [] OTHER -> Judge(heard, total)
  BY DEF PageRead
<1>9. link = "next" => at.page * PageSize < Len(checkRuns)
  BY <1>8 DEF Links
<1>10. CASE total # Len(checkRuns) \/ link = "loop"
  BY <1>4, <1>8, <1>10
<1>11. CASE total = Len(checkRuns) /\ link = "next"
  BY <1>6, <1>8, <1>9, <1>11
<1>12. CASE total = Len(checkRuns) /\ link \notin {"loop", "next"}
  <2>1. Judge(heard, total)
    BY <1>8, <1>12
  <2> QED BY <1>4, <1>7, <1>12, <1>5, <2>1 DEF Judge
<1> QED BY <1>10, <1>11, <1>12

LEMMA PollKeeps ==
  ASSUME PollInv, [PollNext]_pollVars
  PROVE  PollInv'
<1>1. CASE RunCreated \/ RunCompletes
  BY <1>1, GitHubKeeps
<1>2. CASE RequestFails
  <2>1. ASSUME poll' = [poll EXCEPT !.at.try = @ + 1]
        PROVE  /\ poll' \in [stage : {"reading", "asleep"}, polls : Nat, at : Position]
               /\ poll'.at.page = poll.at.page /\ poll'.at.total = poll.at.total
               /\ poll'.at.heard = poll.at.heard
    <3>1. PICK try \in Nat : try = poll.at.try + 1
      BY DEF PollInv, Position
    <3>2. PICK at \in Position : at = [poll.at EXCEPT !.try = try]
      BY DEF PollInv, Position
    <3>3. poll' = [poll EXCEPT !.at = at]
      BY <2>1, <3>1, <3>2
    <3> QED BY <3>2, <3>3 DEF PollInv, Position
  <2> QED BY <1>2, <2>1 DEF RequestFails, Reading, Exits, PollInv, Following, ZeroIsEarned
<1>3. CASE RequestDenied
  BY <1>3 DEF RequestDenied, Reading, Exits, PollInv, ZeroIsEarned
<1>4. CASE PageRead
  BY <1>4, PageReadKeeps
<1>5. CASE Wake
  <2>1. FirstPage \in Position /\ Len(FirstPage.heard) = 0
    BY DEF FirstPage, Position
  <2>2. FirstPage.page = 1 /\ FirstPage.total = -1 /\ 0 = (1 - 1) * PageSize
    BY PollConstants DEF FirstPage
  <2> QED BY <1>5, <2>1, <2>2 DEF Wake, PollInv, Following, ZeroIsEarned
<1>6. CASE UNCHANGED pollVars
  BY <1>6 DEF pollVars, PollInv, Following, ZeroIsEarned
<1> QED BY <1>1, <1>2, <1>3, <1>4, <1>5, <1>6 DEF PollNext

\* The poll exits with 0 only when each check had one run and it had concluded well, for
\* any page size, any number of checks and runs, and any answers of GitHub.
THEOREM SuccessIsEarned == PollSpec => []ZeroIsEarned
<1>1. PollInv => ZeroIsEarned
  BY DEF PollInv
<1> QED BY PollBegins, PollKeeps, <1>1, PTL DEF PollSpec

===============================================================================
