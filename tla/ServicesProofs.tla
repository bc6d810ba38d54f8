---------------------------- MODULE ServicesProofs -----------------------------
(* The services around the orchestrator, for any number of callers:           *)
(*   - the in-flight counter of the drain is exact, and a complete drain is    *)
(*     idle: the counter is a sum of two cardinalities, each step moves at     *)
(*     most one dispatch into or out of each of the two sets;                  *)
(*   - the evidence log stays a chain without duplicates, and an acknowledged  *)
(*     record is missing only with a torn line of its own: an append changes   *)
(*     the file as one line more does, whatever was read before it;            *)
(*     and so the file implements EvidenceLedger, step by step;                *)
(*   - a token authenticates at most once, since a token that was granted is   *)
(*     in the store or over, and the scopes stay separate;                     *)
(*   - the answer of an agent is the last word of its call.                    *)
EXTENDS Drain, EvidenceLog, Ingress, AgentCall, SequencesExt,
        FiniteSetTheorems, SequenceTheorems, WellFoundedInduction, TLAPS

(* ------------------------------- the drain -------------------------------- *)

\* The part of DrainTypeOK the counter depends on.
Staged ==
  /\ drain \in {"no", "waiting", "complete", "timedOut"}
  /\ inflight \in Nat
  /\ handler \in [Dispatches -> HandlerStage] /\ task \in [Dispatches -> TaskStage]

NoTaskYet ==
  \A d \in Dispatches : handler[d] \in {"idle", "refused", "accepted"} => task[d] = "none"

DrainInv == Staged /\ NoTaskYet /\ InflightExact /\ CompleteMeansIdle

-------------------------------------------------------------------------------

LEMMA InFlightFinite ==
  /\ IsFiniteSet(HandlersInFlight) /\ Cardinality(HandlersInFlight) \in Nat
  /\ IsFiniteSet(TasksInFlight) /\ Cardinality(TasksInFlight) \in Nat
<1>1. IsFiniteSet(HandlersInFlight) /\ IsFiniteSet(TasksInFlight)
  BY FS_Subset, DrainConstants DEF HandlersInFlight, TasksInFlight
<1> QED BY <1>1, FS_CardinalityType

\* A handler that moves changes the set of the accepted ones by itself at most.
LEMMA HandlerMoves ==
  ASSUME Staged, NEW d \in Dispatches, NEW stage \in HandlerStage, Handle(d, stage)
  PROVE  /\ handler' \in [Dispatches -> HandlerStage]
         /\ \A e \in Dispatches : handler'[e] = IF e = d THEN stage ELSE handler[e]
         /\ HandlersInFlight' = IF stage \in {"accepted", "dispatched"}
                                THEN HandlersInFlight \cup {d} ELSE HandlersInFlight \ {d}
<1>1. /\ handler' \in [Dispatches -> HandlerStage]
      /\ \A e \in Dispatches : handler'[e] = IF e = d THEN stage ELSE handler[e]
  BY DEF Staged, Handle
<1> QED BY <1>1 DEF HandlersInFlight

LEMMA TaskMoves ==
  ASSUME Staged, NEW d \in Dispatches, NEW stage \in TaskStage,
         task' = [task EXCEPT ![d] = stage]
  PROVE  /\ task' \in [Dispatches -> TaskStage]
         /\ \A e \in Dispatches : task'[e] = IF e = d THEN stage ELSE task[e]
         /\ TasksInFlight' = IF stage \in {"created", "running", "unstarted"}
                             THEN TasksInFlight \cup {d} ELSE TasksInFlight \ {d}
<1>1. /\ task' \in [Dispatches -> TaskStage]
      /\ \A e \in Dispatches : task'[e] = IF e = d THEN stage ELSE task[e]
  BY DEF Staged
<1> QED BY <1>1 DEF TasksInFlight

\* A slot that is given back was taken: the counter is one less.
LEMMA ReleaseTaken ==
  ASSUME Staged, InflightExact, inflight > 0, Release
  PROVE  /\ inflight' = inflight - 1 /\ inflight' \in Nat
         /\ drained' <=> inflight' = 0
<1>1. inflight' = inflight - 1 /\ inflight' \in Nat
  BY DEF Release, Staged
<1>2. (inflight = 1 <=> inflight' = 0) /\ inflight # 0
  BY <1>1 DEF Staged
<1> QED BY <1>1, <1>2 DEF Release, InflightExact

LEMMA TrackTakes ==
  ASSUME Staged, Track
  PROVE  inflight' = inflight + 1 /\ inflight' \in Nat /\ (drained' <=> inflight' = 0)
<1>1. inflight' = inflight + 1 /\ inflight' \in Nat /\ inflight' # 0
  BY DEF Track, Staged
<1> QED BY <1>1 DEF Track

LEMMA DrainBegins == DrainInit => DrainInv
<1> SUFFICES ASSUME DrainInit PROVE DrainInv
  OBVIOUS
<1>1. HandlersInFlight = {} /\ TasksInFlight = {}
  BY DEF DrainInit, HandlersInFlight, TasksInFlight
<1>2. Staged /\ NoTaskYet
  BY DEF DrainInit, Staged, NoTaskYet, HandlerStage, TaskStage
<1> QED BY <1>1, <1>2, FS_EmptySet DEF DrainInv, InflightExact, CompleteMeansIdle, DrainInit

-------------------------------------------------------------------------------

LEMMA HandlerStepKeeps ==
  ASSUME DrainInv, NEW d \in Dispatches, HandlerSteps(d)
  PROVE  DrainInv'
<1>1. ASSUME Begin(d), Handle(d, "refused"), Same
      PROVE  DrainInv'
  <2>1. HandlersInFlight' = HandlersInFlight /\ TasksInFlight' = TasksInFlight
    BY <1>1, HandlerMoves DEF Begin, HandlerStage, DrainInv, HandlersInFlight, TasksInFlight
  <2> QED BY <1>1, <2>1, HandlerMoves
          DEF DrainInv, Staged, NoTaskYet, InflightExact, CompleteMeansIdle, Begin, Same, HandlerStage
<1>2. ASSUME Begin(d), drain = "no", Handle(d, "accepted"), Track
      PROVE  DrainInv'
  <2>1. HandlersInFlight' = HandlersInFlight \cup {d} /\ d \notin HandlersInFlight
    BY <1>2, HandlerMoves DEF DrainInv, Begin, HandlerStage, HandlersInFlight
  <2>2. TasksInFlight' = TasksInFlight
    BY <1>2 DEF Begin, TasksInFlight
  <2>3. Cardinality(HandlersInFlight') = Cardinality(HandlersInFlight) + 1
    BY <2>1, InFlightFinite, FS_AddElement
  <2>4. InflightExact'
    BY <1>2, <2>2, <2>3, InFlightFinite, TrackTakes DEF DrainInv, InflightExact
  <2> QED BY <1>2, <2>4, HandlerMoves, TrackTakes
          DEF DrainInv, Staged, NoTaskYet, CompleteMeansIdle, Begin, HandlerStage
<1>3. ASSUME StartBackground(d)
      PROVE  DrainInv'
  <2>1. d \in HandlersInFlight /\ d \notin TasksInFlight
    BY <1>3 DEF DrainInv, StartBackground, NoTaskYet, HandlersInFlight, TasksInFlight
  <2>2. HandlersInFlight' = HandlersInFlight
    <3>1. HandlersInFlight' = HandlersInFlight \cup {d}
      BY <1>3, HandlerMoves DEF DrainInv, StartBackground, HandlerStage
    <3> QED BY <2>1, <3>1
  <2>3. TasksInFlight' = TasksInFlight \cup {d}
    BY <1>3, TaskMoves DEF DrainInv, StartBackground, TaskStage
  <2>4. Cardinality(TasksInFlight') = Cardinality(TasksInFlight) + 1
    BY <2>1, <2>3, InFlightFinite, FS_AddElement
  <2>5. InflightExact'
    BY <1>3, <2>2, <2>4, InFlightFinite, TrackTakes DEF DrainInv, InflightExact, StartBackground
  <2>6. CompleteMeansIdle'
    BY <1>3, <2>1 DEF DrainInv, CompleteMeansIdle, StartBackground
  <2>7. Staged' /\ NoTaskYet'
    BY <1>3, HandlerMoves, TaskMoves, TrackTakes
       DEF DrainInv, Staged, NoTaskYet, StartBackground, HandlerStage, TaskStage
  <2> QED BY <2>5, <2>6, <2>7 DEF DrainInv
<1>4. ASSUME EndHandler(d)
      PROVE  DrainInv'
  <2>1. d \in HandlersInFlight
    BY <1>4 DEF EndHandler, HandlersInFlight
  <2>2. HandlersInFlight' = HandlersInFlight \ {d} /\ TasksInFlight' = TasksInFlight
    BY <1>4, HandlerMoves DEF DrainInv, EndHandler, HandlerStage, TasksInFlight
  <2>3. Cardinality(HandlersInFlight') = Cardinality(HandlersInFlight) - 1
    BY <2>1, <2>2, InFlightFinite, FS_RemoveElement
  <2>4. Cardinality(HandlersInFlight) # 0
    BY <2>1, InFlightFinite, FS_EmptySet
  <2>5. inflight > 0
    BY <2>4, InFlightFinite DEF DrainInv, InflightExact
  <2>6. InflightExact'
    BY <1>4, <2>2, <2>3, <2>5, InFlightFinite, ReleaseTaken DEF DrainInv, InflightExact, EndHandler
  <2>7. Staged' /\ NoTaskYet'
    BY <1>4, <2>5, HandlerMoves, ReleaseTaken
       DEF DrainInv, Staged, NoTaskYet, EndHandler, HandlerStage
  <2> QED BY <1>4, <2>1, <2>6, <2>7 DEF DrainInv, CompleteMeansIdle, EndHandler
<1> QED BY <1>1, <1>2, <1>3, <1>4 DEF HandlerSteps, Begin

\* A task that moves within the slots it holds, or gives its slot back.
LEMMA TaskStays ==
  ASSUME DrainInv, NEW d \in Dispatches, NEW stage \in TaskStage, Tasked(d, stage), Same,
         d \in TasksInFlight <=> stage \in {"created", "running", "unstarted"},
         task[d] # "none", UNCHANGED <<drain, handler>>
  PROVE  DrainInv'
<1>1. TasksInFlight' = TasksInFlight /\ HandlersInFlight' = HandlersInFlight
  <2>1. TasksInFlight' = IF stage \in {"created", "running", "unstarted"}
                         THEN TasksInFlight \cup {d} ELSE TasksInFlight \ {d}
    BY TaskMoves DEF DrainInv, Tasked
  <2>2. TasksInFlight' = TasksInFlight
    BY <2>1
  <2> QED BY <2>2 DEF HandlersInFlight
<1>2. Staged' /\ NoTaskYet'
  BY TaskMoves DEF DrainInv, Staged, NoTaskYet, Tasked, Same
<1> QED BY <1>1, <1>2 DEF DrainInv, InflightExact, CompleteMeansIdle, Same

LEMMA TaskReleases ==
  ASSUME DrainInv, NEW d \in Dispatches, NEW stage \in {"finished", "cancelled", "gone"},
         Tasked(d, stage), Release, d \in TasksInFlight, UNCHANGED <<drain, handler>>
  PROVE  DrainInv'
<1>0. stage \in TaskStage /\ task[d] # "none"
  BY DEF TaskStage, TasksInFlight
<1>1. TasksInFlight' = TasksInFlight \ {d} /\ HandlersInFlight' = HandlersInFlight
  BY <1>0, TaskMoves DEF DrainInv, Tasked, HandlersInFlight
<1>2. Cardinality(TasksInFlight') = Cardinality(TasksInFlight) - 1
  BY <1>1, InFlightFinite, FS_RemoveElement
<1>3. Cardinality(TasksInFlight) # 0
  BY InFlightFinite, FS_EmptySet
<1>4. inflight > 0
  BY <1>3, InFlightFinite DEF DrainInv, InflightExact
<1>5. InflightExact'
  BY <1>1, <1>2, <1>4, InFlightFinite, ReleaseTaken DEF DrainInv, InflightExact
<1>6. Staged' /\ NoTaskYet'
  BY <1>0, <1>4, TaskMoves, ReleaseTaken DEF DrainInv, Staged, NoTaskYet, Tasked
<1> QED BY <1>5, <1>6 DEF DrainInv, CompleteMeansIdle

LEMMA TaskStepKeeps ==
  ASSUME DrainInv, NEW d \in Dispatches, TaskSteps(d)
  PROVE  DrainInv'
<1>1. CASE Run(d)
  BY <1>1, TaskStays DEF Run, TasksInFlight, TaskStage
<1>2. CASE Finish(d)
  BY <1>2, TaskReleases DEF Finish, TasksInFlight
<1>3. CASE CancelTask(d)
  <2>1. CASE task[d] = "created" /\ Tasked(d, "unstarted") /\ Same
    BY <1>3, <2>1, TaskStays DEF CancelTask, TasksInFlight, TaskStage
  <2>2. CASE task[d] = "running" /\ Tasked(d, "cancelled") /\ Release
    BY <1>3, <2>2, TaskReleases DEF CancelTask, TasksInFlight
  <2> QED BY <1>3, <2>1, <2>2 DEF CancelTask
<1>4. CASE Complete(d)
  <2>1. CASE task[d] = "unstarted"
    BY <1>4, <2>1, TaskReleases DEF Complete, CallbackReleases, TasksInFlight
  <2>2. CASE task[d] \in {"finished", "cancelled"}
    BY <1>4, <2>2, TaskStays DEF Complete, CallbackReleases, TasksInFlight, TaskStage
  <2> QED BY <1>4, <2>1, <2>2 DEF Complete
<1> QED BY <1>1, <1>2, <1>3, <1>4 DEF TaskSteps

\* A drain that completes finds the counter at zero, so both sets are empty.
LEMMA NothingInFlight ==
  ASSUME DrainInv, inflight = 0
  PROVE  HandlersInFlight = {} /\ TasksInFlight = {}
<1>1. Cardinality(HandlersInFlight) = 0 /\ Cardinality(TasksInFlight) = 0
  BY InFlightFinite DEF DrainInv, InflightExact
<1> QED BY <1>1, InFlightFinite, FS_EmptySet

LEMMA DrainStepKeeps ==
  ASSUME DrainInv, InitiateDrain \/ Drained \/ DeadlinePasses \/ CloseLoop \/ Exit
  PROVE  DrainInv'
<1>1. HandlersInFlight' = HandlersInFlight /\ TasksInFlight' = TasksInFlight
  BY DEF InitiateDrain, Drained, DeadlinePasses, CloseLoop, Exit, HandlersInFlight, TasksInFlight
<1>2. CASE InitiateDrain
  <2>1. inflight' = inflight /\ (drained' <=> inflight' = 0)
    BY <1>2 DEF InitiateDrain, DrainInv, InflightExact
  <2>2. CompleteMeansIdle'
    BY <1>1, <1>2, NothingInFlight DEF InitiateDrain, CompleteMeansIdle
  <2> QED BY <1>1, <1>2, <2>1, <2>2 DEF InitiateDrain, DrainInv, Staged, NoTaskYet, InflightExact
<1>3. CASE Drained
  <2>1. inflight = 0
    BY <1>3 DEF Drained, DrainInv, InflightExact
  <2>2. CompleteMeansIdle'
    BY <1>1, <2>1, NothingInFlight DEF CompleteMeansIdle
  <2> QED BY <1>1, <1>3, <2>2 DEF Drained, DrainInv, Staged, NoTaskYet, InflightExact
<1>4. CASE DeadlinePasses
  BY <1>1, <1>4 DEF DeadlinePasses, DrainInv, Staged, NoTaskYet, InflightExact, CompleteMeansIdle
<1>5. CASE CloseLoop \/ Exit
  BY <1>1, <1>5 DEF CloseLoop, Exit, DrainInv, Staged, NoTaskYet, InflightExact, CompleteMeansIdle
<1> QED BY <1>2, <1>3, <1>4, <1>5

LEMMA DrainKeeps ==
  ASSUME DrainInv, [DrainNext]_drainVars
  PROVE  DrainInv'
<1>1. CASE UNCHANGED drainVars
  BY <1>1 DEF drainVars, DrainInv, Staged, NoTaskYet, InflightExact, CompleteMeansIdle,
              HandlersInFlight, TasksInFlight
<1> QED BY <1>1, HandlerStepKeeps, TaskStepKeeps, DrainStepKeeps DEF DrainNext

THEOREM DrainInvariant == DrainSpec => []DrainInv
<1>1. DrainInit => DrainInv
  BY DrainBegins
<1>2. DrainInv /\ [DrainNext]_drainVars => DrainInv'
  BY DrainKeeps
<1> QED BY <1>1, <1>2, PTL DEF DrainSpec

\* _inflight is the number of handlers and tasks that have not ended, and the
\* event _drained is set exactly when it is zero.
THEOREM CounterIsExact == DrainSpec => []InflightExact
<1>1. DrainInv => InflightExact
  BY DEF DrainInv
<1> QED BY <1>1, DrainInvariant, PTL

\* initiate_drain returns True only when no accepted work is left, and none
\* begins after it.
THEOREM CompleteDrainIsIdle == DrainSpec => []CompleteMeansIdle
<1>1. DrainInv => CompleteMeansIdle
  BY DEF DrainInv
<1> QED BY <1>1, DrainInvariant, PTL

(* -------------------------------- numbers --------------------------------- *)

Below == {ss \in Nat \X Nat : ss[1] < ss[2]}

\* The least-number principle, for a set of numbers and for the greatest of it.
LEMMA LeastOf ==
  ASSUME NEW T, T \subseteq Nat, T # {}
  PROVE  \E i \in T : \A j \in T : i <= j
<1>1. IsWellFoundedOn(Below, Nat)
  BY NatLessThanWellFounded DEF OpToRel, Below
<1>2. PICK i \in T : \A j \in T : <<j, i>> \notin Below
  BY <1>1, WFMin
<1>3. ASSUME NEW j \in T
      PROVE  i <= j
  <2>1. <<j, i>> \in Below <=> j < i
    BY DEF Below
  <2> QED BY <1>2, <2>1
<1> QED BY <1>3

LEMMA GreatestOf ==
  ASSUME NEW n \in Nat, NEW T, T \subseteq 0..n, T # {}
  PROVE  \E i \in T : \A j \in T : j <= i
<1> DEFINE depths == {n - j : j \in T}
<1>1. depths # {}
  OBVIOUS
<1>2. \A j \in T : j \in Nat /\ j <= n /\ n - j \in Nat
  OBVIOUS
<1>3. depths \subseteq Nat
  BY <1>2
<1>4. PICK d \in depths : \A e \in depths : d <= e
  BY <1>1, <1>3, LeastOf
<1>5. PICK i \in T : d = n - i
  OBVIOUS
<1>6. ASSUME NEW j \in T
      PROVE  j <= i
  <2>1. n - i <= n - j
    BY <1>4, <1>5
  <2> QED BY <1>2, <2>1
<1> QED BY <1>6

(* ---------------------------- the evidence log ---------------------------- *)

Line == [torn : {TRUE}]
        \cup [torn : {FALSE}, payload : Payloads, chain : Seq(Signatures)]
StoreType ==
  [pc : {"idle", "waiting", "loaded", "dead"}, payload : Payloads \cup {NoPayload},
   index : SUBSET Signatures, last : Seq(Signatures)]

(* ------------------------- a file and one more line ----------------------- *)

\* What the model says of lines, of any file.
RecordsOf(file) == {i \in DOMAIN file : ~file[i].torn}
Earlier(file, n) == {i \in RecordsOf(file) : i < n}
ChainOf(file, n) ==
  IF Earlier(file, n) = {} THEN <<>>
  ELSE file[CHOOSE i \in Earlier(file, n) : \A j \in Earlier(file, n) : j <= i].chain
Signed(file) ==
  \A i \in RecordsOf(file) : file[i].chain = Append(ChainOf(file, i), Signature(file[i].payload))
Distinct(file) ==
  \A i, j \in RecordsOf(file) : Signature(file[i].payload) = Signature(file[j].payload) => i = j

LEMMA FileIs ==
  ASSUME NEW file \in Seq(Line)
  PROVE  /\ Len(file) \in Nat /\ DOMAIN file = 1..Len(file)
         /\ RecordsOf(file) \subseteq 1..Len(file)
         /\ \A i \in DOMAIN file : file[i] \in Line /\ file[i].torn \in BOOLEAN
         /\ \A i \in RecordsOf(file) :
              file[i].payload \in Payloads /\ file[i].chain \in Seq(Signatures)
<1>1. \A line \in Line :
        /\ line.torn \in BOOLEAN
        /\ ~line.torn => line.payload \in Payloads /\ line.chain \in Seq(Signatures)
  BY DEF Line
<1>2. /\ Len(file) \in Nat /\ DOMAIN file = 1..Len(file)
      /\ \A i \in DOMAIN file : file[i] \in Line
  OBVIOUS
<1> QED BY <1>1, <1>2 DEF RecordsOf

LEMMA LastBefore ==
  ASSUME NEW file \in Seq(Line), NEW n, Earlier(file, n) # {}
  PROVE  (CHOOSE i \in Earlier(file, n) : \A j \in Earlier(file, n) : j <= i) \in Earlier(file, n)
<1>1. Earlier(file, n) \subseteq 0..Len(file)
  BY FileIs DEF Earlier
<1>2. \E i \in Earlier(file, n) : \A j \in Earlier(file, n) : j <= i
  BY <1>1, FileIs, GreatestOf
<1> QED BY <1>2

LEMMA ChainSame ==
  ASSUME NEW file \in Seq(Line), NEW grown, NEW n,
         Earlier(grown, n) = Earlier(file, n), \A i \in Earlier(file, n) : grown[i] = file[i]
  PROVE  ChainOf(grown, n) = ChainOf(file, n)
<1>1. CASE Earlier(file, n) = {}
  BY <1>1 DEF ChainOf
<1>2. CASE Earlier(file, n) # {}
  BY <1>2, LastBefore DEF ChainOf
<1> QED BY <1>1, <1>2

LEMMA ChainIs ==
  ASSUME NEW file \in Seq(Line), NEW n
  PROVE  ChainOf(file, n) \in Seq(Signatures)
<1>1. CASE Earlier(file, n) = {}
  BY <1>1 DEF ChainOf
<1>2. CASE Earlier(file, n) # {}
  <2> DEFINE last == CHOOSE i \in Earlier(file, n) : \A j \in Earlier(file, n) : j <= i
  <2>1. last \in Earlier(file, n) /\ ChainOf(file, n) = file[last].chain
    BY <1>2, LastBefore DEF ChainOf
  <2> HIDE DEF last
  <2> QED BY <2>1, FileIs DEF Earlier
<1> QED BY <1>1, <1>2

LEMMA TornIs == Torn \in Line /\ Torn.torn
BY DEF Torn, Line

LEMMA RecordIs ==
  ASSUME NEW prev \in Seq(Signatures), NEW p \in Payloads
  PROVE  /\ Record(p, prev) \in Line /\ ~Record(p, prev).torn
         /\ Record(p, prev).payload = p
         /\ Record(p, prev).chain = Append(prev, Signature(p))
<1>1. Signature(p) \in Signatures
  BY DEF Signatures
<1>2. Append(prev, Signature(p)) \in Seq(Signatures)
  BY <1>1, AppendProperties
<1> QED BY <1>2 DEF Record, Line

Longer(file, line, grown) ==
  /\ grown \in Seq(Line) /\ Len(grown) = Len(file) + 1
  /\ \A i \in 1..Len(file) : grown[i] = file[i]
  /\ grown[Len(file) + 1] = line
  /\ RecordsOf(grown) = IF line.torn THEN RecordsOf(file)
                        ELSE RecordsOf(file) \cup {Len(file) + 1}
  /\ \A n \in 1..(Len(file) + 1) : ChainOf(grown, n) = ChainOf(file, n)

LEMMA LineAppended ==
  ASSUME NEW file \in Seq(Line), NEW line \in Line, NEW grown, grown = Append(file, line)
  PROVE  Longer(file, line, grown)
<1>1. /\ grown \in Seq(Line) /\ Len(grown) = Len(file) + 1
      /\ \A i \in 1..Len(file) : grown[i] = file[i]
      /\ grown[Len(file) + 1] = line
  BY AppendProperties
<1>2. Len(file) \in Nat /\ DOMAIN file = 1..Len(file) /\ RecordsOf(file) \subseteq 1..Len(file)
  BY FileIs
<1>3. DOMAIN grown = 1..(Len(file) + 1)
  BY <1>1
<1>4. RecordsOf(grown) = IF line.torn THEN RecordsOf(file) ELSE RecordsOf(file) \cup {Len(file) + 1}
  <2>1. \A i \in 1..(Len(file) + 1) : i \in 1..Len(file) \/ i = Len(file) + 1
    BY <1>2
  <2> QED BY <1>1, <1>2, <1>3, <2>1 DEF RecordsOf
<1>5. ASSUME NEW n \in 1..(Len(file) + 1)
      PROVE  ChainOf(grown, n) = ChainOf(file, n)
  <2>1. Earlier(grown, n) = Earlier(file, n)
    BY <1>2, <1>4 DEF Earlier
  <2>2. \A i \in Earlier(file, n) : grown[i] = file[i]
    BY <1>1, <1>2 DEF Earlier
  <2> QED BY <2>1, <2>2, ChainSame
<1> QED BY <1>1, <1>4, <1>5 DEF Longer

LEMMA LineJoined ==
  ASSUME NEW file \in Seq(Line), file # <<>>,
         NEW joined, joined = [file EXCEPT ![Len(file)] = Torn]
  PROVE  /\ joined \in Seq(Line) /\ Len(joined) = Len(file) /\ Len(file) \in Nat \ {0}
         /\ \A i \in RecordsOf(joined) : joined[i] = file[i]
         /\ RecordsOf(joined) = RecordsOf(file) \ {Len(file)}
         /\ \A n \in 1..Len(file) : ChainOf(joined, n) = ChainOf(file, n)
<1>1. /\ Len(file) \in Nat \ {0} /\ DOMAIN file = 1..Len(file) /\ RecordsOf(file) \subseteq 1..Len(file)
  BY FileIs, EmptySeq
<1>2. /\ joined \in Seq(Line) /\ Len(joined) = Len(file)
      /\ \A i \in 1..Len(file) : joined[i] = IF i = Len(file) THEN Torn ELSE file[i]
  BY <1>1, TornIs, ExceptSeq
<1>3. DOMAIN joined = 1..Len(file)
  BY <1>2
<1>4. RecordsOf(joined) = RecordsOf(file) \ {Len(file)}
  BY <1>1, <1>2, <1>3, TornIs DEF RecordsOf
<1>5. \A i \in RecordsOf(joined) : joined[i] = file[i]
  BY <1>1, <1>2, <1>4
<1>6. ASSUME NEW n \in 1..Len(file)
      PROVE  ChainOf(joined, n) = ChainOf(file, n)
  <2>1. Earlier(joined, n) = Earlier(file, n)
    <3>1. \A i \in RecordsOf(file) : i < n => i # Len(file)
      BY <1>1
    <3> QED BY <1>4, <3>1 DEF Earlier
  <2>2. \A i \in Earlier(file, n) : joined[i] = file[i]
    BY <1>5, <2>1 DEF Earlier
  <2> QED BY <2>1, <2>2, ChainSame
<1> QED BY <1>1, <1>2, <1>4, <1>5, <1>6

\* A record of a new payload, signed over the last one, or a torn line at the end.
LEMMA AppendedSound ==
  ASSUME NEW file \in Seq(Line), Signed(file), Distinct(file), NEW p \in Payloads,
         \A i \in RecordsOf(file) : Signature(file[i].payload) # Signature(p),
         NEW line \in {Torn, Record(p, ChainOf(file, Len(file) + 1))},
         NEW grown, grown = Append(file, line)
  PROVE  Signed(grown) /\ Distinct(grown)
<1>1. PICK n : n = Len(file) + 1
  OBVIOUS
<1>2. line \in Line /\ ChainOf(file, n) \in Seq(Signatures)
  BY <1>1, TornIs, RecordIs, ChainIs
<1>3. RecordsOf(file) \subseteq 1..Len(file) /\ Len(file) \in Nat /\ n \notin RecordsOf(file)
  BY <1>1, FileIs
<1>4. /\ \A i \in 1..Len(file) : grown[i] = file[i]
      /\ grown[n] = line
      /\ RecordsOf(grown) = IF line.torn THEN RecordsOf(file) ELSE RecordsOf(file) \cup {n}
      /\ \A i \in 1..n : ChainOf(grown, i) = ChainOf(file, i)
  <2>1. Longer(file, line, grown)
    BY <1>2, LineAppended
  <2> QED BY <1>1, <2>1 DEF Longer
<1>5. ASSUME NEW i \in RecordsOf(file)
      PROVE  /\ grown[i] = file[i]
             /\ grown[i].chain = Append(ChainOf(grown, i), Signature(grown[i].payload))
  <2>1. i \in 1..Len(file) /\ i \in 1..n
    BY <1>1, <1>3
  <2> QED BY <1>4, <2>1 DEF Signed
<1>6. CASE line.torn
  <2>1. RecordsOf(grown) = RecordsOf(file)
    BY <1>4, <1>6
  <2>2. Signed(grown)
    BY <1>5, <2>1 DEF Signed
  <2>3. Distinct(grown)
    BY <1>5, <2>1 DEF Distinct
  <2> QED BY <2>2, <2>3
<1>7. CASE ~line.torn
  <2>1. line = Record(p, ChainOf(file, n))
    BY <1>1, <1>7, TornIs
  <2>2. RecordsOf(grown) = RecordsOf(file) \cup {n}
    BY <1>4, <1>7
  <2>3. grown[n].payload = p /\ grown[n].chain = Append(ChainOf(file, n), Signature(p))
    BY <1>2, <1>4, <2>1, RecordIs
  <2>4. ChainOf(grown, n) = ChainOf(file, n)
    BY <1>1, <1>3, <1>4
  <2>5. Signed(grown)
    BY <1>5, <2>2, <2>3, <2>4 DEF Signed
  <2>6. Distinct(grown)
    BY <1>5, <2>2, <2>3 DEF Distinct
  <2> QED BY <2>5, <2>6
<1> QED BY <1>6, <1>7

LEMMA JoinedSound ==
  ASSUME NEW file \in Seq(Line), file # <<>>, Signed(file), Distinct(file),
         NEW joined, joined = [file EXCEPT ![Len(file)] = Torn]
  PROVE  Signed(joined) /\ Distinct(joined)
<1>1. RecordsOf(file) \subseteq 1..Len(file) /\ RecordsOf(joined) = RecordsOf(file) \ {Len(file)}
  BY FileIs, LineJoined
<1>2. \A i \in RecordsOf(joined) :
        joined[i] = file[i] /\ ChainOf(joined, i) = ChainOf(file, i)
  BY <1>1, LineJoined
<1> QED BY <1>1, <1>2 DEF Signed, Distinct

(* ----------------------------- losses, counted ---------------------------- *)

\* What of the acknowledged is lost or may be, and what torn lines there are to answer for it.
RiskOf(known, file, open) ==
  {q \in known : \A i \in RecordsOf(file) : file[i].payload = q => open /\ i = Len(file)}
SpentOf(file, open) == (DOMAIN file \ RecordsOf(file)) \ (IF open THEN {Len(file)} ELSE {})
CoveredBy(known, file, open) ==
  Cardinality(RiskOf(known, file, open)) <= Cardinality(SpentOf(file, open))

LEMMA OneMore ==
  ASSUME NEW S, IsFiniteSet(S), NEW x
  PROVE  IsFiniteSet(S \cup {x}) /\ Cardinality(S \cup {x}) <= Cardinality(S) + 1
<1>1. Cardinality(S) \in Nat
  BY FS_CardinalityType
<1>2. CASE x \in S
  <2>1. S \cup {x} \subseteq S
    BY <1>2
  <2>2. IsFiniteSet(S \cup {x}) /\ Cardinality(S \cup {x}) <= Cardinality(S)
    BY <2>1, FS_Subset
  <2>3. Cardinality(S \cup {x}) \in Nat
    BY <2>2, FS_CardinalityType
  <2> QED BY <1>1, <2>2, <2>3
<1>3. CASE x \notin S
  BY <1>1, <1>3, FS_AddElement
<1> QED BY <1>2, <1>3

LEMMA SpentFinite ==
  ASSUME NEW file \in Seq(Line), NEW open
  PROVE  IsFiniteSet(SpentOf(file, open)) /\ Cardinality(SpentOf(file, open)) \in Nat
<1>1. SpentOf(file, open) \subseteq 1..Len(file) /\ Len(file) \in Nat
  BY FileIs DEF SpentOf
<1>2. IsFiniteSet(1..Len(file))
  BY <1>1, FS_Interval
<1> QED BY <1>1, <1>2, FS_Subset, FS_CardinalityType

LEMMA RiskFinite ==
  ASSUME NEW known, IsFiniteSet(known), NEW file, NEW open
  PROVE  IsFiniteSet(RiskOf(known, file, open)) /\ Cardinality(RiskOf(known, file, open)) \in Nat
<1>1. RiskOf(known, file, open) \subseteq known
  BY DEF RiskOf
<1> QED BY <1>1, FS_Subset, FS_CardinalityType

\* No more risk and no fewer torn lines.
NoWorse(known, file, open, known2, file2, open2) ==
  /\ RiskOf(known2, file2, open2) \subseteq RiskOf(known, file, open)
  /\ SpentOf(file, open) \subseteq SpentOf(file2, open2)

LEMMA StaysCovered ==
  ASSUME NEW known, IsFiniteSet(known), NEW file \in Seq(Line), NEW open,
         CoveredBy(known, file, open),
         NEW known2, NEW file2 \in Seq(Line), NEW open2,
         NoWorse(known, file, open, known2, file2, open2)
  PROVE  CoveredBy(known2, file2, open2)
<1>1. Cardinality(RiskOf(known2, file2, open2)) <= Cardinality(RiskOf(known, file, open))
  BY RiskFinite, FS_Subset DEF NoWorse
<1>2. Cardinality(SpentOf(file, open)) <= Cardinality(SpentOf(file2, open2))
  BY SpentFinite, FS_Subset DEF NoWorse
<1>3. Cardinality(RiskOf(known2, file2, open2)) \in Nat
  BY RiskFinite, FS_Subset, FS_CardinalityType DEF NoWorse
<1> QED BY <1>1, <1>2, <1>3, RiskFinite, SpentFinite DEF CoveredBy

\* Only a write that succeeds acknowledges its payload.
Acknowledges(known, p, open, known2) ==
  known2 = known \/ (~open /\ known2 = known \cup {p})

LEMMA AppendCovered ==
  ASSUME NEW known, IsFiniteSet(known), NEW file \in Seq(Line), CoveredBy(known, file, FALSE),
         NEW p \in Payloads, \A i \in RecordsOf(file) : Signature(file[i].payload) # Signature(p),
         NEW prev \in Seq(Signatures), NEW line \in {Torn, Record(p, prev)},
         NEW open \in BOOLEAN, line = Torn => open,
         NEW known2, Acknowledges(known, p, open, known2)
  PROVE  CoveredBy(known2, Append(file, line), open)
<1>1. PICK grown : grown = Append(file, line)
  OBVIOUS
<1>2. line \in Line /\ (line.torn <=> line = Torn) /\ (~line.torn => line.payload = p)
  BY TornIs, RecordIs
<1>3. Longer(file, line, grown)
  BY <1>1, <1>2, LineAppended
<1>4. PICK n : n = Len(file) + 1
  OBVIOUS
<1>5. /\ RecordsOf(file) \subseteq 1..Len(file) /\ Len(file) \in Nat
      /\ DOMAIN file = 1..Len(file) /\ DOMAIN grown = 1..n /\ Len(grown) = n
      /\ RecordsOf(grown) = IF line.torn THEN RecordsOf(file) ELSE RecordsOf(file) \cup {n}
      /\ grown[n] = line /\ n \notin RecordsOf(file)
      /\ \A i \in RecordsOf(file) : grown[i] = file[i] /\ i # n /\ grown[i].payload # p
  BY <1>3, <1>4, FileIs DEF Longer
<1>6. SpentOf(grown, open) = SpentOf(file, FALSE)
  <2>1. 1..n = 1..Len(file) \cup {n} /\ n \notin 1..Len(file)
    BY <1>4, <1>5
  <2> QED BY <1>2, <1>5, <2>1 DEF SpentOf
<1>7. RiskOf(known2, grown, open) \subseteq RiskOf(known, file, FALSE)
  <2> SUFFICES ASSUME NEW q \in RiskOf(known2, grown, open)
               PROVE  q \in known /\ \A i \in RecordsOf(file) : file[i].payload # q
    BY DEF RiskOf
  <2>1. \A i \in RecordsOf(grown) : grown[i].payload = q => open /\ i = n
    BY <1>5 DEF RiskOf
  <2>2. \A i \in RecordsOf(file) : file[i].payload # q
    BY <1>5, <2>1
  <2>3. q \in known2
    BY DEF RiskOf
  <2>4. ASSUME known2 # known
        PROVE  q # p
    <3>1. ~open /\ line # Torn
      BY <2>4 DEF Acknowledges
    <3>2. n \in RecordsOf(grown) /\ grown[n].payload = p
      BY <1>2, <1>5, <3>1
    <3> QED BY <2>1, <3>1, <3>2
  <2> QED BY <2>2, <2>3, <2>4 DEF Acknowledges
<1>8. grown \in Seq(Line)
  BY <1>3 DEF Longer
<1>9. NoWorse(known, file, FALSE, known2, grown, open)
  BY <1>6, <1>7 DEF NoWorse
<1>10. CoveredBy(known2, grown, open)
  BY <1>8, <1>9, StaysCovered
<1> QED BY <1>1, <1>10

LEMMA JoinCovered ==
  ASSUME NEW known, IsFiniteSet(known), NEW file \in Seq(Line), file # <<>>,
         CoveredBy(known, file, TRUE), NEW p, NEW open,
         NEW known2, Acknowledges(known, p, open, known2),
         NEW joined, joined = [file EXCEPT ![Len(file)] = Torn]
  PROVE  CoveredBy(known2, joined, open)
<1>1. PICK n : n = Len(file)
  OBVIOUS
<1>2. /\ joined \in Seq(Line) /\ Len(joined) = n /\ n \in Nat \ {0}
      /\ DOMAIN joined = 1..n /\ DOMAIN file = 1..n
      /\ RecordsOf(joined) = RecordsOf(file) \ {n}
      /\ \A i \in RecordsOf(joined) : joined[i] = file[i]
  BY <1>1, LineJoined, FileIs
<1>3. RiskOf(known2, joined, open) \subseteq RiskOf(known, file, TRUE) \cup (known2 \ known)
  BY <1>1, <1>2 DEF RiskOf
<1>4. CASE known2 = known
  <2>1. SpentOf(file, TRUE) \subseteq SpentOf(joined, open)
    BY <1>1, <1>2 DEF SpentOf
  <2>2. RiskOf(known2, joined, open) \subseteq RiskOf(known, file, TRUE)
    BY <1>3, <1>4
  <2>3. NoWorse(known, file, TRUE, known2, joined, open)
    BY <2>1, <2>2 DEF NoWorse
  <2> QED BY <1>2, <2>3, StaysCovered
<1>5. CASE ~open /\ known2 = known \cup {p}
  <2> DEFINE risk == RiskOf(known, file, TRUE)
             spent == SpentOf(file, TRUE)
  <2>1. SpentOf(joined, open) = spent \cup {n} /\ n \notin spent
    <3>1. SpentOf(joined, open) = (1..n) \ (RecordsOf(file) \ {n})
      BY <1>2, <1>5 DEF SpentOf
    <3>2. spent = ((1..n) \ RecordsOf(file)) \ {n} /\ n \in 1..n
      BY <1>1, <1>2 DEF SpentOf
    <3> HIDE DEF spent
    <3> QED BY <3>1, <3>2
  <2>2. Cardinality(SpentOf(joined, open)) = Cardinality(spent) + 1
    BY <2>1, SpentFinite, FS_AddElement
  <2>3. RiskOf(known2, joined, open) \subseteq risk \cup {p}
    BY <1>3, <1>5
  <2>4. IsFiniteSet(risk \cup {p}) /\ Cardinality(risk \cup {p}) <= Cardinality(risk) + 1
    BY RiskFinite, OneMore
  <2>5. /\ Cardinality(RiskOf(known2, joined, open)) <= Cardinality(risk \cup {p})
        /\ Cardinality(RiskOf(known2, joined, open)) \in Nat
        /\ Cardinality(risk \cup {p}) \in Nat
    BY <2>3, <2>4, FS_Subset, FS_CardinalityType
  <2>6. Cardinality(risk) \in Nat /\ Cardinality(spent) \in Nat /\ Cardinality(risk) <= Cardinality(spent)
    BY RiskFinite, SpentFinite DEF CoveredBy
  <2> HIDE DEF risk, spent
  <2> QED BY <2>2, <2>4, <2>5, <2>6 DEF CoveredBy
<1> QED BY <1>4, <1>5 DEF Acknowledges

(* ------------------------------ the invariant ----------------------------- *)

FileGood ==
  /\ lines \in Seq(Line) /\ unended \in BOOLEAN /\ (unended => lines # <<>>)
  /\ acked \subseteq Payloads /\ IsFiniteSet(acked)
  /\ Signed(lines) /\ Distinct(lines) /\ CoveredBy(acked, lines, unended)

StoresGood ==
  /\ holder \in Stores \cup {NoStore} /\ store \in [Stores -> StoreType]
  /\ \A s \in Stores :
       /\ store[s].pc = "loaded" <=> holder = s
       /\ store[s].pc \in {"waiting", "loaded"} => store[s].payload \in Payloads

\* Who holds the lock knows what the file holds.
IndexOf(file) == {Signature(file[i].payload) : i \in RecordsOf(file)}
UpToDate ==
  \A s \in Stores :
    store[s].pc = "loaded" =>
      store[s].index = IndexOf(lines) /\ store[s].last = ChainOf(lines, Len(lines) + 1)

LogInv == FileGood /\ StoresGood /\ UpToDate

LEMMA ListedIs ==
  /\ Listed = RecordsOf(lines) /\ Indexed = IndexOf(lines)
  /\ LastChain = ChainOf(lines, Len(lines) + 1)
  /\ (ChainIntact <=> Signed(lines)) /\ (NoDuplicates <=> Distinct(lines))
<1>1. Listed = RecordsOf(lines)
  BY DEF Listed, IsRecord, RecordsOf
<1>2. \A n : ChainBefore(n) = ChainOf(lines, n)
  BY <1>1 DEF ChainBefore, ChainOf, Earlier
<1> QED BY <1>1, <1>2
        DEF LastChain, Indexed, IndexOf, ChainIntact, Broken, Signed, NoDuplicates, Distinct

\* What a write may do to the file, whether it succeeds or stops half way.
LEMMA WritesGood ==
  ASSUME LogInv, NEW s \in Stores, store[s].pc = "loaded", ~Seen(s, store[s].payload),
         NEW line \in {Torn, Record(store[s].payload, store[s].last)}, lines' = Grown(line),
         unended' \in BOOLEAN, line = Torn => unended',
         Acknowledges(acked, store[s].payload, unended', acked')
  PROVE  FileGood'
<1>1. PICK p \in Payloads : p = store[s].payload
  BY DEF LogInv, StoresGood
<1>2. /\ \A i \in RecordsOf(lines) : Signature(lines[i].payload) # Signature(p)
      /\ store[s].last = ChainOf(lines, Len(lines) + 1)
  BY <1>1 DEF LogInv, UpToDate, Seen, IndexOf
<1>3. store[s].last \in Seq(Signatures) /\ line \in Line
  BY <1>1, <1>2, ChainIs, TornIs, RecordIs DEF LogInv, FileGood
<1>4. acked' \subseteq Payloads /\ IsFiniteSet(acked')
  BY <1>1, OneMore DEF LogInv, FileGood, Acknowledges
<1>5. CASE ~unended
  <2>1. lines' = Append(lines, line)
    BY <1>5 DEF Grown
  <2>2. Signed(lines') /\ Distinct(lines')
    BY <1>1, <1>2, <2>1, AppendedSound DEF LogInv, FileGood
  <2>3. lines' \in Seq(Line) /\ lines' # <<>>
    BY <1>3, <2>1 DEF LogInv, FileGood
  <2>4. CoveredBy(acked, lines, FALSE)
    BY <1>5 DEF LogInv, FileGood, CoveredBy, RiskOf, SpentOf
  <2>5. CoveredBy(acked', lines', unended')
    BY <1>1, <1>2, <1>3, <2>1, <2>4, AppendCovered DEF LogInv, FileGood
  <2> QED BY <1>4, <2>2, <2>3, <2>5 DEF FileGood
<1>6. CASE unended
  <2>1. lines' = [lines EXCEPT ![Len(lines)] = Torn] /\ lines # <<>>
    BY <1>6 DEF Grown, LogInv, FileGood
  <2>2. Signed(lines') /\ Distinct(lines')
    BY <2>1, JoinedSound DEF LogInv, FileGood
  <2>3. lines' \in Seq(Line) /\ lines' # <<>>
    BY <2>1, LineJoined, EmptySeq DEF LogInv, FileGood
  <2>4. CoveredBy(acked, lines, TRUE)
    BY <1>6 DEF LogInv, FileGood, CoveredBy, RiskOf, SpentOf
  <2>5. CoveredBy(acked', lines', unended')
    BY <1>1, <2>1, <2>4, JoinCovered DEF LogInv, FileGood
  <2> QED BY <1>4, <2>2, <2>3, <2>5 DEF FileGood
<1> QED BY <1>5, <1>6 DEF LogInv, FileGood

LEMMA HalfWrittenGood ==
  ASSUME LogInv, NEW s \in Stores, store[s].pc = "loaded", ~Seen(s, store[s].payload),
         HalfWritten(s), UNCHANGED acked
  PROVE  FileGood'
<1> DEFINE rec == Record(store[s].payload, store[s].last)
<1>1. CASE UNCHANGED <<lines, unended>>
  BY <1>1 DEF LogInv, FileGood
<1>2. ASSUME lines' = Grown(Torn), unended' = TRUE
      PROVE  FileGood'
  BY <1>2, WritesGood DEF Acknowledges
<1>3. ASSUME lines' = Grown(rec), unended' \in BOOLEAN
      PROVE  FileGood'
  <2>1. rec # Torn
    BY DEF Record, Torn
  <2> QED BY <1>3, <2>1, WritesGood DEF Acknowledges
<1> QED BY <1>1, <1>2, <1>3 DEF HalfWritten

\* The lock is free again: the others knew nothing of the file.
LEMMA ReturnKeeps ==
  ASSUME LogInv, FileGood', NEW s \in Stores, store[s].pc = "loaded",
         NEW rec \in StoreType, Return(s, rec)
  PROVE  LogInv'
<1>1. /\ store' \in [Stores -> StoreType] /\ store'[s].pc = "idle"
      /\ \A t \in Stores \ {s} : store'[t] = store[t]
  BY DEF Return, LogInv, StoresGood, StoreType
<1>2. holder = s /\ holder' = NoStore /\ \A t \in Stores \ {s} : store[t].pc # "loaded"
  BY DEF Return, LogInv, StoresGood
<1>3. \A t \in Stores : store'[t].pc # "loaded"
  BY <1>1, <1>2
<1>4. StoresGood'
  BY <1>1, <1>2, <1>3, EvidenceConstants DEF LogInv, StoresGood
<1> QED BY <1>3, <1>4 DEF LogInv, UpToDate

\* Nobody's lock changes hands, and the file rests.
LEMMA RestKeeps ==
  ASSUME LogInv, NEW s \in Stores, NEW rec \in StoreType, store' = [store EXCEPT ![s] = rec],
         store[s].pc # "loaded", rec.pc # "loaded",
         rec.pc = "waiting" => rec.payload \in Payloads,
         UNCHANGED <<lines, unended, holder, acked>>
  PROVE  LogInv'
<1>1. /\ store' \in [Stores -> StoreType]
      /\ \A t \in Stores : store'[t] = IF t = s THEN rec ELSE store[t]
  BY DEF LogInv, StoresGood
<1>2. FileGood'
  BY DEF LogInv, FileGood
<1>3. StoresGood'
  BY <1>1 DEF LogInv, StoresGood
<1>4. UpToDate'
  BY <1>1 DEF LogInv, UpToDate
<1> QED BY <1>2, <1>3, <1>4 DEF LogInv

LEMMA LogInitial == Init => LogInv
<1> SUFFICES ASSUME Init
             PROVE  LogInv
  OBVIOUS
<1>1. lines = <<>> /\ RecordsOf(lines) = {}
  BY DEF Init, RecordsOf
<1>2. lines \in Seq(Line) /\ Signed(lines) /\ Distinct(lines)
  BY <1>1 DEF Signed, Distinct
<1>3. RiskOf(acked, lines, unended) = {} /\ SpentOf(lines, unended) = {}
  BY <1>1 DEF Init, RiskOf, SpentOf
<1>4. CoveredBy(acked, lines, unended)
  BY <1>3, FS_EmptySet DEF CoveredBy
<1>5. FileGood
  BY <1>2, <1>4, FS_EmptySet DEF Init, FileGood
<1>6. FreshStore \in StoreType /\ FreshStore.pc = "idle"
  BY DEF FreshStore, StoreType
<1>7. StoresGood /\ UpToDate
  BY <1>6, EvidenceConstants DEF Init, StoresGood, UpToDate
<1> QED BY <1>5, <1>7 DEF LogInv

LEMMA LogNextKeeps ==
  ASSUME LogInv, [Next]_vars
  PROVE  LogInv'
<1>1. CASE UNCHANGED vars
  BY <1>1 DEF vars, LogInv, FileGood, StoresGood, UpToDate
<1>2. ASSUME NEW s \in Stores
      PROVE  store[s] \in StoreType /\ (UNCHANGED <<lines, unended, acked>> => FileGood')
  BY DEF LogInv, StoresGood, FileGood
<1>3. ASSUME NEW s \in Stores, NEW p \in Payloads, Call(s, p)
      PROVE  LogInv'
  <2> DEFINE rec == [store[s] EXCEPT !.pc = "waiting", !.payload = p]
  <2>1. rec \in StoreType /\ rec.pc = "waiting" /\ rec.payload = p
    BY <1>2 DEF StoreType
  <2>2. store' = [store EXCEPT ![s] = rec]
    BY <1>3 DEF Call, LogInv, StoresGood
  <2> HIDE DEF rec
  <2> QED BY <1>3, <2>1, <2>2, RestKeeps DEF Call
<1>4. ASSUME NEW s \in Stores, AcquireAndLoad(s)
      PROVE  LogInv'
  <2> DEFINE rec == [Loaded(s) EXCEPT !.pc = "loaded"]
  <2>1. Indexed = IndexOf(lines) /\ LastChain = ChainOf(lines, Len(lines) + 1)
    BY ListedIs
  <2>2. IndexOf(lines) \subseteq Signatures /\ ChainOf(lines, Len(lines) + 1) \in Seq(Signatures)
    BY FileIs, ChainIs DEF LogInv, FileGood, IndexOf, Signatures
  <2>3. /\ rec \in StoreType /\ rec.pc = "loaded" /\ rec.payload = store[s].payload
        /\ rec.index = IndexOf(lines) /\ rec.last = ChainOf(lines, Len(lines) + 1)
    BY <1>2, <2>1, <2>2 DEF Loaded, StoreType
  <2>4. /\ store' \in [Stores -> StoreType]
        /\ \A t \in Stores : store'[t] = IF t = s THEN rec ELSE store[t]
    BY <1>4, <2>3 DEF AcquireAndLoad, LogInv, StoresGood
  <2> HIDE DEF rec
  <2>5. FileGood' /\ UNCHANGED lines
    BY <1>2, <1>4 DEF AcquireAndLoad
  <2>6. holder' = s /\ \A t \in Stores : store[t].pc # "loaded"
    BY <1>4, EvidenceConstants DEF AcquireAndLoad, LockFree, LogInv, StoresGood
  <2>7. store[s].payload \in Payloads
    BY <1>4 DEF AcquireAndLoad, LogInv, StoresGood
  <2>8. StoresGood'
    BY <2>3, <2>4, <2>6, <2>7 DEF LogInv, StoresGood
  <2>9. UpToDate'
    BY <2>3, <2>4, <2>5, <2>6 DEF UpToDate
  <2> QED BY <2>5, <2>8, <2>9 DEF LogInv
<1>5. ASSUME NEW s \in Stores, TimeOut(s)
      PROVE  LogInv'
  <2> DEFINE rec == [store[s] EXCEPT !.pc = "idle", !.payload = NoPayload]
  <2>1. rec \in StoreType /\ rec.pc = "idle"
    BY <1>2 DEF StoreType
  <2>2. store' = [store EXCEPT ![s] = rec]
    BY <1>5 DEF TimeOut, LogInv, StoresGood
  <2> HIDE DEF rec
  <2> QED BY <1>5, <2>1, <2>2, RestKeeps DEF TimeOut
<1>6. ASSUME NEW s \in Stores, SkipDuplicate(s)
      PROVE  LogInv'
  BY <1>2, <1>6, ReturnKeeps DEF SkipDuplicate
<1>7. ASSUME NEW s \in Stores, Write(s)
      PROVE  LogInv'
  <2> DEFINE line == Record(store[s].payload, store[s].last)
             rec == [store[s] EXCEPT !.index = @ \cup {Signature(store[s].payload)}, !.last = line.chain]
  <2>1. store[s].payload \in Payloads /\ store[s].last \in Seq(Signatures)
    BY <1>2, <1>7 DEF Write, LogInv, StoresGood, StoreType
  <2>2. line # Torn /\ line.chain \in Seq(Signatures)
    BY <2>1, FileIs, TornIs, RecordIs DEF Signatures, Record
  <2>3. FileGood'
    BY <1>7, <2>2, WritesGood DEF Write, Acknowledges
  <2>4. rec \in StoreType
    BY <1>2, <2>1, <2>2 DEF StoreType, Signatures
  <2> QED BY <1>7, <2>3, <2>4, ReturnKeeps DEF Write
<1>8. ASSUME NEW s \in Stores, WriteFails(s)
      PROVE  LogInv'
  <2>1. FileGood'
    BY <1>8, HalfWrittenGood DEF WriteFails
  <2> QED BY <1>2, <1>8, <2>1, ReturnKeeps DEF WriteFails
<1>9. ASSUME NEW s \in Stores, Die(s)
      PROVE  LogInv'
  <2> DEFINE rec == [FreshStore EXCEPT !.pc = "dead"]
  <2>1. rec \in StoreType /\ rec.pc = "dead"
    <3>1. FreshStore \in StoreType
      BY DEF FreshStore, StoreType
    <3> QED BY <3>1 DEF StoreType
  <2>2. /\ store' \in [Stores -> StoreType]
        /\ \A t \in Stores : store'[t] = IF t = s THEN rec ELSE store[t]
    BY <1>9, <2>1 DEF Die, LogInv, StoresGood
  <2> HIDE DEF rec
  <2>3. FileGood' /\ (store[s].pc # "loaded" => UNCHANGED lines)
    BY <1>2, <1>9, HalfWrittenGood DEF Die
  <2>4. holder' = IF holder = s THEN NoStore ELSE holder
    BY <1>9 DEF Die
  <2>5. StoresGood'
    BY <2>1, <2>2, <2>4, EvidenceConstants DEF LogInv, StoresGood
  <2>6. UpToDate'
    BY <2>1, <2>2, <2>3 DEF LogInv, StoresGood, UpToDate
  <2> QED BY <2>3, <2>5, <2>6 DEF LogInv
<1>10. ASSUME NEW s \in Stores, Restart(s)
       PROVE  LogInv'
  <2>1. FreshStore \in StoreType /\ FreshStore.pc = "idle"
    BY DEF FreshStore, StoreType
  <2> QED BY <1>10, <2>1, RestKeeps DEF Restart
<1> QED BY <1>1, <1>3, <1>4, <1>5, <1>6, <1>7, <1>8, <1>9, <1>10 DEF Next

(* -------------------------------- theorems -------------------------------- *)

LEMMA LogInvariant == Spec => []LogInv
<1>1. Init => LogInv
  BY LogInitial
<1>2. LogInv /\ [Next]_vars => LogInv'
  BY LogNextKeeps
<1> QED BY <1>1, <1>2, PTL DEF Spec

\* Whatever any number of processes write, fail and die: the records that can be read
\* form one chain, so neither list nor an append raises MalformedEvidenceError.
THEOREM LogChainIntact == Spec => []ChainIntact
<1>1. LogInv => ChainIntact
  BY ListedIs DEF LogInv, FileGood
<1> QED BY <1>1, LogInvariant, PTL

\* A retry, from whichever process, adds no payload signature a second time.
THEOREM LogHasNoDuplicates == Spec => []NoDuplicates
<1>1. LogInv => NoDuplicates
  BY ListedIs DEF LogInv, FileGood
<1> QED BY <1>1, LogInvariant, PTL

\* There are at least as many torn lines as acknowledged records that are missing.
THEOREM LossesAreTorn == Spec => []TornTakesOne
<1>1. ASSUME LogInv
      PROVE  TornTakesOne
  <2> DEFINE risk == RiskOf(acked, lines, unended)
             spent == SpentOf(lines, unended)
  <2>1. Missing \subseteq risk
    BY ListedIs DEF Missing, RiskOf
  <2>2. spent \subseteq TornLines
    BY ListedIs DEF TornLines, SpentOf
  <2>3. TornLines \subseteq 1..Len(lines) /\ Len(lines) \in Nat
    BY <1>1, FileIs DEF TornLines, LogInv, FileGood
  <2>4. IsFiniteSet(risk) /\ Cardinality(risk) \in Nat /\ Cardinality(spent) \in Nat
    BY <1>1, RiskFinite, SpentFinite DEF LogInv, FileGood
  <2>5. Cardinality(risk) <= Cardinality(spent)
    BY <1>1 DEF LogInv, FileGood, CoveredBy
  <2> HIDE DEF risk, spent
  <2>6. Cardinality(Missing) <= Cardinality(risk) /\ Cardinality(Missing) \in Nat
    BY <2>1, <2>4, FS_Subset, FS_CardinalityType
  <2>7. IsFiniteSet(TornLines)
    <3>1. IsFiniteSet(1..Len(lines))
      BY <2>3, FS_Interval
    <3> QED BY <2>3, <3>1, FS_Subset
  <2>8. Cardinality(spent) <= Cardinality(TornLines) /\ Cardinality(TornLines) \in Nat
    BY <2>2, <2>7, FS_Subset, FS_CardinalityType
  <2> QED BY <2>4, <2>5, <2>6, <2>8 DEF TornTakesOne
<1>2. LogInv => TornTakesOne
  BY <1>1
<1> QED BY <1>2, LogInvariant, PTL

(* -------------------------- the promise of the log ------------------------ *)

SignatureOf(file, i) == Signature(file[i].payload)
Names(file, n) == Range(ChainOf(file, n)) = {SignatureOf(file, i) : i \in Earlier(file, n)}

LEMMA RangeAppend ==
  ASSUME NEW S, NEW seq \in Seq(S), NEW e
  PROVE  Range(Append(seq, e)) = Range(seq) \cup {e}
<1>1. /\ DOMAIN seq = 1..Len(seq) /\ Len(seq) \in Nat
      /\ DOMAIN Append(seq, e) = 1..(Len(seq) + 1) /\ Append(seq, e)[Len(seq) + 1] = e
      /\ \A i \in 1..Len(seq) : Append(seq, e)[i] = seq[i]
  OBVIOUS
<1>2. 1..(Len(seq) + 1) = 1..Len(seq) \cup {Len(seq) + 1}
  BY <1>1
<1>3. Range(Append(seq, e)) = {Append(seq, e)[i] : i \in 1..Len(seq)} \cup {e}
  BY <1>1, <1>2 DEF Range
<1>4. Range(seq) = {Append(seq, e)[i] : i \in 1..Len(seq)}
  BY <1>1 DEF Range
<1> QED BY <1>3, <1>4

LEMMA FrontOfAppend ==
  ASSUME NEW S, NEW seq \in Seq(S), NEW e \in S
  PROVE  Front(Append(seq, e)) = seq
<1>1. /\ Append(seq, e) \in Seq(S) /\ Len(seq) \in Nat /\ Len(Append(seq, e)) = Len(seq) + 1
      /\ \A i \in 1..Len(seq) : Append(seq, e)[i] = seq[i]
  OBVIOUS
<1>2. Front(Append(seq, e)) = [i \in 1..Len(seq) |-> Append(seq, e)[i]]
  BY <1>1 DEF Front
<1> QED BY <1>1, <1>2

\* The chain signature before a line names the records before it, and no others.
LEMMA ChainNames ==
  ASSUME NEW file \in Seq(Line), Signed(file), NEW n \in 1..(Len(file) + 1)
  PROVE  Names(file, n)
<1> DEFINE wrong == {m \in 1..(Len(file) + 1) : ~Names(file, m)}
<1> SUFFICES ASSUME wrong # {} PROVE FALSE
  OBVIOUS
<1>0. Len(file) \in Nat /\ RecordsOf(file) \subseteq 1..Len(file)
  BY FileIs
<1>1. wrong \subseteq Nat
  BY <1>0
<1>2. PICK m \in wrong : \A k \in wrong : m <= k
  BY <1>1, LeastOf
<1>3. m \in 1..(Len(file) + 1) /\ ~Names(file, m) /\ m \in Nat
  BY <1>1
<1>4. \A k \in 1..(Len(file) + 1) : k < m => Names(file, k)
  BY <1>0, <1>2, <1>3
<1> HIDE DEF wrong
<1>5. CASE Earlier(file, m) = {}
  <2>1. ChainOf(file, m) = <<>>
    BY <1>5 DEF ChainOf
  <2> QED BY <1>3, <1>5, <2>1 DEF Names, Range
<1>6. CASE Earlier(file, m) # {}
  <2> DEFINE last == CHOOSE i \in Earlier(file, m) : \A j \in Earlier(file, m) : j <= i
  <2>1. last \in Earlier(file, m) /\ \A j \in Earlier(file, m) : j <= last
    <3>1. Earlier(file, m) \subseteq 0..Len(file)
      BY <1>0 DEF Earlier
    <3>2. \E i \in Earlier(file, m) : \A j \in Earlier(file, m) : j <= i
      BY <1>0, <1>6, <3>1, GreatestOf
    <3> QED BY <3>2
  <2>2. ChainOf(file, m) = file[last].chain
    BY <1>6 DEF ChainOf
  <2> HIDE DEF last
  <2>3. last \in RecordsOf(file) /\ last < m /\ last \in 1..(Len(file) + 1)
    BY <1>0, <2>1 DEF Earlier
  <2>4. ChainOf(file, m) = Append(ChainOf(file, last), SignatureOf(file, last))
    BY <2>2, <2>3 DEF Signed, SignatureOf
  <2>5. Range(ChainOf(file, m)) = Range(ChainOf(file, last)) \cup {SignatureOf(file, last)}
    BY <2>4, ChainIs, RangeAppend
  <2>6. Names(file, last)
    BY <1>4, <2>3
  <2>7. Earlier(file, m) = Earlier(file, last) \cup {last}
    BY <1>0, <1>3, <2>1, <2>3 DEF Earlier
  <2>8. {SignatureOf(file, i) : i \in Earlier(file, m)}
          = {SignatureOf(file, i) : i \in Earlier(file, last)} \cup {SignatureOf(file, last)}
    BY <2>7
  <2> QED BY <1>3, <2>5, <2>6, <2>8 DEF Names
<1> QED BY <1>5, <1>6

LEMMA ChainFollows ==
  ASSUME NEW file, NEW n, NEW m, Earlier(file, m) = Earlier(file, n)
  PROVE  ChainOf(file, m) = ChainOf(file, n)
<1> DEFINE lastOf(S) == IF S = {} THEN <<>> ELSE file[CHOOSE i \in S : \A j \in S : j <= i].chain
<1>1. ChainOf(file, m) = lastOf(Earlier(file, m)) /\ ChainOf(file, n) = lastOf(Earlier(file, n))
  BY DEF ChainOf
<1> HIDE DEF lastOf
<1> QED BY <1>1

\* What an append leaves of the chain and of the torn lines.
LEMMA AppendedTail ==
  ASSUME NEW file \in Seq(Line), NEW line \in Line,
         NEW grown, grown = Append(file, line)
  PROVE  /\ grown[Len(grown)] = line
         /\ ChainOf(grown, Len(grown) + 1)
              = IF line.torn THEN ChainOf(file, Len(file) + 1) ELSE line.chain
         /\ SpentOf(grown, TRUE) = SpentOf(file, FALSE)
         /\ ~line.torn => SpentOf(grown, FALSE) = SpentOf(file, FALSE)
<1>1. PICK n : n = Len(file) + 1
  OBVIOUS
<1>2. /\ RecordsOf(file) \subseteq 1..Len(file) /\ Len(file) \in Nat /\ n \in Nat
      /\ DOMAIN file = 1..Len(file) /\ DOMAIN grown = 1..n /\ Len(grown) = n
      /\ RecordsOf(grown) = IF line.torn THEN RecordsOf(file) ELSE RecordsOf(file) \cup {n}
      /\ grown[n] = line /\ \A i \in RecordsOf(file) : grown[i] = file[i] /\ i < n
  <2>1. Longer(file, line, grown)
    BY LineAppended
  <2>2. Len(file) \in Nat /\ DOMAIN file = 1..Len(file) /\ RecordsOf(file) \subseteq 1..Len(file)
    BY FileIs
  <2>3. DOMAIN grown = 1..Len(grown)
    BY <2>1 DEF Longer
  <2>4. \A i \in RecordsOf(file) : i \in 1..Len(file) /\ i < n
    BY <1>1, <2>2
  <2> QED BY <1>1, <2>1, <2>2, <2>3, <2>4 DEF Longer
<1>3. 1..n = 1..Len(file) \cup {n} /\ n \notin 1..Len(file)
  BY <1>1, <1>2
<1>4. /\ SpentOf(grown, TRUE) = SpentOf(file, FALSE)
      /\ ~line.torn => SpentOf(grown, FALSE) = SpentOf(file, FALSE)
  BY <1>2, <1>3 DEF SpentOf
<1>5. CASE line.torn
  <2>1. Earlier(grown, n + 1) = Earlier(grown, n)
    BY <1>2, <1>5 DEF Earlier
  <2>2. ChainOf(grown, n) = ChainOf(file, n)
    <3>1. Longer(file, line, grown)
      BY LineAppended
    <3>2. n \in 1..(Len(file) + 1)
      BY <1>1, <1>2
    <3> QED BY <3>1, <3>2 DEF Longer
  <2>3. ChainOf(grown, n + 1) = ChainOf(grown, n)
    BY <2>1, ChainFollows
  <2> QED BY <1>1, <1>2, <1>4, <1>5, <2>2, <2>3
<1>6. CASE ~line.torn
  <2>1. n \in Earlier(grown, n + 1) /\ \A i \in Earlier(grown, n + 1) : i <= n
    BY <1>2, <1>6 DEF Earlier
  <2>2. (CHOOSE i \in Earlier(grown, n + 1) : \A j \in Earlier(grown, n + 1) : j <= i) = n
    <3> DEFINE last == CHOOSE i \in Earlier(grown, n + 1) : \A j \in Earlier(grown, n + 1) : j <= i
    <3>1. last \in Earlier(grown, n + 1) /\ \A j \in Earlier(grown, n + 1) : j <= last
      BY <2>1
    <3>2. last <= n /\ n <= last /\ last \in Nat
      BY <1>2, <1>6, <2>1, <3>1 DEF Earlier
    <3> QED BY <1>2, <3>2
  <2>3. ChainOf(grown, n + 1) = line.chain
    BY <1>2, <2>1, <2>2 DEF ChainOf
  <2> QED BY <1>1, <1>2, <1>4, <1>6, <2>3
<1> QED BY <1>5, <1>6

\* What joining the last line to a new one leaves of them.
LEMMA JoinedTail ==
  ASSUME NEW file \in Seq(Line), file # <<>>, Signed(file), NEW open \in BOOLEAN,
         NEW joined, joined = [file EXCEPT ![Len(file)] = Torn]
  PROVE  /\ joined[Len(joined)].torn
         /\ ChainOf(joined, Len(joined) + 1)
              = IF file[Len(file)].torn THEN ChainOf(file, Len(file) + 1)
                ELSE Front(ChainOf(file, Len(file) + 1))
         /\ open => SpentOf(joined, open) = SpentOf(file, TRUE)
         /\ ~open => Cardinality(SpentOf(joined, open)) = Cardinality(SpentOf(file, TRUE)) + 1
<1>1. PICK n : n = Len(file)
  OBVIOUS
<1>2. /\ joined \in Seq(Line) /\ Len(joined) = n /\ n \in Nat \ {0}
      /\ DOMAIN joined = 1..n /\ DOMAIN file = 1..n /\ RecordsOf(file) \subseteq 1..n
      /\ RecordsOf(joined) = RecordsOf(file) \ {n} /\ joined[n] = Torn
      /\ \A i \in RecordsOf(joined) : joined[i] = file[i]
  <2>1. /\ joined \in Seq(Line) /\ Len(joined) = n /\ n \in Nat \ {0}
        /\ RecordsOf(joined) = RecordsOf(file) \ {n}
        /\ \A i \in RecordsOf(joined) : joined[i] = file[i]
    <3>1. \A i \in RecordsOf(joined) : joined[i] = file[i]
      BY LineJoined, FileIs
    <3> QED BY <1>1, <3>1, LineJoined
  <2>2. DOMAIN file = 1..n /\ RecordsOf(file) \subseteq 1..n
    BY <1>1, FileIs
  <2>3. DOMAIN joined = 1..n /\ joined[n] = Torn
    BY <1>1, <2>1, <2>2
  <2> QED BY <2>1, <2>2, <2>3
<1>3. ChainOf(joined, n + 1) = ChainOf(file, n)
  <2>1. \A i \in RecordsOf(joined) : i \in Nat /\ i < n + 1 /\ i < n
    <3>1. \A i \in RecordsOf(joined) : i \in 1..n /\ i # n
      BY <1>2
    <3>2. \A i \in 1..n : i # n => i \in Nat /\ i < n + 1 /\ i < n
      BY <1>2
    <3> QED BY <3>1, <3>2
  <2>2. Earlier(joined, n + 1) = Earlier(joined, n)
    BY <2>1 DEF Earlier
  <2>3. ChainOf(joined, n + 1) = ChainOf(joined, n)
    BY <2>2, ChainFollows
  <2>4. \A m \in 1..Len(file) : ChainOf(joined, m) = ChainOf(file, m)
    BY LineJoined, FileIs
  <2>5. n \in 1..Len(file)
    BY <1>1, <1>2
  <2> QED BY <2>3, <2>4, <2>5
<1>4. ASSUME file[n].torn
      PROVE  ChainOf(joined, n + 1) = ChainOf(file, n + 1)
  <2>1. Earlier(file, n + 1) = Earlier(file, n)
    <3>1. n \notin RecordsOf(file)
      BY <1>4 DEF RecordsOf
    <3> QED BY <1>2, <3>1 DEF Earlier
  <2>2. ChainOf(file, n + 1) = ChainOf(file, n)
    BY <2>1, ChainFollows
  <2> QED BY <1>3, <2>2
<1>5. ASSUME ~file[n].torn
      PROVE  ChainOf(joined, n + 1) = Front(ChainOf(file, n + 1))
  <2>1. n \in RecordsOf(file)
    BY <1>2, <1>5 DEF RecordsOf
  <2>2. ChainOf(file, n + 1) = Append(ChainOf(file, n), Signature(file[n].payload))
    <3>1. n \in Earlier(file, n + 1) /\ \A i \in Earlier(file, n + 1) : i <= n /\ i \in Nat
      BY <1>2, <2>1 DEF Earlier
    <3> DEFINE last == CHOOSE i \in Earlier(file, n + 1) : \A j \in Earlier(file, n + 1) : j <= i
    <3>2. last \in Earlier(file, n + 1) /\ \A j \in Earlier(file, n + 1) : j <= last
      BY <3>1
    <3>3. last = n
      BY <1>2, <3>1, <3>2
    <3>4. ChainOf(file, n + 1) = file[last].chain
      BY <3>1 DEF ChainOf
    <3> HIDE DEF last
    <3> QED BY <2>1, <3>3, <3>4 DEF Signed
  <2>3. ChainOf(file, n) \in Seq(Signatures) /\ Signature(file[n].payload) \in Signatures
    BY <2>1, ChainIs, FileIs DEF Signatures
  <2>4. Front(ChainOf(file, n + 1)) = ChainOf(file, n)
    BY <2>2, <2>3, FrontOfAppend
  <2> QED BY <1>3, <1>5, <2>4
<1>6. Len(file) = n /\ Len(joined) = n
  BY <1>1, <1>2
<1>9. /\ open => SpentOf(joined, open) = SpentOf(file, TRUE)
      /\ ~open => Cardinality(SpentOf(joined, open)) = Cardinality(SpentOf(file, TRUE)) + 1
  <2> DEFINE spent == SpentOf(file, TRUE)
  <2>1. spent = ((1..n) \ RecordsOf(file)) \ {n} /\ n \in 1..n
    BY <1>1, <1>2 DEF SpentOf
  <2>2. SpentOf(joined, open) = ((1..n) \ (RecordsOf(file) \ {n})) \ (IF open THEN {n} ELSE {})
    BY <1>2 DEF SpentOf
  <2>3. n \notin spent /\ IsFiniteSet(spent)
    BY <2>1, SpentFinite
  <2> HIDE DEF spent
  <2>4. (open => SpentOf(joined, open) = spent) /\ (~open => SpentOf(joined, open) = spent \cup {n})
    BY <2>1, <2>2
  <2>5. Cardinality(spent \cup {n}) = Cardinality(spent) + 1
    BY <2>3, FS_AddElement
  <2> QED BY <2>4, <2>5 DEF spent
<1>7. Torn.torn
  BY TornIs
<1>8. ChainOf(joined, n + 1)
        = IF file[n].torn THEN ChainOf(file, n + 1) ELSE Front(ChainOf(file, n + 1))
  BY <1>3, <1>4, <1>5
<1> QED BY <1>2, <1>6, <1>7, <1>8, <1>9

SignaturesOf(payloads) == {Signature(p) : p \in payloads}
TailOf(file, open) ==
  IF ~open THEN "ended" ELSE IF IsRecord(file[Len(file)]) THEN "record" ELSE "torn"

\* The ledger's variables, of the file.
LEMMA LedgerIs ==
  ASSUME LogInv
  PROVE  /\ LastChain = ChainOf(lines, Len(lines) + 1) /\ OpenTail = TailOf(lines, unended)
         /\ SpentLines = SpentOf(lines, unended)
         /\ Range(LastChain) = IndexOf(lines)
<1>1. LastChain = ChainOf(lines, Len(lines) + 1) /\ SpentLines = SpentOf(lines, unended)
  BY ListedIs DEF SpentLines, TornLines, SpentOf
<1>2. lines \in Seq(Line) /\ Len(lines) \in Nat /\ RecordsOf(lines) \subseteq 1..Len(lines)
  BY FileIs DEF LogInv, FileGood
<1>3. Earlier(lines, Len(lines) + 1) = RecordsOf(lines)
  <2>1. \A i \in 1..Len(lines) : i < Len(lines) + 1
    BY <1>2
  <2> QED BY <1>2, <2>1 DEF Earlier
<1>4. Len(lines) + 1 \in 1..(Len(lines) + 1)
  BY <1>2
<1>5. Names(lines, Len(lines) + 1)
  BY <1>2, <1>4, ChainNames DEF LogInv, FileGood
<1> QED BY <1>1, <1>3, <1>5 DEF OpenTail, TailOf, Names, IndexOf, SignatureOf

LEMMA NextLedgerIs ==
  /\ LastChain' = ChainOf(lines', Len(lines') + 1) /\ OpenTail' = TailOf(lines', unended')
  /\ SpentLines' = SpentOf(lines', unended')
<1>1. Listed' = RecordsOf(lines')
  BY DEF Listed, IsRecord, RecordsOf
<1>2. \A n : ChainBefore(n)' = ChainOf(lines', n)
  BY <1>1 DEF ChainBefore, ChainOf, Earlier
<1> QED BY <1>1, <1>2
        DEF LastChain, OpenTail, TailOf, IsRecord, SpentLines, TornLines, SpentOf

\* Each write, whether it succeeds or stops half way, is a step of the ledger.
LEMMA WritesAreLedgered ==
  ASSUME LogInv, LogInv', NEW s \in Stores, store[s].pc = "loaded", ~Seen(s, store[s].payload),
         NEW line \in {Torn, Record(store[s].payload, store[s].last)}, lines' = Grown(line),
         unended' \in BOOLEAN, line = Torn => unended',
         Acknowledges(acked, store[s].payload, unended', acked')
  PROVE  Ledger!Next
<1> DEFINE p == store[s].payload
           e == Signature(p)
<1>1. /\ p \in Payloads /\ e \in Signatures /\ e \notin Range(LastChain)
      /\ store[s].last = LastChain /\ LastChain \in Seq(Signatures)
  <2>1. p \in Payloads /\ store[s].last = LastChain /\ e \notin IndexOf(lines)
    BY LedgerIs DEF LogInv, StoresGood, UpToDate, Seen
  <2>2. LastChain \in Seq(Signatures) /\ Range(LastChain) = IndexOf(lines)
    BY LedgerIs, ChainIs DEF LogInv, FileGood
  <2> QED BY <2>1, <2>2 DEF Signatures
<1>2. /\ lines \in Seq(Line) /\ unended \in BOOLEAN /\ (unended => lines # <<>>) /\ Signed(lines)
      /\ line \in Line /\ (line.torn <=> line = Torn)
      /\ (line # Torn => line.chain = Append(LastChain, e))
  BY <1>1, TornIs, RecordIs DEF LogInv, FileGood
<1>3. /\ LastChain' = ChainOf(lines', Len(lines') + 1) /\ OpenTail' = TailOf(lines', unended')
      /\ SpentLines' = SpentOf(lines', unended')
  BY NextLedgerIs
<1>4. /\ SignaturesOf(acked') \in {SignaturesOf(acked), SignaturesOf(acked) \cup {e}}
      /\ unended' => SignaturesOf(acked') = SignaturesOf(acked)
  BY DEF Acknowledges, SignaturesOf
<1>5. CASE ~unended
  <2>1. lines' = Append(lines, line) /\ SpentLines = SpentOf(lines, FALSE) /\ OpenTail = "ended"
    BY <1>5, LedgerIs DEF Grown, SpentOf, TailOf
  <2>2. /\ SpentLines' = SpentLines
        /\ LastChain' = IF line.torn THEN LastChain ELSE line.chain
        /\ lines'[Len(lines')] = line
    <3>1. line.torn => unended'
      BY <1>2
    <3>2. /\ lines'[Len(lines')] = line
          /\ ChainOf(lines', Len(lines') + 1)
               = IF line.torn THEN ChainOf(lines, Len(lines) + 1) ELSE line.chain
          /\ SpentOf(lines', TRUE) = SpentOf(lines, FALSE)
          /\ ~line.torn => SpentOf(lines', FALSE) = SpentOf(lines, FALSE)
      BY <1>2, <2>1, AppendedTail
    <3>3. SpentOf(lines', unended') = SpentOf(lines, FALSE)
      <4>1. CASE unended'
        BY <3>2, <4>1 DEF SpentOf
      <4>2. CASE ~unended'
        BY <3>1, <3>2, <4>2 DEF SpentOf
      <4> QED BY <4>1, <4>2
    <3> QED BY <1>3, <2>1, <3>2, <3>3, LedgerIs
  <2>3. CASE line = Torn
    <3>1. OpenTail' = "torn" /\ LastChain' = LastChain /\ SignaturesOf(acked') = SignaturesOf(acked)
      BY <1>2, <1>3, <1>4, <2>2, <2>3 DEF TailOf, IsRecord
    <3>2. Ledger!Tear
      BY <2>1, <2>2, <3>1 DEF Ledger!Tear, Ledger!Stopped, SignaturesOf
    <3> QED BY <1>1, <3>2 DEF Ledger!Next, Ledger!Range, Range
  <2>4. CASE line # Torn
    <3>1. LastChain' = Append(LastChain, e) /\ OpenTail' = IF unended' THEN "record" ELSE "ended"
      BY <1>2, <1>3, <2>2, <2>4 DEF TailOf, IsRecord
    <3>2. Ledger!Done(e) \/ Ledger!Stopped("record")
      BY <1>4, <3>1 DEF Ledger!Done, Ledger!Stopped, SignaturesOf
    <3>3. Ledger!Add(e)
      BY <2>1, <2>2, <3>1, <3>2 DEF Ledger!Add
    <3> QED BY <1>1, <3>3 DEF Ledger!Next, Ledger!Range, Range
  <2> QED BY <2>3, <2>4
<1>6. CASE unended
  <2> DEFINE n == Len(lines)
  <2>1. /\ lines' = [lines EXCEPT ![n] = Torn] /\ lines # <<>> /\ SpentLines = SpentOf(lines, TRUE)
        /\ OpenTail = IF lines[n].torn THEN "torn" ELSE "record"
    BY <1>2, <1>6, LedgerIs DEF Grown, SpentOf, TailOf, IsRecord
  <2>2. /\ lines'[Len(lines')].torn
        /\ LastChain' = IF lines[n].torn THEN LastChain ELSE Front(LastChain)
        /\ unended' => SpentLines' = SpentLines
        /\ ~unended' => Cardinality(SpentLines') = Cardinality(SpentLines) + 1
    BY <1>2, <1>3, <2>1, JoinedTail, LedgerIs
  <2>3. OpenTail' = IF unended' THEN "torn" ELSE "ended"
    BY <1>3, <2>2 DEF TailOf, IsRecord
  <2>4. OpenTail # "ended" /\ LastChain' = IF OpenTail = "record" THEN Front(LastChain) ELSE LastChain
    BY <2>1, <2>2
  <2>5. \/ Ledger!Done(e) /\ Cardinality(SpentLines') = Cardinality(SpentLines) + 1
        \/ Ledger!Stopped("torn") /\ SpentLines' = SpentLines
    BY <1>4, <2>2, <2>3 DEF Ledger!Done, Ledger!Stopped, SignaturesOf
  <2>6. Ledger!Join(e)
    BY <2>4, <2>5 DEF Ledger!Join, Ledger!Front, Front
  <2> QED BY <1>1, <2>6 DEF Ledger!Next, Ledger!Range, Range
<1> QED BY <1>2, <1>5, <1>6

LEMMA LedgerRests ==
  ASSUME UNCHANGED <<lines, unended, acked>>
  PROVE  UNCHANGED Ledger!ledger
  BY DEF Ledger!ledger, LastChain, ChainBefore, Listed, OpenTail, IsRecord, SpentLines, TornLines

LEMMA HalfWrittenIsLedgered ==
  ASSUME LogInv, LogInv', NEW s \in Stores, store[s].pc = "loaded", ~Seen(s, store[s].payload),
         HalfWritten(s), UNCHANGED acked
  PROVE  [Ledger!Next]_Ledger!ledger
<1> DEFINE rec == Record(store[s].payload, store[s].last)
<1>1. CASE UNCHANGED <<lines, unended>>
  BY <1>1, LedgerRests
<1>2. ASSUME lines' = Grown(Torn), unended' = TRUE
      PROVE  Ledger!Next
  BY <1>2, WritesAreLedgered DEF Acknowledges
<1>3. ASSUME lines' = Grown(rec), unended' \in BOOLEAN
      PROVE  Ledger!Next
  <2>1. rec # Torn
    BY DEF Record, Torn
  <2> QED BY <1>3, <2>1, WritesAreLedgered DEF Acknowledges
<1> QED BY <1>1, <1>2, <1>3 DEF HalfWritten

\* The log of any number of processes that write, fail, die and come back is the ledger: no
\* record but the last one is ever lost, and that one only to an append that takes its place
\* in a line that had no newline.
THEOREM LogIsLedgered == Spec => Ledgered
<1>1. Init => Ledger!Init
  <2> SUFFICES ASSUME Init PROVE Ledger!Init
    OBVIOUS
  <2>1. LogInv /\ lines = <<>> /\ unended = FALSE /\ acked = {} /\ RecordsOf(lines) = {}
    BY LogInitial DEF Init, RecordsOf
  <2>2. LastChain = <<>> /\ OpenTail = "ended" /\ SpentLines = {}
    BY <2>1, LedgerIs DEF ChainOf, Earlier, TailOf, SpentOf
  <2> QED BY <2>1, <2>2, FS_EmptySet DEF Ledger!Init
<1>2. ASSUME LogInv, [Next]_vars
      PROVE  [Ledger!Next]_Ledger!ledger
  <2>1. LogInv'
    BY <1>2, LogNextKeeps
  <2>2. ASSUME NEW s \in Stores, Write(s)
        PROVE  Ledger!Next
    <3> DEFINE line == Record(store[s].payload, store[s].last)
    <3>1. line # Torn
      BY DEF Record, Torn
    <3> QED BY <1>2, <2>1, <2>2, <3>1, WritesAreLedgered DEF Write, Acknowledges
  <2>3. ASSUME NEW s \in Stores, WriteFails(s)
        PROVE  [Ledger!Next]_Ledger!ledger
    BY <1>2, <2>1, <2>3, HalfWrittenIsLedgered DEF WriteFails
  <2>4. ASSUME NEW s \in Stores, Die(s)
        PROVE  [Ledger!Next]_Ledger!ledger
    <3>1. CASE UNCHANGED <<lines, unended>>
      BY <2>4, <3>1, LedgerRests DEF Die
    <3>2. CASE store[s].pc = "loaded" /\ ~Seen(s, store[s].payload) /\ HalfWritten(s)
      BY <1>2, <2>1, <2>4, <3>2, HalfWrittenIsLedgered DEF Die
    <3> QED BY <2>4, <3>1, <3>2 DEF Die
  <2>5. ASSUME NEW s \in Stores,
               \/ \E p \in Payloads : Call(s, p)
               \/ AcquireAndLoad(s) \/ TimeOut(s) \/ SkipDuplicate(s) \/ Restart(s)
        PROVE  UNCHANGED Ledger!ledger
    BY <2>5, LedgerRests DEF Call, AcquireAndLoad, TimeOut, SkipDuplicate, Restart
  <2>6. CASE UNCHANGED vars
    BY <2>6, LedgerRests DEF vars
  <2> QED BY <1>2, <2>2, <2>3, <2>4, <2>5, <2>6 DEF Next
<1>3. LogInv /\ [Next]_vars => [Ledger!Next]_Ledger!ledger
  BY <1>2
<1> QED BY <1>1, <1>3, LogInvariant, PTL DEF Spec, Ledgered, Ledger!Spec

(* ------------------------------- the replay store ------------------------- *)

Use == {"replay", "granted", "refused"}

UsesTyped ==
  /\ wall \in Nat /\ config \in Configs
  /\ DOMAIN used \subseteq DOMAIN uses
  /\ \A m \in DOMAIN uses : m[2] \in Int /\ uses[m] \in Seq(Use) /\ uses[m] # <<>>
  /\ \A m \in DOMAIN used : used[m] \in Nat /\ used[m] <= wall

GrantedAt(m) == {i \in DOMAIN uses[m] : uses[m][i] = "granted"}

\* A token that was granted is in the store, entered no earlier than the tolerance before
\* its time, or its time is over.
Guarded(m) ==
  GrantedAt(m) # {} => IF m \in DOMAIN used THEN m[2] <= used[m] + SkewTolerance
                       ELSE m[2] + SkewTolerance < wall

UseInv ==
  UsesTyped /\ FirstUseWins /\ \A m \in DOMAIN uses : Guarded(m)

Bearer == Credentials \cup {NoCredential}

LEMMA BearerIs ==
  ASSUME NEW c \in Bearer
  PROVE  /\ c.kind \in {"none", "key", "token"} /\ c.at \in Int
         /\ c.kind # "none" => c.scope \in Scopes
         /\ Mac(c)[2] = c.at
BY IngressInputs DEF Bearer, NoCredential, Mac

\* What the store keeps and what it knows after a token is presented.
LEMMA StoreMoves ==
  ASSUME UseInv, NEW c \in Bearer, used' = Registered(c), UNCHANGED wall
  PROVE  /\ Mac(c) \in DOMAIN used'
         /\ \A m \in DOMAIN used' : /\ m \in DOMAIN used \cup {Mac(c)}
                                    /\ used'[m] \in Nat /\ used'[m] <= wall'
         /\ \A m \in DOMAIN used' : m # Mac(c) => used'[m] = used[m]
         /\ \A m \in DOMAIN used \ DOMAIN used' : used[m] < wall - ReplayWindow
         /\ IF Replayed(c) THEN Mac(c) \in DOMAIN used /\ used'[Mac(c)] = used[Mac(c)]
            ELSE used'[Mac(c)] = wall /\ (Mac(c) \in DOMAIN used => used[Mac(c)] < wall - ReplayWindow)
<1>1. DOMAIN Evicted = {m \in DOMAIN used : Kept(used[m])} /\ \A m \in DOMAIN Evicted : Evicted[m] = used[m]
  BY DEF Evicted
<1>2. DOMAIN used' = DOMAIN Evicted \cup {Mac(c)}
  BY DEF Registered
<1>3. \A m \in DOMAIN used' : used'[m] = IF m \in DOMAIN Evicted THEN used[m] ELSE wall
  BY <1>1 DEF Registered
<1>4. ReplayWindow \in Nat
  BY IngressConstants DEF ReplayWindow
<1>5. \A m \in DOMAIN used : m \notin DOMAIN Evicted => used[m] < wall - ReplayWindow
  BY <1>1, <1>4 DEF Kept, UseInv, UsesTyped
<1> QED BY <1>1, <1>2, <1>3, <1>5 DEF Replayed, UseInv, UsesTyped

LEMMA PresentedKeeps ==
  ASSUME UseInv, NEW c \in Bearer, NEW endpoint, Presented(c, endpoint),
         UNCHANGED <<wall, config>>
  PROVE  UseInv'
<1>1. CASE c.kind # "token"
  BY <1>1 DEF Presented, UseInv, UsesTyped, FirstUseWins, Guarded, GrantedAt
<1>2. CASE c.kind = "token"
  <2> DEFINE past == IF Mac(c) \in DOMAIN uses THEN uses[Mac(c)] ELSE <<>>
             now == IF Replayed(c) THEN "replay"
                    ELSE IF Genuine(c, endpoint) THEN "granted" ELSE "refused"
  <2>1. PICK m : m = Mac(c)
    OBVIOUS
  <2>2. /\ DOMAIN uses' = DOMAIN uses \cup {m} /\ uses'[m] = Append(past, now)
        /\ \A n \in DOMAIN uses : n # m => uses'[n] = uses[n]
    BY <1>2, <2>1 DEF Presented
  <2>3. past \in Seq(Use) /\ now \in Use /\ m[2] = c.at /\ c.at \in Int
    BY <2>1, BearerIs DEF UseInv, UsesTyped, Use
  <2>4. /\ uses'[m] \in Seq(Use) /\ uses'[m] # <<>> /\ DOMAIN uses'[m] = 1..(Len(past) + 1)
        /\ \A i \in 1..Len(past) : uses'[m][i] = past[i]
        /\ uses'[m][Len(past) + 1] = now /\ Len(past) \in Nat
    BY <2>2, <2>3, AppendProperties
  <2>5. /\ m \in DOMAIN used'
        /\ \A n \in DOMAIN used' : /\ n \in DOMAIN used \cup {m}
                                   /\ used'[n] \in Nat /\ used'[n] <= wall'
        /\ \A n \in DOMAIN used' : n # m => used'[n] = used[n]
        /\ \A n \in DOMAIN used \ DOMAIN used' : used[n] < wall - ReplayWindow
        /\ IF Replayed(c) THEN m \in DOMAIN used /\ used'[m] = used[m]
           ELSE used'[m] = wall /\ (m \in DOMAIN used => used[m] < wall - ReplayWindow)
    BY <1>2, <2>1, StoreMoves DEF Presented
  <2>6. UsesTyped'
    BY <2>2, <2>3, <2>4, <2>5 DEF UseInv, UsesTyped
  \* Whoever was granted and is in the store no more is over.
  <2>7. ASSUME NEW n \in DOMAIN uses, GrantedAt(n) # {},
               n \in DOMAIN used => used[n] < wall - ReplayWindow
        PROVE  n[2] + SkewTolerance < wall
    BY <2>7, IngressConstants DEF UseInv, UsesTyped, Guarded, ReplayWindow
  <2>8. now = "granted" /\ m \in DOMAIN uses => GrantedAt(m) = {}
    <3>1. SUFFICES ASSUME now = "granted", m \in DOMAIN uses, GrantedAt(m) # {}
                   PROVE  FALSE
      OBVIOUS
    <3>2. ~Replayed(c) /\ Genuine(c, endpoint)
      BY <3>1
    <3>3. m[2] + SkewTolerance < wall
      BY <2>5, <2>7, <3>1, <3>2
    <3>4. c.at - wall >= -SkewTolerance
      BY <3>2, <2>3, IngressConstants DEF Genuine, Within, UseInv, UsesTyped
    <3> QED BY <2>3, <3>3, <3>4, IngressConstants DEF UseInv, UsesTyped
  <2>9. ASSUME NEW n \in DOMAIN uses'
        PROVE  /\ uses'[n][1] # "replay"
               /\ \A i, j \in DOMAIN uses'[n] :
                    uses'[n][i] = "granted" /\ uses'[n][j] = "granted" => i = j
    <3>1. CASE n # m
      BY <2>2, <3>1 DEF UseInv, FirstUseWins
    <3>2. CASE n = m /\ m \notin DOMAIN uses
      <4>1. Len(past) = 0
        BY <2>1, <3>2
      <4>2. ~Replayed(c)
        BY <2>5, <3>2 DEF UseInv, UsesTyped
      <4>3. uses'[m][1] # "replay" /\ DOMAIN uses'[m] = {1}
        BY <2>4, <4>1, <4>2
      <4> QED BY <3>2, <4>3
    <3>3. CASE n = m /\ m \in DOMAIN uses
      <4>1. past = uses[m] /\ past # <<>> /\ Len(past) >= 1 /\ past[1] # "replay"
        BY <2>1, <2>4, <3>3, EmptySeq DEF UseInv, UsesTyped, FirstUseWins
      <4>2. \A i, j \in 1..Len(past) : past[i] = "granted" /\ past[j] = "granted" => i = j
        BY <3>3, <4>1 DEF UseInv, UsesTyped, FirstUseWins
      <4>3. now = "granted" => \A i \in 1..Len(past) : past[i] # "granted"
        BY <2>8, <3>3, <4>1 DEF GrantedAt, UseInv, UsesTyped
      <4>4. \A i \in 1..(Len(past) + 1) : i \in 1..Len(past) \/ i = Len(past) + 1
        BY <2>4
      <4> HIDE DEF past, now
      <4> QED BY <2>4, <3>3, <4>1, <4>2, <4>3, <4>4
    <3> QED BY <3>1, <3>2, <3>3
  <2>10. ASSUME NEW n \in DOMAIN uses'
         PROVE  Guarded(n)'
    <3>1. CASE n # m
      <4>1. n \in DOMAIN uses /\ GrantedAt(n)' = GrantedAt(n)
        BY <2>2, <3>1 DEF GrantedAt
      <4> QED BY <2>5, <2>7, <3>1, <4>1 DEF UseInv, Guarded
    <3>2. CASE n = m
      <4>1. SUFFICES ASSUME GrantedAt(m)' # {}
                     PROVE  m[2] <= used'[m] + SkewTolerance
        BY <2>5, <3>2 DEF Guarded
      <4>2. PICK i \in 1..(Len(past) + 1) : uses'[m][i] = "granted"
        BY <2>4, <4>1 DEF GrantedAt
      <4>3. i \in 1..Len(past) \/ i = Len(past) + 1
        BY <2>4
      <4>4. CASE i \in 1..Len(past)
        <5>1. m \in DOMAIN uses /\ past = uses[m]
          BY <2>1, <4>4
        <5>2. GrantedAt(m) # {}
          BY <2>4, <4>2, <4>4, <5>1 DEF GrantedAt, UseInv, UsesTyped
        <5>3. CASE Replayed(c)
          BY <2>5, <5>1, <5>2, <5>3 DEF UseInv, Guarded
        <5>4. CASE ~Replayed(c)
          <6>1. m[2] + SkewTolerance < wall /\ used'[m] = wall
            BY <2>5, <2>7, <5>1, <5>2, <5>4
          <6> QED BY <2>3, <6>1, IngressConstants DEF UseInv, UsesTyped
        <5> QED BY <5>3, <5>4
      <4>5. CASE i = Len(past) + 1
        <5>1. now = "granted"
          BY <2>4, <4>2, <4>5
        <5>2. ~Replayed(c) /\ Genuine(c, endpoint)
          BY <5>1
        <5>3. c.at - wall <= SkewTolerance /\ used'[m] = wall
          BY <2>3, <2>5, <5>2, IngressConstants DEF Genuine, Within, UseInv, UsesTyped
        <5> QED BY <2>3, <5>3, IngressConstants DEF UseInv, UsesTyped
      <4> QED BY <4>3, <4>4, <4>5
    <3> QED BY <3>1, <3>2
  <2> QED BY <2>6, <2>9, <2>10 DEF UseInv, FirstUseWins
<1> QED BY <1>1, <1>2

(* --------------------------------- requests ------------------------------- *)

Request ==
  [stage : {"idle", "gate", "body", "limiter", "creating", "health", "leases", "answered"},
   endpoint : Endpoints \cup {"none"}, cred : Bearer, key : Scopes \cup Peers \cup {"none"},
   by : {"none", "bearer", "signature"}, owed : BOOLEAN, status : Nat]

\* What a request carries fits its endpoint and how far it has come.
Fitting(h) ==
  /\ h.stage \in {"body", "limiter", "creating"} => h.endpoint = "monitoring"
  /\ h.stage \in {"health", "leases"} => h.endpoint = "ready"
  /\ h.stage \notin {"creating", "answered"} => h.by = "none" /\ ~h.owed
  /\ h.stage = "answered" /\ h.endpoint \in {"runs", "resume", "metrics"}
       /\ h.status \notin {401, 403}
     => h.cred.scope \in Serves(h.endpoint)
  /\ h.by = "bearer" \/ h.key \in Scopes => h.cred.scope \in Serves(h.endpoint)
  /\ h.owed => h.status \notin {401, 403}

HttpInv == http \in [Slots -> Request] /\ \A r \in Slots : Fitting(http[r])

LEMMA HttpMoves ==
  ASSUME HttpInv, NEW r \in Slots, NEW h \in Request, Fitting(h),
         http' = [http EXCEPT ![r] = h]
  PROVE  HttpInv'
BY DEF HttpInv

LEMMA VerifiedIs ==
  ASSUME NEW c \in Bearer, NEW e \in Endpoints, Verified(c, e).status = 200
  PROVE  Verified(c, e).scope = c.scope /\ c.scope \in Scopes /\ Covers(c.scope, e)
<1>1. Verified(c, e) = Scoped(c, e) /\ c.kind \in {"key", "token"}
  BY DEF Verified, Refused
<1>2. Covers(c.scope, e) /\ Scoped(c, e).scope = c.scope
  BY <1>1 DEF Scoped, Refused
<1> QED BY <1>1, <1>2, BearerIs

LEMMA StatusIs ==
  ASSUME NEW c \in Bearer, NEW e \in Endpoints
  PROVE  Verified(c, e).status \in {200, 401, 403}
BY DEF Verified, Refused, Scoped

\* Coverage and dependency together leave the scopes that an endpoint is for.
LEMMA ScopesMeet ==
  ASSUME NEW s \in Scopes, NEW e \in Endpoints, Covers(s, e), Dependency(s, e)
  PROVE  s \in Serves(e)
BY DEF Scopes, Endpoints, Covers, Dependency, Serves, Implied, ScopeEndpoints

LEMMA ServedIsCovered ==
  ASSUME NEW s \in Scopes, NEW e \in Endpoints \ {"ready"}, s \in Serves(e)
  PROVE  Covers(s, e) /\ Dependency(s, e)
BY DEF Scopes, Endpoints, Covers, Dependency, Serves, Implied, ScopeEndpoints

LEMMA OwedIsGiven ==
  ASSUME UseInv, NEW c \in Bearer, NEW e \in Endpoints \ {"ready"}, Owed(c, e)
  PROVE  Verified(c, e).status = 200 /\ Dependency(Verified(c, e).scope, e)
<1>1. c.scope \in Scopes /\ c.scope \in Serves(e)
  BY BearerIs DEF Owed
<1>2. Covers(c.scope, e) /\ Dependency(c.scope, e)
  BY <1>1, ServedIsCovered
<1>3. Scoped(c, e) = [scope |-> c.scope, status |-> 200]
  BY <1>2 DEF Scoped
<1>4. Verified(c, e) = Scoped(c, e)
  <2>1. CASE c.kind = "key" /\ c.scope \in config.keys
    BY <2>1 DEF Verified
  <2>2. CASE c.kind = "token" /\ Genuine(c, e) /\ Mac(c) \notin DOMAIN uses
    <3>1. ~Replayed(c)
      BY <2>2 DEF Replayed, Evicted, UseInv, UsesTyped
    <3> QED BY <2>2, <3>1 DEF Verified
  <2> QED BY <2>1, <2>2 DEF Owed
<1> QED BY <1>2, <1>3, <1>4

LEMMA AddressIs ==
  ASSUME NEW p \in Peers, NEW f \in Chains
  PROVE  Address(p, f) \in Peers
<1> DEFINE foreign == {i \in DOMAIN f : i <= MaxHops /\ f[i] \in Peers \ Trusted}
<1>1. CASE p \in Trusted /\ foreign # {}
  <2>1. \E i \in foreign : \A j \in foreign : i <= j
    BY <1>1, LeastOf, IngressInputs
  <2>2. (CHOOSE i \in foreign : \A j \in foreign : i <= j) \in foreign
    BY <2>1
  <2> QED BY <1>1, <2>2 DEF Address
<1>2. CASE ~(p \in Trusted /\ foreign # {})
  BY <1>2 DEF Address
<1> QED BY <1>1, <1>2

LEMMA RateKeyIs ==
  ASSUME NEW c \in Bearer, NEW p \in Peers, NEW f \in Chains
  PROVE  /\ RateKey(c, Address(p, f)) \in Scopes \cup Peers
         /\ RateKey(c, Address(p, f)) \in Scopes => c.scope \in Serves("monitoring")
<1>1. Address(p, f) \in Peers /\ Address(p, f) \notin Scopes
  BY AddressIs, IngressInputs
<1>2. Probed(c, "monitoring") \in {"monitor", "admin"} => c.scope \in {"monitor", "admin"}
  BY DEF Probed
<1> QED BY <1>1, <1>2 DEF RateKey, Scopes, Serves, Probed

\* A step of the requests, one action at a time.
LEMMA RequestsKeep ==
  ASSUME UseInv, HttpInv, NEW r \in Slots
  PROVE  /\ Incoming(r) \/ MonitoringGate(r) \/ BodyRead(r) \/ LimiterRefuses(r)
              \/ IssueCreated(r) \/ CreateFails(r) \/ ReadyGate(r) \/ ReadyHealth(r)
              \/ ReadyLeases(r) => HttpInv'
         /\ Endpoint(r) \/ Authenticate(r) => HttpInv'
<1>1. http[r] \in Request /\ Fitting(http[r])
  BY DEF HttpInv
<1>2. ASSUME NEW status \in Nat, status # 401 /\ status # 403, Answer(r, status),
             http[r].endpoint \in {"monitoring", "ready"}
      PROVE  HttpInv'
  <2> DEFINE h == [http[r] EXCEPT !.stage = "answered", !.key = "none", !.status = status]
  <2>1. h \in Request
    BY <1>1 DEF Request
  <2>2. Fitting(h)
    BY <1>1, <1>2 DEF Request, Fitting, Scopes
  <2>3. http' = [http EXCEPT ![r] = h]
    BY <1>2 DEF Answer, HttpInv
  <2> QED BY <2>1, <2>2, <2>3, HttpMoves
<1>3. ASSUME NEW stage \in {"body", "health", "leases"}, Reach(r, stage),
             http[r].stage \in {"gate", "health"},
             http[r].endpoint = IF stage = "body" THEN "monitoring" ELSE "ready"
      PROVE  HttpInv'
  <2> DEFINE h == [http[r] EXCEPT !.stage = stage]
  <2>1. h \in Request
    BY <1>1 DEF Request
  <2>2. Fitting(h)
    BY <1>1, <1>3 DEF Request, Fitting
  <2>3. http' = [http EXCEPT ![r] = h]
    BY <1>3 DEF Reach, HttpInv
  <2> QED BY <2>1, <2>2, <2>3, HttpMoves
<1>4. Incoming(r) => HttpInv'
  <2>1. SUFFICES ASSUME NEW e \in Endpoints, NEW c \in Credentials,
                        http' = [http EXCEPT ![r] =
                          [NoHttp EXCEPT !.stage = "gate", !.endpoint = e, !.cred = c]]
                 PROVE  HttpInv'
    BY DEF Incoming
  <2> DEFINE h == [NoHttp EXCEPT !.stage = "gate", !.endpoint = e, !.cred = c]
  <2>2. h \in Request
    BY DEF Request, NoHttp, Bearer
  <2>3. Fitting(h)
    BY DEF Fitting, NoHttp, Scopes
  <2> QED BY <2>1, <2>2, <2>3, HttpMoves
<1>5. MonitoringGate(r) \/ ReadyGate(r) => HttpInv'
  BY <1>2, <1>3 DEF MonitoringGate, ReadyGate
<1>6. BodyRead(r) => HttpInv'
  <2>1. ASSUME http[r].stage = "body", Answer(r, 413)
        PROVE  HttpInv'
    <3>1. http[r].endpoint \in {"monitoring", "ready"}
      BY <1>1, <2>1 DEF Fitting
    <3> QED BY <1>2, <2>1, <3>1
  <2>2. ASSUME NEW p \in Peers, NEW f \in Chains, http[r].stage = "body",
               http' = [http EXCEPT ![r] = [@ EXCEPT !.stage = "limiter",
                          !.key = RateKey(http[r].cred, Address(p, f))]]
        PROVE  HttpInv'
    <3>1. PICK key : key = RateKey(http[r].cred, Address(p, f))
      OBVIOUS
    <3>2. /\ key \in Scopes \cup Peers
          /\ key \in Scopes => http[r].cred.scope \in Serves("monitoring")
      BY <1>1, <3>1, RateKeyIs DEF Request
    <3> DEFINE h == [http[r] EXCEPT !.stage = "limiter", !.key = key]
    <3>3. h \in Request
      BY <1>1, <3>2 DEF Request
    <3>4. Fitting(h)
      BY <1>1, <2>2, <3>2 DEF Request, Fitting
    <3>5. http' = [http EXCEPT ![r] = h]
      BY <2>2, <3>1 DEF HttpInv
    <3> QED BY <3>3, <3>4, <3>5, HttpMoves
  <2> QED BY <2>1, <2>2 DEF BodyRead
<1>7. LimiterRefuses(r) \/ IssueCreated(r) \/ CreateFails(r) \/ ReadyHealth(r) \/ ReadyLeases(r)
      => HttpInv'
  BY <1>1, <1>2, <1>3
     DEF LimiterRefuses, IssueCreated, CreateFails, ReadyHealth, ReadyLeases, Fitting
<1>8. Endpoint(r) => HttpInv'
  <2>1. PICK c, e : c = http[r].cred /\ e = http[r].endpoint
    OBVIOUS
  <2> DEFINE served == Verified(c, e).status = 200 /\ Dependency(Verified(c, e).scope, e)
  <2>2. SUFFICES ASSUME Endpoint(r)
                 PROVE  HttpInv'
    OBVIOUS
  <2>3. c \in Bearer /\ e \in {"runs", "resume", "metrics"} /\ e \in Endpoints \ {"ready"}
    BY <1>1, <2>1, <2>2 DEF Endpoint, Request, Endpoints
  <2>4. PICK status :
          /\ status \in (IF ~served THEN {IF Verified(c, e).status = 200 THEN 403
                                          ELSE Verified(c, e).status}
                         ELSE CASE e = "runs" -> {200, 404}
                                [] e = "resume" -> {200, 400, 404}
                                [] OTHER -> {200})
          /\ http' = [http EXCEPT ![r] = [http[r] EXCEPT !.stage = "answered",
                                         !.status = status, !.owed = Owed(c, e)]]
    BY <2>1, <2>2 DEF Endpoint
  <2>5. /\ status \in Nat
        /\ served <=> (status \notin {401, 403})
    <3>1. Verified(c, e).status \in {200, 401, 403}
      BY <2>3, StatusIs
    <3>2. CASE served
      <4>1. status \in {200, 400, 404}
        BY <2>3, <2>4, <3>2
      <4> QED BY <3>2, <4>1
    <3>3. CASE ~served
      <4>1. status = IF Verified(c, e).status = 200 THEN 403 ELSE Verified(c, e).status
        BY <2>4, <3>3
      <4>2. status \in {401, 403}
        BY <3>1, <4>1
      <4> QED BY <3>3, <4>2
    <3> QED BY <3>2, <3>3
  <2>6. status \notin {401, 403} => c.scope \in Serves(e)
    BY <2>3, <2>5, VerifiedIs, ScopesMeet
  <2>7. Owed(c, e) => status \notin {401, 403}
    BY <2>3, <2>5, OwedIsGiven
  <2>8. PICK owed \in BOOLEAN : owed = Owed(c, e)
    BY DEF Owed
  <2> DEFINE h == [http[r] EXCEPT !.stage = "answered", !.status = status, !.owed = owed]
  <2>9. h \in Request
    BY <1>1, <2>5, <2>8 DEF Request
  <2>10. Fitting(h)
    BY <1>1, <2>1, <2>2, <2>3, <2>6, <2>7, <2>8 DEF Request, Fitting, Endpoint
  <2>11. http' = [http EXCEPT ![r] = h]
    BY <2>4, <2>8
  <2> QED BY <2>9, <2>10, <2>11, HttpMoves
<1>9. Authenticate(r) => HttpInv'
  <2>1. PICK c : c = http[r].cred
    OBVIOUS
  <2>2. SUFFICES ASSUME Authenticate(r)
                 PROVE  HttpInv'
    OBVIOUS
  <2>3. c \in Bearer /\ "monitoring" \in Endpoints \ {"ready"}
        /\ http[r].endpoint = "monitoring" /\ http[r].stage = "limiter"
    BY <1>1, <2>1, <2>2 DEF Authenticate, Request, Endpoints, Fitting
  <2>4. PICK owed \in BOOLEAN : owed = Owed(c, "monitoring")
    BY DEF Owed
  <2>5. owed => Verified(c, "monitoring").status = 200
    BY <2>3, <2>4, OwedIsGiven
  <2>6. Verified(c, "monitoring").status \in {200, 401, 403}
    BY <2>3, StatusIs
  <2>7. Verified(c, "monitoring").status = 200 => c.scope \in Serves("monitoring")
    BY <2>3, VerifiedIs, ScopesMeet DEF Dependency
  <2> DEFINE Ends(stage, by, status) ==
        http' = [http EXCEPT ![r] = [http[r] EXCEPT !.stage = stage, !.by = by,
                   !.key = "none", !.status = status, !.owed = Owed(c, "monitoring")]]
  <2>8. ASSUME NEW stage \in {"answered", "creating"}, NEW by \in {"none", "bearer", "signature"},
               NEW status \in Nat,
               by = "bearer" => Verified(c, "monitoring").status = 200,
               Verified(c, "monitoring").status = 200 => status \notin {401, 403},
               Ends(stage, by, status)
        PROVE  HttpInv'
    <3> DEFINE h == [http[r] EXCEPT !.stage = stage, !.by = by, !.key = "none",
                                    !.status = status, !.owed = owed]
    <3>2. h \in Request
      BY <1>1 DEF Request
    <3>3. Fitting(h)
      BY <1>1, <2>1, <2>3, <2>5, <2>7, <2>8 DEF Request, Fitting, Scopes
    <3>4. http' = [http EXCEPT ![r] = h]
      BY <2>4, <2>8
    <3> QED BY <3>2, <3>3, <3>4, HttpMoves
  <2>9. PICK status : status = Verified(c, "monitoring").status
    OBVIOUS
  <2>10. \/ status # 200 /\ Ends("answered", "none", status)
         \/ status = 200 /\ (Ends("creating", "bearer", 0) \/ Ends("answered", "bearer", 500))
         \/ status = 401
            /\ (Ends("creating", "signature", 0) \/ Ends("answered", "signature", 500))
    BY <2>1, <2>2, <2>9 DEF Authenticate
  <2>11. status \in {200, 401, 403}
    BY <2>6, <2>9
  <2> HIDE DEF Ends
  <2>12. CASE status # 200 /\ Ends("answered", "none", status)
    <3>1. status \in Nat
      BY <2>11
    <3> QED BY <2>8, <2>9, <2>12, <3>1
  <2>13. ASSUME NEW stage \in {"answered", "creating"}, NEW by \in {"bearer", "signature"},
                by = "bearer" => status = 200, Ends(stage, by, 0) \/ Ends(stage, by, 500)
         PROVE  HttpInv'
    <3>1. PICK end \in Nat : Ends(stage, by, end) /\ end \notin {401, 403}
      BY <2>13
    <3> QED BY <2>8, <2>9, <2>13, <3>1
  <2> QED BY <2>10, <2>12, <2>13
<1> QED BY <1>4, <1>5, <1>6, <1>7, <1>8, <1>9

(* -------------------------------- the service ----------------------------- *)

LEMMA IngressBegins == ASSUME IngressInit PROVE UseInv /\ HttpInv
<1>1. NoHttp \in Request /\ Fitting(NoHttp)
  BY DEF NoHttp, Request, Fitting, Bearer, Scopes
<1> QED BY <1>1 DEF IngressInit, UseInv, UsesTyped, FirstUseWins, HttpInv

LEMMA IngressKeeps ==
  ASSUME UseInv, HttpInv, [IngressNext]_ingressVars
  PROVE  UseInv' /\ HttpInv'
<1>1. ASSUME UNCHANGED <<used, uses>>, wall' \in Nat, wall' >= wall, config' \in Configs
      PROVE  UseInv'
  <2>1. UsesTyped'
    BY <1>1 DEF UseInv, UsesTyped
  <2>2. \A m \in DOMAIN uses' : Guarded(m)'
    BY <1>1, IngressConstants DEF UseInv, UsesTyped, Guarded, GrantedAt
  <2> QED BY <1>1, <2>1, <2>2 DEF UseInv, FirstUseWins
<1>2. wall \in Nat /\ config \in Configs /\ wall >= wall
  BY DEF UseInv, UsesTyped
<1>3. ASSUME NEW r \in Slots,
             \/ Incoming(r) \/ MonitoringGate(r) \/ BodyRead(r) \/ LimiterRefuses(r)
             \/ IssueCreated(r) \/ CreateFails(r) \/ ReadyGate(r) \/ ReadyHealth(r)
             \/ ReadyLeases(r)
      PROVE  UseInv' /\ HttpInv'
  BY <1>1, <1>2, <1>3, RequestsKeep
     DEF Incoming, MonitoringGate, BodyRead, LimiterRefuses, IssueCreated, CreateFails,
         ReadyGate, ReadyHealth, ReadyLeases, NoPresentation, Elsewhere
<1>4. ASSUME NEW r \in Slots, Endpoint(r) \/ Authenticate(r)
      PROVE  UseInv' /\ HttpInv'
  <2>1. http[r].cred \in Bearer
    BY DEF HttpInv, Request
  <2>2. PICK endpoint : Presented(http[r].cred, endpoint) /\ UNCHANGED <<wall, config>>
    BY <1>4 DEF Endpoint, Authenticate, Elsewhere
  <2>3. UseInv'
    BY <2>1, <2>2, PresentedKeeps
  <2> QED BY <1>4, <2>3, RequestsKeep
<1>5. CASE StartUp \/ StartDrain \/ WallTick \/ UNCHANGED ingressVars
  BY <1>1, <1>2, <1>5 DEF StartUp, StartDrain, WallTick, NoPresentation, ingressVars, HttpInv
<1>6. CASE RestartProcess
  <2>1. NoHttp \in Request /\ Fitting(NoHttp)
    BY DEF NoHttp, Request, Fitting, Bearer, Scopes
  <2> QED BY <1>2, <1>6, <2>1 DEF RestartProcess, UseInv, UsesTyped, FirstUseWins, HttpInv
<1> QED BY <1>3, <1>4, <1>5, <1>6 DEF IngressNext

\* A token authenticates at most once in a process, and its first use is never taken for
\* a replay, for every tolerance and lifetime, every order of requests and every clock.
THEOREM TokensAreUsedOnce == IngressSpec => []FirstUseWins
<1>1. UseInv => FirstUseWins
  BY DEF UseInv
<1> QED BY IngressBegins, IngressKeeps, <1>1, PTL DEF IngressSpec

\* Whoever is let in holds the scope of the endpoint, whoever spends the quota of a scope
\* holds that scope, and whoever holds a good credential is let in.
THEOREM ScopesStaySeparate == IngressSpec => []ScopesAreSeparate
<1>1. HttpInv => ScopesAreSeparate
  BY DEF HttpInv, Fitting, ScopesAreSeparate
<1> QED BY IngressBegins, IngressKeeps, <1>1, PTL DEF IngressSpec

(* --------------------------------- agents --------------------------------- *)

Profile == (UNION {Asked[skill] : skill \in DOMAIN Asked}) \cup {"none"}
CallStage == {"idle", "starting", "running", "returned", "raised"}
CallOutcome ==
  {"none", "denied", "error", "timeout", "cancelled", "replaced", "modest", "claim"}
AgentState == Answers \cup {"none", "working"}
CallType == [stage : CallStage, profile : Profile, outcome : CallOutcome]

\* No process works before it is started, and a wait that has not ended has no outcome.
Spawned(c) ==
  /\ agentCall[c].stage \in {"idle", "starting"} => agent[c] = "none"
  /\ agentCall[c].stage \in {"idle", "starting", "running"} => agentCall[c].outcome = "none"

CallInv ==
  /\ agentCall \in [AgentCalls -> CallType]
  /\ agent \in [AgentCalls -> AgentState]
  /\ AnswersAreFinal /\ \A c \in AgentCalls : Spawned(c)

\* What a call may look like while its agent does a.
Fits(stage, outcome, a) ==
  /\ stage = "returned" \/ outcome \in {"denied", "error"} => a # "working"
  /\ outcome = "claim" => a = "claim"
  /\ stage \in {"idle", "starting"} => a = "none"
  /\ stage \in {"idle", "starting", "running"} => outcome = "none"

\* A call that moves on its own: what the others have and know stays.
LEMMA CallMoves ==
  ASSUME CallInv, NEW c \in AgentCalls, NEW call \in CallType, NEW a \in AgentState,
         agentCall' = [agentCall EXCEPT ![c] = call], agent' = [agent EXCEPT ![c] = a],
         Fits(call.stage, call.outcome, a)
  PROVE  CallInv'
<1>1. agentCall' \in [AgentCalls -> CallType] /\ agent' \in [AgentCalls -> AgentState]
  BY DEF CallInv
<1>2. ASSUME NEW d \in AgentCalls
      PROVE  /\ agentCall'[d] = IF d = c THEN call ELSE agentCall[d]
             /\ agent'[d] = IF d = c THEN a ELSE agent[d]
  BY DEF CallInv
<1>3. AnswersAreFinal'
  BY <1>2 DEF CallInv, AnswersAreFinal, Fits
<1>4. \A d \in AgentCalls : Spawned(d)'
  BY <1>2 DEF CallInv, Spawned, Fits
<1> QED BY <1>1, <1>3, <1>4 DEF CallInv

LEMMA CallEnds ==
  ASSUME CallInv, NEW c \in AgentCalls, NEW stage \in CallStage, NEW outcome \in CallOutcome,
         NEW a \in AgentState, Ended(c, stage, outcome), agent' = [agent EXCEPT ![c] = a],
         Fits(stage, outcome, a)
  PROVE  CallInv'
<1> DEFINE call == [agentCall[c] EXCEPT !.stage = stage, !.outcome = outcome]
<1>1. agentCall[c] \in CallType
  BY DEF CallInv
<1>2. call \in CallType /\ call.stage = stage /\ call.outcome = outcome
  BY <1>1 DEF CallType
<1>3. agentCall' = [agentCall EXCEPT ![c] = call]
  BY DEF Ended, CallInv
<1> HIDE DEF call
<1> QED BY <1>2, <1>3, CallMoves

LEMMA CallInitial == AgentInit => CallInv
BY DEF AgentInit, CallInv, CallType, CallStage, CallOutcome, AgentState, NoCall, Profile,
       AnswersAreFinal, Spawned

LEMMA CallNextKeeps ==
  ASSUME CallInv, [AgentNext]_agentVars
  PROVE  CallInv'
<1> USE DEF CallStage, CallOutcome
<1>1. CASE UNCHANGED agentVars
  BY <1>1 DEF agentVars, CallInv, AnswersAreFinal, Spawned
<1>2. CASE ReadAllowlist
  BY <1>2 DEF ReadAllowlist, CallInv, AnswersAreFinal, Spawned
<1>3. ASSUME NEW c \in AgentCalls
      PROVE  /\ agentCall[c] \in CallType /\ agent[c] \in AgentState
             /\ UNCHANGED agent => agent' = [agent EXCEPT ![c] = agent[c]]
             /\ Fits(agentCall[c].stage, agentCall[c].outcome, agent[c])
  BY <1>3 DEF CallInv, AnswersAreFinal, Spawned, Fits
<1>4. ASSUME NEW c \in AgentCalls, NEW skill \in DOMAIN Asked, NEW p \in Asked[skill], Ask(c, p)
      PROVE  CallInv'
  <2> DEFINE call(stage, outcome) == [stage |-> stage, profile |-> p, outcome |-> outcome]
  <2>1. agent' = [agent EXCEPT ![c] = "none"] /\ "none" \in AgentState
    BY <1>3, <1>4 DEF Ask, Fits, AgentState
  <2>2. call("raised", "denied") \in CallType /\ call("starting", "none") \in CallType
    BY <1>4 DEF CallType, Profile
  <2>3. /\ Fits(call("raised", "denied").stage, call("raised", "denied").outcome, "none")
        /\ Fits(call("starting", "none").stage, call("starting", "none").outcome, "none")
    BY DEF Fits
  <2>4. \/ agentCall' = [agentCall EXCEPT ![c] = call("raised", "denied")]
        \/ agentCall' = [agentCall EXCEPT ![c] = call("starting", "none")]
    BY <1>4 DEF Ask
  <2> HIDE DEF call
  <2> QED BY <2>1, <2>2, <2>3, <2>4, CallMoves
<1>5. ASSUME NEW c \in AgentCalls, Spawn(c)
      PROVE  CallInv'
  <2>1. agent[c] = "none"
    BY <1>3, <1>5 DEF Spawn, Fits
  <2>2. /\ Fits("running", "none", "working") /\ Fits("raised", "error", "none")
        /\ {"working", "none"} \subseteq AgentState
    BY DEF Fits, AgentState
  <2>3. \/ Ended(c, "running", "none") /\ agent' = [agent EXCEPT ![c] = "working"]
        \/ Ended(c, "raised", "error") /\ agent' = [agent EXCEPT ![c] = "none"]
    BY <1>3, <1>5, <2>1 DEF Spawn
  <2> QED BY <2>2, <2>3, CallEnds
<1>6. ASSUME NEW c \in AgentCalls, AgentEnds(c)
      PROVE  CallInv'
  <2>1. PICK a \in Answers : agent' = [agent EXCEPT ![c] = a]
    BY <1>6 DEF AgentEnds
  <2>2. a \in AgentState /\ Fits(agentCall[c].stage, agentCall[c].outcome, a)
    BY <1>3, <1>6 DEF AgentEnds, Fits, AgentState, Answers
  <2>3. agentCall' = [agentCall EXCEPT ![c] = agentCall[c]]
    BY <1>6 DEF AgentEnds, CallInv
  <2> QED BY <1>3, <2>1, <2>2, <2>3, CallMoves
<1>7. ASSUME NEW c \in AgentCalls, Answered(c)
      PROVE  CallInv'
  <2>1. Taken(agent[c]) \in {"replaced", "modest", "claim"}
    BY DEF Taken
  <2>2. Fits("raised", "error", agent[c]) /\ Fits("returned", Taken(agent[c]), agent[c])
    BY <1>7 DEF Answered, Over, Answers, Fits, Taken
  <2>3. agent' = [agent EXCEPT ![c] = agent[c]]
    BY <1>3, <1>7 DEF Answered
  <2>4. PICK outcome \in CallOutcome : outcome = Taken(agent[c])
    BY <2>1
  <2>5. Ended(c, "raised", "error") \/ Ended(c, "returned", outcome)
    BY <1>7, <2>4 DEF Answered
  <2>6. Fits("returned", outcome, agent[c]) /\ {"raised", "returned"} \subseteq CallStage
    BY <2>2, <2>4
  <2>7. agent[c] \in AgentState /\ "error" \in CallOutcome
    BY <1>3
  <2> HIDE DEF CallStage, CallOutcome
  <2>8. CASE Ended(c, "raised", "error")
    BY <2>2, <2>3, <2>6, <2>7, <2>8, CallEnds
  <2>9. CASE Ended(c, "returned", outcome)
    BY <2>3, <2>6, <2>7, <2>9, CallEnds
  <2> QED BY <2>5, <2>8, <2>9
<1>8. ASSUME NEW c \in AgentCalls, TimesOut(c)
      PROVE  CallInv'
  <2>1. Fits("raised", "timeout", agent[c]) /\ agent' = [agent EXCEPT ![c] = agent[c]]
    BY <1>3, <1>8 DEF TimesOut, Fits
  <2> QED BY <1>3, <1>8, <2>1, CallEnds DEF TimesOut
<1>9. ASSUME NEW c \in AgentCalls, CancelCall(c)
      PROVE  CallInv'
  <2>1. \A a \in AgentState : Fits("raised", "cancelled", a)
    BY DEF Fits
  <2>2. PICK a \in AgentState : agent' = [agent EXCEPT ![c] = a]
    BY <1>3, <1>9 DEF CancelCall, AgentState
  <2>3. Ended(c, "raised", "cancelled")
    BY <1>9 DEF CancelCall
  <2> QED BY <2>1, <2>2, <2>3, CallEnds
<1> QED BY <1>1, <1>2, <1>4, <1>5, <1>6, <1>7, <1>8, <1>9 DEF AgentNext

\* An answer of a skill, or an error of the program, comes when its agent has ended, and
\* a claim is what that agent has said, for any number of calls, profiles and deployments.
THEOREM AgentAnswersAreFinal == AgentSpec => []AnswersAreFinal
<1>1. AgentInit => CallInv
  BY CallInitial
<1>2. CallInv /\ [AgentNext]_agentVars => CallInv'
  BY CallNextKeeps
<1>3. CallInv => AnswersAreFinal
  BY DEF CallInv
<1> QED BY <1>1, <1>2, <1>3, PTL DEF AgentSpec

===============================================================================
