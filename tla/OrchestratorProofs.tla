-------------------------- MODULE OrchestratorProofs --------------------------
(* What the orchestrator promises about its records, its comments and its     *)
(* deliveries, for any number of requests, runs, comments, plans, messages    *)
(* and restarts.                                                              *)
(*                                                                            *)
(* Types and the mutual exclusion of start requests (IInv): what a coroutine  *)
(* writes is a record only if it owns one, and it owns the lock only if it    *)
(* began as the start it says it is.                                          *)
(*                                                                            *)
(* A delivery acts once, a comment is confirmed only when its request came to *)
(* its end, and stays so (CInv).  What carries it is that every path of       *)
(* handle_comment saves before its first await, so the copies of the keys and *)
(* of the outcomes in memory and on disk never differ (Synced), although the  *)
(* records as a whole do.  The same case analysis shows that every step of    *)
(* the orchestrator is a step of CommandLedger or none (Books).               *)
EXTENDS OrchestratorProps, FiniteSetTheorems, TLAPS

\* A coroutine under way has its message, a run that exists once it has left
\* getIssue, and an option once it executes.
Owned(h) ==
  /\ req[h].pc \in Live => req[h].msg \in Message
  /\ req[h].pc = "getIssue" => req[h].msg.name = "start"
  /\ req[h].pc \in Live \ {"getIssue"} =>
       req[h].run \in Runs /\ run[req[h].run].state # Unborn
  /\ req[h].pc \in {"executing", "recovery"} => req[h].option \in Options

\* A record exists in memory when it exists on disk.
BornTogether == \A r \in Runs : run[r].state = Unborn <=> disk[r].state = Unborn

CurrentBorn == current # NoRun => run[current].state # Unborn

IInv ==
  /\ TypeOK /\ BornTogether /\ CurrentBorn /\ StartsSerialized
  /\ \A h \in Requests : Owned(h)

GoodRec(rec) == rec \in RunRecord /\ rec.state # Unborn

\* A frame h may go on with: it owns a run, and the lock if it is a start.
GoodFrame(h, f) ==
  /\ f \in Frame /\ f.run \in Runs /\ run[f.run].state # Unborn
  /\ f.msg \in Message /\ (f.msg.name = "start" => lock = h)

MayReach(f, label) ==
  /\ label \in Pc \ {"getIssue"}
  /\ label \in {"executing", "recovery"} => f.option \in Options

-------------------------------------------------------------------------------

\* A frame that moves to another label stays a good one.
LEMMA AtGood ==
  ASSUME NEW h \in Requests, NEW f, GoodFrame(h, f), NEW label \in Pc
  PROVE  GoodFrame(h, At(f, label)) /\ At(f, label).pc = label
         /\ At(f, label).option = f.option /\ At(f, label).run = f.run
  BY DEF GoodFrame, At, Frame

\* What every step that writes one record does to the invariant.
LEMMA StepKeeps ==
  ASSUME IInv, NEW h \in Requests, NEW rec, NEW stored, NEW f,
         GoodRec(rec), GoodRec(stored), GoodFrame(h, f), MayReach(f, f.pc),
         Step(h, rec, stored, f)
  PROVE  IInv'
<1>1. TypeOK'
  BY DEF IInv, TypeOK, Step, GoodRec, GoodFrame
<1>2. BornTogether'
  BY DEF IInv, TypeOK, BornTogether, Step, GoodRec, GoodFrame
<1>3. CurrentBorn'
  BY DEF IInv, TypeOK, CurrentBorn, Step, GoodRec, GoodFrame
<1>4. StartsSerialized'
  BY DEF IInv, TypeOK, StartsSerialized, Alive, Step, GoodFrame
<1>5. \A i \in Requests : Owned(i)'
  BY DEF IInv, TypeOK, Owned, Step, GoodRec, GoodFrame, MayReach
<1> QED BY <1>1, <1>2, <1>3, <1>4, <1>5 DEF IInv

LEMMA SavingKeeps ==
  ASSUME IInv, NEW h \in Requests, NEW rec, NEW f, NEW label,
         GoodRec(rec), GoodFrame(h, f), MayReach(f, label), Saving(h, rec, f, label)
  PROVE  IInv'
  BY StepKeeps, AtGood DEF Saving, MayReach

LEMMA UnsavedKeeps ==
  ASSUME IInv, NEW h \in Requests, NEW rec, NEW f, NEW label,
         GoodRec(rec), GoodFrame(h, f), MayReach(f, label), Unsaved(h, rec, f, label)
  PROVE  IInv'
<1>1. GoodRec(disk[f.run])
  BY DEF IInv, TypeOK, BornTogether, GoodFrame, GoodRec
<1> QED BY <1>1, StepKeeps, AtGood DEF Unsaved, MayReach

LEMMA CheckpointedGood ==
  ASSUME NEW rec, GoodRec(rec), NEW type \in CheckpointType, NEW payload \in Checkpoint
  PROVE  GoodRec(Checkpointed(rec, type, payload))
  BY DEF GoodRec, Checkpointed, RunRecord

LEMMA EnteredGood ==
  ASSUME NEW rec, rec \in RunRecord, NEW s \in RunState
  PROVE  GoodRec(Entered(rec, s)) /\ s # Unborn
<1>1. s # Unborn
  BY DEF RunState, Unborn
<1>2. GoodRec([rec EXCEPT !.state = s])
  BY <1>1 DEF GoodRec, RunRecord
<1>3. <<"state", s>> \in Checkpoint
  BY DEF Checkpoint
<1> QED BY <1>1, <1>2, <1>3, CheckpointedGood DEF Entered, CheckpointType

LEMMA SetStateKeeps ==
  ASSUME IInv, NEW h \in Requests, NEW rec, NEW f, NEW s \in RunState, NEW label,
         GoodRec(rec), GoodFrame(h, f), MayReach(f, label), SetState(h, rec, f, s, label)
  PROVE  IInv'
<1>1. GoodRec(Entered(rec, s))
  BY EnteredGood DEF GoodRec
<1>2. MayReach(f, "raised")
  BY DEF MayReach, Pc, Ends
<1> QED BY <1>1, <1>2, SavingKeeps DEF SetState

LEMMA OverBudgetKeeps ==
  ASSUME IInv, NEW h \in Requests, NEW rec, NEW f, NEW label,
         GoodRec(rec), GoodFrame(h, f), MayReach(f, label), OverBudget(h, rec, f, label)
  PROVE  IInv'
<1>1. GoodRec(Asking(rec))
  BY DEF GoodRec, Asking, RunRecord, DecisionStatus
<1>2. "WAITING_DECISION" \in RunState
  BY DEF RunState
<1> QED BY <1>1, <1>2, SetStateKeeps DEF OverBudget

\* Where a coroutine may stand after _investigate, _plan and _verify began.
LEMMA LabelsReachable ==
  ASSUME NEW f, NEW label \in Live \ {"getIssue", "executing", "recovery"}
  PROVE  MayReach(f, label)
  BY DEF MayReach, Pc

LEMMA PreflightKeeps ==
  ASSUME IInv, NEW h \in Requests, NEW rec, NEW f, NEW label,
         GoodRec(rec), GoodFrame(h, f), MayReach(f, label), Preflight(h, rec, f, label)
  PROVE  IInv'
<1>1. MayReach(f, "last")
  BY LabelsReachable DEF Live
<1> QED BY <1>1, UnsavedKeeps, OverBudgetKeeps DEF Preflight

LEMMA BeginKeeps ==
  ASSUME IInv, NEW h \in Requests, NEW rec, NEW f, GoodRec(rec), GoodFrame(h, f),
         BeginInvestigate(h, rec, f) \/ BeginPlan(h, rec, f) \/ BeginVerify(h, rec, f)
  PROVE  IInv'
<1>1. {"INVESTIGATING", "PLANNING", "VERIFYING"} \subseteq RunState
  BY DEF RunState
<1>2. \A l \in {"investigating", "planning", "verifying"} : MayReach(f, l)
  BY LabelsReachable DEF Live
<1> QED BY <1>1, <1>2, SetStateKeeps DEF BeginInvestigate, BeginPlan, BeginVerify

LEMMA BeginExecuteKeeps ==
  ASSUME IInv, NEW h \in Requests, NEW rec, NEW f, NEW o \in Options,
         GoodRec(rec), GoodFrame(h, f), BeginExecute(h, rec, f, o)
  PROVE  IInv'
<1> DEFINE g == [f EXCEPT !.option = o]
<1>1. <<"pre", o>> \in Checkpoint /\ "execution" \in CheckpointType
  BY DEF Checkpoint, CheckpointType
<1>2. GoodRec(Checkpointed(rec, "execution", <<"pre", o>>))
  BY <1>1, CheckpointedGood
<1>3. GoodFrame(h, g) /\ MayReach(g, "executing")
  BY DEF GoodFrame, Frame, MayReach, Pc, Live
<1>4. "EXECUTING" \in RunState
  BY DEF RunState
<1> QED BY <1>2, <1>3, <1>4, SetStateKeeps DEF BeginExecute

-------------------------------------------------------------------------------

LEMMA KeyedGood ==
  ASSUME NEW rec \in RunRecord, NEW d \in Deliveries \cup {NoDelivery}
  PROVE  Keyed(rec, d) \in RunRecord /\ Keyed(rec, d).state = rec.state
  BY DEF Keyed, RunRecord

LEMMA BlankGood == BlankRun \in RunRecord /\ BlankRun.state = Unborn
  BY DEF BlankRun, RunRecord, Unborn, Execution, DecisionStatus, CheckpointType, Outcome

\* The initial states.
LEMMA InitIInv == Init => IInv
<1> SUFFICES ASSUME Init PROVE IInv
  OBVIOUS
<1>1. BlankRun \in RunRecord /\ BlankRun.state = Unborn
  BY BlankGood
<1>2. IdleFrame \in Frame /\ IdleFrame.pc = "idle" /\ "idle" \notin Live
  BY DEF IdleFrame, Frame, Pc, Execution, Live
<1>3. TypeOK
  BY <1>1, <1>2, OrchestratorConstants DEF Init, TypeOK
<1>4. \A h \in Requests : Owned(h) /\ ~Alive(h)
  BY <1>2 DEF Init, Owned, Alive, Live
<1> QED BY <1>3, <1>4 DEF Init, IInv, BornTogether, CurrentBorn, StartsSerialized

\* What a coroutine under way brings to the code after its await.
LEMMA LiveFacts ==
  ASSUME IInv, NEW h \in Requests, req[h].pc \in Live \ {"getIssue"}
  PROVE  GoodRec(Rec(h)) /\ GoodFrame(h, req[h])
  BY DEF IInv, TypeOK, Owned, StartsSerialized, Alive, GoodRec, GoodFrame, Rec

LEMMA GotoKeeps ==
  ASSUME IInv, NEW h \in Requests, req[h].pc \in Live \ {"getIssue"},
         NEW label \in (Live \ {"getIssue", "executing", "recovery"}) \cup Ends, Goto(h, label)
  PROVE  IInv'
<1>1. MayReach(req[h], label)
  BY DEF MayReach, Pc, Ends
<1> QED BY <1>1, LiveFacts, UnsavedKeeps DEF Goto

\* start_issue: the lock is free when a start enters, and created is the run
\* of a request that waits in getIssue.
LEMMA StartKeeps ==
  ASSUME IInv, NEW h \in Requests, NEW m \in Messages, StartIssue(h, m)
  PROVE  IInv'
<1>1. /\ m \in Message /\ m.name = "start" /\ lock = NoRequest /\ NoRequest \notin Requests
  BY OrchestratorConstants DEF StartIssue, LockFree
<1>2. PICK l \in {"ignored", "getIssue"} :
        /\ req' = [req EXCEPT ![h] = [[IdleFrame EXCEPT !.msg = m] EXCEPT !.pc = l]]
        /\ l = "getIssue" => lock' = h
        /\ l = "ignored" => lock' = lock
  BY DEF StartIssue
<1> DEFINE f == [[IdleFrame EXCEPT !.msg = m] EXCEPT !.pc = l]
<1>3. f \in Frame /\ f.pc = l /\ f.msg = m
  BY <1>1 DEF Frame, IdleFrame, Pc, Live, Ends, Execution
<1>4. UNCHANGED <<run, disk, current, closed, crashes>>
  BY DEF StartIssue
<1>5. TypeOK'
  BY <1>1, <1>2, <1>3, <1>4 DEF IInv, TypeOK
<1>6. BornTogether' /\ CurrentBorn'
  BY <1>4 DEF IInv, BornTogether, CurrentBorn
<1>7. StartsSerialized'
  BY <1>1, <1>2, <1>3 DEF IInv, TypeOK, StartsSerialized, Alive, Live
<1>8. \A i \in Requests : Owned(i)'
  BY <1>1, <1>2, <1>3, <1>4 DEF IInv, TypeOK, Owned, Live
<1> QED BY <1>5, <1>6, <1>7, <1>8 DEF IInv

LEMMA CreateKeeps ==
  ASSUME IInv, NEW h \in Requests, NEW r \in Runs, CreateRun(h, r)
  PROVE  IInv'
<1> DEFINE rec == Entered(Keyed([BlankRun EXCEPT !.state = "OPEN"], req[h].msg.delivery), "TRIAGE")
<1>1. req[h].pc = "getIssue" /\ req[h].msg \in Message /\ req[h] \in Frame
  BY DEF CreateRun, IInv, TypeOK, Owned, Live
<1>2. Keyed([BlankRun EXCEPT !.state = "OPEN"], req[h].msg.delivery) \in RunRecord
  <2>1. [BlankRun EXCEPT !.state = "OPEN"] \in RunRecord
    BY BlankGood DEF RunRecord, RunState
  <2>2. req[h].msg.delivery \in Deliveries \cup {NoDelivery}
    BY <1>1 DEF Message
  <2> QED BY <2>1, <2>2, KeyedGood
<1>3. GoodRec(rec)
  BY <1>2, EnteredGood DEF RunState
<1>4. /\ run' = [run EXCEPT ![r] = rec] /\ disk' = [disk EXCEPT ![r] = rec] /\ current' = r
      /\ req' = [req EXCEPT ![h].pc = "triage", ![h].run = r]
      /\ UNCHANGED <<lock, closed, crashes>>
  BY DEF CreateRun
<1> HIDE DEF rec
<1>5. TypeOK'
  <2>1. [[req[h] EXCEPT !.pc = "triage"] EXCEPT !.run = r] \in Frame
    BY <1>1 DEF Frame, Pc, Live
  <2>2. req' = [req EXCEPT ![h] = [[req[h] EXCEPT !.pc = "triage"] EXCEPT !.run = r]]
    BY <1>4 DEF IInv, TypeOK
  <2> QED BY <1>3, <1>4, <2>1, <2>2 DEF IInv, TypeOK, GoodRec
<1>6. BornTogether' /\ CurrentBorn'
  BY <1>3, <1>4 DEF IInv, TypeOK, BornTogether, CurrentBorn, GoodRec
<1>7. StartsSerialized'
  BY <1>1, <1>4 DEF IInv, TypeOK, StartsSerialized, Alive, Frame, Live
<1>8. \A i \in Requests : Owned(i)'
  BY <1>1, <1>3, <1>4 DEF IInv, TypeOK, Owned, Frame, GoodRec, Live
<1> QED BY <1>5, <1>6, <1>7, <1>8 DEF IInv

\* A coroutine that raises lets the lock go if it has it.
LEMMA EndKeeps ==
  ASSUME IInv, NEW h \in Requests, req[h].pc \in Live,
         req' = [req EXCEPT ![h].pc = "raised"],
         lock' = IF lock = h THEN NoRequest ELSE lock,
         closed' \subseteq Runs, UNCHANGED <<run, disk, current, crashes>>
  PROVE  IInv'
<1>1. TypeOK'
  BY DEF IInv, TypeOK, Frame, Pc, Ends
<1>2. BornTogether' /\ CurrentBorn'
  BY DEF IInv, BornTogether, CurrentBorn
<1>3. StartsSerialized'
  BY DEF IInv, TypeOK, StartsSerialized, Alive, Frame, Live
<1>4. \A i \in Requests : Owned(i)'
  BY DEF IInv, TypeOK, Owned, Frame, Live
<1> QED BY <1>1, <1>2, <1>3, <1>4 DEF IInv

LEMMA RefuseKeeps ==
  ASSUME IInv, NEW h \in Requests, RefuseRun(h)
  PROVE  IInv'
<1>1. req[h].pc \in Live /\ req[h].pc = "getIssue"
  BY DEF RefuseRun, Live
<1>2. lock = h
  BY <1>1 DEF IInv, Owned, StartsSerialized, Alive
<1>3. closed' \subseteq Runs
  BY DEF RefuseRun, IInv, TypeOK
<1> QED BY <1>1, <1>2, <1>3, EndKeeps DEF RefuseRun

-------------------------------------------------------------------------------

\* The assignments the handlers make to a record.
LEMMA AskingGood ==
  ASSUME NEW rec, GoodRec(rec) PROVE GoodRec(Asking(rec))
  BY DEF GoodRec, Asking, RunRecord, DecisionStatus

LEMMA OutcomedGood ==
  ASSUME NEW rec, GoodRec(rec), NEW c, NEW o \in Outcome
  PROVE  GoodRec(Outcomed(rec, c, o))
  BY DEF GoodRec, Outcomed, RunRecord

LEMMA ClosingGood ==
  ASSUME NEW rec, GoodRec(rec), NEW s \in DecisionStatus
  PROVE  GoodRec(Closing(rec, s))
  BY DEF GoodRec, Closing, RunRecord, DecisionStatus

LEMMA AnsweredGood ==
  ASSUME NEW rec, GoodRec(rec)
  PROVE  GoodRec([rec EXCEPT !.decision = "none"])
  BY DEF GoodRec, RunRecord, DecisionStatus

LEMMA TasksGood ==
  ASSUME NEW rec, GoodRec(rec), NEW s \in Seq(Nat)
  PROVE  GoodRec([rec EXCEPT !.tasks = s]) /\ [rec EXCEPT !.tasks = s].tasks = s
  BY DEF GoodRec, RunRecord

LEMMA FoundGood ==
  ASSUME NEW rec, GoodRec(rec), NEW ts \in SUBSET Nat
  PROVE  GoodRec([rec EXCEPT !.found = @ \cup ts])
  BY DEF GoodRec, RunRecord

LEMMA ResultGood ==
  ASSUME NEW rec, GoodRec(rec), NEW e \in Execution
  PROVE  GoodRec([rec EXCEPT !.execution = e])
  BY DEF GoodRec, RunRecord

LEMMA PlanGood ==
  ASSUME NEW rec, GoodRec(rec), NEW p \in Plans
  PROVE  /\ GoodRec([rec EXCEPT !.plan = p])
         /\ GoodRec([Asking([rec EXCEPT !.plan = p]) EXCEPT !.last = "human_gate"])
  BY DEF GoodRec, RunRecord, Asking, DecisionStatus, CheckpointType

LEMMA TodoGood ==
  ASSUME NEW h \in Requests, NEW f, GoodFrame(h, f), NEW todo \in SUBSET Nat
  PROVE  GoodFrame(h, [f EXCEPT !.todo = todo])
  BY DEF GoodFrame, Frame

-------------------------------------------------------------------------------

\* _investigate.
LEMMA RunWavesKeeps ==
  ASSUME IInv, NEW h \in Requests, NEW rec, NEW f, GoodRec(rec), GoodFrame(h, f),
         RunWaves(h, rec, f)
  PROVE  IInv'
<1> DEFINE todo == TaskIds(rec) \ rec.found
<1>1. todo \in SUBSET Nat
  BY DEF TaskIds, GoodRec, RunRecord
<1>2. \A g : MayReach(g, "wave") /\ MayReach(g, "rootCause") /\ MayReach(g, "raised")
  BY LabelsReachable DEF Live, MayReach, Pc, Ends
<1>3. GoodFrame(h, [f EXCEPT !.todo = todo])
  BY <1>1, TodoGood
<1> QED BY <1>2, <1>3, SavingKeeps, UnsavedKeeps, PreflightKeeps DEF RunWaves

LEMMA InvestigatingKeeps ==
  ASSUME IInv, NEW h \in Requests, Investigating(h)
  PROVE  IInv'
<1> DEFINE rec == IF req[h].extra = 0 THEN Rec(h)
                  ELSE [Rec(h) EXCEPT !.tasks = Append(@, req[h].extra)]
<1>1. req[h].pc \in Live \ {"getIssue"}
  BY DEF Investigating, Live
<1>2. GoodRec(rec)
  <2>1. Rec(h).tasks \in Seq(Nat) /\ req[h].extra \in Nat
    BY <1>1, LiveFacts DEF GoodRec, RunRecord, GoodFrame, Frame
  <2>2. Append(Rec(h).tasks, req[h].extra) \in Seq(Nat)
    BY <2>1
  <2> QED BY <1>1, <2>2, LiveFacts, TasksGood
<1>3. CASE Goto(h, "buildTasks")
  BY <1>1, <1>3, GotoKeeps DEF Live
<1>4. CASE RunWaves(h, rec, req[h])
  BY <1>1, <1>2, <1>4, LiveFacts, RunWavesKeeps
<1> QED BY <1>3, <1>4 DEF Investigating

LEMMA TasksBuiltKeeps ==
  ASSUME IInv, NEW h \in Requests, TasksBuilt(h) \/ GraphValidated(h)
  PROVE  IInv'
<1>1. req[h].pc \in Live \ {"getIssue"}
  BY DEF TasksBuilt, GraphValidated, Live
<1>2. <<0>> \in Seq(Nat) /\ <<>> \in Seq(Nat)
  OBVIOUS
<1>3. \A g : MayReach(g, "startedComment") /\ MayReach(g, "raised")
  BY LabelsReachable DEF Live, MayReach, Pc, Ends
<1>4. CASE TasksBuilt(h)
  <2>1. GoodRec(Rec(h)) /\ GoodFrame(h, req[h])
    BY <1>1, LiveFacts
  <2>2. GoodRec([Rec(h) EXCEPT !.tasks = <<0>>]) /\ GoodRec([Rec(h) EXCEPT !.tasks = <<>>])
    BY <1>2, <2>1, TasksGood
  <2> QED BY <1>3, <1>4, <2>1, <2>2, UnsavedKeeps DEF TasksBuilt
<1>5. CASE GraphValidated(h)
  BY <1>1, <1>5, LiveFacts, RunWavesKeeps, GotoKeeps DEF GraphValidated, Ends
<1> QED BY <1>4, <1>5

LEMMA WaveKeeps ==
  ASSUME IInv, NEW h \in Requests, WaveDone(h) \/ WaveRefused(h)
  PROVE  IInv'
<1>1. req[h].pc \in Live \ {"getIssue"}
  BY DEF WaveDone, WaveRefused, Live
<1>2. GoodRec(Rec(h)) /\ GoodFrame(h, req[h]) /\ req[h].todo \in SUBSET Nat
  BY <1>1, LiveFacts DEF GoodFrame, Frame
<1>3. \A g : \A l \in {"wave", "rootCause", "last", "raised"} : MayReach(g, l)
  BY LabelsReachable DEF Live, MayReach, Pc, Ends
<1>4. CASE WaveDone(h)
  <2>1. PICK ready \in (SUBSET req[h].todo) \ {{}} :
          LET rec == [Rec(h) EXCEPT !.found = @ \cup ready]
              g == [req[h] EXCEPT !.todo = Pending(@, ready)]
          IN  \/ Saving(h, rec, g, "wave") \/ Saving(h, rec, g, "rootCause")
              \/ Saving(h, rec, g, "raised") \/ OverBudget(h, rec, g, "last")
    BY <1>4 DEF WaveDone
  <2>2. GoodRec([Rec(h) EXCEPT !.found = @ \cup ready])
    BY <1>2, FoundGood
  <2>3. GoodFrame(h, [req[h] EXCEPT !.todo = Pending(@, ready)])
    BY <1>2, TodoGood DEF Pending
  <2> QED BY <1>3, <2>1, <2>2, <2>3, SavingKeeps, OverBudgetKeeps
<1>5. CASE WaveRefused(h)
  BY <1>2, <1>3, <1>5, OverBudgetKeeps DEF WaveRefused
<1> QED BY <1>4, <1>5

\* The steps that change the state and nothing else of the record.
LEMMA StateStepKeeps ==
  ASSUME IInv, NEW h \in Requests,
         \/ Triaged(h) \/ RootCauseFound(h) \/ Diagnosed(h) \/ RecoveryUnknown(h)
         \/ Verified(h) \/ NotVerified(h) \/ RcaSynthesized(h) \/ ActionsFiled(h)
  PROVE  IInv'
<1>1. req[h].pc \in Live \ {"getIssue"}
  BY DEF Triaged, RootCauseFound, Diagnosed, RecoveryUnknown, Verified, NotVerified,
         RcaSynthesized, ActionsFiled, Live
<1>2. /\ GoodRec(Rec(h)) /\ GoodRec(Asking(Rec(h))) /\ GoodFrame(h, req[h])
  BY <1>1, LiveFacts, AskingGood
<1>3. {"DIAGNOSED", "WAITING_INPUT", "WAITING_DECISION", "RESOLVED", "FAILED", "ABORTED",
       "PLAN_RCA_RESOLVED"} \subseteq RunState
  BY DEF RunState
<1>4. \A g : \A l \in {"diagnosed", "last", "handoff", "resolved", "filing"} : MayReach(g, l)
  BY LabelsReachable DEF Live
<1>5. CASE Triaged(h) \/ Diagnosed(h)
  BY <1>2, <1>3, <1>4, <1>5, BeginKeeps, SetStateKeeps DEF Triaged, Diagnosed
<1>6. CASE RootCauseFound(h) \/ RecoveryUnknown(h) \/ Verified(h) \/ NotVerified(h)
  BY <1>2, <1>3, <1>4, <1>6, SetStateKeeps
     DEF RootCauseFound, RecoveryUnknown, Verified, NotVerified
<1>7. CASE RcaSynthesized(h) \/ ActionsFiled(h)
  BY <1>2, <1>3, <1>4, <1>7, SetStateKeeps, SavingKeeps DEF RcaSynthesized, ActionsFiled
<1> QED BY <1>5, <1>6, <1>7

\* _plan.  An option that runs without a gate is the first of a plan that has one.
LEMMA AutoHasOption ==
  ASSUME NEW p \in Plans, ClassifyPlan(p) = "AUTO"
  PROVE  p.options[1] \in Options
<1>1. p.options \in Seq(Options) /\ p.options # <<>>
  BY OrchestratorConstants DEF ClassifyPlan
<1> QED BY <1>1

LEMMA PlanMadeKeeps ==
  ASSUME IInv, NEW h \in Requests, NEW p \in Plans, PlanMade(h, p)
  PROVE  IInv'
<1> DEFINE rec == [Rec(h) EXCEPT !.plan = p]
<1>1. req[h].pc \in Live \ {"getIssue"}
  BY DEF PlanMade, Live
<1>2. /\ GoodRec(rec) /\ GoodRec([Asking(rec) EXCEPT !.last = "human_gate"])
      /\ GoodFrame(h, req[h])
  BY <1>1, LiveFacts, PlanGood
<1>3. \A g : MayReach(g, "last")
  BY LabelsReachable DEF Live
<1>4. CASE ClassifyPlan(p) = "AUTO" /\ BeginExecute(h, rec, req[h], p.options[1])
  <2>1. p.options[1] \in Options
    BY <1>4, AutoHasOption
  <2> QED BY <1>2, <1>4, <2>1, BeginExecuteKeeps
<1>5. CASE /\ ClassifyPlan(p) \in DOMAIN GateState
           /\ SetState(h, [Asking(rec) EXCEPT !.last = "human_gate"],
                       req[h], GateState[ClassifyPlan(p)], "last")
  <2>1. GateState[ClassifyPlan(p)] \in RunState
    BY <1>5 DEF GateState, RunState
  <2> QED BY <1>2, <1>3, <1>5, <2>1, SetStateKeeps
<1>6. CASE SetState(h, rec, req[h], "FAILED", "last")
  BY <1>2, <1>3, <1>6, SetStateKeeps DEF RunState
<1> QED BY <1>4, <1>5, <1>6 DEF PlanMade

\* _execute_option: what the recovery agent returned.
LEMMA RecoveredKeeps ==
  ASSUME IInv, NEW h \in Requests, NEW e \in Execution \ {"none"}, Recovered(h, e)
  PROVE  IInv'
<1> DEFINE after == IF Succeeded(e) THEN "VERIFYING" ELSE Rec(h).state
           payload == <<"post", req[h].option, Succeeded(e), after>>
           saved == Checkpointed([Rec(h) EXCEPT !.execution = e], "execution", payload)
<1>1. req[h].pc \in Live \ {"getIssue"} /\ req[h].option \in Options
  BY DEF Recovered, Live, IInv, Owned
<1>2. GoodRec(Rec(h)) /\ GoodFrame(h, req[h])
  BY <1>1, LiveFacts
<1>3. after \in RunState
  BY <1>2 DEF GoodRec, RunRecord, RunState
<1>4. Succeeded(e) \in BOOLEAN
  BY DEF Succeeded
<1>5. payload \in Checkpoint
  BY <1>1, <1>3, <1>4 DEF Checkpoint
<1>6. GoodRec(saved)
  <2>1. GoodRec([Rec(h) EXCEPT !.execution = e])
    BY <1>2, ResultGood
  <2> QED BY <1>5, <2>1, CheckpointedGood DEF CheckpointType
<1>7. GoodRec(Asking(saved))
  BY <1>6, AskingGood
<1>8. {"WAITING_DECISION", "FAILED"} \subseteq RunState /\ \A g : MayReach(g, "last")
  BY LabelsReachable DEF RunState, Live
<1>9. \/ SetState(h, Asking(saved), req[h], "WAITING_DECISION", "last")
      \/ SetState(h, saved, req[h], "FAILED", "last")
      \/ BeginVerify(h, saved, req[h])
  BY DEF Recovered
<1> HIDE DEF saved
<1> QED BY <1>2, <1>6, <1>7, <1>8, <1>9, SetStateKeeps, BeginKeeps

\* The steps of _plan, _execute_option and _verify that may ask a human.
LEMMA PreflightStepKeeps ==
  ASSUME IInv, NEW h \in Requests,
         Planning(h) \/ Executing(h) \/ Verifying(h) \/ HandedOff(h) \/ Announced(h)
  PROVE  IInv'
<1>1. req[h].pc \in Live \ {"getIssue"}
  BY DEF Planning, Executing, Verifying, HandedOff, Announced, Live
<1>2. GoodRec(Rec(h)) /\ GoodRec(Asking(Rec(h))) /\ GoodFrame(h, req[h])
  BY <1>1, LiveFacts, AskingGood
<1>3. \A g : \A l \in {"makePlan", "last", "verify", "closing"} : MayReach(g, l)
  BY LabelsReachable DEF Live
<1>4. CASE Planning(h) \/ HandedOff(h)
  BY <1>2, <1>3, <1>4, PreflightKeeps, UnsavedKeeps DEF Planning, HandedOff
<1>5. CASE Executing(h)
  <2>1. req[h].option \in Options
    BY <1>5 DEF Executing, IInv, Owned
  <2>2. /\ GoodFrame(h, [req[h] EXCEPT !.called = TRUE])
        /\ MayReach([req[h] EXCEPT !.called = TRUE], "recovery")
    BY <1>2, <2>1 DEF GoodFrame, Frame, MayReach, Pc, Live
  <2> QED BY <1>2, <1>3, <1>5, <2>2, UnsavedKeeps, OverBudgetKeeps DEF Executing
<1>6. CASE Verifying(h)
  <2>1. GoodFrame(h, [req[h] EXCEPT !.verdict = Rec(h).execution])
    BY <1>2 DEF GoodFrame, Frame, GoodRec, RunRecord
  <2> QED BY <1>2, <1>3, <1>6, <2>1, PreflightKeeps DEF Verifying
<1>7. CASE Announced(h)
  BY <1>1, <1>7, GotoKeeps DEF Announced, Live
<1> QED BY <1>4, <1>5, <1>6, <1>7

\* The issue is closed: in strict mode the transition may be refused.
LEMMA IssueClosedKeeps ==
  ASSUME IInv, NEW h \in Requests, IssueClosed(h)
  PROVE  IInv'
<1> DEFINE rec == Entered(Rec(h), "PLAN_RCA")
<1>1. req[h].pc \in Live \ {"getIssue"}
  BY DEF IssueClosed, Live
<1>2. GoodRec(Rec(h)) /\ GoodRec(rec) /\ GoodFrame(h, req[h])
  BY <1>1, LiveFacts, EnteredGood DEF GoodRec, RunState
<1>3. closed' \subseteq Runs
  BY <1>2 DEF IssueClosed, IInv, TypeOK, GoodFrame
<1>4. CASE TransitionAllowed(Enforcement, Rec(h).state, "PLAN_RCA")
  <2>1. /\ run' = [run EXCEPT ![req[h].run] = rec]
        /\ disk' = [disk EXCEPT ![req[h].run] = rec]
        /\ req' = [req EXCEPT ![h].pc = "rca"] /\ UNCHANGED <<lock, current, crashes>>
    BY <1>4 DEF IssueClosed
  <2> HIDE DEF rec
  <2>2. TypeOK'
    <3>1. [req[h] EXCEPT !.pc = "rca"] \in Frame
      BY DEF IInv, TypeOK, Frame, Pc, Live
    <3>2. req' = [req EXCEPT ![h] = [req[h] EXCEPT !.pc = "rca"]]
      BY <2>1
    <3> QED BY <1>2, <1>3, <2>1, <3>1, <3>2 DEF IInv, TypeOK, GoodRec
  <2>3. BornTogether' /\ CurrentBorn'
    BY <1>2, <2>1 DEF IInv, TypeOK, BornTogether, CurrentBorn, GoodRec, GoodFrame
  <2>4. StartsSerialized'
    BY <1>1, <2>1 DEF IInv, TypeOK, StartsSerialized, Alive, Frame, Live
  <2>5. \A i \in Requests : Owned(i)'
    BY <1>1, <1>2, <2>1 DEF IInv, TypeOK, Owned, Frame, GoodRec, Live
  <2> QED BY <2>2, <2>3, <2>4, <2>5 DEF IInv
<1>5. CASE ~TransitionAllowed(Enforcement, Rec(h).state, "PLAN_RCA")
  BY <1>1, <1>3, <1>5, EndKeeps DEF IssueClosed
<1> QED BY <1>4, <1>5

LEMMA RcaLabelledKeeps ==
  ASSUME IInv, NEW h \in Requests, RcaLabelled(h)
  PROVE  IInv'
<1>1. req[h].pc \in Live \ {"getIssue"}
  BY DEF RcaLabelled, Live
<1>2. CASE Goto(h, "synthesizeRca") \/ Goto(h, "raised")
  BY <1>1, <1>2, GotoKeeps DEF Live, Ends
<1>3. CASE SetState(h, Rec(h), req[h], "ABORTED", "last")
  <2>1. MayReach(req[h], "last") /\ "ABORTED" \in RunState
    BY LabelsReachable DEF Live, RunState
  <2> QED BY <1>1, <1>3, <2>1, LiveFacts, SetStateKeeps
<1> QED BY <1>2, <1>3 DEF RcaLabelled

\* The ordinal of the next extra task.
LEMMA HXCount ==
  ASSUME IInv, NEW h \in Requests, req[h].pc \in Live \ {"getIssue"}
  PROVE  Cardinality(HXTasks(Rec(h))) + 1 \in Nat
<1>1. Rec(h).tasks \in Seq(Nat)
  BY LiveFacts DEF GoodRec, RunRecord
<1>2. IsFiniteSet(1..Len(Rec(h).tasks)) /\ DOMAIN Rec(h).tasks = 1..Len(Rec(h).tasks)
  <2>1. Len(Rec(h).tasks) \in Int /\ 1 \in Int
    BY <1>1
  <2>2. DOMAIN Rec(h).tasks = 1..Len(Rec(h).tasks)
    BY <1>1
  <2> QED BY <2>1, <2>2, FS_Interval
<1>3. HXTasks(Rec(h)) \subseteq 1..Len(Rec(h).tasks)
  BY <1>2 DEF HXTasks
<1> QED BY <1>2, <1>3, FS_Subset, FS_CardinalityType

LEMMA ExtraTaskMadeKeeps ==
  ASSUME IInv, NEW h \in Requests, ExtraTaskMade(h)
  PROVE  IInv'
<1> DEFINE n == Cardinality(HXTasks(Rec(h))) + 1
<1>1. req[h].pc \in Live \ {"getIssue"}
  BY DEF ExtraTaskMade, Live
<1>2. GoodRec([Rec(h) EXCEPT !.decision = "none"])
  BY <1>1, LiveFacts, AnsweredGood
<1>3. n \in Nat
  BY <1>1, HXCount
<1>4. GoodFrame(h, [req[h] EXCEPT !.extra = n])
  BY <1>1, <1>3, LiveFacts DEF GoodFrame, Frame
<1> QED BY <1>2, <1>4, BeginKeeps DEF ExtraTaskMade

LEMMA ReturnedKeeps ==
  ASSUME IInv, NEW h \in Requests, Returned(h)
  PROVE  IInv'
<1>1. req[h].pc \in Live \ {"getIssue"}
  BY DEF Returned, Live
<1>2. GoodRec(Outcomed(Rec(h), req[h].msg.comment, "confirmed")) /\ GoodFrame(h, req[h])
  BY <1>1, LiveFacts, OutcomedGood DEF Outcome
<1>3. MayReach(req[h], "done")
  BY DEF MayReach, Pc, Ends
<1>4. CASE Saving(h, Outcomed(Rec(h), req[h].msg.comment, "confirmed"), req[h], "done")
  BY <1>2, <1>3, <1>4, SavingKeeps
<1>5. CASE Goto(h, "done")
  BY <1>1, <1>5, GotoKeeps DEF Ends
<1> QED BY <1>4, <1>5 DEF Returned

-------------------------------------------------------------------------------

\* handle_comment, from the command to its first await.
LEMMA ResumeKeeps ==
  ASSUME IInv, NEW h \in Requests, NEW rec, NEW f, GoodRec(rec), GoodFrame(h, f),
         Resume(h, rec, f)
  PROVE  IInv'
<1>1. MayReach(f, "last")
  BY LabelsReachable DEF Live
<1>2. \/ BeginInvestigate(h, rec, f) \/ BeginPlan(h, rec, f) \/ BeginVerify(h, rec, f)
      \/ Saving(h, rec, f, "last")
  BY DEF Resume
<1> QED BY <1>1, <1>2, BeginKeeps, SavingKeeps

LEMMA ApproveKeeps ==
  ASSUME IInv, NEW h \in Requests, NEW rec, NEW f, NEW o, GoodRec(rec), GoodFrame(h, f),
         Approve(h, rec, f, o)
  PROVE  IInv'
<1>1. CASE Saving(h, rec, f, "raised")
  <2>1. MayReach(f, "raised")
    BY DEF MayReach, Pc, Ends
  <2> QED BY <1>1, <2>1, SavingKeeps
<1>2. CASE Planned(rec, o) /\ BeginExecute(h, Closing(rec, "answered"), f, o)
  <2>1. o \in Options
    BY <1>2, OrchestratorConstants DEF Planned, GoodRec, RunRecord
  <2>2. GoodRec(Closing(rec, "answered"))
    BY ClosingGood DEF DecisionStatus
  <2> QED BY <1>2, <2>1, <2>2, BeginExecuteKeeps
<1> QED BY <1>1, <1>2 DEF Approve, Approvable

LEMMA ObeyKeeps ==
  ASSUME IInv, NEW h \in Requests, NEW rec, NEW f, GoodRec(rec), GoodFrame(h, f),
         f.msg.name \in CommandNames, Obey(h, rec, f)
  PROVE  IInv'
<1> DEFINE begun == Begun(rec, f.msg.comment)
<1>1. GoodRec(begun)
  BY OutcomedGood DEF Begun, Outcome
<1>2. GoodRec([begun EXCEPT !.decision = "none"]) /\ GoodRec(Closing(begun, "rejected"))
  BY <1>1, AnsweredGood, ClosingGood DEF DecisionStatus
<1>3. {"ABORTED", "WAITING_DECISION"} \subseteq RunState
  BY DEF RunState
<1>4. MayReach(f, "last") /\ MayReach(f, "extraTask")
  BY LabelsReachable DEF Live
<1> HIDE DEF begun
<1>5. \/ SetState(h, begun, f, "ABORTED", "last")
      \/ BeginInvestigate(h, [begun EXCEPT !.decision = "none"], f)
      \/ Saving(h, begun, f, "extraTask")
      \/ SetState(h, Closing(begun, "rejected"), f, "WAITING_DECISION", "last")
      \/ Approve(h, begun, f, f.msg.option)
      \/ Resume(h, rec, f)
  BY DEF Obey, CommandNames, begun
<1> QED BY <1>1, <1>2, <1>3, <1>4, <1>5, SetStateKeeps, BeginKeeps, SavingKeeps,
           ApproveKeeps, ResumeKeeps

LEMMA HandleKeeps ==
  ASSUME IInv, NEW h \in Requests, NEW m \in Messages, HandleComment(h, m)
  PROVE  IInv'
<1> DEFINE f == [IdleFrame EXCEPT !.msg = m, !.run = current]
           rec == run[current]
           taken == Keyed(Outcomed(rec, m.comment, "received"), m.delivery)
<1>1. m \in Message /\ m.name # "start" /\ current \in Runs
  BY OrchestratorConstants DEF HandleComment, IInv, TypeOK
<1>2. GoodRec(rec)
  BY <1>1 DEF IInv, TypeOK, CurrentBorn, GoodRec, HandleComment
<1>3. f \in Frame /\ f.msg = m /\ f.run = current
  BY <1>1 DEF Frame, IdleFrame, Pc, Live, Ends, Execution
<1>4. GoodFrame(h, f)
  BY <1>1, <1>2, <1>3 DEF GoodFrame, GoodRec
<1>5. GoodRec(taken)
  <2>1. GoodRec(Outcomed(rec, m.comment, "received"))
    BY <1>2, OutcomedGood DEF Outcome
  <2>2. m.delivery \in Deliveries \cup {NoDelivery}
    BY <1>1 DEF Message
  <2> QED BY <2>1, <2>2, KeyedGood DEF GoodRec
<1>6. MayReach(f, "ignored") /\ MayReach(f, "done") /\ MayReach(f, "raised")
  BY DEF MayReach, Pc, Ends
<1> HIDE DEF f, rec, taken
<1>7. \/ Unsaved(h, rec, f, "ignored") \/ Saving(h, taken, f, "done")
      \/ Saving(h, taken, f, "raised") \/ (m.name # "text" /\ Obey(h, taken, f))
  BY DEF HandleComment, f, rec, taken
<1>8. m.name # "text" => m.name \in CommandNames
  BY <1>1 DEF Message
<1> QED BY <1>2, <1>3, <1>4, <1>5, <1>6, <1>7, <1>8, UnsavedKeeps, SavingKeeps, ObeyKeeps

-------------------------------------------------------------------------------

LEMMA CallFailsKeeps ==
  ASSUME IInv, NEW h \in Requests, CallFails(h)
  PROVE  IInv'
<1>1. closed' \subseteq Runs
  BY DEF CallFails, IInv, TypeOK, Owned, Live
<1> QED BY <1>1, EndKeeps DEF CallFails

LEMMA CrashKeeps ==
  ASSUME IInv, Crash
  PROVE  IInv'
<1> DEFINE born == {r \in Runs : run[r].state # Unborn}
           anyLive == \E r \in born : disk[r].state \notin TerminalStates
           Back(r0) == [r \in Runs |-> IF r = r0 /\ anyLive THEN Reloaded(disk[r])
                                      ELSE disk[r]]
<1>1. PICK r0 \in IF born = {} THEN {NoRun} ELSE born :
        /\ current' = r0
        /\ disk' = Back(r0)
        /\ run' = [r \in Runs |-> [Back(r0)[r] EXCEPT !.seen = run[r].seen,
                                                     !.last = run[r].last]]
  BY Zenon DEF Crash
<1>2. \A r \in Runs : Reloaded(disk[r]) \in RunRecord /\ Reloaded(disk[r]).state = disk[r].state
  <2> SUFFICES ASSUME NEW r \in Runs
               PROVE  Reloaded(disk[r]) \in RunRecord /\ Reloaded(disk[r]).state = disk[r].state
    OBVIOUS
  <2> DEFINE o == [c \in Comments |-> IF disk[r].outcome[c] = "executing" THEN "unknown"
                                      ELSE disk[r].outcome[c]]
  <2>1. disk[r] \in RunRecord
    BY DEF IInv, TypeOK
  <2>2. o \in [Comments -> Outcome]
    BY <2>1 DEF RunRecord, Outcome
  <2>3. Reloaded(disk[r]) = [disk[r] EXCEPT !.outcome = o]
    BY DEF Reloaded
  <2> QED BY <2>1, <2>2, <2>3 DEF RunRecord
<1>3. /\ Back(r0) \in [Runs -> RunRecord]
      /\ \A r \in Runs : Back(r0)[r].state = disk[r].state
  <2>1. \A r \in Runs : Back(r0)[r] = Reloaded(disk[r]) \/ Back(r0)[r] = disk[r]
    OBVIOUS
  <2> QED BY <1>2, <2>1 DEF IInv, TypeOK
<1> HIDE DEF Back
<1>4. run' \in [Runs -> RunRecord] /\ \A r \in Runs : run'[r].state = disk[r].state
  <2> SUFFICES ASSUME NEW r \in Runs
               PROVE  /\ [Back(r0)[r] EXCEPT !.seen = run[r].seen, !.last = run[r].last]
                           \in RunRecord
                      /\ Back(r0)[r].state = disk[r].state
    BY <1>1, <1>3 DEF RunRecord
  <2>1. Back(r0)[r] \in RunRecord /\ run[r] \in RunRecord
    BY <1>3 DEF IInv, TypeOK
  <2> QED BY <1>3, <2>1 DEF RunRecord
<1>5. req' \in [Requests -> Frame] /\ \A h \in Requests : req'[h].pc \notin Live
  <2>1. req' = [h \in Requests |-> IF req[h].pc \in Live THEN [req[h] EXCEPT !.pc = "lost"]
                                  ELSE req[h]]
    BY Zenon DEF Crash
  <2> QED BY <2>1 DEF IInv, TypeOK, Frame, Pc, Live, Ends
<1>6. r0 \in Runs \cup {NoRun} /\ (r0 # NoRun => r0 \in Runs /\ run[r0].state # Unborn)
  OBVIOUS
<1>7. TypeOK'
  <2>1. lock' = NoRequest /\ closed' = closed
    BY Zenon DEF Crash
  <2>2. crashes' \in 0..MaxCrashes
    <3>1. crashes < MaxCrashes /\ crashes' = crashes + 1
      BY Zenon DEF Crash
    <3> QED BY <3>1, OrchestratorConstants DEF IInv, TypeOK
  <2>3. closed \subseteq Runs
    BY DEF IInv, TypeOK
  <2> QED BY <1>1, <1>3, <1>4, <1>5, <1>6, <2>1, <2>2, <2>3 DEF TypeOK
<1>8. BornTogether'
  BY <1>1, <1>3, <1>4 DEF BornTogether
<1>9. CurrentBorn'
  BY <1>1, <1>4, <1>6 DEF CurrentBorn, IInv, BornTogether
<1>10. StartsSerialized' /\ \A h \in Requests : Owned(h)'
  BY <1>5 DEF StartsSerialized, Alive, Owned, Live
<1> QED BY <1>7, <1>8, <1>9, <1>10 DEF IInv

LEMMA NextKeeps ==
  ASSUME IInv, [Next]_vars
  PROVE  IInv'
<1>1. CASE UNCHANGED vars
  BY <1>1 DEF vars, IInv, TypeOK, BornTogether, CurrentBorn, StartsSerialized, Alive, Owned
<1>2. CASE Crash
  BY <1>2, CrashKeeps
<1>3. ASSUME NEW h \in Requests, Arrive(h) \/ CallFails(h)
      PROVE  IInv'
  BY <1>3, StartKeeps, HandleKeeps, CallFailsKeeps DEF Arrive
<1>4. ASSUME NEW h \in Requests, Proceed(h)
      PROVE  IInv'
  BY <1>4, CreateKeeps, RefuseKeeps, InvestigatingKeeps, TasksBuiltKeeps, WaveKeeps,
     StateStepKeeps, PlanMadeKeeps, RecoveredKeeps, PreflightStepKeeps, IssueClosedKeeps,
     RcaLabelledKeeps, ExtraTaskMadeKeeps, ReturnedKeeps
     DEF Proceed
<1> QED BY <1>1, <1>2, <1>3, <1>4 DEF Next

THEOREM Invariant == Spec => []IInv
<1>1. Init => IInv
  BY InitIInv
<1>2. IInv /\ [Next]_vars => IInv'
  BY NextKeeps
<1> QED BY <1>1, <1>2, PTL DEF Spec

\* Every record, in memory and on disk, and every coroutine has its type.
THEOREM TypeCorrect == Spec => []TypeOK
<1>1. IInv => TypeOK
  BY DEF IInv
<1> QED BY <1>1, Invariant, PTL

\* At most one start request is inside `async with lock` (start_issue).
THEOREM StartsAreSerialized == Spec => []StartsSerialized
<1>1. IInv => StartsSerialized
  BY DEF IInv
<1> QED BY <1>1, Invariant, PTL

(* ------------------------- comments and deliveries ------------------------ *)

Synced ==
  \A r \in Runs : disk[r].keys = run[r].keys /\ disk[r].outcome = run[r].outcome

\* The run a request belongs to exists, and knows the delivery it acted on.
Belongs(h) ==
  req[h].run # NoRun =>
    /\ run[req[h].run].state # Unborn
    /\ Acted(h) => req[h].msg.delivery \in run[req[h].run].keys \cup {NoDelivery}

\* A record that does not exist yet has taken nothing.
Blank == \A r \in Runs : disk[r].state = Unborn =>
           disk[r].keys = {} /\ \A c \in Comments : disk[r].outcome[c] = "none"

CInv ==
  /\ Synced /\ DeliveredOnce /\ ConfirmedRan /\ Blank
  /\ \A h \in Requests : Belongs(h)

\* The step ConfirmedIsFinal speaks of.
StaysConfirmed ==
  \A r \in Runs, c \in Comments :
    /\ run[r].outcome[c] = "confirmed" => run'[r].outcome[c] = "confirmed"
    /\ disk[r].outcome[c] = "confirmed" => disk'[r].outcome[c] = "confirmed"

\* The step of the ledger.
Books == [Ledger!Next]_(Ledger!ledger)

Good == CInv' /\ StaysConfirmed /\ Books

\* A request that is not under way obeys nothing.
LEMMA ObeysLive ==
  ASSUME NEW h \in Requests
  PROVE  req[h].pc \notin Live => Obeying(h) = Ledger!Nothing
  BY DEF Obeying, Alive, Ledger!Nothing

\* The request h stops obeying, or nothing happened.
LEMMA BooksRest ==
  ASSUME NEW h \in Requests,
         \A r \in Runs : disk'[r].outcome = disk[r].outcome /\ disk'[r].keys = disk[r].keys,
         \A i \in Requests \ {h} : Obeying(i)' = Obeying(i),
         Obeying(h)' \in {Obeying(h), Ledger!Nothing}
  PROVE  Books
<1>1. /\ [r \in Runs |-> disk[r].outcome]' = [r \in Runs |-> disk[r].outcome]
      /\ [r \in Runs |-> disk[r].keys]' = [r \in Runs |-> disk[r].keys]
  OBVIOUS
<1>2. CASE Obeying(h)' = Obeying(h)
  <2>1. [i \in Requests |-> Obeying(i)]' = [i \in Requests |-> Obeying(i)]
    BY <1>2
  <2> QED BY <1>1, <2>1 DEF Books, Ledger!ledger
<1>3. CASE Obeying(h) # Ledger!Nothing /\ Obeying(h)' = Ledger!Nothing
  <2>1. [i \in Requests |-> Obeying(i)]'
          = [[i \in Requests |-> Obeying(i)] EXCEPT ![h] = Ledger!Nothing]
    <3>1. \A i \in Requests : Obeying(i)' = IF i = h THEN Ledger!Nothing ELSE Obeying(i)
      BY <1>3
    <3> HIDE <1>3
    <3> QED BY <3>1
  <2>2. [i \in Requests |-> Obeying(i)][h] # Ledger!Nothing
    BY <1>3
  <2>3. Ledger!Stop(h)
    BY <1>1, <2>1, <2>2 DEF Ledger!Stop, Ledger!Ends
  <2> QED BY <2>3 DEF Books, Ledger!Next
<1> QED BY <1>2, <1>3

-------------------------------------------------------------------------------

\* rec has the keys and the outcomes of base; g is a frame of the same request.
Same(rec, base) == GoodRec(rec) /\ rec.keys = base.keys /\ rec.outcome = base.outcome
SameFrame(g, f) ==
  g \in Frame /\ g.run = f.run /\ g.msg = f.msg /\ g.pc \notin {"idle", "ignored"}

\* A step that touches neither, saved or not.
Saves(h, base, f) ==
  \E rec, g : Step(h, rec, rec, g) /\ Same(rec, base) /\ SameFrame(g, f)
Skips(h, base, f) ==
  \E rec, g : Step(h, rec, disk[g.run], g) /\ Same(rec, base) /\ SameFrame(g, f)
Moves(h, base, f) == Saves(h, base, f) \/ Skips(h, base, f)

Label0 == Pc \ {"idle", "ignored"}

LEMMA AtSame ==
  ASSUME NEW f \in Frame, NEW label \in Label0
  PROVE  SameFrame(At(f, label), f) /\ At(f, label).run = f.run
  BY DEF SameFrame, At, Frame, Label0

LEMMA SavingMoves ==
  ASSUME NEW h, NEW rec, NEW base, NEW f \in Frame, NEW label \in Label0,
         Same(rec, base), Saving(h, rec, f, label)
  PROVE  Saves(h, base, f)
  BY AtSame DEF Saving, Saves

LEMMA UnsavedMoves ==
  ASSUME NEW h, NEW rec, NEW base, NEW f \in Frame, NEW label \in Label0,
         Same(rec, base), Unsaved(h, rec, f, label)
  PROVE  Skips(h, base, f)
<1>1. Step(h, rec, disk[At(f, label).run], At(f, label))
  BY AtSame DEF Unsaved
<1> QED BY <1>1, AtSame DEF Skips

LEMMA CheckpointedSame ==
  ASSUME NEW rec, NEW base, Same(rec, base),
         NEW type \in CheckpointType, NEW payload \in Checkpoint
  PROVE  Same(Checkpointed(rec, type, payload), base)
<1>1. GoodRec(Checkpointed(rec, type, payload))
  BY CheckpointedGood DEF Same
<1> QED BY <1>1 DEF Same, Checkpointed, GoodRec, RunRecord

LEMMA EnteredSame ==
  ASSUME NEW rec, NEW base, Same(rec, base), NEW s \in RunState
  PROVE  Same(Entered(rec, s), base)
<1>1. <<"state", s>> \in Checkpoint /\ "state_transition" \in CheckpointType
  BY DEF Checkpoint, CheckpointType
<1>2. s # Unborn
  BY DEF RunState, Unborn
<1>3. Same([rec EXCEPT !.state = s], base)
  BY <1>2 DEF Same, GoodRec, RunRecord
<1> QED BY <1>1, <1>3, CheckpointedSame DEF Entered

LEMMA SetStateMoves ==
  ASSUME NEW h, NEW rec, NEW base, NEW f \in Frame, NEW s \in RunState,
         NEW label \in Label0, Same(rec, base), SetState(h, rec, f, s, label)
  PROVE  Saves(h, base, f)
<1>1. "raised" \in Label0
  BY DEF Label0, Pc, Ends
<1> QED BY <1>1, EnteredSame, SavingMoves DEF SetState

LEMMA AskingSame ==
  ASSUME NEW rec, NEW base, Same(rec, base) PROVE Same(Asking(rec), base)
  BY DEF Same, GoodRec, Asking, RunRecord, DecisionStatus

LEMMA OverBudgetMoves ==
  ASSUME NEW h, NEW rec, NEW base, NEW f \in Frame, NEW label \in Label0,
         Same(rec, base), OverBudget(h, rec, f, label)
  PROVE  Saves(h, base, f)
<1>1. "WAITING_DECISION" \in RunState
  BY DEF RunState
<1> QED BY <1>1, AskingSame, SetStateMoves DEF OverBudget

LEMMA Labels ==
  (Live \cup {"raised", "done", "lost"}) \subseteq Label0
  BY DEF Label0, Pc, Live, Ends

LEMMA PreflightMoves ==
  ASSUME NEW h, NEW rec, NEW base, NEW f \in Frame, NEW label \in Label0,
         Same(rec, base), Preflight(h, rec, f, label)
  PROVE  Moves(h, base, f)
<1>1. "last" \in Label0
  BY Labels DEF Live
<1> QED BY <1>1, UnsavedMoves, OverBudgetMoves DEF Preflight, Moves

LEMMA BeginMoves ==
  ASSUME NEW h, NEW rec, NEW base, NEW f \in Frame, Same(rec, base),
         BeginInvestigate(h, rec, f) \/ BeginPlan(h, rec, f) \/ BeginVerify(h, rec, f)
  PROVE  Saves(h, base, f)
<1>1. {"INVESTIGATING", "PLANNING", "VERIFYING"} \subseteq RunState
  BY DEF RunState
<1>2. {"investigating", "planning", "verifying"} \subseteq Label0
  BY Labels DEF Live
<1> QED BY <1>1, <1>2, SetStateMoves DEF BeginInvestigate, BeginPlan, BeginVerify

\* A frame that differs in what is no part of its identity.
LEMMA FrameMoves ==
  ASSUME NEW h, NEW base, NEW f, NEW g, g.run = f.run, g.msg = f.msg
  PROVE  /\ Saves(h, base, g) => Saves(h, base, f)
         /\ Skips(h, base, g) => Skips(h, base, f)
  BY DEF Saves, Skips, SameFrame

LEMMA BeginExecuteMoves ==
  ASSUME NEW h, NEW rec, NEW base, NEW f \in Frame, NEW o \in Options,
         Same(rec, base), BeginExecute(h, rec, f, o)
  PROVE  Saves(h, base, f)
<1> DEFINE g == [f EXCEPT !.option = o]
<1>1. <<"pre", o>> \in Checkpoint /\ "execution" \in CheckpointType
  BY DEF Checkpoint, CheckpointType
<1>2. Same(Checkpointed(rec, "execution", <<"pre", o>>), base)
  BY <1>1, CheckpointedSame
<1>3. g \in Frame /\ g.run = f.run /\ g.msg = f.msg
  BY DEF Frame
<1>4. "EXECUTING" \in RunState /\ "executing" \in Label0
  BY Labels DEF RunState, Live
<1> HIDE DEF g
<1>5. Saves(h, base, g)
  BY <1>2, <1>3, <1>4, SetStateMoves DEF BeginExecute, g
<1> QED BY <1>3, <1>5, FrameMoves

-------------------------------------------------------------------------------

\* One request goes on as frame g, and no key and no outcome changes.
Quiet(h, g) ==
  /\ \A r \in Runs : /\ run'[r].keys = run[r].keys /\ run'[r].outcome = run[r].outcome
                     /\ disk'[r].keys = disk[r].keys /\ disk'[r].outcome = disk[r].outcome
                     /\ run[r].state # Unborn => run'[r].state # Unborn
                     /\ disk[r].state # Unborn => disk'[r].state # Unborn
  /\ req' = [req EXCEPT ![h] = g] /\ SameFrame(g, req[h])

LEMMA QuietGood ==
  ASSUME IInv, CInv, NEW h \in Requests, NEW g, req[h].pc \in Live, Quiet(h, g)
  PROVE  Good
<1>1. req \in [Requests -> Frame] /\ req[h].pc \notin {"idle", "ignored", "done"}
  BY DEF IInv, TypeOK, Live
<1>2. \A i \in Requests : /\ req'[i].run = req[i].run /\ req'[i].msg = req[i].msg
                          /\ Acted(i)' <=> Acted(i)
                          /\ req[i].pc = "done" => req'[i].pc = "done"
                          /\ req[i].run \in Runs \cup {NoRun}
  BY <1>1 DEF Quiet, SameFrame, Acted, Frame
<1>3. Synced'
  BY DEF Synced, CInv, Quiet
<1>4. DeliveredOnce'
  BY <1>2 DEF CInv, DeliveredOnce
<1>5. ConfirmedRan'
  BY <1>2 DEF CInv, ConfirmedRan, Quiet
<1>6. \A i \in Requests : Belongs(i)'
  BY <1>2 DEF CInv, Belongs, Quiet
<1>7. StaysConfirmed
  BY DEF StaysConfirmed, Quiet
<1>9. Blank'
  BY DEF CInv, Blank, Quiet
<1>10. Books
  <2>1. \A i \in Requests \ {h} : Obeying(i)' = Obeying(i)
    BY <1>1 DEF Quiet, Obeying, Alive
  <2>2. Obeying(h)' \in {Obeying(h), Ledger!Nothing}
    BY <1>1, <1>2 DEF Obeying, Alive, Ledger!Nothing
  <2> QED BY <2>1, <2>2, BooksRest DEF Quiet
<1> QED BY <1>3, <1>4, <1>5, <1>6, <1>7, <1>9, <1>10 DEF Good, CInv

\* A step of a coroutine under way that touches neither keys nor outcomes.
LEMMA MovesGood ==
  ASSUME IInv, CInv, NEW h \in Requests, req[h].pc \in Live \ {"getIssue"},
         Moves(h, Rec(h), req[h])
  PROVE  Good
<1>1. req[h].run \in Runs
  BY DEF IInv, Owned
<1>2. PICK rec, g, stored :
        /\ Step(h, rec, stored, g) /\ Same(rec, Rec(h)) /\ SameFrame(g, req[h])
        /\ stored = rec \/ stored = disk[g.run]
  BY DEF Moves, Saves, Skips
<1>3. /\ g.run = req[h].run
      /\ run' = [run EXCEPT ![g.run] = rec] /\ disk' = [disk EXCEPT ![g.run] = stored]
      /\ req' = [req EXCEPT ![h] = g]
  BY <1>2 DEF Step, SameFrame
<1>4. /\ rec.keys = run[g.run].keys /\ rec.outcome = run[g.run].outcome
      /\ rec.state # Unborn
  BY <1>2, <1>3 DEF Same, Rec, GoodRec
<1>5. stored.keys = disk[g.run].keys /\ stored.outcome = disk[g.run].outcome
  BY <1>1, <1>2, <1>3, <1>4 DEF CInv, Synced
<1>6. run \in [Runs -> RunRecord] /\ disk \in [Runs -> RunRecord]
  BY DEF IInv, TypeOK
<1>7. Quiet(h, g)
  BY <1>1, <1>2, <1>3, <1>4, <1>5, <1>6 DEF Quiet
<1> QED BY <1>7, QuietGood

-------------------------------------------------------------------------------

\* What the code finds after its await, as LiveFacts has it.
LEMMA LiveSame ==
  ASSUME IInv, NEW h \in Requests, req[h].pc \in Live \ {"getIssue"}
  PROVE  Same(Rec(h), Rec(h)) /\ req[h] \in Frame
  BY LiveFacts DEF Same, GoodFrame

\* The assignments of the handlers that leave keys and outcomes alone.
LEMMA WritesSame ==
  ASSUME NEW rec, NEW base, Same(rec, base)
  PROVE  /\ \A s \in Seq(Nat) : Same([rec EXCEPT !.tasks = s], base)
         /\ \A ts \in SUBSET Nat : Same([rec EXCEPT !.found = @ \cup ts], base)
         /\ \A p \in Plans : Same([rec EXCEPT !.plan = p], base)
         /\ \A e \in Execution : Same([rec EXCEPT !.execution = e], base)
         /\ \A d \in DecisionStatus : /\ Same([rec EXCEPT !.decision = d], base)
                                      /\ Same(Closing(rec, d), base)
         /\ \A t \in CheckpointType : Same([rec EXCEPT !.last = t], base)
<1>1. rec \in RunRecord /\ rec.state # Unborn /\ rec.keys = base.keys
      /\ rec.outcome = base.outcome
  BY DEF Same, GoodRec
<1>2. \A s \in Seq(Nat) : Same([rec EXCEPT !.tasks = s], base)
  BY <1>1 DEF Same, GoodRec, RunRecord
<1>3. \A ts \in SUBSET Nat : Same([rec EXCEPT !.found = @ \cup ts], base)
  BY <1>1 DEF Same, GoodRec, RunRecord
<1>4. \A p \in Plans : Same([rec EXCEPT !.plan = p], base)
  BY <1>1 DEF Same, GoodRec, RunRecord
<1>5. \A e \in Execution : Same([rec EXCEPT !.execution = e], base)
  BY <1>1 DEF Same, GoodRec, RunRecord
<1>6. \A d \in DecisionStatus : Same([rec EXCEPT !.decision = d], base)
  BY <1>1 DEF Same, GoodRec, RunRecord
<1>7. \A d \in DecisionStatus : Same(Closing(rec, d), base)
  BY <1>1, <1>6 DEF Closing, Same, GoodRec, RunRecord
<1>8. \A t \in CheckpointType : Same([rec EXCEPT !.last = t], base)
  BY <1>1 DEF Same, GoodRec, RunRecord
<1> QED BY <1>2, <1>3, <1>4, <1>5, <1>6, <1>7, <1>8

LEMMA GotoMoves ==
  ASSUME IInv, NEW h \in Requests, req[h].pc \in Live \ {"getIssue"},
         NEW label \in Live \cup Ends, label # "ignored", Goto(h, label)
  PROVE  Moves(h, Rec(h), req[h])
<1>1. label \in Label0
  BY DEF Label0, Pc, Live, Ends
<1> QED BY <1>1, LiveSame, UnsavedMoves DEF Goto, Moves

LEMMA RunWavesMoves ==
  ASSUME NEW h, NEW rec, NEW base, NEW f \in Frame, Same(rec, base), RunWaves(h, rec, f)
  PROVE  Moves(h, base, f)
<1> DEFINE todo == TaskIds(rec) \ rec.found
           g == [f EXCEPT !.todo = todo]
<1>1. todo \in SUBSET Nat
  BY DEF TaskIds, Same, GoodRec, RunRecord
<1>2. g \in Frame /\ g.run = f.run /\ g.msg = f.msg
  BY <1>1 DEF Frame
<1>3. {"wave", "rootCause", "raised"} \subseteq Label0
  BY Labels DEF Live
<1>4. \/ Saving(h, rec, g, "wave") \/ Unsaved(h, rec, f, "raised")
      \/ Preflight(h, rec, f, "rootCause")
  BY DEF RunWaves
<1> HIDE DEF g
<1> QED BY <1>2, <1>3, <1>4, SavingMoves, UnsavedMoves, PreflightMoves, FrameMoves DEF Moves

LEMMA InvestigatingMoves ==
  ASSUME IInv, NEW h \in Requests, Investigating(h)
  PROVE  Moves(h, Rec(h), req[h])
<1> DEFINE rec == IF req[h].extra = 0 THEN Rec(h)
                  ELSE [Rec(h) EXCEPT !.tasks = Append(@, req[h].extra)]
<1>1. req[h].pc \in Live \ {"getIssue"}
  BY DEF Investigating, Live
<1>2. Same(rec, Rec(h))
  <2>1. Rec(h).tasks \in Seq(Nat) /\ req[h].extra \in Nat
    BY <1>1, LiveFacts DEF GoodRec, RunRecord, GoodFrame, Frame
  <2>2. Append(Rec(h).tasks, req[h].extra) \in Seq(Nat)
    BY <2>1
  <2> QED BY <1>1, <2>2, LiveSame, WritesSame
<1>3. CASE Goto(h, "buildTasks")
  BY <1>1, <1>3, GotoMoves DEF Live
<1>4. CASE RunWaves(h, rec, req[h])
  BY <1>1, <1>2, <1>4, LiveSame, RunWavesMoves
<1> QED BY <1>3, <1>4 DEF Investigating

LEMMA TasksBuiltMoves ==
  ASSUME IInv, NEW h \in Requests, TasksBuilt(h) \/ GraphValidated(h)
  PROVE  Moves(h, Rec(h), req[h])
<1>1. req[h].pc \in Live \ {"getIssue"}
  BY DEF TasksBuilt, GraphValidated, Live
<1>2. <<0>> \in Seq(Nat) /\ <<>> \in Seq(Nat)
  OBVIOUS
<1>3. {"startedComment", "raised"} \subseteq Label0
  BY Labels DEF Live
<1>4. CASE TasksBuilt(h)
  <2>1. Same([Rec(h) EXCEPT !.tasks = <<0>>], Rec(h))
        /\ Same([Rec(h) EXCEPT !.tasks = <<>>], Rec(h)) /\ req[h] \in Frame
    BY <1>1, <1>2, LiveSame, WritesSame
  <2> QED BY <1>3, <1>4, <2>1, UnsavedMoves DEF TasksBuilt, Moves
<1>5. CASE GraphValidated(h)
  BY <1>1, <1>5, LiveSame, RunWavesMoves, GotoMoves DEF GraphValidated, Ends
<1> QED BY <1>4, <1>5

LEMMA WaveMoves ==
  ASSUME IInv, NEW h \in Requests, WaveDone(h) \/ WaveRefused(h)
  PROVE  Moves(h, Rec(h), req[h])
<1>1. req[h].pc \in Live \ {"getIssue"}
  BY DEF WaveDone, WaveRefused, Live
<1>2. Same(Rec(h), Rec(h)) /\ req[h] \in Frame /\ req[h].todo \in SUBSET Nat
  BY <1>1, LiveSame DEF Frame
<1>3. {"wave", "rootCause", "last", "raised"} \subseteq Label0
  BY Labels DEF Live
<1>4. CASE WaveDone(h)
  <2>1. PICK ready \in (SUBSET req[h].todo) \ {{}} :
          LET rec == [Rec(h) EXCEPT !.found = @ \cup ready]
              g == [req[h] EXCEPT !.todo = Pending(@, ready)]
          IN  \/ Saving(h, rec, g, "wave") \/ Saving(h, rec, g, "rootCause")
              \/ Saving(h, rec, g, "raised") \/ OverBudget(h, rec, g, "last")
    BY <1>4 DEF WaveDone
  <2> DEFINE rec == [Rec(h) EXCEPT !.found = @ \cup ready]
             g == [req[h] EXCEPT !.todo = Pending(@, ready)]
  <2>2. Same(rec, Rec(h))
    BY <1>2, WritesSame
  <2>3. g \in Frame /\ g.run = req[h].run /\ g.msg = req[h].msg
    BY <1>2 DEF Pending, Frame
  <2> HIDE DEF rec, g
  <2>4. \/ Saving(h, rec, g, "wave") \/ Saving(h, rec, g, "rootCause")
        \/ Saving(h, rec, g, "raised") \/ OverBudget(h, rec, g, "last")
    BY <2>1 DEF rec, g
  <2> QED BY <1>3, <2>2, <2>3, <2>4, SavingMoves, OverBudgetMoves, FrameMoves DEF Moves
<1>5. CASE WaveRefused(h)
  BY <1>2, <1>3, <1>5, OverBudgetMoves DEF WaveRefused, Moves
<1> QED BY <1>4, <1>5

LEMMA StateStepMoves ==
  ASSUME IInv, NEW h \in Requests,
         \/ Triaged(h) \/ RootCauseFound(h) \/ Diagnosed(h) \/ RecoveryUnknown(h)
         \/ Verified(h) \/ NotVerified(h) \/ RcaSynthesized(h) \/ ActionsFiled(h)
  PROVE  Moves(h, Rec(h), req[h])
<1>1. req[h].pc \in Live \ {"getIssue"}
  BY DEF Triaged, RootCauseFound, Diagnosed, RecoveryUnknown, Verified, NotVerified,
         RcaSynthesized, ActionsFiled, Live
<1>2. Same(Rec(h), Rec(h)) /\ Same(Asking(Rec(h)), Rec(h)) /\ req[h] \in Frame
  BY <1>1, LiveSame, AskingSame
<1>3. {"DIAGNOSED", "WAITING_INPUT", "WAITING_DECISION", "RESOLVED", "FAILED", "ABORTED",
       "PLAN_RCA_RESOLVED"} \subseteq RunState
  BY DEF RunState
<1>4. {"diagnosed", "last", "handoff", "resolved", "filing"} \subseteq Label0
  BY Labels DEF Live
<1>5. CASE Triaged(h) \/ RootCauseFound(h) \/ Diagnosed(h)
  BY <1>2, <1>3, <1>4, <1>5, BeginMoves, SetStateMoves
     DEF Triaged, RootCauseFound, Diagnosed, Moves
<1>6. CASE RecoveryUnknown(h) \/ Verified(h) \/ NotVerified(h)
  BY <1>2, <1>3, <1>4, <1>6, SetStateMoves DEF RecoveryUnknown, Verified, NotVerified, Moves
<1>7. CASE RcaSynthesized(h) \/ ActionsFiled(h)
  BY <1>2, <1>3, <1>4, <1>7, SetStateMoves, SavingMoves
     DEF RcaSynthesized, ActionsFiled, Moves
<1> QED BY <1>5, <1>6, <1>7

LEMMA PlanMadeMoves ==
  ASSUME IInv, NEW h \in Requests, NEW p \in Plans, PlanMade(h, p)
  PROVE  Moves(h, Rec(h), req[h])
<1> DEFINE rec == [Rec(h) EXCEPT !.plan = p]
           asked == [Asking(rec) EXCEPT !.last = "human_gate"]
<1>1. req[h].pc \in Live \ {"getIssue"}
  BY DEF PlanMade, Live
<1>2. Same(rec, Rec(h)) /\ req[h] \in Frame
  BY <1>1, LiveSame, WritesSame
<1>3. Same(asked, Rec(h))
  <2>1. Same(Asking(rec), Rec(h)) /\ "human_gate" \in CheckpointType
    BY <1>2, AskingSame DEF CheckpointType
  <2> QED BY <2>1, WritesSame
<1> HIDE DEF rec, asked
<1>4. \/ ClassifyPlan(p) = "AUTO" /\ BeginExecute(h, rec, req[h], p.options[1])
      \/ ClassifyPlan(p) \in DOMAIN GateState
         /\ SetState(h, asked, req[h], GateState[ClassifyPlan(p)], "last")
      \/ SetState(h, rec, req[h], "FAILED", "last")
  BY DEF PlanMade, rec, asked
<1>5. "last" \in Label0 /\ "FAILED" \in RunState
  BY Labels DEF Live, RunState
<1>6. ASSUME ClassifyPlan(p) = "AUTO" PROVE p.options[1] \in Options
  BY <1>6, AutoHasOption
<1>7. \A a \in DOMAIN GateState : GateState[a] \in RunState
  BY DEF GateState, RunState
<1> QED BY <1>2, <1>3, <1>4, <1>5, <1>6, <1>7, BeginExecuteMoves, SetStateMoves DEF Moves

LEMMA RecoveredMoves ==
  ASSUME IInv, NEW h \in Requests, NEW e \in Execution \ {"none"}, Recovered(h, e)
  PROVE  Moves(h, Rec(h), req[h])
<1> DEFINE after == IF Succeeded(e) THEN "VERIFYING" ELSE Rec(h).state
           payload == <<"post", req[h].option, Succeeded(e), after>>
           saved == Checkpointed([Rec(h) EXCEPT !.execution = e], "execution", payload)
<1>1. req[h].pc \in Live \ {"getIssue"} /\ req[h].option \in Options
  BY DEF Recovered, Live, IInv, Owned
<1>2. Same(Rec(h), Rec(h)) /\ req[h] \in Frame
  BY <1>1, LiveSame
<1>3. after \in RunState
  BY <1>2 DEF Same, GoodRec, RunRecord, RunState
<1>4. Succeeded(e) \in BOOLEAN
  BY DEF Succeeded
<1>5. payload \in Checkpoint /\ "execution" \in CheckpointType
  BY <1>1, <1>3, <1>4 DEF Checkpoint, CheckpointType
<1>6. Same(saved, Rec(h)) /\ Same(Asking(saved), Rec(h))
  BY <1>2, <1>5, WritesSame, CheckpointedSame, AskingSame
<1>7. {"WAITING_DECISION", "FAILED"} \subseteq RunState /\ "last" \in Label0
  BY Labels DEF RunState, Live
<1>8. \/ SetState(h, Asking(saved), req[h], "WAITING_DECISION", "last")
      \/ SetState(h, saved, req[h], "FAILED", "last")
      \/ BeginVerify(h, saved, req[h])
  BY DEF Recovered
<1> HIDE DEF saved
<1> QED BY <1>2, <1>6, <1>7, <1>8, SetStateMoves, BeginMoves DEF Moves

LEMMA PreflightStepMoves ==
  ASSUME IInv, NEW h \in Requests,
         Planning(h) \/ Executing(h) \/ Verifying(h) \/ HandedOff(h) \/ Announced(h)
  PROVE  Moves(h, Rec(h), req[h])
<1>1. req[h].pc \in Live \ {"getIssue"}
  BY DEF Planning, Executing, Verifying, HandedOff, Announced, Live
<1>2. Same(Rec(h), Rec(h)) /\ Same(Asking(Rec(h)), Rec(h)) /\ req[h] \in Frame
  BY <1>1, LiveSame, AskingSame
<1>3. {"makePlan", "recovery", "last", "verify", "closing"} \subseteq Label0
  BY Labels DEF Live
<1>4. CASE Planning(h) \/ HandedOff(h)
  BY <1>2, <1>3, <1>4, PreflightMoves, UnsavedMoves DEF Planning, HandedOff, Moves
<1>5. CASE Executing(h)
  <2> DEFINE g == [req[h] EXCEPT !.called = TRUE]
  <2>1. g \in Frame /\ g.run = req[h].run /\ g.msg = req[h].msg
    BY <1>2 DEF Frame
  <2>2. Unsaved(h, Rec(h), g, "recovery") \/ OverBudget(h, Rec(h), req[h], "last")
    BY <1>5 DEF Executing
  <2> HIDE DEF g
  <2> QED BY <1>2, <1>3, <2>1, <2>2, UnsavedMoves, OverBudgetMoves, FrameMoves DEF Moves
<1>6. CASE Verifying(h)
  <2> DEFINE g == [req[h] EXCEPT !.verdict = Rec(h).execution]
  <2>1. g \in Frame /\ g.run = req[h].run /\ g.msg = req[h].msg
    BY <1>2 DEF Frame, Same, GoodRec, RunRecord
  <2>2. Preflight(h, Rec(h), g, "verify")
    BY <1>6 DEF Verifying
  <2> HIDE DEF g
  <2> QED BY <1>2, <1>3, <2>1, <2>2, PreflightMoves, FrameMoves DEF Moves
<1>7. CASE Announced(h)
  BY <1>1, <1>7, GotoMoves DEF Announced, Live
<1> QED BY <1>4, <1>5, <1>6, <1>7

LEMMA RcaLabelledMoves ==
  ASSUME IInv, NEW h \in Requests, RcaLabelled(h)
  PROVE  Moves(h, Rec(h), req[h])
<1>1. req[h].pc \in Live \ {"getIssue"}
  BY DEF RcaLabelled, Live
<1>2. CASE Goto(h, "synthesizeRca") \/ Goto(h, "raised")
  BY <1>1, <1>2, GotoMoves DEF Live, Ends
<1>3. CASE SetState(h, Rec(h), req[h], "ABORTED", "last")
  <2>1. "last" \in Label0 /\ "ABORTED" \in RunState
    BY Labels DEF Live, RunState
  <2> QED BY <1>1, <1>3, <2>1, LiveSame, SetStateMoves DEF Moves
<1> QED BY <1>2, <1>3 DEF RcaLabelled

LEMMA ExtraTaskMadeMoves ==
  ASSUME IInv, NEW h \in Requests, ExtraTaskMade(h)
  PROVE  Moves(h, Rec(h), req[h])
<1> DEFINE g == [req[h] EXCEPT !.extra = Cardinality(HXTasks(Rec(h))) + 1]
<1>1. req[h].pc \in Live \ {"getIssue"}
  BY DEF ExtraTaskMade, Live
<1>2. Same([Rec(h) EXCEPT !.decision = "none"], Rec(h)) /\ req[h] \in Frame
  BY <1>1, LiveSame, WritesSame DEF DecisionStatus
<1>3. g \in Frame /\ g.run = req[h].run /\ g.msg = req[h].msg
  <2>1. Cardinality(HXTasks(Rec(h))) + 1 \in Nat
    BY <1>1, HXCount
  <2> QED BY <1>2, <2>1 DEF Frame
<1>4. BeginInvestigate(h, [Rec(h) EXCEPT !.decision = "none"], g)
  BY DEF ExtraTaskMade
<1> HIDE DEF g
<1> QED BY <1>2, <1>3, <1>4, BeginMoves, FrameMoves DEF Moves

-------------------------------------------------------------------------------

\* A coroutine that raises.
LEMMA EndGood ==
  ASSUME IInv, CInv, NEW h \in Requests, req[h].pc \in Live,
         req' = [req EXCEPT ![h].pc = "raised"], UNCHANGED <<run, disk>>
  PROVE  Good
<1> DEFINE g == [req[h] EXCEPT !.pc = "raised"]
<1>1. req[h] \in Frame
  BY DEF IInv, TypeOK
<1>2. SameFrame(g, req[h])
  BY <1>1 DEF SameFrame, Frame, Pc, Ends
<1>3. Quiet(h, g)
  BY <1>2 DEF Quiet
<1> QED BY <1>3, QuietGood

LEMMA IssueClosedGood ==
  ASSUME IInv, CInv, NEW h \in Requests, IssueClosed(h)
  PROVE  Good
<1> DEFINE rec == Entered(Rec(h), "PLAN_RCA")
           g == [req[h] EXCEPT !.pc = "rca"]
<1>1. req[h].pc \in Live \ {"getIssue"}
  BY DEF IssueClosed, Live
<1>2. req[h].run \in Runs /\ Same(rec, Rec(h)) /\ req[h] \in Frame
  BY <1>1, LiveSame, EnteredSame DEF IInv, Owned, RunState
<1>3. CASE TransitionAllowed(Enforcement, Rec(h).state, "PLAN_RCA")
  <2>1. /\ run' = [run EXCEPT ![req[h].run] = rec]
        /\ disk' = [disk EXCEPT ![req[h].run] = rec] /\ req' = [req EXCEPT ![h] = g]
    BY <1>3 DEF IssueClosed
  <2>2. SameFrame(g, req[h])
    BY <1>2 DEF SameFrame, Frame, Pc, Live
  <2> HIDE DEF rec, g
  <2>3. run \in [Runs -> RunRecord] /\ disk \in [Runs -> RunRecord]
    BY DEF IInv, TypeOK
  <2>4. /\ rec.keys = run[req[h].run].keys /\ rec.outcome = run[req[h].run].outcome
        /\ rec.keys = disk[req[h].run].keys /\ rec.outcome = disk[req[h].run].outcome
        /\ rec.state # Unborn
    BY <1>2 DEF Same, Rec, GoodRec, CInv, Synced
  <2>5. Quiet(h, g)
    BY <1>2, <2>1, <2>2, <2>3, <2>4 DEF Quiet
  <2> QED BY <1>1, <2>5, QuietGood
<1>4. CASE ~TransitionAllowed(Enforcement, Rec(h).state, "PLAN_RCA")
  BY <1>1, <1>4, EndGood DEF IssueClosed
<1> QED BY <1>3, <1>4

\* The ledger confirms what h obeyed.
LEMMA BooksConfirm ==
  ASSUME NEW h \in Requests, NEW r0 \in Runs, NEW c0, Obeying(h) = <<r0, c0>>,
         \A i \in Requests : Obeying(i)' = IF i = h THEN Ledger!Nothing ELSE Obeying(i),
         \A r \in Runs : /\ disk'[r].keys = disk[r].keys
                         /\ disk'[r].outcome = IF r = r0
                              THEN [disk[r].outcome EXCEPT ![c0] = "confirmed"]
                              ELSE disk[r].outcome
  PROVE  Ledger!Confirm(h)
<1>1. [r \in Runs |-> disk[r].keys]' = [r \in Runs |-> disk[r].keys]
  OBVIOUS
<1>2. [i \in Requests |-> Obeying(i)]'
        = [[i \in Requests |-> Obeying(i)] EXCEPT ![h] = Ledger!Nothing]
  OBVIOUS
<1>3. [i \in Requests |-> Obeying(i)][h] = <<r0, c0>> /\ <<r0, c0>> # Ledger!Nothing
  BY DEF Ledger!Nothing
<1>4. [r \in Runs |-> disk[r].outcome]'
        = [[r \in Runs |-> disk[r].outcome] EXCEPT ![r0][c0] = "confirmed"]
  OBVIOUS
<1>5. [i \in Requests |-> Obeying(i)][h][1] = r0 /\ [i \in Requests |-> Obeying(i)][h][2] = c0
  BY <1>3
<1> QED BY <1>1, <1>2, <1>3, <1>4, <1>5 DEF Ledger!Confirm, Ledger!Ends

\* A command ends: its comment is confirmed, and its request is done.
LEMMA ReturnedGood ==
  ASSUME IInv, CInv, NEW h \in Requests, Returned(h)
  PROVE  Good
<1> DEFINE c0 == req[h].msg.comment
           r0 == req[h].run
           rec == Outcomed(Rec(h), c0, "confirmed")
           g == At(req[h], "done")
<1>1. req[h].pc \in Live \ {"getIssue"} /\ req[h].pc = "last"
  BY DEF Returned, Live
<1>2. r0 \in Runs /\ GoodRec(Rec(h)) /\ req[h] \in Frame
  BY <1>1, LiveFacts DEF IInv, Owned, GoodFrame
<1>3. CASE req[h].msg.name \in Accountable /\ Saving(h, rec, req[h], "done")
  <2>1. g \in Frame /\ g.run = r0 /\ g.msg = req[h].msg /\ g.pc = "done"
    BY <1>2 DEF At, Frame, Pc, Ends
  <2>2. /\ rec.keys = Rec(h).keys /\ rec.state # Unborn
        /\ \A c \in Comments : rec.outcome[c] = IF c = c0 THEN "confirmed"
                                                 ELSE Rec(h).outcome[c]
    BY <1>2 DEF GoodRec, Outcomed, RunRecord
  <2>15. rec.outcome = [run[r0].outcome EXCEPT ![c0] = "confirmed"] /\ rec.keys = run[r0].keys
    BY <1>2 DEF GoodRec, Outcomed, RunRecord, Rec
  <2>3. /\ run' = [run EXCEPT ![r0] = rec] /\ disk' = [disk EXCEPT ![r0] = rec]
        /\ req' = [req EXCEPT ![h] = g]
    BY <1>3, <2>1 DEF Saving, Step
  <2> HIDE DEF rec, g
  <2>4. run \in [Runs -> RunRecord] /\ disk \in [Runs -> RunRecord]
        /\ req \in [Requests -> Frame]
    BY DEF IInv, TypeOK
  <2>5. \A i \in Requests : /\ req'[i].run = req[i].run /\ req'[i].msg = req[i].msg
                            /\ Acted(i)' <=> Acted(i)
                            /\ req[i].pc = "done" => req'[i].pc = "done"
                            /\ req[i].run \in Runs \cup {NoRun}
    BY <1>1, <2>1, <2>3, <2>4 DEF Acted, Frame
  <2>6. Synced'
    BY <2>3, <2>4 DEF CInv, Synced
  <2>7. DeliveredOnce'
    BY <2>5 DEF CInv, DeliveredOnce
  <2>8. \A r \in Runs : /\ run'[r].keys = run[r].keys
                        /\ run[r].state # Unborn => run'[r].state # Unborn
    BY <1>2, <2>2, <2>3, <2>4 DEF Rec
  <2>9. \A i \in Requests : Belongs(i)'
    BY <2>5, <2>8 DEF CInv, Belongs
  <2>10. \A r \in Runs, c \in Comments :
            \/ /\ run'[r].outcome[c] = run[r].outcome[c]
               /\ disk'[r].outcome[c] = disk[r].outcome[c]
            \/ r = r0 /\ c = c0 /\ run'[r].outcome[c] = "confirmed"
               /\ disk'[r].outcome[c] = "confirmed"
    BY <1>2, <2>2, <2>3, <2>4 DEF Rec, CInv, Synced
  <2>11. StaysConfirmed
    BY <2>10 DEF StaysConfirmed
  <2>12. ConfirmedRan'
    <3> SUFFICES ASSUME NEW r \in Runs, NEW c \in Comments,
                        run'[r].outcome[c] = "confirmed" \/ disk'[r].outcome[c] = "confirmed"
                 PROVE  \E i \in Requests : /\ req'[i].pc = "done" /\ req'[i].run = r
                                            /\ req'[i].msg.comment = c
      BY DEF ConfirmedRan
    <3>1. CASE r = r0 /\ c = c0
      BY <2>1, <2>3, <2>4, <3>1
    <3>2. CASE ~(r = r0 /\ c = c0)
      <4>1. PICK i \in Requests : req[i].pc = "done" /\ req[i].run = r
                                 /\ req[i].msg.comment = c
        BY <2>10, <3>2 DEF CInv, ConfirmedRan
      <4> QED BY <2>5, <4>1
    <3> QED BY <3>1, <3>2
  <2>13. Blank'
    BY <1>2, <2>2, <2>3, <2>4 DEF CInv, Blank, IInv, BornTogether
  <2>14. Books
    <3>1. Obeying(h) = <<r0, c0>> /\ Obeying(h)' = Ledger!Nothing
      BY <1>1, <1>3, <2>1, <2>3, <2>4 DEF Obeying, Alive, Ledger!Nothing, Live
    <3>2. \A i \in Requests : Obeying(i)' = IF i = h THEN Ledger!Nothing ELSE Obeying(i)
      BY <2>3, <2>4, <3>1 DEF Obeying, Alive
    <3>3. \A r \in Runs : /\ disk'[r].keys = disk[r].keys
                          /\ disk'[r].outcome = IF r = r0
                               THEN [disk[r].outcome EXCEPT ![c0] = "confirmed"]
                               ELSE disk[r].outcome
      BY <1>2, <2>3, <2>4, <2>15 DEF CInv, Synced
    <3>4. PICK r \in Runs : r = r0
      BY <1>2
    <3>5. PICK c : c = c0
      OBVIOUS
    <3>6. Ledger!Confirm(h)
      BY <3>1, <3>2, <3>3, <3>4, <3>5, BooksConfirm
    <3> QED BY <3>6 DEF Books, Ledger!Next
  <2> QED BY <2>6, <2>7, <2>9, <2>11, <2>12, <2>13, <2>14 DEF Good, CInv
<1>4. CASE Goto(h, "done")
  BY <1>1, <1>4, GotoMoves, MovesGood DEF Ends
<1> QED BY <1>3, <1>4 DEF Returned, Accountable

\* The ledger of a run is opened.
LEMMA BooksOpen ==
  ASSUME NEW r \in Runs, NEW d, disk[r].keys = {},
         \A c \in Comments : disk[r].outcome[c] = "none",
         \A i \in Requests : Obeying(i)' = Obeying(i),
         \A q \in Runs : /\ disk'[q].outcome = disk[q].outcome
                         /\ disk'[q].keys = IF q = r THEN {d} \ {NoDelivery} ELSE disk[q].keys
  PROVE  Ledger!Deliver(r, d)
<1>1. /\ [q \in Runs |-> disk[q].outcome]' = [q \in Runs |-> disk[q].outcome]
      /\ [i \in Requests |-> Obeying(i)]' = [i \in Requests |-> Obeying(i)]
  OBVIOUS
<1>2. /\ [q \in Runs |-> disk[q].keys][r] = {}
      /\ \A c \in Comments : [q \in Runs |-> disk[q].outcome][r][c] = "none"
  OBVIOUS
<1>3. [q \in Runs |-> disk[q].keys]'
        = [[q \in Runs |-> disk[q].keys] EXCEPT ![r] = {} \cup ({d} \ {NoDelivery})]
  OBVIOUS
<1>4. Ledger!Open(r)
  BY <1>1, <1>2 DEF Ledger!Open
<1> QED BY <1>2, <1>3, <1>4 DEF Ledger!Deliver

\* A record that does not exist yet has no request and no confirmed comment.
LEMMA CreateGood ==
  ASSUME IInv, CInv, NEW h \in Requests, NEW r \in Runs, CreateRun(h, r)
  PROVE  Good
<1> DEFINE keyed == Keyed([BlankRun EXCEPT !.state = "OPEN"], req[h].msg.delivery)
           rec == Entered(keyed, "TRIAGE")
           g == [[req[h] EXCEPT !.pc = "triage"] EXCEPT !.run = r]
<1>1. /\ req[h].pc = "getIssue" /\ req[h].pc \in Live /\ run[r].state = Unborn
      /\ req[h].msg.delivery \in Deliveries \cup {NoDelivery} /\ req[h] \in Frame
  BY DEF CreateRun, IInv, TypeOK, Owned, Live, Message
<1>2. [BlankRun EXCEPT !.state = "OPEN"] \in RunRecord
  BY BlankGood DEF RunRecord, RunState
<1>3. GoodRec(keyed)
  <2>1. keyed \in RunRecord /\ keyed.state = [BlankRun EXCEPT !.state = "OPEN"].state
    BY <1>1, <1>2, KeyedGood
  <2>2. [BlankRun EXCEPT !.state = "OPEN"].state # Unborn
    BY BlankGood DEF RunRecord, Unborn
  <2> QED BY <2>1, <2>2 DEF GoodRec
<1>4. req[h].msg.delivery \in keyed.keys \cup {NoDelivery}
  BY <1>2 DEF Keyed, RunRecord
<1>5. \A c \in Comments : keyed.outcome[c] = "none"
  BY DEF Keyed, BlankRun
<1>6. Same(rec, keyed)
  BY <1>3, EnteredSame DEF Same, RunState
<1>7. /\ GoodRec(rec) /\ req[h].msg.delivery \in rec.keys \cup {NoDelivery}
      /\ \A c \in Comments : rec.outcome[c] = "none"
  BY <1>4, <1>5, <1>6 DEF Same
<1>8. /\ run' = [run EXCEPT ![r] = rec] /\ disk' = [disk EXCEPT ![r] = rec]
      /\ req' = [req EXCEPT ![h].pc = "triage", ![h].run = r]
  BY DEF CreateRun
<1>22. /\ rec.keys = {req[h].msg.delivery} \ {NoDelivery}
       /\ rec.outcome = BlankRun.outcome
  <2>1. keyed.keys = {req[h].msg.delivery} \ {NoDelivery} /\ keyed.outcome = BlankRun.outcome
    BY DEF Keyed, BlankRun
  <2> QED BY <1>6, <2>1 DEF Same
<1> HIDE DEF keyed, rec
<1>9. /\ run \in [Runs -> RunRecord] /\ disk \in [Runs -> RunRecord]
      /\ req \in [Requests -> Frame]
  BY DEF IInv, TypeOK
<1>10. req' = [req EXCEPT ![h] = g]
  BY <1>8, <1>9
<1>11. g.pc = "triage" /\ g.run = r /\ g.msg = req[h].msg
  BY <1>1 DEF Frame
<1> HIDE DEF g
<1>12. /\ req'[h].run = r
       /\ \A i \in Requests : /\ req'[i].msg = req[i].msg
                              /\ Acted(i)' <=> Acted(i)
                              /\ req[i].pc = "done" => i # h
                              /\ i # h => req'[i].run = req[i].run /\ req'[i].pc = req[i].pc
  BY <1>1, <1>9, <1>10, <1>11 DEF Acted
\* Nobody else belongs to a run that is not there.
<1>13. \A i \in Requests : req[i].run # r
  BY <1>1, OrchestratorConstants DEF CInv, Belongs
<1>14. \A c \in Comments : run[r].outcome[c] # "confirmed" /\ disk[r].outcome[c] # "confirmed"
  BY <1>13 DEF CInv, ConfirmedRan
<1>15. Synced'
  BY <1>8, <1>9 DEF CInv, Synced
<1>16. DeliveredOnce'
  BY <1>12, <1>13 DEF CInv, DeliveredOnce
<1>17. ConfirmedRan'
  <2> SUFFICES ASSUME NEW q \in Runs, NEW c \in Comments,
                      run'[q].outcome[c] = "confirmed" \/ disk'[q].outcome[c] = "confirmed"
               PROVE  \E i \in Requests : /\ req'[i].pc = "done" /\ req'[i].run = q
                                          /\ req'[i].msg.comment = c
    BY DEF ConfirmedRan
  <2>1. q # r
    BY <1>7, <1>8, <1>9
  <2>2. PICK i \in Requests : req[i].pc = "done" /\ req[i].run = q /\ req[i].msg.comment = c
    BY <1>8, <2>1 DEF CInv, ConfirmedRan
  <2> QED BY <1>12, <2>2
<1>18. \A i \in Requests : Belongs(i)'
  <2> SUFFICES ASSUME NEW i \in Requests, req'[i].run # NoRun
               PROVE  /\ run'[req'[i].run].state # Unborn
                      /\ Acted(i)' => req'[i].msg.delivery
                                       \in run'[req'[i].run].keys \cup {NoDelivery}
    BY DEF Belongs
  <2>1. CASE i = h
    BY <1>7, <1>8, <1>9, <1>12, <2>1 DEF GoodRec
  <2>2. CASE i # h
    <3>1. req'[i].run = req[i].run /\ req[i].run \in Runs /\ req[i].run # r
      BY <1>9, <1>12, <1>13, <2>2 DEF Frame
    <3>2. run'[req'[i].run] = run[req[i].run]
      BY <1>8, <1>9, <3>1
    <3> QED BY <1>12, <3>1, <3>2 DEF CInv, Belongs
  <2> QED BY <2>1, <2>2
<1>19. StaysConfirmed
  BY <1>8, <1>14 DEF StaysConfirmed
<1>20. Blank'
  BY <1>7, <1>8, <1>9 DEF CInv, Blank, GoodRec
<1>21. Books
  <2>1. disk[r].keys = {} /\ \A c \in Comments : disk[r].outcome[c] = "none"
    BY <1>1 DEF CInv, Blank, IInv, BornTogether
  <2>2. \A i \in Requests : Obeying(i)' = Obeying(i)
    <3>1. Obeying(h) = Ledger!Nothing /\ Obeying(h)' = Ledger!Nothing
      BY <1>1, <1>9, <1>10, <1>11 DEF IInv, Owned, Obeying, Accountable, CommandNames,
                                      Ledger!Nothing
    <3> QED BY <1>9, <1>10, <3>1 DEF Obeying, Alive
  <2>3. \A q \in Runs : /\ disk'[q].outcome = disk[q].outcome
                        /\ disk'[q].keys = IF q = r THEN {req[h].msg.delivery} \ {NoDelivery}
                                           ELSE disk[q].keys
    <3>1. disk[r].outcome = BlankRun.outcome
      BY <1>9, <2>1 DEF RunRecord, BlankRun
    <3> QED BY <1>8, <1>9, <1>22, <3>1
  <2>4. PICK d \in Deliveries \cup {NoDelivery} : d = req[h].msg.delivery
    BY <1>1
  <2>5. Ledger!Deliver(r, d)
    BY <2>1, <2>2, <2>3, <2>4, BooksOpen
  <2> QED BY <2>5 DEF Books, Ledger!Next
<1> QED BY <1>15, <1>16, <1>17, <1>18, <1>19, <1>20, <1>21 DEF Good, CInv

\* A start request that enters, or is ignored, has no run yet.
LEMMA StartGood ==
  ASSUME IInv, CInv, NEW h \in Requests, NEW m \in Messages, StartIssue(h, m)
  PROVE  Good
<1>1. PICK l \in {"ignored", "getIssue"} :
        req' = [req EXCEPT ![h] = [[IdleFrame EXCEPT !.msg = m] EXCEPT !.pc = l]]
  BY DEF StartIssue
<1> DEFINE g == [[IdleFrame EXCEPT !.msg = m] EXCEPT !.pc = l]
<1>2. g.run = NoRun /\ UNCHANGED <<run, disk>> /\ req[h].pc = "idle"
  BY DEF IdleFrame, StartIssue
<1> HIDE DEF g
<1>3. req' = [req EXCEPT ![h] = g] /\ req \in [Requests -> Frame]
  BY <1>1 DEF g, IInv, TypeOK
<1>4. \A i \in Requests : IF i = h THEN req'[i].run = NoRun ELSE req'[i] = req[i]
  BY <1>2, <1>3
<1>5. Synced' /\ StaysConfirmed
  BY <1>2 DEF CInv, Synced, StaysConfirmed
<1>6. DeliveredOnce'
  BY <1>4 DEF CInv, DeliveredOnce, Acted
<1>7. ConfirmedRan'
  BY <1>2, <1>4 DEF CInv, ConfirmedRan
<1>8. \A i \in Requests : Belongs(i)'
  BY <1>2, <1>4 DEF CInv, Belongs, Acted
<1>9. Blank'
  BY <1>2 DEF CInv, Blank
<1>10. Books
  <2>1. m.name = "start" /\ g.msg = m
    BY DEF StartIssue, g, IdleFrame
  <2>2. Obeying(h)' = Ledger!Nothing
    BY <1>3, <2>1 DEF Obeying, Accountable, CommandNames, Ledger!Nothing
  <2>3. \A i \in Requests \ {h} : Obeying(i)' = Obeying(i)
    BY <1>4 DEF Obeying, Alive
  <2> QED BY <1>2, <2>2, <2>3, BooksRest
<1> QED BY <1>5, <1>6, <1>7, <1>8, <1>9, <1>10 DEF Good, CInv

\* A comment that is ignored leaves everything as it is.
LEMMA IgnoredGood ==
  ASSUME IInv, CInv, NEW h \in Requests, NEW f \in Frame, req[h].pc = "idle",
         f.run \in Runs, run[f.run].state # Unborn, Unsaved(h, run[f.run], f, "ignored")
  PROVE  Good
<1> DEFINE g == At(f, "ignored")
<1>1. g.run = f.run /\ g.pc = "ignored"
  BY DEF At, Frame
<1>2. /\ run \in [Runs -> RunRecord] /\ disk \in [Runs -> RunRecord]
      /\ req \in [Requests -> Frame]
  BY DEF IInv, TypeOK
<1>3. /\ run' = [run EXCEPT ![g.run] = run[f.run]]
      /\ disk' = [disk EXCEPT ![g.run] = disk[f.run]] /\ req' = [req EXCEPT ![h] = g]
  BY DEF Unsaved, Step
<1> HIDE DEF g
<1>4. run' = run /\ disk' = disk
  BY <1>1, <1>2, <1>3
<1>5. \A i \in Requests : IF i = h THEN req'[i] = g ELSE req'[i] = req[i]
  BY <1>2, <1>3
<1>6. Synced' /\ StaysConfirmed
  BY <1>4 DEF CInv, Synced, StaysConfirmed
<1>7. DeliveredOnce'
  BY <1>1, <1>5 DEF CInv, DeliveredOnce, Acted
<1>8. ConfirmedRan'
  BY <1>4, <1>5 DEF CInv, ConfirmedRan
<1>9. \A i \in Requests : Belongs(i)'
  BY <1>1, <1>4, <1>5 DEF CInv, Belongs, Acted
<1>10. Blank'
  BY <1>4 DEF CInv, Blank
<1>11. Books
  <2>1. Obeying(h)' = Ledger!Nothing
    BY <1>1, <1>5 DEF Obeying, Alive, Live, Ledger!Nothing
  <2>2. \A i \in Requests \ {h} : Obeying(i)' = Obeying(i)
    BY <1>5 DEF Obeying, Alive
  <2> QED BY <1>4, <2>1, <2>2, BooksRest
<1> QED BY <1>6, <1>7, <1>8, <1>9, <1>10, <1>11 DEF Good, CInv

\* A comment that is taken: its delivery was unknown and its outcome was not
\* confirmed; both are on disk before the first await.
LEMMA TakenGood ==
  ASSUME IInv, CInv, NEW h \in Requests, NEW m \in Message, NEW g, NEW rec, NEW o,
         req[h].pc = "idle", m.comment \in Comments, current \in Runs,
         Step(h, rec, rec, g), g \in Frame, g.run = current, g.msg = m,
         rec.state # Unborn,
         rec.keys = run[current].keys \cup ({m.delivery} \ {NoDelivery}),
         rec.outcome = [run[current].outcome EXCEPT ![m.comment] = o],
         \/ o = "executing"
         \/ o = "received" /\ (g.pc \in Live => m.name \notin Accountable),
         m.delivery \notin run[current].keys, run[current].outcome[m.comment] # "confirmed"
  PROVE  Good
<1>1. /\ run \in [Runs -> RunRecord] /\ disk \in [Runs -> RunRecord]
      /\ req \in [Requests -> Frame]
  BY DEF IInv, TypeOK
<1>2. /\ run' = [run EXCEPT ![current] = rec] /\ disk' = [disk EXCEPT ![current] = rec]
      /\ req' = [req EXCEPT ![h] = g]
  BY DEF Step
<1>3. \A c \in Comments : /\ rec.outcome[c] = "confirmed" => c # m.comment
                          /\ c # m.comment => rec.outcome[c] = run[current].outcome[c]
  <2>1. run[current].outcome \in [Comments -> Outcome]
    BY <1>1 DEF RunRecord
  <2> QED BY <2>1
<1>4. \A i \in Requests : IF i = h THEN req'[i] = g ELSE req'[i] = req[i]
  BY <1>1, <1>2
<1>5. \A r \in Runs : /\ run[r].keys \subseteq run'[r].keys
                      /\ run[r].state # Unborn => run'[r].state # Unborn
  BY <1>1, <1>2
<1>6. Synced'
  BY <1>1, <1>2 DEF CInv, Synced
<1>7. \A r \in Runs, c \in Comments :
         /\ run'[r].outcome[c] = "confirmed" <=> run[r].outcome[c] = "confirmed"
         /\ disk'[r].outcome[c] = "confirmed" <=> disk[r].outcome[c] = "confirmed"
  <2> SUFFICES ASSUME NEW r \in Runs, NEW c \in Comments
               PROVE  /\ run'[r].outcome[c] = "confirmed" <=> run[r].outcome[c] = "confirmed"
                      /\ disk'[r].outcome[c] = "confirmed" <=> disk[r].outcome[c] = "confirmed"
    OBVIOUS
  <2>1. CASE r = current
    <3>1. run'[r] = rec /\ disk'[r] = rec /\ disk[r].outcome = run[r].outcome
      BY <1>1, <1>2, <2>1 DEF CInv, Synced
    <3>2. rec.outcome[c] = "confirmed" <=> run[current].outcome[c] = "confirmed"
      BY <1>3
    <3> QED BY <2>1, <3>1, <3>2
  <2>2. CASE r # current
    BY <1>1, <1>2, <2>2
  <2> QED BY <2>1, <2>2
<1>8. ConfirmedRan'
  BY <1>4, <1>7 DEF CInv, ConfirmedRan
<1>9. StaysConfirmed
  BY <1>7 DEF StaysConfirmed
<1>10. \A i \in Requests : Belongs(i)'
  <2> SUFFICES ASSUME NEW i \in Requests, req'[i].run # NoRun
               PROVE  /\ run'[req'[i].run].state # Unborn
                      /\ Acted(i)' => req'[i].msg.delivery
                                       \in run'[req'[i].run].keys \cup {NoDelivery}
    BY DEF Belongs
  <2>1. CASE i = h
    BY <1>1, <1>2, <1>4, <2>1
  <2>2. CASE i # h
    <3>1. req'[i] = req[i] /\ req[i].run \in Runs
      BY <1>1, <1>4, <2>2 DEF Frame
    <3>2. /\ run[req[i].run].state # Unborn
          /\ Acted(i) => req[i].msg.delivery \in run[req[i].run].keys \cup {NoDelivery}
      BY <3>1 DEF CInv, Belongs
    <3>3. Acted(i)' <=> Acted(i)
      BY <3>1 DEF Acted
    <3>4. /\ run'[req[i].run].state # Unborn
          /\ run[req[i].run].keys \subseteq run'[req[i].run].keys
      BY <1>5, <3>1, <3>2
    <3> QED BY <3>1, <3>2, <3>3, <3>4
  <2> QED BY <2>1, <2>2
\* Whoever acted on this run before with this delivery has it among the keys.
<1>11. \A i \in Requests \ {h} :
         Acted(i) /\ req[i].run = current =>
           req[i].msg.delivery # m.delivery \/ m.delivery = NoDelivery
  BY OrchestratorConstants DEF CInv, Belongs
<1>12. DeliveredOnce'
  <2> SUFFICES ASSUME NEW i \in Requests, NEW j \in Requests, i # j, Acted(i)', Acted(j)',
                      req'[i].run = req'[j].run, req'[i].run # NoRun
               PROVE  req'[i].msg.delivery # req'[j].msg.delivery
                      \/ req'[i].msg.delivery = NoDelivery
    BY DEF DeliveredOnce
  <2>1. CASE i # h /\ j # h
    BY <1>4, <2>1 DEF CInv, DeliveredOnce, Acted
  <2>2. CASE i = h
    BY <1>4, <1>11, <2>2 DEF Acted
  <2>3. CASE j = h
    BY <1>4, <1>11, <2>3 DEF Acted
  <2> QED BY <2>1, <2>2, <2>3
<1>13. Blank'
  BY <1>1, <1>2 DEF CInv, Blank
<1>14. Books
  <2>1. Obeying(h) = Ledger!Nothing
    BY ObeysLive DEF Live
  <2>2. \A i \in Requests \ {h} : Obeying(i)' = Obeying(i)
    BY <1>4 DEF Obeying, Alive
  <2>3. Obeying(h)' \in {Ledger!Nothing, <<current, m.comment>>}
    BY <1>4 DEF Obeying, Ledger!Nothing
  <2>4. o = "received" => Obeying(h)' = Ledger!Nothing
    BY <1>4 DEF Obeying, Alive, Ledger!Nothing
  <2>5. \A r \in Runs :
          /\ disk'[r].keys = IF r = current THEN disk[r].keys \cup ({m.delivery} \ {NoDelivery})
                             ELSE disk[r].keys
          /\ disk'[r].outcome = IF r = current THEN [disk[r].outcome EXCEPT ![m.comment] = o]
                                ELSE disk[r].outcome
    BY <1>1, <1>2 DEF CInv, Synced
  <2>6. m.delivery \notin disk[current].keys /\ disk[current].outcome[m.comment] # "confirmed"
    BY DEF CInv, Synced
  <2>7. PICK r \in Runs, d \in Deliveries \cup {NoDelivery} : r = current /\ d = m.delivery
    BY DEF Message
  <2>8. PICK c \in Comments : c = m.comment
    OBVIOUS
  <2>9. Ledger!Deliver(r, d)
    <3>1. /\ d \notin disk[r].keys /\ disk[r].outcome[c] # "confirmed"
          /\ Obeying(h)' \in {Ledger!Nothing, <<r, c>>}
      BY <2>3, <2>6, <2>7, <2>8
    <3>2. \A q \in Runs :
            /\ disk'[q].keys = IF q = r THEN disk[q].keys \cup ({d} \ {NoDelivery})
                               ELSE disk[q].keys
            /\ disk'[q].outcome = IF q = r THEN [disk[q].outcome EXCEPT ![c] = o]
                                  ELSE disk[q].outcome
      BY <2>5, <2>7, <2>8
    <3>3. o = "executing" \/ (o = "received" /\ Obeying(h)' = Ledger!Nothing)
      BY <2>4
    <3> HIDE <2>3, <2>4, <2>5, <2>6
    <3>4. /\ [i \in Requests |-> Obeying(i)][h] = Ledger!Nothing
          /\ [q \in Runs |-> disk[q].outcome][r][c] # "confirmed"
          /\ d \notin [q \in Runs |-> disk[q].keys][r]
      BY <2>1, <3>1
    <3>5. /\ [q \in Runs |-> disk[q].keys]'
               = [[q \in Runs |-> disk[q].keys] EXCEPT ![r] = @ \cup ({d} \ {NoDelivery})]
          /\ [q \in Runs |-> disk[q].outcome]'
               = [[q \in Runs |-> disk[q].outcome] EXCEPT ![r][c] = o]
      BY <3>2
    <3>6. CASE Obeying(h)' = Ledger!Nothing
      <4>1. [i \in Requests |-> Obeying(i)]' = [i \in Requests |-> Obeying(i)]
        BY <2>1, <2>2, <3>6
      <4>2. Ledger!Take(h, r, c)
        BY <3>3, <3>4, <3>5, <4>1 DEF Ledger!Take
      <4> QED BY <3>4, <3>5, <4>2 DEF Ledger!Deliver
    <3>7. CASE Obeying(h)' = <<r, c>> /\ o = "executing"
      <4>1. [i \in Requests |-> Obeying(i)]'
              = [[i \in Requests |-> Obeying(i)] EXCEPT ![h] = <<r, c>>]
        BY <2>2, <3>7
      <4>2. Ledger!Take(h, r, c)
        BY <3>4, <3>5, <3>7, <4>1 DEF Ledger!Take
      <4> QED BY <3>4, <3>5, <4>2 DEF Ledger!Deliver
    <3> QED BY <3>1, <3>3, <3>6, <3>7
  <2> QED BY <2>9 DEF Books, Ledger!Next
<1> QED BY <1>6, <1>8, <1>9, <1>10, <1>12, <1>13, <1>14 DEF Good, CInv

-------------------------------------------------------------------------------

LEMMA ApproveMoves ==
  ASSUME NEW h, NEW rec, NEW base, NEW f \in Frame, NEW o, Same(rec, base),
         Approve(h, rec, f, o)
  PROVE  Saves(h, base, f)
<1>1. CASE Saving(h, rec, f, "raised")
  BY <1>1, SavingMoves, Labels
<1>2. CASE Planned(rec, o) /\ BeginExecute(h, Closing(rec, "answered"), f, o)
  <2>1. o \in Options
    BY <1>2, OrchestratorConstants DEF Planned, Same, GoodRec, RunRecord
  <2>2. Same(Closing(rec, "answered"), base)
    BY WritesSame DEF DecisionStatus
  <2> QED BY <1>2, <2>1, <2>2, BeginExecuteMoves
<1> QED BY <1>1, <1>2 DEF Approve, Approvable

LEMMA ResumeMoves ==
  ASSUME NEW h, NEW rec, NEW base, NEW f \in Frame, Same(rec, base), Resume(h, rec, f)
  PROVE  Saves(h, base, f)
<1>1. "last" \in Label0
  BY Labels DEF Live
<1>2. \/ BeginInvestigate(h, rec, f) \/ BeginPlan(h, rec, f) \/ BeginVerify(h, rec, f)
      \/ Saving(h, rec, f, "last")
  BY DEF Resume
<1> QED BY <1>1, <1>2, BeginMoves, SavingMoves

\* Every branch of a command saves: as it was taken, or as begun.
LEMMA ObeyMoves ==
  ASSUME NEW h, NEW rec, NEW f \in Frame, GoodRec(rec), f.msg.name \in CommandNames,
         Obey(h, rec, f)
  PROVE  \/ f.msg.name = "resume" /\ Saves(h, rec, f)
         \/ Saves(h, Begun(rec, f.msg.comment), f)
<1> DEFINE begun == Begun(rec, f.msg.comment)
<1>1. Same(rec, rec) /\ Same(begun, begun)
  BY OutcomedGood DEF Same, Begun, Outcome
<1>2. Same([begun EXCEPT !.decision = "none"], begun) /\ Same(Closing(begun, "rejected"), begun)
  BY <1>1, WritesSame DEF DecisionStatus
<1>3. {"ABORTED", "WAITING_DECISION"} \subseteq RunState
  BY DEF RunState
<1>4. {"last", "extraTask"} \subseteq Label0
  BY Labels DEF Live
<1> HIDE DEF begun
<1>5. \/ SetState(h, begun, f, "ABORTED", "last")
      \/ BeginInvestigate(h, [begun EXCEPT !.decision = "none"], f)
      \/ Saving(h, begun, f, "extraTask")
      \/ SetState(h, Closing(begun, "rejected"), f, "WAITING_DECISION", "last")
      \/ Approve(h, begun, f, f.msg.option)
      \/ f.msg.name = "resume" /\ Resume(h, rec, f)
  BY DEF Obey, CommandNames, begun
<1>6. \/ f.msg.name = "resume" /\ Saves(h, rec, f)
      \/ Saves(h, begun, f)
  BY <1>1, <1>2, <1>3, <1>4, <1>5, SetStateMoves, BeginMoves, SavingMoves,
     ApproveMoves, ResumeMoves
<1> QED BY <1>6 DEF begun

LEMMA HandleGood ==
  ASSUME IInv, CInv, NEW h \in Requests, NEW m \in Messages, HandleComment(h, m)
  PROVE  Good
<1> DEFINE f == [IdleFrame EXCEPT !.msg = m, !.run = current]
           rec == run[current]
           taken == Keyed(Outcomed(rec, m.comment, "received"), m.delivery)
           begun == Begun(taken, m.comment)
<1>1. /\ m \in Message /\ m.name # "start" /\ m.comment \in Comments
      /\ current \in Runs /\ req[h].pc = "idle"
  BY OrchestratorConstants DEF HandleComment, IInv, TypeOK
<1>2. GoodRec(rec)
  BY <1>1 DEF IInv, TypeOK, CurrentBorn, GoodRec, HandleComment
<1>3. f \in Frame /\ f.msg = m /\ f.run = current
  BY <1>1 DEF Frame, IdleFrame, Pc, Live, Ends, Execution
<1>4. GoodRec(taken)
  <2>1. GoodRec(Outcomed(rec, m.comment, "received"))
    BY <1>2, OutcomedGood DEF Outcome
  <2>2. m.delivery \in Deliveries \cup {NoDelivery}
    BY <1>1 DEF Message
  <2> QED BY <2>1, <2>2, KeyedGood DEF GoodRec
<1>5. /\ taken.keys = rec.keys \cup ({m.delivery} \ {NoDelivery})
      /\ taken.outcome = [rec.outcome EXCEPT ![m.comment] = "received"]
  BY <1>2 DEF GoodRec, RunRecord, Keyed, Outcomed
<1>6. /\ begun.keys = taken.keys
      /\ begun.outcome = [rec.outcome EXCEPT ![m.comment] = "executing"]
  <2>1. /\ begun.keys = taken.keys
        /\ begun.outcome = [taken.outcome EXCEPT ![m.comment] = "executing"]
    BY <1>4 DEF GoodRec, RunRecord, Begun, Outcomed
  <2>2. [[rec.outcome EXCEPT ![m.comment] = "received"] EXCEPT ![m.comment] = "executing"]
          = [rec.outcome EXCEPT ![m.comment] = "executing"]
    BY <1>2 DEF GoodRec, RunRecord
  <2> QED BY <1>5, <2>1, <2>2
<1> HIDE DEF f, taken, begun
<1>7. CASE Ignored(rec, m)
  <2>1. Unsaved(h, rec, f, "ignored")
    BY <1>7 DEF HandleComment, f
  <2> QED BY <1>1, <1>2, <1>3, <2>1, IgnoredGood DEF GoodRec
<1>8. CASE ~Ignored(rec, m)
  <2>1. \/ Saving(h, taken, f, "done") \/ Saving(h, taken, f, "raised")
        \/ m.name # "text" /\ Obey(h, taken, f)
    BY <1>8 DEF HandleComment, f, taken
  <2>2. m.name # "text" => m.name \in CommandNames
    BY <1>1 DEF Message
  <2>3. Same(taken, taken) /\ {"done", "raised"} \subseteq Label0
    BY <1>4, Labels DEF Same
  <2>4. \/ Saving(h, taken, f, "done") \/ Saving(h, taken, f, "raised")
        \/ m.name = "resume" /\ Saves(h, taken, f)
        \/ Saves(h, begun, f)
    BY <1>3, <1>4, <2>1, <2>2, ObeyMoves DEF begun
  <2>5. m.delivery \notin rec.keys /\ rec.outcome[m.comment] # "confirmed"
    BY <1>8 DEF Ignored
  <2>6. PICK stored, g, o :
          /\ Step(h, stored, stored, g) /\ SameFrame(g, f) /\ stored.state # Unborn
          /\ stored.keys = rec.keys \cup ({m.delivery} \ {NoDelivery})
          /\ stored.outcome = [rec.outcome EXCEPT ![m.comment] = o]
          /\ \/ o = "executing"
             \/ o = "received" /\ (g.pc \in Live => m.name \notin Accountable)
    <3>1. CASE m.name = "resume" /\ Saves(h, taken, f)
      <4>1. PICK stored, g : /\ Step(h, stored, stored, g)
                             /\ Same(stored, taken) /\ SameFrame(g, f)
        BY <3>1 DEF Saves
      <4>2. /\ stored.keys = taken.keys /\ stored.outcome = taken.outcome
            /\ stored.state # Unborn
        BY <4>1 DEF Same, GoodRec
      <4>3. m.name \notin Accountable
        BY <3>1 DEF Accountable
      <4> QED BY <1>5, <4>1, <4>2, <4>3
    <3>2. CASE Saves(h, begun, f)
      <4>1. PICK stored, g : /\ Step(h, stored, stored, g)
                             /\ Same(stored, begun) /\ SameFrame(g, f)
        BY <3>2 DEF Saves
      <4>2. /\ stored.keys = begun.keys /\ stored.outcome = begun.outcome
            /\ stored.state # Unborn
        BY <4>1 DEF Same, GoodRec
      <4>3. PICK o : o = "executing"
        OBVIOUS
      <4>4. /\ stored.keys = rec.keys \cup ({m.delivery} \ {NoDelivery})
            /\ stored.outcome = [rec.outcome EXCEPT ![m.comment] = o]
        BY <1>5, <1>6, <4>2, <4>3
      <4> QED BY <4>1, <4>2, <4>3, <4>4
    <3>3. ASSUME NEW end \in {"done", "raised"}, Saving(h, taken, f, end)
          PROVE  /\ Step(h, taken, taken, At(f, end)) /\ SameFrame(At(f, end), f)
                 /\ At(f, end).pc \notin Live /\ taken.state # Unborn
      BY <1>3, <1>4, <2>3, <3>3, AtSame DEF Saving, At, Frame, Live, GoodRec
    <3>4. ASSUME NEW end \in {"done", "raised"}, Saving(h, taken, f, end)
          PROVE  \E stored, g, o :
                   /\ Step(h, stored, stored, g) /\ SameFrame(g, f) /\ stored.state # Unborn
                   /\ stored.keys = rec.keys \cup ({m.delivery} \ {NoDelivery})
                   /\ stored.outcome = [rec.outcome EXCEPT ![m.comment] = o]
                   /\ \/ o = "executing"
                      \/ o = "received" /\ (g.pc \in Live => m.name \notin Accountable)
      <4>1. PICK stored, g : stored = taken /\ g = At(f, end)
        OBVIOUS
      <4>2. /\ Step(h, stored, stored, g) /\ SameFrame(g, f) /\ stored.state # Unborn
            /\ g.pc \notin Live
        BY <3>3, <3>4, <4>1
      <4>3. /\ stored.keys = rec.keys \cup ({m.delivery} \ {NoDelivery})
            /\ stored.outcome = [rec.outcome EXCEPT ![m.comment] = "received"]
        BY <1>5, <4>1
      <4>4. PICK o : o = "received"
        OBVIOUS
      <4> QED BY <4>2, <4>3, <4>4
    <3> QED BY <2>4, <3>1, <3>2, <3>4
  <2>7. g \in Frame /\ g.run = current /\ g.msg = m
    BY <1>3, <2>6 DEF SameFrame
  <2> QED BY <1>1, <2>5, <2>6, <2>7, TakenGood
<1> QED BY <1>7, <1>8

-------------------------------------------------------------------------------

\* A restart: what was executing is unknown, nothing becomes or ceases to be
\* confirmed, and the keys are those on disk, which are those in memory.
LEMMA CrashGood ==
  ASSUME IInv, CInv, Crash
  PROVE  Good
<1> DEFINE born == {r \in Runs : run[r].state # Unborn}
           anyLive == \E r \in born : disk[r].state \notin TerminalStates
           Back(r0) == [r \in Runs |-> IF r = r0 /\ anyLive THEN Reloaded(disk[r])
                                      ELSE disk[r]]
<1>1. PICK r0 \in IF born = {} THEN {NoRun} ELSE born :
        /\ disk' = Back(r0)
        /\ run' = [r \in Runs |-> [Back(r0)[r] EXCEPT !.seen = run[r].seen,
                                                     !.last = run[r].last]]
  BY Zenon DEF Crash
<1>2. req' = [h \in Requests |-> IF req[h].pc \in Live THEN [req[h] EXCEPT !.pc = "lost"]
                                ELSE req[h]]
  BY Zenon DEF Crash
<1>3. disk \in [Runs -> RunRecord] /\ req \in [Requests -> Frame]
  BY DEF IInv, TypeOK
<1>4. ASSUME NEW r \in Runs
      PROVE  /\ Reloaded(disk[r]) \in RunRecord
             /\ Reloaded(disk[r]).keys = disk[r].keys
             /\ Reloaded(disk[r]).state = disk[r].state
             /\ \A c \in Comments : Reloaded(disk[r]).outcome[c] = "confirmed"
                                    <=> disk[r].outcome[c] = "confirmed"
  <2> DEFINE o == [c \in Comments |-> IF disk[r].outcome[c] = "executing" THEN "unknown"
                                      ELSE disk[r].outcome[c]]
  <2>1. disk[r] \in RunRecord
    BY <1>3
  <2>2. o \in [Comments -> Outcome]
    BY <2>1 DEF RunRecord, Outcome
  <2>3. Reloaded(disk[r]) = [disk[r] EXCEPT !.outcome = o]
    BY DEF Reloaded
  <2>4. \A c \in Comments : o[c] = "confirmed" <=> disk[r].outcome[c] = "confirmed"
    OBVIOUS
  <2> HIDE DEF o
  <2>5. /\ [disk[r] EXCEPT !.outcome = o] \in RunRecord
        /\ [disk[r] EXCEPT !.outcome = o].keys = disk[r].keys
        /\ [disk[r] EXCEPT !.outcome = o].state = disk[r].state
        /\ [disk[r] EXCEPT !.outcome = o].outcome = o
    BY <2>1, <2>2 DEF RunRecord
  <2> QED BY <2>3, <2>4, <2>5
<1>5. \A r \in Runs :
        /\ Back(r0)[r] \in RunRecord
        /\ Back(r0)[r].keys = disk[r].keys /\ Back(r0)[r].state = disk[r].state
        /\ \A c \in Comments : Back(r0)[r].outcome[c] = "confirmed"
                               <=> disk[r].outcome[c] = "confirmed"
  <2>1. \A r \in Runs : Back(r0)[r] = Reloaded(disk[r]) \/ Back(r0)[r] = disk[r]
    OBVIOUS
  <2> HIDE DEF Back
  <2> QED BY <1>3, <1>4, <2>1
<1> HIDE DEF Back
<1>6. \A r \in Runs :
        /\ run'[r].keys = disk'[r].keys /\ run'[r].outcome = disk'[r].outcome
        /\ run'[r].state = disk'[r].state
  <2> SUFFICES ASSUME NEW r \in Runs
               PROVE  /\ run'[r].keys = disk'[r].keys /\ run'[r].outcome = disk'[r].outcome
                      /\ run'[r].state = disk'[r].state
    OBVIOUS
  <2>1. run'[r] = [Back(r0)[r] EXCEPT !.seen = run[r].seen, !.last = run[r].last]
        /\ disk'[r] = Back(r0)[r] /\ Back(r0)[r] \in RunRecord
    BY <1>1, <1>5
  <2> QED BY <2>1 DEF RunRecord
<1>7. \A r \in Runs :
        /\ run'[r].keys = run[r].keys
        /\ run[r].state # Unborn => run'[r].state # Unborn
        /\ \A c \in Comments :
             /\ run'[r].outcome[c] = "confirmed" <=> disk[r].outcome[c] = "confirmed"
             /\ disk'[r].outcome[c] = "confirmed" <=> disk[r].outcome[c] = "confirmed"
             /\ run[r].outcome = disk[r].outcome
  <2> SUFFICES ASSUME NEW r \in Runs
               PROVE  /\ run'[r].keys = run[r].keys
                      /\ run[r].state # Unborn => run'[r].state # Unborn
                      /\ \A c \in Comments :
                           /\ run'[r].outcome[c] = "confirmed" <=> disk[r].outcome[c] = "confirmed"
                           /\ disk'[r].outcome[c] = "confirmed" <=> disk[r].outcome[c] = "confirmed"
                           /\ run[r].outcome = disk[r].outcome
    OBVIOUS
  <2>1. disk'[r] = Back(r0)[r]
    BY <1>1
  <2>2. disk[r].keys = run[r].keys /\ disk[r].outcome = run[r].outcome
        /\ (run[r].state = Unborn <=> disk[r].state = Unborn)
    BY DEF CInv, Synced, IInv, BornTogether
  <2>3. /\ disk'[r].keys = disk[r].keys /\ disk'[r].state = disk[r].state
        /\ \A c \in Comments : disk'[r].outcome[c] = "confirmed"
                               <=> disk[r].outcome[c] = "confirmed"
    BY <1>5, <2>1
  <2>4. /\ run'[r].keys = disk'[r].keys /\ run'[r].outcome = disk'[r].outcome
        /\ run'[r].state = disk'[r].state
    BY <1>6
  <2> QED BY <2>2, <2>3, <2>4
<1>8. \A r \in Runs, c \in Comments :
        /\ run'[r].outcome[c] = "confirmed" <=> disk[r].outcome[c] = "confirmed"
        /\ disk'[r].outcome[c] = "confirmed" <=> disk[r].outcome[c] = "confirmed"
        /\ run[r].outcome[c] = disk[r].outcome[c]
  BY <1>7
<1>9. \A i \in Requests : /\ req'[i].run = req[i].run /\ req'[i].msg = req[i].msg
                          /\ Acted(i)' <=> Acted(i)
                          /\ req[i].pc = "done" => req'[i].pc = "done"
                          /\ req[i].run \in Runs \cup {NoRun}
  BY <1>2, <1>3 DEF Acted, Frame, Live
<1>10. Synced'
  BY <1>6 DEF Synced
<1>11. DeliveredOnce'
  BY <1>9 DEF CInv, DeliveredOnce
<1>12. ConfirmedRan'
  BY <1>8, <1>9 DEF CInv, ConfirmedRan
<1>13. \A i \in Requests : Belongs(i)'
  BY <1>7, <1>9 DEF CInv, Belongs
<1>14. StaysConfirmed
  BY <1>8 DEF StaysConfirmed
<1>15. PICK live \in SUBSET Runs :
         \A r \in Runs :
           /\ disk'[r].keys = disk[r].keys /\ disk'[r].state = disk[r].state
           /\ disk'[r].outcome = IF r \in live THEN Ledger!Doubted(disk[r].outcome)
                                 ELSE disk[r].outcome
  <2> DEFINE live == {r \in Runs : r = r0 /\ anyLive}
  <2>1. \A r \in Runs : Back(r0)[r] = IF r \in live THEN Reloaded(disk[r]) ELSE disk[r]
    BY DEF Back
  <2>2. \A r \in Runs : Reloaded(disk[r]).outcome = Ledger!Doubted(disk[r].outcome)
    BY <1>3 DEF Reloaded, Ledger!Doubted, RunRecord
  <2> HIDE DEF live
  <2>3. live \in SUBSET Runs
    BY DEF live
  <2> QED BY <1>1, <1>5, <2>1, <2>2, <2>3
<1>16. Blank'
  <2> SUFFICES ASSUME NEW r \in Runs, disk'[r].state = Unborn
               PROVE  disk'[r].keys = {} /\ \A c \in Comments : disk'[r].outcome[c] = "none"
    BY DEF Blank
  <2>1. disk[r].keys = {} /\ \A c \in Comments : disk[r].outcome[c] = "none"
    BY <1>15 DEF CInv, Blank
  <2>2. \A c \in Comments : Ledger!Doubted(disk[r].outcome)[c] = "none"
    BY <2>1 DEF Ledger!Doubted
  <2>3. /\ disk'[r].keys = disk[r].keys
        /\ disk'[r].outcome \in {disk[r].outcome, Ledger!Doubted(disk[r].outcome)}
    BY <1>15
  <2> QED BY <2>1, <2>2, <2>3
<1>17. Books
  <2>1. \A i \in Requests : Obeying(i)' = Ledger!Nothing
    BY <1>2, <1>3 DEF Obeying, Alive, Frame, Live, Ledger!Nothing
  <2>2. /\ [r \in Runs |-> disk[r].keys]' = [r \in Runs |-> disk[r].keys]
        /\ [i \in Requests |-> Obeying(i)]' = [i \in Requests |-> Ledger!Nothing]
    BY <1>15, <2>1
  <2>3. [r \in Runs |-> disk[r].outcome]'
          = [r \in Runs |-> IF r \in live
                            THEN Ledger!Doubted([q \in Runs |-> disk[q].outcome][r])
                            ELSE [q \in Runs |-> disk[q].outcome][r]]
    BY <1>15
  <2>4. Ledger!Restart
    BY <2>2, <2>3 DEF Ledger!Restart
  <2> QED BY <2>4 DEF Books, Ledger!Next
<1> QED BY <1>10, <1>11, <1>12, <1>13, <1>14, <1>16, <1>17 DEF Good, CInv

LEMMA NextGood ==
  ASSUME IInv, CInv, [Next]_vars
  PROVE  Good
<1>1. CASE UNCHANGED vars
  <2>1. CInv' /\ StaysConfirmed
    BY <1>1 DEF vars, CInv, Synced, DeliveredOnce, ConfirmedRan, Belongs, Acted,
                Blank, StaysConfirmed
  <2>2. Books
    BY <1>1 DEF vars, Books, Ledger!ledger, Obeying, Alive
  <2> QED BY <2>1, <2>2 DEF Good
<1>2. CASE Crash
  BY <1>2, CrashGood
<1>3. ASSUME NEW h \in Requests, Arrive(h)
      PROVE  Good
  BY <1>3, StartGood, HandleGood DEF Arrive
<1>4. ASSUME NEW h \in Requests, CallFails(h)
      PROVE  Good
  BY <1>4, EndGood DEF CallFails
<1>5. ASSUME NEW h \in Requests, Proceed(h)
      PROVE  Good
  <2>1. CASE \/ Investigating(h) \/ TasksBuilt(h) \/ GraphValidated(h) \/ WaveDone(h)
             \/ WaveRefused(h) \/ Triaged(h) \/ RootCauseFound(h) \/ Diagnosed(h)
             \/ RecoveryUnknown(h) \/ Verified(h) \/ NotVerified(h) \/ RcaSynthesized(h)
             \/ ActionsFiled(h) \/ Planning(h) \/ Executing(h) \/ Verifying(h)
             \/ HandedOff(h) \/ Announced(h) \/ RcaLabelled(h) \/ ExtraTaskMade(h)
             \/ (\E p \in Plans : PlanMade(h, p))
             \/ (\E e \in Execution \ {"none"} : Recovered(h, e))
    <3>1. Moves(h, Rec(h), req[h])
      BY <2>1, InvestigatingMoves, TasksBuiltMoves, WaveMoves, StateStepMoves,
         PreflightStepMoves, RcaLabelledMoves, ExtraTaskMadeMoves, PlanMadeMoves,
         RecoveredMoves
    <3>2. req[h].pc \in Live \ {"getIssue"}
      BY <2>1 DEF Investigating, TasksBuilt, GraphValidated, WaveDone, WaveRefused,
         Triaged, RootCauseFound, Diagnosed, RecoveryUnknown, Verified, NotVerified,
         RcaSynthesized, ActionsFiled, Planning, Executing, Verifying, HandedOff,
         Announced, RcaLabelled, ExtraTaskMade, PlanMade, Recovered, Live
    <3> QED BY <3>1, <3>2, MovesGood
  <2>2. CASE \E r \in Runs : CreateRun(h, r)
    BY <2>2, CreateGood
  <2>3. CASE RefuseRun(h)
    BY <2>3, EndGood DEF RefuseRun, Live
  <2>4. CASE IssueClosed(h) \/ Returned(h)
    BY <2>4, IssueClosedGood, ReturnedGood
  <2> QED BY <1>5, <2>1, <2>2, <2>3, <2>4 DEF Proceed
<1> QED BY <1>1, <1>2, <1>3, <1>4, <1>5 DEF Next

LEMMA InitCInv == Init => CInv
<1> SUFFICES ASSUME Init PROVE CInv
  OBVIOUS
<1>1. \A h \in Requests : req[h].run = NoRun
  BY DEF Init, IdleFrame
<1>2. \A r \in Runs : /\ disk[r] = run[r]
                      /\ \A c \in Comments : run[r].outcome[c] # "confirmed"
  BY DEF Init, BlankRun
<1>3. Synced /\ DeliveredOnce /\ \A h \in Requests : Belongs(h)
  BY <1>1, <1>2 DEF Synced, DeliveredOnce, Belongs
<1>4. ConfirmedRan
  BY <1>2 DEF ConfirmedRan
<1>5. Blank
  BY DEF Init, BlankRun, Blank
<1> QED BY <1>3, <1>4, <1>5 DEF CInv

LEMMA InitLedger == Init => Ledger!Init
<1> SUFFICES ASSUME Init PROVE Ledger!Init
  OBVIOUS
<1>1. /\ [r \in Runs |-> disk[r].outcome] = [r \in Runs |-> [c \in Comments |-> "none"]]
      /\ [r \in Runs |-> disk[r].keys] = [r \in Runs |-> {}]
  BY DEF Init, BlankRun
<1>2. \A h \in Requests : Obeying(h) = Ledger!Nothing
  BY ObeysLive DEF Init, IdleFrame, Live
<1> QED BY <1>1, <1>2 DEF Ledger!Init

LEMMA CommandInvariant == Spec => [](IInv /\ CInv)
<1>1. Init => IInv /\ CInv
  BY InitIInv, InitCInv
<1>2. IInv /\ CInv /\ [Next]_vars => IInv' /\ CInv'
  BY NextKeeps, NextGood DEF Good
<1> QED BY <1>1, <1>2, PTL DEF Spec

\* A delivery id reaches a run once (idempotency_keys), through restarts too.
THEOREM DeliveriesActOnce == Spec => []DeliveredOnce
<1>1. CInv => DeliveredOnce
  BY DEF CInv
<1> QED BY <1>1, CommandInvariant, PTL

\* A comment is confirmed only when its request came to its end.
THEOREM ConfirmedHasRun == Spec => []ConfirmedRan
<1>1. CInv => ConfirmedRan
  BY DEF CInv
<1> QED BY <1>1, CommandInvariant, PTL

\* A confirmed comment stays confirmed, in memory and on disk.
THEOREM ConfirmedStays == Spec => ConfirmedIsFinal
<1>1. IInv /\ CInv /\ [Next]_vars => [StaysConfirmed]_vars
  BY NextGood DEF Good
<1> QED BY <1>1, CommandInvariant, PTL DEF Spec, ConfirmedIsFinal, StaysConfirmed

\* The orchestrator implements the ledger of commands, for any number of
\* requests, runs, comments, deliveries and restarts.
THEOREM CommandsAreAccounted == Spec => Accounted
<1>1. IInv /\ CInv /\ [Next]_vars => [Ledger!Next]_(Ledger!ledger)
  BY NextGood DEF Good, Books
<1> QED BY <1>1, InitLedger, CommandInvariant, PTL DEF Spec, Accounted, Ledger!Spec

===============================================================================
