---------------------------- MODULE LifecycleProofs ----------------------------
(* What the orchestrator promises about the life of a run, for any number of  *)
(* requests, runs, plans and restarts: who may move it, what may be executed, *)
(* when the issue may be closed, and where the run may be left.               *)
(*                                                                            *)
(* None of it is inductive.  A request carries its right with it (Rightful),  *)
(* and the record carries its history: the states it has been in and whether  *)
(* it was executed outlive the requests that brought it there (Historied).    *)
(* A restart goes back to the disk, so what it relies on must be on disk:     *)
(* the state always is (SameState), the rest is not.                          *)
EXTENDS OrchestratorProofs

Passed(rec, s) == <<"state", s>> \in rec.seen

\* Some request of the run has called the recovery agent.
Executed(r) == \E h \in Requests : req[h].run = r /\ req[h].called

\* What ExecutionAuthorized says of one request.
Authorized(f) ==
  \/ /\ f.msg.name = "approve" /\ f.option = f.msg.option
     /\ f.msg.permission \in {"maintain", "admin"} /\ ~Denied(f.option)
  \/ /\ Action(Label[f.option]) = "AUTO"
     /\ \E p \in Plans : p.options = <<f.option>>

\* What OnlyAuthorityMoves says of a message.
MayMove(m) ==
  \/ m.name = "start"
  \/ m.name \in {"approve", "reject", "abort"} /\ m.permission \in {"maintain", "admin"}
  \/ m.name \in {"provide", "investigate", "resume"} /\ m.permission # "none"

\* A request under way has its right to move the run, one that executes or has executed
\* its right to the option, and one that verifies or closes a run with that history.
Rightful(h) ==
  LET f == req[h]
  IN  /\ f.pc \in Live => MayMove(f.msg)
      /\ f.pc = "executing" \/ f.called => Authorized(f)
      /\ f.pc = "recovery" => f.called
      /\ f.pc \in {"idle", "getIssue"} => ~f.called
      /\ f.pc \in {"verifying", "verify", "resolved", "closing"} =>
           Passed(run[f.run], "VERIFYING") /\ Executed(f.run)
      /\ f.pc \in {"resolved", "closing"} => Passed(run[f.run], "RESOLVED")

SameState == \A r \in Runs : disk[r].state = run[r].state

Historied(r) ==
  /\ run[r].state = Unborn \/ Passed(run[r], run[r].state)
  /\ run[r].execution # "none" \/ disk[r].execution # "none" => Executed(r)
  /\ r \in closed =>
       /\ run[r].state # Unborn /\ Executed(r)
       /\ Passed(run[r], "VERIFYING") /\ Passed(run[r], "RESOLVED")

\* What GateHasQuestion says of one record.
Asked(rec) == rec.state \in {"WAITING_APPROVAL", "WAITING_INPUT"} => rec.decision = "pending"
\* A refused transition of strict mode may leave a gate whose question was answered.
Gates(r) == Enforcement # "strict" => Asked(run[r]) /\ Asked(disk[r])

\* Where a run may be left, and the requests that will still bring it there, or have
\* ended without: not those that only have a comment to write.
Restful == (RestStates \ {"RESOLVED"}) \cup {Unborn}
Working == (Live \ {"getIssue", "handoff", "filing", "last"}) \cup {"raised", "lost"}
Attended(r) ==
  run[r].state \in Restful \/ \E h \in Requests : req[h].run = r /\ req[h].pc \in Working

\* The commands that mark their comment, and the requests that stand for a mark.
Marking == CommandNames \ {"resume"}
Owner(h, r, c) ==
  /\ req[h].pc \in Live \cup {"raised"} /\ req[h].run = r
  /\ req[h].msg.name \in Marking /\ req[h].msg.comment = c
Owners ==
  current # NoRun /\ NeverOver(current) =>
    \A c \in Comments : run[current].outcome[c] = "executing" =>
      \E h \in Requests : Owner(h, current, c)

LInv ==
  /\ SameState /\ Owners
  /\ \A h \in Requests : Rightful(h)
  /\ \A r \in Runs : Historied(r) /\ Gates(r) /\ Attended(r)

(* ---------------------------- what a step does ----------------------------- *)

\* What a step of frame f may make of the record base.
Recorded(base, rec, f) ==
  /\ base.seen \subseteq rec.seen
  /\ rec.state # base.state =>
       /\ rec.state \in RunState /\ Passed(rec, rec.state)
       /\ TransitionAllowed(Enforcement, base.state, rec.state)
  /\ Enforcement # "strict" /\ Asked(base) => Asked(rec)
  /\ rec.execution = base.execution \/ f.pc = "recovery"
  /\ \A c \in Comments : rec.outcome[c] = "executing" => base.outcome[c] = "executing"

\* g is a frame of the same request, and its option is as it was or authorized.
SameRequest(f, g) ==
  /\ g \in Frame /\ g.run = f.run /\ g.msg = f.msg
  /\ f.called => g.called
  /\ g.called => f.called \/ f.pc = "executing"
  /\ g.option = f.option \/ Authorized(g)

\* Where g may stand, once base has become rec.
Stands(base, rec, f, g) ==
  /\ g.pc \notin {"idle", "getIssue"}
  /\ g.pc = "executing" => Authorized(g)
  /\ g.pc = "recovery" => g.called
  /\ g.pc \in {"verifying", "verify"} =>
       \/ f.pc \in {"verifying", "verify"}
       \/ Passed(rec, "VERIFYING") /\ (f.pc = "recovery" \/ base.execution # "none")
  /\ g.pc \in {"resolved", "closing"} =>
       \/ f.pc \in {"resolved", "closing"}
       \/ f.pc = "verify" /\ Passed(rec, "RESOLVED")
  /\ g.pc \notin Working =>
       rec.state \in Restful \/ (f.pc \notin Working /\ rec.state = base.state)
  /\ f.msg.name \in Marking /\ f.msg.comment \in Comments =>
       g.pc \in Live \cup {"raised"} \/ rec.outcome[f.msg.comment] # "executing"
  /\ rec.state # base.state => g.pc # "ignored" /\ (g.pc # f.pc \/ f.pc = "wave")

\* Request h goes on as frame g with the record rec, of which stored is on disk.
Writes(h, rec, stored, g) ==
  /\ run' = [run EXCEPT ![g.run] = rec] /\ disk' = [disk EXCEPT ![g.run] = stored]
  /\ req' = [req EXCEPT ![h] = g] /\ UNCHANGED current

\* It goes on from frame f and record base.
Goes(h, base, rec, stored, f, g) ==
  /\ Writes(h, rec, stored, g) /\ Recorded(base, rec, f)
  /\ SameRequest(f, g) /\ Stands(base, rec, f, g)
  /\ stored = rec \/ (stored = disk[g.run] /\ rec.state = base.state)
Leads(h, base, f) ==
  /\ \E rec, stored, g : Goes(h, base, rec, stored, f, g)
  /\ closed' = closed

\* What the code does to a record before it enters a state or waits.
Kept(base, rec, f) ==
  /\ rec \in RunRecord /\ rec.state = base.state /\ base.seen \subseteq rec.seen
  /\ rec.execution = base.execution \/ f.pc = "recovery"
  /\ rec.outcome = base.outcome
\* And if it does not enter a state: an open question stays open.
Open(base, rec) == rec.decision \in {base.decision, "pending"}

-------------------------------------------------------------------------------

LEMMA AtFrame ==
  ASSUME NEW f \in Frame, NEW g, SameRequest(f, g), NEW label \in Pc
  PROVE  SameRequest(f, At(g, label)) /\ At(g, label).pc = label /\ At(g, label).run = g.run
         /\ At(g, label).called = g.called /\ (Authorized(g) => Authorized(At(g, label)))
<1>1. At(g, label) = [g EXCEPT !.pc = label] /\ g \in Frame
  BY DEF At, SameRequest
<1>2. /\ At(g, label) \in Frame /\ At(g, label).run = g.run /\ At(g, label).msg = g.msg
      /\ At(g, label).called = g.called /\ At(g, label).option = g.option
      /\ At(g, label).pc = label
  BY <1>1 DEF Frame
<1>3. Authorized(g) => Authorized(At(g, label))
  BY <1>2 DEF Authorized
<1> QED BY <1>2, <1>3 DEF SameRequest

LEMMA KeptRecorded ==
  ASSUME NEW base, NEW rec, NEW f, Kept(base, rec, f), Open(base, rec)
  PROVE  Recorded(base, rec, f)
  BY DEF Kept, Open, Recorded, Asked

LEMMA SavingLeads ==
  ASSUME NEW h, NEW f \in Frame, NEW base, NEW rec, NEW g, NEW label \in Pc,
         Recorded(base, rec, f), SameRequest(f, g), Stands(base, rec, f, At(g, label)),
         Saving(h, rec, g, label)
  PROVE  Leads(h, base, f)
<1>1. SameRequest(f, At(g, label))
  BY AtFrame
<1>2. Goes(h, base, rec, rec, f, At(g, label)) /\ closed' = closed
  BY <1>1 DEF Goes, Saving, Step, Writes
<1> QED BY <1>2 DEF Leads

LEMMA UnsavedLeads ==
  ASSUME NEW h, NEW f \in Frame, NEW base, NEW rec, NEW g, NEW label \in Pc,
         Recorded(base, rec, f), rec.state = base.state, SameRequest(f, g),
         Stands(base, rec, f, At(g, label)), Unsaved(h, rec, g, label)
  PROVE  Leads(h, base, f)
<1>1. SameRequest(f, At(g, label)) /\ At(g, label).run = g.run
  BY AtFrame
<1>2. Goes(h, base, rec, disk[g.run], f, At(g, label)) /\ closed' = closed
  BY <1>1 DEF Goes, Unsaved, Step, Writes
<1> QED BY <1>2 DEF Leads

LEMMA EnteredRecord ==
  ASSUME NEW rec \in RunRecord, NEW s \in RunState
  PROVE  /\ Entered(rec, s) \in RunRecord /\ Entered(rec, s).state = s
         /\ rec.seen \subseteq Entered(rec, s).seen /\ Passed(Entered(rec, s), s)
         /\ Entered(rec, s).execution = rec.execution
         /\ Entered(rec, s).outcome = rec.outcome
         /\ Entered(rec, s).decision = rec.decision
<1>1. Entered(rec, s) \in RunRecord
  BY EnteredGood DEF GoodRec
<1> DEFINE mid == [rec EXCEPT !.state = s]
<1>2. mid \in RunRecord /\ mid.state = s /\ mid.seen = rec.seen
      /\ mid.execution = rec.execution /\ mid.outcome = rec.outcome
      /\ mid.decision = rec.decision
  BY DEF RunRecord
<1>3. Entered(rec, s) = IF <<"state", s>> \in mid.seen THEN mid
                        ELSE [mid EXCEPT !.seen = @ \cup {<<"state", s>>},
                                         !.last = "state_transition"]
  BY DEF Entered, Checkpointed
<1> HIDE DEF mid
<1> QED BY <1>1, <1>2, <1>3 DEF Passed, RunRecord

\* To enter a state: the label must fit the state, which is a gate only with a question.
FitsState(base, rec, f, g, s, label) ==
  /\ label \in Live \ {"getIssue", "recovery", "verify", "closing"}
  /\ label # f.pc \/ f.pc = "wave"
  /\ label = "executing" => Authorized(g)
  /\ label = "verifying" => s = "VERIFYING" /\ (f.pc = "recovery" \/ base.execution # "none")
  /\ label = "resolved" => s = "RESOLVED" /\ f.pc = "verify"
  /\ label \notin Working => s \in Restful
  /\ s \in {"WAITING_APPROVAL", "WAITING_INPUT"} => rec.decision = "pending"

LEMMA SetStateLeads ==
  ASSUME NEW h, NEW f \in Frame, NEW base, NEW rec, NEW g, NEW s \in RunState,
         NEW label, Kept(base, rec, f), SameRequest(f, g), f.pc # "raised",
         FitsState(base, rec, f, g, s, label), SetState(h, rec, g, s, label)
  PROVE  Leads(h, base, f)
<1>1. /\ label \in Live /\ label \in Pc /\ label \notin {"idle", "ignored"}
      /\ "raised" \in Pc /\ "raised" \notin Live
  BY DEF FitsState, Pc, Ends, Live
<1>2. /\ Entered(rec, s).state = s /\ Passed(Entered(rec, s), s)
      /\ rec.seen \subseteq Entered(rec, s).seen
      /\ Entered(rec, s).execution = rec.execution /\ Entered(rec, s).outcome = rec.outcome
      /\ Entered(rec, s).decision = rec.decision
  BY EnteredRecord DEF Kept
<1>3. CASE TransitionAllowed(Enforcement, rec.state, s) /\ Saving(h, Entered(rec, s), g, label)
  <2>1. Recorded(base, Entered(rec, s), f)
    BY <1>2, <1>3 DEF Kept, Recorded, FitsState, Asked
  <2>2. At(g, label).pc = label /\ (Authorized(g) => Authorized(At(g, label)))
    BY <1>1, AtFrame
  <2>3. Stands(base, Entered(rec, s), f, At(g, label))
    BY <1>1, <1>2, <2>2 DEF Kept, FitsState, Stands
  <2> QED BY <1>1, <1>3, <2>1, <2>3, SavingLeads
<1>4. CASE ~TransitionAllowed(Enforcement, rec.state, s) /\ Saving(h, rec, g, "raised")
  <2>1. Recorded(base, rec, f)
    BY <1>4 DEF Kept, Recorded, TransitionAllowed
  <2>2. At(g, "raised").pc = "raised" /\ "raised" \in Working
    BY <1>1, AtFrame DEF Working
  <2>3. Stands(base, rec, f, At(g, "raised"))
    BY <1>1, <2>2 DEF Kept, Stands
  <2> QED BY <1>1, <1>4, <2>1, <2>3, SavingLeads
<1> QED BY <1>3, <1>4 DEF SetState

-------------------------------------------------------------------------------

\* The assignments of the handlers, none of which touches state or outcomes.
LEMMA TasksKept ==
  ASSUME NEW base, NEW rec, NEW f, Kept(base, rec, f), NEW s \in Seq(Nat)
  PROVE  Kept(base, [rec EXCEPT !.tasks = s], f)
         /\ (Open(base, rec) => Open(base, [rec EXCEPT !.tasks = s]))
  BY DEF Kept, Open, RunRecord

LEMMA FoundKept ==
  ASSUME NEW base, NEW rec, NEW f, Kept(base, rec, f), NEW ts \in SUBSET Nat
  PROVE  Kept(base, [rec EXCEPT !.found = @ \cup ts], f)
         /\ (Open(base, rec) => Open(base, [rec EXCEPT !.found = @ \cup ts]))
  BY DEF Kept, Open, RunRecord

LEMMA PlanKept ==
  ASSUME NEW base, NEW rec, NEW f, Kept(base, rec, f), NEW p \in Plans
  PROVE  Kept(base, [rec EXCEPT !.plan = p], f)
  BY DEF Kept, RunRecord

LEMMA ResultKept ==
  ASSUME NEW base, NEW rec, NEW f, Kept(base, rec, f), NEW e \in Execution,
         f.pc = "recovery"
  PROVE  Kept(base, [rec EXCEPT !.execution = e], f)
  BY DEF Kept, RunRecord

LEMMA LastKept ==
  ASSUME NEW base, NEW rec, NEW f, Kept(base, rec, f), NEW t \in CheckpointType
  PROVE  Kept(base, [rec EXCEPT !.last = t], f)
         /\ [rec EXCEPT !.last = t].decision = rec.decision
  BY DEF Kept, RunRecord

LEMMA DecisionKept ==
  ASSUME NEW base, NEW rec, NEW f, Kept(base, rec, f), NEW d \in DecisionStatus
  PROVE  Kept(base, [rec EXCEPT !.decision = d], f)
         /\ [rec EXCEPT !.decision = d].decision = d
  BY DEF Kept, RunRecord

LEMMA ClosingKept ==
  ASSUME NEW base, NEW rec, NEW f, Kept(base, rec, f), NEW d \in DecisionStatus
  PROVE  Kept(base, Closing(rec, d), f)
<1>1. PICK x \in DecisionStatus : Closing(rec, d) = [rec EXCEPT !.decision = x]
  BY DEF Closing, Kept, RunRecord
<1> QED BY <1>1, DecisionKept

LEMMA AskingKept ==
  ASSUME NEW base, NEW rec, NEW f, Kept(base, rec, f)
  PROVE  Kept(base, Asking(rec), f) /\ Asking(rec).decision = "pending"
         /\ Open(base, Asking(rec))
  BY DecisionKept DEF Asking, Open, DecisionStatus

\* A step that enters no state goes to one of these, or raises.
Plain == Working \ {"executing", "recovery", "verifying", "verify", "resolved", "closing",
                    "lost"}

LEMMA PlainLeads ==
  ASSUME NEW h, NEW f \in Frame, NEW base, NEW rec, NEW g, NEW label \in Plain,
         Kept(base, rec, f), Open(base, rec), SameRequest(f, g),
         Saving(h, rec, g, label) \/ Unsaved(h, rec, g, label)
  PROVE  Leads(h, base, f)
<1>1. label \in Pc /\ label \in Live \cup {"raised"}
      /\ label \notin {"idle", "getIssue", "ignored"}
  BY DEF Plain, Working, Pc, Ends, Live
<1>2. Recorded(base, rec, f) /\ rec.state = base.state
  BY KeptRecorded DEF Kept
<1>3. Stands(base, rec, f, At(g, label))
  BY <1>1, <1>2, AtFrame DEF Stands, Plain
<1> QED BY <1>1, <1>2, <1>3, SavingLeads, UnsavedLeads

LEMMA OverBudgetLeads ==
  ASSUME NEW h, NEW f \in Frame, NEW base, NEW rec, NEW g, NEW label \in {"last", "wave"},
         Kept(base, rec, f), SameRequest(f, g), f.pc \in Live \ {"last"},
         label = "wave" => f.pc = "wave", OverBudget(h, rec, g, label)
  PROVE  Leads(h, base, f)
<1>1. Kept(base, Asking(rec), f) /\ Asking(rec).decision = "pending"
  BY AskingKept
<1>2. "WAITING_DECISION" \in RunState /\ "WAITING_DECISION" \in Restful
  BY DEF RunState, Restful, RestStates, WaitingStates
<1>3. label \in Live \ {"getIssue", "recovery", "verify", "closing"} /\ f.pc # "raised"
  BY DEF Live
<1>4. FitsState(base, Asking(rec), f, g, "WAITING_DECISION", label)
  BY <1>1, <1>2, <1>3 DEF FitsState, Working
<1> QED BY <1>1, <1>2, <1>3, <1>4, SetStateLeads DEF OverBudget

LEMMA PreflightLeads ==
  ASSUME NEW h, NEW f \in Frame, NEW base, NEW rec, NEW g, NEW label \in Plain,
         Kept(base, rec, f), Open(base, rec), SameRequest(f, g), f.pc \in Live \ {"last"},
         Preflight(h, rec, g, label)
  PROVE  Leads(h, base, f)
  BY PlainLeads, OverBudgetLeads DEF Preflight

LEMMA CheckpointedKept ==
  ASSUME NEW base, NEW rec, NEW f, Kept(base, rec, f),
         NEW type \in CheckpointType, NEW payload \in Checkpoint
  PROVE  /\ Kept(base, Checkpointed(rec, type, payload), f)
         /\ Checkpointed(rec, type, payload).decision = rec.decision
         /\ Checkpointed(rec, type, payload).execution = rec.execution
  BY DEF Kept, Checkpointed, RunRecord

\* What the code finds after its await.
LEMMA LiveKept ==
  ASSUME IInv, NEW h \in Requests, req[h].pc \in Live \ {"getIssue"}
  PROVE  /\ Kept(Rec(h), Rec(h), req[h]) /\ Open(Rec(h), Rec(h))
         /\ req[h] \in Frame /\ SameRequest(req[h], req[h])
<1>1. Rec(h) \in RunRecord /\ req[h] \in Frame
  BY LiveFacts DEF GoodRec, GoodFrame
<1> QED BY <1>1 DEF Kept, Open, SameRequest

\* What a handler changes of its own frame before it waits.
LEMMA FrameWrites ==
  ASSUME NEW f \in Frame
  PROVE  /\ \A t \in SUBSET Nat : SameRequest(f, [f EXCEPT !.todo = t])
         /\ \A n \in Nat : SameRequest(f, [f EXCEPT !.extra = n])
         /\ \A e \in Execution : SameRequest(f, [f EXCEPT !.verdict = e])
         /\ f.pc = "executing" => /\ SameRequest(f, [f EXCEPT !.called = TRUE])
                                  /\ [f EXCEPT !.called = TRUE].called
  BY DEF SameRequest, Frame

LEMMA PlainLabels ==
  {"triage", "investigating", "buildTasks", "startedComment", "wave", "rootCause",
   "diagnosed", "planning", "makePlan", "rca", "synthesizeRca", "extraTask", "raised"}
  \subseteq Plain
  BY DEF Plain, Working, Live

LEMMA RunWavesLeads ==
  ASSUME NEW h, NEW f \in Frame, NEW base, NEW rec, Kept(base, rec, f), Open(base, rec),
         f.pc \in Live \ {"last"}, RunWaves(h, rec, f)
  PROVE  Leads(h, base, f)
<1> DEFINE todo == TaskIds(rec) \ rec.found
           g == [f EXCEPT !.todo = todo]
<1>1. todo \in SUBSET Nat
  BY DEF TaskIds, Kept, RunRecord
<1>2. SameRequest(f, g) /\ SameRequest(f, f)
  BY <1>1, FrameWrites DEF SameRequest
<1>3. \/ Saving(h, rec, g, "wave") \/ Unsaved(h, rec, f, "raised")
      \/ Preflight(h, rec, f, "rootCause")
  BY DEF RunWaves
<1> HIDE DEF g
<1> QED BY <1>2, <1>3, PlainLabels, PlainLeads, PreflightLeads

LEMMA InvestigatingLeads ==
  ASSUME IInv, NEW h \in Requests, Investigating(h)
  PROVE  Leads(h, Rec(h), req[h])
<1> DEFINE rec == IF req[h].extra = 0 THEN Rec(h)
                  ELSE [Rec(h) EXCEPT !.tasks = Append(@, req[h].extra)]
<1>1. req[h].pc \in Live \ {"getIssue", "last"}
  BY DEF Investigating, Live
<1>2. Kept(Rec(h), rec, req[h]) /\ Open(Rec(h), rec)
  <2>1. Rec(h).tasks \in Seq(Nat) /\ req[h].extra \in Nat
    BY <1>1, LiveFacts DEF GoodRec, RunRecord, GoodFrame, Frame
  <2>2. Append(Rec(h).tasks, req[h].extra) \in Seq(Nat)
    BY <2>1
  <2> QED BY <1>1, <2>2, LiveKept, TasksKept
<1>3. CASE Goto(h, "buildTasks")
  BY <1>1, <1>3, LiveKept, PlainLabels, PlainLeads DEF Goto
<1>4. CASE RunWaves(h, rec, req[h])
  BY <1>1, <1>2, <1>4, LiveKept, RunWavesLeads
<1> QED BY <1>3, <1>4 DEF Investigating

LEMMA TasksBuiltLeads ==
  ASSUME IInv, NEW h \in Requests, TasksBuilt(h) \/ GraphValidated(h)
  PROVE  Leads(h, Rec(h), req[h])
<1>1. req[h].pc \in Live \ {"getIssue", "last"}
  BY DEF TasksBuilt, GraphValidated, Live
<1>2. <<0>> \in Seq(Nat) /\ <<>> \in Seq(Nat)
  OBVIOUS
<1>3. CASE TasksBuilt(h)
  <2> DEFINE built == [Rec(h) EXCEPT !.tasks = <<0>>]
             refused == [Rec(h) EXCEPT !.tasks = <<>>]
  <2>1. /\ Kept(Rec(h), built, req[h]) /\ Open(Rec(h), built)
        /\ Kept(Rec(h), refused, req[h]) /\ Open(Rec(h), refused)
    BY <1>1, <1>2, LiveKept, TasksKept
  <2>2. Unsaved(h, built, req[h], "startedComment") \/ Unsaved(h, refused, req[h], "raised")
    BY <1>3 DEF TasksBuilt
  <2> HIDE DEF built, refused
  <2> QED BY <1>1, <2>1, <2>2, LiveKept, PlainLabels, PlainLeads
<1>4. CASE GraphValidated(h)
  BY <1>1, <1>4, LiveKept, RunWavesLeads, PlainLabels, PlainLeads DEF GraphValidated, Goto
<1> QED BY <1>3, <1>4

LEMMA WaveLeads ==
  ASSUME IInv, NEW h \in Requests, WaveDone(h) \/ WaveRefused(h)
  PROVE  Leads(h, Rec(h), req[h])
<1>1. req[h].pc \in Live \ {"getIssue", "last"} /\ req[h].pc = "wave"
  BY DEF WaveDone, WaveRefused, Live
<1>2. CASE WaveDone(h)
  <2>1. PICK ready \in (SUBSET req[h].todo) \ {{}} :
          LET rec == [Rec(h) EXCEPT !.found = @ \cup ready]
              g == [req[h] EXCEPT !.todo = Pending(@, ready)]
          IN  \/ Saving(h, rec, g, "wave") \/ Saving(h, rec, g, "rootCause")
              \/ Saving(h, rec, g, "raised") \/ OverBudget(h, rec, g, "last")
    BY <1>2 DEF WaveDone
  <2> DEFINE rec == [Rec(h) EXCEPT !.found = @ \cup ready]
             g == [req[h] EXCEPT !.todo = Pending(@, ready)]
  <2>2. ready \in SUBSET Nat /\ Pending(req[h].todo, ready) \in SUBSET Nat
    BY <1>1, LiveKept DEF Frame, Pending
  <2>3. Kept(Rec(h), rec, req[h]) /\ Open(Rec(h), rec)
    BY <1>1, <2>2, LiveKept, FoundKept
  <2>4. SameRequest(req[h], g)
    BY <1>1, <2>2, LiveKept, FrameWrites
  <2>5. \/ Saving(h, rec, g, "wave") \/ Saving(h, rec, g, "rootCause")
        \/ Saving(h, rec, g, "raised") \/ OverBudget(h, rec, g, "last")
    BY <2>1 DEF rec, g
  <2> HIDE DEF rec, g
  <2> QED BY <1>1, <2>3, <2>4, <2>5, LiveKept, PlainLabels, PlainLeads, OverBudgetLeads
<1>3. CASE WaveRefused(h)
  BY <1>1, <1>3, LiveKept, OverBudgetLeads DEF WaveRefused
<1> QED BY <1>2, <1>3

-------------------------------------------------------------------------------

\* _investigate and _plan begin, from where nothing of theirs is under way.
LEMMA BeginLeads ==
  ASSUME NEW h, NEW f \in Frame, NEW base, NEW rec, NEW g,
         Kept(base, rec, f), SameRequest(f, g),
         f.pc \notin {"investigating", "planning", "raised"},
         BeginInvestigate(h, rec, g) \/ BeginPlan(h, rec, g)
  PROVE  Leads(h, base, f)
<1>1. {"INVESTIGATING", "PLANNING"} \subseteq RunState
  BY DEF RunState
<1>2. {"investigating", "planning"} \subseteq Live \cap Working
  BY DEF Live, Working
<1>3. /\ FitsState(base, rec, f, g, "INVESTIGATING", "investigating")
      /\ FitsState(base, rec, f, g, "PLANNING", "planning")
  BY <1>2 DEF FitsState
<1> QED BY <1>1, <1>3, SetStateLeads DEF BeginInvestigate, BeginPlan

\* _verify begins, after a recovery: this request's or an earlier one.
LEMMA BeginVerifyLeads ==
  ASSUME NEW h, NEW f \in Frame, NEW base, NEW rec, NEW g,
         Kept(base, rec, f), SameRequest(f, g), f.pc \notin {"verifying", "raised"},
         f.pc = "recovery" \/ base.execution # "none", BeginVerify(h, rec, g)
  PROVE  Leads(h, base, f)
<1>1. "VERIFYING" \in RunState /\ "verifying" \in Live \cap Working
  BY DEF RunState, Live, Working
<1>2. FitsState(base, rec, f, g, "VERIFYING", "verifying")
  BY <1>1 DEF FitsState
<1> QED BY <1>1, <1>2, SetStateLeads DEF BeginVerify

\* A state to rest in, after which only a comment is written.
LEMMA RestLeads ==
  ASSUME NEW h, NEW f \in Frame, NEW base, NEW rec, NEW g, NEW s \in RunState \cap Restful,
         NEW label \in {"last", "handoff", "filing"}, Kept(base, rec, f), SameRequest(f, g),
         f.pc \notin {label, "raised"},
         s \in {"WAITING_APPROVAL", "WAITING_INPUT"} => rec.decision = "pending",
         SetState(h, rec, g, s, label)
  PROVE  Leads(h, base, f)
<1>1. label \in Live
  BY DEF Live
<1>2. FitsState(base, rec, f, g, s, label)
  BY <1>1 DEF FitsState
<1> QED BY <1>2, SetStateLeads

\* An execution begins, of an option the request is authorized for.
LEMMA BeginExecuteLeads ==
  ASSUME NEW h, NEW f \in Frame, NEW base, NEW rec, NEW o \in Options, Kept(base, rec, f),
         f.pc \notin {"executing", "raised"}, Authorized([f EXCEPT !.option = o]),
         BeginExecute(h, rec, f, o)
  PROVE  Leads(h, base, f)
<1> DEFINE g == [f EXCEPT !.option = o]
           begun == Checkpointed(rec, "execution", <<"pre", o>>)
<1>1. <<"pre", o>> \in Checkpoint /\ "execution" \in CheckpointType
  BY DEF Checkpoint, CheckpointType
<1>2. Kept(base, begun, f)
  BY <1>1, CheckpointedKept
<1>3. SameRequest(f, g)
  BY DEF SameRequest, Frame
<1>4. "EXECUTING" \in RunState /\ "executing" \in Live \cap Working
  BY DEF RunState, Live, Working
<1>5. Authorized(g) /\ SetState(h, begun, g, "EXECUTING", "executing")
  BY DEF BeginExecute
<1> HIDE DEF g, begun
<1>6. FitsState(base, begun, f, g, "EXECUTING", "executing")
  BY <1>4, <1>5 DEF FitsState
<1> QED BY <1>2, <1>3, <1>4, <1>5, <1>6, SetStateLeads

LEMMA RestStatesOf ==
  {"WAITING_INPUT", "WAITING_DECISION", "WAITING_APPROVAL", "FAILED", "ABORTED",
   "PLAN_RCA_RESOLVED"} \subseteq RunState \cap Restful
  BY DEF RunState, Restful, RestStates, WaitingStates, TerminalStates

LEMMA StateStepLeads ==
  ASSUME IInv, NEW h \in Requests,
         \/ Triaged(h) \/ RootCauseFound(h) \/ Diagnosed(h) \/ RecoveryUnknown(h)
         \/ Verified(h) \/ NotVerified(h) \/ RcaSynthesized(h)
  PROVE  Leads(h, Rec(h), req[h])
<1>1. req[h].pc \in Live \ {"getIssue", "last"} /\ "raised" \notin Live
  BY DEF Triaged, RootCauseFound, Diagnosed, RecoveryUnknown, Verified, NotVerified,
         RcaSynthesized, Live
<1>2. Kept(Rec(h), Rec(h), req[h]) /\ SameRequest(req[h], req[h]) /\ req[h] \in Frame
      /\ Kept(Rec(h), Asking(Rec(h)), req[h]) /\ Asking(Rec(h)).decision = "pending"
  BY <1>1, LiveKept, AskingKept
<1>3. CASE Triaged(h) \/ (req[h].pc = "diagnosed" /\ BeginPlan(h, Rec(h), req[h]))
  BY <1>2, <1>3, BeginLeads DEF Triaged
<1>4. CASE /\ req[h].pc = "diagnosed"
           /\ SetState(h, Asking(Rec(h)), req[h], "WAITING_INPUT", "last")
  BY <1>2, <1>4, RestLeads, RestStatesOf
<1>5. CASE RootCauseFound(h)
  <2>1. "DIAGNOSED" \in RunState /\ "diagnosed" \in Live \cap Working
    BY DEF RunState, Live, Working
  <2>2. FitsState(Rec(h), Rec(h), req[h], req[h], "DIAGNOSED", "diagnosed")
    BY <1>5, <2>1 DEF FitsState, RootCauseFound
  <2> QED BY <1>1, <1>2, <1>5, <2>1, <2>2, SetStateLeads DEF RootCauseFound
<1>6. CASE Verified(h)
  <2>1. "RESOLVED" \in RunState /\ "resolved" \in Live \cap Working
    BY DEF RunState, Live, Working
  <2>2. FitsState(Rec(h), Rec(h), req[h], req[h], "RESOLVED", "resolved")
    BY <1>6, <2>1 DEF FitsState, Verified
  <2> QED BY <1>1, <1>2, <1>6, <2>1, <2>2, SetStateLeads DEF Verified
<1>7. CASE RecoveryUnknown(h)
  BY <1>2, <1>7, RestLeads, RestStatesOf DEF RecoveryUnknown
<1>8. CASE NotVerified(h) \/ RcaSynthesized(h)
  BY <1>2, <1>8, RestLeads, RestStatesOf DEF NotVerified, RcaSynthesized
<1> QED BY <1>3, <1>4, <1>5, <1>6, <1>7, <1>8 DEF Diagnosed

\* A plan executes by itself only if it is one option the policy runs automatically.
LEMMA AutoAuthorized ==
  ASSUME NEW p \in Plans, ClassifyPlan(p) = "AUTO", NEW f \in Frame
  PROVE  /\ p.options[1] \in Options
         /\ Authorized([f EXCEPT !.option = p.options[1]])
<1>1. p \in [askHuman: BOOLEAN, options: Seq(Options)]
  BY OrchestratorConstants
<1>2. ~p.askHuman /\ p.options # <<>> /\ ~(Len(p.options) > 1)
      /\ Action(Label[p.options[1]]) = "AUTO"
  <2>1. \A a : (IF a = "HUMAN_APPROVAL" THEN "APPROVAL" ELSE a) = "AUTO" => a = "AUTO"
    OBVIOUS
  <2> QED BY <1>1, <2>1 DEF ClassifyPlan
<1>3. p.options = <<p.options[1]>> /\ p.options[1] \in Options
  BY <1>1, <1>2
<1>4. [f EXCEPT !.option = p.options[1]].option = p.options[1]
  BY DEF Frame
<1> QED BY <1>2, <1>3, <1>4 DEF Authorized

LEMMA PlanMadeLeads ==
  ASSUME IInv, NEW h \in Requests, NEW p \in Plans, PlanMade(h, p)
  PROVE  Leads(h, Rec(h), req[h])
<1> DEFINE rec == [Rec(h) EXCEPT !.plan = p]
           asked == [Asking(rec) EXCEPT !.last = "human_gate"]
<1>1. req[h].pc \in Live \ {"getIssue"} /\ req[h].pc = "makePlan"
  BY DEF PlanMade, Live
<1>2. Kept(Rec(h), rec, req[h]) /\ req[h] \in Frame /\ SameRequest(req[h], req[h])
  BY <1>1, LiveKept, PlanKept
<1>3. Kept(Rec(h), asked, req[h]) /\ asked.decision = "pending"
  <2>1. Kept(Rec(h), Asking(rec), req[h]) /\ Asking(rec).decision = "pending"
        /\ "human_gate" \in CheckpointType
    BY <1>2, AskingKept DEF CheckpointType
  <2> QED BY <2>1, LastKept
<1> HIDE DEF rec, asked
<1>4. \/ ClassifyPlan(p) = "AUTO" /\ BeginExecute(h, rec, req[h], p.options[1])
      \/ ClassifyPlan(p) \in DOMAIN GateState
         /\ SetState(h, asked, req[h], GateState[ClassifyPlan(p)], "last")
      \/ SetState(h, rec, req[h], "FAILED", "last")
  BY DEF PlanMade, rec, asked
<1>5. \A a \in DOMAIN GateState : GateState[a] \in RunState \cap Restful
  BY RestStatesOf DEF GateState
<1>6. CASE ClassifyPlan(p) = "AUTO" /\ BeginExecute(h, rec, req[h], p.options[1])
  BY <1>1, <1>2, <1>6, AutoAuthorized, BeginExecuteLeads
<1> QED BY <1>1, <1>2, <1>3, <1>4, <1>5, <1>6, RestLeads, RestStatesOf

LEMMA RecoveredLeads ==
  ASSUME IInv, NEW h \in Requests, NEW e \in Execution \ {"none"}, Recovered(h, e)
  PROVE  Leads(h, Rec(h), req[h])
<1> DEFINE after == IF Succeeded(e) THEN "VERIFYING" ELSE Rec(h).state
           payload == <<"post", req[h].option, Succeeded(e), after>>
           saved == Checkpointed([Rec(h) EXCEPT !.execution = e], "execution", payload)
<1>1. /\ req[h].pc \in Live \ {"getIssue"} /\ req[h].option \in Options
      /\ req[h].pc = "recovery"
  BY DEF Recovered, Live, IInv, Owned
<1>2. /\ Kept(Rec(h), Rec(h), req[h]) /\ req[h] \in Frame
      /\ SameRequest(req[h], req[h]) /\ GoodRec(Rec(h))
  BY <1>1, LiveKept, LiveFacts
<1>3. after \in RunState
  BY <1>2 DEF GoodRec, RunRecord, RunState
<1>4. Succeeded(e) \in BOOLEAN
  BY DEF Succeeded
<1>5. payload \in Checkpoint /\ "execution" \in CheckpointType
  BY <1>1, <1>3, <1>4 DEF Checkpoint, CheckpointType
<1>6. Kept(Rec(h), saved, req[h]) /\ Kept(Rec(h), Asking(saved), req[h])
  BY <1>1, <1>2, <1>5, ResultKept, CheckpointedKept, AskingKept
<1>7. \/ SetState(h, Asking(saved), req[h], "WAITING_DECISION", "last")
      \/ SetState(h, saved, req[h], "FAILED", "last")
      \/ BeginVerify(h, saved, req[h])
  BY DEF Recovered
<1> HIDE DEF saved
<1> QED BY <1>1, <1>2, <1>6, <1>7, RestLeads, RestStatesOf, BeginVerifyLeads

LEMMA PreflightStepLeads ==
  ASSUME IInv, NEW h \in Requests,
         Planning(h) \/ Executing(h) \/ Verifying(h) \/ HandedOff(h) \/ Announced(h)
  PROVE  Leads(h, Rec(h), req[h])
<1>1. req[h].pc \in Live \ {"getIssue", "last"}
  BY DEF Planning, Executing, Verifying, HandedOff, Announced, Live
<1>2. /\ Kept(Rec(h), Rec(h), req[h]) /\ Open(Rec(h), Rec(h)) /\ req[h] \in Frame
      /\ SameRequest(req[h], req[h]) /\ Recorded(Rec(h), Rec(h), req[h])
      /\ Rec(h) \in RunRecord
  BY <1>1, LiveKept, KeptRecorded DEF Kept
<1>3. CASE Planning(h)
  BY <1>1, <1>2, <1>3, PreflightLeads, PlainLabels DEF Planning
<1>4. CASE HandedOff(h)
  <2>1. /\ Recorded(Rec(h), Asking(Rec(h)), req[h]) /\ Asking(Rec(h)).state = Rec(h).state
    BY <1>2, AskingKept, KeptRecorded DEF Kept
  <2>2. At(req[h], "last").pc = "last" /\ "last" \in Pc /\ "last" \in Live
    BY <1>2, AtFrame DEF Pc, Live
  <2>3. Stands(Rec(h), Asking(Rec(h)), req[h], At(req[h], "last"))
    BY <1>4, <2>1, <2>2 DEF Stands, HandedOff, Working
  <2> QED BY <1>2, <1>4, <2>1, <2>2, <2>3, UnsavedLeads DEF HandedOff
<1>5. CASE Executing(h)
  <2> DEFINE g == [req[h] EXCEPT !.called = TRUE]
  <2>1. SameRequest(req[h], g) /\ g.called /\ req[h].pc = "executing"
    BY <1>2, <1>5, FrameWrites DEF Executing
  <2>2. Unsaved(h, Rec(h), g, "recovery") \/ OverBudget(h, Rec(h), req[h], "last")
    BY <1>5 DEF Executing
  <2> HIDE DEF g
  <2>3. CASE Unsaved(h, Rec(h), g, "recovery")
    <3>1. At(g, "recovery").pc = "recovery" /\ At(g, "recovery").called
          /\ "recovery" \in Pc /\ "recovery" \in Live \cap Working
      BY <1>2, <2>1, AtFrame DEF Pc, Live, Working
    <3>2. Stands(Rec(h), Rec(h), req[h], At(g, "recovery"))
      BY <2>1, <3>1 DEF Stands
    <3> QED BY <1>2, <2>1, <2>3, <3>1, <3>2, UnsavedLeads
  <2> QED BY <1>1, <1>2, <2>2, <2>3, OverBudgetLeads
<1>6. CASE Verifying(h)
  <2> DEFINE g == [req[h] EXCEPT !.verdict = Rec(h).execution]
  <2>1. SameRequest(req[h], g) /\ req[h].pc = "verifying"
    BY <1>2, <1>6, FrameWrites DEF Verifying, RunRecord
  <2>2. Unsaved(h, Rec(h), g, "verify") \/ OverBudget(h, Rec(h), g, "last")
    BY <1>6 DEF Verifying, Preflight
  <2> HIDE DEF g
  <2>3. CASE Unsaved(h, Rec(h), g, "verify")
    <3>1. At(g, "verify").pc = "verify" /\ "verify" \in Pc /\ "verify" \in Live \cap Working
      BY <1>2, <2>1, AtFrame DEF Pc, Live, Working
    <3>2. Stands(Rec(h), Rec(h), req[h], At(g, "verify"))
      BY <2>1, <3>1 DEF Stands
    <3> QED BY <1>2, <2>1, <2>3, <3>1, <3>2, UnsavedLeads
  <2> QED BY <1>1, <1>2, <2>1, <2>2, <2>3, OverBudgetLeads
<1>7. CASE Announced(h)
  <2>1. At(req[h], "closing").pc = "closing" /\ "closing" \in Pc
        /\ "closing" \in Live \cap Working
    BY <1>2, AtFrame DEF Pc, Live, Working
  <2>2. Stands(Rec(h), Rec(h), req[h], At(req[h], "closing"))
    BY <1>7, <2>1 DEF Stands, Announced
  <2> QED BY <1>2, <1>7, <2>1, <2>2, UnsavedLeads DEF Announced, Goto
<1> QED BY <1>3, <1>4, <1>5, <1>6, <1>7

LEMMA FilingLeads ==
  ASSUME IInv, NEW h \in Requests, ActionsFiled(h) \/ RcaLabelled(h)
  PROVE  Leads(h, Rec(h), req[h])
<1>1. req[h].pc \in Live \ {"getIssue", "last"} /\ "raised" \notin Live
  BY DEF ActionsFiled, RcaLabelled, Live
<1>2. /\ Kept(Rec(h), Rec(h), req[h]) /\ Open(Rec(h), Rec(h)) /\ req[h] \in Frame
      /\ SameRequest(req[h], req[h]) /\ Recorded(Rec(h), Rec(h), req[h])
  BY <1>1, LiveKept, KeptRecorded
<1>3. CASE SetState(h, Rec(h), req[h], "ABORTED", "last")
  BY <1>1, <1>2, <1>3, RestLeads, RestStatesOf
<1>4. CASE req[h].pc = "filing" /\ Saving(h, Rec(h), req[h], "last")
  <2>1. At(req[h], "last").pc = "last" /\ "last" \in Pc /\ "last" \in Live
    BY <1>2, AtFrame DEF Pc, Live
  <2>2. Stands(Rec(h), Rec(h), req[h], At(req[h], "last"))
    BY <1>4, <2>1 DEF Stands, Working
  <2> QED BY <1>2, <1>4, <2>1, <2>2, SavingLeads
<1>5. CASE Goto(h, "synthesizeRca") \/ Goto(h, "raised")
  BY <1>2, <1>5, PlainLeads, PlainLabels DEF Goto
<1> QED BY <1>3, <1>4, <1>5 DEF ActionsFiled, RcaLabelled

LEMMA ExtraTaskMadeLeads ==
  ASSUME IInv, NEW h \in Requests, ExtraTaskMade(h)
  PROVE  Leads(h, Rec(h), req[h])
<1> DEFINE g == [req[h] EXCEPT !.extra = Cardinality(HXTasks(Rec(h))) + 1]
           rec == [Rec(h) EXCEPT !.decision = "none"]
<1>1. req[h].pc \in Live \ {"getIssue"} /\ req[h].pc = "extraTask"
  BY DEF ExtraTaskMade, Live
<1>2. Kept(Rec(h), rec, req[h]) /\ req[h] \in Frame
  BY <1>1, LiveKept, DecisionKept DEF DecisionStatus
<1>3. SameRequest(req[h], g)
  <2>1. Cardinality(HXTasks(Rec(h))) + 1 \in Nat
    BY <1>1, HXCount
  <2> QED BY <1>2, <2>1, FrameWrites
<1>4. BeginInvestigate(h, rec, g)
  BY DEF ExtraTaskMade
<1> HIDE DEF g, rec
<1> QED BY <1>1, <1>2, <1>3, <1>4, BeginLeads

\* The end of a command: its comment is confirmed.
LEMMA ReturnedLeads ==
  ASSUME IInv, NEW h \in Requests, Returned(h)
  PROVE  Leads(h, Rec(h), req[h])
<1> DEFINE c0 == req[h].msg.comment
           rec == Outcomed(Rec(h), c0, "confirmed")
           g == At(req[h], "done")
<1>1. req[h].pc \in Live \ {"getIssue"} /\ req[h].pc = "last"
  BY DEF Returned, Live
<1>2. /\ Kept(Rec(h), Rec(h), req[h]) /\ req[h] \in Frame
      /\ SameRequest(req[h], req[h]) /\ Recorded(Rec(h), Rec(h), req[h])
      /\ Rec(h) \in RunRecord
  BY <1>1, LiveKept, KeptRecorded DEF Kept
<1>3. g.pc = "done" /\ "done" \in Pc /\ "done" \notin Live /\ "last" \notin Working
  BY <1>2, AtFrame DEF Pc, Ends, Live, Working
<1>4. CASE Saving(h, rec, req[h], "done")
  <2>1. /\ rec.state = Rec(h).state /\ rec.seen = Rec(h).seen
        /\ rec.execution = Rec(h).execution /\ rec.decision = Rec(h).decision
        /\ \A c \in Comments : rec.outcome[c] = IF c = c0 THEN "confirmed"
                                                ELSE Rec(h).outcome[c]
    BY <1>2 DEF Outcomed, RunRecord
  <2>2. Recorded(Rec(h), rec, req[h])
    BY <1>2, <2>1 DEF Recorded, Asked
  <2>3. Stands(Rec(h), rec, req[h], g)
    BY <1>1, <1>3, <2>1 DEF Stands, Working
  <2> QED BY <1>2, <1>3, <1>4, <2>1, <2>2, <2>3, SavingLeads
<1>5. CASE req[h].msg.name \in {"start", "resume"} /\ Goto(h, "done")
  <2>1. Stands(Rec(h), Rec(h), req[h], g)
    BY <1>1, <1>3, <1>5 DEF Stands, Working, Marking, CommandNames
  <2> QED BY <1>2, <1>3, <1>5, <2>1, UnsavedLeads DEF Goto
<1> QED BY <1>4, <1>5 DEF Returned

\* Every step of a coroutine under way that saves one record and closes nothing.
Works(h) ==
  \/ Investigating(h) \/ TasksBuilt(h) \/ GraphValidated(h) \/ WaveDone(h) \/ WaveRefused(h)
  \/ Triaged(h) \/ RootCauseFound(h) \/ Diagnosed(h) \/ RecoveryUnknown(h)
  \/ Verified(h) \/ NotVerified(h) \/ RcaSynthesized(h)
  \/ Planning(h) \/ Executing(h) \/ Verifying(h) \/ HandedOff(h) \/ Announced(h)
  \/ ActionsFiled(h) \/ RcaLabelled(h) \/ ExtraTaskMade(h) \/ Returned(h)
  \/ (\E p \in Plans : PlanMade(h, p)) \/ (\E e \in Execution \ {"none"} : Recovered(h, e))

LEMMA WorksLeads ==
  ASSUME IInv, NEW h \in Requests, Works(h)
  PROVE  Leads(h, Rec(h), req[h]) /\ req[h].pc \in Live \ {"getIssue"}
<1>1. Leads(h, Rec(h), req[h])
  BY InvestigatingLeads, TasksBuiltLeads, WaveLeads, StateStepLeads, PreflightStepLeads,
     FilingLeads, ExtraTaskMadeLeads, ReturnedLeads, PlanMadeLeads, RecoveredLeads DEF Works
<1>2. req[h].pc \in Live \ {"getIssue"}
  BY DEF Works, Investigating, TasksBuilt, GraphValidated, WaveDone, WaveRefused,
     Triaged, RootCauseFound, Diagnosed, RecoveryUnknown, Verified, NotVerified,
     RcaSynthesized, ActionsFiled, Planning, Executing, Verifying, HandedOff,
     Announced, RcaLabelled, ExtraTaskMade, Returned, PlanMade, Recovered, Live
<1> QED BY <1>1, <1>2

-------------------------------------------------------------------------------

(* ----------------------- the invariant after a step ------------------------ *)

\* The record and the frame a step starts from are those of the request, or those of a
\* comment that has just come.
Enters(h, base, f) ==
  /\ f \in Frame /\ f.run \in Runs /\ run[f.run].state # Unborn
  /\ \/ f = req[h] /\ f.pc \in Live \ {"getIssue"}
     \/ f.pc = "idle" /\ req[h].pc = "idle" /\ ~f.called
  /\ base.state = run[f.run].state /\ base.seen = run[f.run].seen
  /\ base.execution = run[f.run].execution /\ base.decision = run[f.run].decision
  /\ \A c \in Comments : base.outcome[c] = "executing" =>
       \/ run[f.run].outcome[c] = "executing"
       \/ f.pc = "idle" /\ f.msg.name \in Marking /\ c = f.msg.comment

\* The issue is closed at most by the request that waits for it.
Closes(f) == closed' = closed \/ (f.pc = "closing" /\ closed' = closed \cup {f.run})

\* A message that may not move the run ends its request at once.
Harmless(base, rec, g) ==
  MayMove(g.msg) \/ (g.pc \notin Live /\ rec.state = base.state)

\* The steps OnlyAuthorityMoves and FinalIsFinal speak of.
AuthorityMoves ==
  \A r \in Runs : run'[r].state # run[r].state =>
    Crash \/ \E h \in Requests :
      /\ req'[h] # req[h] \/ req[h].pc = "wave"
      /\ req'[h].run = r /\ req'[h].pc # "ignored"
      /\ \/ req'[h].msg.name = "start"
         \/ req'[h].msg.name \in {"approve", "reject", "abort"}
            /\ req'[h].msg.permission \in {"maintain", "admin"}
         \/ req'[h].msg.name \in {"provide", "investigate", "resume"}
            /\ req'[h].msg.permission # "none"
StaysFinal ==
  \A r \in Runs : run[r].state \in {"ABORTED", "PLAN_RCA_RESOLVED"} =>
    run'[r].state = run[r].state

LGood == LInv' /\ AuthorityMoves /\ (Enforcement = "strict" => StaysFinal)

LEMMA GoesGood ==
  ASSUME IInv, LInv, NEW h \in Requests, NEW base, NEW f, NEW rec, NEW stored, NEW g,
         Enters(h, base, f), Goes(h, base, rec, stored, f, g), Closes(f),
         Harmless(base, rec, g)
  PROVE  LGood
<1> DEFINE r0 == f.run
<1>1. /\ run \in [Runs -> RunRecord] /\ disk \in [Runs -> RunRecord]
      /\ req \in [Requests -> Frame] /\ closed \subseteq Runs
      /\ r0 \in Runs /\ g.run = r0 /\ g.msg = f.msg
  BY DEF IInv, TypeOK, Goes, SameRequest, Enters
<1>2. /\ \A r \in Runs : run'[r] = IF r = r0 THEN rec ELSE run[r]
      /\ \A r \in Runs : disk'[r] = IF r = r0 THEN stored ELSE disk[r]
      /\ \A i \in Requests : req'[i] = IF i = h THEN g ELSE req[i]
      /\ current' = current
  BY <1>1 DEF Goes, Writes
<1>3. /\ \A r \in Runs : run[r].seen \subseteq run'[r].seen
      /\ \A r \in Runs : run'[r].state # run[r].state =>
           /\ r = r0 /\ rec.state # base.state
           /\ TransitionAllowed(Enforcement, run[r].state, run'[r].state)
      /\ \A r \in Runs : run[r].state # Unborn => run'[r].state # Unborn
      /\ \A r \in Runs : run[r].state = Unborn => run'[r] = run[r] /\ disk'[r] = disk[r]
  BY <1>1, <1>2 DEF Goes, Recorded, Enters, RunState, Unborn
<1>4. ASSUME NEW r \in Runs, Executed(r) PROVE Executed(r)'
  BY <1>1, <1>2, <1>4 DEF Executed, Enters, Goes, SameRequest, LInv, Rightful
<1>5. ASSUME NEW r \in Runs, NEW s, Passed(run[r], s) PROVE Passed(run'[r], s)
  BY <1>3, <1>5 DEF Passed
<1>6. f.called \/ f.pc = "recovery" => Executed(r0)' /\ Authorized(f)
  BY <1>1, <1>2 DEF Enters, Executed, Goes, SameRequest, LInv, Rightful
<1>7. SameState'
  BY <1>1, <1>2 DEF SameState, LInv, Goes, Enters
<1>8. Rightful(h)'
  <2>1. g.pc \in Live => MayMove(g.msg)
    BY DEF Harmless
  <2>2. g.pc = "executing" \/ g.called => Authorized(g)
    <3>1. f.called => Authorized(g)
      BY <1>6 DEF Authorized, Goes, SameRequest
    <3>2. f.pc = "executing" => Authorized(g)
      BY DEF Enters, LInv, Rightful, Authorized, Goes, SameRequest
    <3> QED BY <3>1, <3>2 DEF Goes, SameRequest, Stands
  <2>3. g.pc = "recovery" => g.called
    BY DEF Goes, Stands
  <2>4. g.pc \notin {"idle", "getIssue"}
    BY DEF Goes, Stands
  <2>5. g.pc \in {"verifying", "verify", "resolved", "closing"} =>
          Passed(rec, "VERIFYING") /\ Executed(r0)'
    <3>1. CASE f.pc \in {"verifying", "verify", "resolved", "closing"}
      <4>1. Passed(run[r0], "VERIFYING") /\ Executed(r0)
        BY <3>1 DEF Enters, LInv, Rightful
      <4> QED BY <1>1, <1>2, <1>4, <1>5, <4>1
    <3>2. CASE f.pc \notin {"verifying", "verify", "resolved", "closing"}
      <4>1. g.pc \in {"verifying", "verify", "resolved", "closing"} =>
              Passed(rec, "VERIFYING") /\ (f.pc = "recovery" \/ base.execution # "none")
        BY <3>2 DEF Goes, Stands
      <4>2. base.execution # "none" => Executed(r0)'
        BY <1>1, <1>4 DEF Enters, LInv, Historied
      <4> QED BY <1>6, <4>1, <4>2
    <3> QED BY <3>1, <3>2
  <2>6. g.pc \in {"resolved", "closing"} => Passed(rec, "RESOLVED")
    <3>1. f.pc \in {"resolved", "closing"} => Passed(run[r0], "RESOLVED")
      BY DEF Enters, LInv, Rightful
    <3> QED BY <1>1, <1>2, <1>5, <3>1 DEF Goes, Stands
  <2>7. req'[h] = g /\ run'[g.run] = rec
    BY <1>1, <1>2
  <2> QED BY <1>1, <2>1, <2>2, <2>3, <2>4, <2>5, <2>6, <2>7 DEF Rightful
<1>9. ASSUME NEW i \in Requests \ {h} PROVE Rightful(i)'
  <2>1. req'[i] = req[i] /\ Rightful(i)
    BY <1>2 DEF LInv
  <2>2. req[i].pc \in {"verifying", "verify", "resolved", "closing"} => req[i].run \in Runs
    BY DEF IInv, Owned, Live
  <2> QED BY <1>4, <1>5, <2>1, <2>2 DEF Rightful
<1>10. ASSUME NEW r \in Runs PROVE Historied(r)'
  <2>1. run'[r].state = Unborn \/ Passed(run'[r], run'[r].state)
    <3>1. CASE run'[r].state = run[r].state
      BY <1>5, <3>1 DEF LInv, Historied
    <3>2. CASE run'[r].state # run[r].state
      BY <1>1, <1>2, <1>3, <3>2 DEF Goes, Recorded
    <3> QED BY <3>1, <3>2
  <2>2. run'[r].execution # "none" \/ disk'[r].execution # "none" => Executed(r)'
    <3> DEFINE before == run[r].execution # "none" \/ disk[r].execution # "none"
    <3>1. CASE before \/ (f.pc = "recovery" /\ r = r0)
      BY <1>4, <1>6, <3>1 DEF LInv, Historied
    <3>2. CASE r = r0 /\ ~before /\ f.pc # "recovery"
      <4>1. rec.execution = "none"
        BY <3>2 DEF Goes, Recorded, Enters
      <4>2. run'[r].execution = "none" /\ disk'[r].execution = "none"
        BY <1>1, <1>2, <3>2, <4>1 DEF Goes
      <4> QED BY <4>2
    <3>3. CASE r # r0 /\ ~before
      BY <1>2, <3>3
    <3> QED BY <3>1, <3>2, <3>3
  <2>3. r \in closed' => /\ run'[r].state # Unborn /\ Executed(r)'
                         /\ Passed(run'[r], "VERIFYING") /\ Passed(run'[r], "RESOLVED")
    <3>1. r \in closed' => /\ run[r].state # Unborn /\ Executed(r)
                           /\ Passed(run[r], "VERIFYING") /\ Passed(run[r], "RESOLVED")
      <4>1. r \in closed' => r \in closed \/ (r = r0 /\ f.pc = "closing")
        BY DEF Closes
      <4>2. r \in closed => /\ run[r].state # Unborn /\ Executed(r)
                            /\ Passed(run[r], "VERIFYING") /\ Passed(run[r], "RESOLVED")
        BY DEF LInv, Historied
      <4>3. f.pc = "closing" => /\ run[r0].state # Unborn /\ Executed(r0)
                                /\ Passed(run[r0], "VERIFYING") /\ Passed(run[r0], "RESOLVED")
        BY DEF Enters, LInv, Rightful
      <4> QED BY <4>1, <4>2, <4>3
    <3> QED BY <1>3, <1>4, <1>5, <3>1
  <2> QED BY <2>1, <2>2, <2>3 DEF Historied
<1>11. ASSUME NEW r \in Runs PROVE Gates(r)'
  BY <1>1, <1>2 DEF Gates, LInv, Goes, Recorded, Enters, Asked
<1>12. ASSUME NEW r \in Runs PROVE Attended(r)'
  <2>1. CASE run'[r].state \in Restful
    BY <2>1 DEF Attended
  <2>2. CASE run'[r].state \notin Restful /\ r = r0 /\ g.pc \in Working
    BY <1>1, <1>2, <2>2 DEF Attended
  <2>3. CASE run'[r].state \notin Restful /\ ~(r = r0 /\ g.pc \in Working)
    <3>1. run'[r].state = run[r].state
      BY <1>1, <1>2, <1>3, <2>3 DEF Goes, Stands
    <3>2. PICK i \in Requests : req[i].run = r /\ req[i].pc \in Working
      BY <2>3, <3>1 DEF LInv, Attended
    <3>3. i # h
      BY <1>1, <1>2, <2>3, <3>2 DEF Goes, Stands, Enters, Working, Live
    <3> QED BY <1>2, <3>2, <3>3 DEF Attended
  <2> QED BY <2>1, <2>2, <2>3
<1>13. Owners'
  <2> SUFFICES ASSUME current # NoRun, NeverOver(current)', NEW c \in Comments,
                      run'[current].outcome[c] = "executing"
               PROVE  \E i \in Requests : Owner(i, current, c)'
    BY <1>2 DEF Owners
  <2>1. current \in Runs /\ NeverOver(current)
    BY <1>2, <1>3 DEF IInv, TypeOK, NeverOver
  <2>2. CASE current = r0 /\ f.pc = "idle" /\ f.msg.name \in Marking /\ c = f.msg.comment
    <3>1. g.pc \in Live \cup {"raised"}
      BY <1>1, <1>2, <2>2 DEF Goes, Stands
    <3> QED BY <1>1, <1>2, <2>2, <3>1 DEF Owner
  <2>3. CASE ~(current = r0 /\ f.pc = "idle" /\ f.msg.name \in Marking /\ c = f.msg.comment)
    <3>1. run[current].outcome[c] = "executing"
      BY <1>1, <1>2, <2>1, <2>3 DEF Goes, Recorded, Enters
    <3>2. PICK i \in Requests : Owner(i, current, c)
      BY <2>1, <3>1 DEF LInv, Owners
    <3>3. CASE i # h
      BY <1>2, <3>2, <3>3 DEF Owner
    <3>4. CASE i = h
      <4>1. f = req[h] /\ current = r0 /\ f.msg.name \in Marking /\ f.msg.comment = c
        BY <3>2, <3>4 DEF Owner, Enters, Live
      <4>2. g.pc \in Live \cup {"raised"}
        BY <1>1, <1>2, <4>1 DEF Goes, Stands
      <4> QED BY <1>1, <1>2, <4>1, <4>2 DEF Owner
    <3> QED BY <3>3, <3>4
  <2> QED BY <2>2, <2>3
<1>14. AuthorityMoves
  <2> SUFFICES ASSUME NEW r \in Runs, run'[r].state # run[r].state
               PROVE  /\ req'[h] # req[h] \/ req[h].pc = "wave"
                      /\ req'[h].run = r /\ req'[h].pc # "ignored" /\ MayMove(req'[h].msg)
    BY DEF AuthorityMoves, MayMove
  <2>1. r = r0 /\ rec.state # base.state /\ req'[h] = g
    BY <1>2, <1>3
  <2>2. f.pc = req[h].pc
    BY DEF Enters
  <2> QED BY <1>1, <2>1, <2>2 DEF Goes, Stands, Harmless
<1>15. ASSUME Enforcement = "strict" PROVE StaysFinal
  <2> SUFFICES ASSUME NEW r \in Runs, run[r].state \in {"ABORTED", "PLAN_RCA_RESOLVED"},
                      run'[r].state # run[r].state
               PROVE  FALSE
    BY DEF StaysFinal
  <2>1. run'[r].state \in ValidTransitions[run[r].state]
    BY <1>3, <1>15 DEF TransitionAllowed
  <2>2. ValidTransitions["ABORTED"] = {} /\ ValidTransitions["PLAN_RCA_RESOLVED"] = {}
    BY DEF ValidTransitions, RunState
  <2> QED BY <2>1, <2>2
<1> QED BY <1>7, <1>8, <1>9, <1>10, <1>11, <1>12, <1>13, <1>14, <1>15 DEF LInv, LGood

\* The steps of a coroutine under way.
LEMMA LiveEnters ==
  ASSUME IInv, LInv, NEW h \in Requests, req[h].pc \in Live \ {"getIssue"}
  PROVE  Enters(h, Rec(h), req[h]) /\ MayMove(req[h].msg)
<1>1. /\ req[h] \in Frame /\ req[h].run \in Runs /\ run[req[h].run].state # Unborn
  BY DEF IInv, TypeOK, Owned
<1> QED BY <1>1 DEF Enters, Rec, LInv, Rightful

LEMMA LeadsHolds ==
  ASSUME IInv, LInv, NEW h \in Requests, NEW base, NEW f, Enters(h, base, f),
         Leads(h, base, f), MayMove(f.msg)
  PROVE  LGood
<1>1. PICK rec, stored, g : Goes(h, base, rec, stored, f, g)
  BY DEF Leads
<1>2. Closes(f) /\ Harmless(base, rec, g)
  BY <1>1 DEF Leads, Closes, Harmless, Goes, SameRequest
<1> QED BY <1>1, <1>2, GoesGood

LEMMA WorksHolds ==
  ASSUME IInv, LInv, NEW h \in Requests, Works(h)
  PROVE  LGood
  BY WorksLeads, LiveEnters, LeadsHolds

\* A coroutine that raises: after a call that failed, or a transition refused.
LEMMA RaisedHolds ==
  ASSUME IInv, LInv, NEW h \in Requests, req[h].pc \in Live \ {"getIssue"},
         req' = [req EXCEPT ![h].pc = "raised"], UNCHANGED <<run, disk, current>>,
         Closes(req[h])
  PROVE  LGood
<1> DEFINE g == [req[h] EXCEPT !.pc = "raised"]
<1>1. /\ Enters(h, Rec(h), req[h]) /\ MayMove(req[h].msg) /\ req[h] \in Frame
      /\ Kept(Rec(h), Rec(h), req[h]) /\ Recorded(Rec(h), Rec(h), req[h])
  BY LiveEnters, LiveKept, KeptRecorded
<1>2. g.pc = "raised" /\ SameRequest(req[h], g) /\ g.run = req[h].run
  BY <1>1 DEF SameRequest, Frame, Pc, Ends
<1>3. Stands(Rec(h), Rec(h), req[h], g)
  BY <1>2 DEF Stands, Working
<1>4. Writes(h, Rec(h), disk[g.run], g)
  <2>1. run' = [run EXCEPT ![g.run] = Rec(h)] /\ disk' = [disk EXCEPT ![g.run] = disk[g.run]]
    BY <1>1, <1>2 DEF Rec, IInv, TypeOK, Enters
  <2> QED BY <2>1 DEF Writes
<1>5. Harmless(Rec(h), Rec(h), g)
  BY <1>1, <1>2 DEF Harmless, SameRequest
<1> HIDE DEF g
<1>6. Goes(h, Rec(h), Rec(h), disk[g.run], req[h], g)
  BY <1>1, <1>2, <1>3, <1>4 DEF Goes
<1> QED BY <1>1, <1>5, <1>6, GoesGood

LEMMA IssueClosedHolds ==
  ASSUME IInv, LInv, NEW h \in Requests, IssueClosed(h)
  PROVE  LGood
<1> DEFINE rec == Entered(Rec(h), "PLAN_RCA")
           g == [req[h] EXCEPT !.pc = "rca"]
<1>1. req[h].pc \in Live \ {"getIssue"} /\ req[h].pc = "closing" /\ Closes(req[h])
  BY DEF IssueClosed, Live, Closes
<1>2. CASE TransitionAllowed(Enforcement, Rec(h).state, "PLAN_RCA")
  <2>1. /\ Enters(h, Rec(h), req[h]) /\ MayMove(req[h].msg) /\ req[h] \in Frame
        /\ Rec(h) \in RunRecord
    BY <1>1, LiveEnters, LiveKept DEF Kept
  <2>2. /\ rec.state = "PLAN_RCA" /\ Passed(rec, "PLAN_RCA") /\ Rec(h).seen \subseteq rec.seen
        /\ rec.execution = Rec(h).execution /\ rec.outcome = Rec(h).outcome
        /\ "PLAN_RCA" \in RunState
    BY <2>1, EnteredRecord DEF RunState
  <2>3. Recorded(Rec(h), rec, req[h])
    BY <1>2, <2>2 DEF Recorded, Asked
  <2>4. g.pc = "rca" /\ SameRequest(req[h], g) /\ "rca" \in Live \cap Working
    BY <2>1 DEF SameRequest, Frame, Pc, Live, Working
  <2>5. Stands(Rec(h), rec, req[h], g)
    BY <1>1, <2>4 DEF Stands
  <2>6. /\ run' = [run EXCEPT ![req[h].run] = rec]
        /\ disk' = [disk EXCEPT ![req[h].run] = rec] /\ req' = [req EXCEPT ![h] = g]
        /\ current' = current
    BY <1>2 DEF IssueClosed
  <2> HIDE DEF rec, g
  <2>7. Goes(h, Rec(h), rec, rec, req[h], g) /\ Harmless(Rec(h), rec, g)
    BY <2>1, <2>3, <2>4, <2>5, <2>6 DEF Goes, Writes, SameRequest, Harmless
  <2> QED BY <1>1, <2>1, <2>7, GoesGood
<1>3. CASE ~TransitionAllowed(Enforcement, Rec(h).state, "PLAN_RCA")
  BY <1>1, <1>3, RaisedHolds DEF IssueClosed
<1> QED BY <1>2, <1>3

\* A request without a run to work on: it begins as a start, is ignored, or raises.
LEMMA RunlessHolds ==
  ASSUME IInv, LInv, NEW h \in Requests, NEW g \in Frame, req[h].pc \in {"idle", "getIssue"},
         req' = [req EXCEPT ![h] = g], UNCHANGED <<run, disk, current, closed>>,
         g.pc \in {"ignored", "getIssue", "raised"}, ~g.called,
         g.pc = "getIssue" => g.msg.name = "start"
  PROVE  LGood
<1>1. \A i \in Requests : req'[i] = IF i = h THEN g ELSE req[i]
  BY DEF IInv, TypeOK
<1>2. ~req[h].called
  BY DEF LInv, Rightful
<1>3. ASSUME NEW r, Executed(r) PROVE Executed(r)'
  BY <1>1, <1>2, <1>3 DEF Executed
<1>4. \A i \in Requests : Rightful(i)'
  <2>1. Rightful(h)'
    BY <1>1 DEF Rightful, MayMove, Live
  <2>2. ASSUME NEW i \in Requests \ {h} PROVE Rightful(i)'
    BY <1>1, <1>3 DEF LInv, Rightful
  <2> QED BY <2>1, <2>2
<1>5. SameState' /\ \A r \in Runs : Historied(r)' /\ Gates(r)'
  BY <1>3 DEF LInv, SameState, Historied, Gates
<1>6. \A r \in Runs : Attended(r)'
  BY <1>1 DEF LInv, Attended, Working, Live
<1>7. Owners'
  <2> SUFFICES ASSUME current # NoRun, NeverOver(current), NEW c \in Comments,
                      run[current].outcome[c] = "executing"
               PROVE  \E i \in Requests : Owner(i, current, c)'
    BY DEF Owners, NeverOver
  <2>1. PICK i \in Requests : Owner(i, current, c)
    BY DEF LInv, Owners
  <2>2. i # h
    <3>1. req[h].pc = "getIssue" => req[h].msg.name = "start"
      BY DEF IInv, Owned
    <3> QED BY <2>1, <3>1 DEF Owner, Marking, CommandNames, Live
  <2> QED BY <1>1, <2>1, <2>2 DEF Owner
<1>8. AuthorityMoves /\ StaysFinal
  BY DEF AuthorityMoves, StaysFinal
<1> QED BY <1>4, <1>5, <1>6, <1>7, <1>8 DEF LGood, LInv

LEMMA StartHolds ==
  ASSUME IInv, LInv, NEW h \in Requests, NEW m \in Messages, StartIssue(h, m)
  PROVE  LGood
<1>1. PICK l \in {"ignored", "getIssue"} :
        req' = [req EXCEPT ![h] = [[IdleFrame EXCEPT !.msg = m] EXCEPT !.pc = l]]
  BY DEF StartIssue
<1> DEFINE g == [[IdleFrame EXCEPT !.msg = m] EXCEPT !.pc = l]
<1>2. m \in Message
  BY OrchestratorConstants
<1>3. g \in Frame /\ g.pc = l /\ ~g.called /\ g.msg = m
  BY <1>2 DEF IdleFrame, Frame, Pc, Live, Ends, Execution
<1>4. /\ req[h].pc = "idle" /\ m.name = "start"
      /\ UNCHANGED <<run, disk, current, closed>>
  BY DEF StartIssue
<1> HIDE DEF g
<1>5. req' = [req EXCEPT ![h] = g]
  BY <1>1 DEF g
<1> QED BY <1>3, <1>4, <1>5, RunlessHolds

LEMMA FailsHolds ==
  ASSUME IInv, LInv, NEW h \in Requests, CallFails(h) \/ RefuseRun(h)
  PROVE  LGood
<1>1. /\ req' = [req EXCEPT ![h].pc = "raised"] /\ UNCHANGED <<run, disk, current>>
      /\ req[h].pc \in Live
      /\ closed' = closed \/ (req[h].pc = "closing" /\ closed' = closed \cup {req[h].run})
  BY DEF CallFails, RefuseRun, Live
<1>2. CASE req[h].pc = "getIssue"
  <2> DEFINE g == [req[h] EXCEPT !.pc = "raised"]
  <2>1. /\ req[h] \in Frame /\ ~req[h].called /\ req[h].msg.name = "start"
    BY <1>2 DEF IInv, TypeOK, Owned, LInv, Rightful
  <2>2. g \in Frame /\ g.pc = "raised" /\ ~g.called /\ g.msg.name = "start"
    BY <2>1 DEF Frame, Pc, Ends
  <2>3. req' = [req EXCEPT ![h] = g]
    BY <1>1
  <2> HIDE DEF g
  <2> QED BY <1>1, <1>2, <2>2, <2>3, RunlessHolds
<1>3. CASE req[h].pc # "getIssue"
  BY <1>1, <1>3, RaisedHolds DEF Closes
<1> QED BY <1>2, <1>3

\* A new run: nobody else speaks of it, and the start attends to it.
LEMMA CreateHolds ==
  ASSUME IInv, LInv, NEW h \in Requests, NEW r0 \in Runs, CreateRun(h, r0)
  PROVE  LGood
<1> DEFINE keyed == Keyed([BlankRun EXCEPT !.state = "OPEN"], req[h].msg.delivery)
           rec == Entered(keyed, "TRIAGE")
           g == [[req[h] EXCEPT !.pc = "triage"] EXCEPT !.run = r0]
<1>1. /\ req[h].pc = "getIssue" /\ run[r0].state = Unborn /\ req[h] \in Frame
      /\ req[h].msg.name = "start" /\ ~req[h].called
      /\ req[h].msg.delivery \in Deliveries \cup {NoDelivery}
  BY DEF CreateRun, IInv, TypeOK, Owned, Live, Message, LInv, Rightful
<1>2. /\ rec.state = "TRIAGE" /\ Passed(rec, "TRIAGE") /\ rec.execution = "none"
      /\ \A c \in Comments : rec.outcome[c] = "none"
  <2>1. [BlankRun EXCEPT !.state = "OPEN"] \in RunRecord
    BY BlankGood DEF RunRecord, RunState
  <2>2. keyed \in RunRecord
    BY <1>1, <2>1, KeyedGood
  <2>3. keyed.execution = "none" /\ \A c \in Comments : keyed.outcome[c] = "none"
    BY DEF Keyed, BlankRun
  <2> QED BY <2>2, <2>3, EnteredRecord DEF RunState
<1>3. /\ run' = [run EXCEPT ![r0] = rec] /\ disk' = [disk EXCEPT ![r0] = rec]
      /\ current' = r0 /\ req' = [req EXCEPT ![h] = g] /\ closed' = closed
  BY DEF CreateRun
<1>4. g \in Frame /\ g.pc = "triage" /\ g.run = r0 /\ ~g.called /\ g.msg = req[h].msg
  BY <1>1 DEF Frame, Pc, Live
<1> HIDE DEF rec, g, keyed
<1>5. /\ \A r \in Runs : run'[r] = IF r = r0 THEN rec ELSE run[r]
      /\ \A r \in Runs : disk'[r] = IF r = r0 THEN rec ELSE disk[r]
      /\ \A i \in Requests : req'[i] = IF i = h THEN g ELSE req[i]
  BY <1>3 DEF IInv, TypeOK
<1>6. ASSUME NEW r, Executed(r) PROVE Executed(r)'
  BY <1>1, <1>5, <1>6 DEF Executed
<1>7. SameState'
  BY <1>5 DEF SameState, LInv
<1>8. ASSUME NEW i \in Requests PROVE Rightful(i)'
  <2>1. CASE i = h
    BY <1>1, <1>4, <1>5, <2>1 DEF Rightful, MayMove
  <2>2. CASE i # h
    <3>1. req'[i] = req[i] /\ Rightful(i)
      BY <1>5, <2>2 DEF LInv
    <3>2. req[i].pc \in {"verifying", "verify", "resolved", "closing"} =>
            req[i].run \in Runs /\ req[i].run # r0
      BY <1>1 DEF IInv, Owned, Live
    <3> QED BY <1>5, <1>6, <3>1, <3>2 DEF Rightful
  <2> QED BY <2>1, <2>2
<1>9. ASSUME NEW r \in Runs PROVE Historied(r)' /\ Gates(r)' /\ Attended(r)'
  <2>1. CASE r = r0
    <3>1. r0 \notin closed
      BY <1>1 DEF LInv, Historied
    <3>2. "triage" \in Working
      BY DEF Working, Live
    <3>3. Historied(r)'
      BY <1>2, <1>3, <1>5, <2>1, <3>1 DEF Historied
    <3>4. Gates(r)'
      BY <1>2, <1>5, <2>1 DEF Gates, Asked
    <3>5. Attended(r)'
      BY <1>4, <1>5, <2>1, <3>2 DEF Attended
    <3> QED BY <3>3, <3>4, <3>5
  <2>2. CASE r # r0
    <3>1. run'[r] = run[r] /\ disk'[r] = disk[r]
      BY <1>5, <2>2
    <3>2. Historied(r)' /\ Gates(r)'
      BY <1>3, <1>6, <3>1 DEF LInv, Historied, Gates
    <3>3. "getIssue" \notin Working
      BY DEF Working
    <3>4. Attended(r)'
      BY <1>1, <1>5, <3>1, <3>3 DEF LInv, Attended
    <3> QED BY <3>2, <3>4
  <2> QED BY <2>1, <2>2
<1>10. Owners'
  BY <1>2, <1>3, <1>5 DEF Owners
<1>11. AuthorityMoves
  BY <1>1, <1>4, <1>5 DEF AuthorityMoves
<1>12. StaysFinal
  BY <1>1, <1>5 DEF StaysFinal, Unborn
<1> QED BY <1>7, <1>8, <1>9, <1>10, <1>11, <1>12 DEF LGood, LInv

-------------------------------------------------------------------------------

(* ----------------------------- handle_comment ------------------------------ *)

\* A permitted command may move the run.
LEMMA PermittedMoves ==
  ASSUME NEW m \in Message, Permitted(m), m.name \in CommandNames
  PROVE  MayMove(m)
<1>1. m.permission \in Permissions
  BY DEF Message
<1>2. /\ m.name \in {"approve", "reject", "abort"} =>
           m.permission \in {"maintain", "admin"}
      /\ m.name \in {"provide", "investigate", "resume"} => m.permission # "none"
  BY <1>1 DEF Permitted, Required, Rank, Permissions
<1> QED BY <1>2 DEF MayMove, CommandNames

LEMMA ApproveLeads ==
  ASSUME NEW h, NEW f \in Frame, NEW base, f.pc = "idle", Kept(base, base, f),
         f.msg \in Message, Permitted(f.msg), f.msg.name = "approve",
         Approve(h, base, f, f.msg.option)
  PROVE  Leads(h, base, f)
<1> DEFINE o == f.msg.option
<1>1. CASE Saving(h, base, f, "raised")
  <2>1. Open(base, base) /\ SameRequest(f, f)
    BY DEF Open, SameRequest
  <2> QED BY <1>1, <2>1, PlainLeads, PlainLabels
<1>2. CASE Approvable(base, o) /\ BeginExecute(h, Closing(base, "answered"), f, o)
  <2>1. o \in Options /\ ~Denied(o)
    BY <1>2, OrchestratorConstants DEF Approvable, Planned, Kept, RunRecord
  <2>2. Kept(base, Closing(base, "answered"), f)
    BY ClosingKept DEF DecisionStatus
  <2>3. f.msg.permission \in {"maintain", "admin"}
    BY PermittedMoves DEF MayMove, CommandNames
  <2>4. Authorized([f EXCEPT !.option = o])
    <3>1. [f EXCEPT !.option = o].msg = f.msg /\ [f EXCEPT !.option = o].option = o
      BY DEF Frame
    <3> QED BY <2>1, <2>3, <3>1 DEF Authorized
  <2> QED BY <1>2, <2>1, <2>2, <2>4, BeginExecuteLeads
<1> QED BY <1>1, <1>2 DEF Approve

\* resume verifies only a run that was executed, and otherwise leaves it where it is.
LEMMA ResumeLeads ==
  ASSUME NEW h, NEW f \in Frame, NEW base, f.pc = "idle", Kept(base, base, f),
         f.msg.name = "resume", Resume(h, base, f)
  PROVE  Leads(h, base, f)
<1>1. SameRequest(f, f) /\ Recorded(base, base, f)
  BY KeptRecorded DEF SameRequest, Open
<1>2. \/ BeginInvestigate(h, base, f) \/ BeginPlan(h, base, f)
      \/ BeginVerify(h, base, f) /\ base.execution # "none"
      \/ Saving(h, base, f, "last")
  BY DEF Resume, Succeeded
<1>3. CASE Saving(h, base, f, "last")
  <2>1. /\ At(f, "last").pc = "last" /\ "last" \in Pc /\ "last" \in Live
        /\ "idle" \notin Working
    BY <1>1, AtFrame DEF Pc, Live, Working
  <2>2. Stands(base, base, f, At(f, "last"))
    BY <2>1 DEF Stands
  <2> QED BY <1>1, <1>3, <2>1, <2>2, SavingLeads
<1> QED BY <1>1, <1>2, <1>3, BeginLeads, BeginVerifyLeads

\* Every branch of a command starts from the record as it was taken, or as begun.
LEMMA ObeyLeads ==
  ASSUME NEW h, NEW f \in Frame, NEW rec \in RunRecord, f.pc = "idle",
         f.msg \in Message, f.msg.name \in CommandNames, f.msg.comment \in Comments,
         Permitted(f.msg), Obey(h, rec, f)
  PROVE  \/ Leads(h, rec, f)
         \/ f.msg.name \in Marking /\ Leads(h, Begun(rec, f.msg.comment), f)
<1> DEFINE begun == Begun(rec, f.msg.comment)
<1>1. begun \in RunRecord
  BY DEF Begun, Outcomed, RunRecord, Outcome
<1> HIDE DEF begun
<1>2. Kept(rec, rec, f) /\ Kept(begun, begun, f) /\ Open(begun, begun) /\ SameRequest(f, f)
  BY <1>1 DEF Kept, Open, SameRequest
<1>3. /\ Kept(begun, [begun EXCEPT !.decision = "none"], f)
      /\ Kept(begun, Closing(begun, "rejected"), f)
  BY <1>2, DecisionKept, ClosingKept DEF DecisionStatus
<1>4. \/ SetState(h, begun, f, "ABORTED", "last")
      \/ BeginInvestigate(h, [begun EXCEPT !.decision = "none"], f)
      \/ Saving(h, begun, f, "extraTask")
      \/ SetState(h, Closing(begun, "rejected"), f, "WAITING_DECISION", "last")
      \/ f.msg.name = "approve" /\ Approve(h, begun, f, f.msg.option)
      \/ f.msg.name = "resume" /\ Resume(h, rec, f)
  BY DEF Obey, CommandNames, begun
<1>5. f.msg.name # "resume" => f.msg.name \in Marking
  BY DEF Marking
<1>6. CASE f.msg.name = "resume" /\ Resume(h, rec, f)
  BY <1>2, <1>6, ResumeLeads
<1>7. CASE f.msg.name = "approve" /\ Approve(h, begun, f, f.msg.option)
  BY <1>2, <1>5, <1>7, ApproveLeads DEF begun
<1>8. CASE f.msg.name # "resume"
  <2>1. Leads(h, begun, f)
    BY <1>2, <1>3, <1>4, <1>7, <1>8, RestLeads, RestStatesOf, BeginLeads, PlainLeads,
       PlainLabels, ApproveLeads
  <2> QED BY <1>5, <1>8, <2>1 DEF begun
<1>9. f.msg.name = "resume" => Resume(h, rec, f)
  BY DEF Obey
<1> QED BY <1>6, <1>8, <1>9

LEMMA HandleHolds ==
  ASSUME IInv, LInv, NEW h \in Requests, NEW m \in Messages, HandleComment(h, m)
  PROVE  LGood
<1> DEFINE f == [IdleFrame EXCEPT !.msg = m, !.run = current]
           rec == run[current]
           taken == Keyed(Outcomed(rec, m.comment, "received"), m.delivery)
           begun == Begun(taken, m.comment)
<1>1. /\ m \in Message /\ m.name # "start" /\ m.comment \in Comments
      /\ current \in Runs /\ req[h].pc = "idle" /\ m.delivery \in Deliveries \cup {NoDelivery}
  BY OrchestratorConstants DEF HandleComment, IInv, TypeOK, Message
<1>2. rec \in RunRecord /\ rec.state # Unborn
  BY <1>1 DEF IInv, TypeOK, CurrentBorn, HandleComment
<1>3. f \in Frame /\ f.msg = m /\ f.run = current /\ f.pc = "idle" /\ ~f.called
  BY <1>1 DEF Frame, IdleFrame, Pc, Live, Ends, Execution
<1>4. /\ taken \in RunRecord /\ taken.state = rec.state /\ taken.seen = rec.seen
      /\ taken.execution = rec.execution /\ taken.decision = rec.decision
      /\ \A c \in Comments : taken.outcome[c] = IF c = m.comment THEN "received"
                                                ELSE rec.outcome[c]
  BY <1>1, <1>2 DEF Keyed, Outcomed, RunRecord, Outcome
<1> HIDE DEF taken
<1>5. /\ begun.state = rec.state /\ begun.seen = rec.seen
      /\ begun.execution = rec.execution /\ begun.decision = rec.decision
      /\ \A c \in Comments : begun.outcome[c] = IF c = m.comment THEN "executing"
                                                ELSE rec.outcome[c]
  BY <1>4 DEF Begun, Outcomed, RunRecord
<1> HIDE DEF f, begun
<1>6. Enters(h, taken, f) /\ (m.name \in Marking => Enters(h, begun, f))
  BY <1>1, <1>2, <1>3, <1>4, <1>5 DEF Enters
<1>7. CASE Ignored(rec, m)
  <2> DEFINE g == At(f, "ignored")
  <2>1. g \in Frame /\ g.pc = "ignored" /\ ~g.called /\ g.run = current
    BY <1>1, <1>3 DEF At, Frame, Pc, Ends
  <2>2. Unsaved(h, rec, f, "ignored")
    BY <1>7 DEF HandleComment, f
  <2>3. /\ run' = [run EXCEPT ![g.run] = rec] /\ disk' = [disk EXCEPT ![g.run] = disk[f.run]]
        /\ req' = [req EXCEPT ![h] = g] /\ UNCHANGED <<current, closed>>
    BY <2>2 DEF Unsaved, Step
  <2> HIDE DEF g
  <2>4. UNCHANGED <<run, disk>>
    BY <1>1, <1>3, <2>1, <2>3 DEF IInv, TypeOK
  <2> QED BY <1>1, <2>1, <2>3, <2>4, RunlessHolds
<1>8. CASE ~Ignored(rec, m) /\ (m.name = "text" \/ ~Permitted(m))
  <2>1. PICK l \in {"done", "raised"} : /\ Saving(h, taken, f, l)
                                        /\ l = "done" => m.name = "text"
    BY <1>8 DEF HandleComment, f, taken
  <2>2. /\ At(f, l) \in Frame /\ At(f, l).pc = l /\ At(f, l).msg = m
        /\ At(f, l).run = current /\ l \notin Live /\ "idle" \notin Working
        /\ SameRequest(f, At(f, l))
    BY <1>3 DEF At, SameRequest, Frame, Pc, Live, Ends, Working
  <2>3. Recorded(taken, taken, f) /\ Stands(taken, taken, f, At(f, l))
    BY <1>3, <2>1, <2>2 DEF Recorded, Stands, Marking, CommandNames
  <2>4. Goes(h, taken, taken, taken, f, At(f, l)) /\ Closes(f)
    BY <2>1, <2>2, <2>3 DEF Saving, Step, Writes, Goes, Closes
  <2>5. Harmless(taken, taken, At(f, l))
    BY <2>2 DEF Harmless
  <2> QED BY <1>6, <2>4, <2>5, GoesGood
<1>9. CASE ~Ignored(rec, m) /\ m.name # "text" /\ Permitted(m)
  <2>1. Obey(h, taken, f) /\ m.name \in CommandNames
    BY <1>1, <1>9 DEF HandleComment, f, taken, Message
  <2>2. MayMove(f.msg)
    BY <1>1, <1>3, <1>9, <2>1, PermittedMoves
  <2>3. Leads(h, taken, f) \/ (m.name \in Marking /\ Leads(h, begun, f))
    BY <1>1, <1>3, <1>4, <1>9, <2>1, ObeyLeads DEF begun
  <2> QED BY <1>6, <2>2, <2>3, LeadsHolds
<1> QED BY <1>7, <1>8, <1>9

-------------------------------------------------------------------------------

\* A restart: every state is as it was, and no record of the history is lost; the run
\* that is current has no command left as executing, unless it was over once.
LEMMA CrashHolds ==
  ASSUME IInv, LInv, Crash
  PROVE  LGood
<1> DEFINE born == {r \in Runs : run[r].state # Unborn}
           anyLive == \E r \in born : disk[r].state \notin TerminalStates
           Back(r0) == [r \in Runs |-> IF r = r0 /\ anyLive THEN Reloaded(disk[r])
                                      ELSE disk[r]]
<1>1. PICK r0 \in IF born = {} THEN {NoRun} ELSE born :
        /\ current' = r0
        /\ disk' = Back(r0)
        /\ run' = [r \in Runs |-> [Back(r0)[r] EXCEPT !.seen = run[r].seen,
                                                     !.last = run[r].last]]
  BY Zenon DEF Crash
<1>2. req' = [h \in Requests |-> IF req[h].pc \in Live THEN [req[h] EXCEPT !.pc = "lost"]
                                ELSE req[h]]
  BY Zenon DEF Crash
<1>3. closed' = closed
  BY Zenon DEF Crash
<1>4. /\ disk \in [Runs -> RunRecord] /\ run \in [Runs -> RunRecord]
      /\ req \in [Requests -> Frame]
  BY DEF IInv, TypeOK
<1>5. ASSUME NEW r \in Runs
      PROVE  /\ Reloaded(disk[r]) \in RunRecord /\ Reloaded(disk[r]).state = disk[r].state
             /\ Reloaded(disk[r]).execution = disk[r].execution
             /\ Reloaded(disk[r]).decision = disk[r].decision
             /\ \A c \in Comments : Reloaded(disk[r]).outcome[c] # "executing"
  <2> DEFINE o == [c \in Comments |-> IF disk[r].outcome[c] = "executing" THEN "unknown"
                                      ELSE disk[r].outcome[c]]
  <2>1. disk[r] \in RunRecord
    BY <1>4
  <2>2. o \in [Comments -> Outcome] /\ \A c \in Comments : o[c] # "executing"
    BY <2>1 DEF RunRecord, Outcome
  <2>3. Reloaded(disk[r]) = [disk[r] EXCEPT !.outcome = o]
    BY DEF Reloaded
  <2> HIDE DEF o
  <2>4. /\ [disk[r] EXCEPT !.outcome = o] \in RunRecord
        /\ [disk[r] EXCEPT !.outcome = o].state = disk[r].state
        /\ [disk[r] EXCEPT !.outcome = o].execution = disk[r].execution
        /\ [disk[r] EXCEPT !.outcome = o].decision = disk[r].decision
        /\ [disk[r] EXCEPT !.outcome = o].outcome = o
    BY <2>1, <2>2 DEF RunRecord
  <2> QED BY <2>2, <2>3, <2>4
<1>6. ASSUME NEW r \in Runs
      PROVE  /\ Back(r0)[r] \in RunRecord /\ Back(r0)[r].state = disk[r].state
             /\ Back(r0)[r].execution = disk[r].execution
             /\ Back(r0)[r].decision = disk[r].decision
             /\ r = r0 /\ anyLive =>
                  \A c \in Comments : Back(r0)[r].outcome[c] # "executing"
  <2>1. Back(r0)[r] = IF r = r0 /\ anyLive THEN Reloaded(disk[r]) ELSE disk[r]
    OBVIOUS
  <2> HIDE DEF Back, anyLive
  <2> QED BY <1>4, <1>5, <2>1
<1>7. r0 # NoRun => r0 \in Runs /\ run[r0].state # Unborn
  OBVIOUS
<1>8. r0 # NoRun /\ disk[r0].state \notin TerminalStates => anyLive
  BY <1>7
<1> HIDE DEF Back, born, anyLive
<1>9. ASSUME NEW r \in Runs
      PROVE  /\ run'[r].state = run[r].state /\ disk'[r].state = run[r].state
             /\ run'[r].execution = disk[r].execution /\ disk'[r].execution = disk[r].execution
             /\ run'[r].decision = disk[r].decision /\ disk'[r].decision = disk[r].decision
             /\ run'[r].seen = run[r].seen /\ disk[r].state = run[r].state
             /\ r = r0 /\ anyLive => \A c \in Comments : run'[r].outcome[c] # "executing"
  <2>1. run'[r] = [Back(r0)[r] EXCEPT !.seen = run[r].seen, !.last = run[r].last]
        /\ disk'[r] = Back(r0)[r]
    BY <1>1
  <2>2. disk[r].state = run[r].state
    BY DEF LInv, SameState
  <2>3. /\ run'[r].state = Back(r0)[r].state /\ run'[r].execution = Back(r0)[r].execution
        /\ run'[r].decision = Back(r0)[r].decision /\ run'[r].seen = run[r].seen
        /\ run'[r].outcome = Back(r0)[r].outcome
    BY <1>6, <2>1 DEF RunRecord
  <2> QED BY <1>6, <2>1, <2>2, <2>3
<1>10. ASSUME NEW i \in Requests
       PROVE  /\ req'[i].run = req[i].run /\ req'[i].msg = req[i].msg
              /\ req'[i].called = req[i].called /\ req'[i].option = req[i].option
              /\ req'[i].pc = IF req[i].pc \in Live THEN "lost" ELSE req[i].pc
  BY <1>2, <1>4 DEF Frame
<1>11. \A r : Executed(r) => Executed(r)'
  BY <1>10 DEF Executed
<1>12. SameState'
  BY <1>9 DEF SameState
<1>13. ASSUME NEW i \in Requests PROVE Rightful(i)'
  <2>1. Rightful(i)
    BY DEF LInv
  <2>2. req'[i].pc \notin Live /\ (req'[i].pc = "idle" => req[i].pc = "idle")
    BY <1>10 DEF Live
  <2>3. req'[i].called => Authorized(req'[i])
    BY <1>10, <2>1 DEF Rightful, Authorized
  <2> QED BY <1>10, <2>1, <2>2, <2>3 DEF Rightful, Live
<1>14. ASSUME NEW r \in Runs PROVE Historied(r)' /\ Gates(r)' /\ Attended(r)'
  <2>1. Historied(r)'
    BY <1>3, <1>9, <1>11 DEF LInv, Historied, Passed
  <2>2. Gates(r)'
    BY <1>9 DEF LInv, Gates, Asked
  <2>3. Attended(r)'
    BY <1>9, <1>10 DEF LInv, Attended, Working
  <2> QED BY <2>1, <2>2, <2>3
<1>15. Owners'
  <2> SUFFICES ASSUME r0 # NoRun, NeverOver(r0)', NEW c \in Comments,
                      run'[r0].outcome[c] = "executing"
               PROVE  FALSE
    BY <1>1 DEF Owners
  <2>1. r0 \in Runs /\ NeverOver(r0)
    BY <1>7, <1>9 DEF NeverOver
  <2>2. disk[r0].state \notin TerminalStates
    BY <1>7, <1>9, <2>1 DEF LInv, Historied, Passed, NeverOver
  <2> QED BY <1>8, <1>9, <2>1, <2>2
<1>16. AuthorityMoves /\ StaysFinal
  BY <1>9 DEF AuthorityMoves, StaysFinal
<1> QED BY <1>12, <1>13, <1>14, <1>15, <1>16 DEF LGood, LInv

-------------------------------------------------------------------------------

LEMMA NextHolds ==
  ASSUME IInv, LInv, [Next]_vars
  PROVE  LGood
<1>1. CASE UNCHANGED vars
  BY <1>1 DEF vars, LGood, LInv, SameState, Owners, NeverOver, Owner, Rightful, Passed,
              Executed, Historied, Gates, Attended, AuthorityMoves, StaysFinal
<1>2. CASE Crash
  BY <1>2, CrashHolds
<1>3. ASSUME NEW h \in Requests, Arrive(h) \/ CallFails(h)
      PROVE  LGood
  BY <1>3, StartHolds, HandleHolds, FailsHolds DEF Arrive
<1>4. ASSUME NEW h \in Requests, Proceed(h)
      PROVE  LGood
  <2>1. \/ Works(h) \/ IssueClosed(h) \/ RefuseRun(h)
        \/ \E r \in Runs : CreateRun(h, r)
    BY <1>4 DEF Proceed, Works
  <2> QED BY <2>1, WorksHolds, IssueClosedHolds, FailsHolds, CreateHolds
<1> QED BY <1>1, <1>2, <1>3, <1>4 DEF Next

LEMMA InitLInv == Init => LInv
<1> SUFFICES ASSUME Init PROVE LInv
  OBVIOUS
<1>1. \A h \in Requests : /\ req[h].pc = "idle" /\ ~req[h].called
  BY DEF Init, IdleFrame
<1>2. /\ \A r \in Runs : /\ disk[r] = run[r] /\ run[r].state = Unborn
                         /\ run[r].execution = "none"
      /\ current = NoRun /\ closed = {}
  BY DEF Init, BlankRun
<1>3. \A h \in Requests : Rightful(h)
  BY <1>1 DEF Rightful, Live
<1>4. \A r \in Runs : Historied(r) /\ Gates(r) /\ Attended(r)
  BY <1>2 DEF Historied, Gates, Asked, Attended, Restful, Unborn
<1>5. SameState /\ Owners
  BY <1>2 DEF SameState, Owners
<1> QED BY <1>3, <1>4, <1>5 DEF LInv

LEMMA LifecycleInvariant == Spec => [](IInv /\ LInv)
<1>1. Init => IInv /\ LInv
  BY InitIInv, InitLInv
<1>2. IInv /\ LInv /\ [Next]_vars => IInv' /\ LInv'
  BY NextKeeps, NextHolds DEF LGood
<1> QED BY <1>1, <1>2, PTL DEF Spec

\* The recovery agent is called only for an option a maintainer approved and the policy
\* does not deny, or for the one option of a plan the policy runs automatically.
THEOREM ExecutionsAreAuthorized == Spec => []ExecutionAuthorized
<1>1. LInv => ExecutionAuthorized
  BY DEF LInv, Rightful, Authorized, ExecutionAuthorized
<1> QED BY <1>1, LifecycleInvariant, PTL

\* The issue is closed only for a run that was executed, verified and resolved.
THEOREM ClosingFollowsVerification == Spec => []ClosedOnlyAfterVerification
<1>1. IInv /\ LInv => ClosedOnlyAfterVerification
  BY DEF IInv, TypeOK, LInv, Historied, Passed, Executed, ClosedOnlyAfterVerification
<1> QED BY <1>1, LifecycleInvariant, PTL

\* Nobody under way or fallen: the run rests in a state that waits or is over.
THEOREM QuietRunsRest == Spec => []QuiescentAtRest
<1>1. IInv /\ LInv => QuiescentAtRest
  <2> SUFFICES ASSUME IInv, LInv, current # NoRun,
                      \A h \in Requests : req[h].pc \in {"idle", "ignored", "done"}
               PROVE  run[current].state \in RestStates \ {"RESOLVED"}
    BY DEF QuiescentAtRest
  <2>1. current \in Runs /\ run[current].state # Unborn
    BY DEF IInv, TypeOK, CurrentBorn
  <2>2. \A h \in Requests : req[h].pc \notin Working
    BY DEF Working, Live
  <2> QED BY <2>1, <2>2 DEF LInv, Attended, Restful
<1> QED BY <1>1, LifecycleInvariant, PTL

\* A command marked as executing has a request that executes it or has raised, unless
\* the run was over once.
THEOREM ExecutingIsOwned == Spec => []ExecutingHasOwner
<1>1. LInv => ExecutingHasOwner
  BY DEF LInv, Owners, Owner, ExecutingHasOwner
<1> QED BY <1>1, LifecycleInvariant, PTL

\* A gate has its question, unless strict mode may refuse the transition that leaves it.
THEOREM GatesAsk == ASSUME Enforcement # "strict" PROVE Spec => []GateHasQuestion
<1>1. LInv => GateHasQuestion
  BY DEF LInv, Gates, Asked, GateHasQuestion
<1> QED BY <1>1, LifecycleInvariant, PTL

\* The state moves only in a step of a request that has the right to move it.
THEOREM AuthorityIsNeeded == Spec => OnlyAuthorityMoves
<1>1. IInv /\ LInv /\ [Next]_vars => [AuthorityMoves]_vars
  BY NextHolds DEF LGood
<1> QED BY <1>1, LifecycleInvariant, PTL DEF Spec, OnlyAuthorityMoves, AuthorityMoves

\* With strict enforcement an aborted run and one whose RCA is complete stay so.
THEOREM FinalStays == ASSUME Enforcement = "strict" PROVE Spec => FinalIsFinal
<1>1. IInv /\ LInv /\ [Next]_vars => [StaysFinal]_vars
  BY NextHolds DEF LGood
<1> QED BY <1>1, LifecycleInvariant, PTL DEF Spec, FinalIsFinal, StaysFinal

===============================================================================
