----------------------------- MODULE Orchestrator -----------------------------
(* The orchestrator (opsswarm/orchestrator.py) for one incident issue.        *)
(*                                                                            *)
(* Every webhook request runs as a coroutine of one asyncio process.  The     *)
(* code between two awaits is atomic, so an action of this module is the code *)
(* from the return of one awaited call (GitHub or OpenClaw) to the next one;  *)
(* pc names the call a coroutine waits for.  Two calls with nothing but       *)
(* evidence of no consequence between them (labels, then a comment) are one   *)
(* wait.  run is the record in memory, disk the record in the FileStore: most *)
(* steps save, some do not.  A process dies only between two steps.           *)
EXTENDS RunStates, Policy, FiniteSets

CONSTANTS
  Requests,         \* webhook requests: the bound on coroutines
  Runs,             \* run records the bound allows
  Comments, Deliveries,   \* GitHub comment ids, X-GitHub-Delivery ids
  Plans,            \* plans make_recovery_plan may return
  Messages,         \* contents a request may carry
  NoRun, NoComment, NoDelivery, NoOption, NoPlan, NoMessage, NoRequest,
  Enforcement,      \* state_enforcement
  BudgetMayRunOut,  \* whether _budget_preflight may refuse
  CallsMayFail,     \* whether an awaited call may raise
  ClientHasAddLabel,\* whether the GitHub client has the method add_label
  MaxCrashes        \* bound on process restarts

CommandNames == {"approve", "reject", "abort", "provide", "investigate", "resume"}
Permissions == {"none", "read", "triage", "write", "maintain", "admin"}
Message ==
  [name: CommandNames \cup {"start", "text"},
   comment: Comments \cup {NoComment}, delivery: Deliveries \cup {NoDelivery},
   option: Options \cup {NoOption}, permission: Permissions]

ASSUME OrchestratorConstants ==
  /\ NoRequest \notin Requests /\ NoRun \notin Runs /\ NoOption \notin Options
  /\ NoComment \notin Comments /\ NoDelivery \notin Deliveries
  /\ NoPlan \notin Plans /\ NoMessage \notin Message
  /\ Plans \subseteq [askHuman: BOOLEAN, options: Seq(Options)]
  /\ Messages \subseteq Message
  /\ \A m \in Messages : m.name # "start" => m.comment \in Comments
  /\ Enforcement \in EnforcementModes
  /\ BudgetMayRunOut \in BOOLEAN /\ CallsMayFail \in BOOLEAN
  /\ ClientHasAddLabel \in BOOLEAN
  /\ MaxCrashes \in Nat

VARIABLES
  run,      \* [Runs -> RunRecord], the records in memory
  disk,     \* [Runs -> RunRecord], the records in the run store
  current,  \* Orchestrator.runs[issue]
  lock,     \* the start request inside `async with lock`, or NoRequest
  req,      \* the coroutine of each request
  closed,   \* runs that have closed the GitHub issue
  crashes
vars == <<run, disk, current, lock, req, closed, crashes>>

(* ------------------------------ run records ------------------------------ *)

Unborn == "UNBORN"      \* no such record yet
Outcome == {"none", "received", "executing", "confirmed", "unknown"}
Execution == {"none", "success", "failed", "ambiguous", "ambiguous_success"}
DecisionStatus == {"none", "pending", "answered", "rejected"}
CheckpointType == {"none", "state_transition", "human_gate", "execution"}
Checkpoint == ({"state"} \X RunState) \cup ({"pre"} \X Options)
              \cup ({"post"} \X Options \X BOOLEAN \X RunState)

RunRecord ==
  [state: RunState \cup {Unborn}, plan: Plans \cup {NoPlan},
   execution: Execution, decision: DecisionStatus,
   tasks: Seq(Nat), found: SUBSET Nat,     \* 0 is the S2 graph, n is HXn
   outcome: [Comments -> Outcome], keys: SUBSET Deliveries,
   seen: SUBSET Checkpoint, last: CheckpointType]

BlankRun ==
  [state |-> Unborn, plan |-> NoPlan, execution |-> "none", decision |-> "none",
   tasks |-> <<>>, found |-> {}, outcome |-> [c \in Comments |-> "none"],
   keys |-> {}, seen |-> {}, last |-> "none"]

\* A changed form of a definition, named ...Bug, stands before it: what a check
\* must notice.
KeyedBug(rec, d) == [rec EXCEPT !.keys = @ \cup {d}]
Keyed(rec, d) == [rec EXCEPT !.keys = @ \cup ({d} \ {NoDelivery})]

AskingBug(rec) == rec
Asking(rec) == [rec EXCEPT !.decision = "pending"]

Succeeded(e) == e \in {"success", "ambiguous_success"}

(* EvidenceStore.checkpoint: a checkpoint whose payload was recorded before   *)
(* is dropped as a duplicate.  A human gate carries a fresh decision id.      *)
Checkpointed(rec, type, payload) ==
  IF payload \in rec.seen THEN rec
  ELSE [rec EXCEPT !.seen = @ \cup {payload}, !.last = type]

Entered(rec, s) ==
  Checkpointed([rec EXCEPT !.state = s], "state_transition", <<"state", s>>)

(* ------------------------------- coroutines ------------------------------ *)

Live == {"getIssue", "triage", "investigating", "buildTasks", "startedComment",
         "wave", "rootCause", "diagnosed", "planning", "makePlan", "executing",
         "recovery", "handoff", "verifying", "verify", "resolved", "closing",
         "rca", "synthesizeRca", "filing", "extraTask", "last"}
Ends == {"ignored", "done", "raised", "lost"}
Pc == Live \cup Ends \cup {"idle"}

Frame ==
  [pc: Pc, msg: Message \cup {NoMessage}, run: Runs \cup {NoRun},
   option: Options \cup {NoOption}, todo: SUBSET Nat, extra: Nat,
   called: BOOLEAN, verdict: Execution]

IdleFrame ==
  [pc |-> "idle", msg |-> NoMessage, run |-> NoRun, option |-> NoOption,
   todo |-> {}, extra |-> 0, called |-> FALSE, verdict |-> "none"]

Rec(h) == run[req[h].run]

\* h goes on as frame f with the record rec, of which stored is on disk.  A
\* start request that ends leaves `async with lock`.
Step(h, rec, stored, f) ==
  /\ run' = [run EXCEPT ![f.run] = rec]
  /\ disk' = [disk EXCEPT ![f.run] = stored]
  /\ req' = [req EXCEPT ![h] = f]
  /\ lock' = IF lock = h /\ f.pc \notin Live THEN NoRequest ELSE lock
  /\ UNCHANGED <<current, closed, crashes>>

At(f, label) == [f EXCEPT !.pc = label]
Saving(h, rec, f, label) == Step(h, rec, rec, At(f, label))
Unsaved(h, rec, f, label) == Step(h, rec, disk[f.run], At(f, label))
Goto(h, label) == Unsaved(h, Rec(h), req[h], label)

\* _set_state: in strict mode a forbidden transition raises instead.
SetState(h, rec, f, s, label) ==
  \/ /\ TransitionAllowed(Enforcement, rec.state, s)
     /\ Saving(h, Entered(rec, s), f, label)
  \/ /\ ~TransitionAllowed(Enforcement, rec.state, s)
     /\ Saving(h, rec, f, "raised")

OverBudgetBug(h, rec, f, label) == BudgetMayRunOut /\ Unsaved(h, Asking(rec), f, label)

\* _budget_preflight refuses: ask a human and stop.
OverBudget(h, rec, f, label) ==
  /\ BudgetMayRunOut
  /\ SetState(h, Asking(rec), f, "WAITING_DECISION", label)

Preflight(h, rec, f, label) ==
  Unsaved(h, rec, f, label) \/ OverBudget(h, rec, f, "last")

(* _execute_option up to its first await.                                     *)
BeginExecute(h, rec, f, o) ==
  SetState(h, Checkpointed(rec, "execution", <<"pre", o>>),
           [f EXCEPT !.option = o], "EXECUTING", "executing")

BeginInvestigate(h, rec, f) == SetState(h, rec, f, "INVESTIGATING", "investigating")
BeginPlan(h, rec, f) == SetState(h, rec, f, "PLANNING", "planning")
BeginVerifyBug(h, rec, f) == SetState(h, rec, f, "RESOLVED", "resolved")
BeginVerify(h, rec, f) == SetState(h, rec, f, "VERIFYING", "verifying")

(* ------------------------------ start_issue ------------------------------ *)

LockFreeBug == TRUE
LockFree == lock = NoRequest

StartIssue(h, m) ==
  LET f == [IdleFrame EXCEPT !.msg = m]
  IN  /\ req[h].pc = "idle" /\ m.name = "start" /\ LockFree
      /\ \/ /\ current # NoRun
            /\ \/ m.delivery \in run[current].keys
               \/ run[current].state \notin {"FAILED", "ABORTED"}
            /\ req' = [req EXCEPT ![h] = [f EXCEPT !.pc = "ignored"]]
            /\ UNCHANGED lock
         \/ /\ current # NoRun =>
                 /\ m.delivery \notin run[current].keys
                 /\ run[current].state \in {"FAILED", "ABORTED"}
            /\ req' = [req EXCEPT ![h] = [f EXCEPT !.pc = "getIssue"]]
            /\ lock' = h
      /\ UNCHANGED <<run, disk, current, closed, crashes>>

CreateRun(h, r) ==
  LET opened == [BlankRun EXCEPT !.state = "OPEN"]
      rec == Entered(Keyed(opened, req[h].msg.delivery), "TRIAGE")
  IN  /\ req[h].pc = "getIssue" /\ run[r].state = Unborn
      /\ run' = [run EXCEPT ![r] = rec] /\ disk' = [disk EXCEPT ![r] = rec]
      /\ current' = r
      /\ req' = [req EXCEPT ![h].pc = "triage", ![h].run = r]
      /\ UNCHANGED <<lock, closed, crashes>>

\* The issue lacks the required label.
RefuseRun(h) ==
  /\ req[h].pc = "getIssue"
  /\ req' = [req EXCEPT ![h].pc = "raised"]
  /\ lock' = NoRequest
  /\ UNCHANGED <<run, disk, current, closed, crashes>>

Triaged(h) == req[h].pc = "triage" /\ BeginInvestigate(h, Rec(h), req[h])

(* ------------------------------ _investigate ----------------------------- *)

TaskIds(rec) == {rec.tasks[i] : i \in DOMAIN rec.tasks}

\* An extra task is not validated: it may depend on a task that is not there.
MayBeStuck(todo) == \E t \in todo : t # 0

\* Waves over the tasks with no finding; with none left, the synthesis.
RunWaves(h, rec, f) ==
  LET todo == TaskIds(rec) \ rec.found
  IN  \/ todo # {} /\ Saving(h, rec, [f EXCEPT !.todo = todo], "wave")
      \/ MayBeStuck(todo) /\ Unsaved(h, rec, f, "raised")
      \/ todo = {} /\ Preflight(h, rec, f, "rootCause")

Investigating(h) ==
  LET f == req[h]
      rec == IF f.extra = 0 THEN Rec(h)
             ELSE [Rec(h) EXCEPT !.tasks = Append(@, f.extra)]
  IN  /\ f.pc = "investigating"
      /\ \/ rec.tasks = <<>> /\ Goto(h, "buildTasks")
         \/ rec.tasks # <<>> /\ RunWaves(h, rec, f)

TasksBuilt(h) ==
  /\ req[h].pc = "buildTasks"
  /\ \/ Unsaved(h, [Rec(h) EXCEPT !.tasks = <<0>>], req[h], "startedComment")
     \/ Unsaved(h, [Rec(h) EXCEPT !.tasks = <<>>], req[h], "raised")

\* The graph is saved, or refused by _validate_and_enforce_graph.
GraphValidated(h) ==
  /\ req[h].pc = "startedComment"
  /\ \/ RunWaves(h, Rec(h), req[h])
     \/ Goto(h, "raised")

PendingBug(todo, ready) == todo
Pending(todo, ready) == todo \ ready

\* One wave of dependency-ready tasks has its findings.
WaveDone(h) ==
  LET f == req[h]
  IN  /\ f.pc = "wave"
      /\ \E ready \in (SUBSET f.todo) \ {{}} :
           LET rec == [Rec(h) EXCEPT !.found = @ \cup ready]
               g == [f EXCEPT !.todo = Pending(@, ready)]
           IN  \/ g.todo # {} /\ Saving(h, rec, g, "wave")
               \/ MayBeStuck(g.todo) /\ Saving(h, rec, g, "raised")
               \/ g.todo = {} /\ Saving(h, rec, g, "rootCause")
               \/ g.todo = {} /\ OverBudget(h, rec, g, "last")

\* Every task of the wave is refused by the budget: the loop tries again.
WaveRefused(h) ==
  req[h].pc = "wave" /\ OverBudget(h, Rec(h), req[h], "wave")

RootCauseFound(h) ==
  req[h].pc = "rootCause" /\ SetState(h, Rec(h), req[h], "DIAGNOSED", "diagnosed")

Diagnosed(h) ==
  /\ req[h].pc = "diagnosed"
  /\ \/ BeginPlan(h, Rec(h), req[h])
     \/ SetState(h, Asking(Rec(h)), req[h], "WAITING_INPUT", "last")

(* --------------------------------- _plan --------------------------------- *)

Planning(h) == req[h].pc = "planning" /\ Preflight(h, Rec(h), req[h], "makePlan")

GateState ==
  [a \in {"APPROVAL", "DECISION", "INPUT"} |->
     CASE a = "APPROVAL" -> "WAITING_APPROVAL"
       [] a = "DECISION" -> "WAITING_DECISION"
       [] a = "INPUT"    -> "WAITING_INPUT"]

PlanMade(h, p) ==
  LET rec == [Rec(h) EXCEPT !.plan = p]
      action == ClassifyPlan(p)
  IN  /\ req[h].pc = "makePlan"
      /\ \/ /\ action = "AUTO"
            /\ BeginExecute(h, rec, req[h], p.options[1])
         \/ /\ action \in DOMAIN GateState
            /\ SetState(h, [Asking(rec) EXCEPT !.last = "human_gate"],
                        req[h], GateState[action], "last")
         \/ /\ action = "DENY"
            /\ SetState(h, rec, req[h], "FAILED", "last")

(* ---------------------------- _execute_option ---------------------------- *)

Executing(h) ==
  /\ req[h].pc = "executing"
  /\ \/ Unsaved(h, Rec(h), [req[h] EXCEPT !.called = TRUE], "recovery")
     \/ OverBudget(h, Rec(h), req[h], "last")

\* execute_recovery returned an ExecutionResult.
Recovered(h, e) ==
  LET f == req[h]
      rec == Rec(h)
      after == IF Succeeded(e) THEN "VERIFYING" ELSE rec.state
      saved == Checkpointed([rec EXCEPT !.execution = e], "execution",
                            <<"post", f.option, Succeeded(e), after>>)
  IN  /\ f.pc = "recovery"
      /\ \/ /\ e \in {"ambiguous", "ambiguous_success"}
            /\ SetState(h, Asking(saved), f, "WAITING_DECISION", "last")
         \/ e = "failed" /\ SetState(h, saved, f, "FAILED", "last")
         \/ e = "success" /\ BeginVerify(h, saved, f)

\* execute_recovery raised AmbiguousWriteOutcome.
RecoveryUnknown(h) ==
  /\ req[h].pc = "recovery"
  /\ SetState(h, Rec(h), req[h], "WAITING_DECISION", "handoff")

HandedOff(h) == req[h].pc = "handoff" /\ Unsaved(h, Asking(Rec(h)), req[h], "last")

(* ------------------------- _verify and _plan_rca ------------------------- *)

Verifying(h) ==
  /\ req[h].pc = "verifying"
  /\ Preflight(h, Rec(h), [req[h] EXCEPT !.verdict = Rec(h).execution], "verify")

Verified(h) ==
  /\ req[h].pc = "verify"
  /\ SetState(h, Rec(h), req[h], "RESOLVED", "resolved")

NotVerified(h) ==
  /\ req[h].pc = "verify"
  /\ \E s \in {"FAILED", "ABORTED"} : SetState(h, Rec(h), req[h], s, "last")

Announced(h) == req[h].pc = "resolved" /\ Goto(h, "closing")

IssueClosed(h) ==
  LET f == req[h]
      rec == Entered(Rec(h), "PLAN_RCA")
      ok == TransitionAllowed(Enforcement, Rec(h).state, "PLAN_RCA")
  IN  /\ f.pc = "closing"
      /\ closed' = closed \cup {f.run}
      /\ IF ok
         THEN /\ run' = [run EXCEPT ![f.run] = rec]
              /\ disk' = [disk EXCEPT ![f.run] = rec]
              /\ req' = [req EXCEPT ![h].pc = "rca"]
              /\ UNCHANGED lock
         ELSE /\ req' = [req EXCEPT ![h].pc = "raised"]
              /\ lock' = IF lock = h THEN NoRequest ELSE lock
              /\ UNCHANGED <<run, disk>>
      /\ UNCHANGED <<current, crashes>>

\* Labels are set; add_label exists, or it is an AttributeError.
RcaLabelled(h) ==
  /\ req[h].pc = "rca"
  /\ \/ ClientHasAddLabel /\ Goto(h, "synthesizeRca")
     \/ ClientHasAddLabel /\ SetState(h, Rec(h), req[h], "ABORTED", "last")
     \/ ~ClientHasAddLabel /\ Goto(h, "raised")

RcaSynthesized(h) ==
  /\ req[h].pc = "synthesizeRca"
  /\ SetState(h, Rec(h), req[h], "PLAN_RCA_RESOLVED", "filing")

\* All corrective issues are filed, or the RCA budget runs out before.
ActionsFiled(h) ==
  /\ req[h].pc = "filing"
  /\ \/ Saving(h, Rec(h), req[h], "last")
     \/ SetState(h, Rec(h), req[h], "ABORTED", "last")

(* ----------------------------- handle_comment ---------------------------- *)

Rank ==
  [p \in Permissions |->
     CASE p = "none" -> 0 [] p = "read" -> 1 [] p = "triage" -> 2
       [] p = "write" -> 3 [] p = "maintain" -> 4 [] p = "admin" -> 5]
RequiredBug(name) == "read"
Required(name) ==
  IF name \in {"approve", "reject", "abort"} THEN "maintain" ELSE "read"
Permitted(m) == Rank[m.permission] >= Rank[Required(m.name)]

Outcomed(rec, c, o) == [rec EXCEPT !.outcome[c] = o]

\* The command ran to its end: every command but resume is marked confirmed.
Returned(h) ==
  LET m == req[h].msg
  IN  /\ req[h].pc = "last"
      /\ \/ /\ m.name \in CommandNames \ {"resume"}
            /\ Saving(h, Outcomed(Rec(h), m.comment, "confirmed"), req[h], "done")
         \/ m.name \in {"start", "resume"} /\ Goto(h, "done")

\* Where /opsswarm resume goes on, from the type of the last checkpoint.
Resume(h, rec, f) ==
  LET byState == rec.last = "state_transition"
  IN  CASE byState /\ rec.state = "INVESTIGATING" -> BeginInvestigate(h, rec, f)
        [] byState /\ rec.state = "PLANNING" -> BeginPlan(h, rec, f)
        [] byState /\ rec.state = "EXECUTING" /\ rec.execution # "none" ->
             BeginVerify(h, rec, f)
        [] rec.last # "human_gate" /\ rec.state = "FAILED" /\ Succeeded(rec.execution) ->
             BeginVerify(h, rec, f)
        [] OTHER -> Saving(h, rec, f, "last")

Planned(rec, o) ==
  rec.plan # NoPlan /\ \E i \in DOMAIN rec.plan.options : rec.plan.options[i] = o
ApprovableBug(rec, o) == Planned(rec, o)
Approvable(rec, o) == Planned(rec, o) /\ ~Denied(o)

\* The open question, if there is one, gets this status.
Closing(rec, status) == [rec EXCEPT !.decision = IF @ = "none" THEN @ ELSE status]

Approve(h, rec, f, o) ==
  \/ ~Approvable(rec, o) /\ Saving(h, rec, f, "raised")
  \/ Approvable(rec, o) /\ BeginExecute(h, Closing(rec, "answered"), f, o)

BegunBug(rec, c) == Outcomed(rec, c, "confirmed")
Begun(rec, c) == Outcomed(rec, c, "executing")

Obey(h, rec, f) ==
  LET m == f.msg
      begun == Begun(rec, m.comment)
  IN  CASE m.name = "abort" -> SetState(h, begun, f, "ABORTED", "last")
        [] m.name = "provide" ->
             BeginInvestigate(h, [begun EXCEPT !.decision = "none"], f)
        [] m.name = "investigate" -> Saving(h, begun, f, "extraTask")
        [] m.name = "reject" ->
             SetState(h, Closing(begun, "rejected"), f, "WAITING_DECISION", "last")
        [] m.name = "approve" -> Approve(h, begun, f, m.option)
        [] m.name = "resume" -> Resume(h, rec, f)

Finished(rec, m) == rec.state \in TerminalStates /\ m.name # "resume"
IgnoredBug(rec, m) == Finished(rec, m) \/ rec.outcome[m.comment] = "confirmed"
IgnoredBug2(rec, m) == Finished(rec, m) \/ m.delivery \in rec.keys

\* A command on a finished run, one already confirmed, a delivery seen before.
Ignored(rec, m) ==
  \/ Finished(rec, m)
  \/ rec.outcome[m.comment] = "confirmed"
  \/ m.delivery \in rec.keys

HandleComment(h, m) ==
  LET f == [IdleFrame EXCEPT !.msg = m, !.run = current]
      rec == run[current]
      taken == Keyed(Outcomed(rec, m.comment, "received"), m.delivery)
  IN  /\ req[h].pc = "idle" /\ m.name # "start" /\ current # NoRun
      /\ CASE Ignored(rec, m) -> Unsaved(h, rec, f, "ignored")
           [] ~Ignored(rec, m) /\ m.name = "text" -> Saving(h, taken, f, "done")
           [] ~Ignored(rec, m) /\ m.name # "text" /\ ~Permitted(m) ->
                Saving(h, taken, f, "raised")
           [] OTHER -> Obey(h, taken, f)

HXTasks(rec) == {i \in DOMAIN rec.tasks : rec.tasks[i] # 0}

\* make_extra_task returned; the id counts the HX tasks there are now.
ExtraTaskMade(h) ==
  /\ req[h].pc = "extraTask"
  /\ BeginInvestigate(h, [Rec(h) EXCEPT !.decision = "none"],
       [req[h] EXCEPT !.extra = Cardinality(HXTasks(Rec(h))) + 1])

(* ------------------------- failures and restarts ------------------------- *)

\* The awaited call raises: the run keeps the state it had.
CallFails(h) ==
  /\ CallsMayFail
  /\ req[h].pc \in Live
  /\ closed' \in {closed, IF req[h].pc = "closing" THEN closed \cup {req[h].run} ELSE closed}
  /\ req' = [req EXCEPT ![h].pc = "raised"]
  /\ lock' = IF lock = h THEN NoRequest ELSE lock
  /\ UNCHANGED <<run, disk, current, crashes>>

ReloadedBug(rec) == rec
\* _recover_runs: a command that was executing is now of unknown outcome.
Reloaded(rec) ==
  [rec EXCEPT !.outcome =
     [c \in Comments |-> IF @[c] = "executing" THEN "unknown" ELSE @[c]]]

(* The process dies and comes up again: the records are read from disk, the   *)
(* evidence is what was appended.  load_all keeps one record per issue, in    *)
(* directory order, and _recover_runs looks at that record only: its          *)
(* executing commands become unknown if any record of the issue is live.      *)
Crash ==
  /\ crashes < MaxCrashes
  /\ crashes' = crashes + 1
  /\ LET born == {r \in Runs : run[r].state # Unborn}
         anyLive == \E r \in born : disk[r].state \notin TerminalStates
     IN  \E r0 \in IF born = {} THEN {NoRun} ELSE born :
           LET back == [r \in Runs |-> IF r = r0 /\ anyLive THEN Reloaded(disk[r])
                                       ELSE disk[r]]
           IN  /\ current' = r0
               /\ disk' = back
               /\ run' = [r \in Runs |-> [back[r] EXCEPT !.seen = run[r].seen,
                                                         !.last = run[r].last]]
  /\ lock' = NoRequest
  /\ req' = [h \in Requests |->
               IF req[h].pc \in Live THEN [req[h] EXCEPT !.pc = "lost"] ELSE req[h]]
  /\ UNCHANGED closed

TypeOK ==
  /\ run \in [Runs -> RunRecord] /\ disk \in [Runs -> RunRecord]
  /\ current \in Runs \cup {NoRun}
  /\ lock \in Requests \cup {NoRequest}
  /\ req \in [Requests -> Frame]
  /\ closed \subseteq Runs
  /\ crashes \in 0..MaxCrashes

(* ------------------------------ specification ---------------------------- *)

Init ==
  /\ run = [r \in Runs |-> BlankRun] /\ disk = run
  /\ current = NoRun /\ lock = NoRequest
  /\ req = [h \in Requests |-> IdleFrame]
  /\ closed = {} /\ crashes = 0

Arrive(h) == \E m \in Messages : StartIssue(h, m) \/ HandleComment(h, m)

Proceed(h) ==
  \/ \E r \in Runs : CreateRun(h, r)
  \/ RefuseRun(h) \/ Triaged(h)
  \/ Investigating(h) \/ TasksBuilt(h) \/ GraphValidated(h)
  \/ WaveDone(h) \/ WaveRefused(h) \/ RootCauseFound(h) \/ Diagnosed(h)
  \/ Planning(h) \/ \E p \in Plans : PlanMade(h, p)
  \/ Executing(h) \/ \E e \in Execution \ {"none"} : Recovered(h, e)
  \/ RecoveryUnknown(h) \/ HandedOff(h)
  \/ Verifying(h) \/ Verified(h) \/ NotVerified(h) \/ Announced(h) \/ IssueClosed(h)
  \/ RcaLabelled(h) \/ RcaSynthesized(h) \/ ActionsFiled(h)
  \/ ExtraTaskMade(h) \/ Returned(h)

Next == (\E h \in Requests : Arrive(h) \/ Proceed(h) \/ CallFails(h)) \/ Crash

Spec == Init /\ [][Next]_vars

\* asyncio runs every ready coroutine and every awaited call has a timeout.
FairSpec == Spec /\ \A h \in Requests : WF_vars(Proceed(h))

===============================================================================
