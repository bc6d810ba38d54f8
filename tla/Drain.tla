--------------------------------- MODULE Drain ---------------------------------
(* ReadinessManager (opsswarm/runtime.py) and the handlers of opsswarm/api.py *)
(* it counts, from the start of a process to its end.  A dispatch is a webhook *)
(* request whose handler starts one background task, or none.  The bodies     *)
(* under the asyncio lock await nothing, so each method is one step.  What    *)
(* _record_abandoned writes (a marker in the run store, a checkpoint and an   *)
(* evidence record) is the label in abandoned.                                *)
EXTENDS Integers, FiniteSets, Sequences

CONSTANTS
  Dispatches,
  Unlabelled,          \* the name of an abandoned dispatch that has no label
  MayAbandon           \* whether the drain deadline may pass, a kill may come

ASSUME DrainConstants ==
  IsFiniteSet(Dispatches) /\ Unlabelled \notin Dispatches /\ MayAbandon \in BOOLEAN

VARIABLES
  process,    \* "up", "closing" (the loop cancels what is left) or "down"
  drain,      \* "no", "waiting", "complete" or "timedOut"
  inflight, drained,   \* _inflight, and whether the event _drained is set
  handler,    \* [Dispatches -> stage of the request handler]
  task,       \* [Dispatches -> stage of its background task]
  labels,     \* _labels: the tasks whose done callback has not run, oldest first
  abandoned   \* abandoned_dispatches
drainVars == <<process, drain, inflight, drained, handler, task, labels, abandoned>>

HandlerStage == {"idle", "refused", "accepted", "dispatched", "ended"}
\* A task that ended still has its done callback to run: "finished",
\* "cancelled" after it had started, "unstarted" when cancelled before.
TaskStage == {"none", "created", "running", "finished", "cancelled", "unstarted", "gone"}

DrainTypeOK ==
  /\ process \in {"up", "closing", "down"}
  /\ drain \in {"no", "waiting", "complete", "timedOut"}
  /\ inflight \in 0..(2 * Cardinality(Dispatches)) /\ drained \in BOOLEAN
  /\ handler \in [Dispatches -> HandlerStage] /\ task \in [Dispatches -> TaskStage]
  /\ labels \in Seq(Dispatches) /\ abandoned \subseteq Dispatches \cup {Unlabelled}

DrainInit ==
  /\ process = "up" /\ drain = "no" /\ inflight = 0 /\ drained = TRUE
  /\ handler = [d \in Dispatches |-> "idle"] /\ task = [d \in Dispatches |-> "none"]
  /\ labels = <<>> /\ abandoned = {}

(* ------------------------------ the counter ------------------------------- *)

\* A form named ...Bug is what a check must notice.
TrackBug == inflight' = inflight + 1 /\ UNCHANGED drained
TrackBug2 == inflight' = inflight + 2 /\ drained' = FALSE
\* _track_dispatch and begin_dispatch.
Track == inflight' = inflight + 1 /\ drained' = FALSE

ReleaseBug == IF inflight = 0 THEN UNCHANGED <<inflight, drained>>
              ELSE inflight' = inflight - 1 /\ UNCHANGED drained
\* _release_inflight.
Release ==
  IF inflight = 0 THEN UNCHANGED <<inflight, drained>>
  ELSE inflight' = inflight - 1 /\ drained' = (drained \/ inflight = 1)

Same == UNCHANGED <<inflight, drained>>

(* ------------------------- handlers (check_draining) ---------------------- *)

Handle(d, stage) == handler' = [handler EXCEPT ![d] = stage]

Begin(d) ==
  /\ process = "up" /\ handler[d] = "idle"
  /\ \/ drain # "no" /\ Handle(d, "refused") /\ Same
     \/ drain = "no" /\ Handle(d, "accepted") /\ Track
  /\ UNCHANGED <<process, drain, task, labels, abandoned>>

\* start_background_dispatch, with no look at the drain gate.
StartBackground(d) ==
  /\ process = "up" /\ handler[d] = "accepted"
  /\ Handle(d, "dispatched") /\ Track
  /\ task' = [task EXCEPT ![d] = "created"] /\ labels' = Append(labels, d)
  /\ UNCHANGED <<process, drain, abandoned>>

\* The handler returns, or raised before it started anything.
EndHandler(d) ==
  /\ process # "down" /\ handler[d] \in {"accepted", "dispatched"}
  /\ Handle(d, "ended") /\ Release
  /\ UNCHANGED <<process, drain, task, labels, abandoned>>

(* ----------------------------- background tasks --------------------------- *)

Tasked(d, stage) == task' = [task EXCEPT ![d] = stage]

\* The first step of run().
Run(d) ==
  /\ process = "up" /\ task[d] = "created" /\ Tasked(d, "running") /\ Same
  /\ UNCHANGED <<process, drain, handler, labels, abandoned>>

\* The finally of run() gives the slot back.
Finish(d) ==
  /\ process = "up" /\ task[d] = "running" /\ Tasked(d, "finished") /\ Release
  /\ UNCHANGED <<process, drain, handler, labels, abandoned>>

\* Cancelled before its first step, run() never enters its try.
CancelTask(d) ==
  /\ process # "down"
  /\ \/ task[d] = "created" /\ Tasked(d, "unstarted") /\ Same
     \/ task[d] = "running" /\ Tasked(d, "cancelled") /\ Release
  /\ UNCHANGED <<process, drain, handler, labels, abandoned>>

CallbackReleasesBug(stage) == FALSE
\* release_once: only a task that never started still holds its slot.
CallbackReleases(stage) == stage = "unstarted"

\* complete(): the done callback.
Complete(d) ==
  /\ process # "down" /\ task[d] \in {"finished", "cancelled", "unstarted"}
  /\ Tasked(d, "gone") /\ labels' = SelectSeq(labels, LAMBDA e : e # d)
  /\ IF CallbackReleases(task[d]) THEN Release ELSE Same
  /\ abandoned' = IF task[d] = "cancelled" THEN abandoned \cup {d} ELSE abandoned
  /\ UNCHANGED <<process, drain, handler>>

(* ---------------------------- drain and shutdown -------------------------- *)

InitiateDrain ==
  /\ process = "up" /\ drain = "no"
  /\ drain' = IF inflight = 0 THEN "complete" ELSE "waiting"
  /\ drained' = (drained \/ inflight = 0)
  /\ UNCHANGED <<process, inflight, handler, task, labels, abandoned>>

Drained ==
  /\ drain = "waiting" /\ drained /\ drain' = "complete"
  /\ UNCHANGED <<process, inflight, drained, handler, task, labels, abandoned>>

\* The deadline passes: the first `remaining` labels are recorded, the rest of
\* the slots without a label.
DeadlinePasses ==
  LET named == {labels[i] : i \in 1..(IF inflight < Len(labels) THEN inflight
                                       ELSE Len(labels))}
  IN  /\ MayAbandon /\ drain = "waiting" /\ drain' = "timedOut"
      /\ abandoned' = abandoned \cup named
           \cup (IF inflight > Len(labels) THEN {Unlabelled} ELSE {})
      /\ UNCHANGED <<process, inflight, drained, handler, task, labels>>

\* After the shutdown hook the server closes the loop, which cancels what is left.
CloseLoop ==
  /\ process = "up" /\ drain \in {"complete", "timedOut"} /\ process' = "closing"
  /\ UNCHANGED <<drain, inflight, drained, handler, task, labels, abandoned>>

\* The process ends by itself, or by SIGKILL once the grace period is over.
Exit ==
  /\ \/ /\ process = "closing"
        /\ \A d \in Dispatches : task[d] \in {"none", "gone"}
     \/ MayAbandon /\ process # "down" /\ drain # "no"
  /\ process' = "down"
  /\ UNCHANGED <<drain, inflight, drained, handler, task, labels, abandoned>>

HandlerSteps(d) == Begin(d) \/ StartBackground(d) \/ EndHandler(d)
TaskSteps(d) == Run(d) \/ Finish(d) \/ CancelTask(d) \/ Complete(d)

DrainNext ==
  \/ \E d \in Dispatches : HandlerSteps(d) \/ TaskSteps(d)
  \/ InitiateDrain \/ Drained \/ DeadlinePasses \/ CloseLoop \/ Exit

DrainSpec == DrainInit /\ [][DrainNext]_drainVars

\* asyncio runs what is ready; an accepted request and its task come to an end.
DrainFairness ==
  /\ WF_drainVars(Drained)
  /\ \A d \in Dispatches :
       /\ WF_drainVars(EndHandler(d)) /\ WF_drainVars(Complete(d))
       /\ WF_drainVars(Run(d) \/ CancelTask(d)) /\ WF_drainVars(Finish(d) \/ CancelTask(d))

(* -------------------------------- properties ------------------------------ *)

HandlersInFlight == {d \in Dispatches : handler[d] \in {"accepted", "dispatched"}}
TasksInFlight == {d \in Dispatches : task[d] \in {"created", "running", "unstarted"}}

\* The counter is the number of accepted handlers and tasks that have not ended,
\* under every cancellation: no slot is given back twice and none is kept.
InflightExact ==
  /\ inflight = Cardinality(HandlersInFlight) + Cardinality(TasksInFlight)
  /\ drained <=> inflight = 0

\* When the drain reports that it is complete, nothing that was accepted is
\* running, and nothing starts any more.
CompleteMeansIdle ==
  drain = "complete" => HandlersInFlight = {} /\ TasksInFlight = {}

\* A drain whose work ends comes to an end before its deadline, unless the
\* process is killed: no cancelled release strands it.
DrainEnds == drain = "waiting" ~> drain # "waiting" \/ process = "down"

===============================================================================
