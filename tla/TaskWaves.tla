------------------------------- MODULE TaskWaves -------------------------------
(* The wave loop of Orchestrator._investigate (opsswarm/orchestrator.py) with *)
(* the budget of the run (RunBudget) and the limiter of the specialist calls  *)
(* (ConcurrencyLimiter).  Two commands on one run are two coroutines in this  *)
(* loop: they share the tasks, the findings and the budget; each has its own  *)
(* limiter.  Every task of a wave is a coroutine of its own, one(t).          *)
EXTENDS Naturals, FiniteSets, FiniteSetsExt

CONSTANTS
  Investigators,   \* coroutines in _investigate
  Graph,           \* the tasks of S2, validated
  Extra,           \* tasks an investigate command may add, not validated
  Deps,            \* [Graph \cup Extra -> SUBSET task ids], depends_on
  MaxTasks, MaxCalls,   \* the budget
  MaxParallel,     \* max_parallel_specialists
  TasksMayFail

Tasks == Graph \cup Extra

ASSUME TaskWavesConstants ==
  /\ Graph \cap Extra = {} /\ IsFiniteSet(Tasks)
  /\ \A t \in Graph : Deps[t] \subseteq Graph
  /\ MaxTasks \in Nat /\ MaxCalls \in Nat /\ MaxParallel \in Nat \ {0}
  /\ Cardinality(Graph) <= MaxTasks
  /\ TasksMayFail \in BOOLEAN

VARIABLES
  tasks, findings,     \* run.tasks and the tasks run.findings names
  executed, calls,     \* tasks_executed and openclaw_calls
  pc,                  \* [Investigators -> where the coroutine is]
  pending, done,       \* its local variables
  one                  \* [Investigators -> [Tasks -> stage of one(t)]]
vars == <<tasks, findings, executed, calls, pc, pending, done, one>>

Ended == {"synthesized", "asked", "raised"}
\* "queued" waits for the limiter, "refused" returned None, "returned" has a
\* finding the gather has not handed over.
Stage == {"none", "created", "queued", "running", "refused", "returned", "failed"}

TypeOK ==
  /\ tasks \subseteq Tasks /\ findings \subseteq Tasks
  /\ executed \in 0..MaxTasks /\ calls \in Nat
  /\ pc \in [Investigators -> {"idle", "loop", "gather"} \cup Ended]
  /\ pending \in [Investigators -> SUBSET Tasks]
  /\ done \in [Investigators -> SUBSET Tasks]
  /\ one \in [Investigators -> [Tasks -> Stage]]

\* One budget per run, whoever asks for it first.
FreshBudget == executed = 0 /\ calls = 0

Init ==
  /\ tasks = Graph /\ findings = {} /\ FreshBudget
  /\ pc = [i \in Investigators |-> "idle"]
  /\ pending = [i \in Investigators |-> {}] /\ done = [i \in Investigators |-> {}]
  /\ one = [i \in Investigators |-> [t \in Tasks |-> "none"]]

(* --------------------------------- budget --------------------------------- *)

\* RunBudget.check.  The clock, the tokens and the steps are left out: they only
\* make it refuse earlier.  A form named ...Bug is what a check must notice.
ExceededBug == calls >= MaxCalls
Exceeded == executed >= MaxTasks \/ calls >= MaxCalls

\* Room for tasks left: available.
Available == IF executed >= MaxTasks THEN 0 ELSE MaxTasks - executed

(* ------------------------------- the loop --------------------------------- *)

At(i, label) == pc' = [pc EXCEPT ![i] = label]
ReadyBug(i) == pending[i]
Ready(i) == {t \in pending[i] : Deps[t] \subseteq done[i]}

\* With nothing ready to gather the loop goes round without an await: no other
\* coroutine of the process takes a step any more.
Spinning == \E i \in Investigators :
              pc[i] = "loop" /\ pending[i] # {} /\ Ready(i) # {} /\ Available = 0

\* _investigate up to the loop; an investigate command brings a task of its own.
Start(i) ==
  /\ pc[i] = "idle" /\ ~Spinning
  /\ \E x \in {{}} \cup {{t} : t \in Extra \ tasks} :
       /\ tasks' = tasks \cup x
       /\ pending' = [pending EXCEPT ![i] = (tasks \cup x) \ findings]
  /\ done' = [done EXCEPT ![i] = findings]
  /\ At(i, "loop") /\ UNCHANGED <<findings, executed, calls, one>>

\* No task is ready: the graph has unsatisfied dependencies.
RaiseUnsatisfied(i) ==
  /\ pc[i] = "loop" /\ pending[i] # {} /\ Ready(i) = {} /\ ~Spinning
  /\ At(i, "raised")
  /\ UNCHANGED <<tasks, findings, executed, calls, pending, done, one>>

\* gather of the first `available` ready tasks.
Gather(i) ==
  LET n == Min({Cardinality(Ready(i)), Available})
  IN  /\ pc[i] = "loop" /\ ~Spinning /\ n > 0
      /\ \E wave \in kSubset(n, Ready(i)) :
           one' = [one EXCEPT ![i] = [t \in Tasks |-> IF t \in wave THEN "created" ELSE @[t]]]
      /\ At(i, "gather")
      /\ UNCHANGED <<tasks, findings, executed, calls, pending, done>>

RemainingBug(i, got) == Ready(i) \ got
Remaining(i, got) == pending[i] \ got
Returned(i) == {t \in Tasks : one[i][t] = "returned"}

\* Every task of the wave returned: the findings are saved, the loop goes on.
Gathered(i) ==
  LET got == Returned(i)
  IN  /\ pc[i] = "gather" /\ ~Spinning
      /\ \A t \in Tasks : one[i][t] \in {"none", "refused", "returned"}
      /\ findings' = findings \cup got
      /\ done' = [done EXCEPT ![i] = @ \cup got]
      /\ pending' = [pending EXCEPT ![i] = Remaining(i, got)]
      /\ one' = [one EXCEPT ![i] = [t \in Tasks |-> "none"]]
      /\ At(i, "loop") /\ UNCHANGED <<tasks, executed, calls>>

\* One task raised: gather raises, its siblings are not cancelled.
GatherRaises(i) ==
  /\ pc[i] = "gather" /\ ~Spinning /\ \E t \in Tasks : one[i][t] = "failed"
  /\ At(i, "raised")
  /\ UNCHANGED <<tasks, findings, executed, calls, pending, done, one>>

\* The loop is over: the preflight of the synthesis, and the synthesis.
Synthesize(i) ==
  /\ pc[i] = "loop" /\ pending[i] = {} /\ ~Spinning
  /\ \/ Exceeded /\ At(i, "asked") /\ UNCHANGED calls
     \/ ~Exceeded /\ At(i, "synthesized") /\ calls' = calls + 1
  /\ UNCHANGED <<tasks, findings, executed, pending, done, one>>

(* --------------------------------- one(t) --------------------------------- *)

Staged(i, t, stage) == one' = [one EXCEPT ![i][t] = stage]
Running(i) == {t \in Tasks : one[i][t] = "running"}

\* The preflight and mark_task have no await between them.
Begin(i, t) ==
  /\ one[i][t] = "created" /\ ~Spinning
  /\ \/ Exceeded /\ Staged(i, t, "refused") /\ UNCHANGED executed
     \/ ~Exceeded /\ Staged(i, t, "queued") /\ executed' = executed + 1
  /\ UNCHANGED <<tasks, findings, calls, pc, pending, done>>

\* The slot of a task that failed is never given back.
SlotFreeBug(i) ==
  Cardinality({t \in Tasks : one[i][t] \in {"running", "failed"}}) < MaxParallel
SlotFree(i) == Cardinality(Running(i)) < MaxParallel

AcquireSlot(i, t) ==
  /\ one[i][t] = "queued" /\ SlotFree(i) /\ ~Spinning /\ Staged(i, t, "running")
  /\ UNCHANGED <<tasks, findings, executed, calls, pc, pending, done>>

Execute(i, t) ==
  /\ one[i][t] = "running" /\ ~Spinning
  /\ \/ Staged(i, t, "returned") /\ calls' = calls + 1
     \/ TasksMayFail /\ Staged(i, t, "failed") /\ UNCHANGED calls
  /\ UNCHANGED <<tasks, findings, executed, pc, pending, done>>

OneSteps(i, t) == Begin(i, t) \/ AcquireSlot(i, t) \/ Execute(i, t)
LoopSteps(i) ==
  RaiseUnsatisfied(i) \/ Gather(i) \/ Gathered(i) \/ GatherRaises(i) \/ Synthesize(i)

Next ==
  \E i \in Investigators :
    Start(i) \/ LoopSteps(i) \/ \E t \in Tasks : OneSteps(i, t)

Spec == Init /\ [][Next]_vars

\* asyncio runs what is ready, and a specialist call has a timeout.
Fairness ==
  \A i \in Investigators :
    /\ WF_vars(LoopSteps(i))
    /\ \A t \in Tasks : WF_vars(OneSteps(i, t))

(* -------------------------------- properties ------------------------------ *)

\* The specialist of a task runs only when every task it depends on has its
\* finding in the run, in whatever order the waves of two commands interleave.
DependenciesFirst ==
  \A i \in Investigators : \A t \in Running(i) : Deps[t] \subseteq findings

\* The synthesis of a root cause sees a finding for every task the run had
\* when its investigation began, refused and failed siblings notwithstanding.
SynthesisComplete ==
  [][\A i \in Investigators : pc'[i] = "synthesized" /\ pc[i] # "synthesized" =>
       Graph \subseteq findings]_vars

\* What the specialists at work and their answers amount to for the run.
Outcome(i) ==
  CASE pc[i] = "synthesized" -> "synthesized"
    [] pc[i] \in {"asked", "raised"} \/ \E t \in Tasks : one[i][t] = "failed" -> "over"
    [] OTHER -> "open"

Promise == INSTANCE Investigation WITH
  working <- [i \in Investigators |-> Running(i)],
  answers <- [i \in Investigators |-> Returned(i)],
  outcome <- [i \in Investigators |-> Outcome(i)]

\* The loops keep what an investigation promises: dependencies first, no more
\* specialists at a time than the limiter has slots, no finding lost and none
\* from a wave that failed, and a synthesis that sees the whole graph.
Investigated == Promise!Spec

\* What gather started comes to an end: a slot is given back by a task that
\* fails, also after its gather has raised, unless the loop spins.
OnesEnd ==
  \A i \in Investigators, t \in Tasks :
    one[i][t] \in {"created", "queued"} ~>
      one[i][t] \notin {"created", "queued"} \/ Spinning

===============================================================================
