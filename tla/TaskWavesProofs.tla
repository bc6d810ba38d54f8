---------------------------- MODULE TaskWavesProofs ----------------------------
(* Dependencies run first and a synthesis sees every task, for any number of  *)
(* investigations, tasks, waves and slots.  What makes both inductive: a done *)
(* set never runs ahead of the shared findings, a task is gathered only when  *)
(* its dependencies are in that set, and no task of the graph is forgotten    *)
(* between pending and findings.  The same invariant shows that the loops     *)
(* implement Investigation: an idle or looping coroutine has no tasks at      *)
(* work, so what it hands over is the whole wave.                             *)
EXTENDS TaskWaves, WellFoundedInduction, TLAPS

\* What an investigation knows and what it has started.
Sound(i) ==
  /\ done[i] \subseteq findings
  /\ pc[i] \notin {"gather", "raised"} => \A t \in Tasks : one[i][t] = "none"
  /\ \A t \in Tasks : one[i][t] # "none" => Deps[t] \subseteq done[i]
  /\ pc[i] \in {"loop", "gather"} => Graph \subseteq pending[i] \cup done[i]

IInv == TypeOK /\ Graph \subseteq tasks /\ \A i \in Investigators : Sound(i)

-------------------------------------------------------------------------------

LEMMA InitIInv == Init => IInv
<1> SUFFICES ASSUME Init PROVE IInv
  OBVIOUS
<1>1. Graph \subseteq Tasks
  BY DEF Tasks
<1>2. TypeOK
  BY <1>1, TaskWavesConstants DEF Init, FreshBudget, TypeOK, Stage
<1> QED BY <1>1, <1>2 DEF Init, FreshBudget, IInv, Sound

\* A step of one(t) leaves alone what the loop knows.
LEMMA StagedKeeps ==
  ASSUME IInv, NEW i \in Investigators, NEW t \in Tasks, NEW stage \in Stage,
         one[i][t] # "none", Staged(i, t, stage),
         executed' \in 0..MaxTasks, calls' \in Nat,
         UNCHANGED <<tasks, findings, pc, pending, done>>
  PROVE  IInv'
<1>1. one' \in [Investigators -> [Tasks -> Stage]]
  BY DEF IInv, TypeOK, Staged
<1>2. \A j \in Investigators, u \in Tasks :
        one'[j][u] = IF j = i /\ u = t THEN stage ELSE one[j][u]
  BY DEF IInv, TypeOK, Staged
<1>3. \A j \in Investigators, u \in Tasks : one'[j][u] # "none" => one[j][u] # "none"
  BY <1>2
<1>4. pc[i] \in {"gather", "raised"}
  BY DEF IInv, Sound
<1>5. TypeOK'
  BY <1>1 DEF IInv, TypeOK
<1>6. ASSUME NEW j \in Investigators
      PROVE  Sound(j)'
  BY <1>2, <1>3, <1>4 DEF IInv, Sound
<1> QED BY <1>5, <1>6 DEF IInv

LEMMA OneStepsKeep ==
  ASSUME IInv, NEW i \in Investigators, NEW t \in Tasks, OneSteps(i, t)
  PROVE  IInv'
<1>0. executed \in 0..MaxTasks /\ calls \in Nat /\ MaxTasks \in Nat
  BY TaskWavesConstants DEF IInv, TypeOK
<1>1. CASE Begin(i, t)
  <2>1. executed' \in 0..MaxTasks
    BY <1>0, <1>1 DEF Begin, Exceeded
  <2> QED BY <1>0, <1>1, <2>1, StagedKeeps DEF Begin, Stage
<1>2. CASE AcquireSlot(i, t)
  BY <1>0, <1>2, StagedKeeps DEF AcquireSlot, Stage
<1>3. CASE Execute(i, t)
  <2>1. calls' \in Nat
    BY <1>0, <1>3 DEF Execute
  <2> QED BY <1>0, <1>3, <2>1, StagedKeeps DEF Execute, Stage
<1> QED BY <1>1, <1>2, <1>3 DEF OneSteps

\* A step of the loop that only moves the coroutine out of it.
LEMMA LeavesLoop ==
  ASSUME IInv, NEW i \in Investigators, NEW label \in Ended, At(i, label), calls' \in Nat,
         UNCHANGED <<tasks, findings, executed, pending, done, one>>,
         label = "raised" \/ \A t \in Tasks : one[i][t] = "none"
  PROVE  IInv'
<1>1. /\ pc' \in [Investigators -> {"idle", "loop", "gather"} \cup Ended]
      /\ \A j \in Investigators : pc'[j] = IF j = i THEN label ELSE pc[j]
  BY DEF IInv, TypeOK, At
<1>2. TypeOK'
  BY <1>1 DEF IInv, TypeOK
<1>3. ASSUME NEW j \in Investigators
      PROVE  Sound(j)'
  BY <1>1 DEF IInv, Sound, Ended
<1> QED BY <1>2, <1>3 DEF IInv

\* A step of one investigation that gives it new local variables.
Moved(i, label, p, f) ==
  /\ pc' = [pc EXCEPT ![i] = label] /\ pending' = [pending EXCEPT ![i] = p]
  /\ done' = [done EXCEPT ![i] = f]

\* Tasks are at work only for a gather, and only with what they depend on done.
Allowed(label, f, o) ==
  \A t \in Tasks : o[t] # "none" => label = "gather" /\ Deps[t] \subseteq f

LEMMA MovedKeeps ==
  ASSUME IInv, NEW i \in Investigators, NEW label \in {"loop", "gather"},
         NEW p \in SUBSET Tasks, NEW f \in SUBSET Tasks, Moved(i, label, p, f),
         NEW o \in [Tasks -> Stage], one' = [one EXCEPT ![i] = o],
         tasks' \subseteq Tasks, tasks \subseteq tasks',
         findings' \subseteq Tasks, findings \subseteq findings',
         UNCHANGED <<executed, calls>>,
         f \subseteq findings', Graph \subseteq p \cup f,
         Allowed(label, f, o)
  PROVE  IInv'
<1>1. /\ pc' \in [Investigators -> {"idle", "loop", "gather"} \cup Ended]
      /\ pending' \in [Investigators -> SUBSET Tasks]
      /\ done' \in [Investigators -> SUBSET Tasks]
      /\ one' \in [Investigators -> [Tasks -> Stage]]
  BY DEF IInv, TypeOK, Moved
<1>2. /\ pc'[i] = label /\ pending'[i] = p /\ done'[i] = f /\ one'[i] = o
      /\ \A j \in Investigators \ {i} :
           /\ pc'[j] = pc[j] /\ pending'[j] = pending[j]
           /\ done'[j] = done[j] /\ one'[j] = one[j]
  BY DEF IInv, TypeOK, Moved
<1>3. TypeOK'
  BY <1>1 DEF IInv, TypeOK
<1>4. Sound(i)'
  BY <1>2 DEF Sound, Allowed
<1>5. ASSUME NEW j \in Investigators \ {i}
      PROVE  Sound(j)'
  BY <1>2 DEF IInv, Sound
<1>6. Graph \subseteq tasks'
  BY DEF IInv
<1> QED BY <1>3, <1>4, <1>5, <1>6 DEF IInv

LEMMA StartKeeps ==
  ASSUME IInv, NEW i \in Investigators, Start(i)
  PROVE  IInv'
<1>1. PICK x \in {{}} \cup {{t} : t \in Extra \ tasks} :
        /\ tasks' = tasks \cup x
        /\ pending' = [pending EXCEPT ![i] = (tasks \cup x) \ findings]
  BY DEF Start
<1>2. x \subseteq Tasks
  BY <1>1 DEF Tasks
<1>3. Moved(i, "loop", (tasks \cup x) \ findings, findings)
  BY <1>1 DEF Start, At, Moved
<1>4. one[i] \in [Tasks -> Stage] /\ one' = [one EXCEPT ![i] = one[i]]
  BY DEF Start, IInv, TypeOK
<1>5. Allowed("loop", findings, one[i])
  BY DEF Start, IInv, Sound, Allowed
<1>6. /\ tasks \cup x \subseteq Tasks /\ findings \in SUBSET Tasks
      /\ Graph \subseteq ((tasks \cup x) \ findings) \cup findings
  BY <1>2 DEF IInv, TypeOK
<1>7. findings' = findings /\ UNCHANGED <<executed, calls>> /\ tasks' = tasks \cup x
  BY <1>1 DEF Start
<1> QED BY <1>3, <1>4, <1>5, <1>6, <1>7, MovedKeeps

LEMMA GatherKeeps ==
  ASSUME IInv, NEW i \in Investigators, Gather(i)
  PROVE  IInv'
<1>1. PICK wave \in SUBSET Ready(i) :
        one' = [one EXCEPT ![i] = [t \in Tasks |-> IF t \in wave THEN "created"
                                                    ELSE one[i][t]]]
  BY DEF Gather, kSubset
<1> DEFINE o == [t \in Tasks |-> IF t \in wave THEN "created" ELSE one[i][t]]
<1>2. o \in [Tasks -> Stage]
  BY DEF IInv, TypeOK, Stage
<1>3. Allowed("gather", done[i], o)
  BY <1>1 DEF IInv, Sound, Ready, Allowed
<1>4. Moved(i, "gather", pending[i], done[i])
  BY DEF Gather, At, Moved, IInv, TypeOK
<1>5. /\ pending[i] \in SUBSET Tasks /\ done[i] \in SUBSET Tasks
      /\ done[i] \subseteq findings /\ Graph \subseteq pending[i] \cup done[i]
      /\ findings \subseteq Tasks /\ tasks \subseteq Tasks
  BY DEF Gather, IInv, TypeOK, Sound
<1>6. UNCHANGED <<tasks, findings, executed, calls>>
  BY DEF Gather
<1> HIDE DEF o
<1>7. one' = [one EXCEPT ![i] = o]
  BY <1>1 DEF o
<1> QED BY <1>2, <1>3, <1>4, <1>5, <1>6, <1>7, MovedKeeps

LEMMA GatheredKeeps ==
  ASSUME IInv, NEW i \in Investigators, Gathered(i)
  PROVE  IInv'
<1> DEFINE got == Returned(i)
           o == [t \in Tasks |-> "none"]
<1>1. Moved(i, "loop", pending[i] \ got, done[i] \cup got)
  BY DEF Gathered, At, Moved, Remaining, IInv, TypeOK
<1>2. o \in [Tasks -> Stage] /\ one' = [one EXCEPT ![i] = o]
  BY DEF Gathered, Stage
<1>3. /\ pending[i] \in SUBSET Tasks /\ done[i] \in SUBSET Tasks
      /\ done[i] \subseteq findings /\ Graph \subseteq pending[i] \cup done[i]
      /\ findings \subseteq Tasks /\ tasks \subseteq Tasks
  BY DEF Gathered, IInv, TypeOK, Sound
<1>4. findings' = findings \cup got /\ UNCHANGED <<tasks, executed, calls>>
  BY DEF Gathered
<1>5. Allowed("loop", done[i] \cup got, o)
  BY DEF Allowed
<1> HIDE DEF o
<1>6. got \subseteq Tasks
  BY DEF Returned
<1> HIDE DEF got
<1>7. /\ pending[i] \ got \in SUBSET Tasks /\ done[i] \cup got \in SUBSET Tasks
      /\ done[i] \cup got \subseteq findings'
      /\ Graph \subseteq (pending[i] \ got) \cup (done[i] \cup got)
      /\ findings' \subseteq Tasks /\ findings \subseteq findings'
      /\ tasks' \subseteq Tasks /\ tasks \subseteq tasks'
  BY <1>3, <1>4, <1>6
<1> QED BY <1>1, <1>2, <1>4, <1>5, <1>7, MovedKeeps

LEMMA NextKeeps ==
  ASSUME IInv, [Next]_vars
  PROVE  IInv'
<1>1. CASE UNCHANGED vars
  BY <1>1 DEF vars, IInv, TypeOK, Sound
<1>2. ASSUME NEW i \in Investigators, RaiseUnsatisfied(i) \/ GatherRaises(i)
      PROVE  IInv'
  BY <1>2, LeavesLoop DEF RaiseUnsatisfied, GatherRaises, Ended, IInv, TypeOK
<1>3. ASSUME NEW i \in Investigators, Synthesize(i)
      PROVE  IInv'
  BY <1>3, LeavesLoop DEF Synthesize, Ended, IInv, TypeOK, Sound
<1> QED BY <1>1, <1>2, <1>3, StartKeeps, GatherKeeps, GatheredKeeps, OneStepsKeep
        DEF Next, LoopSteps

THEOREM Invariant == Spec => []IInv
<1>1. Init => IInv
  BY InitIInv
<1>2. IInv /\ [Next]_vars => IInv'
  BY NextKeeps
<1> QED BY <1>1, <1>2, PTL DEF Spec

\* The task budget is never exceeded, and every variable of the loop has its type.
THEOREM TypeCorrect == Spec => []TypeOK
<1>1. IInv => TypeOK
  BY DEF IInv
<1> QED BY <1>1, Invariant, PTL

\* one(t) runs only after the tasks in t.depends_on have their findings.
THEOREM DependenciesRunFirst == Spec => []DependenciesFirst
<1>1. IInv => DependenciesFirst
  <2> SUFFICES ASSUME IInv, NEW i \in Investigators, NEW t \in Running(i)
               PROVE  Deps[t] \subseteq findings
    BY DEF DependenciesFirst
  <2>1. t \in Tasks /\ one[i][t] # "none"
    BY DEF Running
  <2> QED BY <2>1 DEF IInv, Sound
<1> QED BY <1>1, Invariant, PTL

\* synthesize_root_cause is called with a finding for every task of the graph.
THEOREM SynthesisIsComplete == Spec => SynthesisComplete
<1> DEFINE Synthesized == \A i \in Investigators :
             pc'[i] = "synthesized" /\ pc[i] # "synthesized" => Graph \subseteq findings
<1>1. ASSUME IInv, Next
      PROVE  Synthesized
  <2> SUFFICES ASSUME NEW i \in Investigators, pc'[i] = "synthesized",
                      pc[i] # "synthesized"
               PROVE  Graph \subseteq findings
    OBVIOUS
  <2>1. PICK j \in Investigators : Start(j) \/ LoopSteps(j) \/ \E t \in Tasks : OneSteps(j, t)
    BY <1>1 DEF Next
  <2>2. pc \in [Investigators -> {"idle", "loop", "gather"} \cup Ended]
    BY <1>1 DEF IInv, TypeOK
  <2>3. ASSUME NEW label, At(j, label)
        PROVE  i = j /\ label = "synthesized"
    BY <2>2, <2>3 DEF At
  <2>4. Synthesize(j)
    BY <2>1, <2>2, <2>3 DEF Start, LoopSteps, RaiseUnsatisfied, Gather, Gathered, GatherRaises,
                      OneSteps, Begin, AcquireSlot, Execute
  <2>5. i = j
    BY <2>3, <2>4 DEF Synthesize
  <2> QED BY <1>1, <2>4, <2>5 DEF Synthesize, IInv, Sound
<1>2. IInv /\ [Next]_vars => [Synthesized]_vars
  BY <1>1
<1> QED BY <1>2, Invariant, PTL DEF Spec, SynthesisComplete

-------------------------------------------------------------------------------
(* The loops implement Investigation.                                          *)

LEMMA PromiseInit == Init => Promise!Init
<1> SUFFICES ASSUME Init PROVE Promise!Init
  OBVIOUS
<1>1. \A i \in Investigators :
        Running(i) = {} /\ Returned(i) = {} /\ Outcome(i) = "open"
  BY DEF Init, Running, Returned, Outcome
<1> QED BY <1>1 DEF Init, Promise!Init, Promise!Nothing

\* What a step of one(t) shows of its investigation, and of the others.
LEMMA StagedShows ==
  ASSUME IInv, NEW i \in Investigators, NEW t \in Tasks, NEW stage \in Stage,
         Staged(i, t, stage), UNCHANGED pc
  PROVE  /\ Running(i)' = IF stage = "running" THEN Running(i) \cup {t} ELSE Running(i) \ {t}
         /\ Returned(i)' = IF stage = "returned" THEN Returned(i) \cup {t}
                                                ELSE Returned(i) \ {t}
         /\ one[i][t] # "failed" /\ stage # "failed" => Outcome(i)' = Outcome(i)
         /\ stage = "failed" /\ pc[i] \in {"gather", "raised"} => Outcome(i)' = "over"
         /\ \A j \in Investigators \ {i} :
              /\ Running(j)' = Running(j) /\ Returned(j)' = Returned(j)
              /\ Outcome(j)' = Outcome(j)
<1>1. \A j \in Investigators, u \in Tasks :
        one'[j][u] = IF j = i /\ u = t THEN stage ELSE one[j][u]
  BY DEF IInv, TypeOK, Staged
<1>2. /\ Running(i)' = IF stage = "running" THEN Running(i) \cup {t} ELSE Running(i) \ {t}
      /\ Returned(i)' = IF stage = "returned" THEN Returned(i) \cup {t}
                                              ELSE Returned(i) \ {t}
  BY <1>1 DEF Running, Returned
<1>3. one[i][t] # "failed" /\ stage # "failed" => Outcome(i)' = Outcome(i)
  BY <1>1 DEF Outcome
<1>4. stage = "failed" /\ pc[i] \in {"gather", "raised"} => Outcome(i)' = "over"
  BY <1>1 DEF Outcome
<1>5. ASSUME NEW j \in Investigators \ {i}
      PROVE  /\ Running(j)' = Running(j) /\ Returned(j)' = Returned(j)
             /\ Outcome(j)' = Outcome(j)
  BY <1>1 DEF Running, Returned, Outcome
<1> QED BY <1>2, <1>3, <1>4, <1>5

LEMMA OneStepsPromise ==
  ASSUME IInv, NEW i \in Investigators, NEW t \in Tasks, OneSteps(i, t)
  PROVE  [Promise!Next]_(Promise!investigation)
<1>0. /\ one[i][t] # "none" => pc[i] \in {"gather", "raised"}
      /\ one[i][t] # "none" => Deps[t] \subseteq findings
  BY DEF IInv, Sound
<1>1. CASE Begin(i, t)
  <2>1. PICK stage \in {"refused", "queued"} : Staged(i, t, stage)
    BY <1>1 DEF Begin
  <2>2. t \notin Running(i) /\ t \notin Returned(i) /\ one[i][t] # "failed"
    BY <1>1 DEF Begin, Running, Returned
  <2>3. \A j \in Investigators :
          Running(j)' = Running(j) /\ Returned(j)' = Returned(j) /\ Outcome(j)' = Outcome(j)
    BY <1>1, <2>1, <2>2, StagedShows DEF Begin, Stage
  <2> QED BY <1>1, <2>3 DEF Begin, Promise!investigation
<1>2. CASE AcquireSlot(i, t)
  <2>1. t \notin Running(i) /\ t \notin Returned(i) /\ one[i][t] # "failed"
    BY <1>2 DEF AcquireSlot, Running, Returned
  <2>2. /\ Running(i)' = Running(i) \cup {t}
        /\ \A j \in Investigators \ {i} : Running(j)' = Running(j)
        /\ \A j \in Investigators : Returned(j)' = Returned(j) /\ Outcome(j)' = Outcome(j)
    <3>1. /\ Running(i)' = Running(i) \cup {t} /\ Returned(i)' = Returned(i) \ {t}
          /\ Outcome(i)' = Outcome(i)
          /\ \A j \in Investigators \ {i} :
               /\ Running(j)' = Running(j) /\ Returned(j)' = Returned(j)
               /\ Outcome(j)' = Outcome(j)
      BY <1>2, <2>1, StagedShows DEF AcquireSlot, Stage
    <3>2. Returned(i)' = Returned(i)
      BY <2>1, <3>1
    <3> QED BY <3>1, <3>2
  <2>3. Outcome(i) # "synthesized"
    BY <1>0, <1>2 DEF AcquireSlot, Outcome
  <2>4. Deps[t] \subseteq findings /\ Cardinality(Running(i)) < MaxParallel
    BY <1>0, <1>2 DEF AcquireSlot, SlotFree
  <2>5. [j \in Investigators |-> Running(j)]'
          = [[j \in Investigators |-> Running(j)] EXCEPT ![i] = Running(i) \cup {t}]
    BY <2>2
  <2>6. Promise!Ask(i, t)
    <3>1. UNCHANGED <<findings, [j \in Investigators |-> Returned(j)],
                      [j \in Investigators |-> Outcome(j)]>>
      BY <1>2, <2>2 DEF AcquireSlot
    <3>2. Promise!Cardinality(Running(i)) = Cardinality(Running(i))
      BY DEF Cardinality, Promise!Cardinality
    <3>3. /\ [j \in Investigators |-> Running(j)][i] = Running(i)
          /\ [j \in Investigators |-> Returned(j)][i] = Returned(i)
          /\ [j \in Investigators |-> Outcome(j)][i] = Outcome(i)
      OBVIOUS
    <3> QED BY <2>1, <2>3, <2>4, <2>5, <3>1, <3>2, <3>3 DEF Promise!Ask
  <2> QED BY <2>6 DEF Promise!Next, Promise!Tasks, Tasks
<1>3. CASE Execute(i, t)
  <2>1. t \in Running(i) /\ t \notin Returned(i) /\ one[i][t] # "failed"
    BY <1>3 DEF Execute, Running, Returned
  <2>2. CASE Staged(i, t, "returned")
    <3>1. /\ Running(i)' = Running(i) \ {t} /\ Returned(i)' = Returned(i) \cup {t}
          /\ \A j \in Investigators \ {i} :
               Running(j)' = Running(j) /\ Returned(j)' = Returned(j)
          /\ \A j \in Investigators : Outcome(j)' = Outcome(j)
      BY <1>3, <2>1, <2>2, StagedShows DEF Execute, Stage
    <3>2. Promise!Answer(i, t)
      BY <1>3, <2>1, <3>1 DEF Execute, Promise!Answer
    <3> QED BY <3>2 DEF Promise!Next, Promise!Tasks, Tasks
  <2>3. CASE Staged(i, t, "failed")
    <3>1. /\ Running(i)' = Running(i) \ {t}
          /\ \A j \in Investigators \ {i} :
               Running(j)' = Running(j) /\ Outcome(j)' = Outcome(j)
          /\ \A j \in Investigators : Returned(j)' = Returned(j)
          /\ Outcome(i)' = "over"
      BY <1>0, <1>3, <2>1, <2>3, StagedShows DEF Execute, Stage
    <3>2. Promise!Fail(i, t)
      BY <1>3, <2>1, <3>1 DEF Execute, Promise!Fail
    <3> QED BY <3>2 DEF Promise!Next, Promise!Tasks, Tasks
  <2> QED BY <1>3, <2>2, <2>3 DEF Execute
<1> QED BY <1>1, <1>2, <1>3 DEF OneSteps

\* A step of a coroutine that leaves the tasks at work alone.
LEMMA MoveShows ==
  ASSUME IInv, NEW i \in Investigators, NEW label, At(i, label), UNCHANGED one
  PROVE  /\ \A j \in Investigators : Running(j)' = Running(j) /\ Returned(j)' = Returned(j)
         /\ \A j \in Investigators \ {i} : Outcome(j)' = Outcome(j)
         /\ pc'[i] = label
<1>1. pc'[i] = label /\ \A j \in Investigators \ {i} : pc'[j] = pc[j]
  BY DEF IInv, TypeOK, At
<1> QED BY <1>1 DEF Running, Returned, Outcome

LEMMA RestsIn ==
  ASSUME IInv, NEW i \in Investigators, pc[i] \in {"idle", "loop"}
  PROVE  Running(i) = {} /\ Returned(i) = {} /\ Outcome(i) = "open"
BY DEF IInv, Sound, Running, Returned, Outcome

LEMMA LoopStepsPromise ==
  ASSUME IInv, NEW i \in Investigators, Start(i) \/ LoopSteps(i)
  PROVE  [Promise!Next]_(Promise!investigation)
<1>1. CASE Start(i)
  <2>1. /\ \A j \in Investigators : Running(j)' = Running(j) /\ Returned(j)' = Returned(j)
        /\ \A j \in Investigators \ {i} : Outcome(j)' = Outcome(j)
        /\ pc'[i] = "loop"
    BY <1>1, MoveShows DEF Start
  <2>2. Outcome(i) = "open" /\ Outcome(i)' = "open"
    BY <1>1, <2>1, RestsIn DEF Start, IInv, Sound, Outcome
  <2> QED BY <1>1, <2>1, <2>2 DEF Start, Promise!investigation
<1>2. CASE RaiseUnsatisfied(i)
  <2>1. /\ \A j \in Investigators : Running(j)' = Running(j) /\ Returned(j)' = Returned(j)
        /\ \A j \in Investigators \ {i} : Outcome(j)' = Outcome(j)
        /\ pc'[i] = "raised"
    BY <1>2, MoveShows DEF RaiseUnsatisfied
  <2>2. Outcome(i)' = "over"
    BY <2>1 DEF Outcome
  <2>3. Running(i) = {} /\ Returned(i) = {} /\ Outcome(i) = "open"
    BY <1>2, RestsIn DEF RaiseUnsatisfied
  <2>4. Promise!End(i)
    BY <1>2, <2>1, <2>2, <2>3 DEF RaiseUnsatisfied, Promise!End
  <2> QED BY <2>4 DEF Promise!Next
<1>3. CASE Gather(i)
  <2>1. PICK wave \in SUBSET Ready(i) :
          one' = [one EXCEPT ![i] = [t \in Tasks |-> IF t \in wave THEN "created"
                                                      ELSE one[i][t]]]
    BY <1>3 DEF Gather, kSubset
  <2>2. \A t \in Tasks : one[i][t] = "none"
    BY <1>3 DEF Gather, IInv, Sound
  <2>3. /\ \A t \in Tasks : one'[i][t] \in {"none", "created"}
        /\ \A j \in Investigators \ {i} : one'[j] = one[j]
    BY <2>1, <2>2 DEF IInv, TypeOK
  <2>4. pc'[i] = "gather" /\ \A j \in Investigators \ {i} : pc'[j] = pc[j]
    BY <1>3 DEF Gather, At, IInv, TypeOK
  <2>5. Running(i)' = {} /\ Returned(i)' = {} /\ Outcome(i)' = "open"
    BY <2>3, <2>4 DEF Running, Returned, Outcome
  <2>6. Running(i) = {} /\ Returned(i) = {} /\ Outcome(i) = "open"
    BY <1>3, RestsIn DEF Gather
  <2>7. \A j \in Investigators \ {i} :
          Running(j)' = Running(j) /\ Returned(j)' = Returned(j) /\ Outcome(j)' = Outcome(j)
    BY <2>3, <2>4 DEF Running, Returned, Outcome
  <2> QED BY <1>3, <2>5, <2>6, <2>7 DEF Gather, Promise!investigation
<1>4. CASE Gathered(i)
  <2>1. /\ \A t \in Tasks : one'[i][t] = "none"
        /\ \A j \in Investigators \ {i} : one'[j] = one[j]
    BY <1>4 DEF Gathered, IInv, TypeOK
  <2>2. pc'[i] = "loop" /\ \A j \in Investigators \ {i} : pc'[j] = pc[j]
    BY <1>4 DEF Gathered, At, IInv, TypeOK
  <2>3. Running(i)' = {} /\ Returned(i)' = {} /\ Outcome(i)' = "open"
    BY <2>1, <2>2 DEF Running, Returned, Outcome
  <2>4. Running(i) = {} /\ Outcome(i) = "open"
    BY <1>4 DEF Gathered, Running, Outcome
  <2>5. \A j \in Investigators \ {i} :
          Running(j)' = Running(j) /\ Returned(j)' = Returned(j) /\ Outcome(j)' = Outcome(j)
    BY <2>1, <2>2 DEF Running, Returned, Outcome
  <2>6. findings' = findings \cup Returned(i)
    BY <1>4 DEF Gathered
  <2>7. Promise!HandOver(i)
    BY <2>3, <2>4, <2>5, <2>6 DEF Promise!HandOver
  <2> QED BY <2>7 DEF Promise!Next
<1>5. CASE GatherRaises(i)
  <2>1. /\ \A j \in Investigators : Running(j)' = Running(j) /\ Returned(j)' = Returned(j)
        /\ \A j \in Investigators \ {i} : Outcome(j)' = Outcome(j)
        /\ pc'[i] = "raised"
    BY <1>5, MoveShows DEF GatherRaises
  <2>2. Outcome(i) = "over" /\ Outcome(i)' = "over"
    BY <1>5, <2>1 DEF GatherRaises, Outcome
  <2> QED BY <1>5, <2>1, <2>2 DEF GatherRaises, Promise!investigation
<1>6. CASE Synthesize(i)
  <2>1. PICK label \in {"asked", "synthesized"} : At(i, label)
    BY <1>6 DEF Synthesize
  <2>2. /\ \A j \in Investigators : Running(j)' = Running(j) /\ Returned(j)' = Returned(j)
        /\ \A j \in Investigators \ {i} : Outcome(j)' = Outcome(j)
        /\ pc'[i] = label
    BY <1>6, <2>1, MoveShows DEF Synthesize
  <2>3. Running(i) = {} /\ Returned(i) = {} /\ Outcome(i) = "open"
    BY <1>6, RestsIn DEF Synthesize
  <2>4. Graph \subseteq findings
    BY <1>6 DEF Synthesize, IInv, Sound
  <2>5. Outcome(i)' \in {"synthesized", "over"}
    BY <2>2 DEF Outcome
  <2>6. Promise!End(i)
    BY <1>6, <2>2, <2>3, <2>4, <2>5 DEF Synthesize, Promise!End
  <2> QED BY <2>6 DEF Promise!Next
<1> QED BY <1>1, <1>2, <1>3, <1>4, <1>5, <1>6 DEF LoopSteps

\* _investigate keeps what an investigation promises, however many commands
\* investigate at once: dependencies first, at most MaxParallel specialists at
\* a time, no finding lost, and a synthesis that sees the whole graph.
THEOREM LoopsInvestigate == Spec => Investigated
<1>1. IInv /\ [Next]_vars => [Promise!Next]_(Promise!investigation)
  <2>1. CASE UNCHANGED vars
    BY <2>1 DEF vars, Promise!investigation, Running, Returned, Outcome
  <2> QED BY <2>1, OneStepsPromise, LoopStepsPromise DEF Next
<1> QED BY <1>1, PromiseInit, Invariant, PTL DEF Spec, Investigated, Promise!Spec

-------------------------------------------------------------------------------
(* A graph that is accepted is never stuck.                                    *)

\* What validation establishes of a graph: the tasks have a place in an order
\* in which every task comes after what it depends on.
Ranked(rank) ==
  /\ rank \in [Tasks -> Nat]
  /\ \A t \in Tasks : /\ Deps[t] \subseteq Graph
                      /\ \A d \in Deps[t] : rank[d] < rank[t]

\* The loop that has tasks left has one that is ready.
AlwaysReady == \A i \in Investigators : pc[i] = "loop" /\ pending[i] # {} => Ready(i) # {}

\* Of the tasks that are left one has the lowest rank.
LEMMA LowestRank ==
  ASSUME NEW rank \in [Tasks -> Nat], NEW S \in SUBSET Tasks, S # {}
  PROVE  \E t \in S : \A u \in S : ~(rank[u] < rank[t])
<1> DEFINE Below(m, n) == m < n
           R == {rank[t] : t \in S}
<1>1. IsWellFoundedOn(OpToRel(Below, Nat), Nat)
  BY NatLessThanWellFounded
<1>2. R \subseteq Nat /\ R # {}
  OBVIOUS
<1>3. PICK n \in R : \A m \in R : ~(<<m, n>> \in OpToRel(Below, Nat))
  BY <1>1, <1>2, WFMin
<1>4. \A m \in R : ~(m < n)
  BY <1>2, <1>3 DEF OpToRel
<1> QED BY <1>4

\* With a validated graph the loop never raises "unsatisfied dependencies", in
\* whatever order waves return and whatever the other investigations find.
THEOREM AcceptedIsNeverStuck ==
  ASSUME NEW rank, Ranked(rank)
  PROVE  Spec => []AlwaysReady
<1>1. ASSUME IInv, NEW i \in Investigators, pc[i] = "loop", pending[i] # {}
      PROVE  Ready(i) # {}
  <2>1. pending[i] \in SUBSET Tasks /\ Graph \subseteq pending[i] \cup done[i]
    BY <1>1 DEF IInv, TypeOK, Sound
  <2>2. PICK t \in pending[i] : \A u \in pending[i] : ~(rank[u] < rank[t])
    BY <1>1, <2>1, LowestRank DEF Ranked
  <2>3. Deps[t] \subseteq done[i]
    BY <2>1, <2>2 DEF Ranked
  <2> QED BY <2>3 DEF Ready
<1>2. IInv => AlwaysReady
  BY <1>1 DEF AlwaysReady
<1> QED BY <1>2, Invariant, PTL

===============================================================================
