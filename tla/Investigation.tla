------------------------------ MODULE Investigation ------------------------------
(* What the investigations of a run (Orchestrator._investigate) promise,       *)
(* however many commands investigate at once: the specialist of a task is      *)
(* asked when every task it depends on has its finding in the run, and by no   *)
(* more than so many at a time; a finding, once there, stays; an investigation *)
(* of which a specialist failed hands nothing over; and a root cause is        *)
(* synthesized from a finding of every task of the graph.  Waves, budget and   *)
(* what an investigation remembers are left to TaskWaves.                      *)
EXTENDS Naturals, FiniteSets

CONSTANTS
  Investigators, Graph, Extra, Deps,
  MaxParallel        \* specialists one investigation may have at work

Tasks == Graph \cup Extra

VARIABLES
  findings,          \* the tasks the run has findings of
  working, answers,  \* [Investigators -> SUBSET Tasks], asked and not handed over
  outcome            \* [Investigators -> {"open", "synthesized", "over"}]
investigation == <<findings, working, answers, outcome>>

Nothing == [i \in Investigators |-> {}]

Init ==
  /\ findings = {} /\ working = Nothing /\ answers = Nothing
  /\ outcome = [i \in Investigators |-> "open"]

Ask(i, t) ==
  /\ outcome[i] # "synthesized" /\ t \notin working[i] \cup answers[i]
  /\ Deps[t] \subseteq findings /\ Cardinality(working[i]) < MaxParallel
  /\ working' = [working EXCEPT ![i] = @ \cup {t}]
  /\ UNCHANGED <<findings, answers, outcome>>

Answer(i, t) ==
  /\ t \in working[i]
  /\ working' = [working EXCEPT ![i] = @ \ {t}]
  /\ answers' = [answers EXCEPT ![i] = @ \cup {t}]
  /\ UNCHANGED <<findings, outcome>>

Fail(i, t) ==
  /\ t \in working[i]
  /\ working' = [working EXCEPT ![i] = @ \ {t}]
  /\ outcome' = [outcome EXCEPT ![i] = "over"]
  /\ UNCHANGED <<findings, answers>>

HandOver(i) ==
  /\ outcome[i] = "open" /\ working[i] = {}
  /\ findings' = findings \cup answers[i]
  /\ answers' = [answers EXCEPT ![i] = {}]
  /\ UNCHANGED <<working, outcome>>

\* The one way to a root cause, and the ways out without one.
End(i) ==
  /\ outcome[i] = "open" /\ working[i] = {} /\ answers[i] = {}
  /\ \/ Graph \subseteq findings /\ outcome' = [outcome EXCEPT ![i] = "synthesized"]
     \/ outcome' = [outcome EXCEPT ![i] = "over"]
  /\ UNCHANGED <<findings, working, answers>>

Next ==
  \E i \in Investigators :
    \/ HandOver(i) \/ End(i)
    \/ \E t \in Tasks : Ask(i, t) \/ Answer(i, t) \/ Fail(i, t)

Spec == Init /\ [][Next]_investigation

===============================================================================
