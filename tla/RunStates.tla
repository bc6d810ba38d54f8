------------------------------ MODULE RunStates ------------------------------
(* The lifecycle of one incident run: its states, the table of transitions   *)
(* the documentation calls valid, and what RunRecord.transition does with a  *)
(* request in each of the three enforcement modes (opsswarm/models.py).      *)

RunState ==
  {"OPEN", "TRIAGE", "INVESTIGATING", "DIAGNOSED", "PLANNING", "EXECUTING",
   "VERIFYING", "WAITING_APPROVAL", "WAITING_DECISION", "WAITING_INPUT",
   "RESOLVED", "FAILED", "ABORTED", "PLAN_RCA", "PLAN_RCA_RESOLVED"}

TerminalStates == {"FAILED", "ABORTED", "PLAN_RCA_RESOLVED"}

WaitingStates == {"WAITING_APPROVAL", "WAITING_DECISION", "WAITING_INPUT"}

\* The states a run is left in when nothing is working on it any more.
RestStates == TerminalStates \cup WaitingStates \cup {"RESOLVED"}

ValidTransitions ==
  [s \in RunState |->
    CASE s = "OPEN"             -> {"TRIAGE"}
      [] s = "TRIAGE"           -> {"INVESTIGATING", "FAILED", "ABORTED"}
      [] s = "INVESTIGATING"    -> {"DIAGNOSED", "WAITING_INPUT", "FAILED", "ABORTED"}
      [] s = "DIAGNOSED"        -> {"PLANNING", "WAITING_INPUT", "FAILED", "ABORTED"}
      [] s = "PLANNING"         -> {"EXECUTING", "FAILED", "ABORTED"} \cup WaitingStates
      [] s = "EXECUTING"        -> {"VERIFYING", "WAITING_DECISION", "FAILED", "ABORTED"}
      [] s = "VERIFYING"        -> {"RESOLVED", "FAILED", "ABORTED"}
      [] s = "WAITING_APPROVAL" -> {"PLANNING", "EXECUTING", "ABORTED"}
      [] s = "WAITING_DECISION" -> {"PLANNING", "EXECUTING", "INVESTIGATING", "ABORTED"}
      [] s = "WAITING_INPUT"    -> {"DIAGNOSED", "INVESTIGATING", "ABORTED"}
      [] s = "RESOLVED"         -> {"PLAN_RCA", "PLAN_RCA_RESOLVED"}
      [] s = "FAILED"           -> {"INVESTIGATING", "ABORTED"} \cup WaitingStates
      [] s = "PLAN_RCA"         -> {"PLAN_RCA_RESOLVED", "ABORTED"}
      [] s \in {"ABORTED", "PLAN_RCA_RESOLVED"} -> {}]

EnforcementModes == {"audit", "strict", "disabled"}

\* A check must notice this form: terminal states left to the audit log.
TransitionAllowedBug(mode, from, to) ==
  mode = "strict" /\ from \notin TerminalStates => to \in ValidTransitions[from]

(* RunRecord.transition raises InvalidStateTransition only in strict mode;    *)
(* in audit mode it logs and assigns, in disabled mode it just assigns.       *)
TransitionAllowed(mode, from, to) ==
  mode = "strict" => to \in ValidTransitions[from]

==============================================================================
