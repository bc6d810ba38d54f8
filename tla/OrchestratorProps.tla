--------------------------- MODULE OrchestratorProps ---------------------------
(* What the orchestrator promises about the runs of one issue.  The first     *)
(* part holds of the code; the second part states what a document or comment  *)
(* of the repository says and the code does not do.                           *)
EXTENDS Orchestrator

Alive(h) == req[h].pc \in Live
Acted(h) == req[h].pc \notin {"idle", "ignored"}

\* A delivery id reaches a run once: of two requests that carry the same
\* delivery to the same run all but one are skipped (idempotency_keys are
\* saved before the command is obeyed), through crashes too.
DeliveredOnce ==
  \A h, i \in Requests :
    /\ h # i /\ Acted(h) /\ Acted(i)
    /\ req[h].run = req[i].run /\ req[h].run # NoRun
    => req[h].msg.delivery # req[i].msg.delivery \/ req[h].msg.delivery = NoDelivery

\* A comment is recorded as confirmed only when a request with that comment has
\* come to its end: one that raised, or that a crash cut off, is never
\* confirmed, in memory or on disk.
ConfirmedRan ==
  \A r \in Runs, c \in Comments :
    run[r].outcome[c] = "confirmed" \/ disk[r].outcome[c] = "confirmed" =>
      \E h \in Requests : /\ req[h].pc = "done" /\ req[h].run = r
                          /\ req[h].msg.comment = c

\* After a restart no comment of the live issue is left as "executing" when
\* nobody is executing it and nothing raised: what the crash cut off is unknown.
\* _recover_runs looks at live runs only, so a run that was over once, and was
\* resumed, may still have such a comment from a crash in that state.
NeverOver(r) == \A s \in TerminalStates : <<"state", s>> \notin run[r].seen
ExecutingHasOwner ==
  current # NoRun /\ NeverOver(current) =>
    \A c \in Comments : run[current].outcome[c] = "executing" =>
      \E h \in Requests : /\ req[h].pc \in Live \cup {"raised"}
                          /\ req[h].run = current /\ req[h].msg.comment = c

\* The recovery agent is called only for an option a maintainer approved and
\* the policy does not deny, or for the single option of a plan whose label the
\* policy runs automatically; free text, provide and investigate never choose it.
ExecutionAuthorized ==
  \A h \in Requests : req[h].called =>
    \/ /\ req[h].msg.name = "approve" /\ req[h].option = req[h].msg.option
       /\ req[h].msg.permission \in {"maintain", "admin"} /\ ~Denied(req[h].option)
    \/ /\ Action(Label[req[h].option]) = "AUTO"
       /\ \E p \in Plans : p.options = <<req[h].option>>

\* The state of a run moves only in a step of a coroutine that was started by
\* the label or by a command its author may give; comments that are free text
\* or lack the permission never move it.
OnlyAuthorityMoves ==
  [][\A r \in Runs : run'[r].state # run[r].state =>
       Crash \/ \E h \in Requests :
         /\ req'[h] # req[h] \/ req[h].pc = "wave"
         /\ req'[h].run = r /\ req'[h].pc # "ignored"
         /\ \/ req'[h].msg.name = "start"
            \/ req'[h].msg.name \in {"approve", "reject", "abort"}
               /\ req'[h].msg.permission \in {"maintain", "admin"}
            \/ req'[h].msg.name \in {"provide", "investigate", "resume"}
               /\ req'[h].msg.permission # "none"]_vars

\* A confirmed comment stays confirmed, in memory and on disk: no later request
\* and no restart makes it runnable again.
ConfirmedIsFinal ==
  [][\A r \in Runs, c \in Comments :
       /\ run[r].outcome[c] = "confirmed" => run'[r].outcome[c] = "confirmed"
       /\ disk[r].outcome[c] = "confirmed" => disk'[r].outcome[c] = "confirmed"]_vars

\* The run and the comment whose command h obeys: every command but resume is
\* confirmed when it returns.
Accountable == CommandNames \ {"resume"}
Obeying(h) ==
  IF Alive(h) /\ req[h].msg.name \in Accountable
  THEN <<req[h].run, req[h].msg.comment>> ELSE <<>>

Ledger == INSTANCE CommandLedger WITH
  outcome <- [r \in Runs |-> disk[r].outcome],
  keys <- [r \in Runs |-> disk[r].keys],
  obeying <- [h \in Requests |-> Obeying(h)]

\* What the run store says of deliveries and commands is a ledger: coroutines
\* that interleave, calls that fail and restarts confirm no command that did
\* not return, and take no delivery and no confirmed comment a second time.
Accounted == Ledger!Spec

\* When no request is under way and none raised or was lost, the run rests in a
\* state that waits for somebody or is over, however the coroutines that worked
\* on it interleaved: no run is left behind in a working state.
QuiescentAtRest ==
  current # NoRun /\ (\A h \in Requests : req[h].pc \in {"idle", "ignored", "done"})
    => run[current].state \in RestStates \ {"RESOLVED"}

\* A run that waits for an approval or for input has an open question for it.
GateHasQuestion ==
  \A r \in Runs : run[r].state \in {"WAITING_APPROVAL", "WAITING_INPUT"} =>
    run[r].decision = "pending"

\* At most one start request is inside `async with lock`, and it is the holder:
\* no two coroutines create runs for the issue at the same time.
StartsSerialized ==
  \A h \in Requests : Alive(h) /\ req[h].msg.name = "start" => lock = h

\* The GitHub issue is closed only for a run that has been through VERIFYING
\* and RESOLVED (A9 of ARCHITECTURE.md), and whose recovery agent was called
\* by some request.
ClosedOnlyAfterVerification ==
  \A r \in closed :
    /\ {<<"state", "VERIFYING">>, <<"state", "RESOLVED">>} \subseteq run[r].seen
    /\ \E h \in Requests : req[h].run = r /\ req[h].called

\* With strict enforcement an aborted run and a run whose RCA is complete stay so.
FinalIsFinal ==
  [][\A r \in Runs : run[r].state \in {"ABORTED", "PLAN_RCA_RESOLVED"} =>
       run'[r].state = run[r].state]_vars

\* Every request that has begun comes to an end: it returns, or it raises.
RequestsEnd ==
  \A h \in Requests : Alive(h) ~> req[h].pc \in Ends

(* --------------- what is said of the program and does not hold -------------- *)

\* ADR-009-5: of two approvals of one run only the first executes.
OneApprovalExecutes ==
  \A h, i \in Requests :
    /\ h # i /\ req[h].run = req[i].run
    /\ req[h].msg # NoMessage /\ req[h].msg.name = "approve" /\ req[h].pc = "recovery"
    => ~(req[i].msg.name = "approve" /\ req[i].pc = "recovery")

===============================================================================
