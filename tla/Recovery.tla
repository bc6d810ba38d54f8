-------------------------------- MODULE Recovery --------------------------------
(* The run records of one issue, on disk and in memory, over the processes    *)
(* that serve it one after the other: FileStore (opsswarm/store.py), the      *)
(* record a process holds for the issue (Orchestrator.runs), the markers that *)
(* ReadinessManager writes for work it gives up (opsswarm/runtime.py), and    *)
(* ReconciliationManager with _recover_runs at the next start.  Between two   *)
(* awaits a coroutine is alone in its process, but a kill may come between    *)
(* any two writes.  A save is atomic (a temporary file, then os.replace): a   *)
(* kill leaves the old file or the new one.                                   *)
EXTENDS Naturals, FiniteSets

CONSTANTS
  Starts,       \* webhook deliveries that open the issue; a run is named after one
  Comments,     \* command comments, each with the delivery that brings it
  Markers,      \* names of DISPATCH- records
  Opened,       \* the label of the background tasks, issue:<n>:opened
  NoRecord,
  MaxKills      \* bound on the processes that are killed

Records == Starts \cup Markers

ASSUME RecoveryConstants ==
  /\ IsFiniteSet(Starts) /\ IsFiniteSet(Markers) /\ Starts \cap Markers = {}
  /\ Cardinality(Starts) <= Cardinality(Markers)
  /\ Opened \notin Comments /\ NoRecord \notin Records /\ MaxKills \in Nat

VARIABLES
  process,     \* "up", "draining", "late" (deadline passed), "closing" or "down"
  kills,
  disk, mem,   \* [Records -> contents or Nothing]: <id>.json, and the object here
  kept,        \* [{"checkpoint", "evidence"} -> records that have such a file]
  held,        \* runs[number] of this process
  start,       \* [Starts -> stage of its background task]
  command,     \* [Comments -> [stage, run]]: its handler and the object it uses
  todo,        \* background tasks the process still has to record as abandoned
  writing,     \* the step of _record_abandoned that comes next, and its record
  reported,    \* ghost: the records that hold the marks of abandoned_dispatches
  answered     \* ghost: <<comment, record>> of every handler that returned
vars == <<process, kills, disk, mem, kept, held, start, command, todo, writing,
          reported, answered>>

Nothing == [state |-> "nothing"]
Names == Comments \cup {Opened}
Outcome == {"none", "received", "executing", "confirmed", "unknown"}
\* A run is "over" in FAILED, ABORTED and PLAN_RCA_RESOLVED.
State == {"open", "over"}
Contents == [state : State, outcome : [Names -> Outcome]]
\* A form named ...Bug is what a check must notice.
BlankBug == [state |-> "open", outcome |-> [n \in Comments |-> "none"]]
Blank == [state |-> "open", outcome |-> [n \in Names |-> "none"]]
Idle == [stage |-> "idle", run |-> NoRecord]

OnDisk == {r \in Records : disk[r] # Nothing}
Live(s) == start[s] \in {"asking", "working"}
Tasked(s) == Live(s) \/ start[s] = "created"
InFlight == (\E s \in Starts : Tasked(s))
            \/ \E c \in Comments : command[c].stage \in {"received", "resuming", "executing"}

TypeOK ==
  /\ process \in {"up", "draining", "late", "closing", "down"} /\ kills \in 0..MaxKills
  /\ disk \in [Records -> Contents \cup {Nothing}]
  /\ mem \in [Records -> Contents \cup {Nothing}]
  /\ kept \in [{"checkpoint", "evidence"} -> SUBSET Records]
  /\ held \in Records \cup {NoRecord}
  /\ start \in [Starts -> {"idle", "created", "asking", "working", "cancelled", "ended"}]
  /\ command \in [Comments ->
       [stage : {"idle", "received", "resuming", "executing", "ended"},
        run : Records \cup {NoRecord}]]
  /\ todo \subseteq Starts
  /\ writing \in [step : {"none", "checkpoint", "evidence"}, record : Records \cup {NoRecord}]
  /\ reported \subseteq Records /\ answered \subseteq Comments \X Records

Init ==
  /\ process = "up" /\ kills = 0 /\ held = NoRecord
  /\ disk = [r \in Records |-> Nothing] /\ mem = [r \in Records |-> Nothing]
  /\ kept = [k \in {"checkpoint", "evidence"} |-> {}]
  /\ start = [s \in Starts |-> "idle"] /\ command = [c \in Comments |-> Idle]
  /\ todo = {} /\ writing = [step |-> "none", record |-> NoRecord]
  /\ reported = {} /\ answered = {}

(* ---------------------------------- store --------------------------------- *)

\* FileStore.save of the object of record r.
Save(r, contents) ==
  /\ mem' = [mem EXCEPT ![r] = contents] /\ disk' = [disk EXCEPT ![r] = contents]

Marked(contents, name, outcome) == [contents EXCEPT !.outcome[name] = outcome]

(* --------------------- background tasks: start_issue ---------------------- *)

\* While _record_abandoned is at work nothing else of the process runs.
Recording == todo # {} \/ writing.step # "none"
Serving == process \in {"up", "draining", "late"} /\ ~Recording
Staged(s, stage) == start' = [start EXCEPT ![s] = stage]

\* By a webhook handler that passed the drain gate, now or before the drain.
Dispatch(s) ==
  /\ Serving /\ start[s] = "idle" /\ Staged(s, "created")
  /\ UNCHANGED <<process, kills, disk, mem, kept, held, command, todo, writing,
                 reported, answered>>

\* Under the lock of the issue: return the run that is there, or ask GitHub.  A
\* new run replaces one in FAILED or ABORTED, never one in PLAN_RCA_RESOLVED.
StartIssue(s) ==
  /\ Serving /\ start[s] = "created" /\ \A t \in Starts : ~Live(t)
  /\ \/ held # NoRecord /\ Staged(s, "ended")
     \/ (held # NoRecord => mem[held].state = "over") /\ Staged(s, "asking")
  /\ UNCHANGED <<process, kills, disk, mem, kept, held, command, todo, writing,
                 reported, answered>>

\* A run of its own, or the required label is missing.
CreateRun(s) ==
  /\ Serving /\ start[s] = "asking"
  /\ \/ Save(s, Blank) /\ held' = s /\ Staged(s, "working")
     \/ Staged(s, "ended") /\ UNCHANGED <<disk, mem, held>>
  /\ UNCHANGED <<process, kills, kept, command, todo, writing, reported, answered>>

\* One of the saves on the way through the incident, or the last of them.
Work(s) ==
  /\ Serving /\ start[s] = "working"
  /\ \E state \in State, stage \in {"working", "ended"} :
       Save(s, [mem[s] EXCEPT !.state = state]) /\ Staged(s, stage)
  /\ UNCHANGED <<process, kills, kept, held, command, todo, writing, reported, answered>>

(* ------------------------ handlers: handle_comment ------------------------ *)

Commanded(c, stage, r) == command' = [command EXCEPT ![c] = [stage |-> stage, run |-> r]]

\* A delivery the run knows already is dropped, and so is a command to a run
\* that is over, except resume.
Receive(c) ==
  /\ Serving /\ command[c].stage = "idle"
  /\ held # NoRecord /\ mem[held].outcome[c] = "none"
  /\ Save(held, Marked(mem[held], c, "received"))
  /\ \E stage \in {"received", "resuming"} :
       (stage = "received" => mem[held].state = "open") /\ Commanded(c, stage, held)
  /\ UNCHANGED <<process, kills, kept, held, start, todo, writing, reported, answered>>

\* Every command but resume marks that it executes.
Execute(c) ==
  LET r == command[c].run
  IN  /\ Serving /\ command[c].stage = "received"
      /\ Save(r, Marked(mem[r], c, "executing")) /\ Commanded(c, "executing", r)
      /\ UNCHANGED <<process, kills, kept, held, start, todo, writing, reported, answered>>

\* One of the saves on the way through the command.
Advance(c) ==
  LET r == command[c].run
  IN  /\ Serving /\ command[c].stage \in {"resuming", "executing"}
      /\ \E state \in State : Save(r, [mem[r] EXCEPT !.state = state])
      /\ UNCHANGED <<process, kills, kept, held, start, command, todo, writing,
                     reported, answered>>

Confirm(c) ==
  LET r == command[c].run
  IN  /\ Serving /\ command[c].stage = "executing"
      /\ Save(r, Marked(mem[r], c, "confirmed")) /\ Commanded(c, "ended", r)
      /\ answered' = answered \cup {<<c, r>>}
      /\ UNCHANGED <<process, kills, kept, held, start, todo, writing, reported>>

\* A step of the command raised, or resume returned.
EndCommand(c) ==
  /\ Serving /\ command[c].stage \in {"received", "resuming", "executing"}
  /\ Commanded(c, "ended", command[c].run)
  /\ UNCHANGED <<process, kills, disk, mem, kept, held, start, todo, writing,
                 reported, answered>>

(* -------------------- abandoned work: _record_abandoned ------------------- *)

InitiateDrain ==
  /\ process = "up" /\ ~Recording /\ process' = "draining"
  /\ UNCHANGED <<kills, disk, mem, kept, held, start, command, todo, writing,
                 reported, answered>>

\* The tasks in flight are recorded one by one.  A handler has no label and no
\* issue: its marker belongs to no incident and is left out.
DeadlinePasses ==
  /\ process = "draining" /\ InFlight /\ process' = "late"
  /\ todo' = {s \in Starts : Tasked(s)}
  /\ UNCHANGED <<kills, disk, mem, kept, held, start, command, writing, reported, answered>>

\* The drain is over, and with it the event loop: it cancels what is left.  The
\* callback of a task that had started records it.
CloseLoop ==
  /\ process = "late" \/ (process = "draining" /\ ~InFlight)
  /\ ~Recording /\ process' = "closing"
  /\ todo' = {s \in Starts : Live(s)}
  /\ start' = [s \in Starts |-> IF Tasked(s) THEN "cancelled" ELSE start[s]]
  /\ command' = [c \in Comments |-> IF command[c].stage = "idle" THEN Idle
                                    ELSE [command[c] EXCEPT !.stage = "ended"]]
  /\ UNCHANGED <<kills, disk, mem, kept, held, writing, reported, answered>>

FreshMarkers == Markers \ OnDisk

\* With persist_accepted also at the deadline, the mark goes to a run in use.
TargetsBug(s) == IF OnDisk # {} THEN OnDisk ELSE {s}
\* The record _record_abandoned writes to.  A callback passes persist_accepted:
\* it takes the first record of the issue that load_all meets, or a new run.
Targets(s) ==
  IF process = "late" THEN FreshMarkers ELSE IF OnDisk # {} THEN OnDisk ELSE {s}

\* The record is a copy read from disk: objects in memory do not see the mark.
RecordAbandoned(s) ==
  /\ writing.step = "none" /\ s \in todo /\ todo' = todo \ {s}
  /\ \E r \in Targets(s) :
       /\ disk' = [disk EXCEPT ![r] =
                     Marked(IF @ = Nothing THEN Blank ELSE @, Opened, "unknown")]
       /\ writing' = [step |-> "checkpoint", record |-> r]
  /\ UNCHANGED <<process, kills, mem, kept, held, start, command, reported, answered>>

\* save_checkpoint, the evidence record, and the entry in abandoned_dispatches.
RecordRest ==
  /\ writing.step # "none"
  /\ kept' = [kept EXCEPT ![writing.step] = @ \cup {writing.record}]
  /\ IF writing.step = "checkpoint"
     THEN writing' = [writing EXCEPT !.step = "evidence"] /\ UNCHANGED reported
     ELSE writing' = [step |-> "none", record |-> NoRecord]
          /\ reported' = reported \cup {writing.record}
  /\ UNCHANGED <<process, kills, disk, mem, held, start, command, todo, answered>>

(* ---------------------------- end and restart ----------------------------- *)

\* The process ends by itself, or is killed; what it had in memory is gone.
Stop ==
  /\ process # "down" /\ process' = "down"
  /\ \/ process = "closing" /\ ~Recording /\ UNCHANGED kills
     \/ kills < MaxKills /\ kills' = kills + 1
  /\ mem' = [r \in Records |-> Nothing] /\ held' = NoRecord
  /\ start' = [s \in Starts |-> IF start[s] = "idle" THEN "idle" ELSE "ended"]
  /\ command' = [c \in Comments |-> Idle]
  /\ todo' = {} /\ writing' = [step |-> "none", record |-> NoRecord]
  /\ UNCHANGED <<disk, kept, reported, answered>>

RecoveredBug(contents) ==
  [contents EXCEPT !.outcome = [n \in Names |-> IF @[n] # "none" THEN "unknown" ELSE @[n]]]
\* _recover_runs: the crash window of a command.
Recovered(contents) ==
  [contents EXCEPT !.outcome =
     [n \in Names |-> IF @[n] = "executing" THEN "unknown" ELSE @[n]]]

\* load_non_terminal_runs finds the open records, yet the run recovered for each
\* of them is the one held for the issue.  recover_run only reads and logs.
Recover(r) ==
  IF \E x \in OnDisk : disk[x].state = "open"
  THEN Save(r, Recovered(disk[r]))
  ELSE mem' = [mem EXCEPT ![r] = disk[r]] /\ UNCHANGED disk

\* The dictionary of the constructor keeps one record per issue, the last one
\* that load_all met: any of them.
Restart ==
  /\ process = "down" /\ process' = "up"
  /\ IF OnDisk = {} THEN UNCHANGED <<disk, mem, held>>
     ELSE \E r \in OnDisk : held' = r /\ Recover(r)
  /\ UNCHANGED <<kills, kept, start, command, todo, writing, reported, answered>>

Next ==
  \/ \E s \in Starts :
       Dispatch(s) \/ StartIssue(s) \/ CreateRun(s) \/ Work(s) \/ RecordAbandoned(s)
  \/ \E c \in Comments : Receive(c) \/ Execute(c) \/ Advance(c) \/ Confirm(c) \/ EndCommand(c)
  \/ InitiateDrain \/ DeadlinePasses \/ CloseLoop \/ RecordRest \/ Stop \/ Restart

Spec == Init /\ [][Next]_vars

(* ------------------------------- properties ------------------------------- *)

\* What shutdown reports as abandoned stays on disk for reconciliation: the
\* mark, its checkpoint and its evidence outlive the tasks that go on saving
\* their run after the deadline, a kill, and later processes.
AbandonedIsDurable ==
  \A r \in reported : /\ r \in OnDisk /\ disk[r].outcome[Opened] = "unknown"
                      /\ \A k \in DOMAIN kept : r \in kept[k]

\* A command whose handler returned stays confirmed in its record on disk,
\* whatever copy of the record a shutdown or a restart writes back.
ConfirmedSurvives ==
  \A a \in answered : a[2] \in OnDisk /\ disk[a[2]].outcome[a[1]] = "confirmed"

===============================================================================
