----------------------------- MODULE RecoveryProofs -----------------------------
(* What a shutdown reports as abandoned and what a handler has confirmed stay *)
(* on disk, for any number of deliveries, comments, kills and processes.  The *)
(* inductive invariant relates the two copies of a record: while coroutines   *)
(* may still save, an object in memory knows every mark its file has, because *)
(* the marks of a process that goes on are written to records of their own.   *)
EXTENDS Recovery, TLAPS

Open(s) == start[s] \in {"idle", "created", "asking"}
Working(c) == command[c].stage \in {"received", "resuming", "executing"}
CommandType ==
  [Comments -> [stage : {"idle", "received", "resuming", "executing", "ended"},
                run : Records \cup {NoRecord}]]

\* An object in memory has its file, and knows the mark that its file has.
Copies ==
  \A r \in Records : mem[r] # Nothing =>
    /\ disk[r] # Nothing
    /\ process \in {"up", "draining", "late"} /\ disk[r].outcome[Opened] = "unknown" =>
         mem[r].outcome[Opened] = "unknown"

\* What a coroutine will save is there, and a run to be created is not.
Objects ==
  /\ \A s \in Starts : (Open(s) => disk[s] = Nothing)
                       /\ (start[s] = "working" => mem[s] # Nothing)
  /\ \A c \in Comments : Working(c) => command[c].run \in Records
                                       /\ mem[command[c].run] # Nothing
  /\ held # NoRecord => mem[held] # Nothing

Phases ==
  /\ process \in {"up", "draining", "down"} => ~Recording
  /\ process = "down" => \A r \in Records : mem[r] = Nothing
  /\ process = "closing" =>
       (\A s \in todo : start[s] = "cancelled") /\ (\A c \in Comments : ~Working(c))

\* The record that is being written has its mark, and its checkpoint in time.
Written ==
  writing.step # "none" =>
    /\ writing.record \in Records /\ disk[writing.record] # Nothing
    /\ disk[writing.record].outcome[Opened] = "unknown"
    /\ writing.step = "evidence" => writing.record \in kept["checkpoint"]

\* A confirmed command is confirmed in both copies, and nobody works on it there.
Confirmed ==
  \A a \in answered :
    /\ disk[a[2]] # Nothing /\ disk[a[2]].outcome[a[1]] = "confirmed"
    /\ mem[a[2]] # Nothing => mem[a[2]].outcome[a[1]] = "confirmed"
    /\ Working(a[1]) => command[a[1]].run # a[2]

IInv == TypeOK /\ Copies /\ Objects /\ Phases /\ Written /\ AbandonedIsDurable /\ Confirmed

-------------------------------------------------------------------------------

LEMMA NothingIsNoContents == Nothing \notin Contents
  BY DEF Nothing, Contents

LEMMA BlankType ==
  /\ Blank \in Contents /\ \A n \in Names : Blank.outcome[n] = "none"
  BY DEF Blank, Contents, Outcome, State

LEMMA MarkedType ==
  ASSUME NEW x \in Contents, NEW n \in Names, NEW o \in Outcome
  PROVE  /\ Marked(x, n, o) \in Contents
         /\ \A m \in Names : Marked(x, n, o).outcome[m] = IF m = n THEN o ELSE x.outcome[m]
  BY DEF Marked, Contents

LEMMA RecoveredType ==
  ASSUME NEW x \in Contents
  PROVE  /\ Recovered(x) \in Contents
         /\ \A n \in Names : Recovered(x).outcome[n] =
              IF x.outcome[n] = "executing" THEN "unknown" ELSE x.outcome[n]
  BY DEF Recovered, Contents, Outcome

LEMMA NamesDiffer == Opened \in Names /\ \A c \in Comments : c \in Names /\ c # Opened
  BY RecoveryConstants DEF Names

LEMMA InitIInv == Init => IInv
<1> SUFFICES ASSUME Init PROVE IInv
  OBVIOUS
<1>1. TypeOK
  BY RecoveryConstants DEF Init, TypeOK, Idle
<1> QED BY <1>1 DEF Init, IInv, Copies, Objects, Phases, Written, AbandonedIsDurable,
                    Confirmed, Open, Working, Recording, Idle, Records

(* ------------------------ saves of live coroutines ------------------------ *)

\* A save of record r that keeps its marks and its confirmed commands leaves
\* the files sound, whatever else the coroutine does to its own variables.
LEMMA SaveKeeps ==
  ASSUME IInv, NEW r \in Records, NEW x \in Contents, Save(r, x), Serving,
         mem[r] = Nothing => disk[r] = Nothing,
         mem[r] # Nothing /\ mem[r].outcome[Opened] = "unknown" => x.outcome[Opened] = "unknown",
         \A a \in answered : a[2] = r => x.outcome[a[1]] = "confirmed",
         UNCHANGED <<process, kept, todo, writing, reported>>
  PROVE  /\ disk' \in [Records -> Contents \cup {Nothing}]
         /\ mem' \in [Records -> Contents \cup {Nothing}]
         /\ \A q \in Records : mem[q] # Nothing => mem'[q] # Nothing
         /\ \A q \in Records \ {r} : disk'[q] = disk[q] /\ mem'[q] = mem[q]
         /\ disk'[r] = x /\ mem'[r] = x /\ mem'[r] # Nothing
         /\ Copies' /\ Written' /\ AbandonedIsDurable'
         /\ \A a \in answered : /\ disk'[a[2]] # Nothing
                                /\ disk'[a[2]].outcome[a[1]] = "confirmed"
                                /\ mem'[a[2]] # Nothing =>
                                     mem'[a[2]].outcome[a[1]] = "confirmed"
<1>1. /\ disk \in [Records -> Contents \cup {Nothing}]
      /\ mem \in [Records -> Contents \cup {Nothing}]
      /\ reported \subseteq Records /\ answered \subseteq Comments \X Records
  BY DEF IInv, TypeOK
<1>2. x # Nothing
  BY NothingIsNoContents
<1>3. /\ disk' \in [Records -> Contents \cup {Nothing}]
      /\ mem' \in [Records -> Contents \cup {Nothing}]
      /\ \A q \in Records \ {r} : disk'[q] = disk[q] /\ mem'[q] = mem[q]
      /\ disk'[r] = x /\ mem'[r] = x
  BY <1>1 DEF Save
<1>4. disk[r] # Nothing /\ disk[r].outcome[Opened] = "unknown" => x.outcome[Opened] = "unknown"
  BY DEF IInv, Copies, Serving
<1>5. Copies'
  BY <1>2, <1>3 DEF IInv, Copies
<1>6. Written'
  BY <1>2, <1>3, <1>4 DEF IInv, Written
<1>7. AbandonedIsDurable'
  BY <1>1, <1>2, <1>3, <1>4 DEF IInv, AbandonedIsDurable, OnDisk
<1>8. ASSUME NEW a \in answered
      PROVE  /\ disk'[a[2]] # Nothing /\ disk'[a[2]].outcome[a[1]] = "confirmed"
             /\ mem'[a[2]] # Nothing => mem'[a[2]].outcome[a[1]] = "confirmed"
  <2>1. a[2] \in Records
    BY <1>1
  <2> QED BY <1>2, <1>3, <2>1 DEF IInv, Confirmed
<1> QED BY <1>2, <1>3, <1>5, <1>6, <1>7, <1>8

LEMMA StartStepsKeep ==
  ASSUME IInv, NEW s \in Starts, Dispatch(s) \/ StartIssue(s) \/ CreateRun(s) \/ Work(s)
  PROVE  IInv'
<1>1. s \in Records /\ start \in [Starts -> {"idle", "created", "asking", "working",
                                             "cancelled", "ended"}]
  BY DEF Records, IInv, TypeOK
<1>2. ASSUME NEW stage \in {"created", "asking", "ended"}, Open(s), Staged(s, stage), Serving,
             UNCHANGED <<process, kills, disk, mem, kept, held, command, todo, writing,
                         reported, answered>>
      PROVE  IInv'
  <2>1. /\ start' \in [Starts -> {"idle", "created", "asking", "working", "cancelled", "ended"}]
        /\ start'[s] = stage /\ \A t \in Starts \ {s} : start'[t] = start[t]
    BY <1>1, <1>2 DEF Staged
  <2>2. TypeOK'
    BY <1>2, <2>1 DEF IInv, TypeOK
  <2>3. Objects'
    BY <1>2, <2>1 DEF IInv, Objects, Open, Working
  <2>4. Phases'
    BY <1>2, <2>1 DEF IInv, Phases, Serving, Recording, Working
  <2> QED BY <1>2, <2>2, <2>3, <2>4 DEF IInv, Copies, Written, AbandonedIsDurable, OnDisk,
                                       Confirmed, Working
<1>3. ASSUME NEW x \in Contents, NEW stage \in {"working", "ended"}, Save(s, x),
             Staged(s, stage), Serving, held' = held \/ held' = s,
             start[s] = "asking" \/ start[s] = "working",
             start[s] = "working" => x.outcome = mem[s].outcome,
             UNCHANGED <<process, kills, kept, command, todo, writing, reported, answered>>
      PROVE  IInv'
  <2>1. /\ start' \in [Starts -> {"idle", "created", "asking", "working", "cancelled", "ended"}]
        /\ start'[s] = stage /\ \A t \in Starts \ {s} : start'[t] = start[t]
    BY <1>1, <1>3 DEF Staged
  <2>2. /\ start[s] = "asking" => disk[s] = Nothing /\ mem[s] = Nothing
        /\ start[s] = "working" => mem[s] # Nothing
    BY <1>1 DEF IInv, Objects, Open, Copies
  <2>3. \A a \in answered : a[2] = s => x.outcome[a[1]] = "confirmed"
    BY <1>3, <2>2 DEF IInv, Confirmed
  <2>4. /\ disk' \in [Records -> Contents \cup {Nothing}]
        /\ mem' \in [Records -> Contents \cup {Nothing}]
        /\ \A q \in Records : mem[q] # Nothing => mem'[q] # Nothing
        /\ \A q \in Records \ {s} : disk'[q] = disk[q]
        /\ mem'[s] # Nothing
        /\ Copies' /\ Written' /\ AbandonedIsDurable'
        /\ \A a \in answered : /\ disk'[a[2]] # Nothing
                               /\ disk'[a[2]].outcome[a[1]] = "confirmed"
                               /\ mem'[a[2]] # Nothing => mem'[a[2]].outcome[a[1]] = "confirmed"
    BY <1>1, <1>3, <2>2, <2>3, SaveKeeps
  <2>5. TypeOK'
    BY <1>1, <1>3, <2>1, <2>4 DEF IInv, TypeOK
  <2>6. Objects'
    <3>1. \A t \in Starts : (Open(t)' => disk'[t] = Nothing)
                            /\ (start'[t] = "working" => mem'[t] # Nothing)
      BY <1>3, <2>1, <2>4 DEF IInv, Objects, Open, Records
    <3>2. \A c \in Comments : Working(c)' => command'[c].run \in Records
                                             /\ mem'[command'[c].run] # Nothing
      BY <1>3, <2>4 DEF IInv, Objects, Working
    <3>3. held' # NoRecord => mem'[held'] # Nothing
      BY <1>3, <2>4 DEF IInv, Objects, TypeOK
    <3> QED BY <3>1, <3>2, <3>3 DEF Objects
  <2>7. Phases'
    BY <1>3 DEF IInv, Phases, Serving, Recording
  <2>8. Confirmed'
    BY <1>3, <2>4 DEF IInv, Confirmed, Working
  <2> QED BY <2>4, <2>5, <2>6, <2>7, <2>8 DEF IInv
<1>4. CASE Dispatch(s)
  BY <1>2, <1>4 DEF Dispatch, Open
<1>5. CASE StartIssue(s)
  BY <1>2, <1>5 DEF StartIssue, Open
<1>6. CASE CreateRun(s)
  <2>1. CASE Save(s, Blank) /\ held' = s /\ Staged(s, "working")
    BY <1>3, <1>6, <2>1, BlankType DEF CreateRun
  <2>2. CASE Staged(s, "ended") /\ UNCHANGED <<disk, mem, held>>
    BY <1>2, <1>6, <2>2 DEF CreateRun, Open
  <2> QED BY <1>6, <2>1, <2>2 DEF CreateRun
<1>7. CASE Work(s)
  <2>1. mem[s] \in Contents
    BY <1>1, <1>7 DEF Work, IInv, TypeOK, Objects
  <2>2. PICK state \in State, stage \in {"working", "ended"} :
          Save(s, [mem[s] EXCEPT !.state = state]) /\ Staged(s, stage)
    BY <1>7 DEF Work
  <2>3. [mem[s] EXCEPT !.state = state] \in Contents
        /\ [mem[s] EXCEPT !.state = state].outcome = mem[s].outcome
    BY <2>1 DEF Contents
  <2> QED BY <1>3, <1>7, <2>2, <2>3 DEF Work
<1> QED BY <1>4, <1>5, <1>6, <1>7

LEMMA CommandStepsKeep ==
  ASSUME IInv, NEW c \in Comments,
         Receive(c) \/ Execute(c) \/ Advance(c) \/ Confirm(c) \/ EndCommand(c)
  PROVE  IInv'
<1>1. command \in CommandType
  BY DEF IInv, TypeOK, CommandType
<1>2. ASSUME NEW stage \in {"received", "resuming", "executing", "ended"},
             NEW r \in Records \cup {NoRecord}, Commanded(c, stage, r)
      PROVE  /\ command' \in CommandType
             /\ command'[c] = [stage |-> stage, run |-> r]
             /\ \A d \in Comments \ {c} : command'[d] = command[d]
  BY <1>1, <1>2 DEF Commanded, CommandType
<1>3. ASSUME NEW stage \in {"received", "resuming", "executing", "ended"}, NEW r \in Records,
             NEW x \in Contents, Commanded(c, stage, r), Save(r, x), Serving, mem[r] # Nothing,
             \A n \in Names \ {c} : x.outcome[n] = mem[r].outcome[n],
             stage = "ended" \/ <<c, r>> \notin answered',
             <<c, r>> \in answered' => x.outcome[c] = "confirmed",
             answered' = answered \/ answered' = answered \cup {<<c, r>>},
             UNCHANGED <<process, kills, kept, held, start, todo, writing, reported>>
      PROVE  IInv'
  <2>1. /\ x.outcome[Opened] = mem[r].outcome[Opened]
        /\ answered \subseteq Comments \X Records
    BY <1>3, NamesDiffer DEF IInv, TypeOK
  <2>2. ASSUME NEW a \in answered, a[2] = r
        PROVE  x.outcome[a[1]] = "confirmed"
    <3>1. a = <<a[1], a[2]>> /\ a[1] \in Comments /\ a[1] \in Names
      BY <2>1, NamesDiffer
    <3>2. CASE a[1] = c
      BY <1>3, <2>2, <3>1, <3>2
    <3>3. CASE a[1] # c
      BY <1>3, <2>2, <3>1, <3>3 DEF IInv, Confirmed
    <3> QED BY <3>2, <3>3
  <2>3. /\ disk' \in [Records -> Contents \cup {Nothing}]
        /\ mem' \in [Records -> Contents \cup {Nothing}]
        /\ \A q \in Records : mem[q] # Nothing => mem'[q] # Nothing
        /\ \A q \in Records \ {r} : disk'[q] = disk[q]
        /\ disk'[r] = x /\ mem'[r] = x /\ mem'[r] # Nothing
        /\ Copies' /\ Written' /\ AbandonedIsDurable'
        /\ \A a \in answered : /\ disk'[a[2]] # Nothing
                               /\ disk'[a[2]].outcome[a[1]] = "confirmed"
                               /\ mem'[a[2]] # Nothing => mem'[a[2]].outcome[a[1]] = "confirmed"
    BY <1>3, <2>1, <2>2, SaveKeeps
  <2>4. /\ command' \in CommandType
        /\ command'[c] = [stage |-> stage, run |-> r]
        /\ \A d \in Comments \ {c} : command'[d] = command[d]
    BY <1>2, <1>3
  <2>5. TypeOK'
    BY <1>3, <2>3, <2>4 DEF IInv, TypeOK, CommandType
  <2>6. Objects'
    <3>1. \A s \in Starts : (Open(s)' => disk'[s] = Nothing)
                            /\ (start'[s] = "working" => mem'[s] # Nothing)
      BY <1>3, <2>3 DEF IInv, Objects, Open, Records, Copies
    <3>2. \A d \in Comments : Working(d)' => command'[d].run \in Records
                                             /\ mem'[command'[d].run] # Nothing
      BY <1>3, <2>3, <2>4 DEF IInv, Objects, Working
    <3>3. held' # NoRecord => mem'[held'] # Nothing
      BY <1>3, <2>3 DEF IInv, Objects, TypeOK
    <3> QED BY <3>1, <3>2, <3>3 DEF Objects
  <2>7. Phases'
    BY <1>3 DEF IInv, Phases, Serving, Recording
  <2>8. ASSUME NEW a \in answered'
        PROVE  /\ disk'[a[2]] # Nothing /\ disk'[a[2]].outcome[a[1]] = "confirmed"
               /\ mem'[a[2]] # Nothing => mem'[a[2]].outcome[a[1]] = "confirmed"
               /\ Working(a[1])' => command'[a[1]].run # a[2]
    <3>1. CASE a = <<c, r>>
      BY <1>3, <2>3, <2>4, <2>8, <3>1, NothingIsNoContents DEF Working
    <3>2. CASE a # <<c, r>>
      <4>1. a \in answered /\ a[1] \in Comments /\ a = <<a[1], a[2]>>
        BY <1>3, <2>1, <2>8, <3>2
      <4>2. Working(a[1])' => command'[a[1]].run # a[2]
        BY <2>4, <3>2, <4>1 DEF IInv, Confirmed, Working
      <4> QED BY <2>3, <4>1, <4>2
    <3> QED BY <3>1, <3>2
  <2>9. Confirmed'
    BY <2>8 DEF Confirmed
  <2> QED BY <2>3, <2>5, <2>6, <2>7, <2>9 DEF IInv
<1>4. CASE Receive(c)
  <2>1. held \in Records /\ mem[held] \in Contents /\ mem[held] # Nothing
    BY <1>4 DEF Receive, IInv, Objects, TypeOK
  <2>2. <<c, held>> \notin answered
    BY <1>4, <2>1 DEF Receive, IInv, Confirmed
  <2>3. "received" \in Outcome /\ c \in Names
    BY NamesDiffer DEF Outcome
  <2>4. PICK stage \in {"received", "resuming"} : Commanded(c, stage, held)
    BY <1>4 DEF Receive
  <2> QED BY <1>3, <1>4, <2>1, <2>2, <2>3, <2>4, MarkedType DEF Receive
<1>5. CASE Execute(c)
  <2> DEFINE r == command[c].run
  <2>1. r \in Records /\ mem[r] \in Contents /\ mem[r] # Nothing
    BY <1>5 DEF Execute, IInv, Objects, TypeOK, Working
  <2>2. <<c, r>> \notin answered
    BY <1>5, <2>1 DEF Execute, IInv, Confirmed, Working
  <2>3. "executing" \in Outcome /\ c \in Names
    BY NamesDiffer DEF Outcome
  <2> QED BY <1>3, <1>5, <2>1, <2>2, <2>3, MarkedType DEF Execute
<1>6. CASE Confirm(c)
  <2> DEFINE r == command[c].run
  <2>1. r \in Records /\ mem[r] \in Contents /\ mem[r] # Nothing
    BY <1>6 DEF Confirm, IInv, Objects, TypeOK, Working
  <2>2. <<c, r>> \in answered' /\ "confirmed" \in Outcome /\ c \in Names
    BY <1>6, NamesDiffer DEF Confirm, Outcome
  <2> DEFINE x == Marked(mem[r], c, "confirmed")
  <2>3. /\ x \in Contents /\ x.outcome[c] = "confirmed"
        /\ \A n \in Names \ {c} : x.outcome[n] = mem[r].outcome[n]
    BY <2>1, <2>2, MarkedType
  <2>4. /\ Serving /\ Commanded(c, "ended", r) /\ answered' = answered \cup {<<c, r>>}
        /\ UNCHANGED <<process, kills, kept, held, start, todo, writing, reported>>
        /\ Save(r, x)
    BY <1>6 DEF Confirm
  <2> HIDE DEF r, x
  <2> QED BY <1>3, <2>1, <2>2, <2>3, <2>4
<1>8. CASE Advance(c)
  <2> DEFINE r == command[c].run
  <2>1. r \in Records /\ mem[r] \in Contents /\ mem[r] # Nothing
    BY <1>8 DEF Advance, IInv, Objects, TypeOK, Working
  <2>2. PICK state \in State : Save(r, [mem[r] EXCEPT !.state = state])
    BY <1>8 DEF Advance
  <2> DEFINE x == [mem[r] EXCEPT !.state = state]
  <2>3. x \in Contents /\ x.outcome = mem[r].outcome
    BY <2>1, <2>2 DEF Contents
  <2>4. Commanded(c, command[c].stage, r)
    BY <1>1, <1>8 DEF Advance, Commanded, CommandType
  <2>5. <<c, r>> \notin answered
    BY <1>8, <2>1 DEF Advance, IInv, Confirmed, Working
  <2>6. /\ Serving /\ command[c].stage \in {"resuming", "executing"}
        /\ UNCHANGED <<process, kills, kept, held, start, todo, writing, reported, answered>>
        /\ Save(r, x)
    BY <1>8, <2>2 DEF Advance
  <2> HIDE DEF r, x
  <2> QED BY <1>3, <2>1, <2>3, <2>4, <2>5, <2>6
<1>7. CASE EndCommand(c)
  <2>1. command[c].run \in Records /\ Commanded(c, "ended", command[c].run)
    BY <1>7 DEF EndCommand, IInv, Objects, Working
  <2>2. /\ command' \in CommandType
        /\ command'[c] = [stage |-> "ended", run |-> command[c].run]
        /\ \A d \in Comments \ {c} : command'[d] = command[d]
    BY <1>2, <2>1
  <2>3. UNCHANGED <<process, kills, disk, mem, kept, held, start, todo, writing, reported,
                    answered>>
    BY <1>7 DEF EndCommand
  <2>4. \A d \in Comments : Working(d)' => Working(d) /\ command'[d] = command[d]
    BY <2>2 DEF Working
  <2>5. TypeOK' /\ Phases' /\ Objects'
    BY <2>2, <2>3, <2>4 DEF IInv, TypeOK, Phases, Recording, Objects, Open, CommandType
  <2>6. Confirmed'
    BY <2>3, <2>4 DEF IInv, Confirmed, TypeOK
  <2> QED BY <2>3, <2>5, <2>6 DEF IInv, Copies, Written, AbandonedIsDurable, OnDisk
<1> QED BY <1>4, <1>5, <1>6, <1>7, <1>8

(* ----------------------- abandoned work, end, restart --------------------- *)

LEMMA PhaseStepsKeep ==
  ASSUME IInv, InitiateDrain \/ DeadlinePasses \/ CloseLoop
  PROVE  IInv'
<1>1. CASE InitiateDrain
  BY <1>1 DEF InitiateDrain, IInv, TypeOK, Copies, Objects, Phases, Written,
              AbandonedIsDurable, OnDisk, Confirmed, Open, Working, Recording
<1>2. CASE DeadlinePasses
  BY <1>2 DEF DeadlinePasses, IInv, TypeOK, Copies, Objects, Phases, Written,
              AbandonedIsDurable, OnDisk, Confirmed, Open, Working, Recording
<1>3. CASE CloseLoop
  <2>1. /\ start' \in [Starts -> {"idle", "created", "asking", "working", "cancelled", "ended"}]
        /\ \A s \in Starts : start'[s] = IF Tasked(s) THEN "cancelled" ELSE start[s]
    BY <1>3 DEF CloseLoop, IInv, TypeOK
  <2>2. /\ command' \in CommandType
        /\ \A c \in Comments : ~Working(c)'
    BY <1>3 DEF CloseLoop, IInv, TypeOK, Idle, Working, CommandType
  <2>3. TypeOK' /\ Phases'
    BY <1>3, <2>1, <2>2 DEF CloseLoop, IInv, TypeOK, Phases, Tasked, Live, Working, CommandType
  <2>4. Objects'
    BY <1>3, <2>1, <2>2 DEF CloseLoop, IInv, Objects, Open, Tasked, Live
  <2>5. Confirmed'
    BY <1>3, <2>2 DEF CloseLoop, IInv, Confirmed, TypeOK
  <2>6. Copies' /\ Written' /\ AbandonedIsDurable'
    BY <1>3 DEF CloseLoop, IInv, Copies, Written, AbandonedIsDurable, OnDisk
  <2> QED BY <2>3, <2>4, <2>5, <2>6 DEF IInv
<1> QED BY <1>1, <1>2, <1>3

LEMMA RecordAbandonedKeeps ==
  ASSUME IInv, NEW s \in Starts, RecordAbandoned(s)
  PROVE  IInv'
<1>1. PICK r \in Targets(s) :
        /\ disk' = [disk EXCEPT ![r] =
                      Marked(IF disk[r] = Nothing THEN Blank ELSE disk[r], Opened, "unknown")]
        /\ writing' = [step |-> "checkpoint", record |-> r]
  BY DEF RecordAbandoned
<1>2. /\ writing.step = "none" /\ s \in todo /\ todo' = todo \ {s}
      /\ UNCHANGED <<process, kills, mem, kept, held, start, command, reported, answered>>
  BY DEF RecordAbandoned
<1>3. process \in {"late", "closing"}
  BY <1>2 DEF IInv, TypeOK, Phases, Recording
<1>4. /\ r \in Records
      /\ process = "late" => disk[r] = Nothing /\ r \notin Starts
      /\ \A t \in Starts : Open(t) => t # r
  BY <1>2, <1>3, RecoveryConstants
     DEF Targets, FreshMarkers, OnDisk, Records, IInv, Objects, Phases, Open
<1> DEFINE old == IF disk[r] = Nothing THEN Blank ELSE disk[r]
           new == Marked(old, Opened, "unknown")
<1>5. old \in Contents
  BY <1>4, BlankType DEF IInv, TypeOK
<1> HIDE DEF old
<1>6. /\ new \in Contents /\ new # Nothing /\ new.outcome[Opened] = "unknown"
      /\ \A n \in Names \ {Opened} : new.outcome[n] = old.outcome[n]
  <2>1. "unknown" \in Outcome /\ Opened \in Names
    BY NamesDiffer DEF Outcome
  <2>2. /\ new \in Contents
        /\ \A n \in Names : new.outcome[n] = IF n = Opened THEN "unknown" ELSE old.outcome[n]
    BY <1>5, <2>1, MarkedType
  <2> QED BY <2>1, <2>2, NothingIsNoContents
<1>7. /\ disk \in [Records -> Contents \cup {Nothing}]
      /\ reported \subseteq Records /\ answered \subseteq Comments \X Records
  BY DEF IInv, TypeOK
<1>8. /\ disk' \in [Records -> Contents \cup {Nothing}] /\ disk'[r] = new
      /\ \A q \in Records \ {r} : disk'[q] = disk[q]
  <2>1. disk' = [disk EXCEPT ![r] = new]
    BY <1>1 DEF old, new
  <2> HIDE DEF new
  <2> QED BY <1>4, <1>6, <1>7, <2>1
<1> HIDE DEF new
<1>9. TypeOK'
  BY <1>1, <1>2, <1>4, <1>8 DEF IInv, TypeOK
<1>10. Copies'
  <2>1. process = "late" => mem[r] = Nothing
    BY <1>4 DEF IInv, Copies
  <2> QED BY <1>2, <1>3, <1>6, <1>8, <2>1 DEF IInv, Copies
<1>11. Objects'
  <2>1. \A t \in Starts : Open(t) => disk'[t] = Nothing
    BY <1>4, <1>8 DEF IInv, Objects, Records
  <2> QED BY <1>2, <2>1 DEF IInv, Objects, Open, Working
<1>12. Phases'
  BY <1>2, <1>3 DEF IInv, Phases, Working
<1>13. Written'
  BY <1>1, <1>4, <1>6, <1>8 DEF Written
<1>14. AbandonedIsDurable'
  BY <1>2, <1>6, <1>7, <1>8 DEF IInv, AbandonedIsDurable, OnDisk
<1>15. ASSUME NEW a \in answered
       PROVE  disk'[a[2]] # Nothing /\ disk'[a[2]].outcome[a[1]] = "confirmed"
  <2>1. a[2] \in Records /\ a[1] \in Names /\ a[1] # Opened
    BY <1>7, NamesDiffer
  <2> QED BY <1>6, <1>8, <2>1 DEF IInv, Confirmed, old
<1>16. Confirmed'
  BY <1>2, <1>15 DEF IInv, Confirmed, Working
<1> QED BY <1>9, <1>10, <1>11, <1>12, <1>13, <1>14, <1>16 DEF IInv

LEMMA RecordRestKeeps ==
  ASSUME IInv, RecordRest
  PROVE  IInv'
<1>1. /\ writing.step \in {"checkpoint", "evidence"} /\ writing.record \in Records
      /\ kept' = [kept EXCEPT ![writing.step] = @ \cup {writing.record}]
      /\ kept \in [{"checkpoint", "evidence"} -> SUBSET Records]
      /\ UNCHANGED <<process, kills, disk, mem, held, start, command, todo, answered>>
  BY DEF RecordRest, IInv, TypeOK, Written
<1>2. /\ kept' \in [{"checkpoint", "evidence"} -> SUBSET Records]
      /\ \A k \in {"checkpoint", "evidence"} : kept[k] \subseteq kept'[k]
      /\ writing.record \in kept'[writing.step]
  BY <1>1
<1>3. CASE writing.step = "checkpoint"
  <2>1. writing' = [writing EXCEPT !.step = "evidence"] /\ UNCHANGED reported
    BY <1>3 DEF RecordRest
  <2>2. writing' = [step |-> "evidence", record |-> writing.record]
    BY <2>1 DEF IInv, TypeOK
  <2>3. TypeOK' /\ Written'
    BY <1>1, <1>2, <1>3, <2>1, <2>2 DEF IInv, TypeOK, Written
  <2>4. Phases' /\ Objects' /\ Copies' /\ Confirmed'
    BY <1>1, <1>3 DEF IInv, Phases, Recording, Objects, Copies, Confirmed, Open, Working
  <2>5. AbandonedIsDurable'
    BY <1>1, <1>2, <2>1 DEF IInv, AbandonedIsDurable, OnDisk, TypeOK
  <2> QED BY <2>3, <2>4, <2>5 DEF IInv
<1>4. CASE writing.step = "evidence"
  <2>1. /\ writing' = [step |-> "none", record |-> NoRecord]
        /\ reported' = reported \cup {writing.record}
    BY <1>4 DEF RecordRest
  <2>2. TypeOK' /\ Written'
    BY <1>1, <1>2, <2>1 DEF IInv, TypeOK, Written
  <2>3. Phases' /\ Objects' /\ Copies' /\ Confirmed'
    BY <1>1, <1>4, <2>1 DEF IInv, Phases, Recording, Objects, Copies, Confirmed, Open, Working
  <2>4. AbandonedIsDurable'
    BY <1>1, <1>2, <1>4, <2>1 DEF IInv, AbandonedIsDurable, OnDisk, TypeOK, Written
  <2> QED BY <2>2, <2>3, <2>4 DEF IInv
<1> QED BY <1>1, <1>3, <1>4

LEMMA StopKeeps ==
  ASSUME IInv, Stop
  PROVE  IInv'
<1>1. /\ start' \in [Starts -> {"idle", "created", "asking", "working", "cancelled", "ended"}]
      /\ \A s \in Starts : start'[s] = IF start[s] = "idle" THEN "idle" ELSE "ended"
      /\ mem' \in [Records -> Contents \cup {Nothing}]
      /\ \A r \in Records : mem'[r] = Nothing
      /\ command' \in CommandType
      /\ \A c \in Comments : ~Working(c)'
      /\ kills' \in 0..MaxKills
  BY RecoveryConstants DEF Stop, IInv, TypeOK, Idle, Working, CommandType
<1>2. TypeOK'
  BY <1>1 DEF Stop, IInv, TypeOK, CommandType
<1>3. Objects'
  BY <1>1 DEF Stop, IInv, Objects, Open
<1>4. Phases' /\ Copies' /\ Written'
  BY <1>1 DEF Stop, Phases, Recording, Copies, Written
<1>5. Confirmed'
  BY <1>1 DEF Stop, IInv, Confirmed, TypeOK
<1> QED BY <1>2, <1>3, <1>4, <1>5 DEF Stop, IInv, AbandonedIsDurable, OnDisk

LEMMA RestartKeeps ==
  ASSUME IInv, Restart
  PROVE  IInv'
<1>1. /\ process = "down" /\ process' = "up" /\ ~Recording
      /\ UNCHANGED <<kills, kept, start, command, todo, writing, reported, answered>>
      /\ \A r \in Records : mem[r] = Nothing
      /\ mem \in [Records -> Contents \cup {Nothing}]
      /\ disk \in [Records -> Contents \cup {Nothing}]
  BY DEF Restart, IInv, Phases, TypeOK
<1>2. CASE OnDisk = {}
  BY <1>1, <1>2 DEF Restart, IInv, TypeOK, Copies, Objects, Phases, Written,
              AbandonedIsDurable, OnDisk, Confirmed, Open, Working, Recording
<1>3. CASE OnDisk # {}
  <2>1. PICK r \in OnDisk : held' = r /\ Recover(r)
    BY <1>3 DEF Restart
  <2>2. r \in Records /\ disk[r] \in Contents
    BY <1>1, <2>1 DEF OnDisk
  <2>3. PICK x \in {disk[r], Recovered(disk[r])} :
          /\ mem' = [mem EXCEPT ![r] = x]
          /\ disk' = [disk EXCEPT ![r] = x]
    <3>1. CASE \E y \in OnDisk : disk[y].state = "open"
      BY <2>1, <3>1 DEF Recover, Save
    <3>2. CASE ~\E y \in OnDisk : disk[y].state = "open"
      <4>1. mem' = [mem EXCEPT ![r] = disk[r]] /\ disk' = disk
        BY <2>1, <3>2 DEF Recover
      <4>2. disk = [disk EXCEPT ![r] = disk[r]]
        BY <1>1
      <4> QED BY <4>1, <4>2
    <3> QED BY <3>1, <3>2
  <2>4. /\ x \in Contents /\ x # Nothing
        /\ \A n \in Names : disk[r].outcome[n] \in {"unknown", "confirmed"} =>
             x.outcome[n] = disk[r].outcome[n]
    BY <2>2, <2>3, RecoveredType, NothingIsNoContents
  <2>5. /\ mem' \in [Records -> Contents \cup {Nothing}]
        /\ disk' \in [Records -> Contents \cup {Nothing}]
        /\ mem'[r] = x /\ disk'[r] = x
        /\ \A q \in Records \ {r} : mem'[q] = Nothing /\ disk'[q] = disk[q]
    BY <1>1, <2>2, <2>3, <2>4
  <2>6. TypeOK'
    BY <1>1, <2>1, <2>2, <2>5 DEF IInv, TypeOK
  <2>7. Copies'
    BY <2>4, <2>5 DEF Copies
  <2>8. Objects'
    <3>1. \A s \in Starts : (Open(s) => disk'[s] = Nothing) /\ start[s] # "working"
      BY <1>1, <2>1, <2>5 DEF IInv, Objects, Records, OnDisk
    <3>2. \A c \in Comments : ~Working(c)
      BY <1>1 DEF IInv, Objects
    <3> QED BY <1>1, <2>1, <2>4, <2>5, <3>1, <3>2 DEF Objects, Open, Working
  <2>9. Phases' /\ Written'
    BY <1>1 DEF Phases, Recording, Written
  <2>10. AbandonedIsDurable'
    BY <1>1, <2>4, <2>5, NamesDiffer DEF IInv, AbandonedIsDurable, OnDisk, TypeOK
  <2>11. ASSUME NEW a \in answered
         PROVE  /\ disk'[a[2]] # Nothing /\ disk'[a[2]].outcome[a[1]] = "confirmed"
                /\ mem'[a[2]] # Nothing => mem'[a[2]].outcome[a[1]] = "confirmed"
    <3>1. a[2] \in Records /\ a[1] \in Names
      BY NamesDiffer DEF IInv, TypeOK
    <3> QED BY <2>4, <2>5, <3>1 DEF IInv, Confirmed
  <2>12. Confirmed'
    BY <1>1, <2>11 DEF IInv, Confirmed, Working
  <2> QED BY <2>6, <2>7, <2>8, <2>9, <2>10, <2>12 DEF IInv
<1> QED BY <1>2, <1>3

LEMMA NextKeeps == IInv /\ [Next]_vars => IInv'
<1> SUFFICES ASSUME IInv, [Next]_vars PROVE IInv'
  OBVIOUS
<1>1. CASE UNCHANGED vars
  BY <1>1 DEF vars, IInv, TypeOK, Copies, Objects, Phases, Written,
              AbandonedIsDurable, OnDisk, Confirmed, Open, Working, Recording
<1>2. CASE Next
  BY <1>2, StartStepsKeep, CommandStepsKeep, PhaseStepsKeep, RecordAbandonedKeeps,
     RecordRestKeeps, StopKeeps, RestartKeeps DEF Next
<1> QED BY <1>1, <1>2

\* Every variable has its type in every behaviour of the records of an issue.
THEOREM TypeCorrect == Spec => []TypeOK
<1>1. IInv => TypeOK
  BY DEF IInv
<1> QED BY <1>1, InitIInv, NextKeeps, PTL DEF Spec

\* What _record_abandoned has reported can be reconciled for ever: its mark, its
\* checkpoint and its evidence survive the tasks that go on, kills and restarts.
THEOREM AbandonedStaysDurable == Spec => []AbandonedIsDurable
<1>1. IInv => AbandonedIsDurable
  BY DEF IInv
<1> QED BY <1>1, InitIInv, NextKeeps, PTL DEF Spec

\* A command whose handler returned is confirmed on disk in all later states.
THEOREM ConfirmationSurvives == Spec => []ConfirmedSurvives
<1>1. IInv => ConfirmedSurvives
  BY DEF IInv, TypeOK, Confirmed, ConfirmedSurvives, OnDisk
<1> QED BY <1>1, InitIInv, NextKeeps, PTL DEF Spec

===============================================================================
