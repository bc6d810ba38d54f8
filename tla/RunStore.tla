-------------------------------- MODULE RunStore --------------------------------
(* The files of one run that several processes share: FileStore               *)
(* (opsswarm/store.py) with atomic writes and checkpoints enabled, which is   *)
(* the default.  Every write goes into a temporary file of its own and then   *)
(* replaces the file of the run, under an flock that the kernel frees when    *)
(* its holder dies.  Reads take no lock.  A client is one caller, and every   *)
(* action of it one system call or what the code does between two of them.    *)
EXTENDS Naturals, FiniteSets

CONSTANTS Clients, NoRun, Nobody

VARIABLES
  disk,      \* <run>.json, or NoRun
  copy,      \* [Clients -> the object in its hands, or NoRun]
  lock,      \* .<run>.lock: its holder, or Nobody
  stage,     \* [Clients -> where its operation is]
  op,        \* [Clients -> "save", "cas", "snapshot", or the two parts of the other
             \* form of save_checkpoint, "load" and "envelope"]
  draft,     \* [Clients -> the record in its temporary file]
  expected,  \* [Clients -> expected_revision of update_with_cas, or 0]
  outcome,   \* history: [Clients -> what became of its update_with_cas]
  undone     \* history: updates with cas that a later write has undone
vars == <<disk, copy, lock, stage, op, draft, expected, outcome, undone>>

\* A record by the updates it contains; each has raised its revision by one.
Contents == {[revision |-> 1 + Cardinality(m), marks |-> m] : m \in SUBSET Clients}
Revisions == 1..Cardinality(Clients)

Register == INSTANCE RunRegister WITH record <- disk
Fresh == Register!Fresh

ASSUME RunStoreConstants ==
  IsFiniteSet(Clients) /\ Nobody \notin Clients /\ NoRun \notin Contents

TypeOK ==
  /\ disk \in Contents \cup {NoRun} /\ copy \in [Clients -> Contents \cup {NoRun}]
  /\ lock \in Clients \cup {Nobody}
  /\ stage \in [Clients -> {"idle", "locking", "locked", "written", "replaced"}]
  /\ op \in [Clients -> {"none", "save", "cas", "snapshot", "load", "envelope"}]
  /\ draft \in [Clients -> Contents \cup {NoRun}]
  /\ expected \in [Clients -> Revisions \cup {0}]
  /\ outcome \in [Clients -> {"none", "asked", "won", "lost"}] /\ undone \subseteq Clients

Init ==
  /\ disk = NoRun /\ lock = Nobody
  /\ \E c \in Clients : copy = [d \in Clients |-> IF d = c THEN Fresh ELSE NoRun]
  /\ stage = [c \in Clients |-> "idle"] /\ op = [c \in Clients |-> "none"]
  /\ draft = [c \in Clients |-> NoRun] /\ expected = [c \in Clients |-> 0]
  /\ outcome = [c \in Clients |-> "none"] /\ undone = {}

Staged(c, s) == stage' = [stage EXCEPT ![c] = s]
Begin(c, o) ==
  stage[c] = "idle" /\ Staged(c, "locking") /\ op' = [op EXCEPT ![c] = o]

(* -------------------------------- operations ------------------------------ *)

Load(c) ==
  /\ stage[c] = "idle" /\ copy' = [copy EXCEPT ![c] = disk]
  /\ UNCHANGED <<disk, lock, stage, op, draft, expected, outcome, undone>>

\* save, and save_checkpoint of a record, which leaves the file of the run alone.
Save(c) ==
  /\ copy[c] # NoRun /\ \E o \in {"save", "snapshot"} : Begin(c, o)
  /\ UNCHANGED <<disk, copy, lock, draft, expected, outcome, undone>>

\* Every client has one update that succeeds: a bound.
UpdateWithCas(c, revision) ==
  /\ outcome[c] \in {"none", "lost"} /\ Begin(c, "cas")
  /\ expected' = [expected EXCEPT ![c] = revision]
  /\ outcome' = [outcome EXCEPT ![c] = "asked"]
  /\ UNCHANGED <<disk, copy, lock, draft, undone>>

\* save_checkpoint of a run id: what it loads before it has the lock it saves.
SaveCheckpoint(c) ==
  /\ copy[c] = NoRun /\ copy' = [copy EXCEPT ![c] = disk]
  /\ Begin(c, IF disk = NoRun THEN "envelope" ELSE "load")
  /\ UNCHANGED <<disk, lock, draft, expected, outcome, undone>>

(* ------------------------------- _process_lock ---------------------------- *)

\* A form named ...Bug is what a check must notice.
LockFreeBug == TRUE
LockFree == lock = Nobody

AcquireLock(c) ==
  /\ stage[c] = "locking" /\ LockFree /\ lock' = c /\ Staged(c, "locked")
  /\ UNCHANGED <<disk, copy, op, draft, expected, outcome, undone>>

Unlocked(c) == IF lock = c THEN Nobody ELSE lock
Finish(c) ==
  /\ lock' = Unlocked(c) /\ Staged(c, "idle") /\ op' = [op EXCEPT ![c] = "none"]
  /\ draft' = [draft EXCEPT ![c] = NoRun]

\* What was asked for has no effect; who named the run by its id has no object.
Withdraw(c, kept) ==
  /\ copy' = [copy EXCEPT ![c] = IF kept THEN @ ELSE NoRun]
  /\ expected' = [expected EXCEPT ![c] = IF outcome[c] = "asked" THEN 0 ELSE @]
  /\ outcome' = [outcome EXCEPT ![c] = IF @ = "asked" THEN "none" ELSE @]
  /\ UNCHANGED <<disk, undone>>

\* TimeoutError of the lock, or an OSError on the way to the new file; the
\* temporary file is removed.  save_with_retry begins again.
Raise(c) ==
  /\ \/ stage[c] = "locking" /\ ~LockFree
     \/ stage[c] \in {"locked", "written"}
  /\ Withdraw(c, op[c] \notin {"load", "envelope"}) /\ Finish(c)

(* ------------------------------ under the lock ---------------------------- *)

\* The record goes into the temporary file, and to the disk.
WriteTemp(c) ==
  /\ stage[c] = "locked" /\ op[c] # "cas" /\ Staged(c, "written")
  /\ draft' = [draft EXCEPT ![c] = copy[c]]
  /\ UNCHANGED <<disk, copy, lock, op, expected, outcome, undone>>

MatchesBug(c) == disk # NoRun /\ disk.revision >= expected[c]
Matches(c) == disk # NoRun /\ disk.revision = expected[c]
UpdatedBug(c) == [revision |-> disk.revision, marks |-> disk.marks \cup {c}]
Updated(c) == [revision |-> disk.revision + 1, marks |-> disk.marks \cup {c}]

\* update_with_cas loads the record again, compares, and writes its update.
Compare(c) ==
  /\ stage[c] = "locked" /\ op[c] = "cas" /\ Matches(c)
  /\ Staged(c, "written") /\ draft' = [draft EXCEPT ![c] = Updated(c)]
  /\ UNCHANGED <<disk, copy, lock, op, expected, outcome, undone>>

Mismatch(c) ==
  /\ stage[c] = "locked" /\ op[c] = "cas" /\ ~Matches(c) /\ Finish(c)
  /\ outcome' = [outcome EXCEPT ![c] = "lost"] /\ expected' = [expected EXCEPT ![c] = 0]
  /\ UNCHANGED <<disk, copy, undone>>

\* os.replace: whoever reads now gets the new file.
Replace(c) ==
  /\ stage[c] = "written" /\ Staged(c, "replaced")
  /\ draft' = [draft EXCEPT ![c] = NoRun]
  /\ disk' = IF op[c] \in {"save", "load", "cas"} THEN draft[c] ELSE disk
  /\ outcome' = [outcome EXCEPT ![c] = IF op[c] = "cas" THEN "won" ELSE @]
  /\ undone' = IF disk = NoRun \/ op[c] \notin {"save", "load"} THEN undone
               ELSE undone \cup (disk.marks \ draft[c].marks)
  /\ UNCHANGED <<copy, lock, op, expected>>

\* The operation returns; save_checkpoint of a run id goes on with its envelope.
Release(c) ==
  /\ stage[c] = "replaced"
  /\ \/ /\ op[c] = "load" /\ lock' = Unlocked(c) /\ Staged(c, "locking")
        /\ op' = [op EXCEPT ![c] = "envelope"]
        /\ UNCHANGED <<disk, copy, draft, expected, outcome, undone>>
     \/ op[c] # "load" /\ Withdraw(c, op[c] # "envelope") /\ Finish(c)

\* The process dies.  A temporary file that it leaves is never read.
Crash(c) == Withdraw(c, FALSE) /\ Finish(c)

Next ==
  \E c \in Clients :
    \/ Load(c) \/ Save(c) \/ SaveCheckpoint(c) \/ \E r \in Revisions : UpdateWithCas(c, r)
    \/ AcquireLock(c) \/ Raise(c) \/ WriteTemp(c) \/ Compare(c) \/ Mismatch(c)
    \/ Replace(c) \/ Release(c) \/ Crash(c)

Spec == Init /\ [][Next]_vars

(* ------------------------------- properties ------------------------------- *)

\* The steps under the lock, with their timeouts, failures and crashes, look to
\* every client like the register: no compare-and-set writes over what it has
\* not compared with, and nobody reads half a record.
Atomic == Register!Spec

\* Of the processes that update with one expected revision only one is told it
\* succeeded, until a save of a copy from before it undoes the update.
WinsOnce ==
  \A c, d \in Clients :
    c # d /\ outcome[c] = "won" /\ outcome[d] = "won" /\ expected[c] = expected[d] =>
      c \in undone \/ d \in undone

===============================================================================
