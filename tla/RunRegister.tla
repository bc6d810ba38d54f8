------------------------------- MODULE RunRegister -------------------------------
(* What FileStore (opsswarm/store.py) promises to the clients that share the  *)
(* record of one run: a read, a write of a copy read earlier, and a           *)
(* compare-and-set on the revision, each at one instant.  A write is not      *)
(* compared with anything: it may undo updates that its copy does not have.   *)
EXTENDS Naturals

CONSTANTS
  Clients, NoRun,
  Revisions      \* the revisions that a compare-and-set may expect

VARIABLES
  record,     \* the record of the run, or NoRun
  copy,       \* [Clients -> the object a client works on, or NoRun]
  expected,   \* [Clients -> expected_revision of its compare-and-set, or 0]
  outcome,    \* [Clients -> what became of its compare-and-set]
  undone      \* history: compare-and-sets that a later write has undone
register == <<record, copy, expected, outcome, undone>>

\* A record, by the compare-and-sets it contains.
Fresh == [revision |-> 1, marks |-> {}]

Updated(c) == [revision |-> record.revision + 1, marks |-> record.marks \cup {c}]

Init ==
  /\ record = NoRun
  /\ copy \in {[d \in Clients |-> IF d = c THEN Fresh ELSE NoRun] : c \in Clients}
  /\ expected = [c \in Clients |-> 0]
  /\ outcome = [c \in Clients |-> "none"] /\ undone = {}

Read(c) ==
  /\ copy' = [copy EXCEPT ![c] = record] /\ UNCHANGED <<record, expected, outcome, undone>>

Write(c) ==
  /\ copy[c] # NoRun /\ record' = copy[c]
  /\ undone' = IF record = NoRun THEN undone
               ELSE undone \cup (record.marks \ copy[c].marks)
  /\ UNCHANGED <<copy, expected, outcome>>

\* One successful update for each client: a bound.
Ask(c, revision) ==
  /\ outcome[c] \in {"none", "lost"}
  /\ outcome' = [outcome EXCEPT ![c] = "asked"]
  /\ expected' = [expected EXCEPT ![c] = revision] /\ UNCHANGED <<record, copy, undone>>

Matches(c) == record # NoRun /\ record.revision = expected[c]

CompareAndSet(c) ==
  /\ outcome[c] = "asked"
  /\ \/ /\ Matches(c) /\ record' = Updated(c) /\ outcome' = [outcome EXCEPT ![c] = "won"]
        /\ UNCHANGED expected
     \/ /\ ~Matches(c) /\ outcome' = [outcome EXCEPT ![c] = "lost"]
        /\ expected' = [expected EXCEPT ![c] = 0] /\ UNCHANGED record
  /\ UNCHANGED <<copy, undone>>

\* A client drops its object, and what it has asked for has no effect.
Abandon(c) ==
  /\ copy' \in {copy, [copy EXCEPT ![c] = NoRun]}
  /\ IF outcome[c] = "asked"
     THEN outcome' = [outcome EXCEPT ![c] = "none"] /\ expected' = [expected EXCEPT ![c] = 0]
     ELSE UNCHANGED <<outcome, expected>>
  /\ UNCHANGED <<record, undone>>

Next ==
  \E c \in Clients :
    \/ Read(c) \/ Write(c) \/ CompareAndSet(c) \/ Abandon(c)
    \/ \E revision \in Revisions : Ask(c, revision)

Spec == Init /\ [][Next]_register

===============================================================================
