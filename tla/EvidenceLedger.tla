----------------------------- MODULE EvidenceLedger -----------------------------
(* What the evidence store of a run (opsswarm/evidence.py) promises, whatever *)
(* processes share its file: a list of signatures to which an append adds a   *)
(* new one at the end.  Only an append that stopped half way leaves the tail  *)
(* of the file open, and only the next append after it can take away the one  *)
(* signature that is there.                                                   *)
EXTENDS Naturals, SequencesExt

CONSTANT Entries   \* the signatures that may be appended

VARIABLES
  log,        \* the signatures of the records that can be read, in their order
  tail,       \* the last line: "ended" by a newline, or a "record" or a "torn" line without
  spent,      \* torn lines that nothing will be added to
  answered    \* signatures whose append has been acknowledged
ledger == <<log, tail, spent, answered>>

Init == log = <<>> /\ tail = "ended" /\ spent = 0 /\ answered = {}

\* An append that is done may have been acknowledged.
Done(e) == tail' = "ended" /\ answered' \in {answered, answered \cup {e}}
Stopped(how) == tail' = how /\ UNCHANGED answered

Add(e) ==
  /\ tail = "ended" /\ log' = Append(log, e)
  /\ Done(e) \/ Stopped("record")
  /\ UNCHANGED spent

Tear == tail = "ended" /\ Stopped("torn") /\ UNCHANGED <<log, spent>>

\* What an open tail takes up is lost with it, acknowledged or not.
Join(e) ==
  /\ tail # "ended"
  /\ log' = IF tail = "record" THEN Front(log) ELSE log
  /\ \/ Done(e) /\ spent' = spent + 1
     \/ Stopped("torn") /\ UNCHANGED spent

Next == \E e \in Entries \ Range(log) : Add(e) \/ Tear \/ Join(e)

Spec == Init /\ [][Next]_ledger

===============================================================================
