------------------------------ MODULE CommandLedger ------------------------------
(* What the orchestrator (opsswarm/orchestrator.py) promises to whoever writes *)
(* commands in the comments of an issue, read from the run store: a delivery   *)
(* reaches a run once; a comment that is confirmed is never obeyed again; it   *)
(* is confirmed by the request that obeys it, in its last step, and by nobody  *)
(* else; and a restart confirms nothing and forgets nothing.                   *)
CONSTANTS Requests, Runs, Comments, Deliveries, NoDelivery

VARIABLES
  outcome,   \* [Runs -> [Comments -> what is recorded of the command]]
  keys,      \* [Runs -> SUBSET Deliveries], the deliveries that were taken
  obeying    \* [Requests -> the run and the comment whose command it obeys]
ledger == <<outcome, keys, obeying>>

Nothing == <<>>

Init ==
  /\ outcome = [r \in Runs |-> [c \in Comments |-> "none"]]
  /\ keys = [r \in Runs |-> {}]
  /\ obeying = [h \in Requests |-> Nothing]

\* A run begins with the delivery of its start, and no command.
Open(r) ==
  /\ keys[r] = {} /\ \A c \in Comments : outcome[r][c] = "none"
  /\ UNCHANGED <<outcome, obeying>>

\* A comment is refused, or is no command whose end is recorded; or it is
\* obeyed, and the request may have stopped before its first await.
Take(h, r, c) ==
  /\ obeying[h] = Nothing /\ outcome[r][c] # "confirmed"
  /\ \/ outcome' = [outcome EXCEPT ![r][c] = "received"] /\ UNCHANGED obeying
     \/ /\ outcome' = [outcome EXCEPT ![r][c] = "executing"]
        /\ obeying' \in {obeying, [obeying EXCEPT ![h] = <<r, c>>]}

\* Whatever a delivery brings, it brings it once.
Deliver(r, d) ==
  /\ d \notin keys[r] /\ keys' = [keys EXCEPT ![r] = @ \cup ({d} \ {NoDelivery})]
  /\ Open(r) \/ \E h \in Requests, c \in Comments : Take(h, r, c)

Ends(h) == obeying[h] # Nothing /\ obeying' = [obeying EXCEPT ![h] = Nothing]

Confirm(h) ==
  /\ Ends(h) /\ UNCHANGED keys
  /\ outcome' = [outcome EXCEPT ![obeying[h][1]][obeying[h][2]] = "confirmed"]

Stop(h) == Ends(h) /\ UNCHANGED <<outcome, keys>>

\* Nobody knows what became of the commands that were being obeyed.
Doubted(of) == [c \in Comments |-> IF of[c] = "executing" THEN "unknown" ELSE of[c]]
Restart ==
  /\ obeying' = [h \in Requests |-> Nothing] /\ UNCHANGED keys
  /\ \E live \in SUBSET Runs :
       outcome' = [r \in Runs |-> IF r \in live THEN Doubted(outcome[r]) ELSE outcome[r]]

Next ==
  \/ \E r \in Runs, d \in Deliveries \cup {NoDelivery} : Deliver(r, d)
  \/ \E h \in Requests : Confirm(h) \/ Stop(h)
  \/ Restart

Spec == Init /\ [][Next]_ledger

===============================================================================
