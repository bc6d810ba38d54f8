------------------------------- MODULE CheckPoll -------------------------------
(* scripts/poll_check_runs.py, which the merge of a pull request waits for: it *)
(* reads the pages of the check runs of a commit, judges them, and sleeps when *)
(* some are pending, while GitHub goes on creating and completing check runs.  *)
(* GitHub lists the newest first, and a conclusion never changes.              *)
EXTENDS Integers, Sequences, FiniteSets

CONSTANTS
  Checks, StrictChecks,   \* --checks and --strict-checks
  PageSize,            \* per_page
  MaxTries,            \* of one request
  MaxPolls,            \* --max-attempts
  MaxCheckRuns         \* bound on the check runs of the commit

ASSUME PollConstants ==
  /\ PageSize \in Nat \ {0} /\ MaxTries \in Nat \ {0} /\ MaxPolls \in Nat \ {0}
  /\ MaxCheckRuns \in Nat

VARIABLES
  checkRuns,   \* on GitHub: a sequence of [name, conclusion], "none" while under way
  poll,        \* [stage, polls, try, page, total, heard]
  exit,        \* 2 while it runs, then the exit status
  lastSeen     \* ghost: checkRuns when the last page was served
pollVars == <<checkRuns, poll, exit, lastSeen>>

Names == Checks \cup StrictChecks
Conclusions == {"success", "neutral", "failure"}
Successful == {"success", "neutral"}

FirstPage == [try |-> 1, page |-> 1, total |-> -1, heard |-> <<>>]

PollInit ==
  /\ checkRuns = <<>> /\ lastSeen = <<>> /\ exit = 2
  /\ poll = [stage |-> "reading", polls |-> 1, at |-> FirstPage]

(* --------------------------------- GitHub --------------------------------- *)

\* A run is created, or one of the same name again.
RunCreated ==
  /\ Len(checkRuns) < MaxCheckRuns
  /\ \E n \in Names : checkRuns' = <<[name |-> n, conclusion |-> "none"]>> \o checkRuns
  /\ UNCHANGED <<poll, exit, lastSeen>>

RunCompletes ==
  /\ \E i \in DOMAIN checkRuns, c \in Conclusions :
       /\ checkRuns[i].conclusion = "none"
       /\ checkRuns' = [checkRuns EXCEPT ![i].conclusion = c]
  /\ UNCHANGED <<poll, exit, lastSeen>>

Page(n) == SubSeq(checkRuns, (n - 1) * PageSize + 1,
                  IF n * PageSize < Len(checkRuns) THEN n * PageSize ELSE Len(checkRuns))

\* The Link header as it should be, lost, or of a page that was read before.
Links(n) ==
  {"none"} \cup (IF n * PageSize < Len(checkRuns) THEN {"next"} ELSE {})
           \cup (IF n > 1 THEN {"loop"} ELSE {})

(* ------------------------------- evaluate_checks -------------------------- *)

\* Where the runs of a check are in what was heard.
Matches(heard, n) == {i \in DOMAIN heard : heard[i].name = n}
Accepted(n, conclusion) ==
  IF n \in StrictChecks THEN conclusion = "success" ELSE conclusion \in Successful

AmbiguousBug(heard, n) == FALSE
Ambiguous(heard, n) == \E i, j \in Matches(heard, n) : i # j

Verdict(heard) ==
  LET single == {n \in Names : Matches(heard, n) # {} /\ ~Ambiguous(heard, n)}
      ended(n) == heard[CHOOSE i \in Matches(heard, n) : TRUE].conclusion
      missing == {n \in Names : Matches(heard, n) = {}}
      pending == \E n \in single : ended(n) = "none"
      failed == \/ \E n \in Names : Ambiguous(heard, n)
                \/ \E n \in single : ended(n) # "none" /\ ~Accepted(n, ended(n))
                \/ missing # {} /\ single # {} /\ ~pending
  IN  IF failed THEN "failed" ELSE IF pending \/ missing # {} THEN "pending" ELSE "passed"

(* -------------------------------- poll_checks ----------------------------- *)

Reading == exit = 2 /\ poll.stage = "reading"
Exits(status) == exit' = status /\ UNCHANGED poll

\* 429, 5xx, no connection, or a body that is no JSON: again after a while.
RequestFails ==
  /\ Reading
  /\ IF poll.at.try < MaxTries THEN poll' = [poll EXCEPT !.at.try = @ + 1] /\ UNCHANGED exit
     ELSE Exits(1)
  /\ UNCHANGED <<checkRuns, lastSeen>>

\* Another status, or a payload without its fields.
RequestDenied == Reading /\ Exits(1) /\ UNCHANGED <<checkRuns, lastSeen>>

CompleteBug(heard, total) == TRUE
Complete(heard, total) == Len(heard) = total

\* The last page is in: judge, and sleep when it makes sense to ask again.
Judge(heard, total) ==
  LET verdict == Verdict(heard)
  IN  CASE ~Complete(heard, total) \/ verdict = "failed" -> Exits(1)
        [] Complete(heard, total) /\ verdict = "passed" -> Exits(0)
        [] OTHER -> IF poll.polls < MaxPolls
                    THEN poll' = [poll EXCEPT !.stage = "asleep"] /\ UNCHANGED exit
                    ELSE Exits(1)

PageRead ==
  /\ Reading /\ lastSeen' = checkRuns /\ UNCHANGED checkRuns
  /\ LET at == poll.at
         total == IF at.total = -1 THEN Len(checkRuns) ELSE at.total
         heard == at.heard \o Page(at.page)
     IN  \E link \in Links(at.page) :
           CASE total # Len(checkRuns) \/ link = "loop" -> Exits(1)
             [] total = Len(checkRuns) /\ link = "next" ->
                  /\ poll' = [poll EXCEPT !.at = [try |-> 1, page |-> at.page + 1,
                                                  total |-> total, heard |-> heard]]
                  /\ UNCHANGED exit
             [] OTHER -> Judge(heard, total)

Wake ==
  /\ exit = 2 /\ poll.stage = "asleep"
  /\ poll' = [stage |-> "reading", polls |-> poll.polls + 1, at |-> FirstPage]
  /\ UNCHANGED <<checkRuns, exit, lastSeen>>

PollNext ==
  RunCreated \/ RunCompletes \/ RequestFails \/ RequestDenied \/ PageRead \/ Wake

PollSpec == PollInit /\ [][PollNext]_pollVars

(* ------------------------------- properties ------------------------------- *)

\* The status is 0 only when at the time of the last page each of the checks had one
\* run and no second, and it had concluded as it must: for pages read at different
\* times, runs created between them or again, answers cut short and lost links.
ZeroIsEarned ==
  exit = 0 => \A n \in Names :
    \E i \in DOMAIN lastSeen :
      Matches(lastSeen, n) = {i} /\ Accepted(n, lastSeen[i].conclusion)

===============================================================================
