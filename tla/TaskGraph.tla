------------------------------- MODULE TaskGraph -------------------------------
(* Which task graphs an investigation may run: validate_task_graph            *)
(* (opsswarm/validators.py), and what it is meant to rule out.  A graph is    *)
(* the sequence of tasks that were built, each with its id and depends_on.    *)
EXTENDS Naturals, Sequences, FiniteSets, FiniteSetsExt

CONSTANTS
  Names,      \* task ids
  Unknown,    \* an id that no task has
  MaxDepth    \* max_dependency_depth

VARIABLE graph   \* the tasks that S2 has built

ASSUME TaskGraphConstants == IsFiniteSet(Names) /\ Unknown \notin Names /\ MaxDepth \in Nat

Task == [id: Names, deps: SUBSET (Names \cup {Unknown})]

Unique(g) == \A i, j \in DOMAIN g : g[i].id = g[j].id => i = j
\* Of the tasks of one name the last counts.
TaskMap(g) ==
  LET last(x) == Max({i \in DOMAIN g : g[i].id = x})
  IN  [x \in {g[i].id : i \in DOMAIN g} |-> g[last(x)].deps]
Dangling(deps) == \E x \in DOMAIN deps : ~(deps[x] \subseteq DOMAIN deps)

\* dfs: what is grey is on the path to x, what is black has been left.
RECURSIVE Dfs(_, _, _)
Dfs(deps, x, colour) ==
  LET visit(d, c) ==
        IF c.cycle \/ d \in c.black THEN c
        ELSE IF d \in c.grey THEN [c EXCEPT !.cycle = TRUE] ELSE Dfs(deps, d, c)
      left == FoldSet(visit, [colour EXCEPT !.grey = @ \cup {x}], deps[x])
  IN  [left EXCEPT !.grey = @ \ {x}, !.black = @ \cup {x}]

Cyclic(deps) ==
  LET root(x, c) == IF c.cycle \/ x \in c.black THEN c ELSE Dfs(deps, x, c)
  IN  FoldSet(root, [cycle |-> FALSE, grey |-> {}, black |-> {}], DOMAIN deps).cycle

RECURSIVE LongestDepth(_, _)
LongestDepth(deps, x) == 1 + Max({0} \cup {LongestDepth(deps, d) : d \in deps[x]})

\* A form named ...Bug is what a check must notice.
TooDeepBug(deps, x) == LongestDepth(deps, x) >= MaxDepth
TooDeep(deps, x) == LongestDepth(deps, x) > MaxDepth

\* validate_task_graph raises unless the checks pass, in this order.
Accepted(g) ==
  /\ Unique(g) /\ ~Dangling(TaskMap(g)) /\ ~Cyclic(TaskMap(g))
  /\ \A x \in DOMAIN TaskMap(g) : ~TooDeep(TaskMap(g), x)

\* The waves that are run when every task that is ready finds room.
RunsThrough(deps) ==
  LET done[n \in 0..MaxDepth] ==
        IF n = 0 THEN {} ELSE {x \in DOMAIN deps : deps[x] \subseteq done[n - 1]}
  IN  done[MaxDepth] = DOMAIN deps

Graphs == UNION {[1..n -> Task] : n \in 0..Cardinality(Names)}

\* A graph is accepted exactly when no name is used twice and the waves get
\* through it, within MaxDepth of them: what is accepted never ends in
\* "unsatisfied dependencies", and nothing that could run is refused.
AcceptedRunsThrough == Accepted(graph) <=> Unique(graph) /\ RunsThrough(TaskMap(graph))

===============================================================================
