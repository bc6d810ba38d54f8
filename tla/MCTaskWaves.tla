------------------------------ MODULE MCTaskWaves ------------------------------
(* S2 builds any graph of up to three tasks, which may also depend on `ghost`. *)
(* What follows validation is examined for one of the graphs it accepts, in    *)
(* which t2 depends on t1; the extra task x1 depends on t1 as well, the extra  *)
(* task x2 on a task nobody has.                                               *)
EXTENDS TaskWaves, TaskGraph, TLC

CONSTANTS i1, i2, t1, t2, t3, x1, x2, ghost

Built ==
  <<[id |-> t1, deps |-> {}], [id |-> t2, deps |-> {t1}], [id |-> t3, deps |-> {}]>>
MCDeps == TaskMap(Built) @@ (x1 :> {t1}) @@ (x2 :> {ghost})

MCInit == Init /\ graph \in Graphs
MCNext == Next /\ graph = Built /\ UNCHANGED graph
MCSpec == MCInit /\ [][MCNext]_<<vars, graph>> /\ Fairness

===============================================================================
