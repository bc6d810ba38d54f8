--------------------------------- MODULE MCHa ----------------------------------
(* The tables in PostgreSQL: the rate limiter with its pool of connections     *)
(* (three requests of two sources), and the migration that makes the tables.   *)
(* They share no variable, so one moves while the other is as at the start.    *)
EXTENDS RateLimit, HaSchema

CONSTANTS r1, r2, r3, s1, s2

Alike == Permutations({r1, r2, r3}) \cup Permutations({s1, s2})

HaVars == <<vars, schemaVars>>
HaInit == Init /\ SchemaInit
HaNext ==
  \/ SchemaInit /\ Next /\ UNCHANGED schemaVars
  \/ Init /\ SchemaNext /\ UNCHANGED vars
HaSpec == HaInit /\ [][HaNext]_HaVars

===============================================================================
