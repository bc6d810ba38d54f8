------------------------------- MODULE MCRunStore -------------------------------
(* Three interchangeable clients of the store.                                *)
EXTENDS RunStore, TLC

Alike == Permutations(Clients)

===============================================================================
