------------------------------- MODULE MCColocated -------------------------------
(* The colocated backend on a small instance.  The scripts treat every key *)
(* of a kind alike, so permuting the names of one kind changes nothing.    *)
EXTENDS Colocated, TLC

Perms == Permutations(Primary) \cup Permutations(Field) \cup Permutations(AliasValue)
===============================================================================
