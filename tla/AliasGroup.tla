------------------------------ MODULE AliasGroup ------------------------------
(***************************************************************************)
(* What an alias group promises its callers (AliasOps in alias.go): one    *)
(* value per primary key, any number of aliases that lead to it, at most   *)
(* one alias per field and primary, and a group that lives and dies as     *)
(* one.  A read through an alias is value[owner[f][a]].  There is no       *)
(* clock: a group may expire at any moment, but only as a whole.           *)
(***************************************************************************)
CONSTANTS Primary, Field, AliasValue, Value, None

ASSUME NothingAssumption == None \notin Primary \cup Value

VARIABLES
    value,   \* value[p]: what is cached for p, None when nothing is
    owner    \* owner[f][a]: the primary alias (f, a) leads to, or None

vars == <<value, owner>>

TypeOK ==
    /\ value \in [Primary -> Value \cup {None}]
    /\ owner \in [Field -> [AliasValue -> Primary \cup {None}]]

Init ==
    /\ value = [p \in Primary |-> None]
    /\ owner = [f \in Field |-> [a \in AliasValue |-> None]]

(* A write through the primary key: every alias sees the new value. *)
PutValue(p, v) ==
    /\ value' = [value EXCEPT ![p] = v]
    /\ UNCHANGED owner

(* A write that registers an alias: it replaces p's alias of that field    *)
(* and takes the alias away from whoever had it.                           *)
(* A slip: the previous alias of the field stays. *)
PutByAliasKeepingOld(p, f, a, v) ==
    /\ value' = [value EXCEPT ![p] = v]
    /\ owner' = [owner EXCEPT ![f][a] = p]
PutByAlias(p, f, a, v) ==
    /\ value' = [value EXCEPT ![p] = v]
    /\ owner' = [owner EXCEPT ![f] = [b \in AliasValue |->
                    IF b = a THEN p
                    ELSE IF owner[f][b] = p THEN None ELSE owner[f][b]]]

(* The groups of S are removed, values and aliases together. *)
(* A slip: the aliases stay. *)
InvalidateValues(S) ==
    /\ value' = [p \in Primary |-> IF p \in S THEN None ELSE value[p]]
    /\ UNCHANGED owner
Invalidate(S) ==
    /\ value' = [p \in Primary |-> IF p \in S THEN None ELSE value[p]]
    /\ owner' = [f \in Field |-> [a \in AliasValue |->
                    IF owner[f][a] \in S THEN None ELSE owner[f][a]]]

EvictByPrimary(p) == Invalidate({p})

EvictByAlias(f, a) == owner[f][a] # None /\ Invalidate({owner[f][a]})

Expire(S) == Invalidate(S)

Next ==
    \/ \E p \in Primary, v \in Value : PutValue(p, v)
    \/ \E p \in Primary, f \in Field, a \in AliasValue, v \in Value :
          PutByAlias(p, f, a, v)
    \/ \E p \in Primary : EvictByPrimary(p)
    \/ \E f \in Field, a \in AliasValue : EvictByAlias(f, a)
    \/ \E S \in SUBSET Primary : Expire(S)

Spec == Init /\ [][Next]_vars
-------------------------------------------------------------------------------
(* No alias is left pointing at deleted data: an alias that leads          *)
(* somewhere leads to a cached value (README.md:396-398).                  *)
NoDanglingAlias ==
    \A f \in Field, a \in AliasValue : owner[f][a] # None => value[owner[f][a]] # None

(* One alias per field and primary (docs/1-alias-cache-design.md, D11a):   *)
(* two aliases of one field never lead to the same record.                 *)
OneAliasPerField ==
    \A f \in Field, a, b \in AliasValue :
        owner[f][a] = owner[f][b] /\ owner[f][a] # None => a = b
===============================================================================
