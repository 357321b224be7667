--------------------------- MODULE ShardedHistory ---------------------------
(***************************************************************************)
(* The sharded backend with two more variables, which no command reads:    *)
(* the record last registered under each alias, and whether that           *)
(* PutByAlias returned without an error.                                   *)
(***************************************************************************)
EXTENDS Sharded

VARIABLES
    latest,        \* latest[f][a]: the primary of the last record_put.lua for (f, a)
    acknowledged   \* acknowledged[f][a]: its pointer was set too

Began(c, p, f, a) ==
    call[c] = Idle /\ \E d \in Ttl : call'[c] = Linking(p, f, a, d)

Completed(c, f, a) ==
    /\ call[c].at = "link" /\ call[c].f = f /\ call[c].a = a
    /\ latest[f][a] = call[c].p
    /\ SetPointer(c)

Remember ==
    /\ latest' = [f \in Field |-> [a \in AliasValue |->
          IF \E c \in Client, p \in Primary : Began(c, p, f, a)
          THEN CHOOSE p \in Primary : \E c \in Client : Began(c, p, f, a)
          ELSE latest[f][a]]]
    /\ acknowledged' = [f \in Field |-> [a \in AliasValue |->
          \/ \E c \in Client : Completed(c, f, a)
          \/ acknowledged[f][a] /\ ~\E c \in Client, p \in Primary : Began(c, p, f, a)]]

HistoryInit ==
    /\ Init
    /\ latest = [f \in Field |-> [a \in AliasValue |-> None]]
    /\ acknowledged = [f \in Field |-> [a \in AliasValue |-> FALSE]]

HistoryNext == Next /\ Remember
HistorySpec == HistoryInit /\ [][HistoryNext]_<<vars, latest, acknowledged>>
-------------------------------------------------------------------------------
(* "A stale or wrong pointer always resolves to a miss, never a wrong      *)
(* value" (docs/1-alias-cache-design.md:403): when no call is under way,   *)
(* an alias leads to the record last put under it, or nowhere.  A record   *)
(* that lost an alias to another still lists it, so the validation accepts *)
(* it whenever the SET that should have moved the pointer was lost.        *)
NeverWrongRecord ==
    \A p \in Primary, f \in Field, a \in AliasValue :
        Resolves(f, a, p) /\ (\A c \in Client : call[c] = Idle) => latest[f][a] = p

(* "Deleting through an alias removes the value and every alias for it"    *)
(* (README.md:396): when EvictByAlias returns without an error because it  *)
(* found no pointer, the record whose PutByAlias of that alias succeeded   *)
(* is not cached under it.  A pointer that PutValue did not refresh        *)
(* expires before its record does.                                         *)
EvictByAliasDeletes ==
    \A c \in Client, f \in Field, a \in AliasValue :
        call[c] = NothingFound(f, a) /\ acknowledged[f][a] =>
            ~Validates(latest[f][a], f, a)
===============================================================================
