------------------------------ MODULE MCMemAlias ------------------------------
(* The in-process store on a small instance: the backend of an alias       *)
(* group, up to a permutation of the names of a kind, or a plain store.    *)
(* The two are not used at once: their keys are apart (Manager), so neither *)
(* sees the other.                                                         *)
EXTENDS MemAlias, TLC

CONSTANTS Key, Caller, PlainTtl, MaxNow

VARIABLES use, data, now, call

Plain == INSTANCE MemStore WITH Ttl <- PlainTtl

plain == <<data, now, call>>

Perms == Permutations(Primary) \cup Permutations(Field) \cup Permutations(AliasValue)

StoreInit == Init /\ Plain!Init /\ use \in {"alias group", "plain"}

StoreNext ==
    \/ use = "alias group" /\ Next /\ UNCHANGED <<use, plain>>
    \/ use = "plain" /\ Plain!Next /\ UNCHANGED <<use, vars>>

StoreSpec == StoreInit /\ [][StoreNext]_<<use, vars, plain>>

(* The property of the plain store, of the run. *)
PurgeSparesLive == Plain!PurgeSparesLive
===============================================================================
