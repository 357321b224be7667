------------------------------ MODULE Colocated ------------------------------
(***************************************************************************)
(* The colocated alias-group backend: redisstore/colocated.go and its Lua  *)
(* scripts.  Every key of the cache shares the slot {ns}, so each          *)
(* operation is one script, hence one atomic step:                         *)
(*   value[p]       {ns}::v::p       the bytes cached for p                *)
(*   members[p][f]  {ns}::m::p       a hash: p's alias of each field       *)
(*   pointer[f][a]  {ns}::r::f::a    the primary alias (f, a) leads to     *)
(* A key that is absent holds None and its lifetime is Gone.  The keys of  *)
(* a group carry lifetimes of their own: that they live and die together   *)
(* is what the scripts have to achieve (Synced), not how the state is      *)
(* laid out.  A call that fails has run its script entirely or not at all, *)
(* which is one of the steps below or no step.                             *)
(***************************************************************************)
EXTENDS AliasTypes

VARIABLES
    value, valueLife,
    members, membersLife,
    pointer, pointerLife

vars == <<value, valueLife, members, membersLife, pointer, pointerLife>>

TypeOK ==
    /\ value \in [Primary -> Value \cup {None}]
    /\ valueLife \in [Primary -> Life]
    /\ members \in [Primary -> [Field -> AliasValue \cup {None}]]
    /\ membersLife \in [Primary -> Life]
    /\ pointer \in [Field -> [AliasValue -> Primary \cup {None}]]
    /\ pointerLife \in [Field -> [AliasValue -> Life]]

Init ==
    /\ value = [p \in Primary |-> None]
    /\ valueLife = [p \in Primary |-> Gone]
    /\ members = [p \in Primary |-> [f \in Field |-> None]]
    /\ membersLife = [p \in Primary |-> Gone]
    /\ pointer = [f \in Field |-> [a \in AliasValue |-> None]]
    /\ pointerLife = [f \in Field |-> [a \in AliasValue |-> Gone]]
-------------------------------------------------------------------------------
(* Writes (put.lua).                                                       *)

SetValue(p, v, n) ==
    /\ value' = [value EXCEPT ![p] = v]
    /\ valueLife' = [valueLife EXCEPT ![p] = n]

(* The closing loop of put.lua: PEXPIRE or PERSIST every pointer that the  *)
(* hash of p names, whoever that pointer leads to.                         *)
(* A slip: the closing loop is missing. *)
RefreshListedForgotten(m, lives, p, n) == lives
RefreshListed(m, lives, p, n) ==
    [f \in Field |-> [a \in AliasValue |->
        IF m[p][f] = a THEN Extend(lives[f][a], n) ELSE lives[f][a]]]

(* No alias was given: the value is set, the group's lifetimes follow.     *)
PutValue(p, v, d) ==
    /\ SetValue(p, v, ScriptLife(d))
    /\ membersLife' = [membersLife EXCEPT ![p] = Extend(@, ScriptLife(d))]
    /\ pointerLife' = RefreshListed(members, pointerLife, p, ScriptLife(d))
    /\ UNCHANGED <<members, pointer>>

(* p's previous alias of field f, whose pointer is deleted (HGET, DEL).    *)
Replaced(p, f, a) == {members[p][f]} \ {None, a}

(* The other primary that (f, a) led to: the alias leaves its hash (HDEL). *)
(* A slip: the HDEL is missing. *)
RobbedNone(p, f, a) == {}
Robbed(p, f, a) == {pointer[f][a]} \ {None, p}

PutMembers(p, f, a) ==
    [q \in Primary |->
        IF q = p THEN [members[q] EXCEPT ![f] = a]
        ELSE IF q \in Robbed(p, f, a) THEN [members[q] EXCEPT ![f] = None]
        ELSE members[q]]

PutPointers(p, f, a) ==
    [pointer EXCEPT ![f] = [b \in AliasValue |->
        IF b = a THEN p ELSE IF b \in Replaced(p, f, a) THEN None ELSE pointer[f][b]]]

(* A hash that lost its last field is gone. *)
PutMembersLife(p, f, a, n) ==
    [q \in Primary |->
        IF q = p THEN n
        ELSE IF \A g \in Field : PutMembers(p, f, a)[q][g] = None THEN Gone
        ELSE membersLife[q]]

(* SET gives the new pointer its lifetime, DEL ends the replaced one's.    *)
SetPointerLife(p, f, a, n) ==
    [pointerLife EXCEPT ![f] = [b \in AliasValue |->
        IF b = a THEN n ELSE IF b \in Replaced(p, f, a) THEN Gone ELSE pointerLife[f][b]]]

PutByAlias(p, f, a, v, d) ==
    /\ SetValue(p, v, ScriptLife(d))
    /\ members' = PutMembers(p, f, a)
    /\ membersLife' = PutMembersLife(p, f, a, ScriptLife(d))
    /\ pointer' = PutPointers(p, f, a)
    /\ pointerLife' = RefreshListed(PutMembers(p, f, a),
                                    SetPointerLife(p, f, a, ScriptLife(d)),
                                    p, ScriptLife(d))
-------------------------------------------------------------------------------
(* Evictions (evict_by_primary.lua, evict_by_alias.lua): the value, the    *)
(* hash and every pointer the hash names.                                  *)

Without(m, lives, gone) ==
    [f \in Field |-> [a \in AliasValue |->
        IF m[f] = a THEN gone ELSE lives[f][a]]]

(* A slip: the loop over the hash is missing. *)
CascadeKeepingPointers(p) ==
    /\ value' = [value EXCEPT ![p] = None]
    /\ valueLife' = [valueLife EXCEPT ![p] = Gone]
    /\ members' = [members EXCEPT ![p] = [f \in Field |-> None]]
    /\ membersLife' = [membersLife EXCEPT ![p] = Gone]
    /\ UNCHANGED <<pointer, pointerLife>>
Cascade(p) ==
    /\ value' = [value EXCEPT ![p] = None]
    /\ valueLife' = [valueLife EXCEPT ![p] = Gone]
    /\ members' = [members EXCEPT ![p] = [f \in Field |-> None]]
    /\ membersLife' = [membersLife EXCEPT ![p] = Gone]
    /\ pointer' = Without(members[p], pointer, None)
    /\ pointerLife' = Without(members[p], pointerLife, Gone)

EvictByPrimary(p) == Cascade(p)

(* An alias that leads nowhere: the script returns and nothing changes.    *)
EvictByAlias(f, a) == pointer[f][a] # None /\ Cascade(pointer[f][a])
-------------------------------------------------------------------------------
(* A millisecond passes: Redis drops every key whose time is up.           *)
Tick ==
    /\ value' = [p \in Primary |-> Kept(value[p], valueLife[p], None)]
    /\ valueLife' = [p \in Primary |-> Older(valueLife[p])]
    /\ members' = [p \in Primary |-> Kept(members[p], membersLife[p], [f \in Field |-> None])]
    /\ membersLife' = [p \in Primary |-> Older(membersLife[p])]
    /\ pointer' = [f \in Field |-> [a \in AliasValue |->
                       Kept(pointer[f][a], pointerLife[f][a], None)]]
    /\ pointerLife' = [f \in Field |-> [a \in AliasValue |-> Older(pointerLife[f][a])]]

Next ==
    \/ \E p \in Primary, v \in Value, d \in Ttl : PutValue(p, v, d)
    \/ \E p \in Primary, f \in Field, a \in AliasValue, v \in Value, d \in Ttl :
          PutByAlias(p, f, a, v, d)
    \/ \E p \in Primary : EvictByPrimary(p)
    \/ \E f \in Field, a \in AliasValue : EvictByAlias(f, a)
    \/ Tick

Spec == Init /\ [][Next]_vars
-------------------------------------------------------------------------------
(* The two directions of the alias relation never disagree: p's hash names *)
(* (f, a) exactly when the pointer of (f, a) leads to p.  A put that       *)
(* replaces an alias, or takes one from another record, has to repair both *)
(* sides (put.lua:10-19).                                                  *)
Agree ==
    \A p \in Primary, f \in Field, a \in AliasValue :
        members[p][f] = a <=> pointer[f][a] = p

(* A group lives and dies as one: a hash that names an alias has exactly   *)
(* the remaining life of the value, and so has the pointer it names; no    *)
(* key outlives or falls behind its group (put.lua:22-34).                 *)
Synced ==
    /\ \A p \in Primary : value[p] = None <=> valueLife[p] = Gone
    /\ \A p \in Primary :
          membersLife[p] = IF \A f \in Field : members[p][f] = None
                           THEN Gone ELSE valueLife[p]
    /\ \A p \in Primary : (\E f \in Field : members[p][f] # None) => value[p] # None
    /\ \A f \in Field, a \in AliasValue :
          pointerLife[f][a] = IF pointer[f][a] = None
                              THEN Gone ELSE valueLife[pointer[f][a]]

(* "A value can never be cached forever by accident" (README.md:57): when  *)
(* every write is given a positive duration no key is without expiry.  It  *)
(* takes a duration of a millisecond or more (colocated.go:58, put.lua:6). *)
NeverForever ==
    /\ \A p \in Primary : valueLife[p] # Forever /\ membersLife[p] # Forever
    /\ \A f \in Field, a \in AliasValue : pointerLife[f][a] # Forever

(* The backend is an alias group: owner is the pointer, and a tick expires *)
(* whole groups.                                                           *)
Group == INSTANCE AliasGroup WITH owner <- pointer
GroupSpec == Group!Spec
===============================================================================
