------------------------------- MODULE MemAlias -------------------------------
(***************************************************************************)
(* The in-process alias-group backend, memstore/aliasops.go.  Every        *)
(* operation holds the store's mutex, hence one atomic step.  Unlike Redis *)
(* the store drops nothing when its time is up: an expired entry stays in  *)
(* the map, invisible to readers, until an operation deletes it.  So here  *)
(* an entry may be present (not None) with the lifetime Gone.              *)
(* time.Now is taken to be constant while the mutex is held, and a members *)
(* hash that lost all its fields is not told apart from no hash.           *)
(***************************************************************************)
EXTENDS AliasTypes

VARIABLES
    value, valueLife,      \* data[valueKey(p)]
    members, membersLife,  \* members[membersKey(p)]
    pointer, pointerLife   \* data[pointerKey(f, a)]

vars == <<value, valueLife, members, membersLife, pointer, pointerLife>>

NoAlias == [f \in Field |-> None]

TypeOK ==
    /\ value \in [Primary -> Value \cup {None}]
    /\ valueLife \in [Primary -> Life]
    /\ members \in [Primary -> [Field -> AliasValue \cup {None}]]
    /\ membersLife \in [Primary -> Life]
    /\ pointer \in [Field -> [AliasValue -> Primary \cup {None}]]
    /\ pointerLife \in [Field -> [AliasValue -> Life]]

Init ==
    /\ value = [p \in Primary |-> None]
    /\ valueLife = [p \in Primary |-> Gone]
    /\ members = [p \in Primary |-> NoAlias]
    /\ membersLife = [p \in Primary |-> Gone]
    /\ pointer = [f \in Field |-> [a \in AliasValue |-> None]]
    /\ pointerLife = [f \in Field |-> [a \in AliasValue |-> Gone]]

(* expAt: no expiry unless the duration is positive; here a tick is one    *)
(* unit of the duration.                                                   *)
ExpAt(d) == IF d > 0 THEN d ELSE Forever
-------------------------------------------------------------------------------
writeValueLocked(p, v, d) ==
    /\ value' = [value EXCEPT ![p] = v]
    /\ valueLife' = [valueLife EXCEPT ![p] = ExpAt(d)]

(* refreshGroupLocked, given the hashes m, the pointers and their lives:   *)
(* an entry that is in the map gets the new expiry, expired or not.        *)
RefreshedHash(m, p, d) ==
    [membersLife EXCEPT ![p] = IF m[p] = NoAlias THEN Gone ELSE ExpAt(d)]
(* A slip: only the hash is refreshed. *)
RefreshedPointersNot(m, ptr, lives, p, d) == lives
RefreshedPointers(m, ptr, lives, p, d) ==
    [f \in Field |-> [a \in AliasValue |->
        IF m[p][f] = a /\ ptr[f][a] # None THEN ExpAt(d) ELSE lives[f][a]]]

PutValue(p, v, d) ==
    /\ writeValueLocked(p, v, d)
    /\ membersLife' = RefreshedHash(members, p, d)
    /\ pointerLife' = RefreshedPointers(members, pointer, pointerLife, p, d)
    /\ UNCHANGED <<members, pointer>>

(* p's previous alias of the field loses its pointer; the primary the      *)
(* alias led to loses the field.  Expired entries are treated alike.       *)
Replaced(p, f, a) == {members[p][f]} \ {None, a}
(* A slip: the other primary keeps the field. *)
RobbedNone(p, f, a) == {}
Robbed(p, f, a) == {pointer[f][a]} \ {None, p}

PutMembers(p, f, a) ==
    [q \in Primary |->
        IF q \in Robbed(p, f, a) THEN [members[q] EXCEPT ![f] = None]
        ELSE IF q = p THEN [members[q] EXCEPT ![f] = a]
        ELSE members[q]]

PutPointers(p, f, a) ==
    [pointer EXCEPT ![f] = [b \in AliasValue |->
        IF b = a THEN p ELSE IF b \in Replaced(p, f, a) THEN None ELSE pointer[f][b]]]

PutByAlias(p, f, a, v, d) ==
    LET m     == PutMembers(p, f, a)
        ptr   == PutPointers(p, f, a)
        lives == [pointerLife EXCEPT ![f] = [b \in AliasValue |->
                     IF ptr[f][b] = None THEN Gone ELSE pointerLife[f][b]]] IN
    /\ writeValueLocked(p, v, d)
    /\ members' = m
    /\ pointer' = ptr
    /\ membersLife' = [q \in Primary |->
                          IF m[q] = NoAlias THEN Gone ELSE RefreshedHash(m, p, d)[q]]
    /\ pointerLife' = RefreshedPointers(m, ptr, lives, p, d)
-------------------------------------------------------------------------------
(* evictLocked for every primary of S: value, hash, and listed pointers.   *)
evictLocked(S) ==
    LET listed(f, a) == \E p \in S : members[p][f] = a IN
    /\ value' = [p \in Primary |-> IF p \in S THEN None ELSE value[p]]
    /\ valueLife' = [p \in Primary |-> IF p \in S THEN Gone ELSE valueLife[p]]
    /\ members' = [p \in Primary |-> IF p \in S THEN NoAlias ELSE members[p]]
    /\ membersLife' = [p \in Primary |-> IF p \in S THEN Gone ELSE membersLife[p]]
    /\ pointer' = [f \in Field |-> [a \in AliasValue |->
                      IF listed(f, a) THEN None ELSE pointer[f][a]]]
    /\ pointerLife' = [f \in Field |-> [a \in AliasValue |->
                          IF listed(f, a) THEN Gone ELSE pointerLife[f][a]]]

EvictByPrimary(p) == evictLocked({p})

(* The pointer is followed whether it has expired or not. *)
EvictByAlias(f, a) == pointer[f][a] # None /\ evictLocked({pointer[f][a]})

(* S: the primaries that start with the prefix, evicted in one step. *)
EvictByPrimaryPrefix(S) == evictLocked(S)

(* Time passes; the maps do not change. *)
Tick ==
    /\ valueLife' = [p \in Primary |-> Older(valueLife[p])]
    /\ membersLife' = [p \in Primary |-> Older(membersLife[p])]
    /\ pointerLife' = [f \in Field |-> [a \in AliasValue |-> Older(pointerLife[f][a])]]
    /\ UNCHANGED <<value, members, pointer>>

Next ==
    \/ \E p \in Primary, v \in Value, d \in Ttl : PutValue(p, v, d)
    \/ \E p \in Primary, f \in Field, a \in AliasValue, v \in Value, d \in Ttl :
          PutByAlias(p, f, a, v, d)
    \/ \E p \in Primary : EvictByPrimary(p)
    \/ \E f \in Field, a \in AliasValue : EvictByAlias(f, a)
    \/ \E S \in SUBSET Primary : EvictByPrimaryPrefix(S)
    \/ Tick

Spec == Init /\ [][Next]_vars
-------------------------------------------------------------------------------
(* What readers see: GetValue and GetByAlias with its validation. *)
Live(n) == n # Gone
visibleValue == [p \in Primary |-> IF Live(valueLife[p]) THEN value[p] ELSE None]
visibleOwner ==
    [f \in Field |-> [a \in AliasValue |->
        IF /\ pointer[f][a] # None
           /\ Live(pointerLife[f][a])
           /\ Live(membersLife[pointer[f][a]])
           /\ members[pointer[f][a]][f] = a
           /\ Live(valueLife[pointer[f][a]])
        THEN pointer[f][a] ELSE None]]

(* A group expires as one: a stored alias of p leads a reader to p exactly *)
(* when a reader by primary key finds p.  Value, hash and pointers each    *)
(* have an expiry of their own, which every write has to move together,    *)
(* those of entries that had expired included (aliasops.go:145-159).       *)
Whole ==
    \A f \in Field, a \in AliasValue : pointer[f][a] # None =>
        LET p == pointer[f][a] IN visibleOwner[f][a] = p <=> visibleValue[p] # None

(* The maps, expired entries included, are those of an alias group in      *)
(* which nothing expires: every replacement, steal and eviction repairs    *)
(* the value, the hash and the pointers of all the records it touches.     *)
Stored == INSTANCE AliasGroup WITH owner <- pointer
StoredSpec == Stored!Spec
===============================================================================
