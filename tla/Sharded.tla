------------------------------- MODULE Sharded -------------------------------
(***************************************************************************)
(* The sharded alias-group backend: redisstore/sharded.go and its Lua      *)
(* scripts.  A record (value and hash) shares the slot {ns:p} and changes  *)
(* in one script; each pointer is on a slot of its own.  An operation that *)
(* needs both is a call of several commands, and the commands of several   *)
(* clients interleave:                                                     *)
(*   PutByAlias      record_put.lua, then SET of the pointer               *)
(*   GetByAlias      GET of the pointer, then record_get_validate.lua      *)
(*   EvictByPrimary  record_evict.lua, then pointer_cdel.lua per alias     *)
(*   EvictByAlias    GET of the pointer, then EvictByPrimary               *)
(* A command that fails, or a client that dies, ends its call where it     *)
(* stands; a command whose reply is lost has had its effect first.         *)
(***************************************************************************)
EXTENDS AliasTypes

CONSTANT Client   \* goroutines, of any process, that use the cache

VARIABLES
    value, valueLife,       \* {ns:p}::v::p
    members, membersLife,   \* {ns:p}::m::p, a hash from fields to alias values
    pointer, pointerLife,   \* {ns:f:a}::r::f::a
    call                    \* call[c]: the command c sends next, and its arguments

record == <<value, valueLife, members, membersLife>>
link   == <<pointer, pointerLife>>
vars   == <<record, link, call>>

NoAlias == [f \in Field |-> None]

Idle                == [at |-> "idle"]
Linking(p, f, a, d) == [at |-> "link", p |-> p, f |-> f, a |-> a, d |-> d]
Reading(p, f, a)    == [at |-> "validate", p |-> p, f |-> f, a |-> a]
Evicting(p)         == [at |-> "evict", p |-> p]
Unlinking(p, todo)  == IF todo = NoAlias THEN Idle
                       ELSE [at |-> "unlink", p |-> p, todo |-> todo]
NothingFound(f, a)  == [at |-> "nothing", f |-> f, a |-> a]

Call ==
    {Idle}
    \cup [at : {"link"}, p : Primary, f : Field, a : AliasValue, d : Ttl]
    \cup [at : {"validate"}, p : Primary, f : Field, a : AliasValue]
    \cup [at : {"evict"}, p : Primary]
    \cup [at : {"unlink"}, p : Primary, todo : [Field -> AliasValue \cup {None}]]
    \cup [at : {"nothing"}, f : Field, a : AliasValue]

TypeOK ==
    /\ value \in [Primary -> Value \cup {None}]
    /\ valueLife \in [Primary -> Life]
    /\ members \in [Primary -> [Field -> AliasValue \cup {None}]]
    /\ membersLife \in [Primary -> Life]
    /\ pointer \in [Field -> [AliasValue -> Primary \cup {None}]]
    /\ pointerLife \in [Field -> [AliasValue -> Life]]
    /\ call \in [Client -> Call]

Init ==
    /\ value = [p \in Primary |-> None]
    /\ valueLife = [p \in Primary |-> Gone]
    /\ members = [p \in Primary |-> NoAlias]
    /\ membersLife = [p \in Primary |-> Gone]
    /\ pointer = [f \in Field |-> [a \in AliasValue |-> None]]
    /\ pointerLife = [f \in Field |-> [a \in AliasValue |-> Gone]]
    /\ call = [c \in Client |-> Idle]

Continue(c, next) == call' = [call EXCEPT ![c] = next]
-------------------------------------------------------------------------------
(* Writes.  record_put.lua sets the value, sets the field if there is one, *)
(* and gives the hash, if it exists, the value's lifetime.                 *)

RecordPut(p, v, n) ==
    /\ value' = [value EXCEPT ![p] = v]
    /\ valueLife' = [valueLife EXCEPT ![p] = n]

PutValue(p, v, d) ==
    /\ RecordPut(p, v, ScriptLife(d))
    /\ membersLife' = [membersLife EXCEPT ![p] = Extend(@, ScriptLife(d))]
    /\ UNCHANGED <<members, link, call>>

PutByAlias(c, p, f, a, v, d) ==
    /\ call[c] = Idle
    /\ RecordPut(p, v, ScriptLife(d))
    /\ members' = [members EXCEPT ![p][f] = a]
    /\ membersLife' = [membersLife EXCEPT ![p] = ScriptLife(d)]
    /\ Continue(c, Linking(p, f, a, d))
    /\ UNCHANGED link

(* go-redis' Set: a duration under a millisecond is sent as PX 1, and -1   *)
(* keeps the lifetime the key has.                                         *)
(* A slip: the pointer is set without a TTL. *)
SetLifeForever(d, old) == Forever
SetLife(d, old) ==
    IF d > 0 THEN (IF d < PerMs THEN 1 ELSE Milliseconds(d))
    ELSE IF d = -1 /\ old # Gone THEN old
    ELSE Forever

SetPointer(c) ==
    /\ call[c].at = "link"
    /\ LET k == call[c] IN
        /\ pointer' = [pointer EXCEPT ![k.f][k.a] = k.p]
        /\ pointerLife' = [pointerLife EXCEPT ![k.f][k.a] = SetLife(k.d, @)]
    /\ Continue(c, Idle)
    /\ UNCHANGED record
-------------------------------------------------------------------------------
(* Reads through an alias.  The record is served if it still lists the     *)
(* alias (record_get_validate.lua).                                        *)

(* A slip: the hash is not looked at. *)
ValidatesAnyRecord(p, f, a) == value[p] # None
Validates(p, f, a) == value[p] # None /\ members[p][f] = a

GetPointer(c, f, a) ==
    /\ call[c] = Idle
    /\ pointer[f][a] # None
    /\ Continue(c, Reading(pointer[f][a], f, a))
    /\ UNCHANGED <<record, link>>

(* Served or a miss: nothing stored changes either way.                    *)
GetValidated(c) ==
    /\ call[c].at = "validate"
    /\ Continue(c, Idle)
    /\ UNCHANGED <<record, link>>
-------------------------------------------------------------------------------
(* Evictions.                                                              *)

(* A slip: the second DEL is missing. *)
DropRecordKeepingHash(p) ==
    /\ value' = [value EXCEPT ![p] = None]
    /\ valueLife' = [valueLife EXCEPT ![p] = Gone]
    /\ UNCHANGED <<members, membersLife>>
DropRecord(p) ==
    /\ value' = [value EXCEPT ![p] = None]
    /\ valueLife' = [valueLife EXCEPT ![p] = Gone]
    /\ members' = [members EXCEPT ![p] = NoAlias]
    /\ membersLife' = [membersLife EXCEPT ![p] = Gone]

(* record_evict.lua: the record goes; the client learns what it listed.    *)
RecordEvict(c, p) ==
    /\ DropRecord(p)
    /\ Continue(c, Unlinking(p, members[p]))
    /\ UNCHANGED link

EvictByPrimary(c, p) == call[c] = Idle /\ RecordEvict(c, p)

(* EvictByAlias finds no pointer and returns without an error. *)
EvictByAliasMiss(c, f, a) ==
    /\ call[c] = Idle
    /\ pointer[f][a] = None
    /\ Continue(c, NothingFound(f, a))
    /\ UNCHANGED <<record, link>>

EvictByAlias(c, f, a) ==
    /\ call[c] = Idle
    /\ pointer[f][a] # None
    /\ Continue(c, Evicting(pointer[f][a]))
    /\ UNCHANGED <<record, link>>

EvictResolved(c) == call[c].at = "evict" /\ RecordEvict(c, call[c].p)

(* pointer_cdel.lua: the pointer goes only if it still leads to p.         *)
(* A slip: a plain DEL. *)
ComparesAlways(p, f, a) == TRUE
Compares(p, f, a) == pointer[f][a] = p

UnlinkOne(c, f) ==
    /\ call[c].at = "unlink"
    /\ call[c].todo[f] # None
    /\ LET p == call[c].p
           a == call[c].todo[f] IN
        /\ IF Compares(p, f, a)
           THEN /\ pointer' = [pointer EXCEPT ![f][a] = None]
                /\ pointerLife' = [pointerLife EXCEPT ![f][a] = Gone]
           ELSE UNCHANGED link
        /\ Continue(c, Unlinking(p, [call[c].todo EXCEPT ![f] = None]))
    /\ UNCHANGED record

(* An error of pointer_cdel.lua is ignored and the loop goes on. *)
SkipOne(c, f) ==
    /\ call[c].at = "unlink"
    /\ call[c].todo[f] # None
    /\ Continue(c, Unlinking(call[c].p, [call[c].todo EXCEPT ![f] = None]))
    /\ UNCHANGED <<record, link>>

(* The call ends here: a command failed, or its client died; or            *)
(* EvictByAlias had nothing to do.                                         *)
EndCall(c) ==
    /\ call[c] # Idle
    /\ Continue(c, Idle)
    /\ UNCHANGED <<record, link>>
-------------------------------------------------------------------------------
(* A millisecond passes: Redis drops every key whose time is up. *)
Tick ==
    /\ value' = [p \in Primary |-> Kept(value[p], valueLife[p], None)]
    /\ valueLife' = [p \in Primary |-> Older(valueLife[p])]
    /\ members' = [p \in Primary |-> Kept(members[p], membersLife[p], NoAlias)]
    /\ membersLife' = [p \in Primary |-> Older(membersLife[p])]
    /\ pointer' = [f \in Field |-> [a \in AliasValue |->
                       Kept(pointer[f][a], pointerLife[f][a], None)]]
    /\ pointerLife' = [f \in Field |-> [a \in AliasValue |-> Older(pointerLife[f][a])]]
    /\ UNCHANGED call

(* What the commands of a call that has begun can do. *)
Proceed(c) ==
    \/ SetPointer(c)
    \/ GetValidated(c)
    \/ EvictResolved(c)
    \/ \E f \in Field : UnlinkOne(c, f) \/ SkipOne(c, f)
    \/ EndCall(c)

Start(c) ==
    \/ \E p \in Primary, f \in Field, a \in AliasValue, v \in Value, d \in Ttl :
          PutByAlias(c, p, f, a, v, d)
    \/ \E f \in Field, a \in AliasValue :
          GetPointer(c, f, a) \/ EvictByAlias(c, f, a) \/ EvictByAliasMiss(c, f, a)
    \/ \E p \in Primary : EvictByPrimary(c, p)

Next ==
    \/ \E p \in Primary, v \in Value, d \in Ttl : PutValue(p, v, d)
    \/ \E c \in Client : Start(c) \/ Proceed(c)
    \/ Tick

Spec == Init /\ [][Next]_vars

(* Time passes, and a call that has begun gets on: every command returns   *)
(* or fails within the client's timeouts.                                  *)
FairSpec == Spec /\ WF_vars(Tick) /\ \A c \in Client : WF_vars(Proceed(c))
-------------------------------------------------------------------------------
(* The record is one group: a hash that lists an alias belongs to a cached *)
(* value and has exactly its remaining life, however PutValue and          *)
(* PutByAlias alternate (record_put.lua:2-6).                              *)
RecordSynced ==
    \A p \in Primary :
        /\ value[p] = None <=> valueLife[p] = Gone
        /\ membersLife[p] = IF members[p] = NoAlias THEN Gone ELSE valueLife[p]
        /\ members[p] # NoAlias => value[p] # None

(* What a reader of alias (f, a) is served: pointer and record agree.      *)
Resolves(f, a, p) == pointer[f][a] = p /\ Validates(p, f, a)

(* c's PutByAlias of (f, a) takes one of its two steps.                    *)
Registering(c, p, f, a) ==
    \E d \in Ttl : Linking(p, f, a, d) \in {call[c], call'[c]} /\ call'[c] # call[c]

(* An alias starts to lead to a record only in a step of a PutByAlias that *)
(* registers it.  An alias lost to an eviction, an expiry or a replacement *)
(* never comes back by itself, although its pointer may be left behind and *)
(* the record may be written again (docs/1-alias-cache-design.md:403).     *)
AliasOnlyByPut ==
    [][\A p \in Primary, f \in Field, a \in AliasValue :
         ~Resolves(f, a, p) /\ Resolves(f, a, p)' =>
            \E c \in Client : Registering(c, p, f, a)]_vars

(* An eviction of p deletes no pointer that leads elsewhere, however many  *)
(* commands ago it learnt what p listed: an alias another record took      *)
(* meanwhile stays with that record (docs/1-alias-cache-design.md:406-408).*)
EvictKeepsForeign ==
    [][\A f \in Field, a \in AliasValue :
         pointer[f][a] # None /\ pointer'[f][a] = None /\ pointerLife[f][a] # 1 =>
            \E c \in Client : call[c].at = "unlink" /\ call[c].p = pointer[f][a]]_vars

(* Whatever evictions were lost, and whatever pointers were left behind,   *)
(* once nothing is written any more the cache empties itself: "a missed or *)
(* failed invalidation self-heals within a bounded window" (README.md:57). *)
NothingWritten ==
    /\ \A p \in Primary : value'[p] \in {value[p], None} /\ valueLife'[p] <= valueLife[p]
    /\ \A f \in Field, a \in AliasValue : pointerLife'[f][a] <= pointerLife[f][a]
Empty == value = [p \in Primary |-> None] /\ \A f \in Field, a \in AliasValue : pointer[f][a] = None
SelfHeals == <>[][NothingWritten]_vars => <>[]Empty
===============================================================================
