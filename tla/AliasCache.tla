------------------------------ MODULE AliasCache ------------------------------
(***************************************************************************)
(* Cache[T] over an alias group (alias_cache.go and, for the calls by      *)
(* primary key, cache.go): read-through by key and by alias, write-through *)
(* and delete-on-write, on top of AliasGroup with the atomic operations    *)
(* and the expiry of the colocated backend.  A row of the source of truth  *)
(* says which alias it has for each field, and no two rows share one; what *)
(* is cached for a primary is a row, or the negative marker.               *)
(*                                                                         *)
(* The group of a primary has one remaining life, as ColocatedProofs shows *)
(* of its keys (Synced), and its aliases go with it.  So this is not an    *)
(* alias group over memstore, which keeps the aliases of an expired group  *)
(* and lets the next PutValue revive them.  The callers are goroutines of  *)
(* one process.                                                            *)
(***************************************************************************)
EXTENDS AliasGroup, Integers

CONSTANTS
    Caller,
    Marker,       \* the negative marker
    PositiveTtl,  \* effective TTLs of rows
    NegativeTtl,  \* the same for the marker; {} when negative caching is off
    Faults        \* which requests may fail

Row     == [Field -> AliasValue]
Alias   == Field \X AliasValue
Request == Primary \cup Alias      \* GetByKey(p) or GetByAlias(<<f, a>>)

ASSUME RowAssumption == Value = Row \cup {Marker} /\ Marker \notin Row
ASSUME TtlAssumption == PositiveTtl \subseteq Int /\ NegativeTtl \subseteq Nat \ {0}
ASSUME CallerAssumption == None \notin Caller
ASSUME FaultAssumption == Faults \subseteq {"get", "load", "write", "set", "delete"}

VARIABLES
    db,      \* db[p]: the row of p, None when there is none
    life,    \* life[p]: milliseconds the group of p still has, -1 for no end
    flight,  \* flight[r]: the caller that loads for request r, or None
    call     \* call[c]: where c is in its call, with what it has learnt

cacheVars == <<vars, db, life, flight, call>>

Idle         == [at |-> "idle"]
At(step, r)  == [at |-> step, r |-> r]
(* A value on its way to the cache, for primary p; ref is p itself when no *)
(* alias is registered with it.                                            *)
Storing(step, r, p, ref, v) == [at |-> step, r |-> r, p |-> p, ref |-> ref, v |-> v]

CacheTypeOK ==
    /\ TypeOK
    /\ db \in [Primary -> Row \cup {None}]
    /\ \A p \in Primary : life[p] \in Nat \cup {-1} /\ (life[p] = 0 <=> value[p] = None)
    /\ flight \in [Request -> Caller \cup {None}]
    /\ call \in [Caller ->
          {Idle} \cup [at : {"join", "wait", "load", "finish", "evict"}, r : Request]
                 \cup [at : {"populate", "store"}, r : Request, p : Primary,
                       ref : Request, v : Value]
                 \cup [at : {"reading"}, missing : SUBSET Primary]
                 \cup [at : {"filling"}, rows : [Primary -> Value \cup {None}]]]

CacheInit ==
    /\ Init
    /\ db = [p \in Primary |-> None]
    /\ life = [p \in Primary |-> 0]
    /\ flight = [r \in Request |-> None]
    /\ call = [c \in Caller |-> Idle]

Continue(c, next) == call' = [call EXCEPT ![c] = next]
-------------------------------------------------------------------------------
(* Requests to the alias group.  A write gives the whole group of p the    *)
(* lifetime it is made with.                                               *)
(* A slip: the TTL is not passed on. *)
LifeOfForever(d) == -1
LifeOf(d) == IF d > 0 THEN d ELSE -1

Store(p, ref, v) ==
    /\ IF ref = p THEN PutValue(p, v) ELSE PutByAlias(p, ref[1], ref[2], v)
    /\ \E d \in IF v = Marker THEN NegativeTtl ELSE PositiveTtl :
          life' = [life EXCEPT ![p] = LifeOf(d)]

(* The primary that a request by key or alias leads to, if any. *)
Target(r) ==
    IF r \in Primary THEN {r} ELSE {owner[r[1]][r[2]]} \ {None}

Remove(S) ==
    /\ Invalidate(S)
    /\ life' = [p \in Primary |-> IF p \in S THEN 0 ELSE life[p]]
-------------------------------------------------------------------------------
(* GetByKey and GetByAlias.  A hit, negative or not, changes nothing and   *)
(* is not a step; a failed read and an unreadable entry count as a miss.   *)
Miss(c, r) ==
    /\ call[c] = Idle
    /\ (\A p \in Target(r) : value[p] = None) \/ "get" \in Faults
    /\ Continue(c, At("join", r))
    /\ UNCHANGED <<vars, db, life, flight>>

(* group.Do, under the key or under "alias:<field>:<value>", which are     *)
(* apart under the conditions of Manager!NamesApart.                       *)
(* A slip: a flight is started over another. *)
LeadUnguarded(c) ==
    /\ call[c].at = "join"
    /\ flight' = [flight EXCEPT ![call[c].r] = c]
    /\ Continue(c, At("load", call[c].r))
    /\ UNCHANGED <<vars, db, life>>
Lead(c) ==
    /\ call[c].at = "join"
    /\ flight[call[c].r] = None
    /\ flight' = [flight EXCEPT ![call[c].r] = c]
    /\ Continue(c, At("load", call[c].r))
    /\ UNCHANGED <<vars, db, life>>

Wait(c) ==
    /\ call[c].at = "join"
    /\ flight[call[c].r] # None
    /\ Continue(c, At("wait", call[c].r))
    /\ UNCHANGED <<vars, db, life, flight>>

(* The loader reads the row of the key, or the row that has the alias; in  *)
(* the latter case the row tells its primary key (CacheUniqueKey).  That a *)
(* row is missing is cached under a key, if at all, never under an alias.  *)
RowsOf(r) ==
    {p \in Primary : /\ db[p] # None
                     /\ IF r \in Primary THEN p = r ELSE db[p][r[1]] = r[2]}

Load(c) ==
    /\ call[c].at = "load"
    /\ LET r == call[c].r IN
       \/ \E p \in RowsOf(r) :
             Continue(c, Storing("populate", r, p, r, db[p]))
       \/ /\ RowsOf(r) = {}
          /\ Continue(c, IF r \in Primary /\ NegativeTtl # {}
                         THEN Storing("populate", r, r, r, Marker)
                         ELSE At("finish", r))
    /\ UNCHANGED <<vars, db, life, flight>>

LoadFails(c) ==
    /\ call[c].at = "load" /\ "load" \in Faults
    /\ Continue(c, At("finish", call[c].r))
    /\ UNCHANGED <<vars, db, life, flight>>

Populate(c) ==
    /\ call[c].at = "populate"
    /\ Store(call[c].p, call[c].ref, call[c].v)
    /\ Continue(c, At("finish", call[c].r))
    /\ UNCHANGED <<db, flight>>

PopulateFails(c) ==
    /\ call[c].at = "populate" /\ "set" \in Faults
    /\ Continue(c, At("finish", call[c].r))
    /\ UNCHANGED <<vars, db, life, flight>>

(* The flight is over: its leader and everyone who waited return. *)
(* A slip: those who wait are not woken. *)
ReleasedLeaderOnly(c) == {c}
Released(c) == {c} \cup {w \in Caller : call[w] = At("wait", call[c].r)}

Finish(c) ==
    /\ call[c].at = "finish"
    /\ flight' = [flight EXCEPT ![call[c].r] = None]
    /\ call' = [w \in Caller |-> IF w \in Released(c) THEN Idle ELSE call[w]]
    /\ UNCHANGED <<vars, db, life>>
-------------------------------------------------------------------------------
(* GetManyByKey: every key is read by itself, those that missed are loaded *)
(* at once, outside the flights, and what was loaded is stored key by key. *)
StartMany(c) ==
    /\ call[c] = Idle
    /\ Continue(c, [at |-> "reading", missing |-> {}])
    /\ UNCHANGED <<vars, db, life, flight>>

MissOne(c, p) ==
    /\ call[c].at = "reading"
    /\ value[p] = None \/ "get" \in Faults
    /\ p \notin call[c].missing
    /\ Continue(c, [call[c] EXCEPT !.missing = @ \cup {p}])
    /\ UNCHANGED <<vars, db, life, flight>>

Filling(rows) ==
    IF \A p \in Primary : rows[p] = None THEN Idle ELSE [at |-> "filling", rows |-> rows]

LoadMany(c) ==
    /\ call[c].at = "reading"
    /\ Continue(c, Filling([p \in Primary |->
          IF p \notin call[c].missing \/ (db[p] = None /\ NegativeTtl = {}) THEN None
          ELSE IF db[p] = None THEN Marker ELSE db[p]]))
    /\ UNCHANGED <<vars, db, life, flight>>

LoadManyFails(c) ==
    /\ call[c].at = "reading" /\ "load" \in Faults
    /\ Continue(c, Idle)
    /\ UNCHANGED <<vars, db, life, flight>>

Fill(c, p) ==
    /\ call[c].at = "filling" /\ call[c].rows[p] # None
    /\ Store(p, p, call[c].rows[p])
    /\ Continue(c, Filling([call[c].rows EXCEPT ![p] = None]))
    /\ UNCHANGED <<db, flight>>

FillFails(c, p) ==
    /\ call[c].at = "filling" /\ call[c].rows[p] # None
    /\ "set" \in Faults
    /\ Continue(c, Filling([call[c].rows EXCEPT ![p] = None]))
    /\ UNCHANGED <<vars, db, life, flight>>
-------------------------------------------------------------------------------
(* Writes.  The source of truth keeps aliases unique.                      *)
Commit(p, row) ==
    /\ row # None => \A q \in Primary \ {p} : db[q] # None => \A f \in Field : db[q][f] # row[f]
    /\ db' = [db EXCEPT ![p] = row]

(* PutByKey (ref = p) and PutAliased (an alias of the row): the writer     *)
(* commits, then the row is cached.  PutValueByKey and PutAliasedValue are *)
(* the same with the commit made by the application.                       *)
Put(c, p, ref, row) ==
    /\ call[c] = Idle
    /\ Commit(p, row)
    /\ Continue(c, Storing("store", p, p, ref, row))
    /\ UNCHANGED <<vars, life, flight>>

StoreRow(c) ==
    /\ call[c].at = "store"
    /\ Store(call[c].p, call[c].ref, call[c].v)
    /\ Continue(c, Idle)
    /\ UNCHANGED <<db, flight>>

(* WrittenNotCached. *)
StoreFails(c) ==
    /\ call[c].at = "store" /\ "set" \in Faults
    /\ Continue(c, Idle)
    /\ UNCHANGED <<vars, db, life, flight>>

(* A writer that committed and returned an error, or a write that the      *)
(* cache is not told of.                                                   *)
WriteUnreported(c, p, row) ==
    /\ call[c] = Idle /\ "write" \in Faults
    /\ Commit(p, row)
    /\ UNCHANGED <<vars, life, flight, call>>

(* Delete-on-write: the application changes or deletes the row, then calls *)
(* EvictByKey, or EvictByAlias with an alias the row had.                  *)
WriteThenEvict(c, p, r, row) ==
    /\ call[c] = Idle
    /\ r = p \/ p \in RowsOf(r)
    /\ Commit(p, row)
    /\ Continue(c, At("evict", r))
    /\ UNCHANGED <<vars, life, flight>>

Evict(c) ==
    /\ call[c].at = "evict"
    /\ Remove(Target(call[c].r))
    /\ Continue(c, Idle)
    /\ UNCHANGED <<db, flight>>

EvictFails(c) ==
    /\ call[c].at = "evict" /\ "delete" \in Faults
    /\ Continue(c, Idle)
    /\ UNCHANGED <<vars, db, life, flight>>
-------------------------------------------------------------------------------
(* A millisecond passes: Redis expires the groups whose time is up, value, *)
(* hash and pointers at once.                                              *)
(* A slip: a group without expiry ages too. *)
TickUnguarded ==
    /\ Expire({p \in Primary : life[p] = 1})
    /\ life' = [p \in Primary |-> life[p] - 1]
    /\ UNCHANGED <<db, flight, call>>
Tick ==
    /\ Expire({p \in Primary : life[p] = 1})
    /\ life' = [p \in Primary |-> IF life[p] > 0 THEN life[p] - 1 ELSE life[p]]
    /\ UNCHANGED <<db, flight, call>>

Start(c) ==
    \/ \E r \in Request : Miss(c, r)
    \/ StartMany(c)
    \/ \E p \in Primary, row \in Row :
          \/ \E ref \in {p} \cup {<<f, row[f]>> : f \in Field} : Put(c, p, ref, row)
          \/ WriteUnreported(c, p, row)
    \/ \E p \in Primary, r \in Request, row \in Row \cup {None} : WriteThenEvict(c, p, r, row)

Proceed(c) ==
    \/ Lead(c) \/ Wait(c)
    \/ Load(c) \/ LoadFails(c)
    \/ Populate(c) \/ PopulateFails(c)
    \/ Finish(c)
    \/ LoadMany(c) \/ LoadManyFails(c)
    \/ \E p \in Primary : MissOne(c, p) \/ Fill(c, p) \/ FillFails(c, p)
    \/ StoreRow(c) \/ StoreFails(c)
    \/ Evict(c) \/ EvictFails(c)

CacheNext == Tick \/ \E c \in Caller : Start(c) \/ Proceed(c)

CacheSpec == CacheInit /\ [][CacheNext]_cacheVars

(* Time passes, and a request that was sent returns or fails. *)
FairSpec == CacheSpec /\ WF_cacheVars(Tick) /\ \A c \in Caller : WF_cacheVars(Proceed(c))
-------------------------------------------------------------------------------
(* One load per key and one per alias, and whoever waits waits for a       *)
(* caller that is still at it (alias_cache.go:82-86).                      *)
Leading(c) == call[c].at \in {"load", "populate", "finish"}
FlightIntegrity ==
    /\ \A c \in Caller : Leading(c) => flight[call[c].r] = c
    /\ \A r \in Request : flight[r] # None => Leading(flight[r]) /\ call[flight[r]].r = r
    /\ \A c \in Caller : call[c].at = "wait" => flight[call[c].r] # None

(* What is cached agrees with the source of truth: the rows are current,   *)
(* and an alias leads to the row that has it.                              *)
Truthful ==
    /\ \A p \in Primary : value[p] \in {None, IF db[p] = None THEN Marker ELSE db[p]}
    /\ \A f \in Field, a \in AliasValue : owner[f][a] # None => owner[f][a] \in RowsOf(<<f, a>>)

(* The TTL backstop of an alias group: whatever went unreported or failed, *)
(* and whatever late load registered an alias again that had moved, once   *)
(* nothing is written any more, through the cache or past it, the cache    *)
(* comes to agree with the source of truth.  Reads go on, but it takes a   *)
(* store whose reads do not fail for ever: a read that fails loads, and    *)
(* its populate gives the aliases the group has left a new life as well    *)
(* (hence no "get" among the Faults of that run).                          *)
Quiet == db' = db /\ \A c \in Caller : call'[c].at = "store" => call'[c] = call[c]
QuietConverges == <>[][Quiet]_cacheVars => <>[]Truthful

(* "A missed or failed invalidation self-heals within a bounded window"    *)
(* (README.md:57): once the rows no longer change, the cache comes to      *)
(* agree with them.  But every write of a primary key gives the aliases    *)
(* that are left with it a new life too, those the row no longer has       *)
(* included, so a record that is written often enough keeps them for ever. *)
BoundedStaleness == <>[][db' = db]_cacheVars => <>[]Truthful
===============================================================================
