----------------------------- MODULE ReadThrough -----------------------------
(***************************************************************************)
(* Cache[T] over a plain CacheStore (cache.go): read-through with one      *)
(* flight per key and instance, batched reads, write-through, delete-on-   *)
(* write, negative caching and the TTL backstop.  The source of truth is a *)
(* version number per key; what is cached is the version that was read or  *)
(* written.  At the versions of Absent the row does not exist, and what is *)
(* cached for them is the negative marker.                                 *)
(*                                                                         *)
(* A call is a sequence of steps, each the effect of one request to the    *)
(* store, the source of truth or the singleflight group; the steps of all  *)
(* the callers of all the instances interleave.                            *)
(***************************************************************************)
EXTENDS Integers

CONSTANTS
    Caller,       \* goroutines
    Instance,     \* processes, each with a Cache[T] and its singleflight group
    Home,         \* Home[c]: the process of c
    Key,
    MaxVersion,   \* bound on the writes of one key
    Absent,       \* versions at which there is no row
    PositiveTtl,  \* effective TTLs of values: positiveTTL() over all jitters
    NegativeTtl,  \* the same for negativeTTL(); {} when negative caching is off
    Singleflight, \* FALSE when Options.DisableSingleflight is set
    Faults,       \* which requests may fail
    None

ASSUME HomeAssumption == Home \in [Caller -> Instance]
ASSUME VersionAssumption == MaxVersion \in Nat /\ Absent \subseteq 0 .. MaxVersion
ASSUME TtlAssumption == PositiveTtl \subseteq Nat /\ NegativeTtl \subseteq Nat \ {0}
ASSUME SwitchAssumption ==
    /\ Singleflight \in BOOLEAN
    /\ Faults \subseteq {"get", "load", "write", "set", "delete", "crash"}
ASSUME NoneAssumption == None \notin Caller \cup Int

VARIABLES
    db,      \* db[k]: the version of the row
    cached,  \* cached[k]: the version in the store, None when there is no entry
    life,    \* life[k]: milliseconds the entry still has
    flight,  \* flight[i][k]: the caller that runs i's load of k, or None
    call     \* call[c]: where c is in its call, with what it has learnt

vars == <<db, cached, life, flight, call>>

Gone    == 0
Forever == -1
Version == 0 .. MaxVersion

Idle == [at |-> "idle"]
At(step, k)         == [at |-> step, k |-> k]
Having(step, k, n)  == [at |-> step, k |-> k, version |-> n]
Reading(todo, missing) ==
    IF todo # {} THEN [at |-> "read", todo |-> todo, missing |-> missing]
    ELSE IF missing # {} THEN [at |-> "loadmany", todo |-> missing]
    ELSE Idle
Filling(have)  == IF DOMAIN have = {} THEN Idle ELSE [at |-> "fill", have |-> have]
Evicting(todo) == IF todo = {} THEN Idle ELSE [at |-> "evict", todo |-> todo]

TypeOK ==
    /\ db \in [Key -> Version]
    /\ cached \in [Key -> Version \cup {None}]
    /\ life \in [Key -> {n \in Int : n >= Forever}]
    /\ \A k \in Key : cached[k] = None <=> life[k] = Gone
    /\ flight \in [Instance -> [Key -> Caller \cup {None}]]
    /\ call \in [Caller ->
          {Idle} \cup [at : {"join", "load", "wait", "finish"}, k : Key]
                 \cup [at : {"populate", "store"}, k : Key, version : Version]
                 \cup [at : {"read"}, todo : SUBSET Key, missing : SUBSET Key]
                 \cup [at : {"loadmany", "evict"}, todo : SUBSET Key]
                 \cup [at : {"fill"}, have : UNION {[K -> Version] : K \in SUBSET Key}]]

Init ==
    /\ db = [k \in Key |-> 0]
    /\ cached = [k \in Key |-> None]
    /\ life = [k \in Key |-> Gone]
    /\ flight = [i \in Instance |-> [k \in Key |-> None]]
    /\ call = [c \in Caller |-> Idle]

Continue(c, next) == call' = [call EXCEPT ![c] = next]

(* The store's Set: no expiry unless the TTL is positive. *)
(* A slip: the TTL is not passed on. *)
LifeOfForever(d) == Forever
LifeOf(d) == IF d > 0 THEN d ELSE Forever
(* A slip: an entry with an expiry that has passed. *)
SetEntryLapsed(k, n, d) ==
    /\ cached' = [cached EXCEPT ![k] = n]
    /\ life' = [life EXCEPT ![k] = Gone]
SetEntry(k, n, d) ==
    /\ cached' = [cached EXCEPT ![k] = n]
    /\ life' = [life EXCEPT ![k] = LifeOf(d)]
-------------------------------------------------------------------------------
(* GetByKey.  A hit returns and changes nothing, so it is not a step; a    *)
(* miss, a failed Get and an unreadable entry all lead to the load.        *)
Miss(c, k) ==
    /\ call[c] = Idle
    /\ cached[k] = None \/ "get" \in Faults
    /\ Continue(c, At("join", k))
    /\ UNCHANGED <<db, cached, life, flight>>

(* group.Do: the first caller loads, the others wait for its result. *)
(* A slip: a flight is started over another. *)
LeadUnguarded(c) ==
    /\ call[c].at = "join"
    /\ flight' = [flight EXCEPT ![Home[c]][call[c].k] = c]
    /\ Continue(c, At("load", call[c].k))
    /\ UNCHANGED <<db, cached, life>>
Lead(c) ==
    /\ call[c].at = "join"
    /\ Singleflight => flight[Home[c]][call[c].k] = None
    /\ flight' = IF Singleflight THEN [flight EXCEPT ![Home[c]][call[c].k] = c] ELSE flight
    /\ Continue(c, At("load", call[c].k))
    /\ UNCHANGED <<db, cached, life>>

Wait(c) ==
    /\ call[c].at = "join"
    /\ Singleflight /\ flight[Home[c]][call[c].k] # None
    /\ Continue(c, At("wait", call[c].k))
    /\ UNCHANGED <<db, cached, life, flight>>

(* The loader reads the row.  A missing row is cached only if negative     *)
(* caching is on.                                                          *)
Load(c) ==
    /\ call[c].at = "load"
    /\ LET k == call[c].k IN
          Continue(c, IF db[k] \in Absent /\ NegativeTtl = {} THEN At("finish", k)
                      ELSE Having("populate", k, db[k]))
    /\ UNCHANGED <<db, cached, life, flight>>

(* A transient error, or the leader's context is done: nothing is cached.  *)
LoadFails(c) ==
    /\ call[c].at = "load" /\ "load" \in Faults
    /\ Continue(c, At("finish", call[c].k))
    /\ UNCHANGED <<db, cached, life, flight>>

(* setValue with the marker and negativeTTL, or the value and positiveTTL. *)
Populate(c) ==
    /\ call[c].at = "populate"
    /\ \E d \in IF call[c].version \in Absent THEN NegativeTtl ELSE PositiveTtl :
          SetEntry(call[c].k, call[c].version, d)
    /\ Continue(c, At("finish", call[c].k))
    /\ UNCHANGED <<db, flight>>

(* Marshal or Set failed: the value is returned all the same. *)
PopulateFails(c) ==
    /\ call[c].at = "populate" /\ "set" \in Faults
    /\ Continue(c, At("finish", call[c].k))
    /\ UNCHANGED <<db, cached, life, flight>>

(* The function given to group.Do has returned: the flight is over, its    *)
(* leader and everyone who waited return with the same result.             *)
WaitersOf(c) == {w \in Caller : call[w] = At("wait", call[c].k) /\ Home[w] = Home[c]}

(* A slip: those who wait are not woken. *)
ReleasedLeaderOnly(c) == {c}
Released(c) == IF Singleflight THEN {c} \cup WaitersOf(c) ELSE {c}

Finish(c) ==
    /\ call[c].at = "finish"
    /\ flight' = IF Singleflight THEN [flight EXCEPT ![Home[c]][call[c].k] = None] ELSE flight
    /\ call' = [w \in Caller |-> IF w \in Released(c) THEN Idle ELSE call[w]]
    /\ UNCHANGED <<db, cached, life>>
-------------------------------------------------------------------------------
(* GetManyByKey: no flights.  The keys are read with one MGET or one by    *)
(* one, hence some of them at a time; if a read fails its keys count as    *)
(* missing.                                                                *)
StartMany(c, K) ==
    /\ call[c] = Idle
    /\ Continue(c, Reading(K, {}))
    /\ UNCHANGED <<db, cached, life, flight>>

ReadSome(c) ==
    /\ call[c].at = "read"
    /\ \E S \in SUBSET call[c].todo \ {{}} :
         LET absent == {k \in S : cached[k] = None} IN
         \E M \in IF "get" \in Faults THEN {M \in SUBSET S : absent \subseteq M} ELSE {absent} :
            Continue(c, Reading(call[c].todo \ S, call[c].missing \cup M))
    /\ UNCHANGED <<db, cached, life, flight>>

(* loadMissing, once for all the missing keys.                             *)
LoadMany(c) ==
    /\ call[c].at = "loadmany"
    /\ LET kept == {k \in call[c].todo : db[k] \in Absent => NegativeTtl # {}} IN
          Continue(c, Filling([k \in kept |-> db[k]]))
    /\ UNCHANGED <<db, cached, life, flight>>

LoadManyFails(c) ==
    /\ call[c].at = "loadmany" /\ "load" \in Faults
    /\ Continue(c, Idle)
    /\ UNCHANGED <<db, cached, life, flight>>

(* populateLoaded, one key after the other; a failed one is passed over.   *)
WithoutKey(have, k) == [j \in DOMAIN have \ {k} |-> have[j]]

Fill(c) ==
    /\ call[c].at = "fill"
    /\ \E k \in DOMAIN call[c].have :
         LET n == call[c].have[k] IN
         /\ \E d \in IF n \in Absent THEN NegativeTtl ELSE PositiveTtl : SetEntry(k, n, d)
         /\ Continue(c, Filling(WithoutKey(call[c].have, k)))
    /\ UNCHANGED <<db, flight>>

FillFails(c) ==
    /\ call[c].at = "fill" /\ "set" \in Faults
    /\ \E k \in DOMAIN call[c].have : Continue(c, Filling(WithoutKey(call[c].have, k)))
    /\ UNCHANGED <<db, cached, life, flight>>
-------------------------------------------------------------------------------
(* Writes.  The writer of PutByKey commits a row, never a missing one      *)
(* (ErrNilWrite); PutValueByKey is the same with the commit made by the    *)
(* application.                                                            *)
Commit(K) ==
    /\ \A k \in K : db[k] < MaxVersion
    /\ db' = [k \in Key |-> IF k \in K THEN db[k] + 1 ELSE db[k]]

PutByKey(c, k) ==
    /\ call[c] = Idle
    /\ Commit({k}) /\ db[k] + 1 \notin Absent
    /\ Continue(c, Having("store", k, db[k] + 1))
    /\ UNCHANGED <<cached, life, flight>>

(* The writer committed but returned an error, or the application died     *)
(* before it told the cache: the cache is untouched.                       *)
WriteUnreported(c, k) ==
    /\ call[c] = Idle /\ "write" \in Faults
    /\ Commit({k})
    /\ UNCHANGED <<cached, life, flight, call>>

StoreValue(c) ==
    /\ call[c].at = "store"
    /\ \E d \in PositiveTtl : SetEntry(call[c].k, call[c].version, d)
    /\ Continue(c, Idle)
    /\ UNCHANGED <<db, flight>>

(* WrittenNotCached. *)
StoreFails(c) ==
    /\ call[c].at = "store" /\ "set" \in Faults
    /\ Continue(c, Idle)
    /\ UNCHANGED <<db, cached, life, flight>>

(* Delete-on-write: the application changes or deletes rows, then calls    *)
(* EvictByKey or EvictManyByKey, which deletes one key after the other.    *)
WriteThenEvict(c, K) ==
    /\ call[c] = Idle
    /\ Commit(K)
    /\ Continue(c, Evicting(K))
    /\ UNCHANGED <<cached, life, flight>>

EvictByKey(c) ==
    /\ call[c].at = "evict"
    /\ \E k \in call[c].todo :
         /\ cached' = [cached EXCEPT ![k] = None]
         /\ life' = [life EXCEPT ![k] = Gone]
         /\ Continue(c, Evicting(call[c].todo \ {k}))
    /\ UNCHANGED <<db, flight>>

(* The errors are joined and returned after the last key; the application  *)
(* may or may not retry.                                                   *)
EvictFails(c) ==
    /\ call[c].at = "evict" /\ "delete" \in Faults
    /\ \E k \in call[c].todo : Continue(c, Evicting(call[c].todo \ {k}))
    /\ UNCHANGED <<db, cached, life, flight>>
-------------------------------------------------------------------------------
(* A process dies: its calls and its flights are gone. *)
Crash(i) ==
    /\ "crash" \in Faults
    /\ \E c \in Caller : Home[c] = i /\ call[c] # Idle
    /\ call' = [c \in Caller |-> IF Home[c] = i THEN Idle ELSE call[c]]
    /\ flight' = [flight EXCEPT ![i] = [k \in Key |-> None]]
    /\ UNCHANGED <<db, cached, life>>

(* A millisecond passes: the store drops every entry whose time is up. *)
Tick ==
    /\ cached' = [k \in Key |-> IF life[k] = 1 THEN None ELSE cached[k]]
    /\ life' = [k \in Key |-> IF life[k] > 0 THEN life[k] - 1 ELSE life[k]]
    /\ UNCHANGED <<db, flight, call>>

Start(c) ==
    \/ \E k \in Key : Miss(c, k) \/ PutByKey(c, k) \/ WriteUnreported(c, k)
    \/ \E K \in SUBSET Key \ {{}} : StartMany(c, K) \/ WriteThenEvict(c, K)

Proceed(c) ==
    \/ Lead(c) \/ Wait(c)
    \/ Load(c) \/ LoadFails(c)
    \/ Populate(c) \/ PopulateFails(c)
    \/ Finish(c)
    \/ ReadSome(c)
    \/ LoadMany(c) \/ LoadManyFails(c)
    \/ Fill(c) \/ FillFails(c)
    \/ StoreValue(c) \/ StoreFails(c)
    \/ EvictByKey(c) \/ EvictFails(c)

Next ==
    \/ \E c \in Caller : Start(c) \/ Proceed(c)
    \/ \E i \in Instance : Crash(i)
    \/ Tick

Spec == Init /\ [][Next]_vars

(* Time passes, and a request that was sent returns or fails: loaders,     *)
(* writers and stores are called with a context.                           *)
FairSpec == Spec /\ WF_vars(Tick) /\ \A c \in Caller : WF_vars(Proceed(c))
-------------------------------------------------------------------------------
Leading(c) == call[c].at \in {"load", "populate", "finish"}

(* Cache-stampede protection (README.md:61): per instance and key one      *)
(* caller loads, and whoever waits waits for a caller that is still at it, *)
(* through failed loads, failed populations and crashes (cache.go:229-233).*)
FlightIntegrity ==
    Singleflight =>
        /\ \A c \in Caller : Leading(c) => flight[Home[c]][call[c].k] = c
        /\ \A i \in Instance, k \in Key : flight[i][k] # None =>
              /\ Home[flight[i][k]] = i
              /\ Leading(flight[i][k]) /\ call[flight[i][k]].k = k
        /\ \A c \in Caller : call[c].at = "wait" => flight[Home[c]][call[c].k] # None

(* Every GetByKey, PutByKey and EvictByKey returns, the callers that wait  *)
(* for another's load included: no failure leaves them waiting.            *)
CallsReturn == \A c \in Caller : call[c] # Idle ~> call[c] = Idle

(* The TTL backstop (README.md:57): whatever writes went unreported,       *)
(* evictions failed or stale populations came late, once the row is no     *)
(* longer written the cache comes to hold its last version or nothing, and *)
(* stays so.  Here the writes stop because MaxVersion bounds them.         *)
Fresh == \A k \in Key : cached[k] \in {None, db[k]}
EventuallyFresh == <>[]Fresh

(* "Delete-on-write - writes evict rather than overwrite in place,         *)
(* avoiding the concurrent stale-set race" (README.md:59): when nothing    *)
(* failed and no call is under way, the cache holds no outdated version.   *)
(* A load that read the row before a write populates after its eviction,   *)
(* and two PutByKey store in another order than they committed.            *)
NoStaleSet == (\A c \in Caller : call[c] = Idle) => Fresh
===============================================================================
