------------------------------- MODULE Manager --------------------------------
(***************************************************************************)
(* The manager (manager.go): goroutines that Register caches, or           *)
(* RegisterAliasGroup them.  Register runs under the manager's mutex: look *)
(* the name up, resolve the options and check them, make the metrics,      *)
(* enter the name.  RegisterAliasGroup then binds the alias strategy to    *)
(* the cache, after the mutex is given back.                               *)
(* What a cache has been given decides its key names (KeyNames) and the    *)
(* lifetimes it stores under (jitter.go; positiveTTL and negativeTTL in    *)
(* cache.go), which the other modules take as constants.                   *)
(*                                                                         *)
(* A fraction is a number of Parts, or NaN.  A panic (T a pointer, or not  *)
(* UniqueKeyed; a store without alias groups) and ErrEmptyName come before *)
(* the mutex is taken; they are left out.                                  *)
(***************************************************************************)
EXTENDS KeyNames, Integers, FiniteSets

CONSTANTS
    Caller,      \* goroutines that register, one cache each
    Token,       \* what texts are made of
    Name,        \* names to register under, texts
    Options,     \* option records; an option that is None is not given
    Defaults,    \* what the manager was made with: ttl, jitter, negativeTtl, disableSingleflight
    Text,        \* keys, fields and values of aliases
    Parts,       \* fractions are in Parts-ths
    HalfRange,   \* durations are -HalfRange .. HalfRange - 1, wrapping around
    NaN, None

Kind     == {"plain", "colocated", "sharded"}
Duration == -HalfRange .. HalfRange - 1
Fraction == Int \cup {NaN}
String   == Seq(Token)

(* What a cache has been given. *)
Configuration ==
    [kind : Kind, prefix : String, ttl : Duration, infinite : BOOLEAN,
     negativeTtl : Duration, jitter : Fraction, singleflight : BOOLEAN]

ASSUME PartsAssumption == Parts \in Nat \ {0} /\ HalfRange \in Nat \ {0}
ASSUME TokenAssumption == {":", "{", "}", "bc", "memb", "grp", "alias"} \subseteq Token
ASSUME TextAssumption == Name \cup Text \subseteq String
ASSUME OptionsAssumption ==
    Options \subseteq
        [group : BOOLEAN, mode : {"colocated", "sharded", None}, prefix : String \cup {None},
         ttl : Duration \cup {None}, infinite : BOOLEAN \cup {None},
         jitter : Fraction \cup {None}, negativeTtl : Duration \cup {None},
         disableSingleflight : BOOLEAN \cup {None}]
ASSUME DefaultsAssumption ==
    Defaults \in [ttl : Duration, jitter : Fraction, negativeTtl : Duration,
                  disableSingleflight : BOOLEAN]
ASSUME NoneAssumption == None \notin Configuration \cup Name

VARIABLES
    registry,  \* the names that are taken
    at,        \* at[p]: where the call of p is; "has" when p has a cache
    name,      \* name[p]: the name it registers, None without a call
    cache      \* cache[p]: what it resolved, then the Cache made of it, or None

vars == <<registry, at, name, cache>>

Inside == {"locked", "resolved", "measured"}

TypeOK ==
    /\ registry \subseteq Name
    /\ at \in [Caller -> {"idle", "bind", "has"} \cup Inside]
    /\ name \in [Caller -> Name \cup {None}]
    /\ cache \in [Caller -> Configuration \cup {None}]
    /\ \A p \in Caller :
          /\ at[p] = "idle" <=> name[p] = None
          /\ at[p] \in {"idle", "locked"} <=> cache[p] = None
          /\ at[p] \in {"measured", "bind", "has"} =>
                /\ cache[p].prefix # <<>>
                /\ cache[p].jitter = NaN \/ cache[p].jitter \in 0 .. Parts - 1

Init ==
    /\ registry = {}
    /\ at = [p \in Caller |-> "idle"]
    /\ name = [p \in Caller |-> None]
    /\ cache = [p \in Caller |-> None]
-------------------------------------------------------------------------------
Given(option, default) == IF option = None THEN default ELSE option

(* RegisterAliasGroup alone reads the mode, and its default is colocated. *)
KindOf(o) == IF ~o.group THEN "plain" ELSE Given(o.mode, "colocated")

Resolved(n, o) ==
    [kind         |-> KindOf(o),
     prefix       |-> Given(o.prefix, n),
     ttl          |-> Given(o.ttl, Defaults.ttl),
     infinite     |-> Given(o.infinite, FALSE),
     negativeTtl  |-> Given(o.negativeTtl, Defaults.negativeTtl),
     jitter       |-> Given(o.jitter, Defaults.jitter),
     singleflight |-> ~Given(o.disableSingleflight, Defaults.disableSingleflight)]

(* A slip: a TTL of zero is let through. *)
ValidTtlOffByOne(c) == c.ttl >= 0 \/ c.infinite
ValidTtl(c) == c.ttl > 0 \/ c.infinite

(* A comparison with NaN is false. *)
(* A slip: the whole may be shaved off, and more. *)
ValidJitterBelow(c) == c.jitter # NaN => c.jitter >= 0
ValidJitter(c) == c.jitter # NaN => ~(c.jitter < 0 \/ c.jitter >= Parts)

Valid(c) == c.prefix # <<>> /\ ValidTtl(c) /\ ValidJitter(c)

(* A slip: the mutex is not taken. *)
MutexFreeAlways == TRUE
MutexFree == \A p \in Caller : at[p] \notin Inside

Goes(p, from, to) == at[p] = from /\ at' = [at EXCEPT ![p] = to]

(* An error is returned: the mutex is given back, and p may call again. *)
Fails(p, from) ==
    /\ Goes(p, from, "idle")
    /\ name' = [name EXCEPT ![p] = None]
    /\ cache' = [cache EXCEPT ![p] = None]
    /\ UNCHANGED registry

Lock(p, n) ==
    /\ n # <<>> /\ MutexFree
    /\ Goes(p, "idle", "locked")
    /\ name' = [name EXCEPT ![p] = n]
    /\ UNCHANGED <<registry, cache>>

(* ErrDuplicateName. *)
Duplicate(p) ==
    /\ name[p] \in registry
    /\ Fails(p, "locked")

(* A slip: the name is taken as soon as it is known to be free. *)
ResolveTaking(p, o) ==
    /\ name[p] \notin registry
    /\ Goes(p, "locked", "resolved")
    /\ cache' = [cache EXCEPT ![p] = Resolved(name[p], o)]
    /\ registry' = registry \cup {name[p]}
    /\ UNCHANGED name
Resolve(p, o) ==
    /\ name[p] \notin registry
    /\ Goes(p, "locked", "resolved")
    /\ cache' = [cache EXCEPT ![p] = Resolved(name[p], o)]
    /\ UNCHANGED <<registry, name>>

(* ErrEmptyPrefix, ErrInvalidTTL, ErrInvalidJitterFraction. *)
Invalid(p) ==
    /\ at[p] = "resolved" /\ ~Valid(cache[p])
    /\ Fails(p, "resolved")

(* The metrics are made, or cannot be. *)
Measure(p) ==
    /\ at[p] = "resolved" /\ Valid(cache[p])
    /\ \/ Goes(p, "resolved", "measured") /\ UNCHANGED <<registry, name, cache>>
       \/ Fails(p, "resolved")

(* The name is entered and the mutex given back. *)
Enter(p) ==
    /\ at[p] = "measured"
    /\ Goes(p, "measured", IF cache[p].kind = "plain" THEN "has" ELSE "bind")
    /\ registry' = registry \cup {name[p]}
    /\ UNCHANGED <<name, cache>>

(* RegisterAliasGroup, once Register has returned. *)
Bind(p) ==
    /\ Goes(p, "bind", "has")
    /\ UNCHANGED <<registry, name, cache>>

CallerStep(p) ==
    \/ \E n \in Name : Lock(p, n)
    \/ \E o \in Options : Resolve(p, o)
    \/ Duplicate(p) \/ Invalid(p) \/ Measure(p) \/ Enter(p) \/ Bind(p)

Next == \E p \in Caller : CallerStep(p)

Spec == Init /\ [][Next]_vars
-------------------------------------------------------------------------------
(* applyJitter: all it may return.  What NaN becomes as a duration is left *)
(* to the build: 0, or the least one, and subtracting that wraps around.   *)
Wrapped(d) == ((d + HalfRange) % (2 * HalfRange)) - HalfRange

Delta(base, fraction) ==
    IF fraction = NaN THEN {0, -HalfRange}
    ELSE {(r * fraction * base) \div (Parts * Parts) : r \in 0 .. Parts - 1}

(* A slip: jitter that lengthens. *)
applyJitterUpward(base, fraction) ==
    IF base <= 0 \/ (fraction # NaN /\ fraction <= 0) THEN {base}
    ELSE {Wrapped(base + d) : d \in Delta(base, fraction)}
applyJitter(base, fraction) ==
    IF base <= 0 \/ (fraction # NaN /\ fraction <= 0) THEN {base}
    ELSE {Wrapped(base - d) : d \in Delta(base, fraction)}

positiveTTL(c) == IF c.infinite THEN {c.ttl} ELSE applyJitter(c.ttl, c.jitter)

(* {} when not-found answers are not cached. *)
negativeTTL(c) == IF c.negativeTtl > 0 THEN applyJitter(c.negativeTtl, c.jitter) ELSE {}
-------------------------------------------------------------------------------
(* The keys of a cache, and those that EvictByKeyPrefix(kp) takes. *)
Sharded(c) == c.kind = "sharded"
RecordKeys(c, pk) == {ValueKey(c.prefix, pk, Sharded(c)), MembersKey(c.prefix, pk, Sharded(c))}
PointerKeys(c)    == {PointerKey(c.prefix, f, a, Sharded(c)) : f \in Text, a \in Text}

KeysOf(c) ==
    IF c.kind = "plain" THEN {NonAliasKey(c.prefix, key) : key \in Text}
    ELSE PointerKeys(c) \cup UNION {RecordKeys(c, pk) : pk \in Text}

Sweeps(c, kp, key) ==
    IF c.kind = "plain" THEN IsPrefix(NonAliasKeyPrefix(c.prefix, kp), key)
    ELSE \/ Matches(ValueMatch(c.prefix, kp, Sharded(c)), key)
         \/ Matches(MembersMatch(c.prefix, kp, Sharded(c)), key)

Caches == {cache[p] : p \in {q \in Caller : at[q] = "has"}}
Group  == {c \in Caches : c.kind # "plain"}
-------------------------------------------------------------------------------
(* "A failed Register never consumes the name" (manager.go:131): a name is *)
(* taken exactly when some caller has its cache, or is about to, whatever  *)
(* fails between the look at the name (146) and its entry (234).           *)
Registered(p) == at[p] \in {"bind", "has"}
NoNameLost == registry = {name[p] : p \in {q \in Caller : Registered(q)}}

(* Of several callers who register a name at once, one gets a cache: its   *)
(* metrics and, by default, its keys are that cache's alone (manager.go:   *)
(* 144-148).                                                               *)
NameOnce == \A p, q \in Caller : Registered(p) /\ Registered(q) /\ name[p] = name[q] => p = q

(* "A value can never be cached forever by accident" (README.md:57), and   *)
(* jitter only ever shortens (jitter.go:21-23): unless AllowInfinite is    *)
(* set, every TTL a cache may hand to its store is positive, at most the   *)
(* configured one and at least its unshaved part.  Markers likewise, even  *)
(* under AllowInfinite.  The one exception is a fraction that is NaN,      *)
(* which Register lets through.                                            *)
Within(d, base, fraction) == d > 0 /\ d <= base /\ Parts * d >= (Parts - fraction) * base
TtlBackstop ==
    \A c \in Caches : c.jitter # NaN =>
        /\ ~c.infinite => \A d \in positiveTTL(c) : Within(d, c.ttl, c.jitter)
        /\ \A d \in negativeTTL(c) : Within(d, c.negativeTtl, c.jitter)

(* Caches keep out of each other's keys, also when a prefix is swept       *)
(* (roadmap.md:46, "No key collisions across caches"), under conditions    *)
(* that the code leaves to the application: two caches of a kind have      *)
(* different prefixes, no prefix holds a colon or a brace, and no plain    *)
(* cache is called memb or grp.                                            *)
Plainly(c) ==
    /\ \A i \in 1 .. Len(c.prefix) : c.prefix[i] \notin {":", "{", "}"}
    /\ c.kind = "plain" => c.prefix \notin {<<"memb">>, <<"grp">>}
CachesApart ==
    \A c, d \in {e \in Caches : Plainly(e)} : <<c.kind, c.prefix>> # <<d.kind, d.prefix>> =>
        \A key \in KeysOf(c) :
            /\ key \notin KeysOf(d)
            /\ \A kp \in Text \ {<<>>} : ~Sweeps(d, kp, key)

(* A sweep takes the keys whose logical key begins with its prefix, and no *)
(* other of the cache, whatever is in its name and keys; and it reads back *)
(* from a key the primary whose record it then evicts (keyspace.go:76-127).*)
SweepExact ==
    \A c \in Caches : \A k \in Text :
        LET keys == IF c.kind = "plain" THEN {NonAliasKey(c.prefix, k)} ELSE RecordKeys(c, k) IN
        /\ \A kp \in Text, key \in keys : Sweeps(c, kp, key) <=> IsPrefix(kp, k)
        /\ c.kind # "plain" =>
              /\ PrimaryFromValueKey(c.prefix, ValueKey(c.prefix, k, Sharded(c)), Sharded(c)) = {k}
              /\ PrimaryFromMembersKey(c.prefix, MembersKey(c.prefix, k, Sharded(c)), Sharded(c)) = {k}

(* Redis Cluster runs a script only if all its keys are on one slot: those *)
(* of a colocated cache are, those it builds itself from prefixes          *)
(* included, and the two of a sharded record are, unless the cache's name  *)
(* begins with a closing brace (keyspace.go:20-66).                        *)
ScriptKeys(c, pk) ==
    RecordKeys(c, pk) \cup
    IF Sharded(c) THEN {}
    ELSE PointerKeys(c)
         \cup {ColocatedValuePrefix(c.prefix) \o pk, ColocatedMembersPrefix(c.prefix) \o pk}
         \cup {ColocatedGrpPrefix(c.prefix) \o f \o Separator \o a : f \in Text, a \in Text}
OneSlot ==
    \A c \in Group : c.prefix[1] # "}" =>
        \A pk \in Text : Cardinality({HashTag(key) : key \in ScriptKeys(c, pk)}) = 1

(* Two aliases of a cache have two pointers and two flights, and no alias  *)
(* shares the flight of a primary key (alias_cache.go:83, cache.go:230),   *)
(* as long as no field holds a colon and no primary key begins with        *)
(* "alias:".  Callers who share a flight share its result, and GetByKey    *)
(* and GetByAlias cannot read each other's.                                *)
NamesApart ==
    LET Field   == {f \in Text : \A i \in 1 .. Len(f) : f[i] # ":"}
        Primary == {k \in Text : ~IsPrefix(<<"alias", ":">>, k)}
        Alias   == Field \X Text
        Flights == {FlightOfAlias(r[1], r[2]) : r \in Alias} IN
    \A c \in Group :
        /\ Cardinality({PointerKey(c.prefix, r[1], r[2], Sharded(c)) : r \in Alias}) = Cardinality(Alias)
        /\ Cardinality(Flights) = Cardinality(Alias)
        /\ Flights \cap {FlightOfKey(k) : k \in Primary} = {}
===============================================================================
