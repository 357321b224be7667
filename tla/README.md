# smartcache in TLA+

smartcache is a Go library: a generic cache `Cache[T]` that reads through a
loader, writes through a writer and deletes on write, over a backend the
application injects (Redis, or maps in the process). Caches may be *alias
groups*: a record is cached once under its primary key and can be read through
any number of aliases (`email`, `slug`). This directory models the parts where
calls interleave, requests fail and keys expire; TLC checks the models on small
instances, TLAPS proves every safety property that they check for every instance.

## 1. Inventory

| part | state | operations | with whom |
|---|---|---|---|
| `Cache[T]` (`cache.go`) | none but the singleflight group | `GetByKey`, `GetManyByKey`, `PutByKey`, `PutValueByKey`, `EvictByKey`, `EvictManyByKey`, `EvictByKeyPrefix`, value-derived `Put`, `PutValue`, `Evict` | application's loader and writer, `CacheStore` or `AliasOps` |
| alias-group calls (`alias_cache.go`) | the same group, flights named `alias:<field>:<value>` | `GetByAlias`, `PutAliased`, `PutAliasedValue`, `EvictByAlias` | `AliasOps` |
| `AliasOps` (`alias.go`) | value, hash of aliases and pointers of each record | `PutValue`, `PutByAlias`, `GetValue`, `GetByAlias`, `EvictByPrimary`, `EvictByAlias`, `EvictByPrimaryPrefix` | implemented by three backends |
| colocated (`redisstore/colocated.go`) | Redis keys on one slot | one Lua script per operation | Redis |
| sharded (`redisstore/sharded.go`) | record on one slot, each pointer on another | several commands per operation | Redis |
| in-process (`memstore/aliasops.go`) | maps under a mutex, expired entries included | one critical section per operation | – |
| plain stores (`memstore.go`, `redisstore.go`) | key to value and expiry | `Get`, `Set`, `Delete`, `GetMany`, `DeleteByPrefix` | Redis |
| prefix eviction (`prefix.go`, `scan.go`) | pages, found primaries, count, errors | SCAN of every node, then deletions | Redis |
| key names (`keyspace.go`) | – | put together and take apart | all backends, the caches of a manager with each other |
| manager (`manager.go`, `jitter.go`) | registry of names | `Register`, `RegisterAliasGroup`, effective TTL | makes `Cache[T]` and chooses its names and lifetimes |
| telemetry (`telemetry.go`) | counters | record | – |

What is hard in it: callers that share one load; a populate that comes after the
write it should have seen; aliases that move between records, with two sides of a
relation to repair; a group of keys that must expire as one, although each has an
expiry of its own; in sharded mode all of this over commands that interleave and
get lost; expired entries that memstore keeps, or purges after it gave up its lock; sweeps
over nodes that change underneath; names that are joined without escaping; registrations at once. `PROJECT.json` lists each of these as a hazard at its line.

What makes each part correct:

* plain cache: one load per key and process; every call returns; after the last
  write the cache comes to hold the last version or nothing (the TTL backstop).
* alias-group cache: no alias leads to deleted data, one alias per field; the
  same for flights and backstop, aliases included.
* backends: hashes and pointers agree; value, hash and pointers of a group have
  one life; nothing else than what `AliasGroup` allows is ever visible. Sharded
  cannot promise that; it promises that an alias leads to a record only where a
  `PutByAlias` says so, that a clean-up never harms another record, and that
  whatever was left behind goes.
* plain store: a read that comes late takes nothing away that was set meanwhile.
* manager: a registration that fails takes no name, wherever it fails, and a name is
  given once, however many ask for it at once; whatever options were accepted, no
  lifetime is endless or longer than configured.
* key names: no two caches, aliases or flights share a name by accident, a sweep takes
  its prefix exactly, the keys of a script are on one slot.
* prefix eviction, for a prefix that is UTF-8: success means that nothing with the
  prefix that was there all along is left, and no other key is taken. A plain cache's count is
  never more than the keys removed, and short of them by at most one per error returned (an alias
  group's counts evictions that returned no error, whether or not the record was still there: its meaning in
  the code). It ends although others write.

## 2. Modules

    AliasTypes ── Colocated ── MCColocated          AliasGroup ── AliasCache ── MCAliasCache
         ├─────── MemAlias ── MCMemAlias                └ instantiated by Colocated, MemAlias
         └─────── Sharded ── ShardedHistory         MemStore, instantiated by MCMemAlias
    KeyNames ── Manager ── MCManager                ReadThrough ── MCReadThrough
                                                    PrefixEvict ── MCPrefixEvict

The theorems about `X` are in `XProofs`, which extends it: ColocatedProofs, MemAliasProofs, ShardedProofs,
AliasCacheProofs (AliasGroup's among them), MemStoreProofs, ReadThroughProofs, PrefixEvictProofs, ManagerProofs
(KeyNames' among them).

**AliasTypes**: the constants and the arithmetic of lifetimes. A lifetime is the
number of milliseconds a key still has, `Forever` (-1) without expiry, `Gone` (0)
when it no longer counts. A clock tick is a decrement, so there is no clock to
bound. `PerMs` is how many duration units make a millisecond: 1 when all
durations are whole milliseconds, 2 to have durations that are not. `ScriptLife`
is what `ttl.Milliseconds()` and the script's `ttl > 0` make of a duration.

**AliasGroup**, the abstract specification: `value[p]` and `owner[f][a]`; any set of
groups may expire, but only whole ones. **Colocated** and **MemAlias** implement it
(`GroupSpec`, `StoredSpec`: `owner` is the pointer, a tick is an `Expire` step, or in
MemAlias a stutter because the maps keep expired entries).

**Colocated**: one action per script. The keys of a group have lifetimes of their
own, as in Redis; `Synced` says that they agree, and is something the scripts have to
achieve. **MemAlias**: one action per critical section; an entry may be in the map
with the lifetime `Gone`; `visibleValue` and `visibleOwner` are what readers see.

**Sharded**: one action per command. `call[c]` is the command client `c` sends
next. `SetPointer` is the SET after `record_put.lua`, `UnlinkOne` one
`pointer_cdel.lua`; `SkipOne` drops its error as the code does; `EndCall` ends a
call anywhere (failed command, dead client). PutValue is a single script and needs no client.
**ShardedHistory** adds what was last registered under each alias, which no command reads.

**ReadThrough**: `Cache[T]` over a plain store. The source of truth is a version
number per key, and what is cached is the version that was read or written. Every
request to the store, the database and the singleflight group is a step of its
own; hits change nothing and are not steps. Each request may fail (`Faults`), and a process may
crash. A store whose reply was lost has had its effect: that is the successful
step, whose result nothing else reads. The batched read takes any part of its keys at a
time, which covers both the MGET and the key-by-key reads.

**AliasCache** EXTENDS AliasGroup: the calls of an alias-group cache as `ReadThrough` has
them for a plain one, with `Store`, `Remove` and `Tick` made of AliasGroup's actions. A row of the
source of truth says which alias it has; no two rows share one. Its backend is the colocated one: operations
are atomic, the life of a group is one number because `AlwaysSynced` is proved of Colocated, and `Tick` drops a
group's aliases with its value. It does not stand for a cache over memstore, where the aliases of an expired
group stay in the maps and every `PutValue`, the populate of a `GetByKey` that missed included, makes them
resolve again (`aliasops.go:145-158`, in MemAlias). `GetManyByKey` reads each key by itself,
as `aliasOps.GetValue` does, loads what missed outside the flights, and stores key by key.

**MemStore**: the plain in-process store at the level of its locks. `Get` is three steps:
read under the read lock (`Get`), decide without one (`Check`), purge under the write
lock (`Purge`). `Set` is two, since it takes the time before it takes the lock. An entry is its expiry, for
that is all the purge compares. MCMemAlias checks it beside MemAlias: one memstore
serves both, with keys that are apart (`CachesApart`), so `use` picks one of the two.

**KeyNames**: every function of `keyspace.go`, and the names given to singleflight, over
texts, which are sequences of characters and of the words the code puts in (both are a `Token` of Manager). It has no state. `HashTag` is
Redis Cluster's rule.

**Manager**: goroutines that register, one cache each. `at[p]` is where the call of `p` is:
`Lock` takes the mutex; under it `Duplicate` or `Resolve` looks the name up, `Invalid` or `Measure` checks the
options and makes the metrics, `Enter` enters the name and gives the mutex back; every error return is `Fails`.
`RegisterAliasGroup` calls `Register` and binds the alias strategy after it has returned, without the mutex
(`Bind`); the group is in nobody else's hands yet. `MutexFree` is the mutex: who is `Inside` has it. `cache[p]` is what was resolved, then the cache made of
it. `applyJitter` is the set of all it may return, in arithmetic that wraps around. The keys of the caches it has
made are those that the properties about names compare.

**PrefixEvict**: one `EvictByKeyPrefix` on Redis, plain or alias group, among writes, evictions and expiries
of others. SCAN has a cursor that goes once through the slots of a node's table (`left[n]`); a page returns every
matching key stored in the slots it goes through, and may repeat keys of slots that it has passed. So a key that is
there during the whole scan is returned, others may be, and the scan ends. A key keeps its slot: that a resize or the
resharding of the cluster moves keys during the scan is not modelled. `globLiteral` is a function of the prefix, `Runes`: what ranging over its runes makes of
it. The callback of a plain cache deletes key by key under the mutex (`Lock` to `Unlock`); `deleted += n` and
the append to `errs` are a read and a write each (`ReadBack`, `WriteBack`), so that it is the mutex, and not the grain
of the model, that keeps the pages of two nodes from losing an addition. A DEL may fail after it was executed.

Operators marked *a slip* are a definition with a plausible bug. No specification
uses them: with one in place of its definition, the property named in
`PROJECT.json` fails.

## 3. What is checked

| run | instance | shows |
|---|---|---|
| `read_through` | 2 callers of one process, 2 keys, 3 writes per key, the second version no row, all faults | `FlightIntegrity`, `CallsReturn`, `EventuallyFresh` |
| `stale_set` | 2 callers, 1 key, no fault | violated: README:59 promises no stale set |
| `alias_cache` | 2 callers, 2 records, 1 field, 2 aliases, all faults but failed reads | `NoDanglingAlias`, `OneAliasPerField`, `FlightIntegrity`, `QuietConverges` |
| `registry` | 2 callers, 2 names, 4 kinds × 10 prefixes, TTLs × jitter × negative TTLs, texts of 2 characters | `NoNameLost`, `NameOnce`, `TtlBackstop`, `CachesApart`, `SweepExact`, `OneSlot`, `NamesApart` |
| `alias_backstop` | 1 caller, no fault | violated: README:57's bounded window |
| `colocated` | 2 records, 2 fields, 2 aliases, TTLs none, 1, 2 ms | `Agree`, `Synced`, `GroupSpec` |
| `colocated_sub_ms` | TTLs of 0.5 and 1 ms | violated: README:57's "never forever" |
| `sharded` | 2 clients, 2 records, 1 field, 2 aliases, TTL 2 ms | `RecordSynced`, `AliasOnlyByPut`, `EvictKeepsForeign`, `SelfHeals` |
| `sharded_steal` | 1 client, 2 records | violated: "never a wrong value" |
| `sharded_evict_alias` | 1 client, 1 record, TTLs 1, 2 ms | violated: README:396 on EvictByAlias |
| `mem_alias` | as `colocated`; and 2 callers, 2 keys, TTLs none, 1, 2, clock to 4 | `Whole`, `StoredSpec`; `PurgeSparesLive` |
| `prefix_evict` | 2 nodes, 3 slots, 3 names with the prefix and 1 without, a prefix in UTF-8 and one not, both kinds of cache, all faults | `Complete`, `CountExact`, `SparesOthers`, `Returns` |

Bounds. Two records and two aliases are what a replacement, a steal and both at once
take; a third of either only repeats one of them. For the safety properties the proofs of section 5
remove every bound on records, aliases, callers, nodes, TTLs and texts; the bounds matter to the liveness
properties and to the runs that find violations. Two clients give every pair of calls; a
sharded call keeps no memory beyond its own arguments, so a third client can only put more
commands between two of another, and those commands are there already. TTLs 1 and
2 let one key outlive another by a tick; one TTL of 2 suffices in `sharded`, where
refreshes at different ticks do that. `alias_cache` has one TTL of 1: a late populate gives a
life that ends, which is all `QuietConverges` needs, and the groups of two records still run out
at different ticks. `MaxVersion` 3 allows a write between a load and its
populate, another after it, and two `PutByKey` of one key at once: version 1 is a deleted row, and 2 and 3 may
both be committed before either is stored. The TTLs there are 1; which of two finite lives an entry has makes
no difference to `EventuallyFresh`. `stale_set` needs a single write.
`prefix_evict` starts from every distribution of the keys. Two matching keys are on one node, so that a page
may return the first of them again and again before the cursor comes to the second, and one on the other node, so
that two callbacks compete. `u` stands for U+FFFD and `raw` for a byte that `Runes` turns into it.
The clock of MemStore goes to 4: a TTL of 2 set at tick 1 or 2, expired, and a Set with the same
expiry instant after it. In `registry`, prefixes vary with kinds and TTLs with jitter, because no line of
`Register` reads options of both; fractions are tenths and durations 8 bits wide, so
that wrapping around happens. Its texts are all of at most two of `a`, `:`, `}`, with
those that begin with `alias:`, hold a colon inside or open a brace: each hypothesis that
`CachesApart`, `OneSlot` and `NamesApart` make fails the run when it is left out.
`Perms` and `Callers` in the MC modules permute names and callers that the code treats alike; they are
used in runs of safety properties only.

Fairness. `FairSpec` asks that time passes, and that a request which was sent
returns or fails: the code calls loaders, writers and go-redis with a
context and go-redis has timeouts, and a goroutine that can run is run. Nobody is
asked to start a call. In `PrefixEvict` it is weak fairness of the call as a whole: when it can make a step it makes
one. That a scan ends follows from its cursor, and that the rest does from its pages and primaries being finite.

Deadlock is checked everywhere but in `registry`, where every caller may have its cache and nothing is left to do.

`QuietConverges` needs a store whose reads do not fail for ever: a failed read
loads, and its populate (a `PutValue`) gives the whole group a new life,
outdated aliases included. It is the behaviour of `BoundedStaleness`, met on the read path.

## 4. Where code and documents disagree

Five runs are expected to be violated; `PROJECT.json` quotes the sentence each contradicts.

* `stale_set`: a load that is late populates after the eviction of the write it
  missed. TTL-bounded (`EventuallyFresh` holds).
* `alias_backstop`: an alias which a row gave up is kept alive by every write by primary key.
* `colocated_sub_ms`: a TTL that is under 1 ms is stored as no TTL.
* `sharded_evict_alias`: `EvictByAlias` is a silent no-op while the record is cached.
* `sharded_steal`: an alias whose move to another record was interrupted serves the old record.

More that have no run of their own:

* `docs/1-alias-cache-design.md:397` has the pointer of a replaced alias removed by a later
  `EvictByPrimary`, but `record_put.lua:4` has overwritten the field that would lead there (only its TTL
  removes it, as `SelfHeals` shows).
* memstore's refresh (`aliasops.go:145-158`) makes aliases of an expired group resolve
  again, which neither Redis backend does, against `docs/1-alias-cache-design.md:624`. It happens at every
  `PutValue`, so also when a `GetByKey` populates after the expiry: an alias that its row gave up comes back
  without a write or a fault. `QuietConverges` is therefore claimed of the colocated backend only.
* `cache.go:322` has `EvictByKeyPrefix` delete "every cache entry whose logical key starts with keyPrefix", and
  `:328` calls the prefix literal. A prefix with a byte that is not UTF-8 does not reach SCAN as it is:
  `globLiteral` (`scan.go:86-91`) writes U+FFFD for it. The sweep then returns no error with the matching keys still
  stored, and on a plain cache deletes the keys that begin with U+FFFD at that place instead (an alias group compares the primaries
  it finds with the prefix itself, `prefix.go:37`). A cache whose `Prefix` is not UTF-8 has the
  same trouble with every sweep. `Complete` and, for plain caches, `SparesOthers` are about UTF-8 prefixes; both
  fail on the run's `raw` without that condition.
* `roadmap.md:46` says "No key collisions across caches." and `docs/1-alias-cache-design.md:725` "keys
  globally unique". Nothing refuses one `Prefix` for two caches, and `::` and braces are
  not escaped. `CachesApart` states the conditions under which the sentence is true: different prefixes
  within a kind, none with a colon or a brace, no plain cache called `memb` or `grp`.
* `alias_cache.go:94` and `cache.go:247` say that the load of a flight (always) returns a `*loadResult`.
  Each function has a type of that name. When a primary key is `alias:email:x`, its `GetByKey` joins the flight of
  the alias `email`/`x`; the assertion fails, its `ok` is dropped, and `out.populated` dereferences nil. A field
  with a colon makes two aliases share a flight. `NamesApart` states when neither happens.
* `README.md:539` has `Register` refuse a jitter fraction outside [0, 1); it takes one that is NaN (`manager.go:188`). What it does to a TTL depends on the build (`TtlBackstop` leaves it out).
* `README.md:101` has `GetManyByKey` report `Loaded` for a key that was not found "whether or not
  negative caching is enabled"; it counts `LoadedNotCached` when the marker's Set fails
  (`cache.go:488-491`), where `GetByKey` counts `Loaded` (`cache.go:204-207`).
* An alias with an empty field is no alias to the Redis scripts (`put.lua:8`, `record_put.lua:3`), so
  `PutAliased` reports `Written` and the alias never resolves; memstore registers it.
* `cache.go:92` gives the stored key as `bc:<Prefix>:<key>`; it is `bc::<Prefix>::<key>`.

## 5. What is proved

Every invariant and every action property of a run that passes, and all three refinements, as theorems about the
specification, for any values of the constants. Each proof has the same shape: an inductive invariant
`IInv`, one lemma or step per action that shows it is kept, and the properties as consequences of it. What follows
names what `IInv` is and why the properties need it.

**AliasCacheProofs.** From `NothingAssumption` (`None` is no primary and no value). `Safe` (types,
`NoDanglingAlias`, `OneAliasPerField`) of AliasGroup is inductive as it stands; `NeverDangling` and
`AlwaysOneAlias` follow. `ImplementsGroup`: `CacheSpec => Spec`, a cache over an alias group is one to whoever
looks at the group only. Every step of a caller or of the clock is an operation of AliasGroup or none. To show that
an operation is called with a row and an alias of the right kind, `IInv` says of a call in progress that it stores under an
alias or under the very primary it loaded. From the refinement, `CacheNeverDangling` and
`CacheOneAlias`; from `IInv`, `TypeCorrect` (`CacheTypeOK`) and `AlwaysFlightIntegrity`. `CallerAssumption`: a
caller is not `None`.

**ReadThroughProofs.** `IInv == TypeOK /\ FlightIntegrity`, for any callers, processes, keys, and
failing requests: `TypeCorrect`, `AlwaysFlightIntegrity`. A step starts a flight, ends
one, joins one, crashes a process, or leaves flights alone; where a call is and its key is all the argument uses.

**ColocatedProofs**, from `NoneAssumption`, `TtlAssumption` and `PerMsAssumption` of AliasTypes:
`IInv == TypeOK /\ Agree /\ Synced` is inductive. None of its parts is alone: an
eviction finds the pointers it deletes through the hash, so `Synced` needs `Agree`; a tick
drops the hash and its pointers at once only because their lives are equal, so
`Agree` needs `Synced`. From it:

* `TypeCorrect`, `AlwaysAgree`, `AlwaysSynced`;
* `Backstop`: if every duration is a millisecond or more (`Milliseconds(d) > 0`), `[]NeverForever`. The
  run `colocated_sub_ms` shows that the hypothesis is needed;
* `Implements`: `Spec => Group!Spec`. Each script is the abstract operation of the same
  name, and a tick is `Expire` of the groups whose value has run out, which takes
  `Synced` for the hash and the pointers.

**MemAliasProofs**, from the same assumptions. The maps keep expired entries, so `IInv` has
`Linked` and `OneLife` where Colocated has `Agree` and `Synced`: hash and pointers name each other
whether they have expired or not, and what is stored of a group has one life, which may have run out.
`TypeCorrect`; `AlwaysWhole`, what readers see of it; `Implements` (`StoredSpec`), where a tick is a stutter.

**ShardedProofs**, from the same assumptions. `IInv == TypeOK /\ RecordSynced /\ PointerSynced`. The last
part, that a pointer has a life exactly as long as it is stored, is what the two action properties need: only a pointer in
its last millisecond is dropped by the clock. `TypeCorrect`, `AlwaysRecordSynced`, `OnlyByPut`
(`AliasOnlyByPut`) and `ForeignKept` (`EvictKeepsForeign`), for any number of clients.

**MemStoreProofs.** `AlwaysPurgeSparesLive`, for any callers, keys and clock, if TTLs are integers and `None` is
none (as for the code's durations and its absent entries). `Seen`, the second part of `IInv`: what a Get is about to purge has expired. It stays
so because the clock does not go back; so an entry with the expiry that was read has expired, whoever wrote it.

**PrefixEvictProofs.** `TypeCorrect`, `AlwaysComplete`, `AlwaysCountExact`, `AlwaysSparesOthers`, for any number of
nodes, slots and keys. `IInv == TypeOK /\ Flow /\ Counts /\ Owing`. `Flow`: a page and a callback belong to a scan that goes
on, the keys of a page match, and only one callback is under way. `Counts`: `removed` lies between the count and the count plus the
errors, when the reply or the sum that the one callback at work carries is added to them; this is where losing the mutex
would show. `Complete` speaks of the end of the call; `Owing` is what it takes before: as long as
nothing failed, a matching key that was there all along is in a slot still to come, or on a page, or its primary is noted,
or its family is still to come. Assumptions: `KeyAssumption`, `PrefixAssumption`, `SlotAssumption`, which give the
constants their types (a key has one slot, a slot one node), and `FaultAssumption`.

**ManagerProofs.** `IInv == TypeOK /\ Checked /\ Alone /\ Fresh /\ Entered /\ NameOnce`. `Checked`: what is past the checks
has a valid TTL. `Alone`: one caller at most is under the mutex. `Fresh`: the name of who has resolved its options is not
taken, since by `Alone` nobody else can have entered it since it was looked up; so an `Enter` keeps `NameOnce`. `Entered` is
`NoNameLost` name by name. `TypeCorrect`, `NeverNameLost`, `AlwaysNameOnce`, for any number of
callers, and

* `AlwaysTtlBackstop`: arithmetic from `Checked`. The jitter takes off less than the whole, rounded down, and
  the subtraction does not leave the range of durations, so it does not wrap;
* `AlwaysSweepExact`: a key is a head, the part a caller chose, and an ending; a prefix of the key that is longer than the
  head is the head and a prefix of the chosen part, because the length test in `Match` keeps prefix and suffix from overlapping;
* `AlwaysCachesApart`: what all keys of a cache begin with ends at the first colon or brace of its name's delimiter,
  because the name holds none; two such beginnings of one text are those of one cache;
* `AlwaysOneSlot`: the first `{` of a key is the one before the name, and the first `}` behind it is in the name or
  right behind it (sharded: in name and key), so the tag depends on nothing else;
* `AlwaysNamesApart`, for a finite set of texts (it compares cardinalities): a field without a colon ends at the first one.

These hold for names, keys, fields and values of any length over any set of tokens that has the words and delimiters of the code
(`TokenAssumption`); `TextAssumption`, `OptionsAssumption` and `DefaultsAssumption` give texts and options their
types, `PartsAssumption` a range to the arithmetic, and `NoneAssumption` tells no cache from a cache.

Only model-checked: liveness, which (with `ENABLED`) TLAPS cannot prove: `CallsReturn` and
`EventuallyFresh` of ReadThrough, `QuietConverges` of AliasCache, `SelfHeals` of Sharded, `Returns` of PrefixEvict. And what
the five runs of section 4 find violated, which no theorem could state.

## 6. Not modelled

* Telemetry: counters that nothing reads, each added to in the step that returns; and the life of an exporter (`NewManager`, `Shutdown`).
* Codecs: a value that cannot be read counts as a miss, one that
  cannot be marshalled as a failed store. Misuse errors (`ErrNotAliasGroup`, `ErrEmptyKeyPrefix`, ...) and
  panics return before anything happens.
* SCAN over a table that is resized, or a cluster that is resharded, while the sweep goes on.
* `DisableSingleflight`: without flights every call that misses loads, as `GetManyByKey` does.
* An alias-group cache over the sharded backend (`AliasCache` takes the backend's operations as atomic) and over
  memstore (it drops a group's aliases when the group expires).
* Empty fields of aliases (section 4). The growth of memstore's maps: expired aliases stay there
  until they are written or evicted, and `StoredSpec` shows that nothing else stays.
* A miss of memstore's `Get` for a key that was never without a live entry (one entry read, overwritten and
  expired before it is judged): the behaviour is in MemStore, and costs a load.
* Clock skew, Redis failover and replication lag: no replica or failover logic in this code.

## 7. Plan

Done: AliasTypes, AliasGroup, Colocated, Sharded, MemAlias, MemStore, ReadThrough, AliasCache,
PrefixEvict, KeyNames, Manager, and the proofs of section 5.

Next proofs: the safety halves of the liveness properties. For `SelfHeals`, that a pointer which does not
lead to a cached record with its field is never refreshed (so that its life only goes down); for `EventuallyFresh`, that
once the last write is done no entry that is older is stored but by a load that had begun; for
`Returns`, that who holds the mutex is not waiting for it. What alias and primary reads of ShardedHistory agree on when
no put was interrupted.

Left to model: the calls of an alias-group cache over the sharded backend, command by
command, and over memstore, with the aliases it revives; the outcome counters.
