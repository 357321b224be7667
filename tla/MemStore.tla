------------------------------- MODULE MemStore -------------------------------
(***************************************************************************)
(* The in-process plain store, memstore/memstore.go, at the level of its   *)
(* locks: a Get reads under the read lock, decides without a lock whether  *)
(* what it read has expired, and purges under the write lock; a Set fixes  *)
(* the expiry before it takes the lock.  Values do not matter here: an     *)
(* entry is its expiry.  GetMany is a Get for each key; Exists and a Get   *)
(* of an absent key change nothing.                                        *)
(***************************************************************************)
EXTENDS Integers

CONSTANTS
    Key, Caller,
    Ttl,          \* of the Sets; 0 for no expiry
    MaxNow,       \* a bound on the clock
    None

VARIABLES
    data,  \* data[k]: the expiry of the entry under k, None when there is none
    now,   \* the clock
    call   \* call[c]: where c is in a Set or a Get

vars == <<data, now, call>>

Never == -1
Idle  == [at |-> "idle"]
At(step, k, e) == [at |-> step, k |-> k, e |-> e]

Init ==
    /\ data = [k \in Key |-> None]
    /\ now = 0
    /\ call = [c \in Caller |-> Idle]

Continue(c, next) == call' = [call EXCEPT ![c] = next]
Without(S)        == data' = [k \in Key |-> IF k \in S THEN None ELSE data[k]]

Expired(e) == e # Never /\ now > e
-------------------------------------------------------------------------------
Set(c, k, ttl) ==
    /\ call[c] = Idle
    /\ Continue(c, At("set", k, IF ttl > 0 THEN now + ttl ELSE Never))
    /\ UNCHANGED <<data, now>>

StoreEntry(c) ==
    /\ call[c].at = "set"
    /\ data' = [data EXCEPT ![call[c].k] = call[c].e]
    /\ Continue(c, Idle)
    /\ UNCHANGED now

Get(c, k) ==
    /\ call[c] = Idle
    /\ data[k] # None
    /\ Continue(c, At("check", k, data[k]))
    /\ UNCHANGED <<data, now>>

Check(c) ==
    /\ call[c].at = "check"
    /\ Continue(c, IF Expired(call[c].e) THEN [call[c] EXCEPT !.at = "purge"] ELSE Idle)
    /\ UNCHANGED <<data, now>>

(* Only what was read is purged: the entry may be another by now. *)
(* A slip: whatever is there is purged. *)
PurgeAnything(c) ==
    /\ call[c].at = "purge"
    /\ Without({call[c].k})
    /\ Continue(c, Idle)
    /\ UNCHANGED now
Purge(c) ==
    /\ call[c].at = "purge"
    /\ Without({k \in {call[c].k} : data[k] = call[c].e})
    /\ Continue(c, Idle)
    /\ UNCHANGED now

(* Delete of one key, DeleteByPrefix of those that match. *)
Delete(S) == Without(S) /\ UNCHANGED <<now, call>>

Tick == now < MaxNow /\ now' = now + 1 /\ UNCHANGED <<data, call>>

Next ==
    \/ \E c \in Caller :
          \/ \E k \in Key : Get(c, k) \/ \E ttl \in Ttl : Set(c, k, ttl)
          \/ StoreEntry(c) \/ Check(c) \/ Purge(c)
    \/ \E S \in SUBSET Key : Delete(S)
    \/ Tick

Spec == Init /\ [][Next]_vars
-------------------------------------------------------------------------------
(* A Get that found an expired entry purges after it gave the lock up, and *)
(* tells what it read by its expiry alone (memstore.go:60-65).  It never   *)
(* takes a live entry away: what other callers set meanwhile stays, even   *)
(* with the same expiry instant, which then lies in the past.  A live      *)
(* entry goes by a delete, which is no step of a Get or a Set.             *)
PurgeSparesLive ==
    [][\A k \in Key : data[k] # None /\ ~Expired(data[k]) /\ data'[k] = None => call' = call]_vars
===============================================================================
