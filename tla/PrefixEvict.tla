------------------------------ MODULE PrefixEvict ------------------------------
(***************************************************************************)
(* EvictByKeyPrefix on Redis (cache.go, redisstore/redisstore.go,          *)
(* redisstore/prefix.go, redisstore/scan.go): find the keys with SCAN on   *)
(* every node, then delete them, while other clients write and evict and   *)
(* keys expire.                                                            *)
(*   plain cache   every page of a scan is deleted as it arrives, one DEL  *)
(*                 per key, in a callback that the nodes' scans share      *)
(*                 under a mutex                                           *)
(*   alias group   the value keys are scanned, then the hashes; the        *)
(*                 primaries found are evicted once both scans are over    *)
(*                                                                         *)
(* The cursor of a SCAN goes once through the slots of a node's table.  A  *)
(* page holds the matching keys of the slots it went through, and may hold *)
(* keys of slots that it had gone through before.                          *)
(***************************************************************************)
EXTENDS Integers

CONSTANTS
    Name,     \* logical keys, primaries
    Key,      \* the keys that clients use: <<family, name>>
    Prefix,   \* prefixes the call is made with (not empty, without '*')
    Begins,   \* Begins[p]: the names that begin with p
    Runes,    \* Runes[p]: p with each byte that is not UTF-8 made U+FFFD
    Node,     \* the masters of the cluster, or the one server
    Slot,     \* the slots of the nodes' tables
    SlotOf,   \* SlotOf[k]: the slot where k is, when it is stored
    NodeOf,   \* NodeOf[s]: the node whose slot s is
    Faults    \* "scan", "delete": which requests may fail

Family == {"plain", "value", "members"}

ASSUME KeyAssumption == Key \subseteq Family \X Name
ASSUME PrefixAssumption ==
    Begins \in [Prefix -> SUBSET Name] /\ Runes \in [Prefix -> Prefix]
ASSUME SlotAssumption == SlotOf \in [Key -> Slot] /\ NodeOf \in [Slot -> Node]
ASSUME FaultAssumption == Faults \subseteq {"scan", "delete"}

(* globLiteral takes the prefix rune by rune, and escapes what is special. *)
(* A slip: what is special is not escaped, and '?' matches anything. *)
MatchingUnescaped(family, p) == {k \in Key : k[1] = family}
globLiteral(p) == Runes[p]
Matching(family, p) == {k \in Key : k[1] = family /\ k[2] \in Begins[globLiteral(p)]}

VARIABLES
    stored,   \* the keys that are stored
    prefix,   \* what the call is given
    phase,    \* what the call does: idle, scan, evict, done
    family,   \* the family it scans
    left,     \* left[n]: the slots that the cursor of n has yet to go through
    page,     \* page[n]: what n returned and the callback has not handled
    at,       \* at[n]: where the callback of n is
    num,      \* num[n]: the reply of a DEL, then the number to write back
    scanErr,  \* whether the scan of some node has failed
    found,    \* primaries to evict
    count,    \* the number the call will return
    errs,     \* how many errors it will return
    removed,  \* how many keys its DELs have removed (history)
    stable    \* keys with the prefix stored ever since it began (history)

callback == <<at, num>>
scanning == <<family, left, page, callback, scanErr>>
result   == <<found, count, errs>>
history  == <<removed, stable>>
vars     == <<stored, prefix, phase, scanning, result, history>>

SlotsOf(n) == {s \in Slot : NodeOf[s] = n}
Victims == {k \in Key : k[2] \in Begins[prefix]}

TypeOK ==
    /\ stored \subseteq Key
    /\ prefix \in Prefix
    /\ phase \in {"idle", "scan", "evict", "done"}
    /\ family \in Family
    /\ left \in [Node -> SUBSET Slot]
    /\ page \in [Node -> SUBSET Key]
    /\ at \in [Node -> {"out", "in", "reply", "error", "count", "errs"}]
    /\ num \in [Node -> Nat]
    /\ scanErr \in BOOLEAN
    /\ found \subseteq Begins[prefix]
    /\ count \in Nat /\ errs \in Nat /\ removed \in Nat
    /\ stable \subseteq stored

(* The family says of which kind the cache is. *)
Init ==
    /\ family \in {"plain", "value"}
    /\ stored \in SUBSET {k \in Key : k[1] = "plain" <=> family = "plain"}
    /\ prefix \in Prefix
    /\ phase = "idle"
    /\ left = [n \in Node |-> {}] /\ page = [n \in Node |-> {}]
    /\ at = [n \in Node |-> "out"] /\ num = [n \in Node |-> 0]
    /\ scanErr = FALSE
    /\ found = {} /\ count = 0 /\ errs = 0
    /\ removed = 0 /\ stable = {}
-------------------------------------------------------------------------------
(* Other clients. *)

Gone(K) ==
    /\ stored' = stored \ K
    /\ stable' = stable \ K

Appear(k) ==
    /\ k \notin stored
    /\ k[1] = "plain" <=> family = "plain"
    /\ stored' = stored \cup {k}
    /\ UNCHANGED <<prefix, phase, scanning, result, history>>

(* Deleted, evicted or expired. *)
Disappear(k) ==
    /\ k \in stored
    /\ Gone({k})
    /\ UNCHANGED <<prefix, phase, scanning, result, removed>>
-------------------------------------------------------------------------------
(* The scans.                                                              *)

Scan(f) ==
    /\ phase' = "scan" /\ family' = f
    /\ left' = [n \in Node |-> SlotsOf(n)]

(* evictPrefix: a plain cache asks its store, an alias group its strategy. *)
Start ==
    /\ phase = "idle"
    /\ Scan(family)
    /\ stable' = Victims \cap stored
    /\ UNCHANGED <<stored, prefix, page, callback, scanErr, result, removed>>

Asking(n) == left[n] # {} /\ page[n] = {} /\ at[n] = "out"

(* scanNode: the cursor of n goes through the slots S. *)
Page(n) ==
    /\ Asking(n)
    /\ \E S \in SUBSET left[n] \ {{}} :
         LET hits == Matching(family, prefix) \cap stored
             seen == SlotsOf(n) \ (left[n] \ S)
         IN  \E P \in SUBSET {k \in hits : SlotOf[k] \in seen} :
               /\ \A k \in hits : SlotOf[k] \in S => k \in P
               /\ page' = [page EXCEPT ![n] = P]
               /\ left' = [left EXCEPT ![n] = @ \ S]
    /\ UNCHANGED <<stored, prefix, phase, family, callback, scanErr, result, history>>

(* An error of SCAN ends the scan of that node; the others go on. *)
ScanFails(n) ==
    /\ Asking(n) /\ "scan" \in Faults
    /\ left' = [left EXCEPT ![n] = {}]
    /\ scanErr' = TRUE
    /\ UNCHANGED <<stored, prefix, phase, family, page, callback, result, history>>

(* collect: note the primaries that have the prefix. *)
(* A slip: whatever the pattern matched is noted. *)
PrimariesAll(K) == {k[2] : k \in K}
Primaries(K) == {k[2] : k \in K} \cap Begins[prefix]

(* The callback of an alias group, under the mutex. *)
Collect(n) ==
    /\ family # "plain" /\ page[n] # {}
    /\ found' = found \cup Primaries(page[n])
    /\ page' = [page EXCEPT ![n] = {}]
    /\ UNCHANGED <<stored, prefix, phase, family, left, callback, scanErr, count, errs, history>>
-------------------------------------------------------------------------------
(* The callback of a plain cache: its DELs, and what it counts of them.    *)

CallbackStep(n, from, to) ==
    /\ at[n] = from
    /\ at' = [at EXCEPT ![n] = to]
    /\ UNCHANGED <<prefix, phase, family, left, scanErr, found>>

(* A slip: the pages of several nodes are handled at once. *)
FreeAlways == TRUE
Free == \A n \in Node : at[n] = "out"

Lock(n) ==
    /\ family = "plain" /\ page[n] # {} /\ Free
    /\ CallbackStep(n, "out", "in")
    /\ UNCHANGED <<stored, page, num, count, errs, history>>

(* DEL of one key of the page removes it if it is there still. *)
Delete(n) ==
    /\ CallbackStep(n, "in", "reply")
    /\ \E k \in page[n] :
         LET hit == IF k \in stored THEN 1 ELSE 0 IN
         /\ Gone({k})
         /\ removed' = removed + hit
         /\ num' = [num EXCEPT ![n] = hit]
         /\ page' = [page EXCEPT ![n] = @ \ {k}]
    /\ UNCHANGED <<count, errs>>

(* DEL failed, or was executed and its reply lost; the sweep goes on. *)
DeleteFails(n) ==
    /\ "delete" \in Faults
    /\ CallbackStep(n, "in", "error")
    /\ \E k \in page[n] :
         /\ \/ Gone({k}) /\ removed' = removed + (IF k \in stored THEN 1 ELSE 0)
            \/ UNCHANGED <<stored, history>>
         /\ page' = [page EXCEPT ![n] = @ \ {k}]
    /\ UNCHANGED <<num, count, errs>>

(* deleted += n and errs = append(errs, err) read a variable that the      *)
(* callbacks of all nodes share, and write it back.                        *)
ReadBack(n) ==
    /\ \/ CallbackStep(n, "reply", "count") /\ num' = [num EXCEPT ![n] = count + @]
       \/ CallbackStep(n, "error", "errs") /\ num' = [num EXCEPT ![n] = errs + 1]
    /\ UNCHANGED <<stored, page, count, errs, history>>

WriteBack(n) ==
    /\ \/ CallbackStep(n, "count", "in") /\ count' = num[n] /\ UNCHANGED errs
       \/ CallbackStep(n, "errs", "in") /\ errs' = num[n] /\ UNCHANGED count
    /\ num' = [num EXCEPT ![n] = 0]
    /\ UNCHANGED <<stored, page, history>>

(* A slip: the mutex is not given back. *)
ReleasedNever == "in"
Released == "out"

Unlock(n) ==
    /\ page[n] = {}
    /\ CallbackStep(n, "in", Released)
    /\ UNCHANGED <<stored, page, num, count, errs, history>>
-------------------------------------------------------------------------------
(* When the scan of a family is over on every node: the other family, the  *)
(* evictions, or the end.  After a scan error an alias group evicts        *)
(* nothing.                                                                *)
ScanOver ==
    /\ phase = "scan"
    /\ \A n \in Node : left[n] = {} /\ page[n] = {} /\ at[n] = "out"

(* A slip: the hashes are not scanned. *)
NextFamilyNone == {}
NextFamily == IF family = "value" /\ ~scanErr THEN {"members"} ELSE {}

Again ==
    /\ ScanOver
    /\ \E f \in NextFamily : Scan(f)
    /\ UNCHANGED <<stored, prefix, page, callback, scanErr, result, history>>

ScansDone ==
    /\ ScanOver
    /\ NextFamily = {}
    /\ phase' = IF family = "plain" \/ scanErr THEN "done" ELSE "evict"
    /\ errs' = IF scanErr THEN errs + 1 ELSE errs
    /\ UNCHANGED <<stored, prefix, scanning, found, count, history>>

(* EvictByPrimary of one record: value and hash.  (Its pointers are        *)
(* Colocated's and Sharded's concern.)                                     *)
EvictOne ==
    /\ phase = "evict"
    /\ \E p \in found :
         /\ Gone({<<"value", p>>, <<"members", p>>})
         /\ found' = found \ {p}
    /\ count' = count + 1
    /\ UNCHANGED <<prefix, phase, scanning, errs, removed>>

EvictOneFails ==
    /\ phase = "evict" /\ "delete" \in Faults
    /\ \E p \in found :
         /\ \/ Gone({<<"value", p>>, <<"members", p>>})
            \/ UNCHANGED <<stored, stable>>
         /\ found' = found \ {p}
    /\ errs' = errs + 1
    /\ UNCHANGED <<prefix, phase, scanning, count, removed>>

EvictsDone ==
    /\ phase = "evict" /\ found = {}
    /\ phase' = "done"
    /\ UNCHANGED <<stored, prefix, scanning, result, history>>

NodeStep(n) ==
    \/ Page(n) \/ ScanFails(n) \/ Collect(n)
    \/ Lock(n) \/ Delete(n) \/ DeleteFails(n)
    \/ ReadBack(n) \/ WriteBack(n) \/ Unlock(n)

CallStep ==
    \/ \E n \in Node : NodeStep(n)
    \/ Again \/ ScansDone
    \/ EvictOne \/ EvictOneFails \/ EvictsDone

Others == \E k \in Key : Appear(k) \/ Disappear(k)

Next == Start \/ CallStep \/ Others

Spec == Init /\ [][Next]_vars

(* The call makes steps as long as it can: requests return or fail, and    *)
(* goroutines are scheduled.                                               *)
FairSpec == Spec /\ WF_vars(CallStep)
-------------------------------------------------------------------------------
(* The prefix is what it was, rune by rune. *)
Utf8 == globLiteral(prefix) = prefix

(* When the call returns without an error, every key with the prefix that  *)
(* was stored all along is gone: no page that raced with another node's,   *)
(* no failed DEL and no record of which only the hash was left is passed   *)
(* over silently (redisstore.go:111-133, prefix.go:44-61).  For a prefix   *)
(* that is not UTF-8 it fails: the pattern matches other keys              *)
(* (scan.go:86-92).                                                        *)
Complete == phase = "done" /\ errs = 0 /\ Utf8 => stable = {}

(* The number a plain cache returns never exceeds the keys that its DELs   *)
(* removed, and falls short of them by at most one for every error it      *)
(* returns: no addition is lost between the pages of two nodes, and keys   *)
(* that SCAN returns twice or others delete first are not counted          *)
(* (redisstore.go:116-132, scan.go:66-72).                                 *)
CountExact ==
    family = "plain" =>
        /\ count <= removed
        /\ phase = "done" => removed <= count + errs

(* The call removes no key without the prefix.  What an alias group        *)
(* removes is checked against the prefix itself (prefix.go:37), so this    *)
(* holds for every prefix; a plain cache trusts the pattern, so there the  *)
(* prefix has to be UTF-8 (redisstore.go:118-120).                         *)
SparesOthers ==
    [][CallStep /\ (family # "plain" \/ Utf8) => stored \ stored' \subseteq Victims]_vars

(* The call returns, however long others keep writing matching keys. *)
Returns == phase # "idle" ~> phase = "done"
===============================================================================
