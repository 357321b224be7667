--------------------------- MODULE PrefixEvictProofs ---------------------------
(***************************************************************************)
(* Theorems about the prefix sweep for any number of nodes, slots, keys    *)
(* and clients.  Two invariants carry them.  Counts says, at every point   *)
(* of a callback, how the counter, the errors and the number a node is     *)
(* about to write back stand to the keys removed; it needs the mutex.      *)
(* Owing says, as long as nothing went wrong, that a key with the prefix   *)
(* that was stored all along still lies before the cursor of its node, or  *)
(* on a page, or its primary has been noted, or it is the turn of its      *)
(* family next.                                                            *)
(***************************************************************************)
EXTENDS PrefixEvict, TLAPS

Inside(n) == at[n] # "out"

Flow ==
    /\ \A k \in stored : k[1] = "plain" <=> family = "plain"
    /\ \A n \in Node : page[n] \subseteq Matching(family, prefix)
    /\ \A n \in Node : left[n] # {} \/ page[n] # {} \/ Inside(n) => phase = "scan"
    /\ \A n \in Node : Inside(n) => family = "plain"
    /\ \A m, n \in Node : Inside(m) /\ Inside(n) => m = n
    /\ family = "plain" => found = {}
    /\ phase = "idle" => errs = 0 /\ family # "members"
    /\ phase = "evict" => family = "members" /\ ~scanErr
    /\ phase = "done" /\ scanErr => errs > 0

Between(low, high) == low <= removed /\ removed <= high

CountAt(n) ==
    /\ at[n] = "reply" => Between(count + num[n], count + num[n] + errs)
    /\ at[n] = "count" => Between(num[n], num[n] + errs) /\ count <= num[n]
    /\ at[n] = "error" => Between(count, count + errs + 1)
    /\ at[n] = "errs"  => Between(count, count + errs + 1) /\ num[n] = errs + 1

Idle(n) == at[n] \in {"out", "in"}

Counts ==
    family = "plain" =>
        /\ (\A n \in Node : Idle(n)) => Between(count, count + errs)
        /\ \A n \in Node : CountAt(n)

Trouble == scanErr \/ errs > 0 \/ \E n \in Node : at[n] \in {"error", "errs"}

Ahead(k) == k \in Matching(family, prefix) /\ SlotOf[k] \in left[NodeOf[SlotOf[k]]]

Owed(k) ==
    \/ Ahead(k)
    \/ \E n \in Node : k \in page[n]
    \/ k[2] \in found
    \/ family = "value" /\ k[1] = "members"

Owing ==
    /\ stable \subseteq Victims
    /\ phase = "scan" /\ Utf8 /\ ~Trouble => \A k \in stable : Owed(k)
    /\ phase = "evict" /\ Utf8 /\ errs = 0 => \A k \in stable : k[2] \in found
    /\ phase = "done" /\ Utf8 /\ errs = 0 => stable = {}

IInv == TypeOK /\ Flow /\ Counts /\ Owing

LEMMA InitInv == Init => IInv
<1> SUFFICES ASSUME Init PROVE IInv
  OBVIOUS
<1>1. TypeOK
  BY DEF Init, TypeOK, Family
<1>2. Flow
  BY DEF Init, Flow, Inside
<1>3. Counts
  BY DEF Init, Counts, CountAt, Between, Idle
<1>4. Owing
  BY DEF Init, Owing
<1> QED BY <1>1, <1>2, <1>3, <1>4 DEF IInv
-------------------------------------------------------------------------------
(* Other clients. *)
LEMMA AppearInv ==
  ASSUME IInv, NEW k \in Key, Appear(k)
  PROVE  IInv'
<1>1. /\ stored' = stored \cup {k} /\ (k[1] = "plain" <=> family = "plain")
      /\ UNCHANGED <<prefix, phase, family, left, page, at, num, scanErr, found, count, errs,
                    removed, stable>>
  BY DEF Appear, scanning, callback, result, history
<1>2. TypeOK'
  BY <1>1 DEF IInv, TypeOK
<1>3. Flow'
  BY <1>1 DEF IInv, Flow, Inside, Matching
<1>4. Counts'
  BY <1>1 DEF IInv, Counts, CountAt, Between, Idle
<1>5. Owing'
  BY <1>1 DEF IInv, Owing, Owed, Ahead, Trouble, Utf8, Victims, Matching
<1> QED BY <1>2, <1>3, <1>4, <1>5 DEF IInv

LEMMA DisappearInv ==
  ASSUME IInv, NEW k \in Key, Disappear(k)
  PROVE  IInv'
<1>1. /\ stored' = stored \ {k} /\ stable' = stable \ {k}
      /\ UNCHANGED <<prefix, phase, family, left, page, at, num, scanErr, found, count, errs,
                    removed>>
  BY DEF Disappear, Gone, scanning, callback, result
<1>2. TypeOK'
  BY <1>1 DEF IInv, TypeOK
<1>3. Flow'
  BY <1>1 DEF IInv, Flow, Inside, Matching
<1>4. Counts'
  BY <1>1 DEF IInv, Counts, CountAt, Between, Idle
<1>5. Owing'
  BY <1>1 DEF IInv, Owing, Owed, Ahead, Trouble, Utf8, Victims, Matching
<1> QED BY <1>2, <1>3, <1>4, <1>5 DEF IInv
-------------------------------------------------------------------------------
(* The scans. *)
LEMMA SlotType ==
  ASSUME NEW k \in Key
  PROVE  /\ SlotOf[k] \in Slot /\ NodeOf[SlotOf[k]] \in Node
         /\ SlotOf[k] \in SlotsOf(NodeOf[SlotOf[k]])
  BY SlotAssumption DEF SlotsOf

LEMMA ScanType ==
  ASSUME NEW f \in Family, Scan(f)
  PROVE  /\ phase' = "scan" /\ family' = f
         /\ left' \in [Node -> SUBSET Slot]
         /\ \A n \in Node : left'[n] = SlotsOf(n)
         /\ \A k \in Key : SlotOf[k] \in left'[NodeOf[SlotOf[k]]]
<1>1. /\ phase' = "scan" /\ family' = f
      /\ left' = [n \in Node |-> SlotsOf(n)]
  BY DEF Scan
<1>2. \A n \in Node : SlotsOf(n) \subseteq Slot
  BY DEF SlotsOf
<1> QED BY <1>1, <1>2, SlotType

(* A key with the prefix that is of the family to be scanned matches the   *)
(* pattern, if the prefix is UTF-8.                                        *)
LEMMA PatternMatches ==
  ASSUME NEW k \in Victims, Utf8
  PROVE  k \in Matching(k[1], prefix)
  BY DEF Victims, Utf8, Matching

LEMMA StartInv ==
  ASSUME IInv, Start
  PROVE  IInv'
<1>1. /\ phase = "idle" /\ Scan(family) /\ stable' = Victims \cap stored
      /\ UNCHANGED <<stored, prefix, page, at, num, scanErr, found, count, errs, removed>>
  BY DEF Start, callback, result
<1>2. /\ phase' = "scan" /\ family' = family
      /\ left' \in [Node -> SUBSET Slot]
      /\ \A k \in Key : SlotOf[k] \in left'[NodeOf[SlotOf[k]]]
  BY <1>1, ScanType DEF IInv, TypeOK
<1>3. TypeOK'
  BY <1>1, <1>2 DEF IInv, TypeOK
<1>4. Flow'
  BY <1>1, <1>2 DEF IInv, Flow, Inside, Matching
<1>5. Counts'
  BY <1>1, <1>2 DEF IInv, Counts, CountAt, Between, Idle
<1>6. Owing'
  <2>1. ASSUME NEW k \in stable', Utf8 PROVE Owed(k)'
    <3>1. k \in Key /\ k \in Victims /\ k[1] \in Family
      BY <1>1, KeyAssumption DEF IInv, TypeOK
    <3>2. k[1] = "plain" <=> family = "plain"
      BY <1>1 DEF IInv, Flow
    <3>3. k[1] = family \/ (family = "value" /\ k[1] = "members")
      BY <1>1, <3>1, <3>2 DEF IInv, TypeOK, Flow, Family
    <3>4. k[1] = family => Ahead(k)'
      BY <1>1, <1>2, <2>1, <3>1, PatternMatches DEF Ahead, Matching
    <3> QED BY <3>3, <3>4, <1>2 DEF Owed
  <2> QED BY <1>1, <1>2, <2>1 DEF Owing, Victims, Utf8
<1> QED BY <1>3, <1>4, <1>5, <1>6 DEF IInv

LEMMA PageInv ==
  ASSUME IInv, NEW n \in Node, Page(n)
  PROVE  IInv'
<1>1. PICK S \in SUBSET left[n] \ {{}} :
        \E P \in SUBSET {k \in Matching(family, prefix) \cap stored :
                           SlotOf[k] \in SlotsOf(n) \ (left[n] \ S)} :
          /\ \A k \in Matching(family, prefix) \cap stored : SlotOf[k] \in S => k \in P
          /\ page' = [page EXCEPT ![n] = P]
          /\ left' = [left EXCEPT ![n] = left[n] \ S]
  BY DEF Page
<1>2. PICK P \in SUBSET Matching(family, prefix) :
        /\ \A k \in Matching(family, prefix) \cap stored : SlotOf[k] \in S => k \in P
        /\ page' = [page EXCEPT ![n] = P]
        /\ left' = [left EXCEPT ![n] = left[n] \ S]
  BY <1>1
<1>3. /\ UNCHANGED <<stored, prefix, phase, family, at, num, scanErr, found, count, errs,
                    removed, stable>>
      /\ left[n] # {} /\ page[n] = {}
  BY DEF Page, Asking, callback, result, history
<1>4. P \subseteq Key
  BY <1>2 DEF Matching
<1>5. /\ page' \in [Node -> SUBSET Key] /\ left' \in [Node -> SUBSET Slot]
      /\ \A m \in Node : page'[m] = IF m = n THEN P ELSE page[m]
      /\ \A m \in Node : left'[m] = IF m = n THEN left[m] \ S ELSE left[m]
  BY <1>2, <1>4 DEF IInv, TypeOK
<1>6. TypeOK'
  BY <1>3, <1>5 DEF IInv, TypeOK
<1>7. Flow'
  BY <1>2, <1>3, <1>5 DEF IInv, Flow, Inside, Matching
<1>8. Counts'
  BY <1>3 DEF IInv, Counts, CountAt, Between, Idle
<1>9. Owing'
  <2>1. ASSUME NEW k \in stable, Owed(k) PROVE Owed(k)'
    <3>1. CASE Ahead(k)
      <4>1. k \in Matching(family, prefix) /\ k \in stored /\ k \in Key
            /\ SlotOf[k] \in left[NodeOf[SlotOf[k]]] /\ NodeOf[SlotOf[k]] \in Node
        BY <3>1, SlotType DEF Ahead, IInv, TypeOK
      <4>2. CASE SlotOf[k] \in S /\ NodeOf[SlotOf[k]] = n
        BY <4>1, <4>2, <1>2, <1>5 DEF Owed
      <4>3. CASE ~(SlotOf[k] \in S /\ NodeOf[SlotOf[k]] = n)
        BY <4>1, <4>3, <1>3, <1>5 DEF Owed, Ahead, Matching
      <4> QED BY <4>2, <4>3
    <3>2. CASE \E m \in Node : k \in page[m]
      BY <3>2, <1>3, <1>5 DEF Owed
    <3> QED BY <2>1, <3>1, <3>2, <1>3 DEF Owed
  <2> QED BY <1>3, <2>1 DEF IInv, Owing, Trouble, Utf8, Victims
<1> QED BY <1>6, <1>7, <1>8, <1>9 DEF IInv

LEMMA ScanFailsInv ==
  ASSUME IInv, NEW n \in Node, ScanFails(n)
  PROVE  IInv'
<1>1. /\ left' = [left EXCEPT ![n] = {}] /\ scanErr' = TRUE /\ left[n] # {}
      /\ UNCHANGED <<stored, prefix, phase, family, page, at, num, found, count, errs,
                    removed, stable>>
  BY DEF ScanFails, Asking, callback, result, history
<1>2. phase = "scan"
  BY <1>1 DEF IInv, Flow
<1>3. TypeOK'
  BY <1>1 DEF IInv, TypeOK
<1>4. Flow'
  BY <1>1, <1>2 DEF IInv, Flow, Inside, Matching
<1>5. Counts'
  BY <1>1 DEF IInv, Counts, CountAt, Between, Idle
<1>6. Owing'
  BY <1>1, <1>2 DEF IInv, Owing, Trouble, Victims
<1> QED BY <1>3, <1>4, <1>5, <1>6 DEF IInv

LEMMA CollectInv ==
  ASSUME IInv, NEW n \in Node, Collect(n)
  PROVE  IInv'
<1>1. /\ family # "plain" /\ page[n] # {}
      /\ found' = found \cup Primaries(page[n])
      /\ page' = [page EXCEPT ![n] = {}]
      /\ UNCHANGED <<stored, prefix, phase, family, left, at, num, scanErr, count, errs,
                    removed, stable>>
  BY DEF Collect, callback, history
<1>2. /\ page' \in [Node -> SUBSET Key]
      /\ \A m \in Node : page'[m] = IF m = n THEN {} ELSE page[m]
  BY <1>1 DEF IInv, TypeOK
<1>3. TypeOK'
  BY <1>1, <1>2 DEF IInv, TypeOK, Primaries
<1>4. Flow'
  BY <1>1, <1>2 DEF IInv, Flow, Inside, Matching
<1>5. Counts'
  BY <1>1 DEF IInv, Counts
<1>6. ASSUME NEW k \in stable, Owed(k) PROVE Owed(k)'
  <2>1. k[2] \in Begins[prefix]
    BY DEF IInv, Owing, Victims
  <2>2. CASE \E m \in Node : k \in page[m]
    BY <2>1, <2>2, <1>1, <1>2 DEF Owed, Primaries
  <2> QED BY <1>6, <2>2, <1>1 DEF Owed, Ahead, Matching
<1>7. phase = "scan"
  BY <1>1 DEF IInv, Flow
<1>8. Owing'
  BY <1>1, <1>6, <1>7 DEF IInv, Owing, Trouble, Utf8, Victims
<1> QED BY <1>3, <1>4, <1>5, <1>8 DEF IInv
-------------------------------------------------------------------------------
(* The callback of a plain cache.  The node inside is the only one.        *)
LEMMA InsideType ==
  ASSUME IInv, NEW n \in Node, NEW from, NEW to, CallbackStep(n, from, to),
         from # "out", to \in {"out", "in", "reply", "error", "count", "errs"}
  PROVE  /\ at[n] = from /\ at'[n] = to
         /\ \A m \in Node \ {n} : at[m] = "out" /\ at'[m] = "out"
         /\ at' \in [Node -> {"out", "in", "reply", "error", "count", "errs"}]
         /\ family = "plain" /\ phase = "scan" /\ found = {}
         /\ UNCHANGED <<prefix, phase, family, left, scanErr, found>>
         /\ CountAt(n)
         /\ Idle(n) => Between(count, count + errs)
         /\ count \in Nat /\ errs \in Nat /\ removed \in Nat /\ num[n] \in Nat
<1>1. /\ at[n] = from /\ at' = [at EXCEPT ![n] = to]
      /\ UNCHANGED <<prefix, phase, family, left, scanErr, found>>
  BY DEF CallbackStep
<1>2. at'[n] = to /\ \A m \in Node \ {n} : at[m] = "out" /\ at'[m] = at[m]
  BY <1>1 DEF IInv, TypeOK, Flow, Inside
<1>3. at' \in [Node -> {"out", "in", "reply", "error", "count", "errs"}]
  BY <1>1 DEF IInv, TypeOK
<1>4. family = "plain" /\ phase = "scan" /\ found = {}
  BY <1>1 DEF IInv, Flow, Inside
<1>5. CountAt(n)
  BY <1>4 DEF IInv, Counts
<1>6. Idle(n) => Between(count, count + errs)
  BY <1>2, <1>4 DEF IInv, Counts, Idle
<1>7. count \in Nat /\ errs \in Nat /\ removed \in Nat /\ num[n] \in Nat
  BY DEF IInv, TypeOK
<1> QED BY <1>1, <1>2, <1>3, <1>4, <1>5, <1>6, <1>7

(* What is left to show of Counts when one node alone is inside. *)
LEMMA CountsFor ==
  ASSUME NEW n \in Node,
         \A m \in Node \ {n} : at'[m] = "out",
         CountAt(n)',
         Idle(n)' => Between(count, count + errs)'
  PROVE  Counts'
<1>1. ASSUME NEW m \in Node PROVE CountAt(m)'
  BY DEF CountAt
<1>2. (\A m \in Node : Idle(m)') => Between(count, count + errs)'
  OBVIOUS
<1> QED BY <1>1, <1>2 DEF Counts

LEMMA FlowFor ==
  ASSUME IInv, NEW n \in Node, family = "plain", phase = "scan",
         UNCHANGED <<prefix, phase, family, left, scanErr, found>>,
         stored' \subseteq stored,
         \A m \in Node : page'[m] \subseteq page[m],
         \A m \in Node \ {n} : at'[m] = "out"
  PROVE  Flow'
  BY DEF IInv, Flow, Inside, Matching

(* A key leaves the page of n, and perhaps the store. *)
LEMMA Handled ==
  ASSUME IInv, NEW n \in Node, NEW k \in page[n],
         page' = [page EXCEPT ![n] = page[n] \ {k}]
  PROVE  /\ k \in Key /\ k \in Matching(family, prefix)
         /\ page' \in [Node -> SUBSET Key]
         /\ \A m \in Node : page'[m] = IF m = n THEN page[m] \ {k} ELSE page[m]
         /\ \A m \in Node : page'[m] \subseteq page[m]
<1>1. page \in [Node -> SUBSET Key] /\ page[n] \subseteq Matching(family, prefix)
  BY DEF IInv, TypeOK, Flow
<1> QED BY <1>1

LEMMA LockInv ==
  ASSUME IInv, NEW n \in Node, Lock(n)
  PROVE  IInv'
<1>1. /\ family = "plain" /\ page[n] # {} /\ Free
      /\ at' = [at EXCEPT ![n] = "in"]
      /\ UNCHANGED <<stored, prefix, phase, family, left, page, num, scanErr, found, count,
                    errs, removed, stable>>
  BY DEF Lock, CallbackStep, history
<1>2. /\ \A m \in Node : at[m] = "out"
      /\ \A m \in Node : at'[m] = IF m = n THEN "in" ELSE "out"
      /\ at' \in [Node -> {"out", "in", "reply", "error", "count", "errs"}]
  BY <1>1 DEF Free, IInv, TypeOK
<1>3. phase = "scan"
  BY <1>1 DEF IInv, Flow
<1>4. TypeOK'
  BY <1>1, <1>2 DEF IInv, TypeOK
<1>5. Flow'
  BY <1>1, <1>2, <1>3 DEF IInv, Flow, Inside, Matching
<1>6. Counts'
  <2>1. Between(count, count + errs)
    BY <1>1, <1>2 DEF IInv, Counts, Idle
  <2>2. CountAt(n)'
    BY <1>2 DEF CountAt
  <2> QED BY <1>1, <1>2, <2>1, <2>2, CountsFor DEF Between
<1>7. Owing'
  BY <1>1, <1>2, <1>3 DEF IInv, Owing, Owed, Ahead, Matching, Trouble, Utf8, Victims
<1> QED BY <1>4, <1>5, <1>6, <1>7 DEF IInv

LEMMA DeleteInv ==
  ASSUME IInv, NEW n \in Node, Delete(n)
  PROVE  IInv'
<1>1. PICK k \in page[n] :
        /\ Gone({k})
        /\ removed' = removed + (IF k \in stored THEN 1 ELSE 0)
        /\ num' = [num EXCEPT ![n] = IF k \in stored THEN 1 ELSE 0]
        /\ page' = [page EXCEPT ![n] = page[n] \ {k}]
  BY DEF Delete
<1>2. CallbackStep(n, "in", "reply") /\ UNCHANGED <<count, errs>>
  BY DEF Delete
<1>3. /\ at[n] = "in" /\ at'[n] = "reply"
      /\ \A m \in Node \ {n} : at[m] = "out" /\ at'[m] = "out"
      /\ at' \in [Node -> {"out", "in", "reply", "error", "count", "errs"}]
      /\ family = "plain" /\ phase = "scan" /\ found = {}
      /\ UNCHANGED <<prefix, phase, family, left, scanErr, found>>
      /\ Idle(n) => Between(count, count + errs)
      /\ count \in Nat /\ errs \in Nat /\ removed \in Nat
  BY <1>2, InsideType
<1>4. /\ page' \in [Node -> SUBSET Key]
      /\ \A m \in Node : page'[m] = IF m = n THEN page[m] \ {k} ELSE page[m]
      /\ \A m \in Node : page'[m] \subseteq page[m]
  BY <1>1, Handled
<1>5. stored' = stored \ {k} /\ stable' = stable \ {k}
  BY <1>1 DEF Gone
<1>6. /\ num' \in [Node -> Nat] /\ removed' \in Nat
      /\ num'[n] = (IF k \in stored THEN 1 ELSE 0)
  BY <1>1, <1>3 DEF IInv, TypeOK
<1>7. TypeOK'
  BY <1>2, <1>3, <1>4, <1>5, <1>6 DEF IInv, TypeOK
<1>8. Flow'
  BY <1>3, <1>4, <1>5, FlowFor
<1>9. Counts'
  <2>1. count <= removed /\ removed <= count + errs
    BY <1>3 DEF Idle, Between
  <2>2. /\ count + num'[n] <= removed'
        /\ removed' <= (count + num'[n]) + errs
    BY <1>1, <1>3, <1>6, <2>1
  <2>3. CountAt(n)' /\ ~Idle(n)'
    BY <1>2, <1>3, <2>2 DEF CountAt, Between, Idle
  <2> QED BY <1>3, <2>3, CountsFor
<1>10. Owing'
  <2>1. ASSUME NEW j \in stable', Owed(j) PROVE Owed(j)'
    BY <2>1, <1>3, <1>4, <1>5 DEF Owed, Ahead, Matching
  <2>2. ~Trouble' => ~Trouble
    BY <1>2, <1>3 DEF Trouble
  <2> QED BY <1>3, <1>5, <2>1, <2>2 DEF IInv, Owing, Utf8, Victims
<1> QED BY <1>7, <1>8, <1>9, <1>10 DEF IInv

LEMMA DeleteFailsInv ==
  ASSUME IInv, NEW n \in Node, DeleteFails(n)
  PROVE  IInv'
<1>1. PICK k \in page[n] :
        /\ \/ Gone({k}) /\ removed' = removed + (IF k \in stored THEN 1 ELSE 0)
           \/ UNCHANGED <<stored, removed, stable>>
        /\ page' = [page EXCEPT ![n] = page[n] \ {k}]
  BY DEF DeleteFails, history
<1>2. CallbackStep(n, "in", "error") /\ UNCHANGED <<num, count, errs>>
  BY DEF DeleteFails
<1>3. /\ at[n] = "in" /\ at'[n] = "error"
      /\ \A m \in Node \ {n} : at[m] = "out" /\ at'[m] = "out"
      /\ at' \in [Node -> {"out", "in", "reply", "error", "count", "errs"}]
      /\ family = "plain" /\ phase = "scan" /\ found = {}
      /\ UNCHANGED <<prefix, phase, family, left, scanErr, found>>
      /\ Idle(n) => Between(count, count + errs)
      /\ count \in Nat /\ errs \in Nat /\ removed \in Nat
  BY <1>2, InsideType
<1>4. /\ page' \in [Node -> SUBSET Key]
      /\ \A m \in Node : page'[m] \subseteq page[m]
  BY <1>1, Handled
<1>5. /\ stored' \subseteq stored /\ stable' \subseteq stable /\ stable' \subseteq stored'
      /\ removed' \in {removed, removed + 1} /\ removed' \in Nat
  BY <1>1, <1>3 DEF Gone, IInv, TypeOK
<1>6. TypeOK'
  BY <1>2, <1>3, <1>4, <1>5 DEF IInv, TypeOK
<1>7. Flow'
  BY <1>3, <1>4, <1>5, FlowFor
<1>8. Counts'
  <2>1. count <= removed /\ removed <= count + errs
    BY <1>3 DEF Idle, Between
  <2>2. count <= removed' /\ removed' <= (count + errs) + 1
    BY <1>3, <1>5, <2>1
  <2>3. CountAt(n)' /\ ~Idle(n)'
    BY <1>2, <1>3, <2>2 DEF CountAt, Between, Idle
  <2> QED BY <1>3, <2>3, CountsFor
<1>9. Owing'
  BY <1>3, <1>5 DEF IInv, Owing, Trouble, Victims
<1> QED BY <1>6, <1>7, <1>8, <1>9 DEF IInv

LEMMA ReadBackInv ==
  ASSUME IInv, NEW n \in Node, ReadBack(n)
  PROVE  IInv'
<1>1. UNCHANGED <<stored, page, count, errs, removed, stable>>
  BY DEF ReadBack, history
<1>2. CASE CallbackStep(n, "reply", "count") /\ num' = [num EXCEPT ![n] = count + num[n]]
  <2>1. /\ at[n] = "reply" /\ at'[n] = "count"
        /\ \A m \in Node \ {n} : at[m] = "out" /\ at'[m] = "out"
        /\ at' \in [Node -> {"out", "in", "reply", "error", "count", "errs"}]
        /\ family = "plain" /\ phase = "scan" /\ found = {}
        /\ UNCHANGED <<prefix, phase, family, left, scanErr, found>>
        /\ CountAt(n)
        /\ count \in Nat /\ errs \in Nat /\ removed \in Nat /\ num[n] \in Nat
    BY <1>2, InsideType
  <2>2. num' \in [Node -> Nat] /\ num'[n] = count + num[n]
    BY <1>2, <2>1 DEF IInv, TypeOK
  <2>3. TypeOK'
    BY <1>1, <2>1, <2>2 DEF IInv, TypeOK
  <2>4. Flow'
    BY <1>1, <2>1, FlowFor
  <2>5. CountAt(n)'
    <3>1. count + num[n] <= removed /\ removed <= (count + num[n]) + errs
      BY <2>1 DEF CountAt, Between
    <3>2. /\ num'[n] <= removed /\ removed <= num'[n] + errs
          /\ count <= num'[n]
      BY <2>1, <2>2, <3>1
    <3> QED BY <1>1, <2>1, <3>2 DEF CountAt, Between
  <2>6. Counts'
    BY <2>1, <2>5, CountsFor DEF Idle
  <2>7. Owing'
    BY <1>1, <2>1 DEF IInv, Owing, Owed, Ahead, Matching, Trouble, Utf8, Victims
  <2> QED BY <2>3, <2>4, <2>6, <2>7 DEF IInv
<1>3. CASE CallbackStep(n, "error", "errs") /\ num' = [num EXCEPT ![n] = errs + 1]
  <2>1. /\ at[n] = "error" /\ at'[n] = "errs"
        /\ \A m \in Node \ {n} : at[m] = "out" /\ at'[m] = "out"
        /\ at' \in [Node -> {"out", "in", "reply", "error", "count", "errs"}]
        /\ family = "plain" /\ phase = "scan" /\ found = {}
        /\ UNCHANGED <<prefix, phase, family, left, scanErr, found>>
        /\ CountAt(n)
        /\ count \in Nat /\ errs \in Nat /\ removed \in Nat
    BY <1>3, InsideType
  <2>2. num' \in [Node -> Nat] /\ num'[n] = errs + 1
    BY <1>3, <2>1 DEF IInv, TypeOK
  <2>3. TypeOK'
    BY <1>1, <2>1, <2>2 DEF IInv, TypeOK
  <2>4. Flow'
    BY <1>1, <2>1, FlowFor
  <2>5. CountAt(n)'
    BY <1>1, <2>1, <2>2 DEF CountAt, Between
  <2>6. Counts'
    BY <2>1, <2>5, CountsFor DEF Idle
  <2>7. Owing'
    BY <1>1, <2>1 DEF IInv, Owing, Owed, Ahead, Matching, Trouble, Utf8, Victims
  <2> QED BY <2>3, <2>4, <2>6, <2>7 DEF IInv
<1> QED BY <1>2, <1>3 DEF ReadBack

LEMMA WriteBackInv ==
  ASSUME IInv, NEW n \in Node, WriteBack(n)
  PROVE  IInv'
<1>1. num' = [num EXCEPT ![n] = 0] /\ UNCHANGED <<stored, page, removed, stable>>
  BY DEF WriteBack, history
<1>2. num' \in [Node -> Nat]
  BY <1>1 DEF IInv, TypeOK
<1>3. CASE CallbackStep(n, "count", "in") /\ count' = num[n] /\ UNCHANGED errs
  <2>1. /\ at[n] = "count" /\ at'[n] = "in"
        /\ \A m \in Node \ {n} : at[m] = "out" /\ at'[m] = "out"
        /\ at' \in [Node -> {"out", "in", "reply", "error", "count", "errs"}]
        /\ family = "plain" /\ phase = "scan" /\ found = {}
        /\ UNCHANGED <<prefix, phase, family, left, scanErr, found>>
        /\ CountAt(n)
        /\ count \in Nat /\ errs \in Nat /\ removed \in Nat /\ num[n] \in Nat
    BY <1>3, InsideType
  <2>2. TypeOK'
    BY <1>1, <1>2, <1>3, <2>1 DEF IInv, TypeOK
  <2>3. Flow'
    BY <1>1, <2>1, FlowFor
  <2>4. Counts'
    <3>1. Between(count, count + errs)'
      BY <1>1, <1>3, <2>1 DEF CountAt, Between
    <3>2. CountAt(n)'
      BY <2>1 DEF CountAt
    <3> QED BY <2>1, <3>1, <3>2, CountsFor
  <2>5. Owing'
    BY <1>1, <1>3, <2>1 DEF IInv, Owing, Owed, Ahead, Matching, Trouble, Utf8, Victims
  <2> QED BY <2>2, <2>3, <2>4, <2>5 DEF IInv
<1>4. CASE CallbackStep(n, "errs", "in") /\ errs' = num[n] /\ UNCHANGED count
  <2>1. /\ at[n] = "errs" /\ at'[n] = "in"
        /\ \A m \in Node \ {n} : at[m] = "out" /\ at'[m] = "out"
        /\ at' \in [Node -> {"out", "in", "reply", "error", "count", "errs"}]
        /\ family = "plain" /\ phase = "scan" /\ found = {}
        /\ UNCHANGED <<prefix, phase, family, left, scanErr, found>>
        /\ CountAt(n)
        /\ count \in Nat /\ errs \in Nat /\ removed \in Nat /\ num[n] \in Nat
    BY <1>4, InsideType
  <2>2. errs' = errs + 1 /\ errs' > 0
    BY <1>4, <2>1 DEF CountAt
  <2>3. TypeOK'
    BY <1>1, <1>2, <1>4, <2>1 DEF IInv, TypeOK
  <2>4. Flow'
    BY <1>1, <2>1, FlowFor
  <2>5. Counts'
    <3>1. Between(count, count + errs)'
      BY <1>1, <1>4, <2>1, <2>2 DEF CountAt, Between
    <3>2. CountAt(n)'
      BY <2>1 DEF CountAt
    <3> QED BY <2>1, <3>1, <3>2, CountsFor
  <2>6. Owing'
    BY <1>1, <2>1, <2>2 DEF IInv, Owing, Trouble, Victims
  <2> QED BY <2>3, <2>4, <2>5, <2>6 DEF IInv
<1> QED BY <1>3, <1>4 DEF WriteBack

LEMMA UnlockInv ==
  ASSUME IInv, NEW n \in Node, Unlock(n)
  PROVE  IInv'
<1>1. CallbackStep(n, "in", "out") /\ UNCHANGED <<stored, page, num, count, errs, removed, stable>>
  BY DEF Unlock, Released, history
<1>2. /\ at[n] = "in" /\ at'[n] = "out"
      /\ \A m \in Node \ {n} : at[m] = "out" /\ at'[m] = "out"
      /\ at' \in [Node -> {"out", "in", "reply", "error", "count", "errs"}]
      /\ family = "plain" /\ phase = "scan" /\ found = {}
      /\ UNCHANGED <<prefix, phase, family, left, scanErr, found>>
      /\ Idle(n) => Between(count, count + errs)
  BY <1>1, InsideType
<1>3. TypeOK'
  BY <1>1, <1>2 DEF IInv, TypeOK
<1>4. Flow'
  BY <1>1, <1>2, FlowFor
<1>5. Counts'
  <2>1. Between(count, count + errs)'
    BY <1>1, <1>2 DEF Idle, Between
  <2>2. CountAt(n)'
    BY <1>2 DEF CountAt
  <2> QED BY <1>2, <2>1, <2>2, CountsFor
<1>6. Owing'
  BY <1>1, <1>2 DEF IInv, Owing, Owed, Ahead, Matching, Trouble, Utf8, Victims
<1> QED BY <1>3, <1>4, <1>5, <1>6 DEF IInv
-------------------------------------------------------------------------------
(* The end of a scan.  If nothing went wrong, what is owed has been noted  *)
(* or belongs to the family that comes next.                               *)
LEMMA NothingAhead ==
  ASSUME IInv, ScanOver, Utf8, ~scanErr, errs = 0
  PROVE  \A k \in stable : k[2] \in found \/ (family = "value" /\ k[1] = "members")
<1>1. ~Trouble
  BY DEF ScanOver, Trouble
<1>2. ASSUME NEW k \in stable PROVE ~Ahead(k)
  BY SlotType DEF Ahead, ScanOver, IInv, TypeOK
<1> QED BY <1>1, <1>2 DEF ScanOver, IInv, Owing, Owed

LEMMA AgainInv ==
  ASSUME IInv, Again
  PROVE  IInv'
<1>1. /\ ScanOver /\ family = "value" /\ ~scanErr /\ Scan("members")
      /\ UNCHANGED <<stored, prefix, page, at, num, scanErr, found, count, errs, removed, stable>>
  BY DEF Again, NextFamily, callback, result, history
<1>2. "members" \in Family
  BY DEF Family
<1>3. /\ phase' = "scan" /\ family' = "members"
      /\ left' \in [Node -> SUBSET Slot]
      /\ \A k \in Key : SlotOf[k] \in left'[NodeOf[SlotOf[k]]]
  BY <1>1, <1>2, ScanType
<1>4. TypeOK'
  BY <1>1, <1>2, <1>3 DEF IInv, TypeOK
<1>5. Flow'
  BY <1>1, <1>3 DEF IInv, Flow, Inside, ScanOver
<1>6. Counts'
  BY <1>3 DEF Counts
<1>7. Owing'
  <2>1. ASSUME NEW k \in stable, Utf8, ~Trouble PROVE Owed(k)'
    <3>1. k \in Key /\ k \in Victims
      BY DEF IInv, TypeOK, Owing
    <3>2. k[2] \in found \/ k[1] = "members"
      BY <1>1, <2>1, NothingAhead DEF Trouble, IInv, TypeOK
    <3>3. k[1] = "members" => Ahead(k)'
      BY <1>1, <1>3, <2>1, <3>1, PatternMatches DEF Ahead, Matching
    <3> QED BY <3>2, <3>3, <1>1 DEF Owed
  <2> QED BY <1>1, <1>3, <2>1 DEF IInv, Owing, Trouble, Utf8, Victims
<1> QED BY <1>4, <1>5, <1>6, <1>7 DEF IInv

LEMMA ScansDoneInv ==
  ASSUME IInv, ScansDone
  PROVE  IInv'
<1>1. /\ ScanOver
      /\ phase' = IF family = "plain" \/ scanErr THEN "done" ELSE "evict"
      /\ errs' = IF scanErr THEN errs + 1 ELSE errs
      /\ UNCHANGED <<stored, prefix, family, left, page, at, num, scanErr, found, count,
                    removed, stable>>
  BY DEF ScansDone, scanning, callback, history
<1>2. family # "value" \/ scanErr
  BY DEF ScansDone, NextFamily
<1>3. errs \in Nat /\ errs' \in Nat /\ errs <= errs' /\ (scanErr => errs' > 0)
  BY <1>1 DEF IInv, TypeOK
<1>4. TypeOK'
  BY <1>1, <1>3 DEF IInv, TypeOK
<1>5. Flow'
  BY <1>1, <1>2, <1>3 DEF IInv, Flow, Inside, ScanOver, Matching, TypeOK, Family
<1>6. Counts'
  <2>1. ASSUME NEW n \in Node PROVE at[n] = "out" /\ at'[n] = "out"
    BY <1>1 DEF ScanOver
  <2>2. family = "plain" => Between(count, count + errs)
    BY <2>1 DEF IInv, Counts, Idle
  <2>3. family = "plain" => Between(count, count + errs)'
    BY <1>1, <1>3, <2>2 DEF Between, IInv, TypeOK
  <2> QED BY <1>1, <2>1, <2>3 DEF Counts, CountAt
<1>7. Owing'
  <2>1. ~scanErr /\ errs = 0 /\ Utf8 => \A k \in stable : k[2] \in found
    BY <1>1, <1>2, NothingAhead
  <2>2. errs' = 0 => ~scanErr /\ errs = 0
    BY <1>1, <1>3
  <2>3. family = "plain" => found = {}
    BY DEF IInv, Flow
  <2> QED BY <1>1, <2>1, <2>2, <2>3 DEF IInv, Owing, Utf8, Victims
<1> QED BY <1>4, <1>5, <1>6, <1>7 DEF IInv
-------------------------------------------------------------------------------
(* The evictions of an alias group. *)
LEMMA EvictGone ==
  ASSUME IInv, NEW p, Gone({<<"value", p>>, <<"members", p>>}), phase = "evict"
  PROVE  /\ stored' \subseteq stored /\ stable' \subseteq stable /\ stable' \subseteq stored'
         /\ \A k \in stable' : k[2] # p
         /\ \A k \in stored \ stored' : k[2] = p
<1>1. ASSUME NEW k \in stable, k[2] = p PROVE k \in {<<"value", p>>, <<"members", p>>}
  <2>1. k \in Key /\ k[1] # "plain"
    BY DEF IInv, TypeOK, Flow
  <2> QED BY <1>1, <2>1, KeyAssumption DEF Family
<1> QED BY <1>1 DEF IInv, TypeOK, Gone

LEMMA EvictOneInv ==
  ASSUME IInv, EvictOne
  PROVE  IInv'
<1>1. PICK p \in found : Gone({<<"value", p>>, <<"members", p>>}) /\ found' = found \ {p}
  BY DEF EvictOne
<1>2. /\ phase = "evict" /\ count' = count + 1
      /\ UNCHANGED <<prefix, phase, family, left, page, at, num, scanErr, errs, removed>>
  BY DEF EvictOne, scanning, callback
<1>3. /\ stored' \subseteq stored /\ stable' \subseteq stable /\ stable' \subseteq stored'
      /\ \A k \in stable' : k[2] # p
  BY <1>1, <1>2, EvictGone
<1>4. TypeOK'
  BY <1>1, <1>2, <1>3 DEF IInv, TypeOK
<1>5. Flow' /\ family # "plain"
  BY <1>1, <1>2, <1>3 DEF IInv, Flow, Inside, Matching
<1>6. Counts'
  BY <1>2, <1>5 DEF Counts
<1>7. Owing'
  BY <1>1, <1>2, <1>3 DEF IInv, Owing, Utf8, Victims
<1> QED BY <1>4, <1>5, <1>6, <1>7 DEF IInv

LEMMA EvictOneFailsInv ==
  ASSUME IInv, EvictOneFails
  PROVE  IInv'
<1>1. PICK p \in found :
        /\ \/ Gone({<<"value", p>>, <<"members", p>>})
           \/ UNCHANGED <<stored, stable>>
        /\ found' = found \ {p}
  BY DEF EvictOneFails
<1>2. /\ phase = "evict" /\ errs' = errs + 1
      /\ UNCHANGED <<prefix, phase, family, left, page, at, num, scanErr, count, removed>>
  BY DEF EvictOneFails, scanning, callback
<1>3. stored' \subseteq stored /\ stable' \subseteq stable /\ stable' \subseteq stored'
  BY <1>1, <1>2, EvictGone DEF IInv, TypeOK
<1>4. errs' \in Nat /\ errs' > 0
  BY <1>2 DEF IInv, TypeOK
<1>5. TypeOK'
  BY <1>1, <1>2, <1>3, <1>4 DEF IInv, TypeOK
<1>6. Flow' /\ family # "plain"
  BY <1>1, <1>2, <1>3 DEF IInv, Flow, Inside, Matching
<1>7. Counts'
  BY <1>2, <1>6 DEF Counts
<1>8. Owing'
  BY <1>2, <1>3, <1>4 DEF IInv, Owing, Victims
<1> QED BY <1>5, <1>6, <1>7, <1>8 DEF IInv

LEMMA EvictsDoneInv ==
  ASSUME IInv, EvictsDone
  PROVE  IInv'
<1>1. /\ phase = "evict" /\ found = {} /\ phase' = "done"
      /\ UNCHANGED <<stored, prefix, family, left, page, at, num, scanErr, found, count, errs,
                    removed, stable>>
  BY DEF EvictsDone, scanning, callback, result, history
<1>2. TypeOK'
  BY <1>1 DEF IInv, TypeOK
<1>3. Flow'
  BY <1>1 DEF IInv, Flow, Inside, Matching
<1>4. Counts'
  BY <1>1 DEF IInv, Flow, Counts
<1>5. Owing'
  BY <1>1 DEF IInv, Owing, Utf8, Victims
<1> QED BY <1>2, <1>3, <1>4, <1>5 DEF IInv
-------------------------------------------------------------------------------
LEMMA Inductive == IInv /\ [Next]_vars => IInv'
<1> SUFFICES ASSUME IInv, [Next]_vars PROVE IInv'
  OBVIOUS
<1>1. CASE Start
  BY <1>1, StartInv
<1>2. ASSUME NEW n \in Node, NodeStep(n) PROVE IInv'
  BY <1>2, PageInv, ScanFailsInv, CollectInv, LockInv, DeleteInv, DeleteFailsInv,
     ReadBackInv, WriteBackInv, UnlockInv DEF NodeStep
<1>3. CASE Again \/ ScansDone
  BY <1>3, AgainInv, ScansDoneInv
<1>4. CASE EvictOne \/ EvictOneFails \/ EvictsDone
  BY <1>4, EvictOneInv, EvictOneFailsInv, EvictsDoneInv
<1>5. CASE Others
  BY <1>5, AppearInv, DisappearInv DEF Others
<1>6. CASE UNCHANGED vars
  <2>1. UNCHANGED <<stored, prefix, phase, family, left, page, at, num, scanErr, found, count,
                    errs, removed, stable>>
    BY <1>6 DEF vars, scanning, callback, result, history
  <2>2. TypeOK' /\ Flow'
    BY <2>1 DEF IInv, TypeOK, Flow, Inside, Matching
  <2>3. Counts'
    BY <2>1 DEF IInv, Counts, CountAt, Between, Idle
  <2>4. Owing'
    BY <2>1 DEF IInv, Owing, Owed, Ahead, Matching, Trouble, Utf8, Victims
  <2> QED BY <2>2, <2>3, <2>4 DEF IInv
<1> QED BY <1>1, <1>2, <1>3, <1>4, <1>5, <1>6 DEF Next, CallStep

LEMMA Invariance == Spec => []IInv
  BY InitInv, Inductive, PTL DEF Spec

(* Pages, counters and what is noted have their types; only primaries with *)
(* the prefix are ever noted for eviction.                                 *)
THEOREM TypeCorrect == Spec => []TypeOK
<1>1. IInv => TypeOK BY DEF IInv
<1> QED BY <1>1, Invariance, PTL

(* When the call returns without an error, every key with the prefix that  *)
(* was stored all along is gone, on however many nodes, and whatever       *)
(* others write and delete meanwhile, if the prefix is UTF-8.              *)
THEOREM AlwaysComplete == Spec => []Complete
<1>1. IInv => Complete BY DEF IInv, Owing, Complete
<1> QED BY <1>1, Invariance, PTL

(* The number a plain cache returns never exceeds what its DELs removed,   *)
(* and falls short of it by at most its errors: under the mutex no         *)
(* addition is lost, on however many nodes.                                *)
THEOREM AlwaysCountExact == Spec => []CountExact
<1>1. ASSUME IInv, family = "plain" PROVE count <= removed
  <2>1. count \in Nat /\ errs \in Nat /\ removed \in Nat
        /\ \A n \in Node : num[n] \in Nat /\ at[n] \in {"out", "in", "reply", "error", "count", "errs"}
    BY <1>1 DEF IInv, TypeOK
  <2>2. CASE \A n \in Node : Idle(n)
    BY <1>1, <2>1, <2>2 DEF IInv, Counts, Between
  <2>3. ASSUME NEW n \in Node, ~Idle(n) PROVE count <= removed
    <3>1. CountAt(n) /\ at[n] \in {"reply", "error", "count", "errs"}
      BY <1>1, <2>1, <2>3 DEF IInv, Counts, Idle
    <3> QED BY <2>1, <3>1 DEF CountAt, Between
  <2> QED BY <2>2, <2>3
<1>2. ASSUME IInv, family = "plain", phase = "done" PROVE removed <= count + errs
  <2>1. \A n \in Node : Idle(n)
    BY <1>2 DEF IInv, Flow, Inside, Idle
  <2> QED BY <1>2, <2>1 DEF IInv, Counts, Between
<1>3. IInv => CountExact
  BY <1>1, <1>2 DEF CountExact
<1> QED BY <1>3, Invariance, PTL

(* The call removes no key without the prefix, unless a plain cache is     *)
(* given a prefix that is not UTF-8.                                       *)
THEOREM AlwaysSparesOthers == Spec => SparesOthers
<1>1. ASSUME IInv, CallStep, family # "plain" \/ Utf8
      PROVE  stored \ stored' \subseteq Victims
  <2> SUFFICES ASSUME NEW k \in stored \ stored' PROVE k[2] \in Begins[prefix]
    BY <1>1 DEF IInv, TypeOK, Victims
  <2>1. ASSUME NEW n \in Node, Delete(n) \/ DeleteFails(n) PROVE k[2] \in Begins[prefix]
    <3>1. PICK j \in page[n] : Gone({j}) \/ UNCHANGED stored
      BY <2>1 DEF Delete, DeleteFails
    <3>2. k = j /\ k \in Matching(family, prefix)
      BY <1>1, <3>1 DEF Gone, IInv, Flow
    <3>3. family = "plain"
      BY <1>1, <2>1 DEF Delete, DeleteFails, CallbackStep, IInv, Flow, Inside
    <3> QED BY <1>1, <3>2, <3>3 DEF Matching, Utf8
  <2>2. CASE EvictOne \/ EvictOneFails
    <3>1. PICK p \in found : Gone({<<"value", p>>, <<"members", p>>}) \/ UNCHANGED stored
      BY <2>2 DEF EvictOne, EvictOneFails
    <3>2. k[2] = p
      BY <3>1 DEF Gone
    <3> QED BY <1>1, <3>2 DEF IInv, TypeOK
  <2>3. ASSUME NEW n \in Node,
               \/ Page(n) \/ ScanFails(n) \/ Collect(n) \/ Lock(n)
               \/ ReadBack(n) \/ WriteBack(n) \/ Unlock(n)
        PROVE  UNCHANGED stored
    BY <2>3 DEF Page, ScanFails, Collect, Lock, ReadBack, WriteBack, Unlock
  <2>4. CASE Again \/ ScansDone \/ EvictsDone
    BY <2>4 DEF Again, ScansDone, EvictsDone
  <2> QED BY <1>1, <2>1, <2>2, <2>3, <2>4 DEF CallStep, NodeStep
<1>2. IInv /\ [Next]_vars =>
        [CallStep /\ (family # "plain" \/ Utf8) => stored \ stored' \subseteq Victims]_vars
  BY <1>1
<1> QED BY <1>2, Invariance, PTL DEF Spec, SparesOthers
===============================================================================
