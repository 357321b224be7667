--------------------------- MODULE AliasCacheProofs ---------------------------
(***************************************************************************)
(* Theorems about the alias cache for any rows, callers, TTLs and failing  *)
(* requests.  To the group every step of a caller, and of the clock, is an *)
(* operation of AliasGroup or nothing at all, so what AliasGroup promises  *)
(* holds here.  That the operations are called with values and aliases of  *)
(* the right kind is what the rest of the inductive invariant is for: a    *)
(* call that stores does so under an alias, or under the very primary it   *)
(* stores.                                                                 *)
(***************************************************************************)
EXTENDS AliasCache, TLAPS
-------------------------------------------------------------------------------
(* The abstract alias group, for every set of primaries, fields, alias     *)
(* values and values.                                                      *)
Safe == TypeOK /\ NoDanglingAlias /\ OneAliasPerField

(* Invalidate, behind evictions and expiry, keeps the group safe. *)
LEMMA InvalidateSafe ==
  ASSUME Safe, NEW S, Invalidate(S)
  PROVE  Safe'
<1>1. TypeOK'
  BY DEF Safe, TypeOK, Invalidate
<1>2. NoDanglingAlias'
  BY NothingAssumption DEF Safe, TypeOK, Invalidate, NoDanglingAlias
<1>3. OneAliasPerField'
  BY NothingAssumption DEF Safe, TypeOK, Invalidate, OneAliasPerField
<1> QED BY <1>1, <1>2, <1>3 DEF Safe

(* Safe is inductive as it stands. *)
LEMMA SafeInductive == Safe /\ [Next]_vars => Safe'
<1> SUFFICES ASSUME Safe, [Next]_vars PROVE Safe'
  OBVIOUS
<1>1. CASE UNCHANGED vars
  BY <1>1 DEF Safe, TypeOK, NoDanglingAlias, OneAliasPerField, vars
<1>2. ASSUME NEW p \in Primary, NEW v \in Value, PutValue(p, v) PROVE Safe'
  BY <1>2, NothingAssumption DEF PutValue, Safe, TypeOK, NoDanglingAlias, OneAliasPerField
<1>3. ASSUME NEW p \in Primary, NEW f \in Field, NEW a \in AliasValue, NEW v \in Value,
             PutByAlias(p, f, a, v)
      PROVE  Safe'
  <2>1. TypeOK'
    BY <1>3 DEF PutByAlias, Safe, TypeOK
  <2>2. NoDanglingAlias'
    BY <1>3, NothingAssumption DEF PutByAlias, Safe, TypeOK, NoDanglingAlias
  <2>3. OneAliasPerField'
    BY <1>3, NothingAssumption DEF PutByAlias, Safe, TypeOK, OneAliasPerField
  <2> QED BY <2>1, <2>2, <2>3 DEF Safe
<1>4. ASSUME NEW p \in Primary, EvictByPrimary(p) PROVE Safe'
  BY <1>4, InvalidateSafe DEF EvictByPrimary
<1>5. ASSUME NEW f \in Field, NEW a \in AliasValue, EvictByAlias(f, a) PROVE Safe'
  BY <1>5, InvalidateSafe DEF EvictByAlias
<1>6. ASSUME NEW S \in SUBSET Primary, Expire(S) PROVE Safe'
  BY <1>6, InvalidateSafe DEF Expire
<1> QED BY <1>1, <1>2, <1>3, <1>4, <1>5, <1>6 DEF Next

LEMMA SafeInvariant == Spec => []Safe
<1>1. Init => Safe
  BY NothingAssumption DEF Init, Safe, TypeOK, NoDanglingAlias, OneAliasPerField
<1> QED BY <1>1, SafeInductive, PTL DEF Spec

(* No operation leaves an alias that leads to nothing, whatever the number *)
(* of records, fields and aliases.                                         *)
THEOREM NeverDangling == Spec => []NoDanglingAlias
<1>1. Safe => NoDanglingAlias BY DEF Safe
<1> QED BY <1>1, SafeInvariant, PTL

(* No two aliases of one field ever lead to the same record.               *)
THEOREM AlwaysOneAlias == Spec => []OneAliasPerField
<1>1. Safe => OneAliasPerField BY DEF Safe
<1> QED BY <1>1, SafeInvariant, PTL
-------------------------------------------------------------------------------

(* As in CacheTypeOK, and ref leads to p or is an alias. *)
Stores ==
    {x \in [at : {"populate", "store"}, r : Request, p : Primary, ref : Request, v : Value] :
        x.ref = x.p \/ x.ref \in Alias}
Calls ==
    {Idle} \cup [at : {"join", "wait", "load", "finish", "evict"}, r : Request]
           \cup Stores
           \cup [at : {"reading"}, missing : SUBSET Primary]
           \cup [at : {"filling"}, rows : [Primary -> Value \cup {None}]]

(* The group and its life. *)
Cached ==
    /\ Safe
    /\ life \in [Primary -> Nat \cup {-1}]
    /\ \A p \in Primary : life[p] = 0 <=> value[p] = None

Rows == db \in [Primary -> Row \cup {None}]

Underway ==
    /\ flight \in [Request -> Caller \cup {None}]
    /\ call \in [Caller -> Calls]

IInv == Cached /\ Rows /\ Underway /\ FlightIntegrity

LeadingSteps == {"load", "populate", "finish"}
FlightSteps  == LeadingSteps \cup {"wait"}

(* What the place of a call says of its other fields. *)
LEMMA CallFields ==
  ASSUME NEW x \in Calls
  PROVE  /\ x.at \in {"join", "wait", "load", "finish", "evict"} =>
               x.r \in Request /\ x = At(x.at, x.r)
         /\ x.at \in {"populate", "store"} =>
               /\ x.r \in Request /\ x.p \in Primary /\ x.v \in Value
               /\ x.ref = x.p \/ x.ref \in Alias
         /\ x.at = "reading" => x.missing \in SUBSET Primary
                                /\ x = [at |-> "reading", missing |-> x.missing]
         /\ x.at = "filling" => x.rows \in [Primary -> Value \cup {None}]
         /\ x = Idle <=> x.at = "idle"
  BY DEF Calls, Stores, Idle, At

LEMMA Places ==
  /\ Idle \in Calls /\ Idle.at = "idle"
  /\ \A s \in {"join", "wait", "load", "finish", "evict"}, r \in Request :
        At(s, r) \in Calls /\ At(s, r).at = s /\ At(s, r).r = r
  /\ \A M \in SUBSET Primary :
        /\ [at |-> "reading", missing |-> M] \in Calls
        /\ [at |-> "reading", missing |-> M].at = "reading"
  /\ \A rows \in [Primary -> Value \cup {None}] :
        Filling(rows) \in Calls /\ Filling(rows).at \notin FlightSteps
  BY DEF Idle, At, Filling, Calls, FlightSteps, LeadingSteps

LEMMA StoringPlace ==
  ASSUME NEW s \in {"populate", "store"}, NEW r \in Request, NEW p \in Primary,
         NEW ref \in Request, NEW v \in Value, ref = p \/ ref \in Alias
  PROVE  /\ Storing(s, r, p, ref, v) \in Calls
         /\ Storing(s, r, p, ref, v).at = s /\ Storing(s, r, p, ref, v).r = r
  BY DEF Storing, Calls, Stores

(* A step that leaves the flights alone: a leader goes on leading for the  *)
(* same request, or a caller that has no part in a flight goes on so.      *)
LEMMA FlightsAlone ==
  ASSUME Underway, FlightIntegrity, NEW c \in Caller, NEW next \in Calls,
         Continue(c, next), UNCHANGED flight,
         \/ Leading(c) /\ next.at \in LeadingSteps /\ next.r = call[c].r
         \/ call[c].at \notin FlightSteps /\ next.at \notin FlightSteps
  PROVE  Underway' /\ FlightIntegrity'
<1>1. /\ call' \in [Caller -> Calls]
      /\ \A w \in Caller : call'[w] = IF w = c THEN next ELSE call[w]
  BY DEF Underway, Continue
<1>2. ASSUME NEW w \in Caller
      PROVE  /\ Leading(w)' <=> Leading(w)
             /\ Leading(w) => call'[w].r = call[w].r
             /\ call'[w].at = "wait" => call[w].at = "wait" /\ call'[w] = call[w]
  BY <1>1 DEF Leading, LeadingSteps, FlightSteps
<1>3. \A w \in Caller : Leading(w)' => flight'[call'[w].r] = w
  BY <1>2 DEF FlightIntegrity
<1>4. ASSUME NEW r \in Request, flight'[r] # None
      PROVE  Leading(flight[r])' /\ call'[flight'[r]].r = r
  <2>1. PICK w \in Caller : w = flight[r]
    BY <1>4 DEF Underway
  <2>2. Leading(w) /\ call[w].r = r
    BY <2>1, <1>4 DEF FlightIntegrity
  <2> QED BY <2>1, <2>2, <1>2 DEF Leading
<1>5. \A w \in Caller : call'[w].at = "wait" => flight'[call'[w].r] # None
  BY <1>2 DEF FlightIntegrity
<1> QED BY <1>1, <1>3, <1>4, <1>5 DEF Underway, FlightIntegrity
-------------------------------------------------------------------------------
(* What the requests do to the group. *)
LEMMA StoreStep ==
  ASSUME Cached, NEW p \in Primary, NEW ref, ref = p \/ ref \in Alias, NEW v \in Value,
         Store(p, ref, v)
  PROVE  Next /\ Cached'
<1>1. Next
  <2>1. CASE ref = p
    BY <2>1 DEF Store, Next
  <2>2. CASE ref # p
    <3>1. PICK f \in Field, a \in AliasValue : ref = <<f, a>>
      BY <2>2 DEF Alias
    <3>2. PutByAlias(p, f, a, v)
      BY <2>2, <3>1 DEF Store
    <3> QED BY <3>2 DEF Next
  <2> QED BY <2>1, <2>2
<1>2. value' = [value EXCEPT ![p] = v]
  BY DEF Store, PutValue, PutByAlias
<1>3. PICK n \in (Nat \ {0}) \cup {-1} : life' = [life EXCEPT ![p] = n]
  <2>1. \A d \in PositiveTtl \cup NegativeTtl : LifeOf(d) \in (Nat \ {0}) \cup {-1}
    BY TtlAssumption DEF LifeOf
  <2> QED BY <2>1 DEF Store
<1>4. v # None
  BY NothingAssumption
<1>5. Safe'
  BY <1>1, SafeInductive DEF Cached
<1> QED BY <1>1, <1>2, <1>3, <1>4, <1>5 DEF Cached, Safe, TypeOK

LEMMA InvalidateStep ==
  ASSUME Cached, NEW S \in SUBSET Primary, Invalidate(S),
         life' \in [Primary -> Nat \cup {-1}],
         \A p \in Primary : life'[p] = 0 <=> p \in S \/ life[p] = 0
  PROVE  Next /\ Cached'
<1>1. Next
  BY DEF Next, Expire
<1>2. Safe'
  BY InvalidateSafe DEF Cached
<1>3. \A p \in Primary : life'[p] = 0 <=> value'[p] = None
  BY DEF Cached, Invalidate
<1> QED BY <1>1, <1>2, <1>3 DEF Cached

LEMMA RemoveStep ==
  ASSUME Cached, NEW S \in SUBSET Primary, Remove(S)
  PROVE  Next /\ Cached'
<1>1. life' = [p \in Primary |-> IF p \in S THEN 0 ELSE life[p]]
  BY DEF Remove
<1>2. life' \in [Primary -> Nat \cup {-1}]
  BY <1>1 DEF Cached
<1> QED BY <1>1, <1>2, InvalidateStep DEF Remove

LEMMA TargetType ==
  ASSUME Cached, NEW r \in Request
  PROVE  Target(r) \in SUBSET Primary
  BY DEF Cached, Safe, TypeOK, Target, Request, Alias

LEMMA Unchanged ==
  ASSUME Cached, UNCHANGED <<vars, life>>
  PROVE  Cached'
  BY SafeInductive DEF Cached, vars
-------------------------------------------------------------------------------
(* The start of a flight, a join and the end of a flight. *)
LEMMA LeadFlights ==
  ASSUME Underway, FlightIntegrity, NEW c \in Caller, Lead(c)
  PROVE  Underway' /\ FlightIntegrity'
<1>1. call \in [Caller -> Calls] /\ flight \in [Request -> Caller \cup {None}]
  BY DEF Underway
<1>2. PICK r \in Request : r = call[c].r /\ call[c].at = "join"
  BY <1>1, CallFields DEF Lead
<1>3. PICK next \in Calls : next = At("load", r) /\ next.at = "load" /\ next.r = r
  BY Places
<1>4. /\ flight[r] = None
      /\ flight' = [flight EXCEPT ![r] = c]
      /\ call' = [call EXCEPT ![c] = next]
  BY <1>2, <1>3 DEF Lead, Continue
<1>5. Underway'
  BY <1>1, <1>4 DEF Underway
<1>6. /\ call'[c] = next
      /\ \A w \in Caller : w # c => call'[w] = call[w]
  BY <1>1, <1>4
<1>7. \A q \in Request : flight'[q] = IF q = r THEN c ELSE flight[q]
  BY <1>1, <1>4
<1>8. ASSUME NEW w \in Caller, Leading(w)' PROVE flight'[call'[w].r] = w
  <2>1. CASE w = c
    BY <2>1, <1>3, <1>6, <1>7
  <2>2. CASE w # c
    <3>1. Leading(w) /\ call'[w] = call[w]
      BY <2>2, <1>6, <1>8 DEF Leading
    <3>2. flight[call[w].r] = w /\ call[w].r \in Request
      BY <3>1, <1>1, CallFields DEF FlightIntegrity, Leading
    <3>3. w # None
      BY CallerAssumption
    <3> QED BY <3>1, <3>2, <3>3, <1>4, <1>7
  <2> QED BY <2>1, <2>2
<1>9. ASSUME NEW q \in Request, flight'[q] # None
      PROVE  Leading(flight[q])' /\ call'[flight'[q]].r = q
  <2>1. CASE q = r
    BY <2>1, <1>3, <1>6, <1>7 DEF Leading
  <2>2. CASE q # r
    <3>1. PICK w \in Caller : w = flight[q] /\ w = flight'[q]
      BY <2>2, <1>1, <1>7, <1>9
    <3>2. Leading(w) /\ call[w].r = q
      BY <2>2, <3>1, <1>7, <1>9 DEF FlightIntegrity
    <3>3. w # c
      BY <3>2, <1>2 DEF Leading
    <3> QED BY <3>1, <3>2, <3>3, <1>6 DEF Leading
  <2> QED BY <2>1, <2>2
<1>10. ASSUME NEW w \in Caller, call'[w].at = "wait" PROVE flight'[call'[w].r] # None
  <2>1. w # c /\ call[w].at = "wait" /\ call'[w] = call[w]
    BY <1>3, <1>6, <1>10
  <2>2. call[w].r \in Request /\ flight[call[w].r] # None
    BY <2>1, <1>1, CallFields DEF FlightIntegrity
  <2> QED BY <2>1, <2>2, <1>7, CallerAssumption
<1> QED BY <1>5, <1>8, <1>9, <1>10 DEF FlightIntegrity

LEMMA WaitFlights ==
  ASSUME Underway, FlightIntegrity, NEW c \in Caller, Wait(c)
  PROVE  Underway' /\ FlightIntegrity'
<1>1. call \in [Caller -> Calls] /\ flight \in [Request -> Caller \cup {None}]
  BY DEF Underway
<1>2. PICK r \in Request : r = call[c].r /\ call[c].at = "join"
  BY <1>1, CallFields DEF Wait
<1>3. PICK next \in Calls : next = At("wait", r) /\ next.at = "wait" /\ next.r = r
  BY Places
<1>4. flight[r] # None /\ call' = [call EXCEPT ![c] = next] /\ UNCHANGED flight
  BY <1>2, <1>3 DEF Wait, Continue
<1>5. /\ call'[c] = next
      /\ \A w \in Caller : w # c => call'[w] = call[w]
  BY <1>1, <1>4
<1>6. \A w \in Caller : Leading(w)' <=> Leading(w) /\ w # c
  BY <1>2, <1>3, <1>5 DEF Leading
<1>7. ASSUME NEW q \in Request, flight'[q] # None
      PROVE  Leading(flight[q])' /\ call'[flight'[q]].r = q
  <2>1. PICK w \in Caller : w = flight[q]
    BY <1>1, <1>4, <1>7
  <2>2. Leading(w) /\ call[w].r = q
    BY <2>1, <1>4, <1>7 DEF FlightIntegrity
  <2>3. w # c
    BY <2>2, <1>2 DEF Leading
  <2> QED BY <2>1, <2>2, <2>3, <1>4, <1>5 DEF Leading
<1> QED BY <1>1, <1>3, <1>4, <1>5, <1>6, <1>7 DEF Underway, FlightIntegrity

LEMMA FinishFlights ==
  ASSUME Underway, FlightIntegrity, NEW c \in Caller, Finish(c)
  PROVE  Underway' /\ FlightIntegrity'
<1>1. call \in [Caller -> Calls] /\ flight \in [Request -> Caller \cup {None}]
  BY DEF Underway
<1>2. PICK r \in Request : r = call[c].r /\ call[c].at = "finish"
  BY <1>1, CallFields DEF Finish
<1>3. /\ flight' = [flight EXCEPT ![r] = None]
      /\ call' = [w \in Caller |-> IF w \in Released(c) THEN Idle ELSE call[w]]
  BY <1>2 DEF Finish
<1>4. Underway'
  BY <1>1, <1>3, Places DEF Underway
<1>5. \A q \in Request : flight'[q] = IF q = r THEN None ELSE flight[q]
  BY <1>1, <1>3
<1>6. c \in Released(c) /\ flight[r] = c
  BY <1>2 DEF Released, FlightIntegrity, Leading
<1>7. ASSUME NEW w \in Caller, w # c
      PROVE  w \in Released(c) <=> call[w].at = "wait" /\ call[w].r = r
  <2>1. call[w] \in Calls
    BY <1>1
  <2>2. call[w].at = "wait" => call[w] = At("wait", call[w].r)
    BY <2>1, CallFields
  <2>3. At("wait", r).at = "wait" /\ At("wait", r).r = r
    BY Places
  <2> QED BY <1>2, <1>7, <2>2, <2>3 DEF Released
<1>8. ASSUME NEW w \in Caller, call'[w].at # "idle"
      PROVE  /\ w \notin Released(c) /\ w # c /\ call'[w] = call[w]
             /\ ~(call[w].at = "wait" /\ call[w].r = r)
  <2>1. w \notin Released(c) /\ call'[w] = call[w]
    BY <1>3, <1>8, Places
  <2> QED BY <2>1, <1>6, <1>7
<1>9. ASSUME NEW w \in Caller, Leading(w)' PROVE flight'[call'[w].r] = w
  <2>1. w # c /\ call'[w] = call[w] /\ Leading(w)
    BY <1>8, <1>9 DEF Leading
  <2>2. flight[call[w].r] = w /\ call[w].r \in Request
    BY <2>1, <1>1, CallFields DEF FlightIntegrity, Leading
  <2> QED BY <2>1, <2>2, <1>5, <1>6
<1>10. ASSUME NEW q \in Request, flight'[q] # None
       PROVE  Leading(flight[q])' /\ call'[flight'[q]].r = q
  <2>1. flight'[q] = flight[q] /\ q # r
    BY <1>5, <1>10
  <2>2. PICK w \in Caller : w = flight[q]
    BY <2>1, <1>1, <1>10
  <2>3. Leading(w) /\ call[w].r = q
    BY <2>1, <2>2, <1>10 DEF FlightIntegrity
  <2>4. w \notin Released(c)
    BY <2>1, <2>3, <1>2, <1>7 DEF Leading
  <2> QED BY <2>1, <2>2, <2>3, <2>4, <1>3 DEF Leading
<1>11. ASSUME NEW w \in Caller, call'[w].at = "wait" PROVE flight'[call'[w].r] # None
  <2>1. call'[w] = call[w] /\ call[w].r # r
    BY <1>8, <1>11
  <2>2. call[w].r \in Request /\ flight[call[w].r] # None
    BY <2>1, <1>1, <1>11, CallFields DEF FlightIntegrity
  <2> QED BY <2>1, <2>2, <1>5
<1> QED BY <1>4, <1>9, <1>10, <1>11 DEF FlightIntegrity
-------------------------------------------------------------------------------
(* Every step of a call is a step of the group, or nothing to it, and      *)
(* keeps the invariant.                                                    *)
LEMMA CommitRows ==
  ASSUME Rows, NEW p \in Primary, NEW row \in Row \cup {None}, Commit(p, row)
  PROVE  Rows'
  BY DEF Rows, Commit

LEMMA StartStep ==
  ASSUME IInv, NEW c \in Caller, Start(c)
  PROVE  [Next]_vars /\ IInv'
<1>1. Cached /\ Rows /\ Underway /\ FlightIntegrity
  BY DEF IInv
<1>i. ASSUME NEW next \in Calls, call[c] = Idle, Continue(c, next),
             UNCHANGED <<vars, life, flight>>, next.at \notin FlightSteps, Rows'
      PROVE  [Next]_vars /\ IInv'
  <2>1. call[c].at \notin FlightSteps
    BY <1>i, Places DEF FlightSteps, LeadingSteps
  <2>2. Underway' /\ FlightIntegrity'
    BY <1>1, <1>i, <2>1, FlightsAlone
  <2>3. Cached'
    BY <1>1, <1>i, Unchanged
  <2> QED BY <1>i, <2>2, <2>3 DEF IInv
<1>2. ASSUME NEW r \in Request, Miss(c, r) PROVE [Next]_vars /\ IInv'
  <2>1. PICK next \in Calls : next = At("join", r) /\ next.at = "join"
    BY Places
  <2>2. call[c] = Idle /\ Continue(c, next) /\ UNCHANGED <<vars, db, life, flight>>
    BY <1>2, <2>1 DEF Miss
  <2>3. Rows'
    BY <2>2, <1>1 DEF Rows
  <2> QED BY <2>1, <2>2, <2>3, <1>i DEF FlightSteps, LeadingSteps
<1>3. CASE StartMany(c)
  <2> DEFINE next == [at |-> "reading", missing |-> {}]
  <2>1. next \in Calls /\ next.at = "reading"
    BY DEF Calls
  <2>2. call[c] = Idle /\ Continue(c, next) /\ UNCHANGED <<vars, db, life, flight>>
    BY <1>3 DEF StartMany
  <2>3. Rows'
    BY <2>2, <1>1 DEF Rows
  <2> QED BY <2>1, <2>2, <2>3, <1>i DEF FlightSteps, LeadingSteps
<1>4. ASSUME NEW p \in Primary, NEW row \in Row,
             NEW ref \in {p} \cup {<<f, row[f]>> : f \in Field}, Put(c, p, ref, row)
      PROVE  [Next]_vars /\ IInv'
  <2>1. p \in Request /\ ref \in Request /\ (ref = p \/ ref \in Alias) /\ row \in Value
    BY RowAssumption DEF Request, Alias, Row
  <2>2. PICK next \in Calls : next = Storing("store", p, p, ref, row) /\ next.at = "store"
    BY <2>1, StoringPlace
  <2>3. call[c] = Idle /\ Continue(c, next) /\ UNCHANGED <<vars, life, flight>>
    BY <1>4, <2>2 DEF Put
  <2>4. Rows'
    BY <1>1, <1>4, CommitRows DEF Put
  <2> QED BY <2>2, <2>3, <2>4, <1>i DEF FlightSteps, LeadingSteps
<1>5. ASSUME NEW p \in Primary, NEW row \in Row, WriteUnreported(c, p, row)
      PROVE  [Next]_vars /\ IInv'
  <2>1. Rows' /\ UNCHANGED <<vars, life, flight, call>>
    BY <1>1, <1>5, CommitRows DEF WriteUnreported
  <2>2. Cached'
    BY <1>1, <2>1, Unchanged
  <2>3. Underway' /\ FlightIntegrity'
    BY <1>1, <2>1 DEF Underway, FlightIntegrity, Leading
  <2> QED BY <2>1, <2>2, <2>3 DEF IInv
<1>6. ASSUME NEW p \in Primary, NEW r \in Request, NEW row \in Row \cup {None},
             WriteThenEvict(c, p, r, row)
      PROVE  [Next]_vars /\ IInv'
  <2>1. PICK next \in Calls : next = At("evict", r) /\ next.at = "evict"
    BY Places
  <2>2. call[c] = Idle /\ Continue(c, next) /\ UNCHANGED <<vars, life, flight>>
    BY <1>6, <2>1 DEF WriteThenEvict
  <2>3. Rows'
    BY <1>1, <1>6, CommitRows DEF WriteThenEvict
  <2> QED BY <2>1, <2>2, <2>3, <1>i DEF FlightSteps, LeadingSteps
<1> QED BY <1>2, <1>3, <1>4, <1>5, <1>6 DEF Start

(* The steps of a flight: they may touch the group, not the rows. *)
LEMMA FlightStep ==
  ASSUME IInv, NEW c \in Caller,
         \/ Lead(c) \/ Wait(c) \/ Finish(c)
         \/ Load(c) \/ LoadFails(c) \/ Populate(c) \/ PopulateFails(c)
  PROVE  [Next]_vars /\ IInv'
<1>1. Cached /\ Rows /\ Underway /\ FlightIntegrity /\ call[c] \in Calls
  BY DEF IInv, Underway
<1>2. Rows'
  BY <1>1 DEF Rows, Lead, Wait, Finish, Load, LoadFails, Populate, PopulateFails
<1>i. ASSUME NEW next \in Calls, Leading(c), Continue(c, next), UNCHANGED flight,
             next.at \in LeadingSteps, next.r = call[c].r
      PROVE  Underway' /\ FlightIntegrity'
  BY <1>1, <1>i, FlightsAlone
<1>3. CASE Lead(c) \/ Wait(c) \/ Finish(c)
  <2>1. UNCHANGED <<vars, life>>
    BY <1>3 DEF Lead, Wait, Finish
  <2>2. Underway' /\ FlightIntegrity'
    BY <1>1, <1>3, LeadFlights, WaitFlights, FinishFlights
  <2> QED BY <1>1, <1>2, <2>1, <2>2, Unchanged DEF IInv
<1>4. CASE Load(c)
  <2>1. PICK r \in Request : r = call[c].r
    BY <1>1, <1>4, CallFields DEF Load
  <2>2. UNCHANGED <<vars, life, flight>> /\ Leading(c)
    BY <1>4 DEF Load, Leading
  <2> DEFINE Goes == \E next \in Calls :
                        Continue(c, next) /\ next.at \in LeadingSteps /\ next.r = r
  <2>3. Goes
    <3>1. ASSUME NEW p \in RowsOf(r), Continue(c, Storing("populate", r, p, r, db[p]))
          PROVE  Goes
      <4>1. p \in Primary /\ db[p] \in Value /\ (r = p \/ r \in Alias)
        BY <1>1, RowAssumption DEF RowsOf, Rows, Request
      <4>2. Storing("populate", r, p, r, db[p]) \in Calls
            /\ Storing("populate", r, p, r, db[p]).at = "populate"
            /\ Storing("populate", r, p, r, db[p]).r = r
        BY <4>1, StoringPlace
      <4> QED BY <3>1, <4>2 DEF LeadingSteps
    <3>2. ASSUME r \in Primary, Continue(c, Storing("populate", r, r, r, Marker))
          PROVE  Goes
      <4>1. Storing("populate", r, r, r, Marker) \in Calls
            /\ Storing("populate", r, r, r, Marker).at = "populate"
            /\ Storing("populate", r, r, r, Marker).r = r
        BY <3>2, StoringPlace, RowAssumption
      <4> QED BY <3>2, <4>1 DEF LeadingSteps
    <3>3. ASSUME Continue(c, At("finish", r)) PROVE Goes
      BY <3>3, Places DEF LeadingSteps
    <3> QED BY <1>4, <2>1, <3>1, <3>2, <3>3 DEF Load
  <2> QED BY <1>1, <1>2, <1>i, <2>1, <2>2, <2>3, Unchanged DEF IInv
<1>5. CASE LoadFails(c) \/ PopulateFails(c)
  <2>1. PICK r \in Request : r = call[c].r
    BY <1>1, <1>5, CallFields DEF LoadFails, PopulateFails
  <2>2. UNCHANGED <<vars, life, flight>> /\ Leading(c) /\ Continue(c, At("finish", r))
    BY <1>5, <2>1 DEF LoadFails, PopulateFails, Leading
  <2>3. Underway' /\ FlightIntegrity'
    BY <1>i, <2>1, <2>2, Places DEF LeadingSteps
  <2> QED BY <1>1, <1>2, <2>2, <2>3, Unchanged DEF IInv
<1>6. CASE Populate(c)
  <2>1. /\ call[c].r \in Request /\ call[c].p \in Primary /\ call[c].v \in Value
        /\ call[c].ref = call[c].p \/ call[c].ref \in Alias
    BY <1>1, <1>6, CallFields DEF Populate
  <2>2. PICK r \in Request : r = call[c].r
    BY <2>1
  <2>3. Store(call[c].p, call[c].ref, call[c].v) /\ UNCHANGED flight /\ Leading(c)
        /\ Continue(c, At("finish", r))
    BY <1>6, <2>2 DEF Populate, Leading
  <2>4. Underway' /\ FlightIntegrity'
    BY <1>i, <2>2, <2>3, Places DEF LeadingSteps
  <2>5. Next /\ Cached'
    BY <1>1, <2>1, <2>3, StoreStep
  <2> QED BY <1>2, <2>4, <2>5 DEF IInv
<1> QED BY <1>3, <1>4, <1>5, <1>6

(* The other steps of a call. *)
LEMMA OtherStep ==
  ASSUME IInv, NEW c \in Caller,
         \/ LoadMany(c) \/ LoadManyFails(c)
         \/ \E p \in Primary : MissOne(c, p) \/ Fill(c, p) \/ FillFails(c, p)
         \/ StoreRow(c) \/ StoreFails(c) \/ Evict(c) \/ EvictFails(c)
  PROVE  [Next]_vars /\ IInv'
<1>1. Cached /\ Rows /\ Underway /\ FlightIntegrity /\ call[c] \in Calls
  BY DEF IInv, Underway
<1>2. Rows' /\ UNCHANGED flight /\ call[c].at \notin FlightSteps
  BY <1>1 DEF Rows, LoadMany, LoadManyFails, MissOne, Fill, FillFails, StoreRow,
              StoreFails, Evict, EvictFails, FlightSteps, LeadingSteps
<1>i. ASSUME NEW next \in Calls, Continue(c, next), next.at \notin FlightSteps
      PROVE  Underway' /\ FlightIntegrity'
  BY <1>1, <1>2, <1>i, FlightsAlone
<1>u. ASSUME NEW next \in Calls, Continue(c, next), next.at \notin FlightSteps,
             UNCHANGED <<vars, life>>
      PROVE  [Next]_vars /\ IInv'
  BY <1>1, <1>2, <1>i, <1>u, Unchanged DEF IInv
<1>d. Idle \in Calls /\ Idle.at \notin FlightSteps
  BY Places DEF FlightSteps, LeadingSteps
<1>3. CASE LoadMany(c)
  <2>1. PICK rows : rows = [p \in Primary |->
            IF p \notin call[c].missing \/ (db[p] = None /\ NegativeTtl = {}) THEN None
            ELSE IF db[p] = None THEN Marker ELSE db[p]]
    OBVIOUS
  <2>2. rows \in [Primary -> Value \cup {None}]
    BY <1>1, <2>1, RowAssumption DEF Rows
  <2>3. Continue(c, Filling(rows)) /\ UNCHANGED <<vars, life>>
    BY <1>3, <2>1 DEF LoadMany
  <2> QED BY <1>u, <2>2, <2>3, Places
<1>4. CASE LoadManyFails(c) \/ StoreFails(c) \/ EvictFails(c)
  <2>1. Continue(c, Idle) /\ UNCHANGED <<vars, life>>
    BY <1>4 DEF LoadManyFails, StoreFails, EvictFails
  <2> QED BY <1>u, <1>d, <2>1
<1>5. ASSUME NEW p \in Primary, MissOne(c, p) PROVE [Next]_vars /\ IInv'
  <2>1. PICK M \in SUBSET Primary : call[c] = [at |-> "reading", missing |-> M]
    BY <1>1, <1>5, CallFields DEF MissOne
  <2>2. Continue(c, [at |-> "reading", missing |-> M \cup {p}]) /\ UNCHANGED <<vars, life>>
    BY <1>5, <2>1 DEF MissOne
  <2>3. M \cup {p} \in SUBSET Primary
    OBVIOUS
  <2> QED BY <1>u, <2>2, <2>3, Places DEF FlightSteps, LeadingSteps
<1>6. ASSUME NEW p \in Primary, Fill(c, p) \/ FillFails(c, p) PROVE [Next]_vars /\ IInv'
  <2>1. PICK rows \in [Primary -> Value \cup {None}] : rows = call[c].rows
    BY <1>1, <1>6, CallFields DEF Fill, FillFails
  <2>2. [rows EXCEPT ![p] = None] \in [Primary -> Value \cup {None}]
    OBVIOUS
  <2>3. Continue(c, Filling([rows EXCEPT ![p] = None]))
    BY <1>6, <2>1 DEF Fill, FillFails
  <2>4. CASE FillFails(c, p)
    <3>1. UNCHANGED <<vars, life>>
      BY <2>4 DEF FillFails
    <3> QED BY <1>u, <2>2, <2>3, <3>1, Places
  <2>5. CASE Fill(c, p)
    <3>1. rows[p] \in Value /\ Store(p, p, rows[p])
      BY <2>1, <2>5 DEF Fill
    <3>2. Next /\ Cached'
      BY <1>1, <3>1, StoreStep
    <3>3. Underway' /\ FlightIntegrity'
      BY <1>i, <2>2, <2>3, Places
    <3> QED BY <1>2, <3>2, <3>3 DEF IInv
  <2> QED BY <1>6, <2>4, <2>5
<1>7. CASE StoreRow(c)
  <2>1. /\ call[c].p \in Primary /\ call[c].v \in Value
        /\ call[c].ref = call[c].p \/ call[c].ref \in Alias
    BY <1>1, <1>7, CallFields DEF StoreRow
  <2>2. Store(call[c].p, call[c].ref, call[c].v) /\ Continue(c, Idle)
    BY <1>7 DEF StoreRow
  <2>3. Next /\ Cached'
    BY <1>1, <2>1, <2>2, StoreStep
  <2> QED BY <1>2, <1>d, <1>i, <2>2, <2>3 DEF IInv
<1>8. CASE Evict(c)
  <2>1. Target(call[c].r) \in SUBSET Primary
    BY <1>1, <1>8, CallFields, TargetType DEF Evict
  <2>2. Remove(Target(call[c].r)) /\ Continue(c, Idle)
    BY <1>8 DEF Evict
  <2>3. Next /\ Cached'
    BY <1>1, <2>1, <2>2, RemoveStep
  <2> QED BY <1>2, <1>d, <1>i, <2>2, <2>3 DEF IInv
<1> QED BY <1>3, <1>4, <1>5, <1>6, <1>7, <1>8

LEMMA TickStep ==
  ASSUME IInv, Tick
  PROVE  [Next]_vars /\ IInv'
<1>1. Cached /\ Rows /\ Underway /\ FlightIntegrity
  BY DEF IInv
<1>2. /\ life' = [p \in Primary |-> IF life[p] > 0 THEN life[p] - 1 ELSE life[p]]
      /\ Invalidate({p \in Primary : life[p] = 1})
      /\ UNCHANGED <<db, flight, call>>
  BY DEF Tick, Expire
<1>3. life' \in [Primary -> Nat \cup {-1}]
  BY <1>1, <1>2 DEF Cached
<1>4. \A p \in Primary : life'[p] = 0 <=> p \in {q \in Primary : life[q] = 1} \/ life[p] = 0
  BY <1>1, <1>2 DEF Cached
<1>5. Next /\ Cached'
  BY <1>1, <1>2, <1>3, <1>4, InvalidateStep
<1>6. Rows' /\ Underway' /\ FlightIntegrity'
  BY <1>1, <1>2 DEF Rows, Underway, FlightIntegrity, Leading
<1> QED BY <1>5, <1>6 DEF IInv

LEMMA CacheInductive == IInv /\ [CacheNext]_cacheVars => [Next]_vars /\ IInv'
<1> SUFFICES ASSUME IInv, [CacheNext]_cacheVars PROVE [Next]_vars /\ IInv'
  OBVIOUS
<1>1. ASSUME NEW c \in Caller, Start(c) PROVE [Next]_vars /\ IInv'
  BY <1>1, StartStep
<1>2. ASSUME NEW c \in Caller, Proceed(c) PROVE [Next]_vars /\ IInv'
  <2>1. CASE \/ Lead(c) \/ Wait(c) \/ Finish(c)
             \/ Load(c) \/ LoadFails(c) \/ Populate(c) \/ PopulateFails(c)
    BY <2>1, FlightStep
  <2>2. CASE \/ LoadMany(c) \/ LoadManyFails(c)
             \/ \E p \in Primary : MissOne(c, p) \/ Fill(c, p) \/ FillFails(c, p)
             \/ StoreRow(c) \/ StoreFails(c) \/ Evict(c) \/ EvictFails(c)
    BY <2>2, OtherStep
  <2> QED BY <1>2, <2>1, <2>2 DEF Proceed
<1>3. CASE Tick
  BY <1>3, TickStep
<1>4. CASE UNCHANGED cacheVars
  <2>1. UNCHANGED <<vars, db, life, flight, call>>
    BY <1>4 DEF cacheVars
  <2>2. Cached'
    BY <2>1, Unchanged DEF IInv
  <2> QED BY <2>1, <2>2 DEF IInv, Rows, Underway, FlightIntegrity, Leading
<1> QED BY <1>1, <1>2, <1>3, <1>4 DEF CacheNext

LEMMA CacheInitInv == CacheInit => IInv
<1> SUFFICES ASSUME CacheInit PROVE IInv
  OBVIOUS
<1>1. Cached
  BY NothingAssumption
     DEF CacheInit, Init, Cached, Safe, TypeOK, NoDanglingAlias, OneAliasPerField
<1>2. Rows /\ Underway /\ FlightIntegrity
  BY Places DEF CacheInit, Rows, Underway, FlightIntegrity, Leading
<1> QED BY <1>1, <1>2 DEF IInv

LEMMA CacheInvariance == CacheSpec => []IInv
  BY CacheInitInv, CacheInductive, PTL DEF CacheSpec
-------------------------------------------------------------------------------
(* Through the cache, with its reads that populate, its writes, evictions, *)
(* failures and the clock, the group is an alias group.                    *)
THEOREM ImplementsGroup == CacheSpec => Spec
<1>1. CacheInit => Init
  BY DEF CacheInit
<1> QED BY <1>1, CacheInvariance, CacheInductive, PTL DEF CacheSpec, Spec

(* A group has life exactly as long as it has a value, and every call is   *)
(* at one of the steps of the code, with what that step needs.             *)
THEOREM TypeCorrect == CacheSpec => []CacheTypeOK
<1>1. IInv => CacheTypeOK
  <2>1. Calls \subseteq
          {Idle} \cup [at : {"join", "wait", "load", "finish", "evict"}, r : Request]
                 \cup [at : {"populate", "store"}, r : Request, p : Primary,
                       ref : Request, v : Value]
                 \cup [at : {"reading"}, missing : SUBSET Primary]
                 \cup [at : {"filling"}, rows : [Primary -> Value \cup {None}]]
    BY DEF Calls, Stores
  <2> QED BY <2>1 DEF IInv, Cached, Safe, Rows, Underway, CacheTypeOK
<1> QED BY <1>1, CacheInvariance, PTL

(* No alias is left that leads to nothing, whichever calls race and        *)
(* whatever fails.                                                         *)
THEOREM CacheNeverDangling == CacheSpec => []NoDanglingAlias
  BY ImplementsGroup, NeverDangling, PTL

(* No record is reached under two aliases of one field, whichever loads    *)
(* race with whichever writes.                                             *)
THEOREM CacheOneAlias == CacheSpec => []OneAliasPerField
  BY ImplementsGroup, AlwaysOneAlias, PTL

(* One caller per key or alias loads at a time, and whoever waits waits    *)
(* for one that is still at it.                                            *)
THEOREM AlwaysFlightIntegrity == CacheSpec => []FlightIntegrity
<1>1. IInv => FlightIntegrity BY DEF IInv
<1> QED BY <1>1, CacheInvariance, PTL
===============================================================================
