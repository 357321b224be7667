-------------------------- MODULE ReadThroughProofs --------------------------
(***************************************************************************)
(* Theorems about the plain cache for any callers, instances, keys, TTLs   *)
(* and failing requests, the crash of a process included.  The inductive   *)
(* invariant is TypeOK /\ FlightIntegrity.  Of a call only where it is and *)
(* its key matter to the flights: a step is the start of a flight, its     *)
(* end, a join, a crash, or one that leaves the flights alone, in which a  *)
(* leader goes on leading for the same key or a caller that has no part in *)
(* a flight goes on having none.                                           *)
(***************************************************************************)
EXTENDS ReadThrough, TLAPS

IInv == TypeOK /\ FlightIntegrity

Calls ==
    {Idle} \cup [at : {"join", "load", "wait", "finish"}, k : Key]
           \cup [at : {"populate", "store"}, k : Key, version : Version]
           \cup [at : {"read"}, todo : SUBSET Key, missing : SUBSET Key]
           \cup [at : {"loadmany", "evict"}, todo : SUBSET Key]
           \cup [at : {"fill"}, have : UNION {[K -> Version] : K \in SUBSET Key}]

LeadingSteps == {"load", "populate", "finish"}
FlightSteps  == LeadingSteps \cup {"wait"}

(* What the place of a call says of its other fields. *)
LEMMA CallFields ==
  ASSUME NEW x \in Calls
  PROVE  /\ x.at \in {"join", "load", "wait", "finish"} => x.k \in Key /\ x = At(x.at, x.k)
         /\ x.at \in {"populate", "store"} => x.k \in Key /\ x.version \in Version
         /\ x.at = "read" => x.todo \in SUBSET Key /\ x.missing \in SUBSET Key
         /\ x.at \in {"loadmany", "evict"} => x.todo \in SUBSET Key
         /\ x.at = "fill" => x.have \in UNION {[K -> Version] : K \in SUBSET Key}
         /\ x = Idle <=> x.at = "idle"
  BY DEF Calls, Idle, At

(* The places a call is put in, and which of them have part in a flight.   *)
LEMMA Places ==
  /\ Idle \in Calls /\ Idle.at = "idle"
  /\ \A s \in {"join", "load", "wait", "finish"}, k \in Key :
        At(s, k) \in Calls /\ At(s, k).at = s /\ At(s, k).k = k
  /\ \A s \in {"populate", "store"}, k \in Key, n \in Version :
        Having(s, k, n) \in Calls /\ Having(s, k, n).at = s /\ Having(s, k, n).k = k
  BY DEF Idle, At, Having, Calls

LEMMA ManyPlaces ==
  /\ \A T \in SUBSET Key, M \in SUBSET Key :
        Reading(T, M) \in Calls /\ Reading(T, M).at \notin FlightSteps
  /\ \A T \in SUBSET Key : Evicting(T) \in Calls /\ Evicting(T).at \notin FlightSteps
  /\ \A K \in SUBSET Key : \A have \in [K -> Version] :
        Filling(have) \in Calls /\ Filling(have).at \notin FlightSteps
<1>1. \A T \in SUBSET Key, M \in SUBSET Key :
        Reading(T, M) \in Calls /\ Reading(T, M).at \notin FlightSteps
  BY DEF Reading, Calls, Idle, FlightSteps, LeadingSteps
<1>2. \A T \in SUBSET Key : Evicting(T) \in Calls /\ Evicting(T).at \notin FlightSteps
  BY DEF Evicting, Calls, Idle, FlightSteps, LeadingSteps
<1>3. ASSUME NEW K \in SUBSET Key, NEW have \in [K -> Version]
      PROVE  Filling(have) \in Calls /\ Filling(have).at \notin FlightSteps
  BY DEF Filling, Calls, Idle, FlightSteps, LeadingSteps
<1> QED BY <1>1, <1>2, <1>3

(* The type invariant in two parts: what is stored, and who is doing what. *)
Stored ==
    /\ db \in [Key -> Version]
    /\ cached \in [Key -> Version \cup {None}]
    /\ life \in [Key -> {n \in Int : n >= Forever}]
    /\ \A k \in Key : cached[k] = None <=> life[k] = Gone

Underway ==
    /\ flight \in [Instance -> [Key -> Caller \cup {None}]]
    /\ call \in [Caller -> Calls]

LEMMA TypeOKParts ==
  /\ TypeOK <=> Stored /\ Underway
  /\ TypeOK' <=> Stored' /\ Underway'
<1>1. TypeOK <=> Stored /\ Underway
  BY DEF TypeOK, Stored, Underway, Calls
<1>2. TypeOK' <=> Stored' /\ Underway'
  BY DEF TypeOK, Stored, Underway, Calls
<1> QED BY <1>1, <1>2

LEMMA StoredAlone ==
  ASSUME TypeOK, UNCHANGED <<db, cached, life>>
  PROVE  Stored'
  BY TypeOKParts DEF Stored

(* Entries are written with a life: one that never runs out, or a TTL.     *)
LEMMA SetEntryType ==
  ASSUME TypeOK, NEW k \in Key, NEW n \in Version,
         NEW d \in PositiveTtl \cup NegativeTtl, SetEntry(k, n, d)
  PROVE  /\ cached' \in [Key -> Version \cup {None}]
         /\ life' \in [Key -> {m \in Int : m >= Forever}]
         /\ \A j \in Key : cached'[j] = None <=> life'[j] = Gone
<1>1. LifeOf(d) \in {m \in Int : m >= Forever} /\ LifeOf(d) # Gone
  BY TtlAssumption DEF LifeOf, Forever, Gone
<1>2. n # None
  BY NoneAssumption, VersionAssumption DEF Version
<1>3. PICK m \in {m \in Int : m >= Forever} : m = LifeOf(d)
  BY <1>1
<1>4. cached' = [cached EXCEPT ![k] = n] /\ life' = [life EXCEPT ![k] = m]
  BY <1>3 DEF SetEntry
<1> QED BY <1>1, <1>2, <1>3, <1>4 DEF TypeOK

LEMMA CommitType ==
  ASSUME TypeOK, NEW K \in SUBSET Key, Commit(K)
  PROVE  /\ db' \in [Key -> Version]
         /\ \A k \in K : db[k] + 1 \in Version
  BY VersionAssumption DEF TypeOK, Commit, Version

(* A step that leaves the flights alone. *)
LEMMA FlightsAlone ==
  ASSUME IInv, NEW c \in Caller, NEW next \in Calls, Continue(c, next), UNCHANGED flight,
         \/ Leading(c) /\ next.at \in LeadingSteps /\ next.k = call[c].k
         \/ call[c].at \notin FlightSteps /\ next.at \notin FlightSteps
  PROVE  FlightIntegrity' /\ call' \in [Caller -> Calls]
<1>1. /\ call \in [Caller -> Calls] /\ flight \in [Instance -> [Key -> Caller \cup {None}]]
      /\ FlightIntegrity
  BY TypeOKParts DEF IInv, Underway
<1>2. call' \in [Caller -> Calls] /\ \A w \in Caller : call'[w] = IF w = c THEN next ELSE call[w]
  BY <1>1 DEF Continue
<1>3. ASSUME NEW w \in Caller
      PROVE  /\ Leading(w)' <=> Leading(w)
             /\ Leading(w) => call'[w].k = call[w].k
             /\ call'[w].at = "wait" <=> call[w].at = "wait"
  BY <1>2 DEF Leading, LeadingSteps, FlightSteps
<1>4. ASSUME Singleflight, NEW w \in Caller, Leading(w)'
      PROVE  flight'[Home[w]][call'[w].k] = w
  BY <1>1, <1>3, <1>4 DEF FlightIntegrity
<1>5. ASSUME Singleflight, NEW i \in Instance, NEW k \in Key, flight'[i][k] # None
      PROVE  /\ Home[flight'[i][k]] = i
             /\ Leading(flight[i][k])' /\ call'[flight'[i][k]].k = k
  <2>1. PICK w \in Caller : w = flight[i][k]
    BY <1>1, <1>5
  <2>2. Home[w] = i /\ Leading(w) /\ call[w].k = k
    BY <1>1, <1>5, <2>1 DEF FlightIntegrity
  <2>3. Leading(w)' /\ call'[w].k = k
    BY <1>3, <2>2
  <2> QED BY <2>1, <2>2, <2>3 DEF Leading
<1>6. ASSUME Singleflight, NEW w \in Caller, call'[w].at = "wait"
      PROVE  flight'[Home[w]][call'[w].k] # None
  <2>1. call[w].at = "wait" /\ call'[w] = call[w]
    BY <1>2, <1>3, <1>6 DEF FlightSteps, LeadingSteps, Leading
  <2> QED BY <1>1, <1>6, <2>1 DEF FlightIntegrity
<1>7. FlightIntegrity'
  BY <1>4, <1>5, <1>6 DEF FlightIntegrity
<1> QED BY <1>2, <1>7

LEMMA InitInv == Init => IInv
<1> SUFFICES ASSUME Init PROVE IInv
  OBVIOUS
<1>1. TypeOK
  BY VersionAssumption, NoneAssumption, Places, TypeOKParts
     DEF Init, Stored, Underway, Version, Gone, Forever
<1>2. FlightIntegrity
  BY Places DEF Init, FlightIntegrity, Leading
<1> QED BY <1>1, <1>2 DEF IInv

LEMMA LeadInv ==
  ASSUME IInv, NEW c \in Caller, Lead(c)
  PROVE  IInv'
<1>1. /\ call \in [Caller -> Calls] /\ flight \in [Instance -> [Key -> Caller \cup {None}]]
      /\ FlightIntegrity
  BY TypeOKParts DEF IInv, Underway
<1>2. PICK k \in Key : k = call[c].k /\ call[c].at = "join"
  BY <1>1, CallFields DEF Lead
<1>3. PICK next \in Calls : next = At("load", k) /\ next.at = "load" /\ next.k = k
  BY Places
<1>4. /\ Singleflight => flight[Home[c]][k] = None
      /\ flight' = IF Singleflight THEN [flight EXCEPT ![Home[c]][k] = c] ELSE flight
      /\ call' = [call EXCEPT ![c] = next]
      /\ UNCHANGED <<db, cached, life>>
  BY <1>2, <1>3 DEF Lead, Continue
<1>5. Home[c] \in Instance /\ c # None
  BY HomeAssumption, NoneAssumption
<1>6. flight' \in [Instance -> [Key -> Caller \cup {None}]] /\ call' \in [Caller -> Calls]
  BY <1>1, <1>4, <1>5
<1>7. TypeOK'
  BY <1>4, <1>6, StoredAlone, TypeOKParts DEF IInv, Underway
<1>8. /\ call'[c] = next
      /\ \A w \in Caller : w # c => call'[w] = call[w]
  BY <1>1, <1>4
<1>9. ASSUME Singleflight
      PROVE  \A i \in Instance, j \in Key :
                flight'[i][j] = IF i = Home[c] /\ j = k THEN c ELSE flight[i][j]
  BY <1>1, <1>4, <1>5, <1>9
<1>10. ASSUME Singleflight, NEW w \in Caller, Leading(w)'
       PROVE  flight'[Home[w]][call'[w].k] = w
  <2>1. CASE w = c
    BY <2>1, <1>3, <1>5, <1>8, <1>9, <1>10
  <2>2. CASE w # c
    <3>1. flight[Home[w]][call[w].k] = w /\ Home[w] \in Instance /\ w # None
      BY <2>2, <1>1, <1>8, <1>10, HomeAssumption, NoneAssumption DEF FlightIntegrity, Leading
    <3>2. call[w].k \in Key
      BY <2>2, <1>1, <1>8, <1>10, CallFields DEF Leading
    <3> QED BY <2>2, <3>1, <3>2, <1>4, <1>8, <1>9, <1>10
  <2> QED BY <2>1, <2>2
<1>11. ASSUME Singleflight, NEW i \in Instance, NEW j \in Key, flight'[i][j] # None
       PROVE  /\ Home[flight'[i][j]] = i
              /\ Leading(flight[i][j])' /\ call'[flight'[i][j]].k = j
  <2>1. CASE i = Home[c] /\ j = k
    BY <2>1, <1>3, <1>8, <1>9, <1>11 DEF Leading
  <2>2. CASE ~(i = Home[c] /\ j = k)
    <3>1. flight'[i][j] = flight[i][j]
      BY <2>2, <1>9, <1>11
    <3>2. PICK w \in Caller : w = flight[i][j]
      BY <3>1, <1>1, <1>11
    <3>3. Home[w] = i /\ Leading(w) /\ call[w].k = j
      BY <3>1, <3>2, <1>1, <1>11 DEF FlightIntegrity
    <3>4. w # c
      BY <3>3, <1>2 DEF Leading
    <3> QED BY <3>1, <3>2, <3>3, <3>4, <1>8 DEF Leading
  <2> QED BY <2>1, <2>2
<1>12. ASSUME Singleflight, NEW w \in Caller, call'[w].at = "wait"
       PROVE  flight'[Home[w]][call'[w].k] # None
  <2>1. w # c /\ call[w].at = "wait" /\ call'[w] = call[w]
    BY <1>3, <1>8, <1>12
  <2>2. call[w].k \in Key /\ Home[w] \in Instance
    BY <2>1, <1>1, CallFields, HomeAssumption
  <2>3. flight[Home[w]][call[w].k] # None
    BY <2>1, <1>1, <1>12 DEF FlightIntegrity
  <2> QED BY <2>1, <2>2, <2>3, <1>5, <1>9, <1>12
<1>13. FlightIntegrity'
  BY <1>10, <1>11, <1>12 DEF FlightIntegrity
<1> QED BY <1>7, <1>13 DEF IInv

LEMMA WaitInv ==
  ASSUME IInv, NEW c \in Caller, Wait(c)
  PROVE  IInv'
<1>1. /\ call \in [Caller -> Calls] /\ flight \in [Instance -> [Key -> Caller \cup {None}]]
      /\ FlightIntegrity
  BY TypeOKParts DEF IInv, Underway
<1>2. PICK k \in Key : k = call[c].k /\ call[c].at = "join"
  BY <1>1, CallFields DEF Wait
<1>3. PICK next \in Calls : next = At("wait", k) /\ next.at = "wait" /\ next.k = k
  BY Places
<1>4. /\ flight[Home[c]][k] # None
      /\ call' = [call EXCEPT ![c] = next]
      /\ UNCHANGED <<db, cached, life, flight>>
  BY <1>2, <1>3 DEF Wait, Continue
<1>5. /\ call' \in [Caller -> Calls]
      /\ call'[c] = next
      /\ \A w \in Caller : w # c => call'[w] = call[w]
  BY <1>1, <1>4
<1>6. TypeOK'
  BY <1>1, <1>4, <1>5, StoredAlone, TypeOKParts DEF IInv, Underway
<1>7. \A w \in Caller : Leading(w)' <=> Leading(w) /\ w # c
  BY <1>2, <1>3, <1>5 DEF Leading
<1>8. ASSUME Singleflight, NEW i \in Instance, NEW j \in Key, flight'[i][j] # None
      PROVE  /\ Home[flight'[i][j]] = i
             /\ Leading(flight[i][j])' /\ call'[flight'[i][j]].k = j
  <2>1. PICK w \in Caller : w = flight[i][j]
    BY <1>1, <1>4, <1>8
  <2>2. Home[w] = i /\ Leading(w) /\ call[w].k = j
    BY <2>1, <1>1, <1>4, <1>8 DEF FlightIntegrity
  <2>3. w # c
    BY <2>2, <1>2 DEF Leading
  <2> QED BY <2>1, <2>2, <2>3, <1>4, <1>5 DEF Leading
<1>9. FlightIntegrity'
  BY <1>1, <1>3, <1>4, <1>5, <1>7, <1>8 DEF FlightIntegrity
<1> QED BY <1>6, <1>9 DEF IInv

(* The end of a flight: nobody waits for it any more. *)
LEMMA FinishInv ==
  ASSUME IInv, NEW c \in Caller, Finish(c)
  PROVE  IInv'
<1>1. /\ call \in [Caller -> Calls] /\ flight \in [Instance -> [Key -> Caller \cup {None}]]
      /\ FlightIntegrity
  BY TypeOKParts DEF IInv, Underway
<1>2. PICK k \in Key : k = call[c].k /\ call[c].at = "finish"
  BY <1>1, CallFields DEF Finish
<1>3. /\ flight' = IF Singleflight THEN [flight EXCEPT ![Home[c]][k] = None] ELSE flight
      /\ call' = [w \in Caller |-> IF w \in Released(c) THEN Idle ELSE call[w]]
      /\ UNCHANGED <<db, cached, life>>
  BY <1>2 DEF Finish
<1>4. flight' \in [Instance -> [Key -> Caller \cup {None}]] /\ call' \in [Caller -> Calls]
  BY <1>1, <1>3, Places
<1>5. TypeOK'
  BY <1>3, <1>4, StoredAlone, TypeOKParts DEF IInv, Underway
<1>6. ASSUME Singleflight, NEW w \in Caller
      PROVE  w \in Released(c) <=>
                w = c \/ (call[w].at = "wait" /\ call[w].k = k /\ Home[w] = Home[c])
  <2>1. call[w] = At("wait", k) <=> call[w].at = "wait" /\ call[w].k = k
    <3>1. call[w] \in Calls BY <1>1
    <3>2. call[w].at = "wait" => call[w] = At("wait", call[w].k)
      BY <3>1, CallFields
    <3> QED BY <3>2, Places
  <2> QED BY <1>2, <1>6, <2>1 DEF Released, WaitersOf
<1>7. ASSUME NEW w \in Caller, call'[w].at # "idle"
      PROVE  w \notin Released(c) /\ call'[w] = call[w]
  BY <1>3, <1>7, Places
<1>8. ASSUME Singleflight
      PROVE  \A i \in Instance, j \in Key :
                flight'[i][j] = IF i = Home[c] /\ j = k THEN None ELSE flight[i][j]
  BY <1>1, <1>3, <1>8, HomeAssumption
<1>9. flight[Home[c]][k] = c \/ ~Singleflight
  BY <1>1, <1>2 DEF FlightIntegrity, Leading
<1>10. ASSUME Singleflight, NEW w \in Caller, Leading(w)'
       PROVE  flight'[Home[w]][call'[w].k] = w
  <2>1. w \notin Released(c) /\ call'[w] = call[w] /\ Leading(w)
    BY <1>7, <1>10 DEF Leading
  <2>2. w # c /\ w # None
    <3>1. c \in Released(c) BY DEF Released
    <3>2. w # c BY <2>1, <3>1
    <3>3. w # None BY NoneAssumption
    <3> QED BY <3>2, <3>3
  <2>3. flight[Home[w]][call[w].k] = w /\ call[w].k \in Key /\ Home[w] \in Instance
    BY <2>1, <1>1, <1>10, CallFields, HomeAssumption DEF FlightIntegrity, Leading
  <2>4. ~(Home[w] = Home[c] /\ call[w].k = k)
    BY <2>2, <2>3, <1>9, <1>10
  <2> QED BY <2>1, <2>3, <2>4, <1>8, <1>10
<1>11. ASSUME Singleflight, NEW i \in Instance, NEW j \in Key, flight'[i][j] # None
       PROVE  /\ Home[flight'[i][j]] = i
              /\ Leading(flight[i][j])' /\ call'[flight'[i][j]].k = j
  <2>1. flight'[i][j] = flight[i][j] /\ ~(i = Home[c] /\ j = k)
    BY <1>8, <1>11
  <2>2. PICK w \in Caller : w = flight[i][j]
    BY <2>1, <1>1, <1>11
  <2>3. Home[w] = i /\ Leading(w) /\ call[w].k = j
    BY <2>1, <2>2, <1>1, <1>11 DEF FlightIntegrity
  <2>4. w \notin Released(c)
    BY <2>1, <2>3, <1>2, <1>6, <1>11 DEF Leading
  <2>5. call'[w] = call[w]
    BY <2>4, <1>3
  <2> QED BY <2>1, <2>2, <2>3, <2>5 DEF Leading
<1>12. ASSUME Singleflight, NEW w \in Caller, call'[w].at = "wait"
       PROVE  flight'[Home[w]][call'[w].k] # None
  <2>1. w \notin Released(c) /\ call'[w] = call[w]
    BY <1>7, <1>12
  <2>2. ~(Home[w] = Home[c] /\ call[w].k = k)
    BY <2>1, <1>6, <1>12
  <2>3. flight[Home[w]][call[w].k] # None /\ call[w].k \in Key /\ Home[w] \in Instance
    BY <2>1, <1>1, <1>12, CallFields, HomeAssumption DEF FlightIntegrity
  <2> QED BY <2>1, <2>2, <2>3, <1>8, <1>12
<1>13. FlightIntegrity'
  BY <1>10, <1>11, <1>12 DEF FlightIntegrity
<1> QED BY <1>5, <1>13 DEF IInv

(* A crash takes the flights of the instance with their callers, who all   *)
(* lived there.                                                            *)
LEMMA CrashInv ==
  ASSUME IInv, NEW i \in Instance, Crash(i)
  PROVE  IInv'
<1>1. /\ call \in [Caller -> Calls] /\ flight \in [Instance -> [Key -> Caller \cup {None}]]
      /\ FlightIntegrity
  BY TypeOKParts DEF IInv, Underway
<1>2. /\ call' = [c \in Caller |-> IF Home[c] = i THEN Idle ELSE call[c]]
      /\ flight' = [flight EXCEPT ![i] = [k \in Key |-> None]]
      /\ UNCHANGED <<db, cached, life>>
  BY DEF Crash
<1>3. flight' \in [Instance -> [Key -> Caller \cup {None}]] /\ call' \in [Caller -> Calls]
  BY <1>1, <1>2, Places
<1>4. TypeOK'
  BY <1>2, <1>3, StoredAlone, TypeOKParts DEF IInv, Underway
<1>5. ASSUME NEW w \in Caller, call'[w].at # "idle"
      PROVE  Home[w] # i /\ call'[w] = call[w] /\ flight'[Home[w]] = flight[Home[w]]
  BY <1>1, <1>2, <1>5, Places, HomeAssumption
<1>6. ASSUME Singleflight, NEW h \in Instance, NEW j \in Key, flight'[h][j] # None
      PROVE  /\ Home[flight'[h][j]] = h
             /\ Leading(flight[h][j])' /\ call'[flight'[h][j]].k = j
  <2>1. h # i /\ flight'[h][j] = flight[h][j]
    BY <1>1, <1>2, <1>6
  <2>2. PICK w \in Caller : w = flight[h][j]
    BY <2>1, <1>1, <1>6
  <2>3. Home[w] = h /\ Leading(w) /\ call[w].k = j
    BY <2>1, <2>2, <1>1, <1>6 DEF FlightIntegrity
  <2> QED BY <2>1, <2>2, <2>3, <1>2 DEF Leading
<1>7. FlightIntegrity'
  BY <1>1, <1>5, <1>6 DEF FlightIntegrity, Leading
<1> QED BY <1>4, <1>7 DEF IInv

(* The steps of a call that leave the flights alone. *)
LEMMA StartInv ==
  ASSUME IInv, NEW c \in Caller, Start(c)
  PROVE  IInv'
<1>1. call \in [Caller -> Calls] /\ FlightIntegrity /\ TypeOK
  BY TypeOKParts DEF IInv, Underway
<1>i. ASSUME NEW next \in Calls, call[c] = Idle, Continue(c, next), UNCHANGED flight,
             next.at \notin FlightSteps, Stored'
      PROVE  IInv'
  <2>1. call[c].at \notin FlightSteps
    BY <1>i, Places DEF FlightSteps, LeadingSteps
  <2>2. FlightIntegrity' /\ call' \in [Caller -> Calls]
    BY <1>i, <2>1, FlightsAlone
  <2> QED BY <1>i, <2>2, <1>1, TypeOKParts DEF IInv, Underway
<1>2. ASSUME NEW k \in Key, Miss(c, k) PROVE IInv'
  <2>1. PICK next \in Calls : next = At("join", k) /\ next.at = "join"
    BY Places
  <2>2. call[c] = Idle /\ Continue(c, next) /\ UNCHANGED <<db, cached, life, flight>>
    BY <1>2, <2>1 DEF Miss
  <2> QED BY <2>1, <2>2, <1>1, <1>i, StoredAlone DEF FlightSteps, LeadingSteps
<1>3. ASSUME NEW k \in Key, PutByKey(c, k) PROVE IInv'
  <2>1. db[k] + 1 \in Version /\ db' \in [Key -> Version]
    BY <1>1, <1>3, CommitType DEF PutByKey
  <2>2. PICK next \in Calls : next = Having("store", k, db[k] + 1) /\ next.at = "store"
    BY <2>1, Places
  <2>3. call[c] = Idle /\ Continue(c, next) /\ UNCHANGED <<cached, life, flight>>
    BY <1>3, <2>2 DEF PutByKey
  <2>4. Stored'
    BY <2>1, <2>3, <1>1, TypeOKParts DEF Stored
  <2> QED BY <2>2, <2>3, <2>4, <1>i DEF FlightSteps, LeadingSteps
<1>4. ASSUME NEW k \in Key, WriteUnreported(c, k) PROVE IInv'
  <2>1. db' \in [Key -> Version] /\ UNCHANGED <<cached, life, flight, call>>
    BY <1>1, <1>4, CommitType DEF WriteUnreported
  <2>2. Stored' /\ Underway' /\ FlightIntegrity'
    BY <2>1, <1>1, TypeOKParts DEF Stored, Underway, FlightIntegrity, Leading
  <2> QED BY <2>2, TypeOKParts DEF IInv
<1>5. ASSUME NEW K \in SUBSET Key, StartMany(c, K) PROVE IInv'
  <2>1. PICK next \in Calls : next = Reading(K, {}) /\ next.at \notin FlightSteps
    BY ManyPlaces
  <2>2. call[c] = Idle /\ Continue(c, next) /\ UNCHANGED <<db, cached, life, flight>>
    BY <1>5, <2>1 DEF StartMany
  <2> QED BY <2>1, <2>2, <1>1, <1>i, StoredAlone
<1>6. ASSUME NEW K \in SUBSET Key, WriteThenEvict(c, K) PROVE IInv'
  <2>1. db' \in [Key -> Version]
    BY <1>1, <1>6, CommitType DEF WriteThenEvict
  <2>2. PICK next \in Calls : next = Evicting(K) /\ next.at \notin FlightSteps
    BY ManyPlaces
  <2>3. call[c] = Idle /\ Continue(c, next) /\ UNCHANGED <<cached, life, flight>>
    BY <1>6, <2>2 DEF WriteThenEvict
  <2>4. Stored'
    BY <2>1, <2>3, <1>1, TypeOKParts DEF Stored
  <2> QED BY <2>2, <2>3, <2>4, <1>i
<1> QED BY <1>2, <1>3, <1>4, <1>5, <1>6 DEF Start

(* The leader's steps between the start of its flight and its end. *)
LEMMA LeaderInv ==
  ASSUME IInv, NEW c \in Caller,
         Load(c) \/ LoadFails(c) \/ Populate(c) \/ PopulateFails(c)
  PROVE  IInv'
<1>1. call \in [Caller -> Calls] /\ call[c] \in Calls /\ FlightIntegrity /\ TypeOK
  BY TypeOKParts DEF IInv, Underway
<1>2. PICK k \in Key : k = call[c].k
  BY <1>1, CallFields DEF Load, LoadFails, Populate, PopulateFails
<1>i. ASSUME NEW next \in Calls, Leading(c), Continue(c, next), UNCHANGED flight,
             next.at \in LeadingSteps, next.k = k, Stored'
      PROVE  IInv'
  <2>1. FlightIntegrity' /\ call' \in [Caller -> Calls]
    BY <1>2, <1>i, FlightsAlone
  <2> QED BY <1>i, <2>1, <1>1, TypeOKParts DEF IInv, Underway
<1>f. PICK end \in Calls : end = At("finish", k) /\ end.at = "finish" /\ end.k = k
  BY Places
<1>3. CASE Load(c)
  <2>1. db[k] \in Version
    BY <1>1, TypeOKParts DEF Stored
  <2>2. PICK next \in Calls : next = Having("populate", k, db[k]) /\ next.at = "populate"
                              /\ next.k = k
    BY <2>1, Places
  <2>3. Leading(c) /\ UNCHANGED <<db, cached, life, flight>>
        /\ (Continue(c, next) \/ Continue(c, end))
    BY <1>2, <1>3, <1>f, <2>2 DEF Load, Leading
  <2> QED BY <2>2, <2>3, <1>f, <1>1, <1>i, StoredAlone DEF LeadingSteps
<1>4. CASE LoadFails(c) \/ PopulateFails(c)
  <2>1. Leading(c) /\ UNCHANGED <<db, cached, life, flight>> /\ Continue(c, end)
    BY <1>2, <1>4, <1>f DEF LoadFails, PopulateFails, Leading
  <2> QED BY <2>1, <1>f, <1>1, <1>i, StoredAlone DEF LeadingSteps
<1>5. CASE Populate(c)
  <2>1. PICK n \in Version : n = call[c].version
    BY <1>1, <1>5, CallFields DEF Populate
  <2>2. PICK d \in PositiveTtl \cup NegativeTtl : SetEntry(k, n, d)
    BY <1>2, <1>5, <2>1 DEF Populate
  <2>3. Leading(c) /\ UNCHANGED <<db, flight>> /\ Continue(c, end)
    BY <1>2, <1>5, <1>f DEF Populate, Leading
  <2>4. Stored'
    BY <2>2, <2>3, <1>1, SetEntryType, TypeOKParts DEF Stored
  <2> QED BY <2>3, <2>4, <1>f, <1>i DEF LeadingSteps
<1> QED BY <1>3, <1>4, <1>5

LEMMA WithoutKeyType ==
  ASSUME NEW K \in SUBSET Key, NEW have \in [K -> Version], NEW k
  PROVE  WithoutKey(have, k) \in [K \ {k} -> Version]
  BY DEF WithoutKey

(* The steps of a call that has no part in a flight. *)
LEMMA OtherInv ==
  ASSUME IInv, NEW c \in Caller,
         \/ ReadSome(c) \/ LoadMany(c) \/ LoadManyFails(c) \/ Fill(c) \/ FillFails(c)
         \/ StoreValue(c) \/ StoreFails(c) \/ EvictByKey(c) \/ EvictFails(c)
  PROVE  IInv'
<1>1. call \in [Caller -> Calls] /\ call[c] \in Calls /\ FlightIntegrity /\ TypeOK
  BY TypeOKParts DEF IInv, Underway
<1>2. call[c].at \notin FlightSteps
  BY DEF ReadSome, LoadMany, LoadManyFails, Fill, FillFails, StoreValue, StoreFails,
         EvictByKey, EvictFails, FlightSteps, LeadingSteps
<1>i. ASSUME NEW next \in Calls, Continue(c, next), UNCHANGED flight,
             next.at \notin FlightSteps, Stored'
      PROVE  IInv'
  <2>1. FlightIntegrity' /\ call' \in [Caller -> Calls]
    BY <1>2, <1>i, FlightsAlone
  <2> QED BY <1>i, <2>1, <1>1, TypeOKParts DEF IInv, Underway
<1>d. Idle.at \notin FlightSteps /\ Idle \in Calls
  BY Places DEF FlightSteps, LeadingSteps
<1>3. CASE ReadSome(c)
  <2>1. call[c].todo \in SUBSET Key /\ call[c].missing \in SUBSET Key
    BY <1>1, <1>3, CallFields DEF ReadSome
  <2>2. PICK S \in SUBSET call[c].todo, M \in SUBSET call[c].todo :
           Continue(c, Reading(call[c].todo \ S, call[c].missing \cup M))
    BY <1>3 DEF ReadSome
  <2>3. /\ call[c].todo \ S \in SUBSET Key
        /\ call[c].missing \cup M \in SUBSET Key
    BY <2>1, <2>2
  <2> QED BY <1>3, <2>2, <2>3, <1>1, <1>i, ManyPlaces, StoredAlone DEF ReadSome
<1>4. CASE LoadMany(c)
  <2>1. PICK K \in SUBSET Key :
           K = {k \in call[c].todo : db[k] \in Absent => NegativeTtl # {}}
    BY <1>1, <1>4, CallFields DEF LoadMany
  <2>2. PICK have : have = [k \in K |-> db[k]]
    OBVIOUS
  <2>3. have \in [K -> Version]
    BY <2>2, <1>1, TypeOKParts DEF Stored
  <2>4. Continue(c, Filling(have)) /\ UNCHANGED <<db, cached, life, flight>>
    BY <1>4, <2>1, <2>2 DEF LoadMany
  <2> QED BY <2>3, <2>4, <1>1, <1>i, ManyPlaces, StoredAlone
<1>5. CASE LoadManyFails(c) \/ StoreFails(c)
  <2>1. Continue(c, Idle) /\ UNCHANGED <<db, cached, life, flight>>
    BY <1>5 DEF LoadManyFails, StoreFails
  <2> QED BY <2>1, <1>1, <1>d, <1>i, StoredAlone
<1>6. CASE Fill(c) \/ FillFails(c)
  <2>0. PICK K \in SUBSET Key : call[c].have \in [K -> Version]
    BY <1>1, <1>6, CallFields DEF Fill, FillFails
  <2>1. PICK have \in [K -> Version] : have = call[c].have
    BY <2>0
  <2>2. PICK k \in K :
           /\ Continue(c, Filling(WithoutKey(have, k)))
           /\ UNCHANGED <<db, flight>>
           /\ \/ UNCHANGED <<cached, life>>
              \/ \E d \in PositiveTtl \cup NegativeTtl : SetEntry(k, have[k], d)
    <3>1. DOMAIN have = K
      BY <2>1
    <3>2. CASE Fill(c)
      BY <2>1, <3>1, <3>2 DEF Fill
    <3>3. CASE FillFails(c)
      BY <2>1, <3>1, <3>3 DEF FillFails
    <3> QED BY <1>6, <3>2, <3>3
  <2>3. Stored'
    <3>1. have[k] \in Version /\ k \in Key
      BY <2>1, <2>2
    <3>2. CASE UNCHANGED <<cached, life>>
      BY <2>2, <3>2, <1>1, StoredAlone
    <3>3. ASSUME NEW d \in PositiveTtl \cup NegativeTtl, SetEntry(k, have[k], d)
          PROVE  Stored'
      BY <2>2, <3>1, <3>3, <1>1, SetEntryType, TypeOKParts DEF Stored
    <3> QED BY <2>2, <3>2, <3>3
  <2>4. Filling(WithoutKey(have, k)) \in Calls
        /\ Filling(WithoutKey(have, k)).at \notin FlightSteps
    BY <2>1, WithoutKeyType, ManyPlaces
  <2> QED BY <2>2, <2>3, <2>4, <1>i
<1>7. CASE StoreValue(c)
  <2>1. PICK k \in Key, n \in Version : k = call[c].k /\ n = call[c].version
    BY <1>1, <1>7, CallFields DEF StoreValue
  <2>2. PICK d \in PositiveTtl \cup NegativeTtl : SetEntry(k, n, d)
    BY <1>7, <2>1 DEF StoreValue
  <2>3. Continue(c, Idle) /\ UNCHANGED <<db, flight>>
    BY <1>7 DEF StoreValue
  <2>4. Stored'
    BY <2>2, <2>3, <1>1, SetEntryType, TypeOKParts DEF Stored
  <2> QED BY <2>3, <2>4, <1>d, <1>i
<1>8. CASE EvictByKey(c) \/ EvictFails(c)
  <2>1. PICK T \in SUBSET Key : T = call[c].todo
    BY <1>1, <1>8, CallFields DEF EvictByKey, EvictFails
  <2>2. PICK k \in T :
           /\ Continue(c, Evicting(T \ {k}))
           /\ UNCHANGED <<db, flight>>
           /\ \/ UNCHANGED <<cached, life>>
              \/ /\ cached' = [cached EXCEPT ![k] = None]
                 /\ life' = [life EXCEPT ![k] = Gone]
    BY <1>8, <2>1 DEF EvictByKey, EvictFails
  <2>3. Stored'
    BY <2>1, <2>2, <1>1, TypeOKParts DEF Stored, Gone, Forever
  <2>4. T \ {k} \in SUBSET Key
    BY <2>1
  <2> QED BY <2>2, <2>3, <2>4, <1>i, ManyPlaces
<1> QED BY <1>3, <1>4, <1>5, <1>6, <1>7, <1>8

LEMMA TickInv ==
  ASSUME IInv, Tick
  PROVE  IInv'
<1>1. /\ db' = db /\ flight' = flight /\ call' = call
      /\ cached' = [k \in Key |-> IF life[k] = 1 THEN None ELSE cached[k]]
      /\ life' = [k \in Key |-> IF life[k] > 0 THEN life[k] - 1 ELSE life[k]]
  BY DEF Tick
<1>2. TypeOK
  BY DEF IInv
<1>3. Stored'
  <2>1. cached' \in [Key -> Version \cup {None}]
    BY <1>1, <1>2, TypeOKParts DEF Stored
  <2>2. life' \in [Key -> {n \in Int : n >= Forever}]
    BY <1>1, <1>2, TypeOKParts DEF Stored, Forever
  <2>3. \A k \in Key : cached'[k] = None <=> life'[k] = Gone
    BY <1>1, <1>2, TypeOKParts DEF Stored, Gone, Forever
  <2> QED BY <1>1, <1>2, <2>1, <2>2, <2>3, TypeOKParts DEF Stored
<1>4. Underway' /\ FlightIntegrity'
  BY <1>1, <1>2, TypeOKParts DEF IInv, Underway, FlightIntegrity, Leading
<1> QED BY <1>3, <1>4, TypeOKParts DEF IInv

LEMMA Inductive == IInv /\ [Next]_vars => IInv'
<1> SUFFICES ASSUME IInv, [Next]_vars PROVE IInv'
  OBVIOUS
<1>1. ASSUME NEW c \in Caller, Start(c) PROVE IInv'
  BY <1>1, StartInv
<1>2. ASSUME NEW c \in Caller, Proceed(c) PROVE IInv'
  BY <1>2, LeadInv, WaitInv, LeaderInv, FinishInv, OtherInv DEF Proceed
<1>3. ASSUME NEW i \in Instance, Crash(i) PROVE IInv'
  BY <1>3, CrashInv
<1>4. CASE Tick
  BY <1>4, TickInv
<1>5. CASE UNCHANGED vars
  BY <1>5, TypeOKParts
     DEF vars, IInv, Stored, Underway, FlightIntegrity, Leading
<1> QED BY <1>1, <1>2, <1>3, <1>4, <1>5 DEF Next

LEMMA Invariance == Spec => []IInv
  BY InitInv, Inductive, PTL DEF Spec
-------------------------------------------------------------------------------
(* The store holds an entry exactly as long as it has life, and every call *)
(* is at one of the steps of the code, with what that step needs.          *)
THEOREM TypeCorrect == Spec => []TypeOK
<1>1. IInv => TypeOK BY DEF IInv
<1> QED BY <1>1, Invariance, PTL

(* One caller per instance and key loads at a time, and whoever waits      *)
(* waits for one that is still at it, however many callers and instances   *)
(* there are and whatever fails.                                           *)
THEOREM AlwaysFlightIntegrity == Spec => []FlightIntegrity
<1>1. IInv => FlightIntegrity BY DEF IInv
<1> QED BY <1>1, Invariance, PTL
===============================================================================
