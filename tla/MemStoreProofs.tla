---------------------------- MODULE MemStoreProofs ----------------------------
(***************************************************************************)
(* Theorems about the plain in-process store for any keys, callers and     *)
(* TTLs, and whatever the clock comes to.  What a Get is about to purge it *)
(* has seen expired, and what has expired stays so, for the clock does not *)
(* go back: that is the inductive invariant, and why the purge may tell    *)
(* what it read by its expiry alone.                                       *)
(***************************************************************************)
EXTENDS MemStore, TLAPS

Calls == {Idle} \cup [at : {"set", "check", "purge"}, k : Key, e : Int]

TypeOK ==
    /\ data \in [Key -> Int \cup {None}]
    /\ now \in Int
    /\ call \in [Caller -> Calls]

Seen == \A c \in Caller : call[c].at = "purge" => Expired(call[c].e)

IInv == TypeOK /\ Seen

(* The next place of a call leaves the others as they are. *)
LEMMA ContinueKeeps ==
  ASSUME TypeOK, Seen, NEW c \in Caller, NEW m \in Calls, Continue(c, m),
         now' = now, m.at = "purge" => Expired(m.e)
  PROVE  call' \in [Caller -> Calls] /\ Seen'
<1>1. call' = [call EXCEPT ![c] = m] /\ call \in [Caller -> Calls]
  BY DEF Continue, TypeOK
<1>2. call' \in [Caller -> Calls]
  BY <1>1
<1>3. ASSUME NEW d \in Caller, (call[d].at = "purge")' PROVE Expired(call[d].e)'
  <2>1. CASE d = c
    BY <1>1, <2>1, <1>3 DEF Expired
  <2>2. CASE d # c
    BY <1>1, <2>2, <1>3 DEF Expired, Seen
  <2> QED BY <2>1, <2>2
<1> QED BY <1>2, <1>3 DEF Seen

LEMMA WithoutTyped ==
  ASSUME TypeOK, NEW S, Without(S)
  PROVE  data' \in [Key -> Int \cup {None}]
  BY DEF Without, TypeOK

(* What a call that is somewhere carries. *)
LEMMA CallFields ==
  ASSUME TypeOK, NEW c \in Caller, call[c].at \in {"set", "check", "purge"}
  PROVE  call[c].k \in Key /\ call[c].e \in Int
<1>1. call[c] \in Calls /\ call[c] # Idle
  BY DEF TypeOK, Idle
<1> QED BY <1>1 DEF Calls

LEMMA Inductive ==
  ASSUME Ttl \subseteq Int
  PROVE  IInv /\ [Next]_vars => IInv'
<1> SUFFICES ASSUME IInv, [Next]_vars PROVE IInv'
  OBVIOUS
<1>1. TypeOK /\ Seen
  BY DEF IInv
<1>2. Idle \in Calls /\ Idle.at # "purge"
  BY DEF Calls, Idle
<1>3. ASSUME NEW c \in Caller, NEW k \in Key, NEW ttl \in Ttl, Set(c, k, ttl) PROVE IInv'
  <2> DEFINE e == IF ttl > 0 THEN now + ttl ELSE Never
  <2>1. e \in Int
    BY <1>1 DEF TypeOK, Never
  <2> HIDE DEF e
  <2>2. At("set", k, e) \in Calls /\ At("set", k, e).at # "purge"
    BY <2>1 DEF At, Calls
  <2>3. Continue(c, At("set", k, e)) /\ data' = data /\ now' = now
    BY <1>3 DEF Set, e
  <2>4. call' \in [Caller -> Calls] /\ Seen'
    BY <1>1, <2>2, <2>3, ContinueKeeps
  <2> QED BY <1>1, <2>3, <2>4 DEF IInv, TypeOK
<1>4. ASSUME NEW c \in Caller, StoreEntry(c) PROVE IInv'
  <2>1. Continue(c, Idle) /\ now' = now /\ data' = [data EXCEPT ![call[c].k] = call[c].e]
        /\ call[c].at = "set"
    BY <1>4 DEF StoreEntry
  <2>2. call' \in [Caller -> Calls] /\ Seen'
    BY <1>1, <1>2, <2>1, ContinueKeeps
  <2>3. call[c].k \in Key /\ call[c].e \in Int
    BY <1>1, <2>1, CallFields
  <2>4. data' \in [Key -> Int \cup {None}]
    BY <1>1, <2>1, <2>3 DEF TypeOK
  <2> QED BY <1>1, <2>1, <2>2, <2>4 DEF IInv, TypeOK
<1>5. ASSUME NEW c \in Caller, NEW k \in Key, Get(c, k) PROVE IInv'
  <2>1. Continue(c, At("check", k, data[k])) /\ data' = data /\ now' = now /\ data[k] # None
    BY <1>5 DEF Get
  <2>2. data[k] \in Int
    BY <1>1, <2>1 DEF TypeOK
  <2>3. At("check", k, data[k]) \in Calls /\ At("check", k, data[k]).at # "purge"
    BY <2>2 DEF At, Calls
  <2>4. call' \in [Caller -> Calls] /\ Seen'
    BY <1>1, <2>1, <2>3, ContinueKeeps
  <2> QED BY <1>1, <2>1, <2>4 DEF IInv, TypeOK
<1>6. ASSUME NEW c \in Caller, Check(c) PROVE IInv'
  <2> DEFINE m == IF Expired(call[c].e) THEN [call[c] EXCEPT !.at = "purge"] ELSE Idle
  <2>1. call[c].at = "check" /\ Continue(c, m) /\ data' = data /\ now' = now
    BY <1>6 DEF Check
  <2>2. m \in Calls /\ (m.at = "purge" => Expired(m.e))
    <3>1. call[c] \in Calls /\ call[c] # Idle
      BY <1>1, <2>1 DEF TypeOK, Idle
    <3>2. PICK k \in Key, e \in Int : call[c] = [at |-> "check", k |-> k, e |-> e]
      BY <2>1, <3>1 DEF Calls
    <3>3. [call[c] EXCEPT !.at = "purge"] = [at |-> "purge", k |-> k, e |-> e]
      BY <3>2
    <3>4. [at |-> "purge", k |-> k, e |-> e] \in Calls
      BY DEF Calls
    <3> QED BY <1>2, <3>2, <3>3, <3>4
  <2> HIDE DEF m
  <2>3. call' \in [Caller -> Calls] /\ Seen'
    BY <1>1, <2>1, <2>2, ContinueKeeps
  <2> QED BY <1>1, <2>1, <2>3 DEF IInv, TypeOK
<1>7. ASSUME NEW c \in Caller, Purge(c) PROVE IInv'
  <2>1. Continue(c, Idle) /\ now' = now /\ \E S : Without(S)
    BY <1>7 DEF Purge
  <2>2. call' \in [Caller -> Calls] /\ Seen'
    BY <1>1, <1>2, <2>1, ContinueKeeps
  <2> QED BY <1>1, <2>1, <2>2, WithoutTyped DEF IInv, TypeOK
<1>8. ASSUME NEW S \in SUBSET Key, Delete(S) PROVE IInv'
  <2>1. Without(S) /\ now' = now /\ call' = call
    BY <1>8 DEF Delete
  <2>2. Seen'
    BY <1>1, <2>1 DEF Seen, Expired
  <2> QED BY <1>1, <2>1, <2>2, WithoutTyped DEF IInv, TypeOK
<1>9. CASE Tick
  <2>1. now' = now + 1 /\ data' = data /\ call' = call
    BY <1>9 DEF Tick
  <2>2. ASSUME NEW c \in Caller, call[c].at = "purge" PROVE Expired(call[c].e)'
    <3>1. call[c].e \in Int /\ now \in Int /\ Expired(call[c].e)
      BY <1>1, <2>2, CallFields DEF Seen, TypeOK
    <3> QED BY <2>1, <3>1 DEF Expired
  <2> QED BY <1>1, <2>1, <2>2 DEF IInv, TypeOK, Seen
<1>10. CASE UNCHANGED vars
  BY <1>1, <1>10 DEF IInv, TypeOK, Seen, Expired, vars
<1> QED BY <1>3, <1>4, <1>5, <1>6, <1>7, <1>8, <1>9, <1>10 DEF Next

LEMMA Invariance ==
  ASSUME Ttl \subseteq Int
  PROVE  Spec => []IInv
<1>1. Init => IInv
  BY DEF Init, IInv, TypeOK, Seen, Calls, Idle
<1> QED BY <1>1, Inductive, PTL DEF Spec

(* No step of a Set or a Get, however late it comes, takes a live entry    *)
(* away (memstore.go:60-65): between the read and the purge of an expired  *)
(* entry any number of callers may have set, deleted and read.             *)
THEOREM AlwaysPurgeSparesLive ==
  ASSUME Ttl \subseteq Int, None \notin Int
  PROVE  Spec => PurgeSparesLive
<1> DEFINE Spares == \A k \in Key : data[k] # None /\ ~Expired(data[k]) /\ data'[k] = None => call' = call
<1>1. ASSUME IInv, Next PROVE Spares
  <2> SUFFICES ASSUME NEW k \in Key, data[k] # None, ~Expired(data[k]), data'[k] = None
               PROVE  call' = call
    OBVIOUS
  <2>1. TypeOK /\ Seen
    BY <1>1 DEF IInv
  <2>2. data' # data
    OBVIOUS
  <2>3. ASSUME NEW c \in Caller, StoreEntry(c) PROVE FALSE
    <3>1. call[c].k \in Key /\ call[c].e \in Int
      BY <2>1, <2>3, CallFields DEF StoreEntry
    <3> QED BY <2>1, <2>3, <3>1 DEF StoreEntry, TypeOK
  <2>4. ASSUME NEW c \in Caller, Purge(c) PROVE FALSE
    <3>1. Expired(call[c].e)
      BY <2>1, <2>4 DEF Purge, Seen
    <3> QED BY <2>4, <3>1 DEF Purge, Without
  <2>5. ASSUME NEW S \in SUBSET Key, Delete(S) PROVE call' = call
    BY <2>5 DEF Delete
  <2>6. CASE Tick
    BY <2>6 DEF Tick
  <2> QED BY <1>1, <2>2, <2>3, <2>4, <2>5, <2>6 DEF Next, Set, Get, Check
<1>2. IInv /\ [Next]_vars => [Spares]_vars
  BY <1>1 DEF vars
<1> QED BY <1>2, Invariance, PTL DEF Spec, PurgeSparesLive
===============================================================================
