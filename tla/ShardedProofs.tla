---------------------------- MODULE ShardedProofs ----------------------------
(***************************************************************************)
(* Theorems about the sharded backend for any number of clients, records,  *)
(* fields, aliases and TTLs.  IInv is inductive.  Its part PointerSynced   *)
(* is what the runs' properties need beside themselves: a pointer that is  *)
(* stored has a life, so that only a pointer in its last millisecond can   *)
(* be dropped by the clock.                                                *)
(***************************************************************************)
EXTENDS Sharded, TLAPS

PointerSynced ==
    \A f \in Field, a \in AliasValue : pointer[f][a] = None <=> pointerLife[f][a] = Gone

IInv == TypeOK /\ RecordSynced /\ PointerSynced

(* What a division by the units of a millisecond gives. *)
LEMMA MillisecondsType ==
  ASSUME NEW d \in Ttl
  PROVE  /\ Milliseconds(d) \in Int
         /\ d >= PerMs => Milliseconds(d) > 0
<1>1. d \in Int /\ PerMs \in Nat \ {0}
  BY TtlAssumption, PerMsAssumption
<1> QED BY <1>1 DEF Milliseconds

(* A script, and go-redis' Set, give a key a life. *)
LEMMA LifeGiven ==
  ASSUME NEW d \in Ttl, NEW old \in Life
  PROVE  /\ ScriptLife(d) \in Life \ {Gone}
         /\ SetLife(d, old) \in Life \ {Gone}
<1>1. d \in Int /\ PerMs \in Nat \ {0}
  BY TtlAssumption, PerMsAssumption
<1>2. Milliseconds(d) \in Int /\ (d >= PerMs => Milliseconds(d) > 0)
  BY MillisecondsType
<1>3. ScriptLife(d) \in Life \ {Gone}
  BY <1>2 DEF ScriptLife, Life, Gone, Forever
<1>4. SetLife(d, old) \in Life \ {Gone}
  BY <1>1, <1>2 DEF SetLife, Life, Gone, Forever
<1> QED BY <1>3, <1>4

LEMMA LifeTypes ==
  ASSUME NEW n \in Life, NEW m \in Life
  PROVE  /\ Older(n) \in Life
         /\ Extend(n, m) \in Life
         /\ Older(n) = Gone <=> n \in {Gone, 1}
  BY DEF Older, Extend, Life, Gone, Forever

(* What a call under way carries with it. *)
LEMMA CallTypes ==
  ASSUME TypeOK, NEW c \in Client
  PROVE  /\ call[c].at = "link" =>
               /\ call[c].p \in Primary /\ call[c].f \in Field
               /\ call[c].a \in AliasValue /\ call[c].d \in Ttl
               /\ call[c] = Linking(call[c].p, call[c].f, call[c].a, call[c].d)
         /\ call[c].at = "evict" => call[c].p \in Primary
         /\ call[c].at = "unlink" =>
               /\ call[c].p \in Primary
               /\ call[c].todo \in [Field -> AliasValue \cup {None}]
  BY DEF TypeOK, Call, Idle, Linking

(* The rest of a clean-up is a call, or the end of one. *)
LEMMA UnlinkingType ==
  ASSUME NEW p \in Primary, NEW todo \in [Field -> AliasValue \cup {None}]
  PROVE  Unlinking(p, todo) \in Call
  BY DEF Unlinking, Call

LEMMA InitInv == Init => IInv
  BY NoneAssumption DEF Init, IInv, TypeOK, RecordSynced, PointerSynced, NoAlias, Call, Life, Gone, Forever

(* Only a write, a clean-up of a pointer, an eviction and the clock change *)
(* what is stored; the other steps move a call on.                         *)
LEMMA CallOnly ==
  ASSUME IInv, UNCHANGED <<record, link>>, call' \in [Client -> Call]
  PROVE  IInv'
  BY DEF IInv, TypeOK, RecordSynced, PointerSynced, record, link

LEMMA PutValueInv ==
  ASSUME IInv, NEW p \in Primary, NEW v \in Value, NEW d \in Ttl, PutValue(p, v, d)
  PROVE  IInv'
<1>1. ScriptLife(d) \in Life \ {Gone}
  <2>1. Gone \in Life BY DEF Gone, Life, Forever
  <2> QED BY <2>1, LifeGiven
<1>2. PICK n \in Life \ {Gone} : n = ScriptLife(d)
  BY <1>1
<1>3. /\ value' = [value EXCEPT ![p] = v]
      /\ valueLife' = [valueLife EXCEPT ![p] = n]
      /\ membersLife' = [membersLife EXCEPT ![p] = Extend(membersLife[p], n)]
      /\ members' = members
      /\ UNCHANGED <<pointer, pointerLife, call>>
  BY <1>2 DEF PutValue, RecordPut, link
<1>4. TypeOK'
  BY <1>2, <1>3 DEF IInv, TypeOK, Extend, Gone, Life
<1>5. RecordSynced'
  <2> SUFFICES ASSUME NEW q \in Primary
               PROVE  /\ value'[q] = None <=> valueLife'[q] = Gone
                      /\ membersLife'[q] = IF members'[q] = NoAlias THEN Gone ELSE valueLife'[q]
                      /\ members'[q] # NoAlias => value'[q] # None
    BY DEF RecordSynced, NoAlias
  <2>1. CASE q = p
    BY <1>2, <1>3, <2>1, NoneAssumption DEF IInv, TypeOK, RecordSynced, Extend
  <2>2. CASE q # p
    BY <1>3, <2>2 DEF IInv, TypeOK, RecordSynced
  <2> QED BY <2>1, <2>2
<1>6. PointerSynced'
  BY <1>3 DEF IInv, PointerSynced
<1> QED BY <1>4, <1>5, <1>6 DEF IInv

LEMMA PutByAliasInv ==
  ASSUME IInv, NEW c \in Client, NEW p \in Primary, NEW f \in Field, NEW a \in AliasValue,
         NEW v \in Value, NEW d \in Ttl, PutByAlias(c, p, f, a, v, d)
  PROVE  IInv'
<1>1. ScriptLife(d) \in Life \ {Gone}
  <2>1. Gone \in Life BY DEF Gone, Life, Forever
  <2> QED BY <2>1, LifeGiven
<1>2. PICK n \in Life \ {Gone} : n = ScriptLife(d)
  BY <1>1
<1>3. /\ value' = [value EXCEPT ![p] = v]
      /\ valueLife' = [valueLife EXCEPT ![p] = n]
      /\ members' = [members EXCEPT ![p][f] = a]
      /\ membersLife' = [membersLife EXCEPT ![p] = n]
      /\ UNCHANGED <<pointer, pointerLife>>
  BY <1>2 DEF PutByAlias, RecordPut, link
<1>4. TypeOK'
  <2>1. Linking(p, f, a, d) \in Call BY DEF Linking, Call
  <2>2. call' \in [Client -> Call]
    BY <2>1 DEF PutByAlias, Continue, IInv, TypeOK
  <2> QED BY <1>2, <1>3, <2>2 DEF IInv, TypeOK
<1>5. RecordSynced'
  <2> SUFFICES ASSUME NEW q \in Primary
               PROVE  /\ value'[q] = None <=> valueLife'[q] = Gone
                      /\ membersLife'[q] = IF members'[q] = NoAlias THEN Gone ELSE valueLife'[q]
                      /\ members'[q] # NoAlias => value'[q] # None
    BY DEF RecordSynced, NoAlias
  <2>1. CASE q = p
    <3>1. members'[p][f] = a BY <1>3 DEF IInv, TypeOK
    <3>2. members'[p] # NoAlias BY <3>1, NoneAssumption DEF NoAlias
    <3> QED BY <1>2, <1>3, <2>1, <3>2, NoneAssumption DEF IInv, TypeOK
  <2>2. CASE q # p
    BY <1>3, <2>2 DEF IInv, TypeOK, RecordSynced
  <2> QED BY <2>1, <2>2
<1>6. PointerSynced'
  BY <1>3 DEF IInv, PointerSynced
<1> QED BY <1>4, <1>5, <1>6 DEF IInv

LEMMA SetPointerInv ==
  ASSUME IInv, NEW c \in Client, SetPointer(c)
  PROVE  IInv'
<1>1. PICK p \in Primary, f \in Field, a \in AliasValue, d \in Ttl :
         call[c] = Linking(p, f, a, d)
  BY CallTypes DEF SetPointer, IInv
<1>2. SetLife(d, pointerLife[f][a]) \in Life \ {Gone}
  BY LifeGiven DEF IInv, TypeOK
<1>3. /\ pointer' = [pointer EXCEPT ![f][a] = p]
      /\ pointerLife' = [pointerLife EXCEPT ![f][a] = SetLife(d, pointerLife[f][a])]
      /\ UNCHANGED <<value, valueLife, members, membersLife>>
      /\ call' = [call EXCEPT ![c] = Idle]
  BY <1>1 DEF SetPointer, Linking, Continue, record
<1>4. TypeOK'
  <2>1. Idle \in Call BY DEF Call
  <2> QED BY <1>2, <1>3, <2>1 DEF IInv, TypeOK
<1>5. RecordSynced'
  BY <1>3 DEF IInv, RecordSynced
<1>6. PointerSynced'
  BY <1>2, <1>3, NoneAssumption DEF IInv, TypeOK, PointerSynced
<1> QED BY <1>4, <1>5, <1>6 DEF IInv

LEMMA RecordEvictInv ==
  ASSUME IInv, NEW c \in Client, NEW p \in Primary, RecordEvict(c, p)
  PROVE  IInv'
<1>1. /\ value' = [value EXCEPT ![p] = None]
      /\ valueLife' = [valueLife EXCEPT ![p] = Gone]
      /\ members' = [members EXCEPT ![p] = NoAlias]
      /\ membersLife' = [membersLife EXCEPT ![p] = Gone]
      /\ UNCHANGED <<pointer, pointerLife>>
  BY DEF RecordEvict, DropRecord, link
<1>2. TypeOK'
  <2>1. call' \in [Client -> Call]
    BY UnlinkingType DEF RecordEvict, Continue, IInv, TypeOK
  <2>2. NoAlias \in [Field -> AliasValue \cup {None}] /\ Gone \in Life
    BY DEF NoAlias, Gone, Life, Forever
  <2> QED BY <1>1, <2>1, <2>2 DEF IInv, TypeOK
<1>3. RecordSynced'
  BY <1>1 DEF IInv, TypeOK, RecordSynced, NoAlias
<1>4. PointerSynced'
  BY <1>1 DEF IInv, PointerSynced
<1> QED BY <1>2, <1>3, <1>4 DEF IInv

LEMMA UnlinkOneInv ==
  ASSUME IInv, NEW c \in Client, NEW f \in Field, UnlinkOne(c, f)
  PROVE  IInv'
<1>1. PICK p \in Primary, todo \in [Field -> AliasValue \cup {None}] :
         call[c].p = p /\ call[c].todo = todo
  BY CallTypes DEF UnlinkOne, IInv
<1>2. todo[f] \in AliasValue
  BY <1>1 DEF UnlinkOne
<1>3. PICK a \in AliasValue : todo[f] = a
  BY <1>2
<1>4. /\ \/ /\ pointer' = [pointer EXCEPT ![f][a] = None]
            /\ pointerLife' = [pointerLife EXCEPT ![f][a] = Gone]
         \/ UNCHANGED <<pointer, pointerLife>>
      /\ call' = [call EXCEPT ![c] = Unlinking(p, [todo EXCEPT ![f] = None])]
      /\ UNCHANGED <<value, valueLife, members, membersLife>>
  BY <1>1, <1>3 DEF UnlinkOne, Continue, record, link
<1>5. TypeOK'
  <2>1. call' \in [Client -> Call]
    BY <1>4, UnlinkingType DEF IInv, TypeOK
  <2>2. Gone \in Life BY DEF Gone, Life, Forever
  <2>3. /\ pointer' \in [Field -> [AliasValue -> Primary \cup {None}]]
        /\ pointerLife' \in [Field -> [AliasValue -> Life]]
    <3>1. CASE UNCHANGED <<pointer, pointerLife>>
      BY <3>1 DEF IInv, TypeOK
    <3>2. CASE /\ pointer' = [pointer EXCEPT ![f][a] = None]
               /\ pointerLife' = [pointerLife EXCEPT ![f][a] = Gone]
      BY <3>2, <2>2 DEF IInv, TypeOK
    <3> QED BY <1>4, <3>1, <3>2
  <2> QED BY <1>4, <2>1, <2>3 DEF IInv, TypeOK
<1>6. RecordSynced'
  BY <1>4 DEF IInv, RecordSynced
<1>7. PointerSynced'
  BY <1>4 DEF IInv, TypeOK, PointerSynced
<1> QED BY <1>5, <1>6, <1>7 DEF IInv

LEMMA TickInv ==
  ASSUME IInv, Tick
  PROVE  IInv'
<1>1. TypeOK'
  <2>1. value' \in [Primary -> Value \cup {None}] /\ valueLife' \in [Primary -> Life]
    BY LifeTypes DEF Tick, Kept, IInv, TypeOK
  <2>2. NoAlias \in [Field -> AliasValue \cup {None}]
    BY DEF NoAlias
  <2>3. members' \in [Primary -> [Field -> AliasValue \cup {None}]]
    BY <2>2 DEF Tick, Kept, IInv, TypeOK
  <2>4. membersLife' \in [Primary -> Life]
    BY LifeTypes DEF Tick, IInv, TypeOK
  <2>5. pointer' \in [Field -> [AliasValue -> Primary \cup {None}]]
    BY DEF Tick, Kept, IInv, TypeOK
  <2>6. pointerLife' \in [Field -> [AliasValue -> Life]]
    <3>1. \A f \in Field, a \in AliasValue : pointerLife[f][a] \in Life
      BY DEF IInv, TypeOK
    <3>2. \A n \in Life : Older(n) \in Life
      BY LifeTypes
    <3> QED BY <3>1, <3>2 DEF Tick
  <2>7. call' \in [Client -> Call]
    BY DEF Tick, IInv, TypeOK
  <2> QED BY <2>1, <2>3, <2>4, <2>5, <2>6, <2>7 DEF TypeOK
<1>2. RecordSynced'
  <2> SUFFICES ASSUME NEW p \in Primary
               PROVE  /\ value'[p] = None <=> valueLife'[p] = Gone
                      /\ membersLife'[p] = IF members'[p] = NoAlias THEN Gone ELSE valueLife'[p]
                      /\ members'[p] # NoAlias => value'[p] # None
    BY DEF RecordSynced, NoAlias
  <2>1. /\ value'[p] = IF Older(valueLife[p]) = Gone THEN None ELSE value[p]
        /\ valueLife'[p] = Older(valueLife[p])
        /\ members'[p] = IF Older(membersLife[p]) = Gone THEN NoAlias ELSE members[p]
        /\ membersLife'[p] = Older(membersLife[p])
    BY DEF Tick, Kept
  <2>2. /\ value[p] = None <=> valueLife[p] = Gone
        /\ membersLife[p] = IF members[p] = NoAlias THEN Gone ELSE valueLife[p]
        /\ members[p] # NoAlias => value[p] # None
    BY DEF IInv, RecordSynced
  <2>3. Older(Gone) = Gone BY DEF Older, Gone
  <2> QED BY <2>1, <2>2, <2>3
<1>3. PointerSynced'
  <2> SUFFICES ASSUME NEW f \in Field, NEW a \in AliasValue
               PROVE  pointer'[f][a] = None <=> pointerLife'[f][a] = Gone
    BY DEF PointerSynced
  <2>1. /\ pointer'[f][a] = IF Older(pointerLife[f][a]) = Gone THEN None ELSE pointer[f][a]
        /\ pointerLife'[f][a] = Older(pointerLife[f][a])
    BY DEF Tick, Kept
  <2>2. pointer[f][a] = None <=> pointerLife[f][a] = Gone
    BY DEF IInv, PointerSynced
  <2>3. Older(Gone) = Gone BY DEF Older, Gone
  <2> QED BY <2>1, <2>2, <2>3
<1> QED BY <1>1, <1>2, <1>3 DEF IInv

LEMMA Inductive == IInv /\ [Next]_vars => IInv'
<1> SUFFICES ASSUME IInv, [Next]_vars PROVE IInv'
  OBVIOUS
<1>1. ASSUME NEW p \in Primary, NEW v \in Value, NEW d \in Ttl, PutValue(p, v, d)
      PROVE  IInv'
  BY <1>1, PutValueInv
<1>2. ASSUME NEW c \in Client, Start(c) PROVE IInv'
  <2>1. ASSUME NEW p \in Primary, NEW f \in Field, NEW a \in AliasValue, NEW v \in Value,
               NEW d \in Ttl, PutByAlias(c, p, f, a, v, d)
        PROVE  IInv'
    BY <2>1, PutByAliasInv
  <2>2. ASSUME NEW f \in Field, NEW a \in AliasValue, GetPointer(c, f, a) PROVE IInv'
    <3>1. Reading(pointer[f][a], f, a) \in Call
      BY <2>2 DEF GetPointer, IInv, TypeOK, Reading, Call
    <3> QED BY <2>2, <3>1, CallOnly DEF GetPointer, Continue, IInv, TypeOK
  <2>3. ASSUME NEW f \in Field, NEW a \in AliasValue, EvictByAlias(c, f, a) PROVE IInv'
    <3>1. Evicting(pointer[f][a]) \in Call
      BY <2>3 DEF EvictByAlias, IInv, TypeOK, Evicting, Call
    <3> QED BY <2>3, <3>1, CallOnly DEF EvictByAlias, Continue, IInv, TypeOK
  <2>4. ASSUME NEW f \in Field, NEW a \in AliasValue, EvictByAliasMiss(c, f, a) PROVE IInv'
    <3>1. NothingFound(f, a) \in Call
      BY DEF NothingFound, Call
    <3> QED BY <2>4, <3>1, CallOnly DEF EvictByAliasMiss, Continue, IInv, TypeOK
  <2>5. ASSUME NEW p \in Primary, EvictByPrimary(c, p) PROVE IInv'
    BY <2>5, RecordEvictInv DEF EvictByPrimary
  <2> QED BY <1>2, <2>1, <2>2, <2>3, <2>4, <2>5 DEF Start
<1>3. ASSUME NEW c \in Client, Proceed(c) PROVE IInv'
  <2>1. CASE SetPointer(c)
    BY <2>1, SetPointerInv
  <2>2. CASE EvictResolved(c)
    <3>1. call[c].p \in Primary BY <2>2, CallTypes DEF EvictResolved, IInv
    <3> QED BY <2>2, <3>1, RecordEvictInv DEF EvictResolved
  <2>3. CASE GetValidated(c) \/ EndCall(c)
    <3>1. Idle \in Call BY DEF Call
    <3> QED BY <2>3, <3>1, CallOnly DEF GetValidated, EndCall, Continue, IInv, TypeOK
  <2>4. ASSUME NEW f \in Field, UnlinkOne(c, f) PROVE IInv'
    BY <2>4, UnlinkOneInv
  <2>5. ASSUME NEW f \in Field, SkipOne(c, f) PROVE IInv'
    <3>1. call[c].p \in Primary /\ call[c].todo \in [Field -> AliasValue \cup {None}]
      BY <2>5, CallTypes DEF SkipOne, IInv
    <3>2. Unlinking(call[c].p, [call[c].todo EXCEPT ![f] = None]) \in Call
      BY <3>1, UnlinkingType
    <3> QED BY <2>5, <3>2, CallOnly DEF SkipOne, Continue, IInv, TypeOK
  <2> QED BY <1>3, <2>1, <2>2, <2>3, <2>4, <2>5 DEF Proceed
<1>4. CASE Tick
  BY <1>4, TickInv
<1>5. CASE UNCHANGED vars
  BY <1>5 DEF vars, record, link, IInv, TypeOK, RecordSynced, PointerSynced
<1> QED BY <1>1, <1>2, <1>3, <1>4, <1>5 DEF Next

LEMMA Invariance == Spec => []IInv
  BY InitInv, Inductive, PTL DEF Spec

(* The state keeps its types, and calls their arguments, however commands  *)
(* interleave and wherever calls end.                                      *)
THEOREM TypeCorrect == Spec => []TypeOK
<1>1. IInv => TypeOK BY DEF IInv
<1> QED BY <1>1, Invariance, PTL

(* A record is one group in every reachable state: its hash belongs to a   *)
(* cached value and has the value's life, for any number of clients        *)
(* (record_put.lua:2-6).                                                   *)
THEOREM AlwaysRecordSynced == Spec => []RecordSynced
<1>1. IInv => RecordSynced BY DEF IInv
<1> QED BY <1>1, Invariance, PTL
-------------------------------------------------------------------------------
(* The steps, by what they do to the record and the pointer of an alias.   *)

(* A record comes to list an alias, or to be cached, only by a write: of a *)
(* record that lists nothing, or of that very alias.                       *)
LEMMA ValidatesBy ==
  ASSUME IInv, [Next]_vars, NEW p \in Primary, NEW f \in Field, NEW a \in AliasValue,
         ~Validates(p, f, a), Validates(p, f, a)'
  PROVE  \E c \in Client : Registering(c, p, f, a)
<1>1. members[p] # NoAlias => value[p] # None
  BY DEF IInv, RecordSynced
<1>2. members[p][f] = a => members[p] # NoAlias
  BY NoneAssumption DEF NoAlias
<1>3. members[p][f] # a /\ members'[p][f] = a
  <2>1. CASE members[p][f] = a
    BY <1>1, <1>2, <2>1 DEF Validates
  <2> QED BY <2>1 DEF Validates
<1>4. ASSUME NEW c \in Client, NEW q \in Primary, NEW g \in Field, NEW b \in AliasValue,
             NEW v \in Value, NEW d \in Ttl, PutByAlias(c, q, g, b, v, d)
      PROVE  Registering(c, p, f, a)
  <2>1. q = p /\ g = f /\ b = a
    BY <1>3, <1>4 DEF PutByAlias, IInv, TypeOK
  <2>2. call[c] = Idle /\ call'[c] = Linking(p, f, a, d)
    BY <1>4, <2>1 DEF PutByAlias, Continue, IInv, TypeOK
  <2>3. call'[c] # call[c]
    BY <2>2 DEF Idle, Linking
  <2> QED BY <2>2, <2>3 DEF Registering
<1>5. ASSUME NEW c \in Client, NEW q \in Primary, RecordEvict(c, q) PROVE FALSE
  BY <1>3, <1>5, NoneAssumption DEF RecordEvict, DropRecord, NoAlias, IInv, TypeOK
<1>6. CASE Tick
  BY <1>3, <1>6, NoneAssumption DEF Tick, Kept, NoAlias
<1>7. members' # members
  BY <1>3
<1>8. ASSUME NEW c \in Client, Proceed(c) PROVE FALSE
  <2>1. CASE EvictResolved(c)
    <3>1. call[c].p \in Primary BY <2>1, CallTypes DEF EvictResolved, IInv
    <3> QED BY <2>1, <3>1, <1>5 DEF EvictResolved
  <2> QED BY <1>7, <1>8, <2>1 DEF Proceed, SetPointer, GetValidated, UnlinkOne, SkipOne,
                                  EndCall, record
<1>9. ASSUME NEW c \in Client, Start(c) PROVE \E e \in Client : Registering(e, p, f, a)
  <2>1. ASSUME NEW q \in Primary, EvictByPrimary(c, q) PROVE FALSE
    BY <2>1, <1>5 DEF EvictByPrimary
  <2> QED BY <1>4, <1>7, <1>9, <2>1 DEF Start, GetPointer, EvictByAlias, EvictByAliasMiss, record
<1> QED BY <1>6, <1>7, <1>8, <1>9 DEF Next, PutValue, vars, record

(* A pointer comes to lead to a record only by the SET of a PutByAlias. *)
LEMMA PointsBy ==
  ASSUME IInv, [Next]_vars, NEW p \in Primary, NEW f \in Field, NEW a \in AliasValue,
         pointer[f][a] # p, pointer'[f][a] = p
  PROVE  \E c \in Client : Registering(c, p, f, a)
<1>1. pointer' # pointer
  OBVIOUS
<1>2. ASSUME NEW c \in Client, SetPointer(c) PROVE Registering(c, p, f, a)
  <2>1. PICK q \in Primary, g \in Field, b \in AliasValue, d \in Ttl :
           call[c] = Linking(q, g, b, d)
    BY <1>2, CallTypes DEF SetPointer, IInv
  <2>2. pointer' = [pointer EXCEPT ![g][b] = q] /\ call'[c] = Idle
    BY <1>2, <2>1 DEF SetPointer, Linking, Continue, IInv, TypeOK
  <2>3. q = p /\ g = f /\ b = a
    BY <2>2 DEF IInv, TypeOK
  <2>4. call'[c] # call[c]
    BY <2>1, <2>2 DEF Idle, Linking
  <2> QED BY <2>1, <2>3, <2>4 DEF Registering
<1>3. ASSUME NEW c \in Client, NEW g \in Field, UnlinkOne(c, g) PROVE FALSE
  <2>1. PICK b \in AliasValue : b = call[c].todo[g]
    BY <1>3, CallTypes DEF UnlinkOne, IInv
  <2>2. pointer' = [pointer EXCEPT ![g][b] = None]
    BY <1>1, <1>3, <2>1 DEF UnlinkOne, link
  <2>3. pointer'[f][a] \in {pointer[f][a], None}
    BY <2>2 DEF IInv, TypeOK
  <2> QED BY <2>3, NoneAssumption
<1>4. CASE Tick
  <2>1. pointer'[f][a] \in {pointer[f][a], None}
    BY <1>4 DEF Tick, Kept
  <2> QED BY <2>1, NoneAssumption
<1>5. ASSUME NEW c \in Client, Proceed(c) PROVE Registering(c, p, f, a)
  BY <1>1, <1>2, <1>3, <1>5 DEF Proceed, GetValidated, EvictResolved, RecordEvict, SkipOne,
                                EndCall, link
<1>6. ASSUME NEW c \in Client, Start(c) PROVE FALSE
  BY <1>1, <1>6 DEF Start, PutByAlias, GetPointer, EvictByAlias, EvictByAliasMiss, EvictByPrimary,
                    RecordEvict, link
<1> QED BY <1>1, <1>4, <1>5, <1>6 DEF Next, PutValue, vars, link

(* An alias starts to lead a reader to a record only in a step of a        *)
(* PutByAlias that registers it, for any number of clients: no interleaving*)
(* of commands, no lost command and no refresh brings one back.            *)
THEOREM OnlyByPut == Spec => AliasOnlyByPut
<1>1. IInv /\ [Next]_vars =>
         [\A p \in Primary, f \in Field, a \in AliasValue :
            ~Resolves(f, a, p) /\ Resolves(f, a, p)' =>
               \E c \in Client : Registering(c, p, f, a)]_vars
  <2> SUFFICES ASSUME IInv, [Next]_vars,
                      NEW p \in Primary, NEW f \in Field, NEW a \in AliasValue,
                      ~Resolves(f, a, p), Resolves(f, a, p)'
               PROVE  \E c \in Client : Registering(c, p, f, a)
    OBVIOUS
  <2>1. CASE ~Validates(p, f, a)
    BY <2>1, ValidatesBy DEF Resolves
  <2>2. CASE pointer[f][a] # p
    BY <2>2, PointsBy DEF Resolves
  <2> QED BY <2>1, <2>2 DEF Resolves
<1> QED BY <1>1, Invariance, PTL DEF Spec, AliasOnlyByPut

(* A pointer goes when its last millisecond has passed, or in the clean-up *)
(* of the record it leads to; the pointers of other records are safe from  *)
(* every eviction, however old what the evicting client knows.             *)
THEOREM ForeignKept == Spec => EvictKeepsForeign
<1>1. IInv /\ [Next]_vars =>
         [\A f \in Field, a \in AliasValue :
            pointer[f][a] # None /\ pointer'[f][a] = None /\ pointerLife[f][a] # 1 =>
               \E c \in Client : call[c].at = "unlink" /\ call[c].p = pointer[f][a]]_vars
  <2> SUFFICES ASSUME IInv, [Next]_vars, NEW f \in Field, NEW a \in AliasValue,
                      pointer[f][a] # None, pointer'[f][a] = None, pointerLife[f][a] # 1
               PROVE  \E c \in Client : call[c].at = "unlink" /\ call[c].p = pointer[f][a]
    OBVIOUS
  <2>1. pointer' # pointer
    OBVIOUS
  <2>2. ~Tick
    <3>1. pointerLife[f][a] \in Life /\ pointerLife[f][a] # Gone
      BY DEF IInv, TypeOK, PointerSynced
    <3>2. Older(pointerLife[f][a]) # Gone
      BY <3>1, LifeTypes
    <3> QED BY <3>2 DEF Tick, Kept
  <2>3. ASSUME NEW c \in Client, SetPointer(c) PROVE FALSE
    <3>1. PICK q \in Primary, g \in Field, b \in AliasValue, d \in Ttl :
             call[c] = Linking(q, g, b, d)
      BY <2>3, CallTypes DEF SetPointer, IInv
    <3>2. pointer' = [pointer EXCEPT ![g][b] = q]
      BY <2>3, <3>1 DEF SetPointer, Linking
    <3> QED BY <3>2, NoneAssumption DEF IInv, TypeOK
  <2>4. ASSUME NEW c \in Client, NEW g \in Field, UnlinkOne(c, g)
        PROVE  call[c].at = "unlink" /\ call[c].p = pointer[f][a]
    <3>1. PICK b : b = call[c].todo[g] OBVIOUS
    <3>2. pointer' = [pointer EXCEPT ![g][b] = None] /\ pointer[g][b] = call[c].p
      BY <2>1, <2>4, <3>1 DEF UnlinkOne, Compares, link
    <3>3. g = f /\ b = a
      BY <3>2 DEF IInv, TypeOK
    <3> QED BY <2>4, <3>2, <3>3 DEF UnlinkOne
  <2>5. ASSUME NEW c \in Client, Proceed(c)
        PROVE  call[c].at = "unlink" /\ call[c].p = pointer[f][a]
    BY <2>1, <2>3, <2>4, <2>5 DEF Proceed, GetValidated, EvictResolved, RecordEvict, SkipOne,
                                  EndCall, link
  <2>6. ASSUME NEW c \in Client, Start(c) PROVE FALSE
    BY <2>1, <2>6 DEF Start, PutByAlias, GetPointer, EvictByAlias, EvictByAliasMiss,
                      EvictByPrimary, RecordEvict, link
  <2> QED BY <2>1, <2>2, <2>5, <2>6 DEF Next, PutValue, vars, link
<1> QED BY <1>1, Invariance, PTL DEF Spec, EvictKeepsForeign
===============================================================================
