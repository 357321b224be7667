---------------------------- MODULE MemAliasProofs ----------------------------
(***************************************************************************)
(* Theorems about the in-process alias backend for every set of primaries, *)
(* fields, aliases, values and TTLs.  The inductive invariant says of the  *)
(* maps, expired entries included, what Colocated's says of the keys that  *)
(* are left: Linked, hash and pointers name each other; OneLife, what is   *)
(* stored of a group has one life, which may have run out.                 *)
(***************************************************************************)
EXTENDS MemAlias, TLAPS

Linked ==
    \A p \in Primary, f \in Field, a \in AliasValue :
        members[p][f] = a <=> pointer[f][a] = p

OneLife ==
    /\ \A p \in Primary :
          /\ members[p] # NoAlias => value[p] # None
          /\ membersLife[p] = IF members[p] = NoAlias THEN Gone ELSE valueLife[p]
    /\ \A f \in Field, a \in AliasValue :
          pointerLife[f][a] = IF pointer[f][a] = None
                              THEN Gone ELSE valueLife[pointer[f][a]]

IInv == TypeOK /\ Linked /\ OneLife

LEMMA ExpAtType ==
  ASSUME NEW d \in Ttl
  PROVE  ExpAt(d) \in Life \ {Gone}
  BY TtlAssumption DEF ExpAt, Life, Gone, Forever

LEMMA OlderType ==
  /\ \A n \in Life : Older(n) \in Life
  /\ Older(Gone) = Gone
  /\ Gone \in Life
  BY DEF Older, Life, Gone, Forever

(* A hash that lists something is not the empty one. *)
LEMMA Listing ==
  ASSUME NEW m, NEW f \in Field, m[f] \in AliasValue
  PROVE  m # NoAlias
  BY NoneAssumption DEF NoAlias

LEMMA NoAliasType ==
  /\ NoAlias \in [Field -> AliasValue \cup {None}]
  /\ \A m \in [Field -> AliasValue \cup {None}] :
        m # NoAlias <=> \E f \in Field : m[f] # None
  BY DEF NoAlias

LEMMA InitInv == Init => IInv
  BY NoneAssumption, OlderType, NoAliasType
     DEF Init, IInv, TypeOK, Linked, OneLife, NoAlias

LEMMA PutValueInv ==
  ASSUME IInv, NEW p \in Primary, NEW v \in Value, NEW d \in Ttl, PutValue(p, v, d)
  PROVE  IInv'
<1>1. PICK n \in Life \ {Gone} : n = ExpAt(d)
  BY ExpAtType
<1>2. /\ value' = [value EXCEPT ![p] = v]
      /\ valueLife' = [valueLife EXCEPT ![p] = n]
      /\ membersLife' = [membersLife EXCEPT ![p] = IF members[p] = NoAlias THEN Gone ELSE n]
      /\ pointerLife' = [f \in Field |-> [a \in AliasValue |->
            IF members[p][f] = a /\ pointer[f][a] # None THEN n ELSE pointerLife[f][a]]]
      /\ UNCHANGED <<members, pointer>>
  BY <1>1 DEF PutValue, writeValueLocked, RefreshedHash, RefreshedPointers
<1>3. TypeOK'
  <2>1. value' \in [Primary -> Value \cup {None}] /\ valueLife' \in [Primary -> Life]
    BY <1>1, <1>2 DEF IInv, TypeOK
  <2>2. membersLife' \in [Primary -> Life]
    BY <1>1, <1>2, OlderType DEF IInv, TypeOK
  <2>3. pointerLife' \in [Field -> [AliasValue -> Life]]
    BY <1>1, <1>2 DEF IInv, TypeOK
  <2> QED BY <1>2, <2>1, <2>2, <2>3 DEF IInv, TypeOK
<1>4. Linked'
  BY <1>2 DEF IInv, Linked
<1>5. OneLife'
  <2>1. ASSUME NEW q \in Primary
        PROVE  /\ members'[q] # NoAlias => value'[q] # None
               /\ membersLife'[q] = IF members'[q] = NoAlias THEN Gone ELSE valueLife'[q]
    BY <1>2, NoneAssumption DEF IInv, TypeOK, OneLife
  <2>2. ASSUME NEW f \in Field, NEW a \in AliasValue
        PROVE  pointerLife'[f][a] = IF pointer'[f][a] = None
                                    THEN Gone ELSE valueLife'[pointer'[f][a]]
    <3>1. pointerLife'[f][a] = IF members[p][f] = a /\ pointer[f][a] # None
                               THEN n ELSE pointerLife[f][a]
      BY <1>2
    <3>2. members[p][f] = a <=> pointer[f][a] = p
      BY DEF IInv, Linked
    <3>3. pointer[f][a] \in Primary \cup {None}
      BY DEF IInv, TypeOK
    <3>4. pointerLife[f][a] = IF pointer[f][a] = None THEN Gone ELSE valueLife[pointer[f][a]]
      BY DEF IInv, OneLife
    <3> QED BY <1>2, <3>1, <3>2, <3>3, <3>4, NoneAssumption DEF IInv, TypeOK
  <2> QED BY <2>1, <2>2 DEF OneLife, NoAlias
<1> QED BY <1>3, <1>4, <1>5 DEF IInv

(* PutByAlias, pointwise.  With Linked, the pointer that is replaced is    *)
(* the one that led to p, and the robbed hash the one that listed (f, a).  *)
LEMMA PutByAliasFacts ==
  ASSUME IInv, NEW p \in Primary, NEW f \in Field, NEW a \in AliasValue,
         NEW v \in Value, NEW d \in Ttl, PutByAlias(p, f, a, v, d)
  PROVE  /\ members' \in [Primary -> [Field -> AliasValue \cup {None}]]
         /\ \A q \in Primary, g \in Field :
               members'[q][g] = IF g # f THEN members[q][g]
                                ELSE IF q = p THEN a
                                ELSE IF members[q][f] = a THEN None ELSE members[q][g]
         /\ pointer' = [pointer EXCEPT ![f] = [b \in AliasValue |->
                          IF b = a THEN p
                          ELSE IF pointer[f][b] = p THEN None ELSE pointer[f][b]]]
         /\ membersLife' = [q \in Primary |->
                              IF members'[q] = NoAlias THEN Gone
                              ELSE IF q = p THEN ExpAt(d) ELSE membersLife[q]]
         /\ pointerLife' = [g \in Field |-> [b \in AliasValue |->
                              IF members'[p][g] = b /\ pointer'[g][b] # None THEN ExpAt(d)
                              ELSE IF g = f /\ pointer'[g][b] = None THEN Gone
                              ELSE pointerLife[g][b]]]
<1>1. /\ members' = PutMembers(p, f, a)
      /\ pointer' = PutPointers(p, f, a)
      /\ membersLife' = [q \in Primary |->
                           IF members'[q] = NoAlias THEN Gone
                           ELSE RefreshedHash(members', p, d)[q]]
      /\ pointerLife' = RefreshedPointers(members', pointer',
                           [pointerLife EXCEPT ![f] = [b \in AliasValue |->
                               IF pointer'[f][b] = None THEN Gone ELSE pointerLife[f][b]]],
                           p, d)
  BY DEF PutByAlias
<1>2. \A q \in Primary, b \in AliasValue : members[q][f] = b <=> pointer[f][b] = q
  BY DEF IInv, Linked
<1>3. /\ \A q \in Primary : members[q] \in [Field -> AliasValue \cup {None}]
      /\ pointer[f] \in [AliasValue -> Primary \cup {None}]
  BY DEF IInv, TypeOK
<1>4. members' \in [Primary -> [Field -> AliasValue \cup {None}]]
  BY <1>1, <1>3 DEF PutMembers
<1>5. \A q \in Primary, g \in Field :
         members'[q][g] = IF g # f THEN members[q][g]
                          ELSE IF q = p THEN a
                          ELSE IF members[q][f] = a THEN None ELSE members[q][g]
  BY <1>1, <1>2, <1>3, NoneAssumption DEF PutMembers, Robbed
<1>6. \A b \in AliasValue : b # a => (b \in Replaced(p, f, a) <=> pointer[f][b] = p)
  BY <1>2, NoneAssumption DEF Replaced
<1>7. [b \in AliasValue |->
         IF b = a THEN p ELSE IF b \in Replaced(p, f, a) THEN None ELSE pointer[f][b]]
      = [b \in AliasValue |->
         IF b = a THEN p ELSE IF pointer[f][b] = p THEN None ELSE pointer[f][b]]
  BY <1>6
<1>8. membersLife' = [q \in Primary |->
                        IF members'[q] = NoAlias THEN Gone
                        ELSE IF q = p THEN ExpAt(d) ELSE membersLife[q]]
  BY <1>1 DEF RefreshedHash, IInv, TypeOK
<1>9. pointerLife' = [g \in Field |-> [b \in AliasValue |->
                        IF members'[p][g] = b /\ pointer'[g][b] # None THEN ExpAt(d)
                        ELSE IF g = f /\ pointer'[g][b] = None THEN Gone
                        ELSE pointerLife[g][b]]]
  BY <1>1 DEF RefreshedPointers, IInv, TypeOK
<1> QED BY <1>1, <1>4, <1>5, <1>7, <1>8, <1>9 DEF PutPointers

LEMMA PutByAliasInv ==
  ASSUME IInv, NEW p \in Primary, NEW f \in Field, NEW a \in AliasValue,
         NEW v \in Value, NEW d \in Ttl, PutByAlias(p, f, a, v, d)
  PROVE  IInv'
<1>n. PICK n \in Life \ {Gone} : n = ExpAt(d)
  BY ExpAtType
<1>v. value' = [value EXCEPT ![p] = v] /\ valueLife' = [valueLife EXCEPT ![p] = n]
  BY <1>n DEF PutByAlias, writeValueLocked
<1>t. members' \in [Primary -> [Field -> AliasValue \cup {None}]]
  BY PutByAliasFacts
<1>m. \A q \in Primary, g \in Field :
         members'[q][g] = IF g # f THEN members[q][g]
                          ELSE IF q = p THEN a
                          ELSE IF members[q][f] = a THEN None ELSE members[q][g]
  BY PutByAliasFacts
<1>r. pointer' = [pointer EXCEPT ![f] = [b \in AliasValue |->
                    IF b = a THEN p ELSE IF pointer[f][b] = p THEN None ELSE pointer[f][b]]]
  BY PutByAliasFacts
<1>l. membersLife' = [q \in Primary |->
                        IF members'[q] = NoAlias THEN Gone
                        ELSE IF q = p THEN n ELSE membersLife[q]]
  BY <1>n, PutByAliasFacts
<1>s. pointerLife' = [g \in Field |-> [b \in AliasValue |->
                        IF members'[p][g] = b /\ pointer'[g][b] # None THEN n
                        ELSE IF g = f /\ pointer'[g][b] = None THEN Gone
                        ELSE pointerLife[g][b]]]
  BY <1>n, PutByAliasFacts
<1>1. TypeOK'
  <2>1. value' \in [Primary -> Value \cup {None}] /\ valueLife' \in [Primary -> Life]
    BY <1>n, <1>v DEF IInv, TypeOK
  <2>2. membersLife' \in [Primary -> Life]
    BY <1>l, OlderType DEF IInv, TypeOK
  <2>3. pointer' \in [Field -> [AliasValue -> Primary \cup {None}]]
    BY <1>r DEF IInv, TypeOK
  <2>4. pointerLife' \in [Field -> [AliasValue -> Life]]
    BY <1>s, OlderType DEF IInv, TypeOK
  <2> QED BY <1>t, <2>1, <2>2, <2>3, <2>4 DEF TypeOK
<1>2. \A g \in Field, b \in AliasValue :
         pointer'[g][b] = IF g # f THEN pointer[g][b]
                          ELSE IF b = a THEN p
                          ELSE IF pointer[f][b] = p THEN None ELSE pointer[g][b]
  BY <1>r DEF IInv, TypeOK
<1>3. Linked'
  BY <1>m, <1>2, NoneAssumption DEF IInv, Linked
<1>4. OneLife'
  <2>1. ASSUME NEW q \in Primary
        PROVE  /\ members'[q] # NoAlias => value'[q] # None
               /\ membersLife'[q] = IF members'[q] = NoAlias THEN Gone ELSE valueLife'[q]
    <3>1. CASE q = p
      BY <3>1, <1>v, <1>l, NoneAssumption DEF IInv, TypeOK
    <3>2. CASE q # p
      <4>1. members'[q] # NoAlias => members[q] # NoAlias
        <5>1. \A g \in Field : members'[q][g] # None => members[q][g] # None
          BY <1>m, <3>2
        <5>2. members[q] \in [Field -> AliasValue \cup {None}]
              /\ members'[q] \in [Field -> AliasValue \cup {None}]
          BY <1>t DEF IInv, TypeOK
        <5> QED BY <5>1, <5>2, NoAliasType
      <4> QED BY <3>2, <4>1, <1>v, <1>l DEF IInv, TypeOK, OneLife
    <3> QED BY <3>1, <3>2
  <2>2. ASSUME NEW g \in Field, NEW b \in AliasValue
        PROVE  pointerLife'[g][b] = IF pointer'[g][b] = None
                                    THEN Gone ELSE valueLife'[pointer'[g][b]]
    <3>1. members'[p][g] = b <=> pointer'[g][b] = p
      BY <1>3 DEF Linked
    <3>2. pointer[g][b] \in Primary \cup {None}
          /\ pointerLife[g][b] = IF pointer[g][b] = None THEN Gone ELSE valueLife[pointer[g][b]]
      BY DEF IInv, TypeOK, OneLife
    <3>3. pointerLife'[g][b] = IF members'[p][g] = b /\ pointer'[g][b] # None THEN n
                               ELSE IF g = f /\ pointer'[g][b] = None THEN Gone
                               ELSE pointerLife[g][b]
      BY <1>s
    <3>4. CASE pointer'[g][b] = p
      BY <3>1, <3>3, <3>4, <1>v, NoneAssumption DEF IInv, TypeOK
    <3>5. CASE pointer'[g][b] = None
      BY <3>2, <3>3, <3>5, <1>2, NoneAssumption
    <3>6. CASE pointer'[g][b] \notin {p, None}
      <4>1. pointer'[g][b] = pointer[g][b]
        BY <3>6, <1>2
      <4> QED BY <3>1, <3>2, <3>3, <3>6, <4>1, <1>v DEF IInv, TypeOK
    <3> QED BY <3>4, <3>5, <3>6
  <2> QED BY <2>1, <2>2 DEF OneLife, NoAlias
<1> QED BY <1>1, <1>3, <1>4 DEF IInv

(* An eviction finds every pointer to the records of S, by Linked. *)
LEMMA EvictFacts ==
  ASSUME IInv, NEW S \in SUBSET Primary, evictLocked(S)
  PROVE  /\ pointer' = [f \in Field |-> [a \in AliasValue |->
                          IF pointer[f][a] \in S THEN None ELSE pointer[f][a]]]
         /\ pointerLife' = [f \in Field |-> [a \in AliasValue |->
                              IF pointer[f][a] \in S THEN Gone ELSE pointerLife[f][a]]]
<1>1. \A f \in Field, a \in AliasValue :
         (\E p \in S : members[p][f] = a) <=> pointer[f][a] \in S
  BY DEF IInv, Linked
<1> QED BY <1>1 DEF evictLocked

LEMMA EvictInv ==
  ASSUME IInv, NEW S \in SUBSET Primary, evictLocked(S)
  PROVE  IInv'
<1>1. /\ value' = [p \in Primary |-> IF p \in S THEN None ELSE value[p]]
      /\ valueLife' = [p \in Primary |-> IF p \in S THEN Gone ELSE valueLife[p]]
      /\ members' = [p \in Primary |-> IF p \in S THEN NoAlias ELSE members[p]]
      /\ membersLife' = [p \in Primary |-> IF p \in S THEN Gone ELSE membersLife[p]]
  BY DEF evictLocked
<1>2. /\ pointer' = [f \in Field |-> [a \in AliasValue |->
                       IF pointer[f][a] \in S THEN None ELSE pointer[f][a]]]
      /\ pointerLife' = [f \in Field |-> [a \in AliasValue |->
                           IF pointer[f][a] \in S THEN Gone ELSE pointerLife[f][a]]]
  BY EvictFacts
<1>3. TypeOK'
  <2>1. value' \in [Primary -> Value \cup {None}] /\ valueLife' \in [Primary -> Life]
        /\ membersLife' \in [Primary -> Life]
    BY <1>1, OlderType DEF IInv, TypeOK
  <2>2. members' \in [Primary -> [Field -> AliasValue \cup {None}]]
    BY <1>1, NoAliasType DEF IInv, TypeOK
  <2>3. pointer' \in [Field -> [AliasValue -> Primary \cup {None}]]
    BY <1>2 DEF IInv, TypeOK
  <2>4. pointerLife' \in [Field -> [AliasValue -> Life]]
    BY <1>2, OlderType DEF IInv, TypeOK
  <2> QED BY <2>1, <2>2, <2>3, <2>4 DEF TypeOK
<1>4. Linked'
  <2> SUFFICES ASSUME NEW q \in Primary, NEW f \in Field, NEW a \in AliasValue
               PROVE  members'[q][f] = a <=> pointer'[f][a] = q
    BY DEF Linked
  <2>1. members[q][f] = a <=> pointer[f][a] = q
    BY DEF IInv, Linked
  <2>2. members'[q][f] = IF q \in S THEN None ELSE members[q][f]
    BY <1>1 DEF NoAlias
  <2> QED BY <2>1, <2>2, <1>2, NoneAssumption
<1>5. OneLife'
  <2>1. ASSUME NEW q \in Primary
        PROVE  /\ members'[q] # NoAlias => value'[q] # None
               /\ membersLife'[q] = IF members'[q] = NoAlias THEN Gone ELSE valueLife'[q]
    BY <1>1 DEF IInv, OneLife
  <2>2. ASSUME NEW f \in Field, NEW a \in AliasValue
        PROVE  pointerLife'[f][a] = IF pointer'[f][a] = None
                                    THEN Gone ELSE valueLife'[pointer'[f][a]]
    <3>1. pointer[f][a] \in Primary \cup {None}
          /\ pointerLife[f][a] = IF pointer[f][a] = None THEN Gone ELSE valueLife[pointer[f][a]]
      BY DEF IInv, TypeOK, OneLife
    <3> QED BY <3>1, <1>1, <1>2, NoneAssumption
  <2> QED BY <2>1, <2>2 DEF OneLife, NoAlias
<1> QED BY <1>3, <1>4, <1>5 DEF IInv

LEMMA TickInv ==
  ASSUME IInv, Tick
  PROVE  IInv'
<1>1. /\ valueLife' = [p \in Primary |-> Older(valueLife[p])]
      /\ membersLife' = [p \in Primary |-> Older(membersLife[p])]
      /\ pointerLife' = [f \in Field |-> [a \in AliasValue |-> Older(pointerLife[f][a])]]
      /\ UNCHANGED <<value, members, pointer>>
  BY DEF Tick
<1>2. TypeOK'
  BY <1>1, OlderType DEF IInv, TypeOK
<1>3. Linked'
  BY <1>1 DEF IInv, Linked
<1>4. OneLife'
  <2>1. ASSUME NEW q \in Primary
        PROVE  /\ members'[q] # NoAlias => value'[q] # None
               /\ membersLife'[q] = IF members'[q] = NoAlias THEN Gone ELSE valueLife'[q]
    BY <1>1, OlderType DEF IInv, OneLife
  <2>2. ASSUME NEW f \in Field, NEW a \in AliasValue
        PROVE  pointerLife'[f][a] = IF pointer'[f][a] = None
                                    THEN Gone ELSE valueLife'[pointer'[f][a]]
    <3>1. pointer[f][a] \in Primary \cup {None}
          /\ pointerLife[f][a] = IF pointer[f][a] = None THEN Gone ELSE valueLife[pointer[f][a]]
      BY DEF IInv, TypeOK, OneLife
    <3> QED BY <3>1, <1>1, OlderType
  <2> QED BY <2>1, <2>2 DEF OneLife, NoAlias
<1> QED BY <1>2, <1>3, <1>4 DEF IInv

LEMMA Inductive == IInv /\ [Next]_vars => IInv'
<1> SUFFICES ASSUME IInv, [Next]_vars PROVE IInv'
  OBVIOUS
<1>1. ASSUME NEW p \in Primary, NEW v \in Value, NEW d \in Ttl, PutValue(p, v, d)
      PROVE  IInv'
  BY <1>1, PutValueInv
<1>2. ASSUME NEW p \in Primary, NEW f \in Field, NEW a \in AliasValue, NEW v \in Value,
             NEW d \in Ttl, PutByAlias(p, f, a, v, d)
      PROVE  IInv'
  BY <1>2, PutByAliasInv
<1>3. ASSUME NEW p \in Primary, EvictByPrimary(p) PROVE IInv'
  BY <1>3, EvictInv DEF EvictByPrimary
<1>4. ASSUME NEW f \in Field, NEW a \in AliasValue, EvictByAlias(f, a) PROVE IInv'
  <2>1. {pointer[f][a]} \in SUBSET Primary BY <1>4 DEF EvictByAlias, IInv, TypeOK
  <2> QED BY <1>4, <2>1, EvictInv DEF EvictByAlias
<1>5. ASSUME NEW S \in SUBSET Primary, EvictByPrimaryPrefix(S) PROVE IInv'
  BY <1>5, EvictInv DEF EvictByPrimaryPrefix
<1>6. CASE Tick
  BY <1>6, TickInv
<1>7. CASE UNCHANGED vars
  BY <1>7 DEF vars, IInv, TypeOK, Linked, OneLife
<1> QED BY <1>1, <1>2, <1>3, <1>4, <1>5, <1>6, <1>7 DEF Next

LEMMA Invariance == Spec => []IInv
  BY InitInv, Inductive, PTL DEF Spec

(* The maps keep their types, expired entries included. *)
THEOREM TypeCorrect == Spec => []TypeOK
<1>1. IInv => TypeOK BY DEF IInv
<1> QED BY <1>1, Invariance, PTL

(* A reader finds a group whole or not at all: a stored alias of p leads   *)
(* to p exactly as long as p itself is found, although value, hash and     *)
(* pointers have expiries of their own, however often they had expired and *)
(* were refreshed.                                                         *)
THEOREM AlwaysWhole == Spec => []Whole
<1>1. IInv => Whole
  <2> SUFFICES ASSUME IInv, NEW f \in Field, NEW a \in AliasValue, pointer[f][a] # None
               PROVE  visibleOwner[f][a] = pointer[f][a] <=> visibleValue[pointer[f][a]] # None
    BY DEF Whole
  <2>1. PICK p \in Primary : pointer[f][a] = p
    BY DEF IInv, TypeOK
  <2>2. members[p][f] = a
    BY <2>1 DEF IInv, Linked
  <2>3. members[p] # NoAlias
    BY <2>2, Listing
  <2>4. value[p] # None /\ membersLife[p] = valueLife[p] /\ pointerLife[f][a] = valueLife[p]
    BY <2>1, <2>3, NoneAssumption DEF IInv, OneLife
  <2>5. visibleValue[p] = IF valueLife[p] # Gone THEN value[p] ELSE None
    BY DEF visibleValue, Live
  <2>6. visibleOwner[f][a] = IF valueLife[p] # Gone THEN p ELSE None
    BY <2>1, <2>2, <2>4, NoneAssumption DEF visibleOwner, Live
  <2> QED BY <2>1, <2>4, <2>5, <2>6, NoneAssumption
<1> QED BY <1>1, Invariance, PTL
-------------------------------------------------------------------------------
(* The critical sections are the operations of an alias group in which     *)
(* nothing expires; the clock changes nothing that is stored.              *)
THEOREM Implements == Spec => StoredSpec
<1>1. Init => Stored!Init
  BY DEF Init, Stored!Init
<1>2. IInv /\ [Next]_vars => [Stored!Next]_(Stored!vars)
  <2> SUFFICES ASSUME IInv, [Next]_vars PROVE Stored!Next \/ UNCHANGED Stored!vars
    OBVIOUS
  <2>e. ASSUME NEW S \in SUBSET Primary, evictLocked(S) PROVE Stored!Invalidate(S)
    BY <2>e, EvictFacts DEF evictLocked, Stored!Invalidate
  <2>1. ASSUME NEW p \in Primary, NEW v \in Value, NEW d \in Ttl, PutValue(p, v, d)
        PROVE  Stored!Next
    <3>1. Stored!PutValue(p, v)
      BY <2>1 DEF PutValue, writeValueLocked, Stored!PutValue
    <3> QED BY <3>1 DEF Stored!Next
  <2>2. ASSUME NEW p \in Primary, NEW f \in Field, NEW a \in AliasValue, NEW v \in Value,
               NEW d \in Ttl, PutByAlias(p, f, a, v, d)
        PROVE  Stored!Next
    <3>1. value' = [value EXCEPT ![p] = v]
      BY <2>2 DEF PutByAlias, writeValueLocked
    <3>2. Stored!PutByAlias(p, f, a, v)
      BY <2>2, <3>1, PutByAliasFacts DEF Stored!PutByAlias
    <3> QED BY <3>2 DEF Stored!Next
  <2>3. ASSUME NEW p \in Primary, EvictByPrimary(p) PROVE Stored!Next
    <3>1. Stored!EvictByPrimary(p)
      BY <2>3, <2>e DEF EvictByPrimary, Stored!EvictByPrimary
    <3> QED BY <3>1 DEF Stored!Next
  <2>4. ASSUME NEW f \in Field, NEW a \in AliasValue, EvictByAlias(f, a) PROVE Stored!Next
    <3>1. {pointer[f][a]} \in SUBSET Primary BY <2>4 DEF EvictByAlias, IInv, TypeOK
    <3>2. Stored!EvictByAlias(f, a)
      BY <2>4, <2>e, <3>1 DEF EvictByAlias, Stored!EvictByAlias
    <3> QED BY <3>2 DEF Stored!Next
  <2>5. ASSUME NEW S \in SUBSET Primary, EvictByPrimaryPrefix(S) PROVE Stored!Next
    <3>1. Stored!Expire(S)
      BY <2>5, <2>e DEF EvictByPrimaryPrefix, Stored!Expire
    <3> QED BY <3>1 DEF Stored!Next
  <2>6. CASE Tick \/ UNCHANGED vars
    BY <2>6 DEF Tick, vars, Stored!vars
  <2> QED BY <2>1, <2>2, <2>3, <2>4, <2>5, <2>6 DEF Next
<1> QED BY <1>1, <1>2, Invariance, PTL DEF Spec, StoredSpec, Stored!Spec
===============================================================================
