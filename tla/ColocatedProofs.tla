--------------------------- MODULE ColocatedProofs ---------------------------
(***************************************************************************)
(* Theorems about the colocated backend for every set of primaries,        *)
(* fields, aliases, values and TTLs: the alias relation and the lifetimes  *)
(* of a group never fall apart, and the backend implements AliasGroup.     *)
(* The inductive invariant is IInv; none of its conjuncts is inductive     *)
(* alone, since an eviction finds the pointers it deletes through the hash *)
(* (Agree) and a tick drops the keys of a group together (Synced).         *)
(***************************************************************************)
EXTENDS Colocated, TLAPS

IInv == TypeOK /\ Agree /\ Synced

(* A script gives a key a lifetime that is positive or Forever, never Gone.*)
LEMMA ScriptLifeType ==
  ASSUME NEW d \in Ttl
  PROVE  ScriptLife(d) \in Life /\ ScriptLife(d) # Gone
<1>1. d \in Int /\ PerMs \in Nat \ {0}
  BY TtlAssumption, PerMsAssumption
<1>2. Milliseconds(d) \in Int
  BY <1>1 DEF Milliseconds
<1> QED BY <1>2 DEF ScriptLife, Life, Gone, Forever

LEMMA GoneIsNotForever == Gone # Forever
  BY DEF Gone, Forever

(* Refreshing and ageing keep lifetimes lifetimes. *)
LEMMA LifeTypes ==
  ASSUME NEW n \in Life, NEW m \in Life
  PROVE  /\ Older(n) \in Life
         /\ Extend(n, m) \in Life
         /\ n = Gone => Older(n) = Gone
  BY DEF Older, Extend, Life, Gone, Forever

LEMMA InitInv == Init => IInv
  BY NoneAssumption DEF Init, IInv, TypeOK, Agree, Synced, Life, Gone, Forever

LEMMA PutValueInv ==
  ASSUME IInv, NEW p \in Primary, NEW v \in Value, NEW d \in Ttl, PutValue(p, v, d)
  PROVE  IInv'
<1> DEFINE n == ScriptLife(d)
<1>1. n \in Life /\ n # Gone
  BY ScriptLifeType
<1> HIDE DEF n
<1>2. PICK m \in Life : m = n BY <1>1
<1>3. /\ value' = [value EXCEPT ![p] = v]
      /\ valueLife' = [valueLife EXCEPT ![p] = n]
      /\ membersLife' = [membersLife EXCEPT ![p] = Extend(membersLife[p], n)]
      /\ pointerLife' = RefreshListed(members, pointerLife, p, n)
      /\ members' = members /\ pointer' = pointer
  BY DEF PutValue, SetValue, n
<1>4. TypeOK'
  BY <1>1, <1>3 DEF IInv, TypeOK, RefreshListed, Extend, Gone, Life
<1>5. Agree'
  BY <1>3 DEF IInv, Agree
<1>6. Synced'
  <2>1. \A q \in Primary : value'[q] = None <=> valueLife'[q] = Gone
    BY <1>1, <1>3, NoneAssumption DEF IInv, TypeOK, Synced
  <2>2. \A q \in Primary :
           membersLife'[q] = IF \A f \in Field : members'[q][f] = None
                             THEN Gone ELSE valueLife'[q]
    <3> TAKE q \in Primary
    <3>1. CASE q = p
      BY <3>1, <1>1, <1>3, NoneAssumption DEF IInv, TypeOK, Synced, Extend
    <3>2. CASE q # p
      BY <3>2, <1>3 DEF IInv, TypeOK, Synced
    <3> QED BY <3>1, <3>2
  <2>3. \A q \in Primary : (\E f \in Field : members'[q][f] # None) => value'[q] # None
    BY <1>3, NoneAssumption DEF IInv, TypeOK, Synced
  <2>4. \A f \in Field, a \in AliasValue :
           pointerLife'[f][a] = IF pointer'[f][a] = None
                                THEN Gone ELSE valueLife'[pointer'[f][a]]
    <3> TAKE f \in Field, a \in AliasValue
    <3>1. pointerLife'[f][a] = IF members[p][f] = a THEN Extend(pointerLife[f][a], n)
                               ELSE pointerLife[f][a]
      BY <1>3 DEF RefreshListed
    <3>2. members[p][f] = a <=> pointer[f][a] = p
      BY DEF IInv, Agree
    <3>3. CASE pointer[f][a] = p
      BY <3>1, <3>2, <3>3, <1>1, <1>3, NoneAssumption DEF IInv, TypeOK, Synced, Extend
    <3>4. CASE pointer[f][a] # p
      BY <3>1, <3>2, <3>4, <1>3 DEF IInv, TypeOK, Synced
    <3> QED BY <3>3, <3>4
  <2> QED BY <2>1, <2>2, <2>3, <2>4 DEF Synced
<1> QED BY <1>4, <1>5, <1>6 DEF IInv

(* PutByAlias, pointwise.  With Agree, the pointer that is replaced is the *)
(* one that led to p, and the robbed hash is the one that listed (f, a).   *)
LEMMA PutByAliasFacts ==
  ASSUME IInv, NEW p \in Primary, NEW f \in Field, NEW a \in AliasValue,
         NEW v \in Value, NEW d \in Ttl, PutByAlias(p, f, a, v, d)
  PROVE  /\ \A q \in Primary : members'[q] \in [Field -> AliasValue \cup {None}]
         /\ \A q \in Primary, g \in Field :
               members'[q][g] = IF g # f THEN members[q][g]
                                ELSE IF q = p THEN a
                                ELSE IF members[q][f] = a THEN None ELSE members[q][g]
         /\ \A g \in Field, b \in AliasValue :
               pointer'[g][b] = IF g # f THEN pointer[g][b]
                                ELSE IF b = a THEN p
                                ELSE IF pointer[f][b] = p THEN None ELSE pointer[g][b]
         /\ \A q \in Primary :
               membersLife'[q] = IF q = p THEN ScriptLife(d)
                                 ELSE IF \A g \in Field : members'[q][g] = None THEN Gone
                                 ELSE membersLife[q]
         /\ \A g \in Field, b \in AliasValue :
               pointerLife'[g][b] = IF members'[p][g] = b
                                    THEN ScriptLife(d)
                                    ELSE IF g = f /\ members[p][f] = b THEN Gone
                                    ELSE pointerLife[g][b]
<1> USE NoneAssumption
<1>1. members' = PutMembers(p, f, a) /\ pointer' = PutPointers(p, f, a)
  BY DEF PutByAlias
<1>2. \A q \in Primary, b \in AliasValue : members[q][f] = b <=> pointer[f][b] = q
  BY DEF IInv, Agree
<1>3. \A q \in Primary : members[q] \in [Field -> AliasValue \cup {None}]
  BY DEF IInv, TypeOK
<1>4. pointer[f] \in [AliasValue -> Primary \cup {None}]
  BY DEF IInv, TypeOK
<1>5. \A q \in Primary : members'[q] \in [Field -> AliasValue \cup {None}]
  BY <1>1, <1>3 DEF PutMembers
<1>6. \A q \in Primary, g \in Field :
         members'[q][g] = IF g # f THEN members[q][g]
                          ELSE IF q = p THEN a
                          ELSE IF members[q][f] = a THEN None ELSE members[q][g]
  BY <1>1, <1>2, <1>3 DEF PutMembers, Robbed
<1>7. \A g \in Field, b \in AliasValue :
         pointer'[g][b] = IF g # f THEN pointer[g][b]
                          ELSE IF b = a THEN p
                          ELSE IF pointer[f][b] = p THEN None ELSE pointer[g][b]
  BY <1>1, <1>2, <1>4 DEF PutPointers, Replaced, IInv, TypeOK
<1>8. \A q \in Primary :
         membersLife'[q] = IF q = p THEN ScriptLife(d)
                           ELSE IF \A g \in Field : members'[q][g] = None THEN Gone
                           ELSE membersLife[q]
  BY <1>1 DEF PutByAlias, PutMembersLife
<1>9. \A g \in Field, b \in AliasValue :
         pointerLife'[g][b] = IF members'[p][g] = b
                              THEN ScriptLife(d)
                              ELSE IF g = f /\ members[p][f] = b THEN Gone
                              ELSE pointerLife[g][b]
  <2> TAKE g \in Field, b \in AliasValue
  <2> DEFINE n    == ScriptLife(d)
             set  == SetPointerLife(p, f, a, n)
  <2>1. n # Gone BY ScriptLifeType
  <2>2. pointerLife'[g][b] = IF members'[p][g] = b THEN Extend(set[g][b], n) ELSE set[g][b]
    BY <1>1 DEF PutByAlias, RefreshListed
  <2>3. set[g][b] = IF g # f THEN pointerLife[g][b]
                    ELSE IF b = a THEN n
                    ELSE IF b = members[p][f] THEN Gone ELSE pointerLife[g][b]
    BY DEF SetPointerLife, Replaced, IInv, TypeOK
  <2>4. members[p][g] = b => pointerLife[g][b] # Gone
    <3> SUFFICES ASSUME members[p][g] = b PROVE pointerLife[g][b] # Gone
      OBVIOUS
    <3>1. pointer[g][b] = p BY DEF IInv, Agree
    <3>2. valueLife[p] # Gone BY DEF IInv, Synced
    <3> QED BY <3>1, <3>2 DEF IInv, Synced
  <2> HIDE DEF n, set
  <2>5. CASE g # f
    BY <2>2, <2>3, <2>4, <2>5, <1>6 DEF Extend, n
  <2>6. CASE g = f
    BY <2>1, <2>2, <2>3, <2>6, <1>6 DEF Extend, n
  <2> QED BY <2>5, <2>6
<1> QED BY <1>5, <1>6, <1>7, <1>8, <1>9

LEMMA PutByAliasInv ==
  ASSUME IInv, NEW p \in Primary, NEW f \in Field, NEW a \in AliasValue,
         NEW v \in Value, NEW d \in Ttl, PutByAlias(p, f, a, v, d)
  PROVE  IInv'
<1> USE NoneAssumption
<1> DEFINE n == ScriptLife(d)
<1>n. n \in Life /\ n # Gone BY ScriptLifeType
<1>v. value' = [value EXCEPT ![p] = v] /\ valueLife' = [valueLife EXCEPT ![p] = n]
  BY DEF PutByAlias, SetValue
<1>m. \A q \in Primary, g \in Field :
         members'[q][g] = IF g # f THEN members[q][g]
                          ELSE IF q = p THEN a
                          ELSE IF members[q][f] = a THEN None ELSE members[q][g]
  BY PutByAliasFacts
<1>r. \A g \in Field, b \in AliasValue :
         pointer'[g][b] = IF g # f THEN pointer[g][b]
                          ELSE IF b = a THEN p
                          ELSE IF pointer[f][b] = p THEN None ELSE pointer[g][b]
  BY PutByAliasFacts
<1>l. \A q \in Primary :
         membersLife'[q] = IF q = p THEN n
                           ELSE IF \A g \in Field : members'[q][g] = None THEN Gone
                           ELSE membersLife[q]
  BY PutByAliasFacts
<1>s. \A g \in Field, b \in AliasValue :
         pointerLife'[g][b] = IF members'[p][g] = b THEN n
                              ELSE IF g = f /\ members[p][f] = b THEN Gone
                              ELSE pointerLife[g][b]
  BY PutByAliasFacts
<1>t. \A q \in Primary : members'[q] \in [Field -> AliasValue \cup {None}]
  BY PutByAliasFacts
<1> HIDE DEF n
<1>1. TypeOK'
  <2>1. value' \in [Primary -> Value \cup {None}] /\ valueLife' \in [Primary -> Life]
    BY <1>n, <1>v DEF IInv, TypeOK
  <2>2. members' \in [Primary -> [Field -> AliasValue \cup {None}]]
    BY <1>t DEF PutByAlias, PutMembers
  <2>3. membersLife' \in [Primary -> Life]
    <3>1. membersLife' = [q \in Primary |-> membersLife'[q]]
      BY DEF PutByAlias, PutMembersLife
    <3>2. \A q \in Primary : membersLife'[q] \in Life
      BY <1>n, <1>l DEF IInv, TypeOK, Life, Gone, Forever
    <3> QED BY <3>1, <3>2
  <2>4. pointer' \in [Field -> [AliasValue -> Primary \cup {None}]]
    BY DEF PutByAlias, PutPointers, IInv, TypeOK
  <2>5. pointerLife' \in [Field -> [AliasValue -> Life]]
    <3>1. pointerLife' = [g \in Field |-> [b \in AliasValue |-> pointerLife'[g][b]]]
      BY DEF PutByAlias, RefreshListed
    <3>2. \A g \in Field, b \in AliasValue : pointerLife'[g][b] \in Life
      BY <1>n, <1>s DEF IInv, TypeOK, Life, Gone, Forever
    <3> QED BY <3>1, <3>2
  <2> QED BY <2>1, <2>2, <2>3, <2>4, <2>5 DEF TypeOK
<1>2. Agree'
  BY <1>m, <1>r DEF IInv, TypeOK, Agree
<1>3. Synced'
  <2>1. \A q \in Primary : value'[q] = None <=> valueLife'[q] = Gone
    BY <1>n, <1>v DEF IInv, TypeOK, Synced
  <2>2. \A q \in Primary : (\E g \in Field : members'[q][g] # None) => value'[q] # None
    <3> TAKE q \in Primary
    <3>1. CASE q = p
      BY <3>1, <1>v DEF IInv, TypeOK
    <3>2. CASE q # p
      <4>1. (\E g \in Field : members'[q][g] # None) => \E g \in Field : members[q][g] # None
        BY <1>m, <3>2
      <4>2. value'[q] = value[q]
        BY <3>2, <1>v DEF IInv, TypeOK
      <4> QED BY <4>1, <4>2 DEF IInv, Synced
    <3> QED BY <3>1, <3>2
  <2>3. \A q \in Primary :
           membersLife'[q] = IF \A g \in Field : members'[q][g] = None
                             THEN Gone ELSE valueLife'[q]
    <3> TAKE q \in Primary
    <3>1. CASE q = p
      <4>1. members'[p][f] # None BY <1>m
      <4> QED BY <3>1, <4>1, <1>v, <1>l DEF IInv, TypeOK
    <3>2. CASE q # p
      <4>1. (\E g \in Field : members'[q][g] # None) => \E g \in Field : members[q][g] # None
        BY <1>m, <3>2
      <4> QED BY <3>2, <4>1, <1>v, <1>l DEF IInv, TypeOK, Synced
    <3> QED BY <3>1, <3>2
  <2>4. \A g \in Field, b \in AliasValue :
           pointerLife'[g][b] = IF pointer'[g][b] = None
                                THEN Gone ELSE valueLife'[pointer'[g][b]]
    <3> TAKE g \in Field, b \in AliasValue
    <3>1. members'[p][g] = b <=> pointer'[g][b] = p
      BY <1>2 DEF Agree
    <3>2. CASE pointer'[g][b] = p
      BY <3>1, <3>2, <1>s, <1>v DEF IInv, TypeOK
    <3>3. CASE pointer'[g][b] = None
      <4>1. pointer[g][b] = None \/ (g = f /\ pointer[f][b] = p)
        BY <3>3, <1>r
      <4>2. members[p][f] = b <=> pointer[f][b] = p
        BY DEF IInv, Agree
      <4>3. members'[p][g] # b
        BY <3>1, <3>3
      <4> QED BY <3>3, <4>1, <4>2, <4>3, <1>s DEF IInv, Synced
    <3>4. CASE pointer'[g][b] # p /\ pointer'[g][b] # None
      <4>1. pointer'[g][b] = pointer[g][b]
        BY <3>4, <1>r
      <4>2. members[p][g] # b
        BY <3>4, <4>1 DEF IInv, Agree
      <4> QED BY <3>1, <3>4, <4>1, <4>2, <1>s, <1>v DEF IInv, TypeOK, Synced
    <3> QED BY <3>2, <3>3, <3>4
  <2> QED BY <2>1, <2>2, <2>3, <2>4 DEF Synced
<1> QED BY <1>1, <1>2, <1>3 DEF IInv

(* An eviction finds every pointer to p through the hash, by Agree. *)
LEMMA CascadeFacts ==
  ASSUME IInv, NEW p \in Primary, Cascade(p)
  PROVE  /\ value' = [value EXCEPT ![p] = None]
         /\ valueLife' = [valueLife EXCEPT ![p] = Gone]
         /\ members' = [members EXCEPT ![p] = [f \in Field |-> None]]
         /\ membersLife' = [membersLife EXCEPT ![p] = Gone]
         /\ pointer' = [f \in Field |-> [a \in AliasValue |->
                           IF pointer[f][a] = p THEN None ELSE pointer[f][a]]]
         /\ pointerLife' = [f \in Field |-> [a \in AliasValue |->
                               IF pointer[f][a] = p THEN Gone ELSE pointerLife[f][a]]]
<1>1. \A f \in Field, a \in AliasValue : members[p][f] = a <=> pointer[f][a] = p
  BY DEF IInv, Agree
<1> QED BY <1>1 DEF Cascade, Without

LEMMA CascadeInv ==
  ASSUME IInv, NEW p \in Primary, Cascade(p)
  PROVE  IInv'
<1> USE NoneAssumption
<1>c. /\ value' = [value EXCEPT ![p] = None]
      /\ valueLife' = [valueLife EXCEPT ![p] = Gone]
      /\ members' = [members EXCEPT ![p] = [f \in Field |-> None]]
      /\ membersLife' = [membersLife EXCEPT ![p] = Gone]
      /\ pointer' = [f \in Field |-> [a \in AliasValue |->
                        IF pointer[f][a] = p THEN None ELSE pointer[f][a]]]
      /\ pointerLife' = [f \in Field |-> [a \in AliasValue |->
                            IF pointer[f][a] = p THEN Gone ELSE pointerLife[f][a]]]
  BY CascadeFacts
<1>1. TypeOK'
  BY <1>c DEF IInv, TypeOK, Life, Gone, Forever
<1>2. Agree'
  <2> SUFFICES ASSUME NEW q \in Primary, NEW f \in Field, NEW a \in AliasValue
               PROVE  members'[q][f] = a <=> pointer'[f][a] = q
    BY DEF Agree
  <2>1. members[q][f] = a <=> pointer[f][a] = q
    BY DEF IInv, Agree
  <2>2. members'[q][f] = IF q = p THEN None ELSE members[q][f]
    BY <1>c DEF IInv, TypeOK
  <2> QED BY <2>1, <2>2, <1>c
<1>3. Synced'
  <2>1. \A q \in Primary :
           /\ value'[q] = None <=> valueLife'[q] = Gone
           /\ (\E f \in Field : members'[q][f] # None) => value'[q] # None
           /\ membersLife'[q] = IF \A f \in Field : members'[q][f] = None
                                THEN Gone ELSE valueLife'[q]
    <3> TAKE q \in Primary
    <3>1. CASE q = p
      BY <1>c, <3>1 DEF IInv, TypeOK, Synced
    <3>2. CASE q # p
      BY <1>c, <3>2 DEF IInv, TypeOK, Synced
    <3> QED BY <3>1, <3>2
  <2>2. \A f \in Field, a \in AliasValue :
           pointerLife'[f][a] = IF pointer'[f][a] = None
                                THEN Gone ELSE valueLife'[pointer'[f][a]]
    BY <1>c DEF IInv, TypeOK, Synced
  <2> QED BY <2>1, <2>2 DEF Synced
<1> QED BY <1>1, <1>2, <1>3 DEF IInv

(* A tick drops a value together with its hash and its pointers. *)
LEMMA TickFacts ==
  ASSUME IInv, Tick
  PROVE  /\ \A p \in Primary, f \in Field :
               members'[p][f] = IF Older(valueLife[p]) = Gone THEN None ELSE members[p][f]
         /\ \A f \in Field, a \in AliasValue :
               pointer'[f][a] = IF pointer[f][a] = None THEN None
                                ELSE IF Older(valueLife[pointer[f][a]]) = Gone THEN None
                                ELSE pointer[f][a]
<1> USE NoneAssumption
<1>1. \A p \in Primary, f \in Field :
         members'[p][f] = IF Older(valueLife[p]) = Gone THEN None ELSE members[p][f]
  <2> TAKE p \in Primary, f \in Field
  <2>1. members'[p][f] = IF Older(membersLife[p]) = Gone THEN None ELSE members[p][f]
    BY DEF Tick, Kept
  <2>2. CASE \A g \in Field : members[p][g] = None
    BY <2>1, <2>2
  <2>3. CASE \E g \in Field : members[p][g] # None
    <3>1. membersLife[p] = valueLife[p] BY <2>3 DEF IInv, Synced
    <3> QED BY <2>1, <3>1
  <2> QED BY <2>2, <2>3
<1>2. \A f \in Field, a \in AliasValue :
         pointer'[f][a] = IF pointer[f][a] = None THEN None
                          ELSE IF Older(valueLife[pointer[f][a]]) = Gone THEN None
                          ELSE pointer[f][a]
  <2> TAKE f \in Field, a \in AliasValue
  <2>1. pointer'[f][a] = IF Older(pointerLife[f][a]) = Gone THEN None ELSE pointer[f][a]
    BY DEF Tick, Kept
  <2>2. pointer[f][a] # None => pointerLife[f][a] = valueLife[pointer[f][a]]
    BY DEF IInv, Synced
  <2> QED BY <2>1, <2>2
<1> QED BY <1>1, <1>2

LEMMA TickInv ==
  ASSUME IInv, Tick
  PROVE  IInv'
<1> USE NoneAssumption
<1>1. TypeOK'
  BY DEF IInv, TypeOK, Tick, Kept, Older, Life, Gone, Forever
<1>2. Agree'
  <2> SUFFICES ASSUME NEW p \in Primary, NEW f \in Field, NEW a \in AliasValue
               PROVE  members'[p][f] = a <=> pointer'[f][a] = p
    BY DEF Agree
  <2>1. members[p][f] = a <=> pointer[f][a] = p
    BY DEF IInv, Agree
  <2>2. pointer[f][a] \in Primary \cup {None}
    BY DEF IInv, TypeOK
  <2> QED BY <2>1, <2>2, TickFacts
<1>3. Synced'
  <2>1. \A p \in Primary : value'[p] = None <=> valueLife'[p] = Gone
    <3> TAKE p \in Primary
    <3>1. value'[p] = IF Older(valueLife[p]) = Gone THEN None ELSE value[p]
      BY DEF Tick, Kept
    <3>2. valueLife'[p] = Older(valueLife[p])
      BY DEF Tick
    <3>3. valueLife[p] = Gone => Older(valueLife[p]) = Gone
      BY DEF Older, Gone
    <3> QED BY <3>1, <3>2, <3>3 DEF IInv, Synced
  <2>2. \A p \in Primary :
           /\ (\E f \in Field : members'[p][f] # None) => value'[p] # None
           /\ membersLife'[p] = IF \A f \in Field : members'[p][f] = None
                                THEN Gone ELSE valueLife'[p]
    <3> TAKE p \in Primary
    <3>1. /\ membersLife'[p] = Older(membersLife[p])
          /\ valueLife'[p] = Older(valueLife[p])
      BY DEF Tick
    <3>2. Older(Gone) = Gone BY DEF Older, Gone
    <3>3. CASE \A f \in Field : members[p][f] = None
      BY <3>1, <3>2, <3>3, TickFacts DEF IInv, Synced
    <3>4. CASE \E f \in Field : members[p][f] # None
      <4>1. membersLife[p] = valueLife[p] BY <3>4 DEF IInv, Synced
      <4>2. CASE Older(valueLife[p]) = Gone
        BY <3>1, <4>1, <4>2, TickFacts
      <4>3. CASE Older(valueLife[p]) # Gone
        <5>1. \A f \in Field : members'[p][f] = members[p][f] BY <4>3, TickFacts
        <5> QED BY <3>1, <3>4, <4>1, <4>3, <5>1, <2>1
      <4> QED BY <4>2, <4>3
    <3> QED BY <3>3, <3>4
  <2>3. \A f \in Field, a \in AliasValue :
           pointerLife'[f][a] = IF pointer'[f][a] = None
                                THEN Gone ELSE valueLife'[pointer'[f][a]]
    <3> TAKE f \in Field, a \in AliasValue
    <3>1. pointerLife'[f][a] = Older(pointerLife[f][a])
      BY DEF Tick
    <3>2. Older(Gone) = Gone BY DEF Older, Gone
    <3>3. CASE pointer[f][a] = None
      BY <3>1, <3>2, <3>3, TickFacts DEF IInv, Synced
    <3>4. CASE pointer[f][a] # None
      <4>1. pointer[f][a] \in Primary BY <3>4 DEF IInv, TypeOK
      <4>2. pointerLife[f][a] = valueLife[pointer[f][a]] BY <3>4 DEF IInv, Synced
      <4>3. valueLife'[pointer[f][a]] = Older(valueLife[pointer[f][a]])
        BY <4>1 DEF Tick
      <4> QED BY <3>1, <3>4, <4>1, <4>2, <4>3, TickFacts
    <3> QED BY <3>3, <3>4
  <2> QED BY <2>1, <2>2, <2>3 DEF Synced
<1> QED BY <1>1, <1>2, <1>3 DEF IInv

LEMMA Inductive == IInv /\ [Next]_vars => IInv'
<1> SUFFICES ASSUME IInv, [Next]_vars PROVE IInv'
  OBVIOUS
<1>1. ASSUME NEW p \in Primary, NEW v \in Value, NEW d \in Ttl, PutValue(p, v, d)
      PROVE  IInv'
  BY <1>1, PutValueInv
<1>2. ASSUME NEW p \in Primary, NEW f \in Field, NEW a \in AliasValue, NEW v \in Value,
             NEW d \in Ttl, PutByAlias(p, f, a, v, d)
      PROVE  IInv'
  BY <1>2, PutByAliasInv
<1>3. ASSUME NEW p \in Primary, EvictByPrimary(p) PROVE IInv'
  BY <1>3, CascadeInv DEF EvictByPrimary
<1>4. ASSUME NEW f \in Field, NEW a \in AliasValue, EvictByAlias(f, a) PROVE IInv'
  <2>1. pointer[f][a] \in Primary BY <1>4 DEF EvictByAlias, IInv, TypeOK
  <2> QED BY <1>4, <2>1, CascadeInv DEF EvictByAlias
<1>5. CASE Tick
  BY <1>5, TickInv
<1>6. CASE UNCHANGED vars
  BY <1>6 DEF vars, IInv, TypeOK, Agree, Synced
<1> QED BY <1>1, <1>2, <1>3, <1>4, <1>5, <1>6 DEF Next

LEMMA Invariance == Spec => []IInv
  BY InitInv, Inductive, PTL DEF Spec

(* The state keeps its types: lifetimes are lifetimes, pointers primaries. *)
THEOREM TypeCorrect == Spec => []TypeOK
<1>1. IInv => TypeOK BY DEF IInv
<1> QED BY <1>1, Invariance, PTL

(* Hash and pointers name each other in every reachable state, whatever is *)
(* replaced, taken over, evicted or expires.                               *)
THEOREM AlwaysAgree == Spec => []Agree
<1>1. IInv => Agree BY DEF IInv
<1> QED BY <1>1, Invariance, PTL

(* The keys of a group have one lifetime in every reachable state. *)
THEOREM AlwaysSynced == Spec => []Synced
<1>1. IInv => Synced BY DEF IInv
<1> QED BY <1>1, Invariance, PTL

(* The TTL backstop: if every duration is at least a millisecond, no key   *)
(* of any group is ever cached without expiry.                             *)
THEOREM Backstop ==
  ASSUME \A d \in Ttl : Milliseconds(d) > 0
  PROVE  Spec => []NeverForever
<1> DEFINE Expires == \A p \in Primary : valueLife[p] # Forever
<1>1. Init => Expires
  BY GoneIsNotForever DEF Init
<1>2. IInv /\ Expires /\ [Next]_vars => Expires'
  <2> SUFFICES ASSUME IInv, Expires, [Next]_vars PROVE Expires'
    OBVIOUS
  <2>1. ASSUME NEW p \in Primary, NEW v \in Value, NEW d \in Ttl, SetValue(p, v, ScriptLife(d))
        PROVE  Expires'
    <3>1. Milliseconds(d) \in Int
      BY TtlAssumption, PerMsAssumption DEF Milliseconds
    <3>2. ScriptLife(d) # Forever
      BY <3>1 DEF ScriptLife, Forever
    <3> QED BY <2>1, <3>2 DEF SetValue, IInv, TypeOK
  <2>2. ASSUME NEW p \in Primary, Cascade(p) PROVE Expires'
    BY <2>2, GoneIsNotForever DEF Cascade, IInv, TypeOK
  <2>3. CASE Tick
    <3> SUFFICES ASSUME NEW p \in Primary PROVE valueLife'[p] # Forever
      OBVIOUS
    <3>1. valueLife[p] \in Life /\ valueLife[p] # Forever BY DEF IInv, TypeOK
    <3>2. valueLife'[p] = Older(valueLife[p]) BY <2>3 DEF Tick
    <3> QED BY <3>1, <3>2 DEF Older, Forever, Life
  <2>4. CASE UNCHANGED vars
    BY <2>4 DEF vars
  <2>5. ASSUME NEW f \in Field, NEW a \in AliasValue, EvictByAlias(f, a) PROVE Expires'
    <3>1. pointer[f][a] \in Primary BY <2>5 DEF EvictByAlias, IInv, TypeOK
    <3> QED BY <2>2, <2>5, <3>1 DEF EvictByAlias
  <2>6. ASSUME NEW p \in Primary, NEW v \in Value, NEW d \in Ttl, PutValue(p, v, d)
        PROVE  Expires'
    BY <2>1, <2>6 DEF PutValue
  <2>7. ASSUME NEW p \in Primary, NEW f \in Field, NEW a \in AliasValue, NEW v \in Value,
               NEW d \in Ttl, PutByAlias(p, f, a, v, d)
        PROVE  Expires'
    BY <2>1, <2>7 DEF PutByAlias
  <2>8. ASSUME NEW p \in Primary, EvictByPrimary(p) PROVE Expires'
    BY <2>2, <2>8 DEF EvictByPrimary
  <2> QED BY <2>3, <2>4, <2>5, <2>6, <2>7, <2>8 DEF Next
<1>3. IInv /\ Expires => NeverForever
  <2> SUFFICES ASSUME IInv, Expires PROVE NeverForever
    OBVIOUS
  <2>1. \A p \in Primary : valueLife[p] # Forever /\ membersLife[p] # Forever
    BY GoneIsNotForever DEF IInv, Synced
  <2>2. ASSUME NEW f \in Field, NEW a \in AliasValue PROVE pointerLife[f][a] # Forever
    <3>1. pointer[f][a] \in Primary \cup {None} BY DEF IInv, TypeOK
    <3> QED BY <3>1, GoneIsNotForever DEF IInv, Synced
  <2> QED BY <2>1, <2>2 DEF NeverForever
<1> QED BY <1>1, <1>2, <1>3, Invariance, PTL DEF Spec
-------------------------------------------------------------------------------
(* Every step of the scripts is a step of the abstract group.              *)

LEMMA PutByAliasSimulates ==
  ASSUME IInv, NEW p \in Primary, NEW f \in Field, NEW a \in AliasValue,
         NEW v \in Value, NEW d \in Ttl, PutByAlias(p, f, a, v, d)
  PROVE  Group!PutByAlias(p, f, a, v)
<1>1. value' = [value EXCEPT ![p] = v]
  BY DEF PutByAlias, SetValue
<1>2. pointer' = [pointer EXCEPT ![f] = [b \in AliasValue |->
                    IF b = a THEN p ELSE IF b \in Replaced(p, f, a) THEN None ELSE pointer[f][b]]]
  BY DEF PutByAlias, PutPointers
<1>3. \A b \in AliasValue : b # a => (b \in Replaced(p, f, a) <=> pointer[f][b] = p)
  BY NoneAssumption DEF Replaced, IInv, Agree
<1>4. [b \in AliasValue |->
         IF b = a THEN p ELSE IF b \in Replaced(p, f, a) THEN None ELSE pointer[f][b]]
      = [b \in AliasValue |->
         IF b = a THEN p ELSE IF pointer[f][b] = p THEN None ELSE pointer[f][b]]
  BY <1>3
<1> QED BY <1>1, <1>2, <1>4 DEF Group!PutByAlias

LEMMA CascadeSimulates ==
  ASSUME IInv, NEW p \in Primary, Cascade(p)
  PROVE  Group!Invalidate({p})
<1>1. value' = [q \in Primary |-> IF q \in {p} THEN None ELSE value[q]]
  BY CascadeFacts DEF IInv, TypeOK
<1>2. pointer' = [f \in Field |-> [a \in AliasValue |->
                    IF pointer[f][a] \in {p} THEN None ELSE pointer[f][a]]]
  BY CascadeFacts
<1> QED BY <1>1, <1>2 DEF Group!Invalidate

LEMMA TickSimulates ==
  ASSUME IInv, Tick
  PROVE  \E S \in SUBSET Primary : Group!Expire(S)
<1> DEFINE S == {p \in Primary : Older(valueLife[p]) = Gone}
<1>1. value' = [p \in Primary |-> IF p \in S THEN None ELSE value[p]]
  BY DEF Tick, Kept
<1>2. pointer' = [f \in Field |-> [a \in AliasValue |->
                    IF pointer[f][a] \in S THEN None ELSE pointer[f][a]]]
  <2>1. pointer' = [f \in Field |-> [a \in AliasValue |->
                      Kept(pointer[f][a], pointerLife[f][a], None)]]
    BY DEF Tick
  <2>2. \A f \in Field, a \in AliasValue :
           Kept(pointer[f][a], pointerLife[f][a], None)
           = IF pointer[f][a] \in S THEN None ELSE pointer[f][a]
    <3> TAKE f \in Field, a \in AliasValue
    <3>1. pointer[f][a] \in Primary \cup {None} BY DEF IInv, TypeOK
    <3>2. pointer[f][a] # None => pointerLife[f][a] = valueLife[pointer[f][a]]
      BY DEF IInv, Synced
    <3> QED BY <3>1, <3>2, NoneAssumption DEF Kept
  <2> QED BY <2>1, <2>2
<1> HIDE DEF S
<1>3. Group!Expire(S) BY <1>1, <1>2 DEF Group!Expire, Group!Invalidate
<1>4. S \in SUBSET Primary BY DEF S
<1> QED BY <1>3, <1>4

(* The scripts implement the alias group that AliasOps promises: whatever  *)
(* interleaving of calls and expiry, a client that sees values and         *)
(* pointers cannot tell the backend from AliasGroup.                       *)
THEOREM Implements == Spec => GroupSpec
<1>1. Init => Group!Init
  BY DEF Init, Group!Init
<1>2. IInv /\ [Next]_vars => [Group!Next]_(Group!vars)
  <2> SUFFICES ASSUME IInv, [Next]_vars PROVE Group!Next \/ UNCHANGED Group!vars
    OBVIOUS
  <2>1. ASSUME NEW p \in Primary, NEW v \in Value, NEW d \in Ttl, PutValue(p, v, d)
        PROVE  Group!Next
    <3>1. Group!PutValue(p, v) BY <2>1 DEF PutValue, SetValue, Group!PutValue
    <3> QED BY <3>1 DEF Group!Next
  <2>2. ASSUME NEW p \in Primary, NEW f \in Field, NEW a \in AliasValue, NEW v \in Value,
               NEW d \in Ttl, PutByAlias(p, f, a, v, d)
        PROVE  Group!Next
    <3>1. Group!PutByAlias(p, f, a, v) BY <2>2, PutByAliasSimulates
    <3> QED BY <3>1 DEF Group!Next
  <2>3. ASSUME NEW p \in Primary, EvictByPrimary(p) PROVE Group!Next
    <3>1. Group!EvictByPrimary(p)
      BY <2>3, CascadeSimulates DEF EvictByPrimary, Group!EvictByPrimary
    <3> QED BY <3>1 DEF Group!Next
  <2>4. ASSUME NEW f \in Field, NEW a \in AliasValue, EvictByAlias(f, a) PROVE Group!Next
    <3>1. pointer[f][a] \in Primary BY <2>4 DEF EvictByAlias, IInv, TypeOK
    <3>2. Group!EvictByAlias(f, a)
      BY <2>4, <3>1, CascadeSimulates DEF EvictByAlias, Group!EvictByAlias
    <3> QED BY <3>2 DEF Group!Next
  <2>5. CASE Tick
    BY <2>5, TickSimulates DEF Group!Next
  <2>6. CASE UNCHANGED vars
    BY <2>6 DEF vars, Group!vars
  <2> QED BY <2>1, <2>2, <2>3, <2>4, <2>5, <2>6 DEF Next
<1> QED BY <1>1, <1>2, Invariance, PTL DEF Spec, GroupSpec, Group!Spec
===============================================================================
