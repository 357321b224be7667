---------------------------- MODULE ManagerProofs ----------------------------
(***************************************************************************)
(* Theorems about the manager, for any callers, names, options, defaults   *)
(* and range of durations.  Names: under the mutex, a caller who has found *)
(* its name free (Fresh) is the only one inside (Alone) until it enters    *)
(* it.  What every cache has been through, Register's checks, is Checked;  *)
(* the rest is arithmetic (the jitter) and facts about sequences (the      *)
(* names of keys) that hold of any such cache.                             *)
(*                                                                         *)
(* The argument about names: a key is cut into a head, which the family    *)
(* and the cache decide, a part that the caller chooses, and an ending     *)
(* (KeysCut).  A sweep compares heads and the beginning of the middle      *)
(* (MatchExact).  Heads begin with a root, the name up to its delimiter,   *)
(* and a name without delimiters ends at the first of them (SameRoot); the *)
(* first braces of a key are those of its root (TagOfRoot).                *)
(***************************************************************************)
EXTENDS Manager, SequenceTheorems, FiniteSetTheorems, WellFoundedInduction, TLAPS

Checked ==
    \A p \in Caller : at[p] \in {"measured", "bind", "has"} => ValidTtl(cache[p])

Alone == \A p, q \in Caller : at[p] \in Inside /\ at[q] \in Inside => p = q

Fresh == \A p \in Caller : at[p] \in {"resolved", "measured"} => name[p] \notin registry

Entered == \A n \in Name : n \in registry <=> \E p \in Caller : Registered(p) /\ name[p] = n

IInv == TypeOK /\ Checked /\ Alone /\ Fresh /\ Entered /\ NameOnce

LEMMA ResolvedType ==
  ASSUME NEW n \in Name, NEW o \in Options
  PROVE  Resolved(n, o) \in Configuration
<1>1. /\ n \in String
      /\ o.group \in BOOLEAN
      /\ o.mode \in {"colocated", "sharded", None}
      /\ o.prefix \in String \cup {None}
      /\ o.ttl \in Duration \cup {None}
      /\ o.infinite \in BOOLEAN \cup {None}
      /\ o.jitter \in Fraction \cup {None}
      /\ o.negativeTtl \in Duration \cup {None}
      /\ o.disableSingleflight \in BOOLEAN \cup {None}
  BY TextAssumption, OptionsAssumption
<1>2. /\ Defaults.ttl \in Duration /\ Defaults.jitter \in Fraction
      /\ Defaults.negativeTtl \in Duration /\ Defaults.disableSingleflight \in BOOLEAN
  BY DefaultsAssumption
<1>3. KindOf(o) \in Kind
  BY <1>1 DEF KindOf, Given, Kind
<1>4. Given(o.prefix, n) \in String
  BY <1>1 DEF Given
<1>5. /\ Given(o.ttl, Defaults.ttl) \in Duration
      /\ Given(o.negativeTtl, Defaults.negativeTtl) \in Duration
      /\ Given(o.jitter, Defaults.jitter) \in Fraction
  BY <1>1, <1>2 DEF Given
<1>6. Given(o.infinite, FALSE) \in BOOLEAN
  BY <1>1 DEF Given
<1> QED BY <1>3, <1>4, <1>5, <1>6 DEF Resolved, Configuration

LEMMA InitInv == Init => IInv
  BY DEF Init, IInv, TypeOK, Checked, Alone, Fresh, Entered, NameOnce, Registered, Inside

Points == {"idle", "bind", "has"} \cup Inside

(* One caller goes on to another place of its call. *)
LEMMA GoesType ==
  ASSUME TypeOK, NEW p \in Caller, NEW from, NEW to \in Points, Goes(p, from, to)
  PROVE  /\ at[p] = from /\ at'[p] = to
         /\ at' \in [Caller -> Points]
         /\ \A q \in Caller \ {p} : at'[q] = at[q]
  BY DEF TypeOK, Goes, Points

LEMMA PointsAre == Points = {"idle", "bind", "has", "locked", "resolved", "measured"}
  BY DEF Points, Inside

(* A call ends with an error.  The caller was not registered, so what is   *)
(* taken stays so.                                                         *)
LEMMA FailsInv ==
  ASSUME IInv, NEW p \in Caller, NEW from \in Inside, Fails(p, from)
  PROVE  IInv'
<1>1. /\ at[p] = from /\ at'[p] = "idle"
      /\ at' \in [Caller -> Points]
      /\ \A q \in Caller \ {p} : at'[q] = at[q]
  BY GoesType, PointsAre DEF Fails, IInv
<1>2. /\ name' = [name EXCEPT ![p] = None] /\ cache' = [cache EXCEPT ![p] = None]
      /\ registry' = registry
  BY DEF Fails
<1>3. /\ name' \in [Caller -> Name \cup {None}]
      /\ name'[p] = None /\ \A q \in Caller \ {p} : name'[q] = name[q]
  BY <1>2 DEF IInv, TypeOK
<1>4. /\ cache' \in [Caller -> Configuration \cup {None}]
      /\ cache'[p] = None /\ \A q \in Caller \ {p} : cache'[q] = cache[q]
  BY <1>2 DEF IInv, TypeOK
<1>5. TypeOK'
  BY <1>1, <1>2, <1>3, <1>4 DEF IInv, TypeOK, Points
<1>6. Checked'
  BY <1>1, <1>4 DEF IInv, Checked
<1>7. Alone'
  BY <1>1 DEF IInv, Alone, Inside
<1>8. Fresh'
  BY <1>1, <1>2, <1>3 DEF IInv, Fresh
<1>9. ~Registered(p) /\ ~Registered(p)' /\ \A q \in Caller \ {p} : Registered(q)' <=> Registered(q)
  BY <1>1 DEF Registered, Inside
<1>10. Entered'
  BY <1>2, <1>3, <1>9 DEF IInv, Entered
<1>11. NameOnce'
  BY <1>3, <1>9 DEF IInv, NameOnce
<1> QED BY <1>5, <1>6, <1>7, <1>8, <1>10, <1>11 DEF IInv

LEMMA LockInv ==
  ASSUME IInv, NEW p \in Caller, NEW n \in Name, Lock(p, n)
  PROVE  IInv'
<1>1. /\ at[p] = "idle" /\ at'[p] = "locked"
      /\ at' \in [Caller -> Points]
      /\ \A q \in Caller \ {p} : at'[q] = at[q]
  BY GoesType, PointsAre DEF Lock, IInv
<1>2. /\ MutexFree /\ name' = [name EXCEPT ![p] = n] /\ registry' = registry /\ cache' = cache
  BY DEF Lock
<1>3. /\ name' \in [Caller -> Name \cup {None}]
      /\ name'[p] = n /\ \A q \in Caller \ {p} : name'[q] = name[q]
  BY <1>2 DEF IInv, TypeOK
<1>4. n # None
  BY NoneAssumption
<1>5. TypeOK'
  BY <1>1, <1>2, <1>3, <1>4 DEF IInv, TypeOK, Points
<1>6. Checked'
  BY <1>1, <1>2 DEF IInv, Checked
<1>7. Alone'
  BY <1>1, <1>2 DEF MutexFree, Alone
<1>8. Fresh'
  BY <1>1, <1>2, <1>3 DEF IInv, Fresh
<1>9. ~Registered(p) /\ ~Registered(p)' /\ \A q \in Caller \ {p} : Registered(q)' <=> Registered(q)
  BY <1>1 DEF Registered
<1>10. Entered'
  BY <1>2, <1>3, <1>9 DEF IInv, Entered
<1>11. NameOnce'
  BY <1>3, <1>9 DEF IInv, NameOnce
<1> QED BY <1>5, <1>6, <1>7, <1>8, <1>10, <1>11 DEF IInv

LEMMA ResolveInv ==
  ASSUME IInv, NEW p \in Caller, NEW o \in Options, Resolve(p, o)
  PROVE  IInv'
<1>1. /\ at[p] = "locked" /\ at'[p] = "resolved"
      /\ at' \in [Caller -> Points]
      /\ \A q \in Caller \ {p} : at'[q] = at[q]
  BY GoesType, PointsAre DEF Resolve, IInv
<1>2. /\ name[p] \notin registry /\ cache' = [cache EXCEPT ![p] = Resolved(name[p], o)]
      /\ registry' = registry /\ name' = name
  BY DEF Resolve
<1>3. name[p] \in Name
  BY <1>1 DEF IInv, TypeOK
<1>4. Resolved(name[p], o) \in Configuration /\ Resolved(name[p], o) # None
  BY <1>3, ResolvedType, NoneAssumption
<1>5. /\ cache' \in [Caller -> Configuration \cup {None}]
      /\ cache'[p] # None /\ \A q \in Caller \ {p} : cache'[q] = cache[q]
  BY <1>2, <1>4 DEF IInv, TypeOK
<1>6. TypeOK'
  BY <1>1, <1>2, <1>5 DEF IInv, TypeOK, Points
<1>7. Checked'
  BY <1>1, <1>5 DEF IInv, Checked
<1>8. Alone'
  BY <1>1 DEF IInv, Alone, Inside
<1>9. Fresh'
  BY <1>1, <1>2 DEF IInv, Fresh
<1>10. \A q \in Caller : Registered(q)' <=> Registered(q)
  BY <1>1 DEF Registered
<1>11. Entered' /\ NameOnce'
  BY <1>2, <1>10 DEF IInv, Entered, NameOnce
<1> QED BY <1>6, <1>7, <1>8, <1>9, <1>11 DEF IInv

(* What passes the checks has a jitter in range, or NaN. *)
LEMMA ValidType ==
  ASSUME NEW c \in Configuration, Valid(c)
  PROVE  /\ c.prefix # <<>> /\ ValidTtl(c)
         /\ c.jitter = NaN \/ c.jitter \in 0 .. Parts - 1
<1>1. c.jitter \in Int \/ c.jitter = NaN
  BY DEF Configuration, Fraction
<1> QED BY <1>1, PartsAssumption DEF Valid, ValidJitter

LEMMA MeasureInv ==
  ASSUME IInv, NEW p \in Caller, Measure(p)
  PROVE  IInv'
<1>1. CASE Fails(p, "resolved")
  BY <1>1, FailsInv DEF Inside
<1>2. CASE Goes(p, "resolved", "measured") /\ UNCHANGED <<registry, name, cache>>
  <2>1. /\ at[p] = "resolved" /\ at'[p] = "measured"
        /\ at' \in [Caller -> Points]
        /\ \A q \in Caller \ {p} : at'[q] = at[q]
    BY <1>2, GoesType, PointsAre DEF IInv
  <2>2. cache[p] \in Configuration
    BY <2>1 DEF IInv, TypeOK
  <2>3. /\ cache[p].prefix # <<>> /\ ValidTtl(cache[p])
        /\ cache[p].jitter = NaN \/ cache[p].jitter \in 0 .. Parts - 1
    BY <2>2, ValidType DEF Measure
  <2>4. TypeOK'
    BY <1>2, <2>1, <2>3 DEF IInv, TypeOK, Points
  <2>5. Checked'
    BY <1>2, <2>1, <2>3 DEF IInv, Checked, ValidTtl
  <2>6. Alone'
    BY <2>1 DEF IInv, Alone, Inside
  <2>7. Fresh'
    BY <1>2, <2>1 DEF IInv, Fresh
  <2>8. \A q \in Caller : Registered(q)' <=> Registered(q)
    BY <2>1 DEF Registered
  <2>9. Entered' /\ NameOnce'
    BY <1>2, <2>8 DEF IInv, Entered, NameOnce
  <2> QED BY <2>4, <2>5, <2>6, <2>7, <2>9 DEF IInv
<1> QED BY <1>1, <1>2 DEF Measure

(* The name was found free, and nobody else could enter it since. *)
LEMMA EnterInv ==
  ASSUME IInv, NEW p \in Caller, Enter(p)
  PROVE  IInv'
<1>1. PICK to \in {"has", "bind"} : Goes(p, "measured", to)
  BY DEF Enter
<1>2. /\ at[p] = "measured" /\ at'[p] \in {"has", "bind"}
      /\ at' \in [Caller -> Points]
      /\ \A q \in Caller \ {p} : at'[q] = at[q]
  BY <1>1, GoesType, PointsAre DEF IInv
<1>3. registry' = registry \cup {name[p]} /\ name' = name /\ cache' = cache
  BY DEF Enter
<1>4. name[p] \in Name /\ name[p] \notin registry
  BY <1>2 DEF IInv, TypeOK, Fresh
<1>5. \A q \in Caller \ {p} : at[q] \notin Inside
  BY <1>2 DEF IInv, Alone, Inside
<1>6. TypeOK'
  BY <1>2, <1>3, <1>4 DEF IInv, TypeOK, Points
<1>7. Checked'
  BY <1>2, <1>3 DEF IInv, Checked, ValidTtl
<1>8. Alone' /\ Fresh'
  BY <1>2, <1>5 DEF Alone, Fresh, Inside
<1>9. ~Registered(p) /\ Registered(p)' /\ \A q \in Caller \ {p} : Registered(q)' <=> Registered(q)
  BY <1>2 DEF Registered
<1>10. Entered'
  BY <1>3, <1>4, <1>9 DEF IInv, Entered
<1>11. NameOnce'
  BY <1>3, <1>4, <1>9 DEF IInv, Entered, NameOnce
<1> QED BY <1>6, <1>7, <1>8, <1>10, <1>11 DEF IInv

LEMMA BindInv ==
  ASSUME IInv, NEW p \in Caller, Bind(p)
  PROVE  IInv'
<1>1. /\ at[p] = "bind" /\ at'[p] = "has"
      /\ at' \in [Caller -> Points]
      /\ \A q \in Caller \ {p} : at'[q] = at[q]
  BY GoesType, PointsAre DEF Bind, IInv
<1>2. registry' = registry /\ name' = name /\ cache' = cache
  BY DEF Bind
<1>3. TypeOK'
  BY <1>1, <1>2 DEF IInv, TypeOK, Points
<1>4. Checked'
  BY <1>1, <1>2 DEF IInv, Checked, ValidTtl
<1>5. Alone'
  BY <1>1 DEF IInv, Alone, Inside
<1>6. Fresh'
  BY <1>1, <1>2 DEF IInv, Fresh
<1>7. \A q \in Caller : Registered(q)' <=> Registered(q)
  BY <1>1 DEF Registered
<1>8. Entered' /\ NameOnce'
  BY <1>2, <1>7 DEF IInv, Entered, NameOnce
<1> QED BY <1>3, <1>4, <1>5, <1>6, <1>8 DEF IInv

LEMMA Inductive == IInv /\ [Next]_vars => IInv'
<1> SUFFICES ASSUME IInv, [Next]_vars PROVE IInv'
  OBVIOUS
<1>1. ASSUME NEW p \in Caller, CallerStep(p) PROVE IInv'
  <2>1. CASE \E n \in Name : Lock(p, n)
    BY <2>1, LockInv
  <2>2. CASE \E o \in Options : Resolve(p, o)
    BY <2>2, ResolveInv
  <2>3. CASE Duplicate(p) \/ Invalid(p)
    BY <2>3, FailsInv DEF Duplicate, Invalid, Inside
  <2>4. CASE Measure(p) \/ Enter(p) \/ Bind(p)
    BY <2>4, MeasureInv, EnterInv, BindInv
  <2> QED BY <1>1, <2>1, <2>2, <2>3, <2>4 DEF CallerStep
<1>2. CASE UNCHANGED vars
  <2>1. registry' = registry /\ at' = at /\ name' = name /\ cache' = cache
    BY <1>2 DEF vars
  <2>2. TypeOK'
    BY <2>1 DEF IInv, TypeOK
  <2>3. Checked'
    BY <2>1 DEF IInv, Checked, ValidTtl
  <2>4. Alone' /\ Fresh'
    BY <2>1 DEF IInv, Alone, Fresh
  <2>5. Entered' /\ NameOnce'
    BY <2>1 DEF IInv, Entered, NameOnce, Registered
  <2> QED BY <2>2, <2>3, <2>4, <2>5 DEF IInv
<1> QED BY <1>1, <1>2 DEF Next

LEMMA Invariance == Spec => []IInv
  BY InitInv, Inductive, PTL DEF Spec

(* Every cache has a prefix and a jitter that Register let through.        *)
THEOREM TypeCorrect == Spec => []TypeOK
<1>1. IInv => TypeOK BY DEF IInv
<1> QED BY <1>1, Invariance, PTL

(* A name is taken exactly when some caller has its cache or is about to: *)
(* no Register that fails consumes it, wherever it fails (manager.go:131,  *)
(* 146-234).                                                               *)
THEOREM NeverNameLost == Spec => []NoNameLost
<1>1. ASSUME IInv PROVE NoNameLost
  <2>1. ASSUME NEW n \in registry
        PROVE  n \in {name[p] : p \in {q \in Caller : Registered(q)}}
    BY <1>1 DEF IInv, TypeOK, Entered
  <2>2. ASSUME NEW p \in Caller, Registered(p) PROVE name[p] \in registry
    <3>1. name[p] \in Name
      BY <1>1, <2>2 DEF IInv, TypeOK, Registered
    <3> QED BY <1>1, <2>2, <3>1 DEF IInv, Entered
  <2> QED BY <2>1, <2>2 DEF NoNameLost
<1>2. IInv => NoNameLost
  BY <1>1
<1> QED BY <1>2, Invariance, PTL

(* However many callers register one name at once, one of them gets a      *)
(* cache (manager.go:144-148).                                             *)
THEOREM AlwaysNameOnce == Spec => []NameOnce
<1>1. IInv => NameOnce BY DEF IInv
<1> QED BY <1>1, Invariance, PTL
-------------------------------------------------------------------------------
(* Jitter. *)
LEMMA Scaling ==
  ASSUME NEW x \in Nat, NEW y \in Nat, NEW n \in Nat \ {0}, n * x <= n * y
  PROVE  x <= y
  OBVIOUS

(* What r Parts-ths of a fraction of base come to, rounded down. *)
LEMMA ShaveBound ==
  ASSUME NEW base \in Nat \ {0}, NEW fraction \in 1 .. Parts - 1, NEW r \in 0 .. Parts - 1,
         NEW d, d = (r * fraction * base) \div (Parts * Parts)
  PROVE  d \in Nat /\ Parts * d <= fraction * base
<1>1. Parts \in Nat \ {0} /\ Parts * Parts \in Nat \ {0}
  BY PartsAssumption
<1>2. fraction * base \in Nat /\ r * fraction * base = r * (fraction * base)
  OBVIOUS
<1>3. r * (fraction * base) <= Parts * (fraction * base)
  BY <1>1, <1>2
<1>4. r * (fraction * base) \in Nat
  BY <1>2
<1>5. PICK q \in Nat, m \in Nat \ {0} : q = r * (fraction * base) /\ m = Parts * Parts
  BY <1>1, <1>4
<1>6. d \in Nat /\ m * d <= q
  BY <1>2, <1>5
<1>7. m * d = Parts * (Parts * d)
  BY <1>1, <1>5, <1>6
<1>8. Parts * (Parts * d) <= Parts * (fraction * base)
  BY <1>1, <1>2, <1>3, <1>5, <1>6, <1>7
<1> QED BY <1>1, <1>2, <1>6, <1>8, Scaling

LEMMA WrappedWithin ==
  ASSUME NEW d \in 0 .. HalfRange - 1
  PROVE  Wrapped(d) = d
<1>1. d + HalfRange \in 0 .. 2 * HalfRange - 1
  BY PartsAssumption
<1>2. (d + HalfRange) % (2 * HalfRange) = d + HalfRange
  BY <1>1, PartsAssumption
<1> QED BY <1>2, PartsAssumption DEF Wrapped

LEMMA JitterWithin ==
  ASSUME NEW base \in 1 .. HalfRange - 1, NEW fraction \in 0 .. Parts - 1, fraction # NaN,
         NEW t \in applyJitter(base, fraction)
  PROVE  Within(t, base, fraction)
<1>1. Parts \in Nat \ {0} /\ HalfRange \in Nat \ {0}
  BY PartsAssumption
<1>2. CASE fraction = 0
  <2>1. t = base
    BY <1>1, <1>2 DEF applyJitter
  <2> QED BY <1>1, <1>2, <2>1 DEF Within
<1>3. CASE fraction # 0
  <2>1. PICK d \in Delta(base, fraction) : t = Wrapped(base - d)
    <3>1. ~(base <= 0 \/ (fraction # NaN /\ fraction <= 0))
      BY <1>1, <1>3
    <3> QED BY <3>1 DEF applyJitter
  <2>2. d \in Nat /\ Parts * d <= fraction * base
    <3>1. PICK r \in 0 .. Parts - 1 : d = (r * fraction * base) \div (Parts * Parts)
      BY DEF Delta
    <3> QED BY <1>1, <1>3, <3>1, ShaveBound
  <2>3. d < base
    <3>1. SUFFICES ASSUME base <= d PROVE FALSE
      BY <1>1, <2>2
    <3>2. Parts * base <= Parts * d
      BY <1>1, <2>2, <3>1
    <3>3. fraction * base < Parts * base
      BY <1>1
    <3>4. Parts * base \in Nat /\ Parts * d \in Nat /\ fraction * base \in Nat
      BY <1>1, <2>2
    <3> QED BY <2>2, <3>2, <3>3, <3>4
  <2>4. base - d \in 0 .. HalfRange - 1
    BY <1>1, <2>2, <2>3
  <2>5. t = base - d
    BY <2>1, <2>4, WrappedWithin
  <2>6. Parts * (base - d) >= (Parts - fraction) * base
    <3>1. Parts * (base - d) = Parts * base - Parts * d
      BY <1>1, <2>2
    <3>2. (Parts - fraction) * base = Parts * base - fraction * base
      BY <1>1
    <3>3. Parts * base \in Nat /\ Parts * d \in Nat /\ fraction * base \in Nat
      BY <1>1, <2>2
    <3> QED BY <2>2, <3>1, <3>2, <3>3
  <2> QED BY <1>1, <2>2, <2>3, <2>5, <2>6 DEF Within
<1> QED BY <1>2, <1>3

(* No TTL of a cache without AllowInfinite is unbounded, too long, or      *)
(* shorter than the jitter may make it, for any range of durations and any *)
(* fractions but NaN.                                                      *)
THEOREM AlwaysTtlBackstop == Spec => []TtlBackstop
<1>1. IInv => TtlBackstop
  <2> SUFFICES ASSUME IInv, NEW c \in Caches, c.jitter # NaN
               PROVE  /\ ~c.infinite => \A d \in positiveTTL(c) : Within(d, c.ttl, c.jitter)
                      /\ \A d \in negativeTTL(c) : Within(d, c.negativeTtl, c.jitter)
    BY DEF TtlBackstop
  <2>1. PICK p \in Caller : c = cache[p] /\ at[p] = "has"
    BY DEF Caches
  <2>2. c \in Configuration /\ c.jitter \in 0 .. Parts - 1 /\ ValidTtl(c)
    BY <2>1 DEF IInv, TypeOK, Checked
  <2>3. c.ttl \in Duration /\ c.negativeTtl \in Duration
    BY <2>2 DEF Configuration
  <2>4. ASSUME ~c.infinite, NEW d \in positiveTTL(c) PROVE Within(d, c.ttl, c.jitter)
    <3>1. c.ttl \in 1 .. HalfRange - 1
      BY <2>2, <2>3, <2>4, PartsAssumption DEF ValidTtl, Duration
    <3> QED BY <2>2, <2>4, <3>1, JitterWithin DEF positiveTTL
  <2>5. ASSUME NEW d \in negativeTTL(c) PROVE Within(d, c.negativeTtl, c.jitter)
    <3>1. c.negativeTtl \in 1 .. HalfRange - 1 /\ d \in applyJitter(c.negativeTtl, c.jitter)
      BY <2>3, <2>5, PartsAssumption DEF negativeTTL, Duration
    <3> QED BY <2>2, <3>1, JitterWithin
  <2> QED BY <2>4, <2>5
<1> QED BY <1>1, Invariance, PTL
-------------------------------------------------------------------------------
(* Texts, put together and compared. *)
LEMMA Joined ==
  ASSUME NEW s \in String, NEW t \in String
  PROVE  /\ s \o t \in String
         /\ Len(s) \in Nat /\ Len(t) \in Nat /\ Len(s \o t) = Len(s) + Len(t)
         /\ \A i \in 1 .. Len(s) : (s \o t)[i] = s[i]
         /\ \A i \in 1 .. Len(t) : (s \o t)[Len(s) + i] = t[i]
<1>1. /\ s \o t \in String
      /\ Len(s \o t) = Len(s) + Len(t)
      /\ \A i \in 1 .. Len(s) + Len(t) : (s \o t)[i] =
                     IF i <= Len(s) THEN s[i] ELSE t[i - Len(s)]
  BY ConcatProperties DEF String
<1>2. Len(s) \in Nat /\ Len(t) \in Nat
  BY LenProperties DEF String
<1>3. \A i \in 1 .. Len(s) : (s \o t)[i] = s[i]
  BY <1>1, <1>2
<1>4. ASSUME NEW i \in 1 .. Len(t) PROVE (s \o t)[Len(s) + i] = t[i]
  <2>1. Len(s) + i \in 1 .. Len(s) + Len(t) /\ ~(Len(s) + i <= Len(s)) /\ Len(s) + i - Len(s) = i
    BY <1>2
  <2> QED BY <1>1, <2>1
<1> QED BY <1>1, <1>2, <1>3, <1>4

LEMMA Reassociated ==
  ASSUME NEW s \in String, NEW t \in String, NEW u \in String
  PROVE  (s \o t) \o u = s \o (t \o u)
  BY ConcatAssociative DEF String

LEMMA PrefixPointwise ==
  ASSUME NEW s \in String, NEW t \in String
  PROVE  IsPrefix(s, t) <=> Len(s) <= Len(t) /\ \A i \in 1 .. Len(s) : s[i] = t[i]
<1>1. Len(s) \in Nat /\ Len(t) \in Nat
  BY LenProperties DEF String
<1>2. SubSeq(s, 1, Len(s)) = s
  BY SubSeqFull DEF String
<1>3. ASSUME Len(s) <= Len(t)
      PROVE  /\ SubSeq(t, 1, Len(s)) \in String
             /\ Len(SubSeq(t, 1, Len(s))) = Len(s)
             /\ \A i \in 1 .. Len(s) : SubSeq(t, 1, Len(s))[i] = t[i]
  <2>1. \A i \in 1 .. Len(s) : t[i] \in Token
    BY <1>1, <1>3, ElementOfSeq DEF String
  <2>2. /\ SubSeq(t, 1, Len(s)) \in Seq(Token)
        /\ Len(SubSeq(t, 1, Len(s))) = IF 1 <= Len(s) THEN Len(s) - 1 + 1 ELSE 0
        /\ \A i \in 1 .. Len(s) - 1 + 1 : SubSeq(t, 1, Len(s))[i] = t[1 + i - 1]
    BY <1>1, <2>1, SubSeqProperties
  <2> QED BY <1>1, <2>2 DEF String
<1>4. CASE Len(s) <= Len(t)
  BY <1>2, <1>3, <1>4, SeqEqual DEF IsPrefix, String
<1>5. CASE ~(Len(s) <= Len(t))
  BY <1>5 DEF IsPrefix
<1> QED BY <1>4, <1>5

LEMMA SuffixPointwise ==
  ASSUME NEW s \in String, NEW t \in String
  PROVE  IsSuffix(s, t) <=>
            /\ Len(s) <= Len(t)
            /\ \A i \in 1 .. Len(s) : s[i] = t[Len(t) - Len(s) + i]
<1>1. Len(s) \in Nat /\ Len(t) \in Nat
  BY LenProperties DEF String
<1>2. ASSUME NEW u \in String
      PROVE  /\ Reverse(u) \in String /\ Len(Reverse(u)) = Len(u)
             /\ \A i \in 1 .. Len(u) : Reverse(u)[i] = u[Len(u) - i + 1]
  <2>1. Len(u) \in Nat
    BY LenProperties DEF String
  <2>2. \A i \in 1 .. Len(u) : u[(Len(u) - i) + 1] \in Token
    <3>1. \A i \in 1 .. Len(u) : (Len(u) - i) + 1 \in 1 .. Len(u)
      BY <2>1
    <3> QED BY <3>1, ElementOfSeq DEF String
  <2> QED BY <2>1, <2>2 DEF Reverse, String
<1>3. IsSuffix(s, t) <=> /\ Len(s) <= Len(t)
                         /\ \A i \in 1 .. Len(s) : s[Len(s) - i + 1] = t[Len(t) - i + 1]
  <2>1. IsSuffix(s, t) <=> IsPrefix(Reverse(s), Reverse(t))
    BY DEF IsSuffix
  <2>2. IsPrefix(Reverse(s), Reverse(t)) <=>
           /\ Len(s) <= Len(t)
           /\ \A i \in 1 .. Len(s) : Reverse(s)[i] = Reverse(t)[i]
    BY <1>2, PrefixPointwise
  <2> QED BY <1>1, <1>2, <2>1, <2>2
<1>4. ASSUME Len(s) <= Len(t), \A i \in 1 .. Len(s) : s[Len(s) - i + 1] = t[Len(t) - i + 1],
             NEW i \in 1 .. Len(s)
      PROVE  s[i] = t[Len(t) - Len(s) + i]
  <2>1. /\ Len(s) - i + 1 \in 1 .. Len(s)
        /\ Len(s) - (Len(s) - i + 1) + 1 = i
        /\ Len(t) - (Len(s) - i + 1) + 1 = Len(t) - Len(s) + i
    BY <1>1
  <2> QED BY <1>4, <2>1
<1>5. ASSUME Len(s) <= Len(t), \A i \in 1 .. Len(s) : s[i] = t[Len(t) - Len(s) + i],
             NEW i \in 1 .. Len(s)
      PROVE  s[Len(s) - i + 1] = t[Len(t) - i + 1]
  <2>1. /\ Len(s) - i + 1 \in 1 .. Len(s)
        /\ Len(t) - Len(s) + (Len(s) - i + 1) = Len(t) - i + 1
    BY <1>1
  <2> QED BY <1>5, <2>1
<1> QED BY <1>3, <1>4, <1>5

LEMMA Words ==
  /\ <<>> \in String /\ Len(<<>>) = 0
  /\ \A w \in Token : <<w>> \in String /\ Len(<<w>>) = 1 /\ <<w>>[1] = w
  /\ Separator \in String /\ Len(Separator) = 2 /\ Separator[1] = ":" /\ Separator[2] = ":"
<1>1. <<>> \in Seq(Token) /\ Len(<<>>) = 0
  BY EmptySeq
<1>2. ASSUME NEW w \in Token PROVE <<w>> \in Seq(Token) /\ Len(<<w>>) = 1 /\ <<w>>[1] = w
  OBVIOUS
<1>3. ":" \in Token
  BY TokenAssumption
<1>4. <<":", ":">> \in Seq(Token) /\ Len(<<":", ":">>) = 2
  BY <1>3
<1>5. <<":", ":">>[1] = ":" /\ <<":", ":">>[2] = ":"
  OBVIOUS
<1> QED BY <1>1, <1>2, <1>4, <1>5 DEF String, Separator

LEMMA HeadCancels ==
  ASSUME NEW h \in String, NEW s \in String, NEW t \in String
  PROVE  IsPrefix(h \o s, h \o t) <=> IsPrefix(s, t)
<1>1. /\ h \o s \in String /\ h \o t \in String
      /\ Len(h) \in Nat /\ Len(s) \in Nat /\ Len(t) \in Nat
      /\ Len(h \o s) = Len(h) + Len(s) /\ Len(h \o t) = Len(h) + Len(t)
  BY Joined
<1>2. \A i \in 1 .. Len(h) : (h \o s)[i] = h[i] /\ (h \o t)[i] = h[i]
  BY Joined
<1>3. /\ \A i \in 1 .. Len(s) : (h \o s)[Len(h) + i] = s[i]
      /\ \A i \in 1 .. Len(t) : (h \o t)[Len(h) + i] = t[i]
  BY Joined
<1>4. IsPrefix(h \o s, h \o t) <=>
         /\ Len(h \o s) <= Len(h \o t)
         /\ \A i \in 1 .. Len(h \o s) : (h \o s)[i] = (h \o t)[i]
  <2> DEFINE u == h \o s  v == h \o t
  <2> HIDE DEF u, v
  <2>1. IsPrefix(u, v) <=> Len(u) <= Len(v) /\ \A i \in 1 .. Len(u) : u[i] = v[i]
    <3>1. u \in String /\ v \in String
      BY <1>1 DEF u, v
    <3> QED BY ONLY <3>1, PrefixPointwise
  <2> QED BY <2>1 DEF u, v
<1>5. ASSUME IsPrefix(s, t) PROVE IsPrefix(h \o s, h \o t)
  <2>1. Len(s) <= Len(t) /\ \A i \in 1 .. Len(s) : s[i] = t[i]
    BY <1>5, PrefixPointwise
  <2>2. ASSUME NEW i \in 1 .. Len(h) + Len(s) PROVE (h \o s)[i] = (h \o t)[i]
    <3>1. CASE i <= Len(h)
      BY <3>1, <1>1, <1>2
    <3>2. CASE ~(i <= Len(h))
      <4>1. PICK j \in 1 .. Len(s) : i = Len(h) + j
        <5>1. i - Len(h) \in 1 .. Len(s) /\ i = Len(h) + (i - Len(h))
          BY <3>2, <1>1
        <5> QED BY <5>1
      <4>2. j \in 1 .. Len(t)
        BY <1>1, <2>1
      <4> QED BY <4>1, <4>2, <2>1, <1>3
    <3> QED BY <3>1, <3>2
  <2>3. Len(h \o s) <= Len(h \o t) /\ \A i \in 1 .. Len(h \o s) : (h \o s)[i] = (h \o t)[i]
    BY <1>1, <2>1, <2>2
  <2> QED BY <1>4, <2>3
<1>6. ASSUME IsPrefix(h \o s, h \o t) PROVE IsPrefix(s, t)
  <2>1. Len(s) <= Len(t) /\ \A i \in 1 .. Len(h) + Len(s) : (h \o s)[i] = (h \o t)[i]
    <3>1. Len(h) + Len(s) <= Len(h) + Len(t)
      BY <1>1, <1>6, <1>4
    <3> QED BY <3>1, <1>1, <1>6, <1>4
  <2>2. ASSUME NEW i \in 1 .. Len(s) PROVE s[i] = t[i]
    <3>1. i \in 1 .. Len(t) /\ Len(h) + i \in 1 .. Len(h) + Len(s)
      BY <1>1, <2>1
    <3> QED BY <3>1, <2>1, <1>3
  <2> QED BY <2>1, <2>2, PrefixPointwise
<1> QED BY <1>5, <1>6

LEMMA PrefixOfJoin ==
  ASSUME NEW s \in String, NEW t \in String, NEW e \in String, Len(s) <= Len(t)
  PROVE  IsPrefix(s, t \o e) <=> IsPrefix(s, t)
<1>1. /\ t \o e \in String /\ Len(t \o e) = Len(t) + Len(e)
      /\ Len(s) \in Nat /\ Len(t) \in Nat /\ Len(e) \in Nat
      /\ \A i \in 1 .. Len(t) : (t \o e)[i] = t[i]
  BY Joined
<1>2. \A i \in 1 .. Len(s) : (t \o e)[i] = t[i]
  BY <1>1
<1>3. IsPrefix(s, t \o e) <=> Len(s) <= Len(t) + Len(e) /\ \A i \in 1 .. Len(s) : s[i] = (t \o e)[i]
  BY <1>1, PrefixPointwise
<1>4. IsPrefix(s, t) <=> \A i \in 1 .. Len(s) : s[i] = t[i]
  BY PrefixPointwise
<1> QED BY <1>1, <1>2, <1>3, <1>4

LEMMA EndsInSuffix ==
  ASSUME NEW s \in String, NEW t \in String
  PROVE  IsSuffix(s, t \o s)
<1>1. /\ t \o s \in String /\ Len(t \o s) = Len(t) + Len(s)
      /\ Len(t) \in Nat /\ Len(s) \in Nat
      /\ \A i \in 1 .. Len(s) : (t \o s)[Len(t) + i] = s[i]
  BY Joined
<1>2. \A i \in 1 .. Len(s) : s[i] = (t \o s)[Len(t \o s) - Len(s) + i]
  BY <1>1
<1>3. Len(s) <= Len(t \o s)
  BY <1>1
<1> DEFINE u == t \o s
<1> HIDE DEF u
<1>4. u \in String /\ Len(s) <= Len(u) /\ \A i \in 1 .. Len(s) : s[i] = u[Len(u) - Len(s) + i]
  BY <1>1, <1>2, <1>3 DEF u
<1>5. IsSuffix(s, u)
  BY ONLY s \in String, <1>4, SuffixPointwise
<1> QED BY <1>5 DEF u

(* What a pattern takes of the keys that have its fixed parts, and what it *)
(* reads back from one.                                                    *)
LEMMA MatchExact ==
  ASSUME NEW h \in String, NEW kp \in String, NEW k \in String, NEW e \in String
  PROVE  Matches(Match(h \o kp, e), (h \o k) \o e) <=> IsPrefix(kp, k)
<1>1. /\ h \o kp \in String /\ h \o k \in String /\ (h \o k) \o e \in String /\ k \o e \in String
      /\ Len(h) \in Nat /\ Len(kp) \in Nat /\ Len(k) \in Nat /\ Len(e) \in Nat
      /\ Len(h \o kp) = Len(h) + Len(kp)
      /\ Len((h \o k) \o e) = Len(h) + Len(k) + Len(e)
  BY Joined
<1>2. (h \o k) \o e = h \o (k \o e)
  BY Reassociated
<1>3. Matches(Match(h \o kp, e), (h \o k) \o e) <=>
         Len(kp) <= Len(k) /\ IsPrefix(h \o kp, (h \o k) \o e)
  BY <1>1, EndsInSuffix DEF Matches, Match
<1>4. IsPrefix(h \o kp, (h \o k) \o e) <=> IsPrefix(kp, k \o e)
  BY <1>1, <1>2, HeadCancels
<1>5. Len(kp) <= Len(k) => (IsPrefix(kp, k \o e) <=> IsPrefix(kp, k))
  BY PrefixOfJoin
<1>6. IsPrefix(kp, k) => Len(kp) <= Len(k)
  BY PrefixPointwise
<1> QED BY <1>3, <1>4, <1>5, <1>6

LEMMA MatchReadsBack ==
  ASSUME NEW h \in String, NEW k \in String, NEW e \in String
  PROVE  primaryOf(Match(h \o <<>>, e), (h \o k) \o e) = {k}
<1> DEFINE key == (h \o k) \o e
<1>1. <<>> \in String /\ h \o <<>> = h
  BY ConcatEmptySeq, Words DEF String
<1>2. /\ h \o k \in String /\ key \in String
      /\ Len(h) \in Nat /\ Len(k) \in Nat /\ Len(e) \in Nat
      /\ Len(key) = Len(h) + Len(k) + Len(e)
  BY Joined
<1>3. Matches(Match(h \o <<>>, e), key)
  <2>1. IsPrefix(<<>>, k)
    BY <1>1, <1>2, Words, PrefixPointwise
  <2> QED BY <1>1, <2>1, MatchExact
<1>4. SubSeq(key, Len(h) + 1, Len(h) + Len(k)) = k
  <2>1. ASSUME NEW i \in 1 .. Len(k) PROVE key[Len(h) + i] = k[i] /\ k[i] \in Token
    <3>1. (h \o k)[Len(h) + i] = k[i]
      BY Joined
    <3>2. Len(h) + i \in 1 .. Len(h \o k)
      BY <1>2, Joined
    <3>3. key[Len(h) + i] = (h \o k)[Len(h) + i]
      BY <1>2, <3>2, Joined
    <3>4. k[i] \in Token
      BY ElementOfSeq DEF String
    <3> QED BY <3>1, <3>3, <3>4
  <2>2. \A i \in Len(h) + 1 .. Len(h) + Len(k) : key[i] \in Token
    <3>1. ASSUME NEW i \in Len(h) + 1 .. Len(h) + Len(k) PROVE key[i] \in Token
      <4>1. i - Len(h) \in 1 .. Len(k) /\ Len(h) + (i - Len(h)) = i
        BY <1>2
      <4> QED BY <2>1, <4>1
    <3> QED BY <3>1
  <2>3. /\ SubSeq(key, Len(h) + 1, Len(h) + Len(k)) \in Seq(Token)
        /\ Len(SubSeq(key, Len(h) + 1, Len(h) + Len(k))) =
              IF Len(h) + 1 <= Len(h) + Len(k) THEN Len(h) + Len(k) - (Len(h) + 1) + 1 ELSE 0
        /\ \A i \in 1 .. Len(h) + Len(k) - (Len(h) + 1) + 1 :
              SubSeq(key, Len(h) + 1, Len(h) + Len(k))[i] = key[Len(h) + 1 + i - 1]
    BY <1>2, <2>2, SubSeqProperties
  <2>4. Len(SubSeq(key, Len(h) + 1, Len(h) + Len(k))) = Len(k)
    BY <1>2, <2>3
  <2>5. \A i \in 1 .. Len(k) : SubSeq(key, Len(h) + 1, Len(h) + Len(k))[i] = k[i]
    BY <1>2, <2>1, <2>3
  <2> QED BY <2>3, <2>4, <2>5, SeqEqual DEF String
<1>5. /\ Match(h \o <<>>, e).prefix = h /\ Match(h \o <<>>, e).suffix = e
      /\ Len(key) - Len(e) = Len(h) + Len(k)
  BY <1>1, <1>2 DEF Match
<1> QED BY <1>3, <1>4, <1>5 DEF primaryOf
-------------------------------------------------------------------------------
(* Concatenation, with no more known of it than these two facts. *)
Join(s, t) == s \o t

LEMMA Joins ==
  /\ \A s, t \in String : Join(s, t) \in String
  /\ \A s, t, u \in String : Join(s, Join(t, u)) = Join(Join(s, t), u)
<1>1. ASSUME NEW s \in String, NEW t \in String PROVE Join(s, t) \in String
  BY Joined DEF Join
<1>2. ASSUME NEW s \in String, NEW t \in String, NEW u \in String
      PROVE  Join(s, Join(t, u)) = Join(Join(s, t), u)
  BY Reassociated DEF Join
<1> QED BY <1>1, <1>2

LEMMA Flattened ==
  ASSUME NEW a \in String, NEW b \in String, NEW c \in String, NEW d \in String,
         NEW e \in String, NEW f \in String
  PROVE  Join(a, Join(Join(Join(Join(b, c), d), e), f))
            = Join(Join(Join(Join(Join(a, b), c), d), e), f)
<1> DEFINE bc == Join(b, c)  bcd == Join(bc, d)  bcde == Join(bcd, e)
<1>1. bc \in String /\ bcd \in String /\ bcde \in String
  BY Joins
<1> HIDE DEF bc, bcd, bcde
<1>2. Join(a, Join(bcde, f)) = Join(Join(a, bcde), f)
  BY <1>1, Joins
<1>3. Join(a, bcde) = Join(Join(a, bcd), e)
  BY <1>1, Joins DEF bcde
<1>4. Join(a, bcd) = Join(Join(a, bc), d)
  BY <1>1, Joins DEF bcd
<1>5. Join(a, bc) = Join(Join(a, b), c)
  BY <1>1, Joins DEF bc
<1>6. Join(a, Join(bcde, f)) = Join(Join(Join(Join(Join(a, b), c), d), e), f)
  BY <1>2, <1>3, <1>4, <1>5
<1> QED BY <1>6 DEF bc, bcd, bcde

LEMMA JoinTokens ==
  ASSUME NEW s \in String, NEW t \in String
  PROVE  /\ Join(s, t) \in String
         /\ Len(s) \in Nat /\ Len(t) \in Nat /\ Len(Join(s, t)) = Len(s) + Len(t)
         /\ \A i \in 1 .. Len(s) : Join(s, t)[i] = s[i]
         /\ \A i \in 1 .. Len(t) : Join(s, t)[Len(s) + i] = t[i]
  BY Joined DEF Join

(* What begins with a text begins with what the text begins with. *)
LEMMA BeginsWithFirst ==
  ASSUME NEW s \in String, NEW t \in String, NEW u \in String
  PROVE  /\ IsPrefix(s, Join(s, t))
         /\ IsPrefix(Join(s, t), u) => IsPrefix(s, u)
<1> DEFINE v == Join(s, t)
<1>1. /\ v \in String /\ Len(s) <= Len(v)
      /\ \A i \in 1 .. Len(s) : v[i] = s[i]
      /\ Len(s) \in Nat /\ Len(v) \in Nat /\ Len(u) \in Nat
  <2>1. /\ v \in String /\ Len(s) \in Nat /\ Len(t) \in Nat /\ Len(v) = Len(s) + Len(t)
        /\ \A i \in 1 .. Len(s) : v[i] = s[i]
    BY JoinTokens
  <2>2. Len(u) \in Nat
    BY LenProperties DEF String
  <2> QED BY <2>1, <2>2
<1> HIDE DEF v
<1>2. IsPrefix(s, v)
  BY <1>1, PrefixPointwise
<1>3. ASSUME IsPrefix(v, u) PROVE IsPrefix(s, u)
  <2>1. Len(v) <= Len(u) /\ \A i \in 1 .. Len(v) : v[i] = u[i]
    BY <1>1, <1>3, PrefixPointwise
  <2>2. Len(s) <= Len(u) /\ \A i \in 1 .. Len(s) : s[i] = u[i]
    BY <1>1, <2>1
  <2> QED BY <2>2, PrefixPointwise
<1> QED BY <1>2, <1>3 DEF v
-------------------------------------------------------------------------------
(* The keys of an alias group, cut into what comes before the part that    *)
(* the caller chooses, this part, and what comes after it.                 *)
Start == <<"bc">> \o Separator
WordStart(w) == Start \o <<w>> \o Separator
Opened(a, ns, sharded) ==
    IF sharded THEN a \o <<"{">> \o ns \o Separator
               ELSE a \o <<"{">> \o ns \o <<"}">> \o Separator
Ending(sharded) == IF sharded THEN <<"}">> ELSE <<>>

ValueHead(ns, sharded)   == Opened(Start, ns, sharded)
MembersHead(ns, sharded) == Opened(WordStart("memb"), ns, sharded)
PointerHead(ns, sharded) == Opened(WordStart("grp"), ns, sharded)

LEMMA Pieces ==
  /\ Start \in String /\ Len(Start) = 3
  /\ <<"{">> \in String /\ <<"}">> \in String /\ <<>> \in String
  /\ \A sharded : Ending(sharded) \in String
<1>1. <<"bc">> \in String /\ Len(<<"bc">>) = 1 /\ <<"{">> \in String /\ <<"}">> \in String
  <2>1. "bc" \in Token /\ "{" \in Token /\ "}" \in Token
    BY TokenAssumption
  <2> QED BY <2>1, Words
<1>2. Start \in String /\ Len(Start) = 3
  <2> DEFINE b == <<"bc">>
  <2>1. b \in String /\ Len(b) = 1 /\ Separator \in String /\ Len(Separator) = 2
    BY <1>1, Words
  <2>2. Start = b \o Separator
    BY DEF Start
  <2> HIDE DEF b
  <2>3. b \o Separator \in String /\ Len(b \o Separator) = Len(b) + Len(Separator)
    BY <2>1, Joined
  <2> QED BY <2>1, <2>2, <2>3
<1> QED BY <1>1, <1>2, Words DEF Ending

LEMMA WordStartTokens ==
  ASSUME NEW w \in Token
  PROVE  /\ WordStart(w) \in String /\ Len(WordStart(w)) = 6
         /\ WordStart(w)[4] = w /\ WordStart(w)[5] = ":"
<1> DEFINE v == <<w>>  h == Join(Start, v)  g == Join(h, Separator)
<1>1. /\ Start \in String /\ Len(Start) = 3 /\ v \in String /\ Len(v) = 1 /\ v[1] = w
      /\ Separator \in String /\ Len(Separator) = 2 /\ Separator[1] = ":"
  BY Pieces, Words
<1> HIDE DEF v
<1>2. h \in String /\ Len(h) = 4 /\ h[4] = w
  <2>1. 1 \in 1 .. Len(v) /\ Len(Start) + 1 = 4
    BY <1>1
  <2>2. h \in String /\ Len(h) = Len(Start) + Len(v) /\ h[Len(Start) + 1] = v[1]
    BY <1>1, <2>1, JoinTokens
  <2> QED BY <1>1, <2>1, <2>2
<1> HIDE DEF h
<1>3. g \in String /\ Len(g) = 6 /\ g[4] = w /\ g[5] = ":"
  <2>1. 1 \in 1 .. Len(Separator) /\ 4 \in 1 .. Len(h) /\ Len(h) + 1 = 5
    BY <1>1, <1>2
  <2>2. /\ g \in String /\ Len(g) = Len(h) + Len(Separator)
        /\ g[4] = h[4] /\ g[Len(h) + 1] = Separator[1]
    BY <1>1, <1>2, <2>1, JoinTokens
  <2> QED BY <1>1, <1>2, <2>1, <2>2
<1>4. g = WordStart(w)
  BY DEF g, h, v, WordStart, Join
<1> QED BY <1>3, <1>4

LEMMA TaggedCut ==
  ASSUME NEW a \in String, NEW ns \in String, NEW k \in String, NEW sharded
  PROVE  /\ Join(a, Tagged(ns, k, sharded)) = Join(Join(Opened(a, ns, sharded), k), Ending(sharded))
         /\ Opened(a, ns, sharded) \in String
<1> DEFINE o == <<"{">>
           x == <<"}">>
           p == Separator
           z == <<>>
           Spread == Join(Join(Join(a, o), ns), p)
           Tight == Join(Join(Join(Join(a, o), ns), x), p)
<1>1. o \in String /\ x \in String /\ p \in String
  BY Pieces, Words
<1>2. CASE sharded
  <2>1. /\ Opened(a, ns, sharded) = Spread
        /\ Ending(sharded) = x
        /\ Tagged(ns, k, sharded) = Join(Join(Join(Join(o, ns), p), k), x)
    BY <1>2 DEF Opened, Ending, Tagged, Join
  <2> HIDE DEF o, x, p
  <2>2. Spread \in String
    BY <1>1, Joins
  <2>3. Join(a, Join(Join(Join(Join(o, ns), p), k), x)) = Join(Join(Spread, k), x)
    BY <1>1, Flattened
  <2> QED BY <2>1, <2>2, <2>3
<1>3. CASE ~sharded
  <2>1. /\ Opened(a, ns, sharded) = Tight
        /\ Ending(sharded) = z
        /\ Tagged(ns, k, sharded) = Join(Join(Join(Join(o, ns), x), p), k)
    BY <1>3 DEF Opened, Ending, Tagged, Join
  <2>2. \A s \in String : Join(s, z) = s
    BY ConcatEmptySeq DEF Join, String
  <2> HIDE DEF o, x, p, z
  <2>3. Tight \in String /\ Join(Tight, k) \in String
    <3>1. Join(Join(Join(a, o), ns), x) \in String
      BY <1>1, Joins
    <3>2. Tight \in String
      BY <1>1, <3>1, Joins
    <3> HIDE DEF Tight
    <3> QED BY <3>2, Joins
  <2>4. Join(a, Join(Join(Join(Join(o, ns), x), p), k)) = Join(Tight, k)
    BY <1>1, Flattened
  <2>5. Join(Join(Tight, k), z) = Join(Tight, k)
    BY <2>2, <2>3
  <2> QED BY <2>1, <2>3, <2>4, <2>5
<1> QED BY <1>2, <1>3

LEMMA KeysCut ==
  ASSUME NEW ns \in String, NEW k \in String, NEW sharded
  PROVE  /\ ValueKey(ns, k, sharded) = Join(Join(ValueHead(ns, sharded), k), Ending(sharded))
         /\ MembersKey(ns, k, sharded) = Join(Join(MembersHead(ns, sharded), k), Ending(sharded))
         /\ ValueHead(ns, sharded) \in String /\ MembersHead(ns, sharded) \in String
<1>1. "memb" \in Token
  BY TokenAssumption
<1>2. Start \in String /\ WordStart("memb") \in String
  BY <1>1, Pieces, WordStartTokens
<1>3. /\ ValueKey(ns, k, sharded) = Join(Start, Tagged(ns, k, sharded))
      /\ MembersKey(ns, k, sharded) = Join(WordStart("memb"), Tagged(ns, k, sharded))
  BY DEF ValueKey, MembersKey, Start, WordStart, Join
<1>4. /\ Join(Start, Tagged(ns, k, sharded)) = Join(Join(ValueHead(ns, sharded), k), Ending(sharded))
      /\ ValueHead(ns, sharded) \in String
  BY <1>2, TaggedCut DEF ValueHead
<1>5. /\ Join(WordStart("memb"), Tagged(ns, k, sharded))
            = Join(Join(MembersHead(ns, sharded), k), Ending(sharded))
      /\ MembersHead(ns, sharded) \in String
  BY <1>2, TaggedCut DEF MembersHead
<1> QED BY <1>3, <1>4, <1>5

LEMMA PointerKeyCut ==
  ASSUME NEW ns \in String, NEW f \in String, NEW a \in String, NEW sharded
  PROVE  /\ PointerKey(ns, f, a, sharded)
                = Join(Join(PointerHead(ns, sharded), Join(Join(f, Separator), a)), Ending(sharded))
         /\ Join(Join(f, Separator), a) \in String
         /\ PointerHead(ns, sharded) \in String
<1> DEFINE k == Join(Join(f, Separator), a)
<1>1. "grp" \in Token
  BY TokenAssumption
<1>2. WordStart("grp") \in String /\ k \in String
  <2>1. Join(f, Separator) \in String
    BY Joins, Words
  <2> QED BY <1>1, <2>1, Joins, WordStartTokens
<1>3. PointerKey(ns, f, a, sharded) = Join(WordStart("grp"), Tagged(ns, k, sharded))
  BY DEF PointerKey, Start, WordStart, Join
<1> HIDE DEF k
<1>4. /\ Join(WordStart("grp"), Tagged(ns, k, sharded))
            = Join(Join(PointerHead(ns, sharded), k), Ending(sharded))
      /\ PointerHead(ns, sharded) \in String
  BY <1>2, TaggedCut DEF PointerHead
<1> QED BY <1>2, <1>3, <1>4 DEF k

LEMMA MatchesCut ==
  ASSUME NEW ns, NEW k, NEW sharded
  PROVE  /\ ValueMatch(ns, k, sharded) = Match(Join(ValueHead(ns, sharded), k), Ending(sharded))
         /\ MembersMatch(ns, k, sharded) = Match(Join(MembersHead(ns, sharded), k), Ending(sharded))
<1>1. CASE sharded
  BY <1>1 DEF ValueMatch, MembersMatch, ValueHead, MembersHead, Opened, Ending, Start, WordStart, Join
<1>2. CASE ~sharded
  BY <1>2 DEF ValueMatch, MembersMatch, ColocatedValuePrefix, ColocatedMembersPrefix,
              ValueHead, MembersHead, Opened, Ending, Start, WordStart, Join
<1> QED BY <1>1, <1>2
-------------------------------------------------------------------------------
(* What all keys of a family begin with: a text h that stands for the      *)
(* family, the name of the cache, and a colon or a brace.                  *)
Root(h, ns, t) == Join(Join(h, ns), <<t>>)

Mark(sharded) == IF sharded THEN ":" ELSE "}"

ValueStart   == Join(Start, <<"{">>)
MembersStart == Join(WordStart("memb"), <<"{">>)
PointerStart == Join(WordStart("grp"), <<"{">>)

LEMMA Starts ==
  /\ ValueStart \in String /\ Len(ValueStart) = 4 /\ ValueStart[4] = "{"
  /\ MembersStart \in String /\ Len(MembersStart) = 7 /\ MembersStart[4] = "memb" /\ MembersStart[5] = ":"
  /\ PointerStart \in String /\ Len(PointerStart) = 7 /\ PointerStart[4] = "grp" /\ PointerStart[5] = ":"
<1> DEFINE w == "{"  o == <<w>>
<1>1. w \in Token /\ "memb" \in Token /\ "grp" \in Token
  BY TokenAssumption
<1> HIDE DEF w
<1>2. o \in String /\ Len(o) = 1 /\ o[1] = w
  BY <1>1, Words
<1> HIDE DEF o
<1>3. Join(Start, o) \in String /\ Len(Join(Start, o)) = 4 /\ Join(Start, o)[4] = w
  <2>1. Start \in String /\ Len(Start) = 3
    BY Pieces
  <2>2. 1 \in 1 .. Len(o) /\ Len(Start) + 1 = 4
    BY <1>2, <2>1
  <2>3. /\ Join(Start, o) \in String /\ Len(Join(Start, o)) = Len(Start) + Len(o)
        /\ Join(Start, o)[Len(Start) + 1] = o[1]
    BY <1>2, <2>1, <2>2, JoinTokens
  <2> QED BY <1>2, <2>1, <2>2, <2>3
<1>4. ASSUME NEW h \in String, Len(h) = 6
      PROVE  /\ Join(h, o) \in String /\ Len(Join(h, o)) = 7
             /\ Join(h, o)[4] = h[4] /\ Join(h, o)[5] = h[5]
  <2>1. 4 \in 1 .. Len(h) /\ 5 \in 1 .. Len(h)
    BY <1>4
  <2>2. /\ Join(h, o) \in String /\ Len(Join(h, o)) = Len(h) + Len(o)
        /\ \A i \in 1 .. Len(h) : Join(h, o)[i] = h[i]
    BY <1>2, JoinTokens
  <2> QED BY <1>2, <1>4, <2>1, <2>2
<1>5. /\ WordStart("memb") \in String /\ Len(WordStart("memb")) = 6
      /\ WordStart("memb")[4] = "memb" /\ WordStart("memb")[5] = ":"
  BY <1>1, WordStartTokens
<1>6. /\ WordStart("grp") \in String /\ Len(WordStart("grp")) = 6
      /\ WordStart("grp")[4] = "grp" /\ WordStart("grp")[5] = ":"
  BY <1>1, WordStartTokens
<1>7. ValueStart = Join(Start, o) /\ MembersStart = Join(WordStart("memb"), o)
      /\ PointerStart = Join(WordStart("grp"), o)
  BY DEF ValueStart, MembersStart, PointerStart, o, w
<1>8. /\ ValueStart \in String /\ Len(ValueStart) = 4 /\ ValueStart[4] = "{"
  BY <1>3, <1>7 DEF w
<1>9. /\ MembersStart \in String /\ Len(MembersStart) = 7
      /\ MembersStart[4] = "memb" /\ MembersStart[5] = ":"
  BY <1>4, <1>5, <1>7
<1>10. /\ PointerStart \in String /\ Len(PointerStart) = 7
       /\ PointerStart[4] = "grp" /\ PointerStart[5] = ":"
  BY <1>4, <1>6, <1>7
<1> QED BY <1>8, <1>9, <1>10

LEMMA StartLengths ==
  /\ ValueStart \in String /\ 4 \in 1 .. Len(ValueStart)
  /\ MembersStart \in String /\ 4 \in 1 .. Len(MembersStart) /\ 5 \in 1 .. Len(MembersStart)
  /\ PointerStart \in String /\ 4 \in 1 .. Len(PointerStart) /\ 5 \in 1 .. Len(PointerStart)
<1>1. /\ Len(ValueStart) = 4 /\ Len(MembersStart) = 7 /\ Len(PointerStart) = 7
  BY Starts, Zenon
<1>2. ValueStart \in String /\ MembersStart \in String /\ PointerStart \in String
  BY Starts, Zenon
<1> QED BY <1>1, <1>2

LEMMA OpenedBegins ==
  ASSUME NEW a \in String, NEW ns \in String, NEW sharded
  PROVE  \A s \in String : IsPrefix(Opened(a, ns, sharded), s)
                              => IsPrefix(Root(Join(a, <<"{">>), ns, Mark(sharded)), s)
<1> SUFFICES ASSUME NEW s \in String, IsPrefix(Opened(a, ns, sharded), s)
             PROVE  IsPrefix(Root(Join(a, <<"{">>), ns, Mark(sharded)), s)
  OBVIOUS
<1> DEFINE o == <<"{">>
           c == <<":">>
           x == <<"}">>
           p == Separator
           h == Join(Join(a, o), ns)
<1>1. /\ o \in String /\ c \in String /\ x \in String /\ p \in String
  <2>1. ":" \in Token
    BY TokenAssumption
  <2> QED BY <2>1, Pieces, Words
<1>2. p = Join(c, c)
  BY DEF Separator, Join
<1>3. h \in String
  <2> HIDE DEF o
  <2> QED BY <1>1, Joins
<1>4. CASE sharded
  <2>1. Opened(a, ns, sharded) = Join(h, p) /\ Root(Join(a, <<"{">>), ns, Mark(sharded)) = Join(h, c)
    BY <1>4 DEF Opened, Root, Mark, Join
  <2> HIDE DEF o, c, p, h
  <2>2. Join(h, p) = Join(Join(h, c), c)
    <3>1. h \in String /\ c \in String
      BY <1>1, <1>3
    <3>2. Join(h, Join(c, c)) = Join(Join(h, c), c)
      BY <3>1, Joins
    <3> QED BY <1>2, <3>2
  <2>3. Join(h, c) \in String
    BY <1>1, <1>3, Joins
  <2>4. IsPrefix(Join(Join(h, c), c), s)
    BY <2>1, <2>2
  <2>5. IsPrefix(Join(h, c), s)
    BY <1>1, <2>3, <2>4, BeginsWithFirst
  <2> QED BY <2>1, <2>5
<1>5. CASE ~sharded
  <2>1. Opened(a, ns, sharded) = Join(Join(h, x), p) /\ Root(Join(a, <<"{">>), ns, Mark(sharded)) = Join(h, x)
    BY <1>5 DEF Opened, Root, Mark, Join
  <2> HIDE DEF o, x, p, h
  <2>2. Join(h, x) \in String
    BY <1>1, <1>3, Joins
  <2>3. IsPrefix(Join(Join(h, x), p), s)
    BY <2>1
  <2>4. IsPrefix(Join(h, x), s)
    BY <1>1, <2>2, <2>3, BeginsWithFirst
  <2> QED BY <2>1, <2>4
<1> QED BY <1>4, <1>5

LEMMA RootTokens ==
  ASSUME NEW h \in String, NEW ns \in String, NEW t \in Token
  PROVE  /\ Root(h, ns, t) \in String
         /\ Len(h) \in Nat /\ Len(ns) \in Nat /\ Len(Root(h, ns, t)) = Len(h) + Len(ns) + 1
         /\ \A i \in 1 .. Len(h) : Root(h, ns, t)[i] = h[i]
         /\ \A i \in 1 .. Len(ns) : Root(h, ns, t)[Len(h) + i] = ns[i]
         /\ Root(h, ns, t)[Len(h) + Len(ns) + 1] = t
<1> DEFINE g == Join(h, ns)  v == <<t>>  r == Join(g, v)
<1>1. /\ g \in String /\ Len(h) \in Nat /\ Len(ns) \in Nat /\ Len(g) = Len(h) + Len(ns)
      /\ \A i \in 1 .. Len(h) : g[i] = h[i]
      /\ \A i \in 1 .. Len(ns) : g[Len(h) + i] = ns[i]
  BY JoinTokens
<1>2. v \in String /\ Len(v) = 1 /\ v[1] = t
  BY Words
<1> HIDE DEF g, v
<1>3. /\ r \in String /\ Len(r) = Len(g) + Len(v)
      /\ \A i \in 1 .. Len(g) : r[i] = g[i]
      /\ \A i \in 1 .. Len(v) : r[Len(g) + i] = v[i]
  BY <1>1, <1>2, JoinTokens
<1> HIDE DEF r
<1>4. \A i \in 1 .. Len(h) : r[i] = h[i]
  BY <1>1, <1>3
<1>5. ASSUME NEW i \in 1 .. Len(ns) PROVE r[Len(h) + i] = ns[i]
  <2>1. Len(h) + i \in 1 .. Len(g)
    BY <1>1
  <2> QED BY <1>1, <1>3, <2>1
<1>6. r[Len(h) + Len(ns) + 1] = t
  <2>1. 1 \in 1 .. Len(v) /\ Len(g) + 1 = Len(h) + Len(ns) + 1
    BY <1>1, <1>2
  <2> QED BY <1>2, <1>3, <2>1
<1>7. Len(r) = Len(h) + Len(ns) + 1
  BY <1>1, <1>2, <1>3
<1>8. r = Root(h, ns, t)
  BY DEF r, g, v, Root
<1> QED BY <1>1, <1>3, <1>4, <1>5, <1>6, <1>7, <1>8

(* What a text that begins with a root is made of. *)
LEMMA BeginsWithRoot ==
  ASSUME NEW h \in String, NEW ns \in String, NEW t \in Token, NEW s \in String,
         IsPrefix(Root(h, ns, t), s)
  PROVE  /\ Len(h) \in Nat /\ Len(ns) \in Nat
         /\ \A i \in 1 .. Len(h) : s[i] = h[i]
         /\ \A i \in 1 .. Len(ns) : s[Len(h) + i] = ns[i]
         /\ s[Len(h) + Len(ns) + 1] = t
<1> DEFINE r == Root(h, ns, t)
<1>1. /\ r \in String
      /\ Len(h) \in Nat /\ Len(ns) \in Nat /\ Len(r) = Len(h) + Len(ns) + 1
      /\ \A i \in 1 .. Len(h) : r[i] = h[i]
      /\ \A i \in 1 .. Len(ns) : r[Len(h) + i] = ns[i]
      /\ r[Len(h) + Len(ns) + 1] = t
  BY RootTokens
<1> HIDE DEF r
<1>2. \A i \in 1 .. Len(r) : r[i] = s[i]
  <2>1. IsPrefix(r, s)
    BY DEF r
  <2> QED BY <1>1, <2>1, PrefixPointwise
<1>3. \A i \in 1 .. Len(h) : s[i] = h[i]
  BY <1>1, <1>2
<1>4. ASSUME NEW i \in 1 .. Len(ns) PROVE s[Len(h) + i] = ns[i]
  <2>1. Len(h) + i \in 1 .. Len(r)
    BY <1>1
  <2> QED BY <1>1, <1>2, <2>1
<1>5. s[Len(h) + Len(ns) + 1] = t
  <2>1. Len(h) + Len(ns) + 1 \in 1 .. Len(r)
    BY <1>1
  <2> QED BY <1>1, <1>2, <2>1
<1> QED BY <1>1, <1>3, <1>4, <1>5

(* No text begins both as a key that holds a value does and as one that    *)
(* holds the aliases of a record.                                          *)
LEMMA HeadsApart ==
  ASSUME NEW ns \in String, NEW sharded, NEW s \in String,
         IsPrefix(ValueHead(ns, sharded), s), IsPrefix(MembersHead(ns, sharded), s)
  PROVE  FALSE
<1> DEFINE t == Mark(sharded)
<1>1. t \in Token /\ "memb" \in Token
  BY TokenAssumption DEF Mark
<1>2. Start \in String /\ WordStart("memb") \in String
  BY <1>1, Pieces, WordStartTokens
<1> HIDE DEF t
<1>3. IsPrefix(Root(ValueStart, ns, t), s) /\ IsPrefix(Root(MembersStart, ns, t), s)
  <2>1. IsPrefix(Root(ValueStart, ns, t), s)
    BY <1>2, OpenedBegins DEF ValueHead, ValueStart, t
  <2>2. IsPrefix(Root(MembersStart, ns, t), s)
    BY <1>2, OpenedBegins DEF MembersHead, MembersStart, t
  <2> QED BY <2>1, <2>2
<1>4. s[4] = ValueStart[4]
  <2>1. ValueStart \in String /\ 4 \in 1 .. Len(ValueStart)
    BY StartLengths
  <2> QED BY <1>1, <1>3, <2>1, BeginsWithRoot
<1>5. s[4] = MembersStart[4]
  <2>1. MembersStart \in String /\ 4 \in 1 .. Len(MembersStart)
    BY StartLengths
  <2> QED BY <1>1, <1>3, <2>1, BeginsWithRoot
<1> QED BY <1>4, <1>5, Starts

LEMMA FamiliesApart ==
  ASSUME NEW ns \in String, NEW k \in String, NEW kp \in String, NEW e \in String, NEW sharded
  PROVE  /\ ~IsPrefix(Join(MembersHead(ns, sharded), kp), Join(Join(ValueHead(ns, sharded), k), e))
         /\ ~IsPrefix(Join(ValueHead(ns, sharded), kp), Join(Join(MembersHead(ns, sharded), k), e))
<1> DEFINE v == ValueHead(ns, sharded)  m == MembersHead(ns, sharded)
<1>1. v \in String /\ m \in String
  BY KeysCut, Zenon
<1>2. ASSUME NEW s \in String PROVE ~(IsPrefix(v, s) /\ IsPrefix(m, s))
  BY HeadsApart
<1> HIDE DEF v, m
<1>3. ASSUME NEW h \in String
      PROVE  IsPrefix(h, Join(Join(h, k), e)) /\ Join(Join(h, k), e) \in String
  <2>1. Join(h, k) \in String
    BY Joins
  <2>2. Join(Join(h, k), e) \in String /\ IsPrefix(Join(h, k), Join(Join(h, k), e))
    BY <2>1, Joins, BeginsWithFirst
  <2> QED BY <2>1, <2>2, BeginsWithFirst
<1>4. ASSUME NEW h \in String, NEW s \in String, IsPrefix(Join(h, kp), s) PROVE IsPrefix(h, s)
  BY <1>4, BeginsWithFirst
<1>5. ~IsPrefix(Join(m, kp), Join(Join(v, k), e))
  BY <1>1, <1>2, <1>3, <1>4
<1>6. ~IsPrefix(Join(v, kp), Join(Join(m, k), e))
  BY <1>1, <1>2, <1>3, <1>4
<1> QED BY <1>5, <1>6 DEF v, m

(* What a sweep takes of one record, and of one key of a plain cache. *)
LEMMA RecordSwept ==
  ASSUME NEW ns \in String, NEW k \in String, NEW kp \in String, NEW sharded
  PROVE  /\ Matches(ValueMatch(ns, kp, sharded), ValueKey(ns, k, sharded)) <=> IsPrefix(kp, k)
         /\ ~Matches(MembersMatch(ns, kp, sharded), ValueKey(ns, k, sharded))
         /\ ~Matches(ValueMatch(ns, kp, sharded), MembersKey(ns, k, sharded))
         /\ Matches(MembersMatch(ns, kp, sharded), MembersKey(ns, k, sharded)) <=> IsPrefix(kp, k)
<1> DEFINE v == ValueHead(ns, sharded)  m == MembersHead(ns, sharded)  e == Ending(sharded)
<1>1. /\ v \in String /\ m \in String /\ e \in String
      /\ ValueKey(ns, k, sharded) = Join(Join(v, k), e)
      /\ MembersKey(ns, k, sharded) = Join(Join(m, k), e)
  <2>1. v \in String /\ m \in String
    BY KeysCut, Zenon
  <2>2. e \in String
    BY Pieces, Zenon
  <2>3. ValueKey(ns, k, sharded) = Join(Join(v, k), e)
    BY KeysCut, Zenon
  <2>4. MembersKey(ns, k, sharded) = Join(Join(m, k), e)
    BY KeysCut, Zenon
  <2> QED BY <2>1, <2>2, <2>3, <2>4
<1>2. /\ ValueMatch(ns, kp, sharded) = Match(Join(v, kp), e)
      /\ MembersMatch(ns, kp, sharded) = Match(Join(m, kp), e)
  BY MatchesCut
<1>3. ~IsPrefix(Join(m, kp), Join(Join(v, k), e)) /\ ~IsPrefix(Join(v, kp), Join(Join(m, k), e))
  BY <1>1, FamiliesApart
<1> HIDE DEF v, m, e
<1>4. /\ Matches(Match(v \o kp, e), (v \o k) \o e) <=> IsPrefix(kp, k)
      /\ Matches(Match(m \o kp, e), (m \o k) \o e) <=> IsPrefix(kp, k)
  BY <1>1, MatchExact
<1>5. ~Matches(Match(m \o kp, e), (v \o k) \o e) /\ ~Matches(Match(v \o kp, e), (m \o k) \o e)
  BY <1>3 DEF Matches, Match, Join
<1> QED BY <1>1, <1>2, <1>4, <1>5 DEF Join

LEMMA RecordReadBack ==
  ASSUME NEW ns \in String, NEW k \in String, NEW sharded
  PROVE  /\ PrimaryFromValueKey(ns, ValueKey(ns, k, sharded), sharded) = {k}
         /\ PrimaryFromMembersKey(ns, MembersKey(ns, k, sharded), sharded) = {k}
<1> DEFINE v == ValueHead(ns, sharded)  m == MembersHead(ns, sharded)  e == Ending(sharded)
<1>1. /\ v \in String /\ m \in String /\ e \in String
      /\ ValueKey(ns, k, sharded) = Join(Join(v, k), e)
      /\ MembersKey(ns, k, sharded) = Join(Join(m, k), e)
  <2>1. v \in String /\ m \in String
    BY KeysCut, Zenon
  <2>2. e \in String
    BY Pieces, Zenon
  <2>3. ValueKey(ns, k, sharded) = Join(Join(v, k), e)
    BY KeysCut, Zenon
  <2>4. MembersKey(ns, k, sharded) = Join(Join(m, k), e)
    BY KeysCut, Zenon
  <2> QED BY <2>1, <2>2, <2>3, <2>4
<1>2. /\ ValueMatch(ns, <<>>, sharded) = Match(Join(v, <<>>), e)
      /\ MembersMatch(ns, <<>>, sharded) = Match(Join(m, <<>>), e)
  <2> DEFINE z == <<>>
  <2>1. z \in String
    BY Pieces
  <2> HIDE DEF z
  <2>2. ValueMatch(ns, z, sharded) = Match(Join(v, z), e)
    BY MatchesCut, Zenon
  <2>3. MembersMatch(ns, z, sharded) = Match(Join(m, z), e)
    BY MatchesCut, Zenon
  <2> QED BY <2>2, <2>3 DEF z
<1> HIDE DEF v, m, e
<1>3. /\ primaryOf(Match(v \o <<>>, e), (v \o k) \o e) = {k}
      /\ primaryOf(Match(m \o <<>>, e), (m \o k) \o e) = {k}
  BY <1>1, MatchReadsBack
<1> QED BY <1>1, <1>2, <1>3 DEF PrimaryFromValueKey, PrimaryFromMembersKey, Join

LEMMA PlainSwept ==
  ASSUME NEW ns \in String, NEW k \in String, NEW kp \in String
  PROVE  IsPrefix(NonAliasKeyPrefix(ns, kp), NonAliasKey(ns, k)) <=> IsPrefix(kp, k)
<1> DEFINE h == Join(Join(Start, ns), Separator)
<1>1. /\ NonAliasKeyPrefix(ns, kp) = h \o kp
      /\ NonAliasKey(ns, k) = h \o k
  BY DEF NonAliasKeyPrefix, NonAliasKey, Start, Join
<1>2. h \in String
  BY Pieces, Words, Joins
<1> HIDE DEF h
<1>3. IsPrefix(h \o kp, h \o k) <=> IsPrefix(kp, k)
  BY <1>2, HeadCancels
<1> QED BY <1>1, <1>3

LEMMA SweepsExactly == TypeOK => SweepExact
<1> SUFFICES ASSUME TypeOK, NEW c \in Caches, NEW k \in Text
             PROVE  LET keys == IF c.kind = "plain" THEN {NonAliasKey(c.prefix, k)}
                                ELSE RecordKeys(c, k) IN
                    /\ \A kp \in Text, key \in keys : Sweeps(c, kp, key) <=> IsPrefix(kp, k)
                    /\ c.kind # "plain" =>
                          /\ PrimaryFromValueKey(c.prefix, ValueKey(c.prefix, k, Sharded(c)), Sharded(c)) = {k}
                          /\ PrimaryFromMembersKey(c.prefix, MembersKey(c.prefix, k, Sharded(c)), Sharded(c)) = {k}
  BY DEF SweepExact
<1>1. c.prefix \in String
  <2>1. c \in Configuration
    BY DEF Caches, TypeOK
  <2> QED BY <2>1 DEF Configuration
<1>2. k \in String /\ \A kp \in Text : kp \in String
  BY TextAssumption
<1>3. Sharded(c) \in BOOLEAN
  BY DEF Sharded
<1>4. ASSUME c.kind = "plain", NEW kp \in Text
      PROVE  Sweeps(c, kp, NonAliasKey(c.prefix, k)) <=> IsPrefix(kp, k)
  BY <1>1, <1>2, <1>4, PlainSwept DEF Sweeps
<1>5. ASSUME c.kind # "plain", NEW kp \in Text, NEW key \in RecordKeys(c, k)
      PROVE  Sweeps(c, kp, key) <=> IsPrefix(kp, k)
  <2>1. kp \in String
    BY <1>2
  <2>2. CASE key = ValueKey(c.prefix, k, Sharded(c))
    BY <1>1, <1>2, <1>3, <1>5, <2>1, <2>2, RecordSwept DEF Sweeps
  <2>3. CASE key = MembersKey(c.prefix, k, Sharded(c))
    BY <1>1, <1>2, <1>3, <1>5, <2>1, <2>3, RecordSwept DEF Sweeps
  <2> QED BY <2>2, <2>3 DEF RecordKeys
<1>6. /\ PrimaryFromValueKey(c.prefix, ValueKey(c.prefix, k, Sharded(c)), Sharded(c)) = {k}
      /\ PrimaryFromMembersKey(c.prefix, MembersKey(c.prefix, k, Sharded(c)), Sharded(c)) = {k}
  BY <1>1, <1>2, <1>3, RecordReadBack
<1> QED BY <1>4, <1>5, <1>6

(* A sweep by prefix takes exactly the keys whose logical key begins with  *)
(* it, and reads back from a key the primary it was made of, whatever      *)
(* colons and braces the name of the cache and the keys hold               *)
(* (keyspace.go:76-127).                                                   *)
THEOREM AlwaysSweepExact == Spec => []SweepExact
<1>1. Spec => []TypeOK
  BY TypeCorrect
<1>2. TypeOK => SweepExact
  BY SweepsExactly
<1> QED BY <1>1, <1>2, PTL
-------------------------------------------------------------------------------
(* A text that begins with two roots of one family: names that hold no     *)
(* token of T are equal, for each ends at the first such token.            *)
LEMMA SameRoot ==
  ASSUME NEW h \in String, NEW x \in String, NEW y \in String, NEW s \in String, NEW T,
         NEW t \in Token, NEW u \in Token, t \in T, u \in T,
         \A i \in 1 .. Len(x) : x[i] \notin T, \A i \in 1 .. Len(y) : y[i] \notin T,
         IsPrefix(Root(h, x, t), s), IsPrefix(Root(h, y, u), s)
  PROVE  x = y /\ t = u
<1>1. /\ Len(h) \in Nat /\ Len(x) \in Nat /\ Len(y) \in Nat
      /\ \A i \in 1 .. Len(x) : s[Len(h) + i] = x[i]
      /\ s[Len(h) + Len(x) + 1] = t
      /\ \A i \in 1 .. Len(y) : s[Len(h) + i] = y[i]
      /\ s[Len(h) + Len(y) + 1] = u
  BY BeginsWithRoot
<1>2. ~(Len(x) < Len(y))
  <2> SUFFICES ASSUME Len(x) < Len(y) PROVE FALSE
    OBVIOUS
  <2>1. Len(x) + 1 \in 1 .. Len(y) /\ Len(h) + Len(x) + 1 = Len(h) + (Len(x) + 1)
    BY <1>1
  <2>2. y[Len(x) + 1] = t
    BY <1>1, <2>1
  <2> QED BY <2>1, <2>2
<1>3. ~(Len(y) < Len(x))
  <2> SUFFICES ASSUME Len(y) < Len(x) PROVE FALSE
    OBVIOUS
  <2>1. Len(y) + 1 \in 1 .. Len(x) /\ Len(h) + Len(y) + 1 = Len(h) + (Len(y) + 1)
    BY <1>1
  <2>2. x[Len(y) + 1] = u
    BY <1>1, <2>1
  <2> QED BY <2>1, <2>2
<1>4. Len(x) = Len(y)
  BY <1>1, <1>2, <1>3
<1>5. \A i \in 1 .. Len(x) : x[i] = y[i]
  BY <1>1, <1>4
<1>6. x = y
  BY <1>4, <1>5, SeqEqual DEF String
<1> QED BY <1>1, <1>4, <1>6

LEMMA NameAfter ==
  ASSUME NEW h \in String, NEW x \in String, NEW t \in Token, NEW s \in String,
         IsPrefix(Root(h, x, t), s)
  PROVE  \A i \in 1 .. Len(x) : s[Len(h) + i] = x[i]
  BY BeginsWithRoot

(* The name of a plain cache is at the fourth token; there the keys of a   *)
(* group hold a brace, or a word and a colon after it.                     *)
LEMMA NameIsFourth ==
  ASSUME NEW x \in String, Len(x) # 0, NEW t \in Token, NEW s \in String, NEW T, t \in T,
         \A i \in 1 .. Len(x) : x[i] \notin T,
         IsPrefix(Root(Start, x, t), s)
  PROVE  /\ s[4] \notin T
         /\ s[5] \in T => x = <<s[4]>>
<1>1. Start \in String /\ Len(Start) = 3 /\ Len(x) \in Nat
  <2>1. Len(x) \in Nat
    BY LenProperties DEF String
  <2> QED BY <2>1, Pieces
<1>2. \A i \in 1 .. Len(x) : s[3 + i] = x[i]
  <2>1. \A i \in 1 .. Len(x) : s[Len(Start) + i] = x[i]
    BY ONLY <1>1, NameAfter, x \in String, t \in Token, s \in String, IsPrefix(Root(Start, x, t), s)
  <2> QED BY <1>1, <2>1
<1>3. 1 \in 1 .. Len(x) /\ s[4] = x[1]
  <2>1. 1 \in 1 .. Len(x) /\ 3 + 1 = 4
    BY <1>1
  <2> QED BY <1>2, <2>1
<1>4. ASSUME s[5] \in T PROVE x = <<s[4]>>
  <2>1. Len(x) = 1
    <3> SUFFICES ASSUME Len(x) # 1 PROVE FALSE
      OBVIOUS
    <3>1. Len(x) \in Nat /\ Len(x) # 0 /\ Len(x) # 1
      BY <1>1
    <3>2. 2 \in 1 .. Len(x)
      <4> DEFINE n == Len(x)
      <4>1. n \in Nat /\ n # 0 /\ n # 1
        BY <3>1
      <4> HIDE DEF n
      <4>2. 2 \in 1 .. n
        BY ONLY <4>1
      <4> QED BY ONLY <4>2 DEF n
    <3>3. s[3 + 2] = x[2] /\ x[2] \notin T
      BY <1>2, <3>2
    <3> QED BY <1>4, <3>3
  <2>2. x[1] \in Token
    BY <1>3, ElementOfSeq DEF String
  <2>3. <<x[1]>> \in String /\ Len(<<x[1]>>) = 1 /\ <<x[1]>>[1] = x[1]
    BY <2>2, Words
  <2> DEFINE v == <<x[1]>>
  <2>4. v \in String /\ Len(v) = Len(x) /\ \A i \in 1 .. Len(x) : x[i] = v[i]
    BY <2>1, <2>3
  <2> HIDE DEF v
  <2>5. x = v
    BY <2>4, SeqEqual DEF String
  <2> QED BY <1>3, <2>5 DEF v
<1> QED BY <1>3, <1>4

GroupStarts == {ValueStart, MembersStart, PointerStart}

LEMMA GroupFourth ==
  ASSUME NEW g \in GroupStarts, NEW y \in String, NEW u \in Token, NEW s \in String,
         IsPrefix(Root(g, y, u), s)
  PROVE  /\ g = ValueStart => s[4] = "{"
         /\ g = MembersStart => s[4] = "memb" /\ s[5] = ":"
         /\ g = PointerStart => s[4] = "grp" /\ s[5] = ":"
<1>1. g \in String /\ \A i \in 1 .. Len(g) : s[i] = g[i]
  BY StartLengths, BeginsWithRoot DEF GroupStarts
<1>2. ASSUME g = ValueStart PROVE s[4] = ValueStart[4]
  BY <1>1, <1>2, StartLengths
<1>3. ASSUME g = MembersStart PROVE s[4] = MembersStart[4] /\ s[5] = MembersStart[5]
  BY <1>1, <1>3, StartLengths
<1>4. ASSUME g = PointerStart PROVE s[4] = PointerStart[4] /\ s[5] = PointerStart[5]
  BY <1>1, <1>4, StartLengths
<1> QED BY <1>2, <1>3, <1>4, Starts, Zenon

(* The texts that all keys of a cache begin with, those that a sweep takes *)
(* included.                                                               *)
Families(c) == IF c.kind = "plain" THEN {Start} ELSE GroupStarts
Closing(c)  == IF c.kind = "colocated" THEN "}" ELSE ":"

BeginsAs(c, s) == \E h \in Families(c) : IsPrefix(Root(h, c.prefix, Closing(c)), s)

LEMMA RootsApart ==
  ASSUME NEW c \in Configuration, NEW d \in Configuration, NEW s \in String,
         Plainly(c), Plainly(d), c.prefix # <<>>, d.prefix # <<>>,
         BeginsAs(c, s), BeginsAs(d, s)
  PROVE  c.kind = d.kind /\ c.prefix = d.prefix
<1> DEFINE T == {":", "{", "}"}
<1>1. /\ c.prefix \in String /\ d.prefix \in String
      /\ c.kind \in Kind /\ d.kind \in Kind
  BY DEF Configuration
<1>2. /\ Closing(c) \in Token /\ Closing(c) \in T
      /\ Closing(d) \in Token /\ Closing(d) \in T
  BY TokenAssumption DEF Closing
<1>3. /\ \A i \in 1 .. Len(c.prefix) : c.prefix[i] \notin T
      /\ \A i \in 1 .. Len(d.prefix) : d.prefix[i] \notin T
  BY DEF Plainly
<1>4. PICK h \in Families(c) : IsPrefix(Root(h, c.prefix, Closing(c)), s)
  BY DEF BeginsAs
<1>5. PICK g \in Families(d) : IsPrefix(Root(g, d.prefix, Closing(d)), s)
  BY DEF BeginsAs
<1>6. h \in String /\ g \in String
  BY Pieces, StartLengths DEF Families, GroupStarts
<1>7. ASSUME h = g PROVE c.prefix = d.prefix /\ Closing(c) = Closing(d)
  <2> HIDE DEF T
  <2>1. IsPrefix(Root(h, d.prefix, Closing(d)), s)
    BY <1>5, <1>7
  <2>2. h \in String /\ c.prefix \in String /\ d.prefix \in String
    BY <1>1, <1>6
  <2> QED BY ONLY <1>2, <1>3, <1>4, <2>1, <2>2, s \in String, SameRoot
<1>8. ASSUME NEW e \in Configuration, Plainly(e), e.kind = "plain", e.prefix # <<>>,
             IsPrefix(Root(Start, e.prefix, ":"), s),
             NEW f \in GroupStarts, NEW y \in String, NEW u \in Token, IsPrefix(Root(f, y, u), s)
      PROVE  FALSE
  <2>1. /\ f = ValueStart => s[4] = "{"
        /\ f = MembersStart => s[4] = "memb" /\ s[5] = ":"
        /\ f = PointerStart => s[4] = "grp" /\ s[5] = ":"
    BY <1>8, GroupFourth
  <2>2. s[4] \notin T /\ (s[5] \in T => e.prefix = <<s[4]>>)
    <3>1. e.prefix \in String /\ \A i \in 1 .. Len(e.prefix) : e.prefix[i] \notin T
      BY <1>8 DEF Configuration, Plainly
    <3>2. ":" \in Token /\ ":" \in T
      BY TokenAssumption
    <3>3. Len(e.prefix) # 0
      BY <1>8, <3>1, EmptySeq DEF String
    <3> HIDE DEF T
    <3> QED BY <1>8, <3>1, <3>2, <3>3, NameIsFourth
  <2>3. e.prefix # <<"memb">> /\ e.prefix # <<"grp">>
    BY <1>8 DEF Plainly
  <2>4. CASE f = ValueStart
    BY <2>1, <2>2, <2>4
  <2>5. CASE f = MembersStart
    <3>1. s[4] = "memb" /\ s[5] \in T
      BY <2>1, <2>5
    <3> QED BY <2>2, <2>3, <3>1
  <2>6. CASE f = PointerStart
    <3>1. s[4] = "grp" /\ s[5] \in T
      BY <2>1, <2>6
    <3> QED BY <2>2, <2>3, <3>1
  <2> QED BY <2>4, <2>5, <2>6 DEF GroupStarts
<1>9. CASE c.kind = "plain" /\ d.kind = "plain"
  BY <1>7, <1>9 DEF Families
<1>10. CASE c.kind = "plain" /\ d.kind # "plain"
  <2>1. h = Start /\ Closing(c) = ":" /\ g \in GroupStarts
    BY <1>10 DEF Families, Closing
  <2> QED BY <1>1, <1>2, <1>4, <1>5, <1>8, <1>10, <2>1
<1>11. CASE c.kind # "plain" /\ d.kind = "plain"
  <2>1. g = Start /\ Closing(d) = ":" /\ h \in GroupStarts
    BY <1>11 DEF Families, Closing
  <2> QED BY <1>1, <1>2, <1>4, <1>5, <1>8, <1>11, <2>1
<1>12. CASE c.kind # "plain" /\ d.kind # "plain"
  <2>1. h \in GroupStarts /\ g \in GroupStarts
    BY <1>12 DEF Families
  <2>2. /\ h = ValueStart => s[4] = "{"
        /\ h = MembersStart => s[4] = "memb"
        /\ h = PointerStart => s[4] = "grp"
    BY <1>1, <1>2, <1>4, <2>1, GroupFourth
  <2>3. /\ g = ValueStart => s[4] = "{"
        /\ g = MembersStart => s[4] = "memb"
        /\ g = PointerStart => s[4] = "grp"
    BY <1>1, <1>2, <1>5, <2>1, GroupFourth
  <2>4. h = g
    BY <2>1, <2>2, <2>3 DEF GroupStarts
  <2>5. c.kind = d.kind
    BY <1>1, <1>7, <1>12, <2>4 DEF Closing, Kind
  <2> QED BY <1>7, <2>4, <2>5
<1> QED BY <1>9, <1>10, <1>11, <1>12

LEMMA PlainBegins ==
  ASSUME NEW ns \in String, NEW k \in String, NEW s \in String, IsPrefix(NonAliasKey(ns, k), s)
  PROVE  IsPrefix(Root(Start, ns, ":"), s)
<1> DEFINE c == <<":">>  h == Join(Start, ns)  p == Separator
<1>1. c \in String /\ p \in String /\ h \in String
  <2>1. ":" \in Token
    BY TokenAssumption
  <2> QED BY <2>1, Pieces, Words, Joins
<1>2. p = Join(c, c)
  BY DEF Separator, Join
<1>3. NonAliasKey(ns, k) = Join(Join(h, p), k) /\ Root(Start, ns, ":") = Join(h, c)
  BY DEF NonAliasKey, Start, Root, Join
<1> HIDE DEF c, h, p
<1>4. Join(h, p) \in String /\ Join(h, c) \in String
  BY <1>1, Joins
<1>5. IsPrefix(Join(h, p), s)
  <2>1. IsPrefix(Join(Join(h, p), k), s)
    BY <1>3
  <2> QED BY <1>4, <2>1, BeginsWithFirst
<1>6. Join(h, p) = Join(Join(h, c), c)
  <2>1. Join(h, Join(c, c)) = Join(Join(h, c), c)
    BY <1>1, Joins
  <2> QED BY <1>2, <2>1
<1>7. IsPrefix(Join(h, c), s)
  <2>1. IsPrefix(Join(Join(h, c), c), s)
    BY <1>5, <1>6
  <2> QED BY <1>1, <1>4, <2>1, BeginsWithFirst
<1> QED BY <1>3, <1>7

LEMMA GroupBegins ==
  ASSUME NEW c \in Configuration, c.kind # "plain", NEW s \in String,
         \/ IsPrefix(ValueHead(c.prefix, Sharded(c)), s)
         \/ IsPrefix(MembersHead(c.prefix, Sharded(c)), s)
         \/ IsPrefix(PointerHead(c.prefix, Sharded(c)), s)
  PROVE  BeginsAs(c, s)
<1>1. c.prefix \in String /\ Mark(Sharded(c)) = Closing(c) /\ Families(c) = GroupStarts
  BY DEF Configuration, Kind, Mark, Sharded, Closing, Families
<1>2. Start \in String /\ WordStart("memb") \in String /\ WordStart("grp") \in String
  <2>1. "memb" \in Token /\ "grp" \in Token
    BY TokenAssumption
  <2> QED BY <2>1, Pieces, WordStartTokens
<1>3. CASE IsPrefix(ValueHead(c.prefix, Sharded(c)), s)
  <2>1. IsPrefix(Root(ValueStart, c.prefix, Mark(Sharded(c))), s)
    BY <1>1, <1>2, <1>3, OpenedBegins DEF ValueHead, ValueStart
  <2> QED BY <1>1, <2>1 DEF BeginsAs, GroupStarts
<1>4. CASE IsPrefix(MembersHead(c.prefix, Sharded(c)), s)
  <2>1. IsPrefix(Root(MembersStart, c.prefix, Mark(Sharded(c))), s)
    BY <1>1, <1>2, <1>4, OpenedBegins DEF MembersHead, MembersStart
  <2> QED BY <1>1, <2>1 DEF BeginsAs, GroupStarts
<1>5. CASE IsPrefix(PointerHead(c.prefix, Sharded(c)), s)
  <2>1. IsPrefix(Root(PointerStart, c.prefix, Mark(Sharded(c))), s)
    BY <1>1, <1>2, <1>5, OpenedBegins DEF PointerHead, PointerStart
  <2> QED BY <1>1, <2>1 DEF BeginsAs, GroupStarts
<1> QED BY <1>3, <1>4, <1>5

LEMMA BeginsWithHead ==
  ASSUME NEW h \in String, NEW k \in String, NEW e \in String
  PROVE  Join(Join(h, k), e) \in String /\ IsPrefix(h, Join(Join(h, k), e))
<1>1. Join(h, k) \in String
  BY Joins
<1>2. Join(Join(h, k), e) \in String /\ IsPrefix(Join(h, k), Join(Join(h, k), e))
  BY <1>1, Joins, BeginsWithFirst
<1> QED BY <1>1, <1>2, BeginsWithFirst

LEMMA KeysBegin ==
  ASSUME NEW c \in Configuration, NEW key \in KeysOf(c)
  PROVE  key \in String /\ BeginsAs(c, key)
<1> DEFINE ns == c.prefix  sh == Sharded(c)
<1>1. ns \in String /\ \A k \in Text : k \in String
  BY TextAssumption DEF Configuration
<1>2. Ending(sh) \in String
  BY Pieces
<1>3. CASE c.kind = "plain"
  <2>1. PICK k \in Text : key = NonAliasKey(ns, k)
    BY <1>3 DEF KeysOf
  <2>2. key \in String
    <3>1. key = Join(Join(Join(Start, ns), Separator), k)
      BY <2>1 DEF NonAliasKey, Start, Join
    <3>2. Join(Start, ns) \in String /\ Separator \in String /\ k \in String
      BY <1>1, Pieces, Words, Joins
    <3>3. Join(Join(Start, ns), Separator) \in String
      BY <3>2, Joins
    <3> QED BY <3>1, <3>2, <3>3, Joins
  <2>3. IsPrefix(key, key)
    BY <2>2, LenProperties, PrefixPointwise DEF String
  <2>4. IsPrefix(Root(Start, ns, ":"), key)
    BY <1>1, <2>1, <2>2, <2>3, PlainBegins
  <2> QED BY <1>3, <2>2, <2>4 DEF BeginsAs, Families, Closing
<1>4. ASSUME c.kind # "plain", NEW f \in Text, NEW a \in Text, key = PointerKey(ns, f, a, sh)
      PROVE  key \in String /\ BeginsAs(c, key)
  <2> DEFINE h == PointerHead(ns, sh)  k == Join(Join(f, Separator), a)  e == Ending(sh)
  <2>1. h \in String /\ k \in String /\ e \in String /\ key = Join(Join(h, k), e)
    <3>1. f \in String /\ a \in String /\ ns \in String
      BY <1>1
    <3>2. k \in String /\ h \in String
      BY <1>1, <3>1, PointerKeyCut, Zenon
    <3>3. PointerKey(ns, f, a, sh) = Join(Join(h, k), e)
      BY <3>1, PointerKeyCut
    <3> QED BY <1>2, <1>4, <3>2, <3>3
  <2> HIDE DEF h, k, e
  <2>2. key \in String /\ IsPrefix(h, key)
    BY <2>1, BeginsWithHead
  <2> QED BY <1>4, <2>2, GroupBegins DEF h
<1>5. ASSUME c.kind # "plain", NEW k \in Text, key = ValueKey(ns, k, sh)
      PROVE  key \in String /\ BeginsAs(c, key)
  <2> DEFINE h == ValueHead(ns, sh)  e == Ending(sh)
  <2>1. h \in String /\ k \in String /\ e \in String /\ key = Join(Join(h, k), e)
    BY <1>1, <1>2, <1>5, KeysCut, Zenon
  <2> HIDE DEF h, e
  <2>2. key \in String /\ IsPrefix(h, key)
    BY <2>1, BeginsWithHead
  <2> QED BY <1>5, <2>2, GroupBegins DEF h
<1>6. ASSUME c.kind # "plain", NEW k \in Text, key = MembersKey(ns, k, sh)
      PROVE  key \in String /\ BeginsAs(c, key)
  <2> DEFINE h == MembersHead(ns, sh)  e == Ending(sh)
  <2>1. h \in String /\ k \in String /\ e \in String /\ key = Join(Join(h, k), e)
    BY <1>1, <1>2, <1>6, KeysCut, Zenon
  <2> HIDE DEF h, e
  <2>2. key \in String /\ IsPrefix(h, key)
    BY <2>1, BeginsWithHead
  <2> QED BY <1>6, <2>2, GroupBegins DEF h
<1>7. CASE c.kind # "plain"
  <2>1. key \in PointerKeys(c) \/ \E k \in Text : key \in RecordKeys(c, k)
    BY <1>7 DEF KeysOf
  <2>2. CASE key \in PointerKeys(c)
    BY <1>4, <1>7, <2>2 DEF PointerKeys
  <2>3. ASSUME NEW k \in Text, key \in RecordKeys(c, k) PROVE key \in String /\ BeginsAs(c, key)
    BY <1>5, <1>6, <1>7, <2>3 DEF RecordKeys
  <2> QED BY <2>1, <2>2, <2>3
<1> QED BY <1>3, <1>7

LEMMA SweepsBegin ==
  ASSUME NEW c \in Configuration, NEW kp \in Text, NEW s \in String, Sweeps(c, kp, s)
  PROVE  BeginsAs(c, s)
<1> DEFINE ns == c.prefix  sh == Sharded(c)
<1>1. ns \in String /\ kp \in String
  BY TextAssumption DEF Configuration
<1>2. CASE c.kind = "plain"
  <2>1. IsPrefix(NonAliasKey(ns, kp), s)
    BY <1>2 DEF Sweeps, NonAliasKeyPrefix
  <2>2. IsPrefix(Root(Start, ns, ":"), s)
    BY <1>1, <2>1, PlainBegins
  <2> QED BY <1>2, <2>2 DEF BeginsAs, Families, Closing
<1>3. CASE c.kind # "plain"
  <2> DEFINE v == ValueHead(ns, sh)  m == MembersHead(ns, sh)
  <2>1. v \in String /\ m \in String
    BY <1>1, KeysCut, Zenon
  <2>2. IsPrefix(Join(v, kp), s) \/ IsPrefix(Join(m, kp), s)
    <3> DEFINE e == Ending(sh)
    <3>1. Matches(ValueMatch(ns, kp, sh), s) \/ Matches(MembersMatch(ns, kp, sh), s)
      BY <1>3 DEF Sweeps
    <3>2. ValueMatch(ns, kp, sh) = Match(Join(v, kp), e) /\ MembersMatch(ns, kp, sh) = Match(Join(m, kp), e)
      BY MatchesCut, Zenon
    <3> HIDE DEF v, m, e
    <3>3. Matches(Match(Join(v, kp), e), s) \/ Matches(Match(Join(m, kp), e), s)
      BY <3>1, <3>2
    <3> QED BY <3>3 DEF Matches, Match
  <2>3. IsPrefix(v, s) \/ IsPrefix(m, s)
    <3> HIDE DEF v, m
    <3> QED BY <1>1, <2>1, <2>2, BeginsWithFirst
  <2> QED BY <1>3, <2>3, GroupBegins
<1> QED BY <1>2, <1>3

(* Caches keep out of each other's keys (roadmap.md:46), under the         *)
(* conditions that CachesApart names and the code leaves to the            *)
(* application, for names and keys of any length.                          *)
THEOREM AlwaysCachesApart == Spec => []CachesApart
<1>1. TypeOK => CachesApart
  <2> SUFFICES ASSUME TypeOK, NEW c \in Caches, NEW d \in Caches, Plainly(c), Plainly(d),
                      <<c.kind, c.prefix>> # <<d.kind, d.prefix>>, NEW key \in KeysOf(c)
               PROVE  /\ key \notin KeysOf(d)
                      /\ \A kp \in Text \ {<<>>} : ~Sweeps(d, kp, key)
    BY DEF CachesApart
  <2>1. /\ c \in Configuration /\ d \in Configuration
        /\ c.prefix # <<>> /\ d.prefix # <<>>
    BY DEF Caches, TypeOK
  <2>2. key \in String /\ BeginsAs(c, key)
    BY <2>1, KeysBegin
  <2>3. ~BeginsAs(d, key)
    BY <2>1, <2>2, RootsApart
  <2>4. key \notin KeysOf(d)
    BY <2>1, <2>3, KeysBegin
  <2>5. ASSUME NEW kp \in Text, Sweeps(d, kp, key) PROVE FALSE
    BY <2>1, <2>2, <2>3, <2>5, SweepsBegin
  <2> QED BY <2>4, <2>5
<1> QED BY <1>1, TypeCorrect, PTL
-------------------------------------------------------------------------------
(* What Redis Cluster hashes of a key: the first brace that opens, the     *)
(* first one behind it that closes.                                        *)
(* A set of natural numbers has a least element, which is what Min returns. *)
LEMMA Least ==
  ASSUME NEW S, S \subseteq Nat, S # {}
  PROVE  Min(S) \in S /\ \A n \in S : Min(S) <= n
<1> DEFINE R == OpToRel(<, Nat)
<1>1. PICK m \in S : \A n \in S : ~(<<n, m>> \in R)
  BY NatLessThanWellFounded, WFMin
<1>2. \A n \in Nat, k \in Nat : n < k => <<n, k>> \in R
  BY DEF OpToRel
<1> HIDE DEF R
<1>3. ASSUME NEW n \in S PROVE m <= n
  <2>1. n \in Nat /\ m \in Nat /\ ~(n < m)
    BY <1>1, <1>2
  <2> QED BY <2>1
<1> QED BY <1>3 DEF Min

Places(s, t, m, n) == {i \in m .. n : s[i] = t}

(* The first place of a token, from some place on. *)
LEMMA FirstPlace ==
  ASSUME NEW s, NEW t, NEW m \in Nat, NEW n \in Nat, NEW q \in m .. n,
         s[q] = t, \A i \in m .. q - 1 : s[i] # t
  PROVE  Places(s, t, m, n) # {} /\ Min(Places(s, t, m, n)) = q
<1> DEFINE I == Places(s, t, m, n)
<1>1. q \in I /\ I \subseteq Nat /\ \A i \in I : i \in m .. n /\ s[i] = t
  BY DEF Places
<1> HIDE DEF I
<1>2. Min(I) \in I /\ \A i \in I : Min(I) <= i
  BY <1>1, Least
<1>3. Min(I) <= q /\ Min(I) \in m .. n /\ s[Min(I)] = t
  BY <1>1, <1>2
<1>4. ~(Min(I) \in m .. q - 1)
  BY <1>3
<1>5. Min(I) = q
  BY <1>3, <1>4
<1> QED BY <1>1, <1>5 DEF I

(* The first brace that opens, and the first that closes behind it. *)
OpeningBrace == "{"
ClosingBrace == "}"

LEMMA TagFound ==
  ASSUME NEW s, Len(s) \in Nat, NEW o \in 1 .. Len(s), NEW q \in o + 2 .. Len(s),
         s[o] = OpeningBrace, \A i \in 1 .. o - 1 : s[i] # OpeningBrace,
         s[q] = ClosingBrace, \A i \in o + 1 .. q - 1 : s[i] # ClosingBrace
  PROVE  HashTag(s) = SubSeq(s, o + 1, q - 1)
<1>1. SelectInSeq(s, LAMBDA t : t = "{") = o
  <2>1. Places(s, OpeningBrace, 1, Len(s)) # {} /\ Min(Places(s, OpeningBrace, 1, Len(s))) = o
    BY FirstPlace
  <2> QED BY <2>1 DEF SelectInSeq, OpeningBrace, Places
<1>2. SelectInSubSeq(s, o + 1, Len(s), LAMBDA t : t = "}") = q
  <2>1. o + 1 \in Nat /\ q \in o + 1 .. Len(s)
    OBVIOUS
  <2>2. /\ Places(s, ClosingBrace, o + 1, Len(s)) # {}
        /\ Min(Places(s, ClosingBrace, o + 1, Len(s))) = q
    BY <2>1, FirstPlace
  <2> QED BY <2>2 DEF SelectInSubSeq, ClosingBrace, Places
<1>3. o # 0 /\ q > o + 1
  OBVIOUS
<1> QED BY <1>1, <1>2, <1>3 DEF HashTag
(* Where a name is cut by the first closing brace in it, or else behind it. *)
Cut(x) == {i \in 1 .. Len(x) + 1 : i = Len(x) + 1 \/ x[i] = ClosingBrace}
Tag(x) == SubSeq(x, 1, Min(Cut(x)) - 1)

LEMMA CutFirst ==
  ASSUME NEW x \in String, Len(x) # 0, x[1] # ClosingBrace
  PROVE  /\ Min(Cut(x)) \in 2 .. Len(x) + 1
         /\ Min(Cut(x)) = Len(x) + 1 \/ x[Min(Cut(x))] = ClosingBrace
         /\ \A i \in 1 .. Min(Cut(x)) - 1 : i \in 1 .. Len(x) /\ x[i] # ClosingBrace
<1> DEFINE n == Min(Cut(x))
<1>1. Len(x) \in Nat
  BY LenProperties DEF String
<1>2. /\ Len(x) + 1 \in Cut(x) /\ Cut(x) \subseteq Nat
      /\ \A i \in Cut(x) : i \in 1 .. Len(x) + 1 /\ (i = Len(x) + 1 \/ x[i] = ClosingBrace)
      /\ \A i \in 1 .. Len(x) : x[i] = ClosingBrace => i \in Cut(x)
  BY <1>1 DEF Cut
<1>3. n \in Cut(x) /\ \A i \in Cut(x) : n <= i
  BY <1>2, Least
<1> HIDE DEF n
<1>4. n \in 2 .. Len(x) + 1
  BY <1>1, <1>2, <1>3
<1>5. ASSUME NEW i \in 1 .. n - 1 PROVE i \in 1 .. Len(x) /\ x[i] # ClosingBrace
  <2>1. i \in 1 .. Len(x) /\ ~(n <= i)
    BY <1>1, <1>4
  <2> QED BY <1>2, <1>3, <2>1
<1> QED BY <1>2, <1>3, <1>4, <1>5 DEF n

(* What is hashed of a key is the name in its root, or the name up to its  *)
(* first closing brace: it does not depend on what follows the root.       *)
LEMMA TagOfRoot ==
  ASSUME NEW h \in String, Len(h) # 0, h[Len(h)] = OpeningBrace,
         \A i \in 1 .. Len(h) - 1 : h[i] # OpeningBrace,
         NEW x \in String, Len(x) # 0, x[1] # ClosingBrace,
         NEW s \in String, IsPrefix(Root(h, x, ClosingBrace), s)
  PROVE  HashTag(s) = Tag(x)
<1> DEFINE n == Min(Cut(x))  o == Len(h)  r == Root(h, x, ClosingBrace)
<1>1. ClosingBrace \in Token
  BY TokenAssumption DEF ClosingBrace
<1>2. /\ o \in Nat /\ Len(x) \in Nat
      /\ \A i \in 1 .. Len(h) : s[i] = h[i]
      /\ \A i \in 1 .. Len(x) : s[o + i] = x[i]
      /\ s[o + Len(x) + 1] = ClosingBrace
  BY <1>1, BeginsWithRoot
<1>3. Len(s) \in Nat /\ o + Len(x) + 1 <= Len(s)
  <2>1. r \in String /\ Len(r) = o + Len(x) + 1
    BY <1>1, RootTokens
  <2> HIDE DEF r
  <2>2. Len(r) <= Len(s)
    <3>1. IsPrefix(r, s)
      BY DEF r
    <3> QED BY <2>1, <3>1, PrefixPointwise
  <2> QED BY <2>1, <2>2, LenProperties DEF String
<1>4. /\ n \in 2 .. Len(x) + 1
      /\ n = Len(x) + 1 \/ x[n] = ClosingBrace
      /\ \A i \in 1 .. n - 1 : i \in 1 .. Len(x) /\ x[i] # ClosingBrace
  BY CutFirst
<1> HIDE DEF n, o
<1> DEFINE q == o + n
<1>5. o \in 1 .. Len(s) /\ q \in o + 2 .. Len(s)
  BY <1>2, <1>3, <1>4 DEF o
<1>6. s[o] = OpeningBrace /\ \A i \in 1 .. o - 1 : s[i] # OpeningBrace
  BY <1>2 DEF o
<1>7. s[q] = ClosingBrace
  <2>1. CASE n = Len(x) + 1
    <3>1. q = o + Len(x) + 1
      BY <1>2, <2>1
    <3> QED BY <1>2, <3>1
  <2>2. CASE n # Len(x) + 1
    <3>1. n \in 1 .. Len(x)
      BY <1>2, <1>4, <2>2
    <3> QED BY <1>2, <1>4, <2>2, <3>1
  <2> QED BY <2>1, <2>2
<1>8. ASSUME NEW i \in o + 1 .. q - 1 PROVE s[i] # ClosingBrace
  <2>1. i - o \in 1 .. n - 1 /\ i = o + (i - o)
    BY <1>2, <1>4
  <2>2. i - o \in 1 .. Len(x) /\ x[i - o] # ClosingBrace
    BY <1>4, <2>1
  <2> QED BY <1>2, <2>1, <2>2
<1>9. HashTag(s) = SubSeq(s, o + 1, q - 1)
  <2> HIDE DEF q
  <2> QED BY <1>3, <1>5, <1>6, <1>7, <1>8, TagFound
<1>10. SubSeq(s, o + 1, q - 1) = SubSeq(x, 1, n - 1)
  <2>1. o + 1 \in Int /\ q - 1 \in Int /\ n - 1 \in Int /\ (q - 1) - (o + 1) + 1 = n - 1
    BY <1>2, <1>4
  <2>2. ASSUME NEW i \in 1 .. n - 1 PROVE s[o + 1 + i - 1] = x[1 + i - 1] /\ x[i] \in Token
    <3>1. i \in 1 .. Len(x) /\ o + 1 + i - 1 = o + i /\ 1 + i - 1 = i
      BY <1>2, <1>4
    <3> QED BY <1>2, <3>1, ElementOfSeq DEF String
  <2>3. ASSUME NEW i \in o + 1 .. q - 1 PROVE s[i] \in Token
    <3>1. i \in 1 .. Len(s)
      BY <1>2, <1>3, <1>4, <1>5
    <3> QED BY <3>1, ElementOfSeq DEF String
  <2> HIDE DEF q
  <2>4. /\ SubSeq(s, o + 1, q - 1) \in Seq(Token)
        /\ Len(SubSeq(s, o + 1, q - 1)) = IF o + 1 <= q - 1 THEN (q - 1) - (o + 1) + 1 ELSE 0
        /\ \A i \in 1 .. (q - 1) - (o + 1) + 1 : SubSeq(s, o + 1, q - 1)[i] = s[o + 1 + i - 1]
    BY <2>1, <2>3, SubSeqProperties
  <2>5. /\ SubSeq(x, 1, n - 1) \in Seq(Token)
        /\ Len(SubSeq(x, 1, n - 1)) = IF 1 <= n - 1 THEN (n - 1) - 1 + 1 ELSE 0
        /\ \A i \in 1 .. (n - 1) - 1 + 1 : SubSeq(x, 1, n - 1)[i] = x[1 + i - 1]
    BY <2>1, <2>2, SubSeqProperties
  <2>6. /\ Len(SubSeq(s, o + 1, q - 1)) = n - 1 /\ Len(SubSeq(x, 1, n - 1)) = n - 1
    BY <1>4, <1>5, <2>1, <2>4, <2>5
  <2>7. \A i \in 1 .. n - 1 : SubSeq(s, o + 1, q - 1)[i] = SubSeq(x, 1, n - 1)[i]
    <3>1. (n - 1) - 1 + 1 = n - 1
      BY <2>1
    <3> QED BY <2>1, <2>2, <2>4, <2>5, <3>1
  <2> QED BY <2>4, <2>5, <2>6, <2>7, SeqEqual
<1> QED BY <1>9, <1>10 DEF Tag, n

Free(s, t) == \A i \in 1 .. Len(s) : s[i] # t

LEMMA JoinFree ==
  ASSUME NEW a \in String, NEW b \in String, NEW t, Free(a, t), Free(b, t)
  PROVE  Free(Join(a, b), t)
<1> DEFINE c == Join(a, b)
<1>1. /\ Len(a) \in Nat /\ Len(b) \in Nat /\ Len(c) = Len(a) + Len(b)
      /\ \A i \in 1 .. Len(a) : c[i] = a[i]
      /\ \A i \in 1 .. Len(b) : c[Len(a) + i] = b[i]
  BY JoinTokens
<1> HIDE DEF c
<1>2. ASSUME NEW i \in 1 .. Len(c) PROVE c[i] # t
  <2>1. CASE i <= Len(a)
    <3>1. i \in 1 .. Len(a)
      BY <1>1, <2>1
    <3> QED BY <1>1, <3>1 DEF Free
  <2>2. CASE ~(i <= Len(a))
    <3>1. i - Len(a) \in 1 .. Len(b) /\ Len(a) + (i - Len(a)) = i
      BY <1>1, <2>2
    <3>2. c[Len(a) + (i - Len(a))] = b[i - Len(a)]
      BY <1>1, <3>1
    <3> QED BY <3>1, <3>2 DEF Free
  <2> QED BY <2>1, <2>2
<1> QED BY <1>2 DEF Free, c

(* A text that ends in an opening brace, its only one. *)
Opens(h) ==
    /\ h \in String /\ Len(h) # 0 /\ h[Len(h)] = OpeningBrace
    /\ \A i \in 1 .. Len(h) - 1 : h[i] # OpeningBrace

LEMMA OpensAtEnd ==
  ASSUME NEW a \in String, Free(a, OpeningBrace)
  PROVE  Opens(Join(a, <<OpeningBrace>>))
<1> DEFINE o == <<OpeningBrace>>  h == Join(a, o)
<1>1. o \in String /\ Len(o) = 1 /\ o[1] = OpeningBrace
  <2>1. OpeningBrace \in Token
    BY TokenAssumption DEF OpeningBrace
  <2> QED BY <2>1, Words
<1> HIDE DEF o
<1>2. /\ h \in String /\ Len(a) \in Nat /\ Len(h) = Len(a) + Len(o)
      /\ \A i \in 1 .. Len(a) : h[i] = a[i]
      /\ \A i \in 1 .. Len(o) : h[Len(a) + i] = o[i]
  BY <1>1, JoinTokens
<1> HIDE DEF h
<1>3. 1 \in 1 .. Len(o) /\ Len(h) = Len(a) + 1
  BY <1>1, <1>2
<1>4. h[Len(h)] = OpeningBrace
  <2>1. h[Len(a) + 1] = o[1]
    BY <1>2, <1>3
  <2> QED BY <1>1, <1>3, <2>1
<1>5. \A i \in 1 .. Len(h) - 1 : h[i] # OpeningBrace
  BY <1>2, <1>3 DEF Free
<1> QED BY <1>2, <1>3, <1>4, <1>5 DEF Opens, h, o

LEMMA StartsFree ==
  /\ Start \in String /\ Free(Start, OpeningBrace)
  /\ WordStart("memb") \in String /\ Free(WordStart("memb"), OpeningBrace)
  /\ WordStart("grp") \in String /\ Free(WordStart("grp"), OpeningBrace)
<1>1. ASSUME NEW w \in Token, w # OpeningBrace
      PROVE  <<w>> \in String /\ Free(<<w>>, OpeningBrace)
  <2>1. <<w>> \in String /\ Len(<<w>>) = 1 /\ <<w>>[1] = w
    BY Words
  <2> QED BY <1>1, <2>1 DEF Free
<1>2. /\ "bc" \in Token /\ "memb" \in Token /\ "grp" \in Token
      /\ "bc" # OpeningBrace /\ "memb" # OpeningBrace /\ "grp" # OpeningBrace /\ ":" # OpeningBrace
  BY TokenAssumption DEF OpeningBrace
<1>3. Separator \in String /\ Free(Separator, OpeningBrace)
  <2>1. /\ Separator \in String /\ Len(Separator) = 2
        /\ Separator[1] # OpeningBrace /\ Separator[2] # OpeningBrace
    BY <1>2, Words
  <2>2. \A i \in 1 .. 2 : i = 1 \/ i = 2
    OBVIOUS
  <2> QED BY <2>1, <2>2 DEF Free
<1>4. Start \in String /\ Free(Start, OpeningBrace)
  <2> DEFINE b == <<"bc">>
  <2>1. b \in String /\ Free(b, OpeningBrace)
    BY <1>1, <1>2
  <2>2. Start = Join(b, Separator)
    BY DEF Start, Join
  <2> HIDE DEF b
  <2> QED BY <1>3, <2>1, <2>2, JoinFree, Joins
<1>5. ASSUME NEW w \in Token, w # OpeningBrace
      PROVE  WordStart(w) \in String /\ Free(WordStart(w), OpeningBrace)
  <2> DEFINE b == <<w>>
  <2>1. b \in String /\ Free(b, OpeningBrace)
    BY <1>1, <1>5
  <2>2. WordStart(w) = Join(Join(Start, b), Separator)
    BY DEF WordStart, Join
  <2> HIDE DEF b
  <2>3. Join(Start, b) \in String /\ Free(Join(Start, b), OpeningBrace)
    BY <1>4, <2>1, JoinFree, Joins
  <2> QED BY <1>3, <2>2, <2>3, JoinFree, Joins
<1> QED BY <1>2, <1>4, <1>5

(* The families of keys of alias groups. *)
Family == {Start, WordStart("memb"), WordStart("grp")}

LEMMA FamilyOpens ==
  ASSUME NEW a \in Family
  PROVE  a \in String /\ Opens(Join(a, <<"{">>))
<1>1. a \in String /\ Free(a, OpeningBrace)
  BY StartsFree DEF Family
<1> QED BY <1>1, OpensAtEnd DEF OpeningBrace

LEMMA SelfPrefix == \A s \in String : IsPrefix(s, s)
  BY LenProperties, PrefixPointwise DEF String

(* What Redis hashes of a key of a colocated cache. *)
LEMMA ColocatedTag ==
  ASSUME NEW a \in Family, NEW ns \in String, Len(ns) # 0, ns[1] # ClosingBrace,
         NEW s \in String, IsPrefix(Opened(a, ns, FALSE), s)
  PROVE  HashTag(s) = Tag(ns)
<1>1. a \in String /\ Opens(Join(a, <<"{">>))
  BY FamilyOpens
<1>2. IsPrefix(Root(Join(a, <<"{">>), ns, ClosingBrace), s)
  <2>1. IsPrefix(Root(Join(a, <<"{">>), ns, Mark(FALSE)), s)
    BY <1>1, OpenedBegins
  <2> QED BY <2>1 DEF Mark, ClosingBrace
<1> DEFINE h == Join(a, <<"{">>)
<1> HIDE DEF h
<1>3. Opens(h) /\ IsPrefix(Root(h, ns, ClosingBrace), s)
  BY <1>1, <1>2 DEF h
<1> QED BY <1>3, TagOfRoot DEF Opens

(* And of a sharded one. *)
LEMMA ShardedTag ==
  ASSUME NEW a \in Family, NEW ns \in String, Len(ns) # 0, ns[1] # ClosingBrace, NEW k \in String,
         NEW s, s = Join(Join(Opened(a, ns, TRUE), k), Ending(TRUE))
  PROVE  HashTag(s) = Tag(Join(Join(ns, Separator), k))
<1> DEFINE h == Join(a, <<"{">>)  p == Separator  x == Join(Join(ns, p), k)  e == <<ClosingBrace>>
<1>1. a \in String /\ Opens(h)
  BY FamilyOpens
<1>2. Opened(a, ns, TRUE) = Join(Join(h, ns), p) /\ Ending(TRUE) = e
  BY DEF Opened, Ending, ClosingBrace, Join
<1>3. h \in String /\ p \in String /\ e \in String
  <2>1. ClosingBrace \in Token
    BY TokenAssumption DEF ClosingBrace
  <2> QED BY <1>1, <2>1, Words DEF Opens
<1> HIDE DEF h, p, e
<1>4. x \in String /\ Len(x) # 0 /\ x[1] = ns[1]
  <2> DEFINE y == Join(ns, p)
  <2>1. /\ Len(ns) \in Nat /\ Len(p) \in Nat /\ y \in String /\ Len(y) = Len(ns) + Len(p)
        /\ \A i \in 1 .. Len(ns) : y[i] = ns[i]
    BY <1>3, JoinTokens
  <2> HIDE DEF y
  <2>2. /\ Len(k) \in Nat /\ Join(y, k) \in String /\ Len(Join(y, k)) = Len(y) + Len(k)
        /\ \A i \in 1 .. Len(y) : Join(y, k)[i] = y[i]
    BY <2>1, JoinTokens
  <2>3. 1 \in 1 .. Len(ns) /\ 1 \in 1 .. Len(y)
    BY <2>1
  <2>4. Join(y, k) \in String /\ Len(Join(y, k)) # 0 /\ Join(y, k)[1] = ns[1]
    BY <2>1, <2>2, <2>3
  <2> QED BY <2>4 DEF y
<1>5. Join(Join(Join(h, ns), p), k) = Join(h, x)
  <2>1. Join(ns, p) \in String
    BY <1>3, Joins
  <2>2. Join(h, Join(Join(ns, p), k)) = Join(Join(h, Join(ns, p)), k)
    BY <1>3, <2>1, Joins
  <2>3. Join(h, Join(ns, p)) = Join(Join(h, ns), p)
    BY <1>3, Joins
  <2> QED BY <2>2, <2>3
<1>6. s = Root(h, x, ClosingBrace)
  BY <1>2, <1>5 DEF Root, e
<1>7. s \in String /\ IsPrefix(Root(h, x, ClosingBrace), s)
  <2> HIDE DEF x
  <2>1. s \in String
    <3>1. Join(h, x) \in String
      BY <1>3, <1>4, Joins
    <3>2. s = Join(Join(h, x), e)
      BY <1>6 DEF Root, e
    <3>3. Join(Join(h, x), e) \in String
      BY <1>3, <3>1, Joins
    <3> QED BY ONLY <3>2, <3>3
  <2>2. IsPrefix(s, s)
    BY ONLY <2>1, SelfPrefix
  <2> QED BY <1>6, <2>1, <2>2
<1>8. x[1] # ClosingBrace
  BY <1>4
<1>9. HashTag(s) = Tag(x)
  <2> HIDE DEF x
  <2> QED BY <1>1, <1>4, <1>7, <1>8, TagOfRoot DEF Opens
<1> QED BY <1>9 DEF x, p

(* What is hashed of the keys of a script. *)
Slot(c, pk) ==
    IF Sharded(c) THEN Tag(Join(Join(c.prefix, Separator), pk)) ELSE Tag(c.prefix)

LEMMA RecordSlot ==
  ASSUME NEW c \in Configuration, Len(c.prefix) # 0, c.prefix[1] # ClosingBrace,
         NEW pk \in Text, NEW key \in RecordKeys(c, pk)
  PROVE  HashTag(key) = Slot(c, pk)
<1> DEFINE ns == c.prefix  sh == Sharded(c)
<1>1. ns \in String /\ pk \in String
  BY TextAssumption DEF Configuration
<1>2. PICK a \in Family : /\ key = Join(Join(Opened(a, ns, sh), pk), Ending(sh))
                          /\ Opened(a, ns, sh) \in String
  <2>1. /\ ValueKey(ns, pk, sh) = Join(Join(ValueHead(ns, sh), pk), Ending(sh))
        /\ MembersKey(ns, pk, sh) = Join(Join(MembersHead(ns, sh), pk), Ending(sh))
        /\ ValueHead(ns, sh) \in String /\ MembersHead(ns, sh) \in String
    BY <1>1, KeysCut
  <2> QED BY <2>1 DEF RecordKeys, ValueHead, MembersHead, Family
<1>3. CASE sh
  <2>1. sh = TRUE
    BY <1>3 DEF Sharded
  <2>2. HashTag(key) = Tag(Join(Join(ns, Separator), pk))
    <3>1. key = Join(Join(Opened(a, ns, TRUE), pk), Ending(TRUE))
      BY <1>2, <2>1
    <3> QED BY <1>1, <3>1, ShardedTag
  <2> QED BY <1>3, <2>2 DEF Slot
<1>4. CASE ~sh
  <2>1. sh = FALSE
    BY <1>4 DEF Sharded
  <2>2. key \in String /\ IsPrefix(Opened(a, ns, sh), key)
    <3>1. Ending(sh) \in String
      BY Pieces
    <3> DEFINE h == Opened(a, ns, sh)  e == Ending(sh)
    <3> HIDE DEF h, e
    <3>2. h \in String /\ e \in String /\ key = Join(Join(h, pk), e)
      BY <1>2, <3>1 DEF h, e
    <3>3. key \in String /\ IsPrefix(h, key)
      BY <1>1, <3>2, BeginsWithHead
    <3> QED BY <3>3 DEF h
  <2>3. HashTag(key) = Tag(ns)
    BY <1>1, <2>1, <2>2, ColocatedTag
  <2> QED BY <1>4, <2>3 DEF Slot
<1> QED BY <1>3, <1>4

LEMMA OpenedTag ==
  ASSUME NEW a \in Family, NEW ns \in String, Len(ns) # 0, ns[1] # ClosingBrace, NEW k \in String
  PROVE  HashTag(Join(Opened(a, ns, FALSE), k)) = Tag(ns)
<1> DEFINE h == Opened(a, ns, FALSE)
<1>1. h \in String
  BY FamilyOpens, TaggedCut
<1> HIDE DEF h
<1>2. Join(h, k) \in String /\ IsPrefix(h, Join(h, k))
  BY <1>1, Joins, BeginsWithFirst
<1> QED BY <1>2, ColocatedTag DEF h

LEMMA PointerTag ==
  ASSUME NEW ns \in String, Len(ns) # 0, ns[1] # ClosingBrace, NEW f \in String, NEW a \in String
  PROVE  /\ HashTag(PointerKey(ns, f, a, FALSE)) = Tag(ns)
         /\ HashTag(ColocatedGrpPrefix(ns) \o f \o Separator \o a) = Tag(ns)
<1> DEFINE k == Join(Join(f, Separator), a)  h == PointerHead(ns, FALSE)
<1>1. k \in String /\ h \in String
  BY PointerKeyCut, Zenon
<1>2. PointerKey(ns, f, a, FALSE) = Join(Join(h, k), Ending(FALSE))
  <2> DEFINE sh == FALSE
  <2> HIDE DEF sh
  <2>1. PointerKey(ns, f, a, sh)
          = Join(Join(PointerHead(ns, sh), Join(Join(f, Separator), a)), Ending(sh))
    BY PointerKeyCut
  <2> QED BY <2>1 DEF sh
<1>3. Ending(FALSE) = <<>>
  BY DEF Ending
<1>4. ColocatedGrpPrefix(ns) = h
  BY DEF ColocatedGrpPrefix, PointerHead, Opened, WordStart, Start
<1>5. h = Opened(WordStart("grp"), ns, FALSE) /\ WordStart("grp") \in Family
  BY DEF PointerHead, Family
<1>6. HashTag(Join(h, k)) = Tag(ns)
  <2> HIDE DEF h, k
  <2> QED BY <1>1, <1>5, OpenedTag
<1>7. PointerKey(ns, f, a, FALSE) = Join(h, k)
  <2> HIDE DEF h, k
  <2>1. Join(h, k) \in Seq(Token)
    BY <1>1, Joins DEF String
  <2>2. Join(h, k) \o <<>> = Join(h, k)
    BY <2>1, ConcatEmptySeq
  <2> QED BY <1>2, <1>3, <2>2 DEF Join
<1>8. ColocatedGrpPrefix(ns) \o f \o Separator \o a = Join(h, k)
  <2> HIDE DEF h
  <2>1. Separator \in String /\ Join(f, Separator) \in String
    BY Words, Joins
  <2>2. Join(h, Join(Join(f, Separator), a)) = Join(Join(h, Join(f, Separator)), a)
    BY <1>1, <2>1, Joins
  <2>3. Join(h, Join(f, Separator)) = Join(Join(h, f), Separator)
    BY <1>1, <2>1, Joins
  <2>4. Join(h, k) = Join(Join(Join(h, f), Separator), a)
    BY <2>2, <2>3
  <2> QED BY <1>4, <2>4 DEF Join
<1> QED BY <1>6, <1>7, <1>8

(* The keys that the scripts build themselves. *)
BuiltKeys(c, pk) == {ColocatedValuePrefix(c.prefix) \o pk, ColocatedMembersPrefix(c.prefix) \o pk}
BuiltPointer(ns, f, a) == ColocatedGrpPrefix(ns) \o f \o Separator \o a
BuiltPointers(c) == {BuiltPointer(c.prefix, f, a) : f \in Text, a \in Text}

LEMMA ScriptKeysAre ==
  ASSUME NEW c, NEW pk
  PROVE  ScriptKeys(c, pk) = RecordKeys(c, pk) \cup
            IF Sharded(c) THEN {} ELSE PointerKeys(c) \cup BuiltKeys(c, pk) \cup BuiltPointers(c)
  BY DEF ScriptKeys, BuiltKeys, BuiltPointer, BuiltPointers

(* Every key of a script has the slot of the script. *)
LEMMA ScriptSlot ==
  ASSUME NEW c \in Configuration, c.kind # "plain", Len(c.prefix) # 0, c.prefix[1] # ClosingBrace,
         NEW pk \in Text, NEW key \in ScriptKeys(c, pk)
  PROVE  HashTag(key) = Slot(c, pk)
<1> DEFINE ns == c.prefix
<1>1. ns \in String /\ pk \in String /\ \A t \in Text : t \in String
  BY TextAssumption DEF Configuration
<1>2. CASE key \in RecordKeys(c, pk)
  BY <1>2, RecordSlot
<1>3. CASE key \notin RecordKeys(c, pk)
  <2>1. ~Sharded(c) /\ (key \in PointerKeys(c) \/ key \in BuiltKeys(c, pk) \/ key \in BuiltPointers(c))
    BY <1>3, ScriptKeysAre
  <2>2. Sharded(c) = FALSE
    BY <2>1 DEF Sharded
  <2>3. ASSUME key \in PointerKeys(c) PROVE HashTag(key) = Tag(ns)
    <3>1. PICK f \in Text, a \in Text : key = PointerKey(ns, f, a, Sharded(c))
      BY <2>3 DEF PointerKeys
    <3>2. key = PointerKey(ns, f, a, FALSE)
      BY <2>2, <3>1
    <3>3. f \in String /\ a \in String
      BY <1>1
    <3>4. HashTag(PointerKey(ns, f, a, FALSE)) = Tag(ns)
      BY <1>1, <3>3, PointerTag
    <3> QED BY <3>2, <3>4
  <2>4. HashTag(ColocatedValuePrefix(ns) \o pk) = Tag(ns)
    <3>1. ColocatedValuePrefix(ns) \o pk = Join(Opened(Start, ns, FALSE), pk) /\ Start \in Family
      BY DEF ColocatedValuePrefix, Opened, Start, Join, Family
    <3>2. HashTag(Join(Opened(Start, ns, FALSE), pk)) = Tag(ns)
      BY <1>1, <3>1, OpenedTag
    <3> QED BY <3>1, <3>2
  <2>5. HashTag(ColocatedMembersPrefix(ns) \o pk) = Tag(ns)
    <3>1. ColocatedMembersPrefix(ns) \o pk = Join(Opened(WordStart("memb"), ns, FALSE), pk) /\ WordStart("memb") \in Family
      BY DEF ColocatedMembersPrefix, Opened, Start, WordStart, Join, Family
    <3>2. HashTag(Join(Opened(WordStart("memb"), ns, FALSE), pk)) = Tag(ns)
      BY <1>1, <3>1, OpenedTag
    <3> QED BY <3>1, <3>2
  <2>6. ASSUME key \in BuiltPointers(c) PROVE HashTag(key) = Tag(ns)
    <3>1. PICK f \in Text, a \in Text : key = BuiltPointer(ns, f, a)
      BY <2>6 DEF BuiltPointers
    <3>2. f \in String /\ a \in String
      BY <1>1
    <3>3. HashTag(BuiltPointer(ns, f, a)) = Tag(ns)
      BY <1>1, <3>2, PointerTag DEF BuiltPointer
    <3> QED BY <3>1, <3>3
  <2>7. ASSUME key \in BuiltKeys(c, pk) PROVE HashTag(key) = Tag(ns)
    <3> DEFINE v == ColocatedValuePrefix(ns) \o pk  m == ColocatedMembersPrefix(ns) \o pk
    <3>1. key \in {v, m}
      BY <2>7 DEF BuiltKeys
    <3> HIDE DEF v, m
    <3> QED BY <2>4, <2>5, <3>1 DEF v, m
  <2>8. HashTag(key) = Tag(ns)
    BY <2>1, <2>3, <2>6, <2>7
  <2> QED BY <2>2, <2>8 DEF Slot
<1> QED BY <1>2, <1>3

(* The keys of a script are on one slot, whatever colons and braces are in *)
(* keys, aliases and the name of the cache, unless that name begins with a *)
(* closing brace (keyspace.go:20-66).                                      *)
THEOREM AlwaysOneSlot == Spec => []OneSlot
<1>1. TypeOK => OneSlot
  <2> SUFFICES ASSUME TypeOK, NEW c \in Group, c.prefix[1] # "}", NEW pk \in Text
               PROVE  Cardinality({HashTag(key) : key \in ScriptKeys(c, pk)}) = 1
    BY DEF OneSlot
  <2>1. c \in Configuration /\ c.kind # "plain" /\ c.prefix # <<>>
    BY DEF Group, Caches, TypeOK
  <2>2. Len(c.prefix) # 0
    <3>1. c.prefix \in Seq(Token)
      BY <2>1 DEF Configuration, String
    <3> QED BY <2>1, <3>1, EmptySeq
  <2>3. c.prefix[1] # ClosingBrace
    BY DEF ClosingBrace
  <2>4. \A key \in ScriptKeys(c, pk) : HashTag(key) = Slot(c, pk)
    BY <2>1, <2>2, <2>3, ScriptSlot
  <2>5. ScriptKeys(c, pk) # {}
    <3>1. ValueKey(c.prefix, pk, Sharded(c)) \in RecordKeys(c, pk)
      BY DEF RecordKeys
    <3>2. RecordKeys(c, pk) \subseteq ScriptKeys(c, pk)
      BY ScriptKeysAre
    <3> QED BY <3>1, <3>2
  <2>6. {HashTag(key) : key \in ScriptKeys(c, pk)} = {Slot(c, pk)}
    BY <2>4, <2>5
  <2> QED BY <2>6, FS_Singleton
<1> QED BY <1>1, TypeCorrect, PTL
-------------------------------------------------------------------------------
(* Names of pointers and of flights, taken apart.                          *)
(* What two texts begin or end with in common can be dropped. *)
LEMMA Cancels ==
  ASSUME NEW h \in String, NEW a \in String, NEW b \in String
  PROVE  /\ Join(h, a) = Join(h, b) => a = b
         /\ Join(a, h) = Join(b, h) => a = b
<1>1. /\ Len(h) \in Nat /\ Len(a) \in Nat /\ Len(b) \in Nat
      /\ Len(Join(h, a)) = Len(h) + Len(a) /\ Len(Join(h, b)) = Len(h) + Len(b)
      /\ Len(Join(a, h)) = Len(a) + Len(h) /\ Len(Join(b, h)) = Len(b) + Len(h)
      /\ \A i \in 1 .. Len(a) : Join(h, a)[Len(h) + i] = a[i] /\ Join(a, h)[i] = a[i]
      /\ \A i \in 1 .. Len(b) : Join(h, b)[Len(h) + i] = b[i] /\ Join(b, h)[i] = b[i]
  BY JoinTokens
<1>2. ASSUME Join(h, a) = Join(h, b) PROVE a = b
  <2>1. Len(a) = Len(b)
    BY <1>1, <1>2
  <2>2. \A i \in 1 .. Len(a) : a[i] = b[i]
    BY <1>1, <1>2, <2>1
  <2> QED BY <2>1, <2>2, SeqEqual DEF String
<1>3. ASSUME Join(a, h) = Join(b, h) PROVE a = b
  <2>1. Len(a) = Len(b)
    BY <1>1, <1>3
  <2>2. \A i \in 1 .. Len(a) : a[i] = b[i]
    BY <1>1, <1>3, <2>1
  <2> QED BY <2>1, <2>2, SeqEqual DEF String
<1> QED BY <1>2, <1>3

Colon == ":"

(* A field without a colon ends at the first colon. *)
LEMMA FieldRead ==
  ASSUME NEW h \in String, NEW f \in String, NEW g \in String, NEW s \in String,
         Free(f, Colon), Free(g, Colon),
         IsPrefix(Root(h, f, Colon), s), IsPrefix(Root(h, g, Colon), s)
  PROVE  f = g
<1>1. Colon \in Token /\ Colon \in {Colon}
  BY TokenAssumption DEF Colon
<1>2. (\A i \in 1 .. Len(f) : f[i] \notin {Colon}) /\ (\A i \in 1 .. Len(g) : g[i] \notin {Colon})
  BY DEF Free
<1> QED BY <1>1, <1>2, SameRoot

(* Different aliases have different flights. *)
LEMMA FlightsDiffer ==
  ASSUME NEW f \in String, NEW g \in String, NEW a \in String, NEW b \in String,
         Free(f, Colon), Free(g, Colon), FlightOfAlias(f, a) = FlightOfAlias(g, b)
  PROVE  f = g /\ a = b
<1> DEFINE h == <<"alias", ":">>  r == Root(h, f, Colon)  q == Root(h, g, Colon)
<1>1. h \in String
  <2>1. "alias" \in Token /\ ":" \in Token
    BY TokenAssumption
  <2> QED BY <2>1 DEF String
<1>2. r \in String /\ q \in String
  <2>1. Colon \in Token
    BY TokenAssumption DEF Colon
  <2> HIDE DEF h
  <2> QED BY <1>1, <2>1, RootTokens
<1>3. Join(r, a) = Join(q, b)
  BY DEF FlightOfAlias, Root, Join, Colon
<1>4. f = g
  <2> HIDE DEF h
  <2> DEFINE s == Join(r, a)
  <2>1. s \in String /\ IsPrefix(r, s) /\ IsPrefix(q, s)
    <3> HIDE DEF r, q
    <3> QED BY <1>2, <1>3, Joins, BeginsWithFirst
  <2> HIDE DEF s
  <2> QED BY <1>1, <2>1, FieldRead
<1>5. a = b
  <2>1. r = q
    BY <1>4
  <2> HIDE DEF r, q
  <2> QED BY <1>2, <1>3, <2>1, Cancels
<1> QED BY <1>4, <1>5

(* Different aliases have different pointers. *)
LEMMA PointersDiffer ==
  ASSUME NEW ns \in String, NEW sharded,
         NEW f \in String, NEW g \in String, NEW a \in String, NEW b \in String,
         Free(f, Colon), Free(g, Colon), PointerKey(ns, f, a, sharded) = PointerKey(ns, g, b, sharded)
  PROVE  f = g /\ a = b
<1> DEFINE h == PointerHead(ns, sharded)  e == Ending(sharded)  c == <<Colon>>  p == Separator
           After(x) == Join(Join(h, x), p)
<1>1. /\ h \in String /\ e \in String /\ c \in String /\ p \in String
  <2>1. h \in String
    BY PointerKeyCut, Zenon
  <2>2. Colon \in Token
    BY TokenAssumption DEF Colon
  <2> QED BY <2>1, <2>2, Pieces, Words
<1>2. p = Join(c, c)
  BY DEF Separator, Join, Colon
<1>3. /\ PointerKey(ns, f, a, sharded) = Join(Join(h, Join(Join(f, p), a)), e)
      /\ PointerKey(ns, g, b, sharded) = Join(Join(h, Join(Join(g, p), b)), e)
  BY PointerKeyCut
<1> HIDE DEF h, e, c, p
<1>4. ASSUME NEW x \in String, NEW y \in String
      PROVE  /\ After(x) \in String /\ Join(h, Join(Join(x, p), y)) = Join(After(x), y)
             /\ Join(After(x), y) \in String /\ IsPrefix(Root(h, x, Colon), Join(After(x), y))
  <2>1. Join(x, p) \in String /\ Join(h, x) \in String
    BY <1>1, Joins
  <2>2. After(x) \in String
    BY <1>1, <2>1, Joins
  <2>3. Join(h, Join(Join(x, p), y)) = Join(Join(h, Join(x, p)), y)
    BY <1>1, <2>1, Joins
  <2>4. Join(h, Join(x, p)) = After(x)
    BY <1>1, Joins
  <2>5. Join(After(x), y) \in String
    BY <2>2, Joins
  <2>6. After(x) = Join(Root(h, x, Colon), c)
    <3>1. Join(Join(h, x), Join(c, c)) = Join(Join(Join(h, x), c), c)
      BY <1>1, <2>1, Joins
    <3> QED BY <1>2, <3>1 DEF Root, c
  <2>7. Root(h, x, Colon) \in String
    BY <1>1, <2>1, Joins DEF Root, c
  <2>8. IsPrefix(After(x), Join(After(x), y))
    BY <2>2, BeginsWithFirst
  <2>9. IsPrefix(Root(h, x, Colon), Join(After(x), y))
    <3>1. IsPrefix(Join(Root(h, x, Colon), c), Join(After(x), y))
      BY <2>6, <2>8
    <3> HIDE DEF After
    <3> QED BY <1>1, <2>5, <2>7, <3>1, BeginsWithFirst
  <2> QED BY <2>2, <2>3, <2>4, <2>5, <2>9
<1> HIDE DEF After
<1>5. Join(After(f), a) = Join(After(g), b)
  <2>1. Join(Join(After(f), a), e) = Join(Join(After(g), b), e)
    BY <1>3, <1>4
  <2> QED BY <1>1, <1>4, <2>1, Cancels
<1>6. f = g
  <2>1. /\ Join(After(f), a) \in String
        /\ IsPrefix(Root(h, f, Colon), Join(After(f), a))
        /\ IsPrefix(Root(h, g, Colon), Join(After(f), a))
    BY <1>4, <1>5
  <2> QED BY <1>1, <2>1, FieldRead
<1>7. a = b
  BY <1>4, <1>5, <1>6, Cancels
<1> QED BY <1>6, <1>7

(* One name each: as many names as things that are named. *)
LEMMA Counted ==
  ASSUME NEW S, IsFiniteSet(S), NEW F, F = [x \in S |-> F[x]],
         \A x, y \in S : F[x] = F[y] => x = y
  PROVE  Cardinality({F[x] : x \in S}) = Cardinality(S)
<1> DEFINE T == {F[x] : x \in S}
<1>1. F \in Bijection(S, T)
  BY DEF Bijection, Injection, Surjection, IsInjective
<1> HIDE DEF T
<1>2. ExistsBijection(S, T)
  BY <1>1 DEF ExistsBijection
<1> QED BY <1>2, FS_Bijection DEF T

FieldOf(T) == {f \in T : \A i \in 1 .. Len(f) : f[i] # ":"}

LEMMA FieldsFree ==
  ASSUME NEW f \in FieldOf(Text)
  PROVE  f \in String /\ Free(f, Colon)
  BY TextAssumption DEF FieldOf, Free, Colon

LEMMA AliasesFinite ==
  ASSUME IsFiniteSet(Text)
  PROVE  IsFiniteSet(FieldOf(Text) \X Text)
<1>1. IsFiniteSet(FieldOf(Text))
  BY FS_Subset DEF FieldOf
<1> QED BY <1>1, FS_Product

PointerNames(ns, sharded) ==
    {PointerKey(ns, r[1], r[2], sharded) : r \in FieldOf(Text) \X Text}

(* Aliases have pointers of their own, and flights. *)
LEMMA PointersCounted ==
  ASSUME IsFiniteSet(Text), NEW ns \in String, NEW sharded
  PROVE  Cardinality(PointerNames(ns, sharded)) = Cardinality(FieldOf(Text) \X Text)
<1> DEFINE Alias == FieldOf(Text) \X Text
           F == [r \in Alias |-> PointerKey(ns, r[1], r[2], sharded)]
<1>1. IsFiniteSet(Alias)
  BY AliasesFinite
<1>2. ASSUME NEW q \in Alias, NEW r \in Alias, F[q] = F[r] PROVE q = r
  <2>1. /\ q[1] \in FieldOf(Text) /\ q[2] \in Text /\ q = <<q[1], q[2]>>
        /\ r[1] \in FieldOf(Text) /\ r[2] \in Text /\ r = <<r[1], r[2]>>
    OBVIOUS
  <2>2. /\ q[1] \in String /\ Free(q[1], Colon) /\ q[2] \in String
        /\ r[1] \in String /\ Free(r[1], Colon) /\ r[2] \in String
    BY <2>1, FieldsFree, TextAssumption
  <2>3. PointerKey(ns, q[1], q[2], sharded) = PointerKey(ns, r[1], r[2], sharded)
    BY <1>2
  <2>4. q[1] = r[1] /\ q[2] = r[2]
    BY <2>2, <2>3, PointersDiffer
  <2> QED BY <2>1, <2>4
<1>3. PointerNames(ns, sharded) = {F[r] : r \in Alias}
  BY DEF PointerNames
<1>4. F = [r \in Alias |-> F[r]]
  OBVIOUS
<1> HIDE DEF Alias, F
<1>5. Cardinality({F[r] : r \in Alias}) = Cardinality(Alias)
  BY <1>1, <1>2, <1>4, Counted
<1> QED BY <1>3, <1>5 DEF Alias

LEMMA FlightsCounted ==
  ASSUME IsFiniteSet(Text)
  PROVE  Cardinality({FlightOfAlias(r[1], r[2]) : r \in FieldOf(Text) \X Text})
            = Cardinality(FieldOf(Text) \X Text)
<1> DEFINE Alias == FieldOf(Text) \X Text
           F == [r \in Alias |-> FlightOfAlias(r[1], r[2])]
<1>1. IsFiniteSet(Alias)
  BY AliasesFinite
<1>2. ASSUME NEW q \in Alias, NEW r \in Alias, F[q] = F[r] PROVE q = r
  <2>1. /\ q[1] \in FieldOf(Text) /\ q[2] \in Text /\ q = <<q[1], q[2]>>
        /\ r[1] \in FieldOf(Text) /\ r[2] \in Text /\ r = <<r[1], r[2]>>
    OBVIOUS
  <2>2. /\ q[1] \in String /\ Free(q[1], Colon) /\ q[2] \in String
        /\ r[1] \in String /\ Free(r[1], Colon) /\ r[2] \in String
    BY <2>1, FieldsFree, TextAssumption
  <2>3. FlightOfAlias(q[1], q[2]) = FlightOfAlias(r[1], r[2])
    BY <1>2
  <2>4. q[1] = r[1] /\ q[2] = r[2]
    BY <2>2, <2>3, FlightsDiffer
  <2> QED BY <2>1, <2>4
<1>3. {FlightOfAlias(r[1], r[2]) : r \in Alias} = {F[r] : r \in Alias}
  OBVIOUS
<1>4. F = [r \in Alias |-> F[r]]
  OBVIOUS
<1> HIDE DEF Alias, F
<1>5. Cardinality({F[r] : r \in Alias}) = Cardinality(Alias)
  BY <1>1, <1>2, <1>4, Counted
<1> QED BY <1>3, <1>5 DEF Alias

LEMMA FlightMarked ==
  ASSUME NEW f \in String, NEW a \in String
  PROVE  IsPrefix(<<"alias", ":">>, FlightOfAlias(f, a))
<1> DEFINE h == <<"alias", ":">>  c == <<":">>
<1>1. h \in String /\ c \in String
  <2>1. "alias" \in Token /\ ":" \in Token
    BY TokenAssumption
  <2> QED BY <2>1 DEF String
<1>2. FlightOfAlias(f, a) = Join(Join(Join(h, f), c), a)
  BY DEF FlightOfAlias, Join
<1> HIDE DEF h, c
<1>3. Join(h, f) \in String /\ Join(Join(h, f), c) \in String
  BY <1>1, Joins
<1>4. IsPrefix(Join(Join(h, f), c), Join(Join(Join(h, f), c), a))
  BY <1>3, BeginsWithFirst
<1>5. Join(Join(Join(h, f), c), a) \in String
  BY <1>3, Joins
<1>6. IsPrefix(Join(h, f), Join(Join(Join(h, f), c), a))
  BY <1>1, <1>3, <1>4, <1>5, BeginsWithFirst
<1>7. IsPrefix(h, Join(Join(Join(h, f), c), a))
  BY <1>1, <1>5, <1>6, BeginsWithFirst
<1> QED BY <1>2, <1>7 DEF h

(* Two aliases of a cache have two pointers and two flights, and no alias  *)
(* has the flight of a primary key, under the conditions that NamesApart   *)
(* names, for fields, values and keys of any length (alias_cache.go:83,    *)
(* cache.go:230).                                                          *)
THEOREM AlwaysNamesApart ==
  ASSUME IsFiniteSet(Text)
  PROVE  Spec => []NamesApart
<1>1. TypeOK => NamesApart
  <2> DEFINE Field   == {f \in Text : \A i \in 1 .. Len(f) : f[i] # ":"}
             Primary == {k \in Text : ~IsPrefix(<<"alias", ":">>, k)}
             Alias   == Field \X Text
             Flights == {FlightOfAlias(r[1], r[2]) : r \in Alias}
  <2> SUFFICES ASSUME TypeOK, NEW c \in Group
               PROVE  /\ Cardinality({PointerKey(c.prefix, r[1], r[2], Sharded(c)) : r \in Alias})
                            = Cardinality(Alias)
                      /\ Cardinality(Flights) = Cardinality(Alias)
                      /\ Flights \cap {FlightOfKey(k) : k \in Primary} = {}
    BY DEF NamesApart
  <2>1. c.prefix \in String
    BY DEF Group, Caches, TypeOK, Configuration
  <2>2. Field = FieldOf(Text)
    BY DEF FieldOf
  <2>3. Cardinality({PointerKey(c.prefix, r[1], r[2], Sharded(c)) : r \in Alias}) = Cardinality(Alias)
    <3>1. Cardinality({PointerKey(c.prefix, r[1], r[2], Sharded(c)) : r \in FieldOf(Text) \X Text})
             = Cardinality(FieldOf(Text) \X Text)
      <4>1. Cardinality(PointerNames(c.prefix, Sharded(c))) = Cardinality(FieldOf(Text) \X Text)
        BY <2>1, PointersCounted
      <4> QED BY ONLY <4>1 DEF PointerNames
    <3> HIDE DEF Field
    <3> QED BY <2>2, <3>1
  <2>4. Cardinality(Flights) = Cardinality(Alias)
    <3>1. Cardinality({FlightOfAlias(r[1], r[2]) : r \in FieldOf(Text) \X Text})
             = Cardinality(FieldOf(Text) \X Text)
      BY FlightsCounted
    <3> HIDE DEF Field
    <3> QED BY <2>2, <3>1
  <2>5. ASSUME NEW r \in Alias, NEW k \in Primary PROVE FlightOfAlias(r[1], r[2]) # FlightOfKey(k)
    <3>1. r[1] \in String /\ r[2] \in String
      BY TextAssumption
    <3>2. IsPrefix(<<"alias", ":">>, FlightOfAlias(r[1], r[2]))
      BY <3>1, FlightMarked
    <3>3. ~IsPrefix(<<"alias", ":">>, k)
      OBVIOUS
    <3> QED BY <3>2, <3>3 DEF FlightOfKey
  <2>6. Flights \cap {FlightOfKey(k) : k \in Primary} = {}
    <3> HIDE DEF Alias, Primary
    <3> QED BY <2>5
  <2> QED BY <2>3, <2>4, <2>6
<1> QED BY <1>1, TypeCorrect, PTL
===============================================================================
