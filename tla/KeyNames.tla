------------------------------- MODULE KeyNames -------------------------------
(***************************************************************************)
(* How the names of keys are put together and taken apart                  *)
(* (internal/keyspace/keyspace.go), and the names of flights (cache.go,    *)
(* alias_cache.go).  A text is a sequence of tokens: a token is one        *)
(* character, or one of the words bc, memb, grp and alias, which the code  *)
(* never takes apart.  Nothing is escaped, so what lies in a text matters  *)
(* as soon as it holds a colon or a brace.                                 *)
(***************************************************************************)
EXTENDS Naturals, SequencesExt

Separator == <<":", ":">>

(* A plain cache. *)
(* A slip: nothing between the name of the cache and the key. *)
NonAliasKeyJoined(ns, key) == <<"bc">> \o Separator \o ns \o key
NonAliasKey(ns, key) == <<"bc">> \o Separator \o ns \o Separator \o key
-------------------------------------------------------------------------------
(* An alias group: braces around what decides the slot, the name of the    *)
(* cache (colocated) or the name and the rest (sharded).                   *)
Tagged(ns, rest, sharded) ==
    IF sharded THEN <<"{">> \o ns \o Separator \o rest \o <<"}">>
               ELSE <<"{">> \o ns \o <<"}">> \o Separator \o rest

ValueKey(ns, pk, sharded) == <<"bc">> \o Separator \o Tagged(ns, pk, sharded)

(* A slip: the tag is the name of the cache, whatever the mode. *)
MembersKeyOneTag(ns, pk, sharded) ==
    <<"bc">> \o Separator \o <<"memb">> \o Separator \o Tagged(ns, pk, FALSE)
MembersKey(ns, pk, sharded) ==
    <<"bc">> \o Separator \o <<"memb">> \o Separator \o Tagged(ns, pk, sharded)

PointerKey(ns, field, value, sharded) ==
    <<"bc">> \o Separator \o <<"grp">> \o Separator
        \o Tagged(ns, field \o Separator \o value, sharded)

(* What the colocated scripts prepend to a primary key, or to a field, ::  *)
(* and a value, to name the other keys of a record.                        *)
ColocatedValuePrefix(ns) == <<"bc">> \o Separator \o <<"{">> \o ns \o <<"}">> \o Separator
ColocatedMembersPrefix(ns) ==
    <<"bc">> \o Separator \o <<"memb">> \o Separator \o <<"{">> \o ns \o <<"}">> \o Separator
ColocatedGrpPrefix(ns) ==
    <<"bc">> \o Separator \o <<"grp">> \o Separator \o <<"{">> \o ns \o <<"}">> \o Separator
-------------------------------------------------------------------------------
(* A family of keys: those with a prefix and, beside it, a suffix. *)
Match(prefix, suffix) == [prefix |-> prefix, suffix |-> suffix]

(* A slip: prefix and suffix may overlap in the key. *)
MatchesOverlapping(m, key) == IsPrefix(m.prefix, key) /\ IsSuffix(m.suffix, key)
Matches(m, key) ==
    /\ Len(key) >= Len(m.prefix) + Len(m.suffix)
    /\ IsPrefix(m.prefix, key)
    /\ IsSuffix(m.suffix, key)

NonAliasKeyPrefix(ns, keyPrefix) == NonAliasKey(ns, keyPrefix)

ValueMatch(ns, pkPrefix, sharded) ==
    IF sharded THEN Match(<<"bc">> \o Separator \o <<"{">> \o ns \o Separator \o pkPrefix, <<"}">>)
               ELSE Match(ColocatedValuePrefix(ns) \o pkPrefix, <<>>)

MembersMatch(ns, pkPrefix, sharded) ==
    IF sharded
    THEN Match(<<"bc">> \o Separator \o <<"memb">> \o Separator \o <<"{">> \o ns \o Separator
                   \o pkPrefix, <<"}">>)
    ELSE Match(ColocatedMembersPrefix(ns) \o pkPrefix, <<>>)

(* The text between prefix and suffix, in a set; {} for a key that is not  *)
(* of the family.                                                          *)
primaryOf(m, key) ==
    IF Matches(m, key)
    THEN {SubSeq(key, Len(m.prefix) + 1, Len(key) - Len(m.suffix))} ELSE {}

PrimaryFromValueKey(ns, key, sharded)   == primaryOf(ValueMatch(ns, <<>>, sharded), key)
PrimaryFromMembersKey(ns, key, sharded) == primaryOf(MembersMatch(ns, <<>>, sharded), key)
-------------------------------------------------------------------------------
(* The names of flights: group.Do(key), group.Do("alias:"+field+":"+value) *)
FlightOfKey(key) == key
(* A slip: nothing marks the flight of an alias. *)
FlightOfAliasBare(field, value) == field \o <<":">> \o value
FlightOfAlias(field, value) == <<"alias", ":">> \o field \o <<":">> \o value

(* Redis Cluster hashes what lies between the first { and the first } that *)
(* follows it, unless that is nothing; then it hashes the whole key.       *)
HashTag(key) ==
    LET open  == SelectInSeq(key, LAMBDA t : t = "{")
        close == SelectInSubSeq(key, open + 1, Len(key), LAMBDA t : t = "}") IN
    IF open # 0 /\ close > open + 1 THEN SubSeq(key, open + 1, close - 1) ELSE key
===============================================================================
