------------------------------- MODULE MCManager ------------------------------
(* A manager on small inputs.  An option is varied together with those it  *)
(* interacts with: prefixes with kinds of cache, and TTLs with jitter.     *)
EXTENDS Manager, TLC

Tokens == {"a", ":", "{", "}", "bc", "memb", "grp", "alias"}

MaxLength == 2
Texts == SeqOf({"a", ":", "}"}, MaxLength)
             \cup {<<"{">>, <<"a", ":", "a">>, <<"alias", ":", "a", ":", "a">>}

Names == {<<"a">>, <<"memb">>}

Unset == [group |-> FALSE, mode |-> None, prefix |-> None, ttl |-> None, infinite |-> None,
          jitter |-> None, negativeTtl |-> None, disableSingleflight |-> None]

SomePrefixes ==
    {None, <<>>, <<"a">>, <<"a", "a">>, <<"grp">>, <<"a", ":">>, <<"a", "}">>, <<"}", "a">>, <<"{", "a">>,
     <<"{", "a", "}">>}

Kinds == {<<FALSE, None>>, <<FALSE, "sharded">>, <<TRUE, None>>, <<TRUE, "sharded">>}

KeyOptions ==
    {[Unset EXCEPT !.prefix = p, !.group = k[1], !.mode = k[2]] : p \in SomePrefixes, k \in Kinds}

TtlOptions ==
    {[Unset EXCEPT !.ttl = t, !.infinite = i, !.jitter = j] :
        t \in {None, 0, 1, 100}, i \in {None, TRUE}, j \in {None, -1, 0, 9, 10, NaN}}
    \cup
    {[Unset EXCEPT !.jitter = j, !.negativeTtl = n] : j \in {None, 9, NaN}, n \in {-1, 3}}

SomeOptions == KeyOptions \cup TtlOptions \cup {[Unset EXCEPT !.disableSingleflight = TRUE]}

(* WithDefaultTTL(20 units); a tenth of jitter, as NewManager has it. *)
SomeDefaults == [ttl |-> 20, jitter |-> 1, negativeTtl |-> 0, disableSingleflight |-> FALSE]

Callers == Permutations(Caller)
===============================================================================
