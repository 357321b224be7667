------------------------------ MODULE AliasTypes ------------------------------
(***************************************************************************)
(* What the three alias-group backends (Colocated, Sharded, MemAlias) have *)
(* in common: the sets an alias group is built from and the arithmetic of  *)
(* key lifetimes.                                                          *)
(*                                                                         *)
(* A lifetime says how many milliseconds a key still has.  Forever is a    *)
(* key without expiry and Gone a key that no longer counts, so a clock     *)
(* tick is a decrement and no absolute clock is needed.                    *)
(***************************************************************************)
EXTENDS Integers

CONSTANTS
    Primary,     \* primary keys of one alias-group cache
    Field,       \* alias fields ("email", "slug")
    AliasValue,  \* alias values ("foo@bar.com"); an alias is a field and a value
    Value,       \* stored bytes; the negative marker is one of them
    None,        \* no value, no alias, no primary
    Ttl,         \* the durations writes are made with, in units of 1/PerMs ms
    PerMs        \* duration units in a millisecond

ASSUME NoneAssumption == None \notin Primary \cup Value \cup AliasValue
ASSUME TtlAssumption  == Ttl \subseteq Int
ASSUME PerMsAssumption == PerMs \in Nat \ {0}

Gone    == 0
Forever == -1
Life    == {n \in Int : n >= Forever}

(* time.Duration.Milliseconds(): division truncated towards zero.          *)
Milliseconds(d) == IF d >= 0 THEN d \div PerMs ELSE -((-d) \div PerMs)

(* The lifetime a script gives a key: SET PX / PEXPIRE when the            *)
(* milliseconds it was passed are positive, plain SET / PERSIST otherwise. *)
ScriptLife(d) == IF Milliseconds(d) > 0 THEN Milliseconds(d) ELSE Forever

(* A lifetime one millisecond later. *)
(* A slip: a key without expiry ages too. *)
OlderUnguarded(n) == n - 1
Older(n) == IF n > 0 THEN n - 1 ELSE n

(* What a key with lifetime n still holds one millisecond later: Redis     *)
(* drops it when its time is up.                                           *)
Kept(data, n, nothing) == IF Older(n) = Gone THEN nothing ELSE data

(* PEXPIRE and PERSIST do nothing to a key that does not exist. *)
Extend(n, new) == IF n = Gone THEN Gone ELSE new
===============================================================================
