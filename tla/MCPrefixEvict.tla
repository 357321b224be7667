----------------------------- MODULE MCPrefixEvict -----------------------------
(***************************************************************************)
(* Three keys begin with u, the character U+FFFD, two of them on one node, *)
(* and one with raw, a byte that is not UTF-8 and that a rune loop turns   *)
(* into u.  Of x1 there may be a value, a hash or both.                    *)
(***************************************************************************)
EXTENDS PrefixEvict

CONSTANTS x1, x2, x3, x4, u, raw, n1, n2, s1, s2, s3

MCKey == ({"plain"} \X {x1, x2, x3, x4})
           \cup {<<"value", x1>>, <<"members", x1>>, <<"members", x3>>, <<"value", x4>>}
MCBegins == [p \in {u, raw} |-> IF p = u THEN {x1, x2, x3} ELSE {x4}]
MCRunes == [p \in {u, raw} |-> u]
MCSlotOf ==
    [k \in MCKey |-> CASE k[2] = x1 -> s1 [] k[2] = x2 -> s2 [] OTHER -> s3]
MCNodeOf == [s \in {s1, s2, s3} |-> IF s = s3 THEN n2 ELSE n1]
===============================================================================
