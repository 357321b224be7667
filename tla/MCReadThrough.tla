---------------------------- MODULE MCReadThrough ----------------------------
(* Callers that share one process, hence its flights. *)
EXTENDS ReadThrough

CONSTANT i1

OneProcess == [c \in Caller |-> i1]
===============================================================================
