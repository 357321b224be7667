----------------------------- MODULE MCAliasCache -----------------------------
(* What is cached on a small instance: the rows, and the negative marker.  *)
EXTENDS AliasCache

Content == [Field -> AliasValue] \cup {Marker}
===============================================================================
