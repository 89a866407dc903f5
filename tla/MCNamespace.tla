---------------------------- MODULE MCNamespace -----------------------------
(* Namespace for TLC: two nodes and two names on two backends, one of each  *)
(* on each.                                                                 *)
EXTENDS Namespace

CONSTANTS n1, n2

MCNames == <<"a", "b">>
MCCanon == [p \in {"a", "b"} |-> IF p = "a" THEN 1 ELSE 2]
MCCalls == [n \in {n1, n2} |->
  IF n = n1 THEN {"open", "unlink", "list"}
  ELSE {"list", "rename", "mkdir", "rmdir"}]
MCHome == [n \in {n1, n2} |-> IF n = n1 THEN 1 ELSE 2]
=============================================================================
