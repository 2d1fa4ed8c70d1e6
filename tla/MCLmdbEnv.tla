----------------------------- MODULE MCLmdbEnv ------------------------------
(* The application and two reading calls, in processes of their own or in   *)
(* one process.                                                             *)
EXTENDS LmdbEnv

MCReaders == {"r1", "r2"}
Apart    == [e \in {"app", "r1", "r2"} |-> e]
Together == [e \in {"app", "r1", "r2"} |-> IF e = "app" THEN "app" ELSE "viewer"]

(* r2 is a call that the callback of r1 makes: it starts while r1 reads and *)
(* r1 goes on when it has returned (lmdb_root_walk.dart calls onRecord in   *)
(* the middle of its walk, and readToManyTargets opens its own environment).*)
Nested ==
  /\ pc'["r2"] # pc["r2"] => pc["r1"] = "read" /\ pc'["r1"] = "read"
  /\ pc'["r1"] # pc["r1"] => pc["r2"] = "closed"

NestedSpec == Init /\ [][Next /\ Nested]_vars
=============================================================================
