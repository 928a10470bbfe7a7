----------------------------- MODULE MCIdentity -----------------------------
(* A finite instance of Identity for TLC: each kind of source on either side; *)
(* the client's clock lags.                                                   *)
EXTENDS Identity

Pair(s, c) == [w \in Workloads |-> IF w = Server THEN s ELSE c]

Either == { Pair("rotating", "rotating"), Pair("rotating", "files"), Pair("files", "agent") }
Clocks == Pair(0, -1)
=============================================================================
