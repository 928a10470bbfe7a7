------------------------------- MODULE MCCAEP -------------------------------
(* Finite instances of CAEP for TLC. *)
EXTENDS CAEP

Two   == <<"wallet", "gateway">>
Three == <<"wallet", "gateway", "batch">>
Types == {"session-revoked", "session-restored"}
AllTypes == Types \cup {"device-change"}
=============================================================================
