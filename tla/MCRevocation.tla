---------------------------- MODULE MCRevocation ----------------------------
(* A finite instance of Revocation for TLC. *)
EXTENDS Revocation

Two      == <<"wallet", "gateway">>
Types    == {"session-revoked", "session-restored"}
=============================================================================
