--------------------------- MODULE MCPolicyBundles ---------------------------
(* A finite instance of PolicyBundles for TLC: two good bundles and one of   *)
(* every other kind.                                                         *)
EXTENDS PolicyBundles

OneOfEach == { Bundle("v1", kind) : kind \in Kinds } \cup { Bundle("v2", "good") }
AnyBucket == {"absent", "plain", "locked"}
=============================================================================
