------------------------ MODULE MCProviderLifecycle ------------------------
(* A small provider lifecycle for TLC. *)
EXTENDS ProviderLifecycle
=============================================================================
