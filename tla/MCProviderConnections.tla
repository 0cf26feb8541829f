----------------------- MODULE MCProviderConnections -----------------------
(* Two providers of one process, one with a busy writer thread, with or without
   a connection that is not theirs. *)
EXTENDS ProviderConnections

=============================================================================
