------------------------- MODULE MCVectorCompanion -------------------------
(* A provider with a capture writer and a digest beside it, for TLC. *)
EXTENDS VectorCompanion
=============================================================================
