--------------------------- MODULE MCRuntimeProxy ---------------------------
(* Bounds for checking RuntimeProxy with TLC. *)
EXTENDS RuntimeProxy
=============================================================================
