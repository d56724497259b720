--------------------------- MODULE MCStreamCache ---------------------------
(* Small instances of StreamCache for TLC. *)
EXTENDS StreamCache
============================================================================
