--------------------------- MODULE MCNodeRegistry ---------------------------
(* Small instances of NodeRegistry for TLC. *)
EXTENDS NodeRegistry

CONSTANTS s1, c1 \* a supervisor and a coordinator
=============================================================================
