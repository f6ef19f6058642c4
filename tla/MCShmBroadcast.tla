--------------------------- MODULE MCShmBroadcast ---------------------------
(* Small instances of ShmBroadcast for TLC. *)
EXTENDS ShmBroadcast
=============================================================================
