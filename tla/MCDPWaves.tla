----------------------------- MODULE MCDPWaves -----------------------------
(* Small instances of DPWaves for TLC. *)
EXTENDS DPWaves, TLC

CONSTANT ca
=============================================================================
