---------------------------- MODULE MCScheduler ----------------------------
(* Small instances of Scheduler for TLC. *)
EXTENDS Scheduler, TLC

CONSTANTS ra, rb, rc, b1, b2, b3, b4

MCPromptLen == ra :> 2 @@ rb :> 3 @@ rc :> 1
MCMaxTokens == ra :> 2 @@ rb :> 2 @@ rc :> 2
MCMaxTokens3 == ra :> 3 @@ rb :> 3 @@ rc :> 3
MCRank == ra :> 1 @@ rb :> 3 @@ rc :> 2
=============================================================================
