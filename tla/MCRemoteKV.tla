----------------------------- MODULE MCRemoteKV -----------------------------
(* Small instances of RemoteKV for TLC. *)
EXTENDS RemoteKV, TLC

CONSTANTS ra, rb

MCPromptLen == ra :> 5 @@ rb :> 3
MCMaxTokens == ra :> 1 @@ rb :> 2
MCExtTokens == ra :> {4, 5} @@ rb :> {1, 2}
=============================================================================
