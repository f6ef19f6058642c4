-------------------------- MODULE MCKVCacheManager --------------------------
(* Small instances of KVCacheManager for TLC. *)
EXTENDS KVCacheManager, TLC

CONSTANTS ra, rb, rc, b1, b2, b3, b4

(* Prompts that are prefixes of one another: one block, one and a half, two. *)
MCPrompt == ra :> <<0, 0, 0>> @@ rb :> <<0, 0>> @@ rc :> <<0, 0, 0, 0>>
MCMaxTokens == ra :> 2 @@ rb :> 2 @@ rc :> 1
MCRank == ra :> 3 @@ rb :> 1 @@ rc :> 2
=============================================================================
