----------------------- MODULE MCGenerationRetention -----------------------
(* One reader in the collecting process, one or two in another.             *)
EXTENDS GenerationRetention, TLC

CONSTANTS r1, r2
=============================================================================
