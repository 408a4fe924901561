------------------------ MODULE MC_SystemEncryption ------------------------
(* Small instances of SystemEncryption *)
EXTENDS SystemEncryption, TLC
=============================================================================
