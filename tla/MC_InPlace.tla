----------------------------- MODULE MC_InPlace -----------------------------
(* Small instances of InPlace *)
EXTENDS InPlace, TLC
=============================================================================
