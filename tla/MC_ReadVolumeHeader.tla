------------------------ MODULE MC_ReadVolumeHeader ------------------------
(* Small instances of ReadVolumeHeader *)
EXTENDS ReadVolumeHeader, TLC

CONSTANTS sha512, argon2

TwoPrfs == <<sha512, argon2>>
OthersOnce == [c \in Callers |-> IF c = Reader THEN 0 ELSE 1]

Symmetry == Permutations(Threads)
=============================================================================
