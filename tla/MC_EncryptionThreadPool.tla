---------------------- MODULE MC_EncryptionThreadPool ----------------------
(* A small instance of EncryptionThreadPool *)
EXTENDS EncryptionThreadPool

CONSTANTS c1, c2

TwiceAndOnce == [c \in Callers |-> IF c = c1 THEN 2 ELSE 1]
=============================================================================
