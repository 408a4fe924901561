------------------------ MODULE MC_EncryptedIoQueue ------------------------
(* Small instances of EncryptedIoQueue: the operations IRPs may ask for    *)
EXTENDS EncryptedIoQueue, TLC

Op(kind, off, len) == [kind |-> kind, off |-> off, len |-> len, aligned |-> TRUE]
Unaligned(off, len) == [Op("read", off, len) EXCEPT !.aligned = FALSE]

(* A read that reads ahead the sector at the end of the encrypted area, a   *)
(* write of both sectors in two fragments, and a misaligned read that also  *)
(* touches a substituted sector                                             *)
RekeyOps == {Op("read", 1, 1), Op("write", 1, 2), Unaligned(0, 1)}
MisalignedOps == {Unaligned(0, 1)}

(* Transfers across the end of the encrypted area *)
WideOps == {Op("read", 0, 2), Op("write", 0, 2)}

(* Requests of a volume whose last sector is protected, one beyond its end, a flush *)
VolumeOps == {Op("read", 1, 2), Op("write", 0, 1), Op("write", 0, 2), Op("flush", 0, 0)}
FaultyVolumeOps == {Op("write", 0, 1)}

(* Requests that are remapped in full, in part, or not at all; all may fail *)
RemapOps == {Op("read", 0, 4), Op("write", 0, 4), Op("read", 1, 1), Op("read", 2, 1)}

Symmetry == Permutations(Irps)
=============================================================================
