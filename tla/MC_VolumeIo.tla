---------------------------- MODULE MC_VolumeIo ----------------------------
(* Small instances of VolumeIo: layouts and requests, in half sectors *)
EXTENDS VolumeIo, TLC

Layout(v2, offset, size) ==
    [v2 |-> v2, offset |-> offset, size |-> size, hiddenStart |-> 0, hiddenEnd |-> 0,
     system |-> FALSE, start |-> 0, areaStart |-> 0, areaLength |-> 0, driveSize |-> 0]

(* The host of a hidden volume in the second of three sectors *)
Host == [Layout(FALSE, 1, 3) EXCEPT !.hiddenStart = 2, !.hiddenEnd = 3]

(* A partition at sector 1 of a drive of three sectors, of which the first    *)
(* length are encrypted                                                       *)
Partition(length) == [Layout(FALSE, 0, 2) EXCEPT !.system = TRUE, !.start = 1,
                                                 !.areaLength = length, !.driveSize = 3]

V2Volume(offset) == Layout(TRUE, offset, 2)

SomeVolumes == {V2Volume(1), V2Volume(2), Host, Partition(2), Partition(3)}

Op(kind, off, len) == [kind |-> kind, off |-> off, len |-> len]

(* Requests that overlap, are misaligned, reach beyond the end, lie around    *)
(* the protected sector                                                       *)
SomeOps == [v \in SomeVolumes |->
    CASE v = V2Volume(1) -> {Op("write", 0, 2), Op("write", 0, 4), Op("read", 1, 1)}
      [] v = V2Volume(2) -> {Op("write", 0, 4), Op("read", 1, 4)}
      [] v = Host        -> {Op("write", 0, 2), Op("write", 0, 4), Op("write", 4, 2)}
      [] OTHER           -> {Op("write", 0, 2), Op("write", 2, 4), Op("read", 0, 4), Op("read", 3, 1)}]

Symmetry == Permutations(Threads) \cup Permutations(Values)
=============================================================================
