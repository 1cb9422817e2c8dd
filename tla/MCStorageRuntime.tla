-------------------------- MODULE MCStorageRuntime --------------------------
(* Instances of StorageRuntime for TLC.                                    *)
EXTENDS StorageRuntime, TLC

CONSTANTS k1, k2, s1

TwoKeys   == {k1, k2}
OneStatus == {s1}
NoStatus  == {}
=============================================================================
