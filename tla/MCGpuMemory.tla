---------------------------- MODULE MCGpuMemory -----------------------------
(* Two processes with one device address each.                             *)
EXTENDS GpuMemory, TLC

CONSTANTS p1, p2, a1

TwoProcs == {p1, p2}
OnePtr == {a1}
Interchangeable == Permutations(Procs)
=============================================================================
