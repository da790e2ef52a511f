--------------------------- MODULE MCDeviceLibrary ---------------------------
(* DeviceLibrary for TLC: games are interchangeable. *)
EXTENDS DeviceLibrary, TLC

Symmetry == Permutations(Ids)
=============================================================================
