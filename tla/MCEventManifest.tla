--------------------------- MODULE MCEventManifest ---------------------------
(* The instance of EventManifest for TLC.                                   *)
EXTENDS EventManifest, TLC

ProcSymmetry == Permutations(Procs)
=============================================================================
