----------------------------- MODULE MCRunStore -----------------------------
(* Instances of RunStore for TLC.  Neither processes nor fingerprints are   *)
(* told apart by the store, so both sets are symmetric in the safety runs.  *)
EXTENDS RunStore, TLC

CallerSymmetry == Permutations(Procs) \cup Permutations(Fingerprints)
=============================================================================
