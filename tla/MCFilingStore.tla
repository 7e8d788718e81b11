---------------------------- MODULE MCFilingStore ----------------------------
(* Instances of FilingStore for TLC: processes, addresses and contents are  *)
(* each alike.                                                              *)
EXTENDS FilingStore, TLC

StoreSymmetry == Permutations(Downloaders) \cup Permutations(Promoters)
                     \cup Permutations(Urls) \cup Permutations(Bodies)
=============================================================================
