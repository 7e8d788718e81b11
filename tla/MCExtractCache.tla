--------------------------- MODULE MCExtractCache ---------------------------
(* Instances of ExtractCache for TLC: contents and models are each alike.   *)
EXTENDS ExtractCache, TLC

ContentSymmetry == Permutations(Versions) \cup Permutations(Models)
=============================================================================
