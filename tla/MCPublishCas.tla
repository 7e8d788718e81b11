---------------------------- MODULE MCPublishCas ----------------------------
(* Instances of PublishCas for TLC; publishers are interchangeable.         *)
EXTENDS PublishCas, TLC

PublisherSymmetry == Permutations(Publishers)
=============================================================================
