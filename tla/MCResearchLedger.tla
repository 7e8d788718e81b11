-------------------------- MODULE MCResearchLedger --------------------------
(* Instances of ResearchLedger for TLC: neither processes nor ledgers are   *)
(* told apart.                                                              *)
EXTENDS ResearchLedger, TLC

LedgerSymmetry == Permutations(Procs) \cup Permutations(Ledgers)
=============================================================================
