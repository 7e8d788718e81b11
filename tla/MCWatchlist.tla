----------------------------- MODULE MCWatchlist -----------------------------
(* The instance of Watchlist, with the data layer, for TLC.                 *)
EXTENDS Watchlist, TLC

CallSymmetry == Permutations(Procs) \cup Permutations(Symbols)
=============================================================================
