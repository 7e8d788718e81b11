---------------------------- MODULE MCAnnualSearch ---------------------------
(* The instance of AnnualSearch for TLC.                                    *)
EXTENDS AnnualSearch
=============================================================================
