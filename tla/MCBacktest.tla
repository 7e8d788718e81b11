----------------------------- MODULE MCBacktest -----------------------------
(* Instances of Backtest for TLC: values of the constants that are functions*)
(* or records.                                                              *)
EXTENDS Backtest, TLC

MCCosts ==
    [m \in Markets |-> [commission |-> 1, minimum |-> 1, buying |-> 0,
                        selling |-> 1, slippage |-> 0]]
MCSlippage ==
    [m \in Markets |-> [commission |-> 1, minimum |-> 1, buying |-> 0,
                        selling |-> 1, slippage |-> 1]]
MCLockDays  == [m \in Markets |-> IF m = "A" THEN 1 ELSE 2]
MCFlatRate  == 1 :> 1
MCTwoRates  == 1 :> 1 @@ 3 :> 2
MCSplit     == {<<3, 2>>}
MCNoRatio   == {}
MCDaily     == [d \in Days |-> d]
MCPeriods   == [d \in Days |-> IF d \in {2, 3} THEN 2 ELSE IF d \in {5, 6} THEN 5 ELSE d]
MCSigned    == {-2, -1, 1, 2}
=============================================================================
