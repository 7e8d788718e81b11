----------------------------- MODULE WalkForward -----------------------------
(***************************************************************************)
(* How walk_forward of backtest/verify.py cuts the trading days of a period*)
(* into windows: on one a strategy is fitted, on the next it is judged.    *)
(* Each window is a backtest of its own.  Days are counted from 0; a period*)
(* has "days" of them and is cut for "splits" pairs of windows.            *)
(***************************************************************************)
EXTENDS Integers

Modes == {"expanding", "rolling"}

\* walk_forward refuses a period with fewer days than windows.
Accepted(days, splits) == days >= splits + 1

\* _split_list: n parts, the first ones a day longer.  PartSize is how far the
\* loop moves on, PartBegin where it stands then (PartsFollow, below).
PartSize(days, n, i)  == days \div n + (IF i < days % n THEN 1 ELSE 0)
PartBegin(days, n, i) == i * (days \div n) + (IF i < days % n THEN i ELSE days % n)
PartEnd(days, n, i)   == PartBegin(days, n, i + 1) - 1

\* The windows of pair i: in-sample and out-of-sample.
InSample(days, splits, mode, i) ==
    [from |-> IF mode = "expanding" THEN 0 ELSE PartBegin(days, splits + 1, i),
     to   |-> PartEnd(days, splits + 1, i)]
OutOfSample(days, splits, i) ==
    [from |-> PartBegin(days, splits + 1, i + 1), to |-> PartEnd(days, splits + 1, i + 1)]
=============================================================================
