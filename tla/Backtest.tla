------------------------------ MODULE Backtest ------------------------------
(***************************************************************************)
(* The daily loop of a backtest (backtest/backtest_loop.py) with the       *)
(* collaborators it drives: corporate_actions.py, order_executor.py,       *)
(* cash_ledger.py, rebalance_scheduler.py and mtm_accumulator.py.          *)
(*                                                                         *)
(* Each day: corporate actions, then the orders queued before, then the    *)
(* valuation of the books, then on a rebalance date one order per symbol   *)
(* whose position is not the target, then the end of the day.  Prices,     *)
(* corporate actions and target weights are drawn day by day: they stand   *)
(* for every data set and every strategy.                                  *)
(***************************************************************************)
EXTENDS CashLedger, Sequences

CONSTANTS
    InitialCash,
    Prices,             \* prices of a bar
    BarStates,          \* "trading", "suspended", "limit_up", "limit_down"
    Dividends,          \* cash dividends per share
    Ratios,             \* pairs <<n, m>>: m shares become n
    Weights,            \* target weights, in units of 1/WeightUnit
    WeightUnit,
    Untargeted,         \* the weight of a symbol that has no row
    PeriodOf,           \* the period (day, week, month, quarter) of each day
    AShareShortAllowed, \* config.a_share_short_allowed
    ReinvestDividends   \* config.dividend_policy = "reinvest"

ASSUME BacktestAssumption ==
    /\ InitialCash \in Nat
    /\ Prices \subseteq Nat \ {0} /\ Dividends \subseteq Nat
    /\ BarStates \subseteq {"trading", "suspended", "limit_up", "limit_down"}
    /\ \A r \in Ratios : r[1] \in Nat /\ r[2] \in Nat \ {0}
    /\ WeightUnit \in Nat \ {0} /\ Weights \subseteq Int
    /\ Untargeted \notin Int
    /\ DOMAIN PeriodOf = Days
    /\ \A d, e \in Days : PeriodOf[d] \in Nat /\ (d <= e => PeriodOf[d] <= PeriodOf[e])
    /\ AShareShortAllowed \in BOOLEAN /\ ReinvestDividends \in BOOLEAN

VARIABLES
    day,        \* the day of the loop, 0 before the first
    phase,      \* what the loop does next
    bars,       \* the day's bars
    cash, positions,
    pending,    \* _pending_orders: orders for the next day
    todo,       \* orders of the day still to be executed
    unmarked,   \* symbols the valuation has not come to yet
    nav,        \* the books valued at the day's closing prices
    frame,      \* the day's target weights
    rows,       \* symbols whose row (of actions, of targets) is still to come
    bought,     \* the last day each symbol was bought
    rated,      \* whether the exchange rates could be fetched
    allowed,    \* the shares of each symbol that NeverOverHolds allows for
    failure     \* why the run was aborted, or "none"

books  == <<cash, positions>>
orders == <<pending, todo>>
plan   == <<frame, rows>>
vars   == <<day, phase, bars, books, orders, unmarked, nav, plan, bought, rated,
            allowed, failure>>

Reinvest == -1      \* the shares of a dividend-reinvestment order
NoBar    == [state |-> "none", price |-> 0, close |-> 0]
Bars     == {NoBar} \cup [state : BarStates, price : Prices, close : Prices]
NoFrame  == [s \in Symbols |-> Untargeted]
Ledger   == [cash |-> cash, positions |-> positions]

Init ==
    /\ day = 0 /\ phase = "closed"
    /\ bars = [s \in Symbols |-> NoBar]
    /\ cash = [c \in Currencies |-> IF c = Base THEN InitialCash ELSE 0]
    /\ positions = [s \in Symbols |-> NoPosition]
    /\ pending = <<>> /\ todo = <<>>
    /\ unmarked = {} /\ nav = [gross |-> 0, net |-> 0]
    /\ frame = NoFrame /\ rows = {}
    /\ bought = [s \in Symbols |-> 0]
    /\ rated \in BOOLEAN
    /\ allowed = [s \in Symbols |-> 0]
    /\ failure = "none"

\* What an order does to the position once it has filled.
Signed(o) == IF o.shares = Reinvest THEN 0
             ELSE IF o.side \in Buying THEN o.shares ELSE -o.shares

Total(g) ==
    LET sum[n \in 0..Len(g)] == IF n = 0 THEN 0 ELSE sum[n - 1] + g[n]
    IN  sum[Len(g)]

\* What the orders of a queue that are for a symbol do to its position.
Each(q, s)   == [i \in 1..Len(q) |-> IF q[i].symbol = s THEN Signed(q[i]) ELSE 0]
Queued(q, s) == Total(Each(q, s))

-----------------------------------------------------------------------------
\* 1. The day begins: its bars, and its corporate actions on positions that
\*    are held, at most one for each symbol (a bound).

\* (mutant) the loop does not come to the next day
OpenDayAgain ==
    /\ phase = "closed"
    /\ \E d \in TradingDays :
          /\ d >= day /\ \A e \in TradingDays : e >= day => d <= e
          /\ day' = d
    /\ bars' \in [Symbols -> Bars]
    /\ rows' \in SUBSET {s \in Symbols : positions[s].held}
    /\ phase' = "actions"
    /\ UNCHANGED <<books, orders, unmarked, nav, frame, bought, rated, allowed, failure>>

\* A bar exists only on a trading day of the symbol's own market.
OpenDay ==
    /\ phase = "closed"
    /\ \E d \in TradingDays :
          /\ d > day /\ \A e \in TradingDays : e > day => d <= e
          /\ day' = d
    /\ bars' \in {b \in [Symbols -> Bars] :
                    \A s \in Symbols : day' \notin DaysOf(s) => b[s] = NoBar}
    /\ rows' \in SUBSET {s \in Symbols : positions[s].held}
    /\ phase' = "actions"
    /\ UNCHANGED <<books, orders, unmarked, nav, frame, bought, rated, allowed, failure>>

Acts(s) ==
    /\ phase = "actions" /\ s \in rows
    /\ rows' = rows \ {s}
    /\ UNCHANGED <<day, phase, bars, todo, unmarked, nav, frame, bought, rated,
                   failure>>

CashDividend(s, amount) ==
    LET paid == amount * positions[s].shares IN
    /\ Acts(s)
    /\ cash' = [cash EXCEPT ![CurrencyOf(s)] = @ + paid]
    /\ pending' = IF ReinvestDividends /\ paid > 0
                  THEN Append(pending, [ready |-> day, symbol |-> s,
                                        side |-> "buy", shares |-> Reinvest])
                  ELSE pending
    /\ UNCHANGED <<positions, allowed>>

\* int(): the fraction of a share is dropped, towards zero for a short.
Truncated(n, ratio) ==
    IF n >= 0 THEN (n * ratio[1]) \div ratio[2]
    ELSE -((-n * ratio[1]) \div ratio[2])

\* A stock dividend, a split or a reverse split.
ShareRatio(s, ratio) ==
    /\ Acts(s)
    /\ positions' = [positions EXCEPT ![s].shares = Truncated(@, ratio)]
    /\ allowed' = [allowed EXCEPT ![s] = positions'[s].shares + Queued(pending, s)]
    /\ UNCHANGED <<cash, pending>>

\* (mutant) the list of pending orders is not emptied
StartOrdersKept ==
    /\ phase = "actions" /\ rows = {}
    /\ todo' = pending /\ pending' = pending
    /\ phase' = "orders"
    /\ UNCHANGED <<day, bars, books, unmarked, nav, plan, bought, rated, allowed, failure>>

StartOrders ==
    /\ phase = "actions" /\ rows = {}
    /\ todo' = pending /\ pending' = <<>>
    /\ phase' = "orders"
    /\ UNCHANGED <<day, bars, books, unmarked, nav, plan, bought, rated, allowed, failure>>

-----------------------------------------------------------------------------
\* 2. The orders queued before, in their order.

\* (mutant) sells are not held back by the lock
VerdictUnlocked(o) ==
    CASE bars[o.symbol].state = "none" -> "drop"
      [] bars[o.symbol].state # "trading" -> "retry"
      [] o.shares = Reinvest -> "drop"
      [] OTHER -> "fill"

\* attempt_fill, its conditions in their order.
Verdict(o) ==
    LET bar == bars[o.symbol]
        pos == positions[o.symbol]
    IN  CASE bar.state = "none" -> "drop"
          [] bar.state = "suspended" -> "retry"
          [] bar.state = "limit_up" /\ o.side \in Buying -> "retry"
          [] bar.state = "limit_down" /\ o.side \notin Buying -> "retry"
          [] /\ o.side \in {"sell", "cover"} /\ pos.held
             /\ pos.lock # 0 /\ day <= pos.lock -> "drop"
          [] /\ o.side = "short" /\ o.symbol \in AShares
             /\ ~AShareShortAllowed -> "drop"
          \* a reinvestment finds no earmark: nothing ever writes one
          [] o.shares = Reinvest -> "drop"
          [] OTHER -> "fill"

NextOrder == phase = "orders" /\ todo # <<>> /\ failure = "none"

Rejected ==
    /\ NextOrder /\ Verdict(Head(todo)) # "fill"
    /\ todo' = Tail(todo)
    /\ pending' = IF Verdict(Head(todo)) = "retry"
                  THEN Append(pending, Head(todo)) ELSE pending
    /\ allowed' = IF Verdict(Head(todo)) = "drop" /\ Signed(Head(todo)) < 0
                  THEN [allowed EXCEPT ![Head(todo).symbol] = @ - Signed(Head(todo))]
                  ELSE allowed
    /\ UNCHANGED <<day, phase, bars, books, unmarked, nav, plan, bought, rated,
                   failure>>

\* The guard after each fill: no balance may be below zero (the code
\* tolerates one unit of money, which is below a unit of this model).
Guarded(c) ==
    failure' = IF \E k \in Currencies : c[k] < 0 THEN "negative cash" ELSE "none"

FillBuy(o, n, price) ==
    LET b == Bought(Ledger, o.symbol, o.side, n, price, day) IN
    /\ cash' = b.cash /\ positions' = b.positions
    /\ bought' = [bought EXCEPT ![o.symbol] = day]
    /\ todo' = Tail(todo)
    /\ Guarded(b.cash)
    /\ UNCHANGED <<day, phase, bars, pending, unmarked, nav, plan, rated, allowed>>

BuyOrCover ==
    LET o     == Head(todo)
        price == FillPrice(o.symbol, o.side, bars[o.symbol].price)
        n     == SharesToBuy(Ledger, o.symbol, o.side, o.shares, price, day)
    IN  /\ NextOrder /\ Verdict(o) = "fill" /\ o.side \in Buying
        /\ \/ n > 0 /\ ~DividesByZero(Ledger, o.symbol, n) /\ FillBuy(o, n, price)
           \/ /\ n > 0 /\ DividesByZero(Ledger, o.symbol, n)
              /\ failure' = "division by zero"
              /\ UNCHANGED <<day, phase, bars, books, orders, unmarked, nav,
                             plan, bought, rated, allowed>>
           \/ /\ n = 0
              /\ todo' = Tail(todo)
              /\ UNCHANGED <<day, phase, bars, books, pending, unmarked, nav,
                             plan, bought, rated, allowed, failure>>

SellOrShort ==
    LET o     == Head(todo)
        price == FillPrice(o.symbol, o.side, bars[o.symbol].price)
        b     == Sold(Ledger, o.symbol, o.side, o.shares, price)
    IN  /\ NextOrder /\ Verdict(o) = "fill" /\ o.side \notin Buying
        /\ cash' = b.cash /\ positions' = b.positions
        /\ todo' = Tail(todo)
        /\ Guarded(b.cash)
        /\ UNCHANGED <<day, phase, bars, pending, unmarked, nav, plan, bought,
                       rated, allowed>>

-----------------------------------------------------------------------------
\* Valuation at the closing prices.  The scheduler sizes orders by the gross
\* value, the equity curve records the net one; both loops see the same books.

OrdersDone == phase = "orders" /\ todo = <<>> /\ failure = "none"

StartMarking ==
    /\ OrdersDone /\ rated
    /\ nav' = LET c == CashInBase(cash, day) IN [gross |-> c, net |-> c]
    /\ unmarked' = {s \in Symbols : positions[s].held}
    /\ phase' = "marking"
    /\ UNCHANGED <<day, bars, books, orders, plan, bought, rated, allowed, failure>>

\* fx_to_base without any rate: next(iter(...)) raises StopIteration.
NoRateAtAll ==
    /\ OrdersDone /\ ~rated
    /\ failure' = "no rate"
    /\ UNCHANGED <<day, phase, bars, books, orders, unmarked, nav, plan, bought,
                   rated, allowed>>

AbsOf(n) == IF n < 0 THEN -n ELSE n

\* A position without a bar of the day is worth nothing.
Mark(s) ==
    LET value == positions[s].shares * bars[s].close
                 * FxToBase(CurrencyOf(s), day)
    IN  /\ phase = "marking" /\ s \in unmarked
        /\ unmarked' = unmarked \ {s}
        /\ nav' = [gross |-> nav.gross + AbsOf(value), net |-> nav.net + value]
        /\ UNCHANGED <<day, phase, bars, books, orders, plan, bought, rated, allowed,
                       failure>>

-----------------------------------------------------------------------------
\* 3. The scheduler: target weights become orders for the next day.

Frames == {f \in [Symbols -> Weights \cup {Untargeted}] :
              LET size(s) == IF f[s] = Untargeted THEN 0 ELSE AbsOf(f[s])
              IN  MapThenSumSet(size, Symbols) <= WeightUnit}

\* compute_rebalance_dates: the last trading day of every period, of the one the
\* backtest ends in as well.
RebalanceDates ==
    {d \in TradingDays : \A e \in TradingDays : d < e => PeriodOf[d] # PeriodOf[e]}

Rebalance ==
    /\ phase = "marking" /\ unmarked = {} /\ day \in RebalanceDates
    /\ frame' \in Frames \ {NoFrame}
    /\ rows' = {s \in Symbols : frame'[s] # Untargeted}
    /\ phase' = "targets"
    /\ UNCHANGED <<day, bars, books, orders, unmarked, nav, bought, rated, allowed,
                   failure>>

Current(s) == positions[s].shares

\* Whole lots of a value: fewer for a positive one, more for a negative one.
TargetShares(value, weight, unit) ==
    LET lots == AbsOf(value) \div (unit * Lot)
        full == IF value >= 0 \/ lots * unit * Lot = AbsOf(value)
                THEN lots * Lot ELSE (lots + 1) * Lot
    IN  IF weight < 0 THEN -full ELSE full

Target(s) ==
    LET unit == WeightUnit * bars[s].close * FxToBase(CurrencyOf(s), day)
    IN  TargetShares(nav.gross * frame[s], frame[s], unit)

\* The whole shares the weight pays for; an account worth less than nothing pays for
\* none, and is left to what the scheduler makes of it.
PaidFor(s) ==
    IF nav.gross < 0 THEN Target(s)
    ELSE (nav.gross * frame[s])
         \div (WeightUnit * bars[s].close * FxToBase(CurrencyOf(s), day))

\* infer_side.
SideOf(current, target) ==
    IF current >= 0 /\ target > current THEN "buy"
    ELSE IF current > 0 /\ target < current THEN "sell"
    ELSE IF target > current THEN "cover" ELSE "short"

Queue(s, side, n) ==
    pending' = Append(pending, [ready |-> day, symbol |-> s, side |-> side,
                                shares |-> n])

TargetRow(s) ==
    /\ phase = "targets" /\ s \in rows
    /\ rows' = rows \ {s}
    /\ IF bars[s] = NoBar \/ Target(s) = Current(s)
       THEN UNCHANGED pending
       ELSE Queue(s, SideOf(Current(s), Target(s)), AbsOf(Target(s) - Current(s)))
    /\ allowed' = IF bars[s] = NoBar THEN allowed
                  ELSE [allowed EXCEPT ![s] = PaidFor(s) + Queued(pending, s)]
    /\ UNCHANGED <<day, phase, bars, books, todo, unmarked, nav, frame, bought,
                   rated, failure>>

\* After the rows, positions that have none are closed.
CloseOthers ==
    /\ phase = "targets" /\ rows = {}
    /\ rows' = {s \in Symbols : frame[s] = Untargeted /\ Current(s) # 0}
    /\ phase' = "others"
    /\ UNCHANGED <<day, bars, books, orders, unmarked, nav, frame, bought,
                   rated, allowed, failure>>

Liquidate(s) ==
    /\ phase = "others" /\ s \in rows
    /\ rows' = rows \ {s}
    /\ Queue(s, IF Current(s) > 0 THEN "sell" ELSE "cover", AbsOf(Current(s)))
    /\ allowed' = [allowed EXCEPT ![s] = Queued(pending, s)]
    /\ UNCHANGED <<day, phase, bars, books, todo, unmarked, nav, frame, bought,
                   rated, failure>>

-----------------------------------------------------------------------------
\* 4. and 5. The equity is recorded and locks that have run out are cleared.

CloseDay ==
    /\ \/ phase = "marking" /\ unmarked = {}
       \/ phase = "others" /\ rows = {}
    /\ positions' = [s \in Symbols |->
          IF positions[s].lock <= day THEN [positions[s] EXCEPT !.lock = 0]
          ELSE positions[s]]
    /\ bars' = [s \in Symbols |-> NoBar]
    /\ nav' = [gross |-> 0, net |-> 0]
    /\ frame' = NoFrame
    /\ phase' = "closed"
    /\ UNCHANGED <<day, cash, orders, unmarked, rows, bought, rated, allowed, failure>>

Execute == Rejected \/ BuyOrCover \/ SellOrShort

Next ==
    \/ OpenDay \/ StartOrders
    \/ \E s \in Symbols : \/ \E amount \in Dividends : CashDividend(s, amount)
                          \/ \E ratio \in Ratios : ShareRatio(s, ratio)
    \/ Execute \/ StartMarking \/ NoRateAtAll
    \/ \E s \in Symbols : Mark(s) \/ TargetRow(s) \/ Liquidate(s)
    \/ Rebalance \/ CloseOthers \/ CloseDay

Spec == Init /\ [][Next]_vars

-----------------------------------------------------------------------------
\* Correctness

\* No lookahead: an order whose size depends on the closing prices of a day is
\* executed on a later day.
NoLookahead ==
    phase = "orders" =>
        \A i \in 1..Len(todo) : todo[i].shares # Reinvest => todo[i].ready < day

\* A step that executes the first order of the day's list.
Fills == phase = "orders" /\ todo # <<>> /\ cash' # cash

\* A fill changes what the account is worth by its costs and nothing else,
\* over both currencies, and never fills more than was ordered; a buy leaves
\* the cash of both currencies together at zero or more.
FillsAreFair ==
    [][LET o == Head(todo)
           s == o.symbol
           p == FillPrice(s, o.side, bars[s].price)
           n == AbsOf(positions'[s].shares - positions[s].shares)
           worth(c, k) ==
               CashInBase(c, day) + k * p * FxToBase(CurrencyOf(s), day)
       IN  Fills =>
           /\ worth(cash', positions'[s].shares)
                 = worth(cash, positions[s].shares)
                   - CostOf(s, o.side, n * p) * FxToBase(CurrencyOf(s), day)
           /\ n <= o.shares
           /\ o.side \in Buying => CashInBase(cash', day) >= 0]_vars

\* T+N: shares are not sold within N trading days of the last buy of their
\* symbol.  The engine's plan has it checked before a sell or a short
\* (2026-04-29-ah-research-phase-2.md:1211); the code checks sells and covers.
SettlementHolds ==
    [][\A s \in Symbols :
          /\ phase = "orders" /\ LockDays[MarketOf(s)] > 0
          /\ positions[s].shares > 0 /\ bought[s] # 0
          /\ positions'[s].shares < positions[s].shares
          => Cardinality({x \in DaysOf(s) : bought[s] < x /\ x <= day})
                > LockDays[MarketOf(s)]]_vars

\* A rebalance never over-holds (the design's line 386): on no later day, whatever is
\* halted, retried, cut to the cash or refused, do a position and its orders come to
\* more shares than the weight of its last rebalance paid for, but for the orders halts
\* had put back by then and the sales refused since.
NeverOverHolds ==
    \A s \in Symbols :
        Current(s) + Queued(pending, s) + Queued(todo, s) <= allowed[s]

\* The design calls a negative balance an accounting bug that order sizing
\* rules out (line 552).
CashNeverNegative == failure # "negative cash"

=============================================================================
