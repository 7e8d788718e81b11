------------------------------- MODULE Market -------------------------------
(***************************************************************************)
(* What a backtest takes as given: two exchanges with calendars of their   *)
(* own, two currencies, an exchange-rate series with gaps, cost schedules  *)
(* and the settlement convention.  SH and SZ share calendar, currency and  *)
(* settlement, and are one market "A" here; HK is market "H".              *)
(* Money is integral: TLA+ has no Decimals, so a proportional cost is      *)
(* rounded down to a whole unit.                                           *)
(***************************************************************************)
EXTENDS Integers, FiniteSetsExt

CONSTANTS
    AShares, HShares,   \* the symbols of each market
    SHDays, HKDays,     \* trading days of each market
    LastDay,            \* bound: calendar days 1..LastDay
    Base,               \* config.base_currency
    FxRates,            \* fx_lookup: value in Base of one unit of the other
                        \* currency, on the days that have a rate
    CostModel,          \* cost schedule of each market
    CostUnit,           \* rates of CostModel are per CostUnit (10000 bps)
    LockDays,           \* settlement days of each market
    Lot                 \* board lot

Symbols    == AShares \cup HShares
Markets    == {"A", "H"}
Currencies == {"CNY", "HKD"}
Days       == 1..LastDay
Costs == [commission : Nat, minimum : Nat, buying : Nat, selling : Nat,
          slippage : Nat]

ASSUME MarketAssumption ==
    /\ AShares \cap HShares = {}
    /\ LastDay \in Nat /\ SHDays \subseteq Days /\ HKDays \subseteq Days
    /\ Base \in Currencies
    /\ DOMAIN FxRates \subseteq Days /\ DOMAIN FxRates # {}
    /\ \A d \in DOMAIN FxRates : FxRates[d] \in Nat \ {0}
    /\ CostUnit \in Nat \ {0} /\ Lot \in Nat \ {0}
    /\ CostModel \in [Markets -> Costs] /\ DOMAIN LockDays = Markets
    /\ \A m \in Markets : LockDays[m] \in Nat

MarketOf(s)   == IF s \in AShares THEN "A" ELSE "H"
CurrencyOf(s) == IF s \in AShares THEN "CNY" ELSE "HKD"
DaysOf(s)     == IF s \in AShares THEN SHDays ELSE HKDays
TradingDays   == SHDays \cup HKDays
Buying        == {"buy", "cover"}

\* The rate of the day, else of the last day before it that has one, else
\* the first one of the series.
RateOn(d) ==
    LET past == {x \in DOMAIN FxRates : x <= d}
    IN  FxRates[IF past # {} THEN Max(past) ELSE Min(DOMAIN FxRates)]

FxToBase(ccy, d) == IF ccy = Base THEN 1 ELSE RateOn(d)

\* Commission with its minimum, and the duties of the side.
CostOf(s, side, notional) ==
    LET m == CostModel[MarketOf(s)] IN
    Max({m.minimum, (notional * m.commission) \div CostUnit})
    + (notional * (IF side \in Buying THEN m.buying ELSE m.selling)) \div CostUnit

\* Slippage moves the price against the order.
FillPrice(s, side, price) ==
    LET slip == CostModel[MarketOf(s)].slippage
    IN  IF side \in Buying THEN price + slip ELSE price - slip

\* next_n_trading_days: the n-th trading day after d, or the last one there is.
NthDayAfter(s, d, n) ==
    LET future == {x \in DaysOf(s) : x > d}
        nth    == {x \in future : Cardinality({y \in future : y <= x}) = n}
    IN  IF nth # {} THEN Max(nth) ELSE Max(future \cup {d})

\* The date a position is locked until after a buy on day d; 0 is no lock.
LockedUntil(s, d) ==
    LET n == LockDays[MarketOf(s)]
    IN  IF n = 0 THEN 0 ELSE NthDayAfter(s, d, n)
=============================================================================
