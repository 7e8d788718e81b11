--------------------------- MODULE BacktestProofs ---------------------------
(***************************************************************************)
(* Theorems about a backtest, for every calendar, market, cost model and   *)
(* strategy:                                                               *)
(*   a fill takes the market value of what it trades and the costs of the  *)
(*   trade out of the books, and nothing else;                             *)
(*   no share is sold before its settlement lock has run out;              *)
(*   no position comes to more than its weight paid for, but for orders    *)
(*   put back and sales refused;                                           *)
(*   a long-only strategy is never short, and no balance below zero;       *)
(*   no order is sized by a price of the day on which it is executed;      *)
(*   and the windows of a walk-forward verification do not look ahead.     *)
(*                                                                         *)
(* The invariants that carry them.  TypeInv: among others, a share count   *)
(* is an integer and a queued reinvestment is not one.  LockInv: a         *)
(* position's lock is that of its last buy; ShortInv and LongInv: what is  *)
(* sold short is not held.  HoldInv adds up what a position and its orders *)
(* come to.  HeldInv: what is to be sold is held.  LotInv, CashInv: trades *)
(* are of whole lots, and balances not below zero.  QueueInv dates the     *)
(* whole queue, because an order may have been put back by a halt for days *)
(* before it is executed.                                                  *)
(***************************************************************************)
EXTENDS Backtest, WalkForward, FiniteSetTheorems, WellFoundedInduction, TLAPS

-----------------------------------------------------------------------------
\* Numbers.

\* A set of natural numbers that is not empty has a least one.
LEMMA LeastNat ==
    ASSUME NEW S \in SUBSET Nat, S # {}
    PROVE  \E m \in S : \A n \in S : m <= n
<1>1. \E m \in S : \A n \in S : ~(<<n, m>> \in OpToRel(<, Nat))
    BY NatLessThanWellFounded, WFMin, Zenon
<1>2. \A m, n \in S : <<n, m>> \in OpToRel(<, Nat) <=> n < m
    BY DEF OpToRel
<1>3. PICK m \in S : \A n \in S : ~(n < m)
    BY <1>1, <1>2, Zenon
<1> QED
    BY <1>3

\* A set of numbers that is bounded has a greatest one.
LEMMA MaxIsOneOfThem ==
    ASSUME NEW S \in SUBSET Int, S # {}, NEW bound \in Int, \A x \in S : x <= bound
    PROVE  Max(S) \in S /\ \A x \in S : x <= Max(S)
<1> DEFINE below == {bound - x : x \in S}
<1>1. below \in SUBSET Nat /\ below # {}
    <2>1. \A x \in S : x \in Int /\ bound - x \in Nat
        OBVIOUS
    <2>2. \A m \in below : m \in Nat
        BY <2>1
    <2> QED
        BY <2>2
<1>2. PICK m \in below : \A n \in below : m <= n
    BY <1>1, LeastNat
<1>3. PICK x \in S : m = bound - x
    BY <1>2
<1>4. \A y \in S : bound - x <= bound - y
    BY <1>2, <1>3
<1>5. \A y \in S : x >= y
    BY <1>4
<1> QED
    BY <1>5 DEF Max

LEMMA MinIsOneOfThem ==
    ASSUME NEW S \in SUBSET Nat, S # {}
    PROVE  Min(S) \in S /\ \A n \in S : Min(S) <= n
<1>1. \E m \in S : \A n \in S : m <= n
    BY LeastNat
<1> QED
    BY <1>1 DEF Min

LEMMA MaxOfTwo ==
    ASSUME NEW a \in Int, NEW b \in Int
    PROVE  Max({a, b}) = IF a >= b THEN a ELSE b
<1>1. PICK m \in Int : m = IF a >= b THEN a ELSE b
    OBVIOUS
<1>2. Max({a, b}) \in {a, b} /\ \A y \in {a, b} : Max({a, b}) >= y
    <2>1. m \in {a, b} /\ \A y \in {a, b} : m >= y
        BY <1>1
    <2> QED
        BY <2>1 DEF Max
<1> QED
    BY <1>2

\* A larger number has a quotient that is no smaller.
LEMMA QuotientsGrow ==
    ASSUME NEW a \in Int, NEW b \in Int, NEW n \in Nat \ {0}, a <= b
    PROVE  a \div n \in Int /\ a \div n <= b \div n
<1>1. PICK p \in Int, q \in Int : p = a \div n /\ q = b \div n
    OBVIOUS
<1>2. PICK r \in 0..(n - 1), t \in 0..(n - 1) : a = n * p + r /\ b = n * q + t
    <2>1. a % n \in 0..(n - 1) /\ a = n * (a \div n) + (a % n)
        BY SMT
    <2>2. b % n \in 0..(n - 1) /\ b = n * (b \div n) + (b % n)
        BY SMT
    <2> QED
        BY <1>1, <2>1, <2>2
<1>3. SUFFICES ASSUME p >= q + 1 PROVE FALSE
    BY <1>1
<1>4. n * p >= n * (q + 1)
    BY <1>3
<1>5. n * (q + 1) = n * q + n
    OBVIOUS
<1> QED
    BY <1>2, <1>4, <1>5

LEMMA ProductsGrow ==
    ASSUME NEW a \in Int, NEW b \in Int, NEW n \in Nat, a <= b
    PROVE  a * n \in Int /\ a * n <= b * n
OBVIOUS

-----------------------------------------------------------------------------
\* The market.

\* Every day has a rate.
LEMMA RatesArePositive ==
    ASSUME NEW d \in Int, NEW c
    PROVE  FxToBase(c, d) \in Nat \ {0} /\ FxToBase(Base, d) = 1
<1>1. DOMAIN FxRates \subseteq 1..LastDay /\ DOMAIN FxRates # {} /\ LastDay \in Nat
      /\ \A x \in DOMAIN FxRates : FxRates[x] \in Nat \ {0}
    BY MarketAssumption DEF Days
<1> DEFINE past == {x \in DOMAIN FxRates : x <= d}
<1>2. CASE past # {}
    <2>1. past \in SUBSET Int /\ \A x \in past : x <= d
        BY <1>1
    <2>2. Max(past) \in past
        BY <1>2, <2>1, MaxIsOneOfThem
    <2>3. RateOn(d) = FxRates[Max(past)]
        BY <1>2 DEF RateOn
    <2> QED
        BY <1>1, <2>2, <2>3 DEF FxToBase
<1>3. CASE past = {}
    <2>1. DOMAIN FxRates \in SUBSET Nat
        BY <1>1
    <2>2. Min(DOMAIN FxRates) \in DOMAIN FxRates
        BY <1>1, <2>1, MinIsOneOfThem
    <2>3. RateOn(d) = FxRates[Min(DOMAIN FxRates)]
        BY <1>3 DEF RateOn
    <2> QED
        BY <1>1, <2>2, <2>3 DEF FxToBase
<1> QED
    BY <1>2, <1>3

\* The parts of the cost schedule that applies to a symbol.
LEMMA ScheduleIs ==
    ASSUME NEW s
    PROVE  /\ CostModel[MarketOf(s)].commission \in Nat
           /\ CostModel[MarketOf(s)].minimum \in Nat
           /\ CostModel[MarketOf(s)].buying \in Nat
           /\ CostModel[MarketOf(s)].selling \in Nat
           /\ CostModel[MarketOf(s)].slippage \in Nat
<1>1. MarketOf(s) \in Markets
    BY DEF MarketOf, Markets
<1>2. CostModel[MarketOf(s)] \in Costs
    BY <1>1, MarketAssumption
<1> QED
    BY <1>2 DEF Costs

\* Larger trades cost no less, and none costs less than nothing.
LEMMA CostsGrow ==
    ASSUME NEW s, NEW side, NEW a \in Int, NEW b \in Int, a <= b
    PROVE  /\ CostOf(s, side, a) \in Int /\ CostOf(s, side, a) <= CostOf(s, side, b)
           /\ a >= 0 => CostOf(s, side, a) >= 0
<1>1. PICK minimum \in Nat, rate \in Nat, duty \in Nat :
          /\ minimum = CostModel[MarketOf(s)].minimum
          /\ rate = CostModel[MarketOf(s)].commission
          /\ duty = IF side \in Buying THEN CostModel[MarketOf(s)].buying
                    ELSE CostModel[MarketOf(s)].selling
    BY ScheduleIs
<1>2. \A x \in {a, b} : CostOf(s, side, x) = Max({minimum, (x * rate) \div CostUnit})
                                             + (x * duty) \div CostUnit
    BY <1>1 DEF CostOf
<1>3. a * rate <= b * rate /\ a * duty <= b * duty /\ a * rate \in Int /\ b * rate \in Int
      /\ a * duty \in Int /\ b * duty \in Int
    BY ProductsGrow
<1>4. /\ (a * rate) \div CostUnit \in Int /\ (b * rate) \div CostUnit \in Int
      /\ (a * rate) \div CostUnit <= (b * rate) \div CostUnit
      /\ (a * duty) \div CostUnit \in Int /\ (b * duty) \div CostUnit \in Int
      /\ (a * duty) \div CostUnit <= (b * duty) \div CostUnit
    BY <1>3, QuotientsGrow, MarketAssumption
<1>5. \A x \in {a, b} : Max({minimum, (x * rate) \div CostUnit})
          = IF minimum >= (x * rate) \div CostUnit THEN minimum ELSE (x * rate) \div CostUnit
    BY <1>4, MaxOfTwo
<1>6. a >= 0 => (a * duty) \div CostUnit >= 0
    <2>1. 0 \div CostUnit = 0
        BY MarketAssumption, SMT
    <2>2. a >= 0 => 0 <= a * duty
        BY 0 \in Int, ProductsGrow
    <2> QED
        BY <1>3, <2>1, <2>2, 0 \in Int, QuotientsGrow, MarketAssumption
<1> QED
    BY <1>2, <1>4, <1>5, <1>6

-----------------------------------------------------------------------------
\* The books.

Balances == [Currencies -> Int]
Holdings == [Symbols -> [held : BOOLEAN, shares : Int, lock : Nat]]
Orders   == [ready : Nat, symbol : Symbols, side : {"buy", "sell", "short", "cover"},
             shares : Nat \cup {Reinvest}]

LEMMA CurrenciesAre ==
    ASSUME NEW s
    PROVE  CurrencyOf(s) \in Currencies /\ Base \in Currencies
           /\ Currencies = {"CNY", "HKD"}
BY MarketAssumption DEF CurrencyOf, Currencies

Changed(c, k, amount) == [c EXCEPT ![k] = @ + amount]

\* What a balance is worth when one currency changes by an amount.
LEMMA CashChanges ==
    ASSUME NEW c \in Balances, NEW k \in Currencies, NEW amount \in Int, NEW d \in Int
    PROVE  /\ Changed(c, k, amount) \in Balances
           /\ CashInBase(c, d) \in Int
           /\ CashInBase(Changed(c, k, amount), d)
                 = CashInBase(c, d) + amount * FxToBase(k, d)
<1>1. PICK x \in Int, y \in Int : x = FxToBase("CNY", d) /\ y = FxToBase("HKD", d)
    BY RatesArePositive
<1>2. PICK m \in Int, h \in Int : m = c["CNY"] /\ h = c["HKD"]
    BY DEF Balances, Currencies
<1>3. Changed(c, k, amount) \in Balances
    BY DEF Balances, Currencies, Changed
<1>4. CashInBase(c, d) = m * x + h * y
    BY <1>1, <1>2 DEF CashInBase
<1>5. CASE k = "CNY"
    <2>1. CashInBase(Changed(c, k, amount), d) = (m + amount) * x + h * y
        BY <1>1, <1>2, <1>5 DEF CashInBase, Balances, Currencies, Changed
    <2> QED
        BY <1>1, <1>3, <1>4, <1>5, <2>1
<1>6. CASE k = "HKD"
    <2>1. CashInBase(Changed(c, k, amount), d) = m * x + (h + amount) * y
        BY <1>1, <1>2, <1>6 DEF CashInBase, Balances, Currencies, Changed
    <2> QED
        BY <1>1, <1>3, <1>4, <1>6, <2>1
<1> QED
    BY <1>5, <1>6 DEF Currencies

LEMMA CashIsANumber ==
    ASSUME NEW c \in Balances, NEW d \in Int
    PROVE  CashInBase(c, d) \in Int
<1>1. Base \in Currencies /\ 0 \in Int
    BY MarketAssumption
<1> QED
    BY <1>1, CashChanges

\* A debit takes what it takes from both currencies together.
LEMMA DebitTakes ==
    ASSUME NEW c \in Balances, NEW k \in Currencies, NEW amount \in Int, NEW d \in Int
    PROVE  /\ Debit(c, k, amount, d) \in Balances
           /\ CashInBase(Debit(c, k, amount, d), d)
                 = CashInBase(c, d) - amount * FxToBase(k, d)
<1>1. PICK r \in Int : r = FxToBase(k, d)
    BY RatesArePositive
<1>2. PICK left \in Int : left = c[k] - amount
    BY DEF Balances
<1>3. c[k] \in Int /\ Base \in Currencies /\ CashInBase(c, d) \in Int
    BY MarketAssumption, CashChanges DEF Balances
<1>4. CASE left < 0 /\ k # Base
    <2>1. PICK v \in Int, w \in Int : v = left * r /\ w = -c[k]
        BY <1>3
    <2>2. PICK first : first = Changed(c, k, w)
        OBVIOUS
    <2>3. first \in Balances /\ CashInBase(first, d) = CashInBase(c, d) + w * r
        BY <1>1, <2>2, CashChanges
    <2>4. Debit(c, k, amount, d) = Changed(first, Base, v)
        <3>1. Debit(c, k, amount, d) = [c EXCEPT ![k] = 0, ![Base] = @ + v]
            BY <1>1, <1>2, <1>4, <2>1 DEF Debit
        <3>2. c[k] + w = 0
            BY <1>3, <2>1
        <3>3. first = [c EXCEPT ![k] = 0]
            BY <2>2, <3>2 DEF Changed
        <3> QED
            BY <1>4, <3>1, <3>3 DEF Changed
    <2>5. Debit(c, k, amount, d) \in Balances
          /\ CashInBase(Debit(c, k, amount, d), d) = CashInBase(first, d) + v * FxToBase(Base, d)
        BY <1>3, <2>3, <2>4, CashChanges
    <2>6. FxToBase(Base, d) = 1
        BY RatesArePositive
    <2>7. w * r + v = -(amount * r)
        <3>1. PICK x \in Int : x = c[k]
            BY <1>3
        <3>2. (-x) * r + (x - amount) * r = -(amount * r)
            OBVIOUS
        <3> QED
            BY <1>2, <2>1, <3>1, <3>2
    <2>8. w * r \in Int /\ amount * r \in Int
        OBVIOUS
    <2> QED
        BY <1>1, <1>3, <2>3, <2>5, <2>6, <2>7, <2>8
<1>5. CASE ~(left < 0 /\ k # Base)
    <2>1. PICK minus \in Int : minus = -amount
        OBVIOUS
    <2>2. Debit(c, k, amount, d) = [c EXCEPT ![k] = left]
        BY <1>2, <1>5 DEF Debit
    <2>3. left = c[k] + minus
        BY <1>2, <1>3, <2>1
    <2>4. Debit(c, k, amount, d) = Changed(c, k, minus)
        BY <2>2, <2>3 DEF Changed
    <2>5. Debit(c, k, amount, d) \in Balances
          /\ CashInBase(Debit(c, k, amount, d), d) = CashInBase(c, d) + minus * FxToBase(k, d)
        BY <2>4, CashChanges
    <2>6. minus * r = -(amount * r) /\ amount * r \in Int
        BY <2>1
    <2> QED
        BY <1>1, <1>3, <2>5, <2>6
<1> QED
    BY <1>4, <1>5

\* Larger purchases need more cash.
LEMMA OutlaysGrow ==
    ASSUME NEW s, NEW side, NEW m \in Nat, NEW n \in Nat, m <= n, NEW price \in Nat,
           NEW d \in Int
    PROVE  Outlay(s, side, m, price, d) \in Int
           /\ Outlay(s, side, m, price, d) <= Outlay(s, side, n, price, d)
<1>1. m * price \in Int /\ n * price \in Int /\ m * price <= n * price
    BY ProductsGrow
<1>2. PICK x \in Int, y \in Int : /\ x = m * price + CostOf(s, side, m * price)
                                  /\ y = n * price + CostOf(s, side, n * price)
                                  /\ x <= y
    <2>1. /\ CostOf(s, side, m * price) \in Int /\ CostOf(s, side, n * price) \in Int
          /\ CostOf(s, side, m * price) <= CostOf(s, side, n * price)
        BY <1>1, CostsGrow
    <2> QED
        BY <1>1, <2>1
<1>3. PICK r \in Nat : r = FxToBase(CurrencyOf(s), d)
    BY RatesArePositive
<1>4. x * r \in Int /\ x * r <= y * r
    BY <1>2, ProductsGrow
<1> QED
    BY <1>2, <1>3, <1>4 DEF Outlay

\* What is bought is no more than was ordered, and the cash pays for it.
LEMMA BuysAreAffordable ==
    ASSUME NEW b, NEW s, NEW side, NEW wanted \in Nat, NEW price \in Nat \ {0}, NEW d \in Int,
           b.cash \in Balances
    PROVE  LET n == SharesToBuy(b, s, side, wanted, price, d) IN
           /\ n \in Nat /\ n <= wanted
           /\ n # 0 => Affordable(b, s, side, n, price, d)
<1>1. CASE Affordable(b, s, side, wanted, price, d)
    BY <1>1 DEF SharesToBuy
<1>2. CASE ~Affordable(b, s, side, wanted, price, d)
    <2> DEFINE most == (CashInBase(b.cash, d) \div (price * FxToBase(CurrencyOf(s), d))) \div Lot
               lots == {k \in 1..most : Affordable(b, s, side, k * Lot, price, d)}
    <2>1. SharesToBuy(b, s, side, wanted, price, d) = IF lots = {} THEN 0 ELSE Lot * Max(lots)
        BY <1>2 DEF SharesToBuy
    <2>2. CASE lots = {}
        BY <2>1, <2>2
    <2>3. CASE lots # {}
        <3>1. most \in Int
            <4>1. PICK unit \in Nat \ {0} : unit = price * FxToBase(CurrencyOf(s), d)
                <5>1. PICK r \in Nat \ {0} : r = FxToBase(CurrencyOf(s), d)
                    BY RatesArePositive
                <5>2. price * r \in Nat \ {0}
                    BY SMT
                <5> QED
                    BY <5>1, <5>2
            <4>2. CashInBase(b.cash, d) \in Int
                BY CashIsANumber
            <4>3. CashInBase(b.cash, d) \div unit \in Int
                BY <4>1, <4>2, QuotientsGrow
            <4> QED
                BY <4>1, <4>3, MarketAssumption, QuotientsGrow
        <3> HIDE DEF most
        <3>2. lots \in SUBSET Int /\ \A k \in lots : k <= most
            BY <3>1
        <3>3. PICK k \in lots : k = Max(lots)
            BY <2>3, <3>1, <3>2, MaxIsOneOfThem
        <3>4. k \in Nat \ {0} /\ Affordable(b, s, side, k * Lot, price, d)
            BY <3>1
        <3>5. PICK n \in Nat : n = k * Lot /\ n = Lot * k
            BY <3>4, MarketAssumption
        <3>6. n <= wanted
            <4>1. SUFFICES ASSUME n > wanted PROVE FALSE
                OBVIOUS
            <4>2. Outlay(s, side, wanted, price, d) <= Outlay(s, side, n, price, d)
                  /\ Outlay(s, side, wanted, price, d) \in Int
                  /\ Outlay(s, side, n, price, d) \in Int
                BY <4>1, OutlaysGrow
            <4>3. CashInBase(b.cash, d) \in Int
                BY CashIsANumber
            <4> QED
                BY <1>2, <3>4, <3>5, <4>2, <4>3 DEF Affordable
        <3> QED
            BY <2>1, <2>3, <3>3, <3>4, <3>5, <3>6
    <2> QED
        BY <2>2, <2>3
<1> QED
    BY <1>1, <1>2

-----------------------------------------------------------------------------
\* Types.

Early == {"actions", "orders"}
Late  == {"closed", "marking", "targets", "others"}

TypeInv ==
    /\ day \in Nat /\ phase \in Early \cup Late
    /\ bars \in [Symbols -> Bars]
    /\ cash \in Balances /\ positions \in Holdings
    /\ pending \in Seq(Orders) /\ todo \in Seq(Orders)
    /\ nav \in [gross : Int, net : Int]
    /\ unmarked \subseteq Symbols /\ rows \subseteq Symbols
    /\ frame \in [Symbols -> Weights \cup {Untargeted}]
    /\ phase = "targets" => \A s \in rows : frame[s] \in Weights
    /\ bought \in [Symbols -> Nat]

-----------------------------------------------------------------------------
\* What the helpers of the actions return.

LEMMA DaysAreNumbers == TradingDays \subseteq Nat
BY MarketAssumption DEF TradingDays, DaysOf, Days

LEMMA BarsHavePrices ==
    ASSUME TypeInv, NEW s \in Symbols, bars[s] # NoBar
    PROVE  bars[s].price \in Nat \ {0} /\ bars[s].close \in Nat \ {0} /\ bars[s].state \in BarStates
<1>1. bars[s] \in [state : BarStates, price : Prices, close : Prices]
    BY DEF TypeInv, Bars
<1> QED
    BY <1>1, BacktestAssumption

LEMMA NoBarIs == NoBar.state = "none" /\ "none" \notin BarStates
BY BacktestAssumption DEF NoBar

\* A quantity whose sign is dropped.
LEMMA AbsIsNatural == \A n \in Int : AbsOf(n) \in Nat
BY DEF AbsOf

LEMMA PositiveProduct ==
    ASSUME NEW a \in Nat \ {0}, NEW b \in Nat \ {0}
    PROVE  a * b \in Nat \ {0}
BY SMT

LEMMA NaturalQuotient ==
    ASSUME NEW a \in Nat, NEW n \in Nat \ {0}
    PROVE  a \div n \in Nat
<1>1. 0 \div n = 0
    BY SMT
<1> QED
    BY <1>1, 0 \in Int, a \in Int, 0 <= a, QuotientsGrow

\* A ratio turns shares into shares.
LEMMA TruncatedIs ==
    ASSUME NEW n \in Int, NEW ratio \in Ratios
    PROVE  Truncated(n, ratio) \in Int /\ (n <= 0 => Truncated(n, ratio) <= 0)
<1>1. PICK up \in Nat, down \in Nat \ {0} : up = ratio[1] /\ down = ratio[2]
    BY BacktestAssumption
<1>2. CASE n >= 0
    <2>1. n * up \in Nat
        BY <1>2
    <2>2. (n * up) \div down \in Nat
        BY <2>1, NaturalQuotient
    <2>3. Truncated(n, ratio) = (n * up) \div down
        BY <1>1, <1>2 DEF Truncated
    <2>4. n = 0 => (n * up) \div down = 0
        <3>1. 0 * up = 0 /\ 0 \div down = 0
            BY SMT
        <3> QED
            BY <3>1
    <2> QED
        BY <1>2, <2>2, <2>3, <2>4
<1>3. CASE n < 0
    <2>1. PICK m \in Nat : m = -n
        BY <1>3
    <2>2. (m * up) \div down \in Nat
        BY m * up \in Nat, NaturalQuotient
    <2>3. Truncated(n, ratio) = -((m * up) \div down)
        BY <1>1, <1>3, <2>1 DEF Truncated
    <2> QED
        BY <2>2, <2>3
<1> QED
    BY <1>2, <1>3

\* A target is a number of shares, negative only for a negative weight.
LEMMA TargetIs ==
    ASSUME TypeInv, NEW s \in Symbols, frame[s] \in Weights, bars[s] # NoBar
    PROVE  Target(s) \in Int /\ (frame[s] >= 0 => Target(s) >= 0)
<1>1. PICK unit \in Nat \ {0} : unit = WeightUnit * bars[s].close * FxToBase(CurrencyOf(s), day)
    <2>1. PICK rate \in Nat \ {0} : rate = FxToBase(CurrencyOf(s), day)
        BY RatesArePositive DEF TypeInv
    <2>2. PICK price \in Nat \ {0} : price = bars[s].close
        BY BarsHavePrices
    <2>3. WeightUnit * price \in Nat \ {0}
        BY BacktestAssumption, PositiveProduct
    <2>4. WeightUnit * price * rate \in Nat \ {0}
        BY <2>3, PositiveProduct
    <2> QED
        BY <2>1, <2>2, <2>4
<1>2. PICK value \in Int : value = nav.gross * frame[s]
    <2>1. PICK a \in Int, b \in Int : a = nav.gross /\ b = frame[s]
        BY BacktestAssumption DEF TypeInv
    <2> QED
        BY <2>1
<1>3. PICK size \in Nat : size = AbsOf(value)
    BY AbsIsNatural
<1>4. PICK lot \in Nat \ {0} : lot = Lot
    BY MarketAssumption
<1>5. PICK lots \in Nat : lots = size \div (unit * lot)
    BY PositiveProduct, NaturalQuotient
<1>6. PICK few \in Nat, many \in Nat : few = lots * lot /\ many = (lots + 1) * lot
    OBVIOUS
<1>7. Target(s) = TargetShares(value, frame[s], unit)
    BY <1>1, <1>2 DEF Target
<1>8. \E full \in {few, many} : TargetShares(value, frame[s], unit) = IF frame[s] < 0 THEN -full ELSE full
    BY <1>3, <1>4, <1>5, <1>6 DEF TargetShares
<1>9. frame[s] \in Int
    BY BacktestAssumption
<1> QED
    BY <1>7, <1>8, <1>9

LEMMA Lockable ==
    ASSUME NEW s \in Symbols, NEW d \in Nat
    PROVE  LockedUntil(s, d) \in Nat
<1>1. DaysOf(s) \subseteq 1..LastDay /\ LastDay \in Nat
    BY MarketAssumption DEF DaysOf, Days
<1> DEFINE future == {x \in DaysOf(s) : x > d}
<1>2. ASSUME NEW n PROVE NthDayAfter(s, d, n) \in Nat
    <2> DEFINE nth == {x \in future : Cardinality({y \in future : y <= x}) = n}
    <2>1. future \subseteq 1..LastDay
        BY <1>1
    <2>2. CASE nth # {}
        <3>1. nth \in SUBSET Int /\ \A x \in nth : x <= LastDay
            BY <1>1, <2>1
        <3>2. Max(nth) \in nth
            <4> HIDE DEF nth
            <4> QED
                BY <1>1, <2>2, <3>1, MaxIsOneOfThem
        <3>3. NthDayAfter(s, d, n) = Max(nth)
            BY <2>2 DEF NthDayAfter
        <3> QED
            BY <2>1, <3>2, <3>3
    <2>3. CASE nth = {}
        <3> DEFINE all == future \cup {d}
        <3>1. all \in SUBSET Int /\ all # {} /\ \A x \in all : x <= LastDay + d
            BY <1>1, <2>1
        <3>2. Max(all) \in all
            <4>1. LastDay + d \in Int
                BY <1>1
            <4> HIDE DEF all
            <4> QED
                BY <3>1, <4>1, MaxIsOneOfThem
        <3>3. NthDayAfter(s, d, n) = Max(all)
            BY <2>3 DEF NthDayAfter
        <3> QED
            BY <2>1, <3>2, <3>3
    <2> QED
        BY <2>2, <2>3
<1> QED
    BY <1>2 DEF LockedUntil

LEMMA BoughtIs ==
    ASSUME TypeInv, NEW s \in Symbols, NEW side, NEW n \in Int, NEW price \in Int
    PROVE  /\ Bought(Ledger, s, side, n, price, day).cash \in Balances
           /\ Bought(Ledger, s, side, n, price, day).positions \in Holdings
<1>1. PICK amount \in Int : amount = n * price + CostOf(s, side, n * price)
    <2>1. n * price \in Int
        OBVIOUS
    <2>2. CostOf(s, side, n * price) \in Int
        BY <2>1, CostsGrow
    <2> QED
        BY <2>1, <2>2
<1>2. Debit(cash, CurrencyOf(s), amount, day) \in Balances
    BY CurrenciesAre, DebitTakes DEF TypeInv
<1>3. LockedUntil(s, day) \in Nat
    BY Lockable DEF TypeInv
<1>4. positions[s].shares + n \in Int
    BY DEF TypeInv, Holdings
<1>5. PICK new \in [held : BOOLEAN, shares : Int, lock : Nat] :
          new = [held |-> TRUE, shares |-> positions[s].shares + n, lock |-> LockedUntil(s, day)]
    BY <1>3, <1>4
<1>6. [positions EXCEPT ![s] = new] \in Holdings
    BY DEF TypeInv, Holdings
<1>7. Bought(Ledger, s, side, n, price, day)
         = [cash |-> Debit(cash, CurrencyOf(s), amount, day), positions |-> [positions EXCEPT ![s] = new]]
    BY <1>1, <1>5 DEF Bought, Ledger
<1> QED
    BY <1>2, <1>6, <1>7

\* What a sale brings, and what it leaves.
Gain(s, side, n, price) == n * price - CostOf(s, side, n * price)

LEMMA SoldIs ==
    ASSUME TypeInv, NEW s \in Symbols, NEW side, NEW n \in Int, NEW price \in Int
    PROVE  /\ Sold(Ledger, s, side, n, price).cash
                 = Changed(cash, CurrencyOf(s), Gain(s, side, n, price))
           /\ Gain(s, side, n, price) \in Int
           /\ Sold(Ledger, s, side, n, price).cash \in Balances
           /\ Sold(Ledger, s, side, n, price).positions \in Holdings
           /\ Sold(Ledger, s, side, n, price).positions[s].shares = positions[s].shares - n
           /\ Sold(Ledger, s, side, n, price).positions[s].lock \in {0, positions[s].lock}
           /\ positions[s].shares - n > 0 /\ positions[s].held
                => Sold(Ledger, s, side, n, price).positions[s].lock = positions[s].lock
           /\ \A t \in Symbols \ {s} :
                 Sold(Ledger, s, side, n, price).positions[t] = positions[t]
<1>1. PICK gain \in Int : gain = n * price - CostOf(s, side, n * price) /\ gain = Gain(s, side, n, price)
    <2>1. n * price \in Int
        OBVIOUS
    <2>2. CostOf(s, side, n * price) \in Int
        BY <2>1, CostsGrow
    <2> QED
        BY <2>1, <2>2 DEF Gain
<1>2. PICK left \in Int : left = positions[s].shares - n
    BY DEF TypeInv, Holdings
<1>3. PICK new : new = IF left = 0 THEN NoPosition
                       ELSE IF positions[s].held THEN [positions[s] EXCEPT !.shares = left]
                       ELSE [held |-> TRUE, shares |-> left, lock |-> 0]
    OBVIOUS
<1>4. positions[s] \in [held : BOOLEAN, shares : Int, lock : Nat]
    BY DEF TypeInv, Holdings
<1>5. /\ new \in [held : BOOLEAN, shares : Int, lock : Nat] /\ new.shares = left
      /\ new.lock \in {0, positions[s].lock}
      /\ left > 0 /\ positions[s].held => new.lock = positions[s].lock
    BY <1>3, <1>4 DEF NoPosition
<1>6. [positions EXCEPT ![s] = new] \in Holdings
      /\ [positions EXCEPT ![s] = new][s] = new
      /\ \A t \in Symbols \ {s} : [positions EXCEPT ![s] = new][t] = positions[t]
    BY <1>5 DEF TypeInv, Holdings
<1>7. cash[CurrencyOf(s)] \in Int
    BY CurrenciesAre DEF TypeInv, Balances
<1>8. Sold(Ledger, s, side, n, price).cash = Changed(cash, CurrencyOf(s), gain)
    <2>1. Sold(Ledger, s, side, n, price).cash
             = [cash EXCEPT ![CurrencyOf(s)] = @ + n * price - CostOf(s, side, n * price)]
        BY DEF Sold, Ledger
    <2>2. cash[CurrencyOf(s)] + n * price - CostOf(s, side, n * price) = cash[CurrencyOf(s)] + gain
        <3>1. PICK a \in Int, c \in Int : a = n * price /\ c = CostOf(s, side, n * price)
            BY CostsGrow
        <3> QED
            BY <1>1, <1>7, <3>1
    <2> QED
        BY <2>1, <2>2 DEF Changed
<1>9. Sold(Ledger, s, side, n, price).positions = [positions EXCEPT ![s] = new]
    BY <1>2, <1>3 DEF Sold, Ledger
<1>10. Changed(cash, CurrencyOf(s), gain) \in Balances
    BY CurrenciesAre, CashChanges DEF TypeInv
<1> QED
    BY <1>1, <1>2, <1>5, <1>6, <1>8, <1>9, <1>10

\* The order that is next, and its place in the queue.
LEMMA NextInLine ==
    ASSUME NEW q \in Seq(Orders), q # <<>>
    PROVE  Head(q) \in Orders /\ Tail(q) \in Seq(Orders)
OBVIOUS

LEMMA LastInLine ==
    ASSUME NEW q \in Seq(Orders), NEW o \in Orders
    PROVE  Append(q, o) \in Seq(Orders)
OBVIOUS

\* The order that is executed, and its price.
Order == Head(todo)
Price == FillPrice(Order.symbol, Order.side, bars[Order.symbol].price)

LEMMA OrderIs ==
    ASSUME NEW o \in Orders
    PROVE  /\ o.symbol \in Symbols /\ o.side \in {"buy", "sell", "short", "cover"}
           /\ o.shares \in Nat \cup {Reinvest} /\ o.shares \in Int /\ o.ready \in Nat
BY DEF Orders, Reinvest

\* An order of a number of shares.
LEMMA QueuedIs ==
    ASSUME TypeInv, NEW s \in Symbols, NEW side \in {"buy", "sell", "short", "cover"},
           NEW n \in Nat, Queue(s, side, n)
    PROVE  pending' \in Seq(Orders)
<1>1. PICK o \in Orders : o = [ready |-> day, symbol |-> s, side |-> side, shares |-> n]
    BY DEF Orders, TypeInv
<1>2. pending' = Append(pending, o)
    BY <1>1 DEF Queue
<1> QED
    BY <1>1, <1>2 DEF TypeInv

\* An order that is to be filled is one of a tradeable bar.
LEMMA FilledOrder ==
    ASSUME TypeInv, NEW o \in Orders, Verdict(o) = "fill"
    PROVE  /\ bars[o.symbol] # NoBar /\ bars[o.symbol].state \notin {"none", "suspended"}
           /\ o.shares \in Nat /\ o.shares # Reinvest
           /\ o.side \in {"sell", "cover"} /\ positions[o.symbol].held
              /\ positions[o.symbol].lock # 0 => day > positions[o.symbol].lock
<1>1. bars[o.symbol].state \notin {"none", "suspended"} /\ o.shares # Reinvest
      /\ (o.side \in {"sell", "cover"} /\ positions[o.symbol].held
          /\ positions[o.symbol].lock # 0 => ~(day <= positions[o.symbol].lock))
    BY DEF Verdict
<1>2. positions[o.symbol].lock \in Nat /\ day \in Nat
    BY OrderIs DEF TypeInv, Holdings
<1>3. bars[o.symbol] # NoBar
    BY <1>1 DEF NoBar
<1> QED
    BY <1>1, <1>2, <1>3, OrderIs

LEMMA PriceIs ==
    ASSUME TypeInv, NEW s \in Symbols, NEW side, bars[s] # NoBar
    PROVE  /\ FillPrice(s, side, bars[s].price) \in Int
           /\ side \in Buying => FillPrice(s, side, bars[s].price) \in Nat \ {0}
<1>1. PICK price \in Nat \ {0}, slip \in Nat :
          price = bars[s].price /\ slip = CostModel[MarketOf(s)].slippage
    BY BarsHavePrices, ScheduleIs
<1>2. FillPrice(s, side, price) = IF side \in Buying THEN price + slip ELSE price - slip
    BY <1>1 DEF FillPrice
<1> QED
    BY <1>1, <1>2

\* What a step of executing orders does.
LEMMA BuyDoes ==
    ASSUME TypeInv, BuyOrCover
    PROVE  /\ NextOrder /\ Order \in Orders /\ Order.side \in Buying /\ Verdict(Order) = "fill"
           /\ Price \in Nat \ {0} /\ Order.symbol \in Symbols /\ Order.shares \in Nat
           /\ UNCHANGED <<day, phase, bars, pending, unmarked, nav, frame, rows>>
           /\ \/ UNCHANGED <<cash, positions, bought>> /\ todo' \in {todo, Tail(todo)}
              \/ \E n \in Nat \ {0} :
                    LET b == Bought(Ledger, Order.symbol, Order.side, n, Price, day) IN
                    /\ n <= Order.shares /\ Affordable(Ledger, Order.symbol, Order.side, n, Price, day)
                    /\ cash' = b.cash /\ positions' = b.positions
                    /\ todo' = Tail(todo)
                    /\ bought' = [bought EXCEPT ![Order.symbol] = day]
<1>1. PICK n : n = SharesToBuy(Ledger, Order.symbol, Order.side, Order.shares, Price, day)
    OBVIOUS
<1>2. /\ NextOrder /\ Verdict(Order) = "fill" /\ Order.side \in Buying
      /\ UNCHANGED <<day, phase, bars, pending, unmarked, nav, frame, rows>>
      /\ \/ n > 0 /\ FillBuy(Order, n, Price)
         \/ UNCHANGED <<cash, positions, bought>> /\ todo' = todo
         \/ UNCHANGED <<cash, positions, bought>> /\ todo' = Tail(todo)
    BY <1>1 DEF BuyOrCover, FillBuy, Order, Price, books, orders, plan
<1>3. Order \in Orders
    BY <1>2, NextInLine DEF NextOrder, TypeInv, Order
<1>4. Order.symbol \in Symbols /\ Order.shares \in Nat /\ bars[Order.symbol] # NoBar
    BY <1>2, <1>3, OrderIs, FilledOrder
<1>5. Price \in Nat \ {0}
    BY <1>2, <1>4, PriceIs DEF Price
<1>6. n \in Nat /\ n <= Order.shares
      /\ (n # 0 => Affordable(Ledger, Order.symbol, Order.side, n, Price, day))
    <2>1. Ledger.cash \in Balances /\ day \in Int
        BY DEF Ledger, TypeInv
    <2> QED
        BY <1>1, <1>4, <1>5, <2>1, BuysAreAffordable
<1>7. CASE n > 0 /\ FillBuy(Order, n, Price)
    <2>1. /\ cash' = Bought(Ledger, Order.symbol, Order.side, n, Price, day).cash
          /\ positions' = Bought(Ledger, Order.symbol, Order.side, n, Price, day).positions
          /\ todo' = Tail(todo) /\ bought' = [bought EXCEPT ![Order.symbol] = day]
        BY <1>7 DEF FillBuy
    <2>2. /\ n \in Nat \ {0} /\ n <= Order.shares
          /\ Affordable(Ledger, Order.symbol, Order.side, n, Price, day)
        BY <1>6, <1>7
    <2> QED
        BY <1>2, <1>3, <1>4, <1>5, <2>1, <2>2
<1> QED
    BY <1>2, <1>3, <1>4, <1>5, <1>7

LEMMA SaleDoes ==
    ASSUME TypeInv, SellOrShort
    PROVE  LET b == Sold(Ledger, Order.symbol, Order.side, Order.shares, Price) IN
           /\ NextOrder /\ Order \in Orders /\ Order.side \notin Buying /\ Verdict(Order) = "fill"
           /\ Price \in Int /\ Order.symbol \in Symbols /\ Order.shares \in Nat
           /\ UNCHANGED <<day, phase, bars, pending, unmarked, nav, frame, rows, bought>>
           /\ cash' = b.cash /\ positions' = b.positions /\ todo' = Tail(todo)
<1>1. /\ NextOrder /\ Verdict(Order) = "fill" /\ Order.side \notin Buying
      /\ UNCHANGED <<day, phase, bars, pending, unmarked, nav, frame, rows, bought>>
      /\ cash' = Sold(Ledger, Order.symbol, Order.side, Order.shares, Price).cash
      /\ positions' = Sold(Ledger, Order.symbol, Order.side, Order.shares, Price).positions
      /\ todo' = Tail(todo)
    BY DEF SellOrShort, Order, Price, plan
<1>2. Order \in Orders
    BY <1>1, NextInLine DEF NextOrder, TypeInv, Order
<1>3. Order.symbol \in Symbols /\ Order.shares \in Nat /\ bars[Order.symbol] # NoBar
    BY <1>1, <1>2, OrderIs, FilledOrder
<1>4. Price \in Int
    BY <1>3, PriceIs DEF Price
<1> QED
    BY <1>1, <1>2, <1>3, <1>4

LEMMA InitialTypes == Init => TypeInv
<1> SUFFICES ASSUME Init PROVE TypeInv
    OBVIOUS
<1>1. cash \in Balances /\ positions \in Holdings
    BY BacktestAssumption, MarketAssumption
       DEF Init, Balances, Holdings, NoPosition, Currencies
<1>2. bars \in [Symbols -> Bars] /\ bought \in [Symbols -> Nat]
    BY DEF Init, Bars
<1>3. frame \in [Symbols -> Weights \cup {Untargeted}]
    BY DEF Init, NoFrame
<1> QED
    BY <1>1, <1>2, <1>3 DEF Init, TypeInv, Early, Late

LEMMA TypesStay == TypeInv /\ [Next]_vars => TypeInv'
<1> SUFFICES ASSUME TypeInv, [Next]_vars PROVE TypeInv'
    OBVIOUS
<1>0. (phase \in {"closed", "actions", "orders", "marking", "targets", "others"})
    BY DEF TypeInv, Early, Late
<1>1. CASE OpenDay
    <2>1. day' \in Nat /\ bars' \in [Symbols -> Bars] /\ rows' \subseteq Symbols /\ phase' = "actions"
        BY <1>1, DaysAreNumbers DEF OpenDay
    <2>2. UNCHANGED <<cash, positions, pending, todo, unmarked, nav, frame, bought>>
        BY <1>1 DEF OpenDay, books, orders
    <2> QED
        BY <2>1, <2>2 DEF TypeInv, Early, Late
<1>2. CASE StartOrders
    BY <1>2 DEF StartOrders, TypeInv, books, plan, Early, Late
<1>3. ASSUME NEW s \in Symbols, NEW amount \in Dividends, CashDividend(s, amount)
      PROVE  TypeInv'
    <2>1. PICK paid \in Int : paid = amount * positions[s].shares
        BY BacktestAssumption DEF TypeInv, Holdings
    <2>2. /\ cash' = Changed(cash, CurrencyOf(s), paid) /\ positions' = positions
          /\ rows' = rows \ {s} /\ phase = "actions"
          /\ UNCHANGED <<day, phase, bars, todo, unmarked, nav, frame, bought>>
        BY <1>3, <2>1 DEF CashDividend, Acts, Changed
    <2>3. cash' \in Balances
        BY <2>1, <2>2, CurrenciesAre, CashChanges DEF TypeInv
    <2>4. pending' \in Seq(Orders)
        <3>1. PICK o \in Orders : o = [ready |-> day, symbol |-> s, side |-> "buy", shares |-> Reinvest]
            BY DEF Orders, TypeInv
        <3>2. pending' \in {pending, Append(pending, o)}
            BY <1>3, <3>1 DEF CashDividend
        <3>3. pending \in Seq(Orders)
            BY DEF TypeInv
        <3>4. Append(pending, o) \in Seq(Orders)
            BY ONLY <3>1, <3>3, LastInLine
        <3> QED
            BY ONLY <3>2, <3>3, <3>4
    <2>5. rows' \subseteq Symbols /\ (phase' = "targets" => \A t \in rows' : frame'[t] \in Weights)
        BY <2>2 DEF TypeInv
    <2>6. /\ day' \in Nat /\ phase' \in Early \cup Late /\ bars' \in [Symbols -> Bars]
          /\ positions' \in Holdings /\ todo' \in Seq(Orders) /\ nav' \in [gross : Int, net : Int]
          /\ unmarked' \subseteq Symbols /\ frame' \in [Symbols -> Weights \cup {Untargeted}]
          /\ bought' \in [Symbols -> Nat]
        BY <2>2 DEF TypeInv
    <2> QED
        BY ONLY <2>3, <2>4, <2>5, <2>6 DEF TypeInv
<1>4. ASSUME NEW s \in Symbols, NEW ratio \in Ratios, ShareRatio(s, ratio)
      PROVE  TypeInv'
    <2>1. positions' \in Holdings
        <3>1. positions[s] \in [held : BOOLEAN, shares : Int, lock : Nat]
            BY DEF TypeInv, Holdings
        <3>2. PICK n \in Int : n = Truncated(positions[s].shares, ratio)
            BY <3>1, TruncatedIs
        <3>3. positions' = [positions EXCEPT ![s].shares = n]
            BY <1>4, <3>2 DEF ShareRatio
        <3> QED
            BY <3>1, <3>3 DEF TypeInv, Holdings
    <2>2. /\ rows' = rows \ {s} /\ phase = "actions"
          /\ UNCHANGED <<cash, pending, day, phase, bars, todo, unmarked, nav, frame, bought>>
        BY <1>4 DEF ShareRatio, Acts
    <2> QED
        BY <2>1, <2>2 DEF TypeInv
<1>5. CASE Rejected
    <2>1. todo # <<>> /\ todo' = Tail(todo) /\ pending' \in {pending, Append(pending, Head(todo))}
        BY <1>5 DEF Rejected, NextOrder
    <2>2. todo' \in Seq(Orders) /\ pending' \in Seq(Orders)
        BY <2>1, NextInLine, LastInLine DEF TypeInv
    <2>3. UNCHANGED <<day, phase, bars, cash, positions, unmarked, nav, frame, rows, bought>>
        BY <1>5 DEF Rejected, books, plan
    <2> QED
        BY <2>2, <2>3 DEF TypeInv
<1>6. CASE BuyOrCover
    <2>1. /\ NextOrder /\ Order.symbol \in Symbols /\ Price \in Int /\ todo' \in {todo, Tail(todo)}
          /\ UNCHANGED <<day, phase, bars, pending, unmarked, nav, frame, rows>>
        BY <1>6, BuyDoes
    <2>2. todo' \in Seq(Orders)
        BY <2>1, NextInLine DEF NextOrder, TypeInv
    <2>3. cash' \in Balances /\ positions' \in Holdings /\ bought' \in [Symbols -> Nat]
        <3>1. CASE UNCHANGED <<cash, positions, bought>>
            BY <3>1 DEF TypeInv
        <3>2. CASE ~UNCHANGED <<cash, positions, bought>>
            <4>1. PICK n \in Int :
                     /\ cash' = Bought(Ledger, Order.symbol, Order.side, n, Price, day).cash
                     /\ positions' = Bought(Ledger, Order.symbol, Order.side, n, Price, day).positions
                     /\ bought' = [bought EXCEPT ![Order.symbol] = day]
                BY <1>6, <3>2, BuyDoes
            <4>2. cash' \in Balances /\ positions' \in Holdings
                BY <2>1, <4>1, BoughtIs
            <4> QED
                BY <4>1, <4>2 DEF TypeInv
        <3> QED
            BY <3>1, <3>2
    <2> QED
        BY <2>1, <2>2, <2>3 DEF TypeInv
<1>7. CASE SellOrShort
    <2>1. /\ NextOrder /\ Order.symbol \in Symbols /\ Price \in Int /\ Order.shares \in Int
          /\ todo' = Tail(todo)
          /\ UNCHANGED <<day, phase, bars, pending, unmarked, nav, frame, rows, bought>>
          /\ cash' = Sold(Ledger, Order.symbol, Order.side, Order.shares, Price).cash
          /\ positions' = Sold(Ledger, Order.symbol, Order.side, Order.shares, Price).positions
        BY <1>7, SaleDoes
    <2>2. todo' \in Seq(Orders)
        BY <2>1, NextInLine DEF NextOrder, TypeInv
    <2>3. cash' \in Balances /\ positions' \in Holdings
        BY <2>1, SoldIs
    <2> QED
        BY <2>1, <2>2, <2>3 DEF TypeInv
<1>8. CASE StartMarking
    <2>1. nav' \in [gross : Int, net : Int]
        <3>1. CashInBase(cash, day) \in Int
            BY CashIsANumber DEF TypeInv
        <3> QED
            BY <1>8, <3>1 DEF StartMarking
    <2> QED
        BY <1>8, <2>1 DEF StartMarking, TypeInv, books, orders, plan, Early, Late
<1>9. CASE NoRateAtAll
    BY <1>9 DEF NoRateAtAll, TypeInv, books, orders, plan
<1>10. ASSUME NEW s \in Symbols, Mark(s) PROVE TypeInv'
    <2>1. PICK value \in Int : value = positions[s].shares * bars[s].close * FxToBase(CurrencyOf(s), day)
        <3>1. PICK rate \in Int : rate = FxToBase(CurrencyOf(s), day)
            BY RatesArePositive DEF TypeInv
        <3>2. PICK price \in Int : price = bars[s].close
            BY BarsHavePrices DEF NoBar
        <3>3. PICK n \in Int : n = positions[s].shares
            BY DEF TypeInv, Holdings
        <3>4. n * price * rate \in Int
            OBVIOUS
        <3> QED
            BY <3>1, <3>2, <3>3, <3>4
    <2>2. nav' = [gross |-> nav.gross + AbsOf(value), net |-> nav.net + value]
        BY <1>10, <2>1 DEF Mark
    <2>3. nav' \in [gross : Int, net : Int]
        <3>1. PICK size \in Nat : size = AbsOf(value)
            BY AbsIsNatural
        <3>2. nav.gross \in Int /\ nav.net \in Int
            BY DEF TypeInv
        <3> QED
            BY <2>2, <3>1, <3>2
    <2> QED
        BY <1>10, <2>3 DEF Mark, TypeInv, books, orders, plan
<1>11. ASSUME NEW s \in Symbols, TargetRow(s) PROVE TypeInv'
    <2>1. phase = "targets" /\ s \in rows /\ frame[s] \in Weights
        BY <1>11 DEF TargetRow, TypeInv
    <2>2. pending' \in Seq(Orders)
        <3>1. CASE bars[s] = NoBar \/ Target(s) = Current(s)
            BY <1>11, <3>1 DEF TargetRow, TypeInv
        <3>2. CASE ~(bars[s] = NoBar \/ Target(s) = Current(s))
            <4>1. Target(s) \in Int /\ Current(s) \in Int
                BY <2>1, <3>2, TargetIs DEF Current, TypeInv, Holdings
            <4>2. PICK n \in Nat : n = AbsOf(Target(s) - Current(s))
                BY <4>1, AbsIsNatural
            <4>3. PICK side \in {"buy", "sell", "short", "cover"} : side = SideOf(Current(s), Target(s))
                BY DEF SideOf
            <4>4. Queue(s, side, n)
                BY <1>11, <3>2, <4>2, <4>3 DEF TargetRow
            <4> QED
                BY <4>4, QueuedIs
        <3> QED
            BY <3>1, <3>2
    <2> QED
        BY <1>11, <2>2 DEF TargetRow, TypeInv, books
<1>12. ASSUME NEW s \in Symbols, Liquidate(s) PROVE TypeInv'
    <2>1. PICK n \in Nat : n = AbsOf(Current(s))
        BY AbsIsNatural DEF Current, TypeInv, Holdings
    <2>2. PICK side \in {"buy", "sell", "short", "cover"} : side = IF Current(s) > 0 THEN "sell" ELSE "cover"
        OBVIOUS
    <2>3. Queue(s, side, n)
        BY <1>12, <2>1, <2>2 DEF Liquidate
    <2>4. pending' \in Seq(Orders)
        BY <2>3, QueuedIs
    <2> QED
        BY <1>12, <2>4 DEF Liquidate, TypeInv, books
<1>13. CASE Rebalance
    <2>1. frame' \in [Symbols -> Weights \cup {Untargeted}]
        BY <1>13 DEF Rebalance, Frames
    <2>2. rows' = {s \in Symbols : frame'[s] # Untargeted}
        BY <1>13 DEF Rebalance
    <2>3. rows' \subseteq Symbols /\ \A s \in rows' : frame'[s] \in Weights
        BY <2>1, <2>2
    <2>4. phase' = "targets"
          /\ UNCHANGED <<day, bars, cash, positions, pending, todo, unmarked, nav, bought>>
        BY <1>13 DEF Rebalance, books, orders
    <2> QED
        BY <2>1, <2>3, <2>4 DEF TypeInv, Early, Late
<1>14. CASE CloseOthers
    BY <1>14 DEF CloseOthers, TypeInv, books, orders, Early, Late
<1>15. CASE CloseDay
    <2>1. positions' \in Holdings
        <3>1. \A s \in Symbols : [positions[s] EXCEPT !.lock = 0] \in [held : BOOLEAN, shares : Int, lock : Nat]
            BY DEF TypeInv, Holdings
        <3> QED
            BY <1>15, <3>1 DEF CloseDay, TypeInv, Holdings
    <2>2. bars' \in [Symbols -> Bars] /\ frame' \in [Symbols -> Weights \cup {Untargeted}]
          /\ nav' \in [gross : Int, net : Int] /\ phase' = "closed"
        BY <1>15 DEF CloseDay, Bars, NoFrame
    <2>3. UNCHANGED <<day, cash, pending, todo, unmarked, rows, bought>>
        BY <1>15 DEF CloseDay, orders
    <2> QED
        BY <2>1, <2>2, <2>3 DEF TypeInv, Early, Late
<1>16. CASE UNCHANGED vars
    BY <1>16 DEF vars, books, orders, plan, TypeInv
<1> QED
    BY <1>1, <1>2, <1>3, <1>4, <1>5, <1>6, <1>7, <1>8, <1>9, <1>10, <1>11, <1>12, <1>13,
       <1>14, <1>15, <1>16 DEF Next, Execute

-----------------------------------------------------------------------------
\* Value.

\* What n shares cost, and what is then in the books.
LEMMA BoughtIsPaid ==
    ASSUME TypeInv, NEW s \in Symbols, NEW side, NEW n \in Int, NEW price \in Int
    PROVE  LET b == Bought(Ledger, s, side, n, price, day) IN
           /\ CashInBase(b.cash, day) = CashInBase(cash, day) - Outlay(s, side, n, price, day)
           /\ b.positions[s].shares = positions[s].shares + n
           /\ b.positions[s].lock = LockedUntil(s, day)
           /\ \A t \in Symbols \ {s} : b.positions[t] = positions[t]
<1>1. PICK amount \in Int : amount = n * price + CostOf(s, side, n * price)
    <2>1. n * price \in Int
        OBVIOUS
    <2>2. CostOf(s, side, n * price) \in Int
        BY <2>1, CostsGrow
    <2> QED
        BY <2>1, <2>2
<1>2. Bought(Ledger, s, side, n, price, day).cash = Debit(cash, CurrencyOf(s), amount, day)
    BY <1>1 DEF Bought, Ledger
<1>3. CashInBase(Debit(cash, CurrencyOf(s), amount, day), day)
         = CashInBase(cash, day) - amount * FxToBase(CurrencyOf(s), day)
    BY CurrenciesAre, DebitTakes DEF TypeInv
<1>4. Outlay(s, side, n, price, day) = amount * FxToBase(CurrencyOf(s), day)
    BY <1>1 DEF Outlay
<1>5. Bought(Ledger, s, side, n, price, day).positions
         = [positions EXCEPT ![s] = [held |-> TRUE, shares |-> positions[s].shares + n,
                                     lock |-> LockedUntil(s, day)]]
    BY DEF Bought, Ledger
<1>6. DOMAIN positions = Symbols
    BY DEF TypeInv, Holdings
<1> QED
    BY <1>2, <1>3, <1>4, <1>5, <1>6

\* What an order of a price and a cost does to a balance and a number of shares.
Worth(c, k, s, price) == CashInBase(c, day) + k * price * FxToBase(CurrencyOf(s), day)

LEMMA BuysAreFair ==
    ASSUME TypeInv, BuyOrCover, cash' # cash
    PROVE  LET s == Order.symbol
               n == AbsOf(positions'[s].shares - positions[s].shares)
           IN /\ Worth(cash', positions'[s].shares, s, Price)
                    = Worth(cash, positions[s].shares, s, Price)
                      - CostOf(s, Order.side, n * Price) * FxToBase(CurrencyOf(s), day)
              /\ n <= Order.shares /\ CashInBase(cash', day) >= 0
<1>1. PICK s \in Symbols : s = Order.symbol
    BY BuyDoes
<1>2. PICK p \in Int : p = Price
    BY BuyDoes
<1>3. PICK n \in Nat :
          /\ n <= Order.shares /\ Affordable(Ledger, s, Order.side, n, p, day)
          /\ cash' = Bought(Ledger, s, Order.side, n, p, day).cash
          /\ positions' = Bought(Ledger, s, Order.side, n, p, day).positions
    BY <1>1, <1>2, BuyDoes
<1>4. PICK k \in Int : k = positions[s].shares
    BY DEF TypeInv, Holdings
<1>5. PICK r \in Int : r = FxToBase(CurrencyOf(s), day)
    BY RatesArePositive DEF TypeInv
<1>6. PICK c \in Int : c = CostOf(s, Order.side, n * p)
    BY n * p \in Int, CostsGrow
<1>7. PICK before \in Int : before = CashInBase(cash, day)
    BY CashIsANumber DEF TypeInv
<1>8. Outlay(s, Order.side, n, p, day) = (n * p + c) * r
    BY <1>5, <1>6 DEF Outlay
<1>9. CashInBase(cash', day) = before - (n * p + c) * r /\ positions'[s].shares = k + n
    BY <1>3, <1>4, <1>7, <1>8, BoughtIsPaid
<1>10. (n * p + c) * r <= before
    BY <1>3, <1>7, <1>8 DEF Affordable, Ledger
<1>11. AbsOf(positions'[s].shares - positions[s].shares) = n
    BY <1>4, <1>9 DEF AbsOf
<1>12. Worth(cash', positions'[s].shares, s, p) = Worth(cash, positions[s].shares, s, p) - c * r
    <2>1. before - (n * p + c) * r + (k + n) * p * r = (before + k * p * r) - c * r
        OBVIOUS
    <2> QED
        BY <1>4, <1>5, <1>7, <1>9, <2>1 DEF Worth
<1>13. CashInBase(cash', day) >= 0
    <2>1. PICK paid \in Int : paid = (n * p + c) * r
        OBVIOUS
    <2> QED
        BY <1>9, <1>10, <2>1
<1> QED
    BY <1>1, <1>2, <1>3, <1>5, <1>6, <1>11, <1>12, <1>13

LEMMA SalesAreFair ==
    ASSUME TypeInv, SellOrShort
    PROVE  LET s == Order.symbol
               n == AbsOf(positions'[s].shares - positions[s].shares)
           IN /\ Worth(cash', positions'[s].shares, s, Price)
                    = Worth(cash, positions[s].shares, s, Price)
                      - CostOf(s, Order.side, n * Price) * FxToBase(CurrencyOf(s), day)
              /\ n <= Order.shares
<1>1. PICK s \in Symbols : s = Order.symbol
    BY SaleDoes
<1>2. PICK p \in Int : p = Price
    BY SaleDoes
<1>3. PICK n \in Nat : n = Order.shares
    BY SaleDoes
<1>4. PICK k \in Int : k = positions[s].shares
    BY DEF TypeInv, Holdings
<1>5. PICK r \in Int : r = FxToBase(CurrencyOf(s), day)
    BY RatesArePositive DEF TypeInv
<1>6. PICK c \in Int : c = CostOf(s, Order.side, n * p)
    BY n * p \in Int, CostsGrow
<1>7. PICK before \in Int : before = CashInBase(cash, day)
    BY CashIsANumber DEF TypeInv
<1>8. PICK gain \in Int : gain = n * p - c
    OBVIOUS
<1>9. cash' = Changed(cash, CurrencyOf(s), gain) /\ positions'[s].shares = k - n
    <2>1. /\ cash' = Sold(Ledger, s, Order.side, n, p).cash
          /\ positions' = Sold(Ledger, s, Order.side, n, p).positions
        BY <1>1, <1>2, <1>3, SaleDoes
    <2>2. /\ Sold(Ledger, s, Order.side, n, p).cash
                = Changed(cash, CurrencyOf(s), Gain(s, Order.side, n, p))
          /\ Sold(Ledger, s, Order.side, n, p).positions[s].shares = positions[s].shares - n
        BY SoldIs
    <2> QED
        BY <1>4, <1>6, <1>8, <2>1, <2>2 DEF Gain
<1>10. CashInBase(cash', day) = before + gain * r
    BY <1>5, <1>7, <1>9, CurrenciesAre, CashChanges DEF TypeInv
<1>11. AbsOf(positions'[s].shares - positions[s].shares) = n
    BY <1>4, <1>9 DEF AbsOf
<1>12. Worth(cash', positions'[s].shares, s, p) = Worth(cash, positions[s].shares, s, p) - c * r
    <2>1. before + (n * p - c) * r + (k - n) * p * r = (before + k * p * r) - c * r
        OBVIOUS
    <2> QED
        BY <1>4, <1>5, <1>7, <1>8, <1>9, <1>10, <2>1 DEF Worth
<1> QED
    BY <1>1, <1>2, <1>3, <1>5, <1>6, <1>11, <1>12

\* Only the execution of an order changes the cash once the actions are done.
LEMMA OnlyOrdersFill ==
    ASSUME TypeInv, [Next]_vars, Fills
    PROVE  BuyOrCover \/ SellOrShort
<1>1. phase = "orders" /\ cash' # cash
    BY DEF Fills
<1>2. ASSUME NEW s \in Symbols PROVE
          /\ \A amount \in Dividends : ~CashDividend(s, amount)
          /\ \A ratio \in Ratios : ~ShareRatio(s, ratio)
          /\ ~Mark(s) /\ ~TargetRow(s) /\ ~Liquidate(s)
    BY <1>1 DEF CashDividend, ShareRatio, Acts, Mark, TargetRow, Liquidate
<1>3. ~OpenDay /\ ~StartOrders /\ ~Rejected /\ ~StartMarking /\ ~NoRateAtAll
    BY <1>1 DEF OpenDay, StartOrders, Rejected, StartMarking, NoRateAtAll, books
<1>4. ~Rebalance /\ ~CloseOthers /\ ~CloseDay /\ vars' # vars
    BY <1>1 DEF Rebalance, CloseOthers, CloseDay, vars, books
<1> QED
    BY <1>2, <1>3, <1>4 DEF Next, Execute

\* A fill changes what the account is worth by its costs and nothing else, over both
\* currencies and in both directions, never fills more than was ordered, and a buy
\* leaves no debt: for every market, rate, cost schedule and strategy.
THEOREM FillsConserveValue == Spec => FillsAreFair
<1>1. TypeInv /\ [Next]_vars => [LET o == Head(todo)
           s == o.symbol
           p == FillPrice(s, o.side, bars[s].price)
           n == AbsOf(positions'[s].shares - positions[s].shares)
           worth(c, k) ==
               CashInBase(c, day) + k * p * FxToBase(CurrencyOf(s), day)
       IN  Fills =>
           /\ worth(cash', positions'[s].shares)
                 = worth(cash, positions[s].shares)
                   - CostOf(s, o.side, n * p) * FxToBase(CurrencyOf(s), day)
           /\ n <= o.shares
           /\ o.side \in Buying => CashInBase(cash', day) >= 0]_vars
    <2> SUFFICES ASSUME TypeInv, [Next]_vars, Fills
                 PROVE  LET s == Order.symbol
                            n == AbsOf(positions'[s].shares - positions[s].shares)
                        IN /\ Worth(cash', positions'[s].shares, s, Price)
                                 = Worth(cash, positions[s].shares, s, Price)
                                   - CostOf(s, Order.side, n * Price) * FxToBase(CurrencyOf(s), day)
                           /\ n <= Order.shares
                           /\ Order.side \in Buying => CashInBase(cash', day) >= 0
        BY DEF Worth, Order, Price
    <2>1. CASE BuyOrCover
        BY <2>1, BuysAreFair DEF Fills
    <2>2. CASE SellOrShort
        BY <2>2, SalesAreFair, SaleDoes
    <2> QED
        BY <2>1, <2>2, OnlyOrdersFill
<1> QED
    BY <1>1, InitialTypes, TypesStay, PTL DEF Spec, FillsAreFair

-----------------------------------------------------------------------------
\* Settlement.  A lock is the one of the last buy, or it has run out; a bar is of a
\* trading day of its symbol, so the day of a sale is one more trading day than
\* the lock has counted.

RunOut(s, d) ==
    /\ positions[s].lock = 0 /\ LockedUntil(s, d) <= day
    /\ phase # "closed" => LockedUntil(s, d) < day

LockInv ==
    \A s \in Symbols :
        /\ bars[s] # NoBar => day \in DaysOf(s)
        /\ positions[s].shares > 0 => positions[s].held
        /\ positions[s].shares > 0 /\ bought[s] # 0
              => \/ positions[s].lock = LockedUntil(s, bought[s])
                 \/ RunOut(s, bought[s])

\* A day after a lock has run out comes after as many trading days as it counted.
LEMMA LocksCountDays ==
    ASSUME NEW s \in Symbols, NEW d \in Nat, NEW e \in DaysOf(s), LockDays[MarketOf(s)] > 0,
           e > LockedUntil(s, d)
    PROVE  Cardinality({x \in DaysOf(s) : d < x /\ x <= e}) > LockDays[MarketOf(s)]
<1>1. DaysOf(s) \subseteq 1..LastDay /\ LastDay \in Nat
    BY MarketAssumption DEF DaysOf, Days
<1>2. PICK n \in Nat : n = LockDays[MarketOf(s)] /\ n > 0
    BY MarketAssumption DEF MarketOf, Markets
<1> DEFINE future == {x \in DaysOf(s) : x > d}
           nth    == {x \in future : Cardinality({y \in future : y <= x}) = n}
           days   == {x \in DaysOf(s) : d < x /\ x <= e}
<1>3. LockedUntil(s, d) = IF nth # {} THEN Max(nth) ELSE Max(future \cup {d})
    BY <1>2 DEF LockedUntil, NthDayAfter
<1>4. IsFiniteSet(days)
    <2>1. days \in SUBSET Nat /\ \A x \in days : x <= LastDay
        BY <1>1
    <2> HIDE DEF days
    <2> QED
        BY <1>1, <2>1, FS_BoundedSetOfNaturals
<1>5. CASE nth # {}
    <2>1. nth \in SUBSET Int /\ \A x \in nth : x <= LastDay
        BY <1>1
    <2>2. Max(nth) \in nth
        <3>1. LastDay \in Int
            BY <1>1
        <3> HIDE DEF nth
        <3> QED
            BY ONLY <1>5, <2>1, <3>1, MaxIsOneOfThem
    <2>3. PICK m \in future : m = Max(nth) /\ Cardinality({y \in future : y <= m}) = n
        BY <2>2
    <2>4. m < e /\ m \in Int /\ e \in Int /\ d < e
        BY <1>1, <1>3, <1>5, <2>3
    <2>5. PICK waited : waited = {y \in future : y <= m}
        OBVIOUS
    <2>6. e \notin waited /\ waited \cup {e} \subseteq days
        BY <1>1, <2>4, <2>5
    <2>7. waited \subseteq days /\ IsFiniteSet(waited)
        <3>1. waited \in SUBSET days
            BY <2>6
        <3> HIDE DEF days
        <3> QED
            BY <1>4, <3>1, FS_Subset
    <2>8. Cardinality(waited \cup {e}) = n + 1
        <3>1. Cardinality(waited) = n
            BY <2>3, <2>5
        <3> QED
            BY <2>6, <2>7, <3>1, FS_AddElement
    <2>9. Cardinality(waited \cup {e}) <= Cardinality(days) /\ Cardinality(days) \in Nat
        <3>1. waited \cup {e} \in SUBSET days
            BY <2>6
        <3> HIDE DEF days
        <3> QED
            BY <1>4, <3>1, FS_Subset, FS_CardinalityType
    <2> HIDE DEF days
    <2>10. Cardinality(days) > n
        BY <2>8, <2>9
    <2> QED
        BY <1>2, <2>10 DEF days
<1>6. CASE nth = {}
    <2> DEFINE all == future \cup {d}
    <2>1. all \in SUBSET Int /\ all # {} /\ \A x \in all : x <= LastDay + d
        BY <1>1
    <2>2. LastDay + d \in Int
        BY <1>1
    <2>3. Max(all) \in all /\ \A x \in all : x <= Max(all)
        <3> HIDE DEF all
        <3> QED
            BY <2>1, <2>2, MaxIsOneOfThem
    <2>4. e > Max(all)
        BY <1>3, <1>6
    <2>5. d <= Max(all) /\ Max(all) \in Int /\ e \in Int
        BY <1>1, <2>1, <2>3
    <2>6. e \in all
        BY <2>4, <2>5
    <2>7. e <= Max(all)
        BY <2>3, <2>6
    <2> HIDE DEF all
    <2> QED
        BY <2>4, <2>5, <2>7
<1> QED
    BY <1>5, <1>6

LEMMA InitialLocks == Init => LockInv
<1> SUFFICES ASSUME Init PROVE LockInv
    OBVIOUS
<1>1. \A s \in Symbols : bars[s] = NoBar /\ positions[s].shares = 0
    BY DEF Init, NoPosition
<1> QED
    BY <1>1 DEF LockInv

\* What an action that leaves positions, purchases, bars and the day alone keeps.
LEMMA OnlyQueues ==
    ASSUME LockInv, UNCHANGED <<positions, bought, bars, day>>,
           phase' = phase \/ (phase # "closed" /\ phase' # "closed")
    PROVE  LockInv'
<1>1. ASSUME NEW s \in Symbols
      PROVE  /\ bars'[s] # NoBar => day' \in DaysOf(s)
             /\ positions'[s].shares > 0 => positions'[s].held
             /\ positions'[s].shares > 0 /\ bought'[s] # 0
                   => \/ positions'[s].lock = LockedUntil(s, bought'[s])
                      \/ RunOut(s, bought[s])'
    BY DEF LockInv, RunOut
<1> QED
    BY <1>1 DEF LockInv

LEMMA LocksStay ==
    ASSUME TypeInv, LockInv, [Next]_vars
    PROVE  LockInv'
<1> DEFINE Kept(s) == /\ bars'[s] # NoBar => day' \in DaysOf(s)
                      /\ positions'[s].shares > 0 => positions'[s].held
                      /\ positions'[s].shares > 0 /\ bought'[s] # 0
                            => \/ positions'[s].lock = LockedUntil(s, bought'[s])
                               \/ RunOut(s, bought[s])'
<1>a. ASSUME \A s \in Symbols : Kept(s)
      PROVE  LockInv'
    BY <1>a DEF LockInv
<1>1. CASE OpenDay
    <2>1. /\ phase = "closed" /\ phase' = "actions" /\ day' > day /\ day' \in Nat
          /\ UNCHANGED <<positions, pending, todo, bought>>
          /\ \A s \in Symbols : day' \notin DaysOf(s) => bars'[s] = NoBar
        BY <1>1, DaysAreNumbers DEF OpenDay, books, orders, TypeInv
    <2>2. ASSUME NEW s \in Symbols PROVE Kept(s)
        <3>1. bought[s] # 0 /\ RunOut(s, bought[s]) => RunOut(s, bought[s])'
            <4>1. bought[s] \in Nat
                BY DEF TypeInv
            <4>2. LockedUntil(s, bought[s]) \in Nat /\ day \in Nat
                BY <4>1, Lockable DEF TypeInv
            <4> QED
                BY <2>1, <4>2 DEF RunOut
        <3> QED
            BY <2>1, <3>1 DEF LockInv
    <2> QED
        BY <1>a, <2>1, <2>2
<1>2. CASE StartOrders
    BY <1>2, OnlyQueues DEF StartOrders, books
<1>3. ASSUME NEW s \in Symbols, NEW amount \in Dividends, CashDividend(s, amount)
      PROVE  LockInv'
    BY <1>3, OnlyQueues DEF CashDividend, Acts
<1>4. ASSUME NEW s \in Symbols, NEW ratio \in Ratios, ShareRatio(s, ratio)
      PROVE  LockInv'
    <2>1. UNCHANGED <<bought, bars, day, phase, todo, pending>>
          /\ positions' = [positions EXCEPT ![s].shares = Truncated(@, ratio)]
        BY <1>4 DEF ShareRatio, Acts
    <2>2. positions[s].shares \in Int
        BY DEF TypeInv, Holdings
    <2>3. ASSUME NEW t \in Symbols
          PROVE  /\ positions'[t].held = positions[t].held /\ positions'[t].lock = positions[t].lock
                 /\ positions'[t].shares > 0 => positions[t].shares > 0
        <3>1. positions \in Holdings /\ positions[s] \in [held : BOOLEAN, shares : Int, lock : Nat]
            BY DEF TypeInv, Holdings
        <3>2. CASE t = s
            <4>1. PICK n \in Int : n = Truncated(positions[s].shares, ratio)
                                   /\ (positions[s].shares <= 0 => n <= 0)
                BY <2>2, TruncatedIs
            <4>2. positions'[s] = [positions[s] EXCEPT !.shares = n]
                BY <2>1, <3>1, <4>1 DEF Holdings
            <4> QED
                BY <2>2, <3>1, <3>2, <4>1, <4>2
        <3>3. CASE t # s
            BY <2>1, <3>1, <3>3 DEF Holdings
        <3> QED
            BY <3>2, <3>3
    <2>4. ASSUME NEW t \in Symbols PROVE Kept(t)
        BY <2>1, <2>3 DEF LockInv, RunOut
    <2> QED
        BY <1>a, <2>1, <2>4
<1>5. CASE Rejected
    BY <1>5, OnlyQueues DEF Rejected, books
<1>6. CASE BuyOrCover
    <2>1. /\ todo # <<>> /\ phase = "orders" /\ todo' \in {todo, Tail(todo)} /\ Order.symbol \in Symbols
          /\ UNCHANGED <<day, phase, bars, pending>>
        BY <1>6, BuyDoes DEF NextOrder
    <2>3. CASE UNCHANGED <<cash, positions, bought>>
        BY <2>1, <2>3, OnlyQueues
    <2>4. CASE ~UNCHANGED <<cash, positions, bought>>
        <3>1. PICK n \in Int :
                 /\ positions' = Bought(Ledger, Order.symbol, Order.side, n, Price, day).positions
                 /\ bought' = [bought EXCEPT ![Order.symbol] = day]
            BY <1>6, <2>4, BuyDoes
        <3>2. PICK s \in Symbols : s = Order.symbol
            BY <2>1
        <3>3. /\ positions'[s].lock = LockedUntil(s, day) /\ positions'[s].held
              /\ \A t \in Symbols \ {s} : positions'[t] = positions[t]
            <4>1. Price \in Int
                BY <1>6, BuyDoes
            <4>2. positions'[s].held
                BY <3>1, <3>2 DEF Bought, Ledger, TypeInv, Holdings
            <4> QED
                BY <3>1, <3>2, <4>1, <4>2, BoughtIsPaid
        <3>4. bought'[s] = day /\ \A t \in Symbols \ {s} : bought'[t] = bought[t]
            BY <3>1, <3>2 DEF TypeInv
        <3>5. Kept(s)
            BY <2>1, <3>3, <3>4 DEF LockInv
        <3>6. ASSUME NEW t \in Symbols \ {s} PROVE Kept(t)
            BY <2>1, <3>3, <3>4 DEF LockInv, RunOut
        <3> QED
            BY <1>a, <2>1, <3>5, <3>6
    <2> QED
        BY <2>3, <2>4
<1>7. CASE SellOrShort
    <2>1. PICK s \in Symbols, n \in Nat, price \in Int :
             /\ s = Order.symbol /\ n = Order.shares /\ price = Price
        BY <1>7, SaleDoes
    <2>2. /\ positions' = Sold(Ledger, s, Order.side, n, price).positions
          /\ todo # <<>> /\ todo' = Tail(todo)
          /\ UNCHANGED <<day, phase, bars, pending, bought>>
        BY <1>7, <2>1, SaleDoes DEF NextOrder
    <2>3. /\ positions'[s].shares = positions[s].shares - n
          /\ positions[s].shares - n > 0 /\ positions[s].held
                => positions'[s].lock = positions[s].lock
          /\ \A t \in Symbols \ {s} : positions'[t] = positions[t]
        BY <2>2, SoldIs
    <2>4. positions'[s].shares > 0 => positions'[s].held
        BY <2>2, <2>3 DEF Sold, Ledger, NoPosition, TypeInv, Holdings
    <2>5. Kept(s)
        <3>1. positions[s].shares \in Int
            BY DEF TypeInv, Holdings
        <3>2. positions'[s].shares > 0 => positions[s].shares > 0 /\ positions[s].held
                                          /\ positions'[s].lock = positions[s].lock
            BY <2>3, <3>1 DEF LockInv
        <3> QED
            BY <2>2, <2>4, <3>2 DEF LockInv, RunOut
    <2>6. ASSUME NEW t \in Symbols \ {s} PROVE Kept(t)
        BY <2>2, <2>3 DEF LockInv, RunOut
    <2> QED
        BY <1>a, <2>2, <2>5, <2>6
<1>8. CASE StartMarking
    BY <1>8, OnlyQueues DEF StartMarking, OrdersDone, books, orders
<1>9. CASE NoRateAtAll
    BY <1>9, OnlyQueues DEF NoRateAtAll, books, orders
<1>10. ASSUME NEW s \in Symbols, Mark(s) PROVE LockInv'
    BY <1>10, OnlyQueues DEF Mark, books, orders
<1>11. ASSUME NEW s \in Symbols, TargetRow(s) PROVE LockInv'
    BY <1>11, OnlyQueues DEF TargetRow, books
<1>12. ASSUME NEW s \in Symbols, Liquidate(s) PROVE LockInv'
    BY <1>12, OnlyQueues DEF Liquidate, books
<1>13. CASE Rebalance \/ CloseOthers
    BY <1>13, OnlyQueues DEF Rebalance, CloseOthers, books, orders
<1>14. CASE CloseDay
    <2>1. /\ phase' = "closed" /\ UNCHANGED <<day, pending, todo, bought>>
          /\ \A s \in Symbols : bars'[s] = NoBar
          /\ \A s \in Symbols : positions'[s] = IF positions[s].lock <= day
                                                THEN [positions[s] EXCEPT !.lock = 0] ELSE positions[s]
        BY <1>14 DEF CloseDay, orders
    <2>2. ASSUME NEW s \in Symbols PROVE Kept(s)
        <3>1. positions[s] \in [held : BOOLEAN, shares : Int, lock : Nat] /\ day \in Nat
            BY DEF TypeInv, Holdings
        <3>2. /\ positions'[s].held = positions[s].held /\ positions'[s].shares = positions[s].shares
              /\ positions'[s].lock = IF positions[s].lock <= day THEN 0 ELSE positions[s].lock
            BY <2>1, <3>1
        <3> QED
            BY <2>1, <3>1, <3>2 DEF LockInv, RunOut
    <2> QED
        BY <1>a, <2>1, <2>2
<1>15. CASE UNCHANGED vars
    BY <1>15, OnlyQueues DEF vars, books, orders
<1> QED
    BY <1>1, <1>2, <1>3, <1>4, <1>5, <1>6, <1>7, <1>8, <1>9, <1>10, <1>11, <1>12, <1>13,
       <1>14, <1>15 DEF Next, Execute

\* Only a sale takes shares away while orders are executed.
LEMMA OnlySalesSell ==
    ASSUME TypeInv, [Next]_vars, phase = "orders", NEW s \in Symbols,
           positions'[s].shares < positions[s].shares
    PROVE  SellOrShort /\ s = Order.symbol
<1>1. positions[s].shares \in Int /\ positions' # positions
    BY DEF TypeInv, Holdings
<1>2. ASSUME NEW t \in Symbols PROVE
          /\ \A amount \in Dividends : ~CashDividend(t, amount)
          /\ \A ratio \in Ratios : ~ShareRatio(t, ratio)
          /\ ~Mark(t) /\ ~TargetRow(t) /\ ~Liquidate(t)
    BY DEF CashDividend, ShareRatio, Acts, Mark, TargetRow, Liquidate
<1>3. ~OpenDay /\ ~StartOrders /\ ~Rejected /\ ~StartMarking /\ ~NoRateAtAll
    BY <1>1 DEF OpenDay, StartOrders, Rejected, StartMarking, NoRateAtAll, books
<1>4. ~Rebalance /\ ~CloseOthers /\ ~CloseDay /\ vars' # vars
    BY <1>1 DEF Rebalance, CloseOthers, CloseDay, vars, books
<1>5. ~BuyOrCover
    <2>1. SUFFICES ASSUME BuyOrCover PROVE FALSE
        OBVIOUS
    <2>2. PICK n \in Nat : positions' = Bought(Ledger, Order.symbol, Order.side, n, Price, day).positions
        BY <1>1, <2>1, BuyDoes
    <2>3. Order.symbol \in Symbols /\ Price \in Int
        BY <2>1, BuyDoes
    <2>4. /\ positions'[Order.symbol].shares = positions[Order.symbol].shares + n
          /\ \A t \in Symbols \ {Order.symbol} : positions'[t] = positions[t]
        BY <2>2, <2>3, BoughtIsPaid
    <2> QED
        BY <1>1, <2>3, <2>4
<1>6. SellOrShort
    BY <1>2, <1>3, <1>4, <1>5 DEF Next, Execute
<1>7. PICK t \in Symbols, n \in Nat, price \in Int :
         t = Order.symbol /\ n = Order.shares /\ price = Price
    BY <1>6, SaleDoes
<1>8. positions' = Sold(Ledger, t, Order.side, n, price).positions
    BY <1>6, <1>7, SaleDoes
<1>9. \A x \in Symbols \ {t} : positions'[x] = positions[x]
    BY <1>8, SoldIs
<1> QED
    BY <1>1, <1>6, <1>7, <1>9

-----------------------------------------------------------------------------
\* Targets.  The orders of a queue are added up one by one, so the first facts are about
\* such sums; a function that obeys the recursion exists and is the only one.

AddsUp(g, f) == f[0] = 0 /\ \A n \in 1..Len(g) : f[n] = f[n - 1] + g[n]

LEMMA SumsExist ==
    ASSUME NEW g \in Seq(Int)
    PROVE  \E f \in [0..Len(g) -> Int] : AddsUp(g, f)
<1> DEFINE Upto(k) == \E f \in [0..k -> Int] :
                         f[0] = 0 /\ \A n \in 1..k : f[n] = f[n - 1] + g[n]
           missing == {k \in 0..Len(g) : ~Upto(k)}
<1>1. PICK last \in Nat : last = Len(g)
    OBVIOUS
<1>2. missing \in SUBSET Nat
    BY <1>1
<1>3. missing = {}
    <2>1. SUFFICES ASSUME missing # {} PROVE FALSE
        OBVIOUS
    <2>2. PICK m \in missing : \A n \in missing : m <= n
        BY <1>2, <2>1, LeastNat
    <2>3. m \in 0..last /\ ~Upto(m)
        BY <1>1, <2>2
    <2>4. CASE m = 0
        <3> DEFINE zero == [n \in 0..0 |-> 0]
        <3>1. zero \in [0..0 -> Int] /\ zero[0] = 0 /\ 1..0 = {}
            OBVIOUS
        <3> HIDE DEF zero
        <3>2. \A n \in 1..0 : zero[n] = zero[n - 1] + g[n]
            BY <3>1
        <3>3. Upto(0)
            BY <3>1, <3>2
        <3> QED
            BY <2>3, <2>4, <3>3
    <2>5. CASE m # 0
        <3>1. m \in Nat /\ m - 1 \in 0..last /\ m \in 1..last
            BY <2>3, <2>5
        <3>2. m - 1 \notin missing
            <4>1. m - 1 \in missing => m <= m - 1
                BY <2>2
            <4> QED
                BY <3>1, <4>1
        <3>3. Upto(m - 1)
            BY <1>1, <3>1, <3>2
        <3>4. PICK f \in [0..(m - 1) -> Int] :
                 f[0] = 0 /\ \A n \in 1..(m - 1) : f[n] = f[n - 1] + g[n]
            BY <3>3
        <3>5. g[m] \in Int /\ f[m - 1] \in Int
            BY <1>1, <3>1
        <3> DEFINE e == [n \in 0..m |-> IF n = m THEN f[m - 1] + g[m] ELSE f[n]]
        <3>6. e \in [0..m -> Int]
            <4>1. \A n \in 0..m : n # m => n \in 0..(m - 1)
                BY <3>1
            <4>2. \A n \in 0..m : (IF n = m THEN f[m - 1] + g[m] ELSE f[n]) \in Int
                BY <3>5, <4>1
            <4> QED
                BY <4>2
        <3>7. /\ e[m] = f[m - 1] + g[m]
              /\ \A n \in 0..(m - 1) : e[n] = f[n]
            BY <3>1
        <3> HIDE DEF e
        <3>8. e[0] = 0
            BY <3>1, <3>4, <3>7
        <3>9. \A n \in 1..m : e[n] = e[n - 1] + g[n]
            <4>1. e[m - 1] = f[m - 1]
                BY <3>1, <3>7
            <4>2. \A n \in 1..m : n # m =>
                     n \in 1..(m - 1) /\ n \in 0..(m - 1) /\ n - 1 \in 0..(m - 1)
                BY <3>1
            <4> QED
                BY <3>4, <3>7, <4>1, <4>2
        <3>10. Upto(m)
            BY <3>6, <3>8, <3>9
        <3> QED
            BY <2>3, <3>10
    <2> QED
        BY <2>4, <2>5
<1> HIDE DEF Upto
<1>4. Upto(Len(g))
    <2>1. Len(g) \in 0..Len(g)
        BY <1>1
    <2> QED
        BY ONLY <1>3, <2>1
<1> QED
    BY <1>4 DEF AddsUp, Upto

LEMMA TotalIs ==
    ASSUME NEW g \in Seq(Int), NEW f \in [0..Len(g) -> Int], AddsUp(g, f)
    PROVE  Total(g) = f[Len(g)]
<1> DEFINE sums(h) == [n \in 0..Len(g) |-> IF n = 0 THEN 0 ELSE h[n - 1] + g[n]]
           sum == CHOOSE h : h = sums(h)
<1>1. PICK last \in Nat : last = Len(g)
    OBVIOUS
<1>2. f = sums(f)
    <2>1. \A n \in 0..last : f[n] = IF n = 0 THEN 0 ELSE f[n - 1] + g[n]
        BY <1>1 DEF AddsUp
    <2> QED
        BY <1>1, <2>1
<1>3. Total(g) = sum[Len(g)]
    BY DEF Total
<1> HIDE DEF sums
<1>4. sum = sums(sum)
    BY <1>2
<1> HIDE DEF sum
<1>5. sum[0] = 0 /\ \A n \in 1..last : sum[n] = sum[n - 1] + g[n]
    BY <1>1, <1>4 DEF sums
<1>6. f[0] = 0 /\ \A n \in 1..last : f[n] = f[n - 1] + g[n]
    BY <1>1 DEF AddsUp
<1> DEFINE apart == {n \in 0..last : sum[n] # f[n]}
<1>7. apart = {}
    <2>1. SUFFICES ASSUME apart # {} PROVE FALSE
        OBVIOUS
    <2>2. apart \in SUBSET Nat
        OBVIOUS
    <2>3. PICK m \in apart : \A n \in apart : m <= n
        BY <2>1, <2>2, LeastNat
    <2>4. m \in 0..last /\ sum[m] # f[m] /\ m # 0
        BY <1>5, <1>6, <2>3
    <2>5. m \in 1..last /\ m - 1 \in 0..last /\ m - 1 \notin apart
        BY <2>3, <2>4
    <2>6. sum[m - 1] = f[m - 1]
        BY <2>5
    <2> QED
        BY <1>5, <1>6, <2>4, <2>5, <2>6
<1> QED
    BY <1>1, <1>3, <1>7

\* The sum over nothing, over one more, and over all but the first.
LEMMA TotalOfNone == Total(<<>>) = 0
<1>1. PICK f \in [0..Len(<<>>) -> Int] : AddsUp(<<>>, f)
    BY <<>> \in Seq(Int), SumsExist
<1>2. Total(<<>>) = f[Len(<<>>)]
    BY <1>1, <<>> \in Seq(Int), TotalIs
<1> QED
    BY <1>1, <1>2 DEF AddsUp

LEMMA TotalIsNumber ==
    ASSUME NEW g \in Seq(Int)
    PROVE  Total(g) \in Int
<1>1. PICK f \in [0..Len(g) -> Int] : AddsUp(g, f)
    BY SumsExist
<1>2. Len(g) \in 0..Len(g)
    OBVIOUS
<1> QED
    BY <1>1, <1>2, TotalIs

LEMMA TotalOfMore ==
    ASSUME NEW g \in Seq(Int), NEW h \in Seq(Int), Len(h) = Len(g) + 1,
           \A n \in 1..Len(g) : h[n] = g[n]
    PROVE  Total(h) = Total(g) + h[Len(h)]
<1>1. PICK x \in Int : x = h[Len(h)]
    OBVIOUS
<1>2. PICK last \in Nat : last = Len(g) /\ Len(h) = last + 1
    OBVIOUS
<1>3. h[last + 1] = x /\ \A n \in 1..last : h[n] = g[n]
    BY <1>1, <1>2
<1>4. PICK f \in [0..Len(h) -> Int] : AddsUp(h, f)
    BY SumsExist
<1> DEFINE e == [n \in 0..last |-> f[n]]
<1>5. e \in [0..Len(g) -> Int] /\ \A n \in 0..last : e[n] = f[n]
    BY <1>2
<1> HIDE DEF e
<1>6. AddsUp(g, e)
    <2>1. e[0] = 0
        BY <1>4, <1>5 DEF AddsUp
    <2>2. \A n \in 1..last : n \in 0..last /\ n - 1 \in 0..last /\ n \in 1..(last + 1)
        OBVIOUS
    <2>3. \A n \in 1..last : e[n] = e[n - 1] + g[n]
        BY <1>2, <1>3, <1>4, <1>5, <2>2 DEF AddsUp
    <2> QED
        BY <1>2, <2>1, <2>3 DEF AddsUp
<1>7. Total(g) = e[last] /\ Total(h) = f[last + 1]
    BY <1>2, <1>4, <1>5, <1>6, TotalIs
<1>8. f[last + 1] = f[last] + x
    BY <1>2, <1>3, <1>4 DEF AddsUp
<1> QED
    BY <1>1, <1>5, <1>7, <1>8

LEMMA TotalOfRest ==
    ASSUME NEW g \in Seq(Int), NEW h \in Seq(Int), Len(g) = Len(h) + 1,
           \A n \in 1..Len(h) : h[n] = g[n + 1]
    PROVE  Total(g) = g[1] + Total(h)
<1>2. PICK last \in Nat : last = Len(h) /\ Len(g) = last + 1
    OBVIOUS
<1>3. g[1] \in Int /\ \A n \in 1..last : h[n] = g[n + 1]
    <2>1. 1 \in 1..(last + 1)
        OBVIOUS
    <2> QED
        BY <1>2, <2>1
<1>4. PICK f \in [0..Len(g) -> Int] : AddsUp(g, f)
    BY SumsExist
<1>5. f[0] = 0 /\ f[1] = g[1] /\ \A n \in 1..(last + 1) : f[n] = f[n - 1] + g[n]
    <2>1. f[0] = 0 /\ \A n \in 1..(last + 1) : f[n] = f[n - 1] + g[n]
        BY <1>2, <1>4 DEF AddsUp
    <2>2. f[1] = f[1 - 1] + g[1]
        BY <2>1
    <2> QED
        BY <1>3, <2>1, <2>2
<1> DEFINE e == [n \in 0..last |-> f[n + 1] - g[1]]
<1>6. e \in [0..Len(h) -> Int] /\ \A n \in 0..last : e[n] = f[n + 1] - g[1]
    <2>1. \A n \in 0..last : n + 1 \in 0..(last + 1)
        OBVIOUS
    <2>2. \A n \in 0..(last + 1) : f[n] \in Int
        BY <1>2
    <2>3. \A n \in 0..last : f[n + 1] \in Int
        BY <2>1, <2>2
    <2>4. \A n \in 0..last : f[n + 1] - g[1] \in Int
        BY <1>3, <2>3
    <2> QED
        BY <1>2, <2>4
<1> HIDE DEF e
<1>7. AddsUp(h, e)
    <2>1. e[0] = 0
        BY <1>3, <1>5, <1>6
    <2>2. \A n \in 1..last : e[n] = e[n - 1] + h[n]
        <3>1. TAKE n \in 1..last
        <3>2. n \in 0..last /\ n - 1 \in 0..last /\ n + 1 \in 1..(last + 1)
            OBVIOUS
        <3>3. f[n + 1] = f[n] + g[n + 1]
            <4>1. f[n + 1] = f[(n + 1) - 1] + g[n + 1]
                BY <1>5, <3>2
            <4>2. (n + 1) - 1 = n
                OBVIOUS
            <4> QED
                BY <4>1, <4>2
        <3>4. e[n] = f[n + 1] - g[1] /\ e[n - 1] = f[n] - g[1]
            <4>1. e[n - 1] = f[(n - 1) + 1] - g[1] /\ (n - 1) + 1 = n
                BY <1>6, <3>2
            <4> QED
                BY <1>6, <3>2, <4>1
        <3>5. h[n] = g[n + 1] /\ f[n] \in Int /\ g[n + 1] \in Int
            BY <1>2, <1>3, <3>2
        <3> QED
            BY <1>3, <3>3, <3>4, <3>5
    <2> QED
        BY <1>2, <2>1, <2>2 DEF AddsUp
<1>8. Total(h) = e[last] /\ Total(g) = f[last + 1]
    BY <1>2, <1>4, <1>6, <1>7, TotalIs
<1>9. f[last + 1] \in Int /\ e[last] = f[last + 1] - g[1]
    BY <1>2, <1>6
<1> QED
    BY <1>3, <1>8, <1>9

\* The part an order has in the sum for a symbol.
Part(o, s) == IF o.symbol = s THEN Signed(o) ELSE 0

LEMMA PartIs ==
    ASSUME NEW o \in Orders, NEW s
    PROVE  /\ Part(o, s) \in Int /\ Signed(o) \in Int
           /\ o.side \in Buying => Signed(o) >= 0
           /\ o.shares # Reinvest =>
                 o.shares \in Nat /\ Signed(o) = IF o.side \in Buying THEN o.shares ELSE -o.shares
BY OrderIs DEF Part, Signed, Reinvest

LEMMA EachIs ==
    ASSUME NEW q \in Seq(Orders), NEW s
    PROVE  Each(q, s) \in Seq(Int) /\ Len(Each(q, s)) = Len(q)
<1>1. PICK last \in Nat : last = Len(q)
    OBVIOUS
<1>2. Each(q, s) = [i \in 1..last |-> Part(q[i], s)]
    BY <1>1 DEF Each, Part
<1>3. \A i \in 1..last : Part(q[i], s) \in Int
    BY <1>1, PartIs
<1> QED
    BY <1>1, <1>2, <1>3

\* What the orders of a queue come to when one is added or taken away.
LEMMA QueuedNone == \A s : Queued(<<>>, s) = 0
<1>1. \A s : Each(<<>>, s) = <<>>
    BY DEF Each
<1> QED
    BY <1>1, TotalOfNone DEF Queued

LEMMA QueuedIsNumber ==
    ASSUME NEW q \in Seq(Orders), NEW s
    PROVE  Queued(q, s) \in Int
BY EachIs, TotalIsNumber DEF Queued

LEMMA QueuedMore ==
    ASSUME NEW q \in Seq(Orders), NEW o \in Orders, NEW s
    PROVE  Queued(Append(q, o), s) = Queued(q, s) + Part(o, s)
<1>1. PICK last \in Nat : last = Len(q) /\ Len(Append(q, o)) = last + 1
    OBVIOUS
<1>2. Append(q, o)[last + 1] = o /\ \A i \in 1..last : Append(q, o)[i] = q[i]
    BY <1>1
<1>3. PICK g \in Seq(Int), h \in Seq(Int) :
         /\ g = Each(q, s) /\ Len(g) = last
         /\ h = Each(Append(q, o), s) /\ Len(h) = last + 1
    BY <1>1, Append(q, o) \in Seq(Orders), EachIs
<1>4. /\ \A i \in 1..(last + 1) : h[i] = Part(Append(q, o)[i], s)
      /\ \A i \in 1..last : g[i] = Part(q[i], s)
    BY <1>1, <1>3 DEF Each, Part
<1>5. h[last + 1] = Part(o, s) /\ \A i \in 1..last : h[i] = g[i]
    <2>1. last + 1 \in 1..(last + 1) /\ \A i \in 1..last : i \in 1..(last + 1)
        OBVIOUS
    <2> QED
        BY <1>2, <1>4, <2>1
<1> QED
    BY <1>3, <1>5, TotalOfMore DEF Queued

LEMMA QueuedRest ==
    ASSUME NEW q \in Seq(Orders), q # <<>>, NEW s
    PROVE  Queued(q, s) = Part(Head(q), s) + Queued(Tail(q), s)
<1>1. PICK last \in Nat : last = Len(Tail(q)) /\ Len(q) = last + 1
    OBVIOUS
<1>2. Head(q) = q[1] /\ \A i \in 1..last : Tail(q)[i] = q[i + 1]
    BY <1>1
<1>3. PICK g \in Seq(Int), h \in Seq(Int) :
         /\ g = Each(q, s) /\ Len(g) = last + 1
         /\ h = Each(Tail(q), s) /\ Len(h) = last
    BY <1>1, Tail(q) \in Seq(Orders), EachIs
<1>4. /\ \A i \in 1..last : h[i] = Part(Tail(q)[i], s)
      /\ \A i \in 1..(last + 1) : g[i] = Part(q[i], s)
    BY <1>1, <1>3 DEF Each, Part
<1>5. g[1] = Part(Head(q), s) /\ \A i \in 1..last : h[i] = g[i + 1]
    <2>1. 1 \in 1..(last + 1) /\ \A i \in 1..last : i + 1 \in 1..(last + 1)
        OBVIOUS
    <2> QED
        BY <1>2, <1>4, <2>1
<1> QED
    BY <1>3, <1>5, TotalOfRest DEF Queued

\* The lots of a target, whose value is rounded down, cost no more than the weight pays for.
LEMMA LotsCostLess ==
    ASSUME NEW value \in Int, NEW weight \in Int, NEW unit \in Nat \ {0},
           weight >= 0 => value >= 0, weight < 0 => value <= 0
    PROVE  TargetShares(value, weight, unit) <= value \div unit
<1>1. PICK lot \in Nat \ {0} : lot = Lot
    BY MarketAssumption
<1>2. PICK size \in Nat : size = AbsOf(value)
    BY AbsIsNatural
<1>3. PICK part \in Nat \ {0} : part = unit * lot
    BY PositiveProduct
<1>4. PICK lots \in Nat : lots = size \div part
    BY <1>3, NaturalQuotient
<1>5. lots * part <= size /\ size < lots * part + part
    <2>1. size % part \in 0..(part - 1) /\ size = part * (size \div part) + (size % part)
        BY SMT
    <2> QED
        BY <1>4, <2>1
<1>6. PICK few \in Nat, many \in Nat : few = lots * lot /\ many = (lots + 1) * lot
    OBVIOUS
<1>7. few * unit = lots * part /\ many * unit = lots * part + part
    <2>1. few * unit = lots * (unit * lot)
        BY <1>6, SMT
    <2>2. many * unit = (lots + 1) * (unit * lot)
        BY <1>6, SMT
    <2>3. (lots + 1) * part = lots * part + part
        BY SMT
    <2> QED
        BY <1>3, <2>1, <2>2, <2>3
<1>8. PICK quotient \in Int : quotient = value \div unit
    OBVIOUS
<1>9. ASSUME NEW n \in Int, n * unit <= value PROVE n <= quotient
    <2>1. n * unit \in Int /\ (n * unit) \div unit <= value \div unit
        BY <1>9, n * unit \in Int, QuotientsGrow
    <2>2. (n * unit) \div unit = n
        BY SMT
    <2> QED
        BY <1>8, <2>1, <2>2
<1>10. PICK full \in {few, many} :
          /\ full = IF value >= 0 \/ lots * part = size THEN few ELSE many
          /\ TargetShares(value, weight, unit) = IF weight < 0 THEN -full ELSE full
    <2>1. lots * unit * Lot = lots * part
        BY <1>1, <1>3, SMT
    <2> QED
        BY <1>1, <1>2, <1>3, <1>4, <1>6, <2>1 DEF TargetShares
<1>11. full \in Int
    BY <1>6
<1>12. CASE weight >= 0
    <2>1. full = few /\ size = value /\ TargetShares(value, weight, unit) = full
        BY <1>2, <1>10, <1>12 DEF AbsOf
    <2>2. full * unit <= value
        BY <1>5, <1>7, <2>1
    <2> QED
        BY <1>8, <1>9, <1>11, <2>1, <2>2
<1>13. CASE weight < 0
    <2>1. size = -value /\ TargetShares(value, weight, unit) = -full
        BY <1>2, <1>10, <1>13 DEF AbsOf
    <2>2. full * unit >= size
        <3>1. CASE full = few
            <4>1. value >= 0 \/ lots * part = size \/ few = many
                BY <1>10, <3>1
            <4>2. value >= 0 => size = 0
                BY <1>13, <2>1
            <4>3. few * unit >= 0
                BY SMT
            <4> QED
                BY <1>5, <1>7, <3>1, <4>1, <4>2, <4>3
        <3>2. CASE full = many
            BY <1>5, <1>7, <3>2
        <3> QED
            BY <3>1, <3>2
    <2>3. (-full) * unit = -(full * unit) /\ full * unit \in Int
        BY <1>11, SMT
    <2>4. -full \in Int /\ (-full) * unit <= value
        BY <1>11, <2>1, <2>2, <2>3
    <2> QED
        BY <1>8, <1>9, <2>1, <2>4
<1> QED
    BY <1>12, <1>13

LEMMA TargetIsPaidFor ==
    ASSUME TypeInv, NEW s \in Symbols, frame[s] \in Weights, bars[s] # NoBar
    PROVE  PaidFor(s) \in Int /\ Target(s) \in Int /\ Target(s) <= PaidFor(s)
<1>1. Target(s) \in Int
    BY TargetIs
<1>2. CASE nav.gross < 0
    BY <1>1, <1>2 DEF PaidFor
<1>3. CASE ~(nav.gross < 0)
    <2>1. PICK unit \in Nat \ {0} : unit = WeightUnit * bars[s].close * FxToBase(CurrencyOf(s), day)
        <3>1. PICK rate \in Nat \ {0} : rate = FxToBase(CurrencyOf(s), day)
            BY RatesArePositive DEF TypeInv
        <3>2. PICK price \in Nat \ {0} : price = bars[s].close
            BY BarsHavePrices
        <3>3. WeightUnit * price \in Nat \ {0}
            BY BacktestAssumption, PositiveProduct
        <3>4. WeightUnit * price * rate \in Nat \ {0}
            BY <3>3, PositiveProduct
        <3> QED
            BY <3>1, <3>2, <3>4
    <2>2. PICK gross \in Nat, weight \in Int : gross = nav.gross /\ weight = frame[s]
        <3>1. nav.gross \in Int /\ ~(nav.gross < 0)
            BY <1>3 DEF TypeInv
        <3>2. nav.gross \in Nat
            BY <3>1
        <3> QED
            BY <3>2, BacktestAssumption
    <2>3. PICK value \in Int : value = gross * weight
        OBVIOUS
    <2>4. (weight >= 0 => value >= 0) /\ (weight < 0 => value <= 0)
        BY <2>3, SMT
    <2>5. TargetShares(value, weight, unit) <= value \div unit
        BY <2>4, LotsCostLess
    <2>6. Target(s) = TargetShares(value, weight, unit)
        BY <2>1, <2>2, <2>3 DEF Target
    <2>7. PaidFor(s) = value \div unit
        BY <1>3, <2>1, <2>2, <2>3 DEF PaidFor
    <2> QED
        BY <1>1, <2>5, <2>6, <2>7
<1> QED
    BY <1>2, <1>3

\* The queue of the day is empty but while it is executed.
HoldInv ==
    /\ allowed \in [Symbols -> Int]
    /\ phase # "orders" => todo = <<>>
    /\ NeverOverHolds

\* For a symbol whose books, orders and allowance do not change.
HeldTo(s) == Current(s) + Queued(pending, s) + Queued(todo, s) <= allowed[s]

LEMMA HoldingsAreNumbers ==
    ASSUME TypeInv, allowed \in [Symbols -> Int], NEW s \in Symbols
    PROVE  /\ Current(s) \in Int /\ allowed[s] \in Int
           /\ Queued(pending, s) \in Int /\ Queued(todo, s) \in Int
BY QueuedIsNumber DEF TypeInv, Holdings, Current

LEMMA AsHeldBefore ==
    ASSUME TypeInv, HoldInv, NEW s \in Symbols,
           positions'[s].shares = positions[s].shares, UNCHANGED <<pending, todo>>,
           allowed'[s] = allowed[s]
    PROVE  HeldTo(s)'
BY DEF HoldInv, NeverOverHolds, HeldTo, Current

\* The first order of the day is gone, and the position has taken its part or less.
LEMMA HeldAfterOrder ==
    ASSUME TypeInv, HoldInv, todo # <<>>, UNCHANGED <<pending, allowed>>, todo' = Tail(todo),
           NEW s \in Symbols, NEW change \in Int, change <= Part(Order, s),
           positions'[s].shares = positions[s].shares + change
    PROVE  HeldTo(s)'
<1>1. Order \in Orders /\ Tail(todo) \in Seq(Orders)
    BY NextInLine DEF TypeInv, Order
<1>2. Queued(todo, s) = Part(Order, s) + Queued(Tail(todo), s)
    BY QueuedRest DEF TypeInv, Order
<1>3. /\ Current(s) \in Int /\ Queued(pending, s) \in Int /\ Queued(Tail(todo), s) \in Int
      /\ Part(Order, s) \in Int /\ allowed[s] \in Int
    BY <1>1, HoldingsAreNumbers, QueuedIsNumber, PartIs DEF HoldInv
<1>4. Current(s) + Queued(pending, s) + (Part(Order, s) + Queued(Tail(todo), s)) <= allowed[s]
    BY <1>2 DEF HoldInv, NeverOverHolds
<1>5. Current(s)' = Current(s) + change
    BY DEF Current
<1>6. Current(s) + change + Queued(pending, s) + Queued(Tail(todo), s) <= allowed[s]
    BY <1>3, <1>4
<1> QED
    BY <1>5, <1>6 DEF HeldTo

LEMMA RefusalsAreHeldTo ==
    ASSUME TypeInv, HoldInv, Rejected
    PROVE  HoldInv'
<1>1. /\ todo # <<>> /\ phase = "orders" /\ phase' = phase /\ todo' = Tail(todo)
      /\ UNCHANGED positions
      /\ pending' = IF Verdict(Order) = "retry" THEN Append(pending, Order) ELSE pending
      /\ allowed' = IF Verdict(Order) = "drop" /\ Signed(Order) < 0
                    THEN [allowed EXCEPT ![Order.symbol] = @ - Signed(Order)] ELSE allowed
    BY DEF Rejected, NextOrder, Order, books
<1>2. Order \in Orders /\ Tail(todo) \in Seq(Orders)
    BY <1>1, NextInLine DEF TypeInv, Order
<1>3. Order.symbol \in Symbols /\ Signed(Order) \in Int
    BY <1>2, OrderIs, PartIs
<1>4. allowed' \in [Symbols -> Int]
    BY <1>1, <1>3 DEF HoldInv
<1>5. ASSUME NEW s \in Symbols PROVE HeldTo(s)'
    <2>1. Queued(todo, s) = Part(Order, s) + Queued(Tail(todo), s)
        BY <1>1, QueuedRest DEF TypeInv, Order
    <2>2. /\ Current(s) \in Int /\ Queued(pending, s) \in Int /\ Queued(Tail(todo), s) \in Int
          /\ Part(Order, s) \in Int /\ allowed[s] \in Int
        BY <1>2, HoldingsAreNumbers, QueuedIsNumber, PartIs DEF HoldInv
    <2>3. Current(s) + Queued(pending, s) + (Part(Order, s) + Queued(Tail(todo), s)) <= allowed[s]
        BY <2>1 DEF HoldInv, NeverOverHolds
    <2>4. Current(s)' = Current(s)
        BY <1>1 DEF Current
    <2>5. CASE Verdict(Order) = "retry"
        <3>1. Queued(Append(pending, Order), s) = Queued(pending, s) + Part(Order, s)
            BY <1>2, QueuedMore DEF TypeInv
        <3>2. Current(s) + Queued(Append(pending, Order), s) + Queued(Tail(todo), s) <= allowed[s]
            BY <2>2, <2>3, <3>1
        <3>3. pending' = Append(pending, Order) /\ allowed' = allowed
            BY <1>1, <2>5
        <3> QED
            BY <1>1, <2>4, <3>2, <3>3 DEF HeldTo
    <2>6. CASE Verdict(Order) # "retry"
        <3>1. PICK more \in Int : more = allowed'[s] - allowed[s]
            BY <1>4, <2>2
        <3>2. -Part(Order, s) <= more
            <4>1. Part(Order, s) = IF Order.symbol = s THEN Signed(Order) ELSE 0
                BY DEF Part
            <4>2. CASE Verdict(Order) = "drop" /\ Signed(Order) < 0
                <5>1. allowed' = [allowed EXCEPT ![Order.symbol] = @ - Signed(Order)]
                    BY <1>1, <4>2
                <5>2. allowed'[s] = IF Order.symbol = s THEN allowed[s] - Signed(Order) ELSE allowed[s]
                    BY <1>3, <5>1 DEF HoldInv
                <5> QED
                    BY <1>3, <2>2, <3>1, <4>1, <5>2
            <4>3. CASE Verdict(Order) = "drop" /\ ~(Signed(Order) < 0)
                <5>1. allowed' = allowed
                    BY <1>1, <4>3
                <5> QED
                    BY <1>3, <2>2, <3>1, <4>1, <4>3, <5>1
            <4>4. Verdict(Order) \in {"drop", "retry", "fill"} /\ Verdict(Order) # "fill"
                <5>1. Verdict(Order) # "fill"
                    BY DEF Rejected, Order
                <5> QED
                    BY <5>1 DEF Verdict
            <4> QED
                BY <2>6, <4>2, <4>3, <4>4
        <3>3. allowed'[s] = allowed[s] + more
            BY <1>4, <2>2, <3>1
        <3>4. Current(s) + Queued(pending, s) + Queued(Tail(todo), s) <= allowed[s] + more
            BY <2>2, <2>3, <3>2
        <3>5. pending' = pending
            BY <1>1, <2>6
        <3> QED
            BY <1>1, <2>4, <3>3, <3>4, <3>5 DEF HeldTo
    <2> QED
        BY <2>5, <2>6
<1> QED
    BY <1>1, <1>4, <1>5 DEF HoldInv, NeverOverHolds, HeldTo

LEMMA FillsAreHeldTo ==
    ASSUME TypeInv, HoldInv, BuyOrCover \/ SellOrShort
    PROVE  HoldInv'
<1>1. /\ todo # <<>> /\ Order \in Orders /\ Order.symbol \in Symbols /\ Order.shares \in Nat
      /\ UNCHANGED <<phase, pending>> /\ phase = "orders"
    BY BuyDoes, SaleDoes DEF NextOrder
<1>2. allowed' = allowed
    BY DEF BuyOrCover, FillBuy, SellOrShort
<1>3. /\ Order.side \in Buying => Signed(Order) = Order.shares
      /\ Order.side \notin Buying => Signed(Order) = -Order.shares
    BY <1>1, PartIs DEF Reinvest
<1>4. ASSUME NEW s \in Symbols PROVE HeldTo(s)'
    <2>1. Part(Order, s) = IF Order.symbol = s THEN Signed(Order) ELSE 0
        BY DEF Part
    <2>2. CASE BuyOrCover
        <3>1. CASE UNCHANGED positions /\ todo' = todo
            BY <1>1, <1>2, <3>1, AsHeldBefore
        <3>2. CASE UNCHANGED positions /\ todo' = Tail(todo)
            <4>1. 0 <= Part(Order, s)
                BY <1>1, <1>3, <2>1, <2>2, BuyDoes
            <4>2. positions'[s].shares = positions[s].shares + 0
                BY <3>2 DEF TypeInv, Holdings
            <4>3. 0 \in Int
                OBVIOUS
            <4> QED
                BY <1>1, <1>2, <3>2, <4>1, <4>2, <4>3, HeldAfterOrder
        <3>3. ASSUME NEW n \in Nat \ {0}, n <= Order.shares, todo' = Tail(todo),
                     positions' = Bought(Ledger, Order.symbol, Order.side, n, Price, day).positions
              PROVE  HeldTo(s)'
            <4>1. Price \in Int /\ Order.side \in Buying
                BY <2>2, BuyDoes
            <4>2. PICK change \in Int : change = IF Order.symbol = s THEN n ELSE 0
                OBVIOUS
            <4>3. positions'[s].shares = positions[s].shares + change
                <5>1. /\ positions'[Order.symbol].shares = positions[Order.symbol].shares + n
                      /\ \A t \in Symbols \ {Order.symbol} : positions'[t] = positions[t]
                    BY <1>1, <3>3, <4>1, BoughtIsPaid
                <5>2. positions[s].shares \in Int
                    BY DEF TypeInv, Holdings
                <5> QED
                    BY <4>2, <5>1, <5>2
            <4>4. change <= Part(Order, s)
                BY <1>1, <1>3, <2>1, <3>3, <4>1, <4>2
            <4> QED
                BY <1>1, <1>2, <3>3, <4>3, <4>4, HeldAfterOrder
        <3> QED
            BY <2>2, <3>1, <3>2, <3>3, BuyDoes
    <2>3. CASE SellOrShort
        <3>1. /\ Price \in Int /\ Order.side \notin Buying /\ todo' = Tail(todo)
              /\ positions' = Sold(Ledger, Order.symbol, Order.side, Order.shares, Price).positions
            BY <2>3, SaleDoes
        <3>2. PICK change \in Int : change = IF Order.symbol = s THEN -Order.shares ELSE 0
            BY <1>1
        <3>3. positions'[s].shares = positions[s].shares + change
            <4>1. /\ positions'[Order.symbol].shares = positions[Order.symbol].shares - Order.shares
                  /\ \A t \in Symbols \ {Order.symbol} : positions'[t] = positions[t]
                BY <1>1, <3>1, SoldIs
            <4>2. positions[s].shares \in Int
                BY DEF TypeInv, Holdings
            <4> QED
                BY <1>1, <3>2, <4>1, <4>2
        <3>4. change <= Part(Order, s)
            BY <1>1, <1>3, <2>1, <3>1, <3>2
        <3> QED
            BY <1>1, <1>2, <3>1, <3>3, <3>4, HeldAfterOrder
    <2> QED
        BY <2>2, <2>3
<1> QED
    BY <1>1, <1>2, <1>4 DEF HoldInv, NeverOverHolds, HeldTo

\* An order that is queued adds its part to the sum of its symbol.
LEMMA QueuedWith ==
    ASSUME TypeInv, NEW s \in Symbols, NEW side \in {"buy", "sell", "short", "cover"},
           NEW n \in Nat, Queue(s, side, n)
    PROVE  /\ Queued(pending, s)' = Queued(pending, s) + IF side \in Buying THEN n ELSE -n
           /\ \A t \in Symbols \ {s} : Queued(pending, t)' = Queued(pending, t)
<1>1. PICK o \in Orders : o = [ready |-> day, symbol |-> s, side |-> side, shares |-> n]
    BY DEF Orders, TypeInv
<1>2. pending' = Append(pending, o) /\ pending \in Seq(Orders)
    BY <1>1 DEF Queue, TypeInv
<1>3. o.symbol = s /\ o.side = side /\ o.shares = n
    BY <1>1
<1>4. Signed(o) = IF side \in Buying THEN n ELSE -n
    BY <1>3 DEF Signed, Reinvest
<1>5. \A t \in Symbols : Part(o, t) = IF t = s THEN Signed(o) ELSE 0
    BY <1>3 DEF Part
<1>6. \A t \in Symbols : Queued(pending, t)' = Queued(pending, t) + Part(o, t)
    <2>1. TAKE t \in Symbols
    <2>2. Queued(Append(pending, o), t) = Queued(pending, t) + Part(o, t)
        BY <1>2, QueuedMore
    <2> QED
        BY <1>2, <2>2 DEF Queued
<1>7. \A t \in Symbols : Queued(pending, t) \in Int
    BY <1>2, QueuedIsNumber
<1> QED
    BY <1>4, <1>5, <1>6, <1>7

LEMMA TargetsAreHeldTo ==
    ASSUME TypeInv, HoldInv, NEW s \in Symbols, TargetRow(s)
    PROVE  HoldInv'
<1>1. /\ phase = "targets" /\ s \in rows /\ frame[s] \in Weights /\ todo = <<>>
      /\ UNCHANGED <<phase, todo, positions>>
      /\ allowed' = IF bars[s] = NoBar THEN allowed
                    ELSE [allowed EXCEPT ![s] = PaidFor(s) + Queued(pending, s)]
    BY DEF TargetRow, TypeInv, HoldInv, books
<1>2. CASE bars[s] = NoBar
    <2>1. UNCHANGED <<pending, todo, positions, allowed>>
        BY <1>1, <1>2 DEF TargetRow
    <2>2. \A t \in Symbols : HeldTo(t)'
        BY <2>1, AsHeldBefore
    <2> QED
        BY <1>1, <2>1, <2>2 DEF HoldInv, NeverOverHolds, HeldTo
<1>3. CASE bars[s] # NoBar
    <2>1. PICK paid \in Int, target \in Int, current \in Int, queued \in Int :
              /\ paid = PaidFor(s) /\ target = Target(s) /\ target <= paid
              /\ current = Current(s) /\ queued = Queued(pending, s)
        BY <1>1, <1>3, TargetIsPaidFor, HoldingsAreNumbers DEF HoldInv
    <2>2. allowed' = [allowed EXCEPT ![s] = paid + queued]
        BY <1>1, <1>3, <2>1
    <2>3. allowed' \in [Symbols -> Int] /\ allowed'[s] = paid + queued
          /\ \A t \in Symbols \ {s} : allowed'[t] = allowed[t]
        BY <2>1, <2>2 DEF HoldInv
    <2>4. Queued(todo, s)' = 0
        BY <1>1, QueuedNone
    <2>5. Current(s)' = current
        BY <1>1, <2>1 DEF Current
    <2>6. /\ \A t \in Symbols \ {s} : Queued(pending, t)' = Queued(pending, t)
          /\ current + Queued(pending, s)' = target + queued
        <3>1. CASE target = current
            <4>1. pending' = pending
                BY <1>3, <2>1, <3>1 DEF TargetRow
            <4> QED
                BY <2>1, <3>1, <4>1
        <3>2. CASE target # current
            <4>1. PICK n \in Nat : n = AbsOf(target - current)
                BY AbsIsNatural
            <4>2. PICK side \in {"buy", "sell", "short", "cover"} : side = SideOf(current, target)
                BY DEF SideOf
            <4>3. Queue(s, side, n)
                BY <1>3, <2>1, <3>2, <4>1, <4>2 DEF TargetRow
            <4>4. PICK part \in Int : part = IF side \in Buying THEN n ELSE -n
                OBVIOUS
            <4>5. part = target - current
                BY <3>2, <4>1, <4>2, <4>4 DEF AbsOf, SideOf, Buying
            <4>6. /\ Queued(pending, s)' = queued + part
                  /\ \A t \in Symbols \ {s} : Queued(pending, t)' = Queued(pending, t)
                BY <2>1, <4>3, <4>4, QueuedWith
            <4> QED
                BY <2>1, <4>5, <4>6
        <3> QED
            BY <3>1, <3>2
    <2>7. HeldTo(s)'
        <3>1. current + Queued(pending, s)' + 0 <= paid + queued
            BY <2>1, <2>6
        <3> QED
            BY <2>3, <2>4, <2>5, <3>1 DEF HeldTo
    <2>8. ASSUME NEW t \in Symbols \ {s} PROVE HeldTo(t)'
        <3>1. Current(t)' = Current(t) /\ Queued(todo, t)' = Queued(todo, t)
            BY <1>1 DEF Current, Queued
        <3>2. Current(t) + Queued(pending, t) + Queued(todo, t) <= allowed[t]
            BY DEF HoldInv, NeverOverHolds
        <3> QED
            BY <2>3, <2>6, <3>1, <3>2 DEF HeldTo
    <2> QED
        BY <1>1, <2>3, <2>7, <2>8 DEF HoldInv, NeverOverHolds, HeldTo
<1> QED
    BY <1>2, <1>3

LEMMA LiquidationsAreHeldTo ==
    ASSUME TypeInv, HoldInv, NEW s \in Symbols, Liquidate(s)
    PROVE  HoldInv'
<1>1. /\ todo = <<>> /\ phase = "others" /\ UNCHANGED <<phase, todo, positions>>
      /\ allowed' = [allowed EXCEPT ![s] = Queued(pending, s)]
    BY DEF Liquidate, HoldInv, books
<1>2. PICK current \in Int, queued \in Int : current = Current(s) /\ queued = Queued(pending, s)
    BY HoldingsAreNumbers DEF HoldInv
<1>3. allowed' \in [Symbols -> Int] /\ allowed'[s] = queued
      /\ \A t \in Symbols \ {s} : allowed'[t] = allowed[t]
    BY <1>1, <1>2 DEF HoldInv
<1>4. Queued(todo, s)' = 0
    BY <1>1, QueuedNone
<1>5. PICK side \in {"sell", "cover"} : side = IF current > 0 THEN "sell" ELSE "cover"
    OBVIOUS
<1>6. PICK n \in Nat : n = AbsOf(current)
    BY AbsIsNatural
<1>7. Queue(s, side, n)
    BY <1>2, <1>5, <1>6 DEF Liquidate
<1>8. PICK part \in Int : part = IF side \in Buying THEN n ELSE -n
    OBVIOUS
<1>9. part = -current
    BY <1>5, <1>6, <1>8 DEF AbsOf, Buying
<1>10. /\ Queued(pending, s)' = queued + part
       /\ \A t \in Symbols \ {s} : Queued(pending, t)' = Queued(pending, t)
    BY <1>2, <1>5, <1>7, <1>8, QueuedWith
<1>11. HeldTo(s)'
    <2>1. Current(s)' = current
        BY <1>1, <1>2 DEF Current
    <2>2. current + (queued + part) + 0 <= queued
        BY <1>9
    <2> QED
        BY <1>3, <1>4, <1>10, <2>1, <2>2 DEF HeldTo
<1>12. ASSUME NEW t \in Symbols \ {s} PROVE HeldTo(t)'
    <2>1. Current(t)' = Current(t) /\ Queued(todo, t)' = Queued(todo, t)
        BY <1>1 DEF Current, Queued
    <2>2. Current(t) + Queued(pending, t) + Queued(todo, t) <= allowed[t]
        BY DEF HoldInv, NeverOverHolds
    <2> QED
        BY <1>3, <1>10, <2>1, <2>2 DEF HeldTo
<1> QED
    BY <1>1, <1>3, <1>11, <1>12 DEF HoldInv, NeverOverHolds, HeldTo

LEMMA ActionsAreHeldTo ==
    ASSUME TypeInv, TypeInv', HoldInv, NEW s \in Symbols,
           \/ \E amount \in Dividends : CashDividend(s, amount)
           \/ \E ratio \in Ratios : ShareRatio(s, ratio)
    PROVE  HoldInv'
<1>1. phase = "actions" /\ todo = <<>> /\ UNCHANGED <<phase, todo>>
    BY DEF CashDividend, ShareRatio, Acts, HoldInv
<1>2. ASSUME NEW amount \in Dividends, CashDividend(s, amount) PROVE HoldInv'
    <2>1. UNCHANGED <<positions, allowed>>
        BY <1>2 DEF CashDividend
    <2>2. PICK o \in Orders : /\ o = [ready |-> day, symbol |-> s, side |-> "buy", shares |-> Reinvest]
                              /\ pending' \in {pending, Append(pending, o)}
        BY <1>2 DEF CashDividend, Orders, TypeInv
    <2>3. \A t : Part(o, t) = 0
        BY <2>2 DEF Part, Signed
    <2>4. ASSUME NEW t \in Symbols PROVE HeldTo(t)'
        <3>1. Queued(Append(pending, o), t) = Queued(pending, t) + 0 /\ Queued(pending, t) \in Int
            BY <2>3, QueuedMore, QueuedIsNumber DEF TypeInv
        <3>2. Queued(pending, t)' = Queued(pending, t)
            <4>1. CASE pending' = pending
                BY <4>1 DEF Queued
            <4>2. CASE pending' = Append(pending, o)
                <5>1. Queued(pending, t)' = Queued(Append(pending, o), t)
                    BY <4>2 DEF Queued
                <5> QED
                    BY <3>1, <5>1
            <4> QED
                BY <2>2, <4>1, <4>2
        <3>3. Current(t)' = Current(t) /\ Queued(todo, t)' = Queued(todo, t)
            BY <1>1, <2>1 DEF Current, Queued
        <3>4. Current(t) + Queued(pending, t) + Queued(todo, t) <= allowed[t]
            BY DEF HoldInv, NeverOverHolds
        <3> QED
            BY <2>1, <3>2, <3>3, <3>4 DEF HeldTo
    <2> QED
        BY <1>1, <2>1, <2>4 DEF HoldInv, NeverOverHolds, HeldTo
<1>3. ASSUME NEW ratio \in Ratios, ShareRatio(s, ratio) PROVE HoldInv'
    <2>1. /\ positions' = [positions EXCEPT ![s].shares = Truncated(@, ratio)]
          /\ allowed' = [allowed EXCEPT ![s] = positions'[s].shares + Queued(pending, s)]
          /\ pending' = pending
        BY <1>3 DEF ShareRatio
    <2>2. PICK current \in Int, queued \in Int : current = positions'[s].shares /\ queued = Queued(pending, s)
        BY HoldingsAreNumbers DEF HoldInv, TypeInv, Holdings
    <2>3. allowed' \in [Symbols -> Int] /\ allowed'[s] = current + queued
          /\ \A t \in Symbols \ {s} : allowed'[t] = allowed[t]
        BY <2>1, <2>2 DEF HoldInv
    <2>4. HeldTo(s)'
        <3>1. Queued(todo, s)' = 0
            BY <1>1, QueuedNone
        <3>2. Current(s)' = current /\ Queued(pending, s)' = queued
            BY <2>1, <2>2 DEF Current
        <3> QED
            BY <2>2, <2>3, <3>1, <3>2 DEF HeldTo
    <2>5. ASSUME NEW t \in Symbols \ {s} PROVE HeldTo(t)'
        <3>1. positions'[t] = positions[t]
            BY <2>1 DEF TypeInv, Holdings
        <3> QED
            BY <1>1, <2>1, <2>3, <3>1, AsHeldBefore
    <2> QED
        BY <1>1, <2>3, <2>4, <2>5 DEF HoldInv, NeverOverHolds, HeldTo
<1> QED
    BY <1>2, <1>3

LEMMA HoldsOn ==
    ASSUME TypeInv, TypeInv', HoldInv, [Next]_vars
    PROVE  HoldInv'
<1>1. ASSUME UNCHANGED <<positions, pending, todo, allowed>>,
             phase = "orders" => phase' = "orders" \/ todo = <<>>
      PROVE  HoldInv'
    <2>1. \A t \in Symbols : HeldTo(t)'
        BY <1>1, AsHeldBefore
    <2> QED
        BY <1>1, <2>1 DEF HoldInv, NeverOverHolds, HeldTo
<1>2. CASE OpenDay
    BY <1>1, <1>2 DEF OpenDay, books, orders
<1>3. CASE StartOrders
    <2>1. /\ phase' = "orders" /\ todo' = pending /\ pending' = <<>> /\ todo = <<>>
          /\ UNCHANGED <<positions, allowed>>
        BY <1>3 DEF StartOrders, HoldInv, books
    <2>2. ASSUME NEW t \in Symbols PROVE HeldTo(t)'
        <3>1. Queued(todo, t) = 0 /\ Queued(pending, t)' = 0
            BY <2>1, QueuedNone
        <3>2. Queued(todo, t)' = Queued(pending, t) /\ Current(t)' = Current(t)
            BY <2>1 DEF Queued, Current
        <3>3. Current(t) + Queued(pending, t) + Queued(todo, t) <= allowed[t]
            BY DEF HoldInv, NeverOverHolds
        <3>4. Current(t) \in Int /\ Queued(pending, t) \in Int
            BY HoldingsAreNumbers DEF HoldInv
        <3>5. Current(t) + 0 + Queued(pending, t) <= allowed[t]
            BY <3>1, <3>3, <3>4
        <3> QED
            BY <2>1, <3>1, <3>2, <3>5 DEF HeldTo
    <2> QED
        BY <2>1, <2>2 DEF HoldInv, NeverOverHolds, HeldTo
<1>4. CASE Rejected
    BY <1>4, RefusalsAreHeldTo
<1>5. CASE BuyOrCover \/ SellOrShort
    BY <1>5, FillsAreHeldTo
<1>6. CASE StartMarking \/ NoRateAtAll
    BY <1>1, <1>6 DEF StartMarking, NoRateAtAll, OrdersDone, books, orders
<1>7. ASSUME NEW s \in Symbols, Mark(s) PROVE HoldInv'
    BY <1>1, <1>7 DEF Mark, books, orders
<1>8. CASE Rebalance \/ CloseOthers
    BY <1>1, <1>8 DEF Rebalance, CloseOthers, books, orders
<1>9. CASE CloseDay
    <2>1. /\ UNCHANGED <<pending, todo, allowed>> /\ phase \in {"marking", "others"}
          /\ positions' = [s \in Symbols |->
                IF positions[s].lock <= day THEN [positions[s] EXCEPT !.lock = 0]
                ELSE positions[s]]
        BY <1>9 DEF CloseDay, orders
    <2>2. ASSUME NEW t \in Symbols PROVE positions'[t].shares = positions[t].shares
        <3>1. positions[t] \in [held : BOOLEAN, shares : Int, lock : Nat]
            BY DEF TypeInv, Holdings
        <3>2. [positions[t] EXCEPT !.lock = 0].shares = positions[t].shares
            BY <3>1
        <3> QED
            BY <2>1, <3>2
    <2>3. \A t \in Symbols : HeldTo(t)'
        BY <2>1, <2>2, AsHeldBefore
    <2> QED
        BY <2>1, <2>3 DEF HoldInv, NeverOverHolds, HeldTo
<1>10. CASE UNCHANGED vars
    BY <1>1, <1>10 DEF vars, books, orders
<1> QED
    BY <1>2, <1>3, <1>4, <1>5, <1>6, <1>7, <1>8, <1>9, <1>10, ActionsAreHeldTo,
       TargetsAreHeldTo, LiquidationsAreHeldTo DEF Next, Execute

\* A rebalance never over-holds: for every calendar, strategy, price, ratio and rate, and
\* whatever is halted, retried, cut to the cash or refused on the days that follow, a
\* position and its orders come to no more than its weight paid for, the orders put back
\* before and the sales refused since.
THEOREM OrdersMeetTargets == Spec => []NeverOverHolds
<1>1. Init => HoldInv
    <2> SUFFICES ASSUME Init PROVE HoldInv
        OBVIOUS
    <2>1. \A s \in Symbols : Current(s) = 0 /\ allowed[s] = 0
        BY DEF Init, Current, NoPosition
    <2>2. \A s \in Symbols : Queued(pending, s) = 0 /\ Queued(todo, s) = 0
        BY QueuedNone DEF Init
    <2> QED
        BY <2>1, <2>2 DEF Init, HoldInv, NeverOverHolds
<1>2. HoldInv => NeverOverHolds
    BY DEF HoldInv
<1> QED
    BY <1>1, <1>2, InitialTypes, TypesStay, HoldsOn, PTL DEF Spec

-----------------------------------------------------------------------------
\* Settlement, once more.

\* The only order the lock is not looked at for is one to sell short.  Long-only weights
\* make none; where A-shares may not be sold short and nothing else has a lock, such
\* an order is dropped; and where nothing is put back it finds no shares: what is
\* queued to be sold short is not held, and no other order of its symbol is queued.

NoHalts == BarStates \subseteq {"trading"}

Placed(s) == {i \in 1..Len(pending) : pending[i].symbol = s}

\* An order that is queued is the last one, and the only new one.
LEMMA QueuePlaces ==
    ASSUME TypeInv, NEW s \in Symbols, NEW side \in {"buy", "sell", "short", "cover"},
           NEW n \in Nat, Queue(s, side, n)
    PROVE  /\ \A t \in Symbols \ {s} : Placed(t)' = Placed(t)
           /\ \A t \in Symbols : \A i \in Placed(t) : pending'[i] = pending[i]
           /\ Placed(s) = {} => \E j : /\ Placed(s)' = {j}
                                     /\ Signed(pending'[j]) = IF side \in Buying THEN n ELSE -n
<1>1. PICK o \in Orders : o = [ready |-> day, symbol |-> s, side |-> side, shares |-> n]
    BY DEF Orders, TypeInv
<1>2. pending' = Append(pending, o) /\ pending \in Seq(Orders)
    BY <1>1 DEF Queue, TypeInv
<1>3. PICK last \in Nat : last = Len(pending) /\ Len(pending') = last + 1
    BY <1>2
<1>4. /\ \A i \in 1..last : pending'[i] = pending[i]
      /\ pending'[last + 1] = o
    BY <1>2, <1>3
<1>5. o.symbol = s /\ o.side = side /\ o.shares = n
    BY <1>1
<1>6. 1..(last + 1) = (1..last) \cup {last + 1}
    OBVIOUS
<1>7. /\ \A t : Placed(t) = {i \in 1..last : pending[i].symbol = t}
      /\ \A t : Placed(t)' = {i \in 1..(last + 1) : pending'[i].symbol = t}
    BY <1>3 DEF Placed
<1>8. \A t \in Symbols \ {s} : Placed(t)' = Placed(t)
    BY <1>4, <1>5, <1>6, <1>7
<1>9. \A t \in Symbols : \A i \in Placed(t) : pending'[i] = pending[i]
    BY <1>4, <1>7
<1>10. Placed(s) = {} => Placed(s)' = {last + 1}
    BY <1>4, <1>5, <1>6, <1>7
<1>11. Signed(pending'[last + 1]) = IF side \in Buying THEN n ELSE -n
    BY <1>4, <1>5 DEF Signed, Reinvest
<1> QED
    BY <1>8, <1>9, <1>10, <1>11

LEMMA NothingIsPutBack ==
    ASSUME NoHalts, TypeInv, NEW o \in Orders
    PROVE  Verdict(o) # "retry"
<1>1. bars[o.symbol] \in Bars
    BY OrderIs DEF TypeInv
<1>2. CASE bars[o.symbol] = NoBar
    BY <1>2 DEF Verdict, NoBar
<1>3. CASE bars[o.symbol].state \in BarStates
    <2>1. bars[o.symbol].state = "trading"
        BY <1>3 DEF NoHalts
    <2> QED
        BY <2>1 DEF Verdict
<1>4. bars[o.symbol] \in [state : BarStates, price : Prices, close : Prices]
      => bars[o.symbol].state \in BarStates
    OBVIOUS
<1> QED
    BY <1>1, <1>2, <1>3, <1>4 DEF Bars

LongOnly == Weights \subseteq Nat

ShortsBarred ==
    \A s \in Symbols : LockDays[MarketOf(s)] > 0 => s \in AShares /\ ~AShareShortAllowed

\* No order to sell short.
LongInv == \A q \in {pending, todo} : \A i \in 1..Len(q) : q[i].side # "short"

\* What is to be sold short is not held, and its order is the only one of its symbol.
Lone(q) ==
    \A i \in 1..Len(q) : q[i].side = "short" =>
        /\ positions[q[i].symbol].shares <= 0
        /\ \A j \in 1..Len(q) : q[j].symbol = q[i].symbol /\ q[j].shares # Reinvest => j = i

ShortInv ==
    /\ phase \in {"orders", "marking"} => pending = <<>>
    /\ Lone(pending) /\ Lone(todo)
    /\ phase \in {"targets", "others"} => \A s \in rows : Placed(s) = {}
    /\ phase = "targets" => \A s \in Symbols : frame[s] = Untargeted => Placed(s) = {}

\* Where the orders of a queue go that loses its first one or gets another.
LEMMA InQueues ==
    ASSUME NEW q \in Seq(Orders)
    PROVE  /\ q # <<>> => \A i \in 1..Len(Tail(q)) : i + 1 \in 1..Len(q) /\ Tail(q)[i] = q[i + 1]
           /\ q # <<>> => Head(q) = q[1] /\ 1 \in 1..Len(q)
           /\ \A o \in Orders : \A i \in 1..Len(Append(q, o)) :
                 \/ i \in 1..Len(q) /\ Append(q, o)[i] = q[i]
                 \/ i = Len(q) + 1 /\ i \notin 1..Len(q) /\ Append(q, o)[i] = o
<1>1. ASSUME q # <<>>
      PROVE  \A i \in 1..Len(Tail(q)) : i + 1 \in 1..Len(q) /\ Tail(q)[i] = q[i + 1]
    <2>1. PICK n \in Nat : n = Len(Tail(q)) /\ Len(q) = n + 1
        BY <1>1
    <2> QED
        BY <1>1, <2>1
<1>2. q # <<>> => Head(q) = q[1] /\ 1 \in 1..Len(q)
    OBVIOUS
<1>3. ASSUME NEW o \in Orders, NEW i \in 1..Len(Append(q, o))
      PROVE  \/ i \in 1..Len(q) /\ Append(q, o)[i] = q[i]
             \/ i = Len(q) + 1 /\ i \notin 1..Len(q) /\ Append(q, o)[i] = o
    <2>1. PICK n \in Nat : n = Len(q) /\ Len(Append(q, o)) = n + 1
        OBVIOUS
    <2>2. (\A k \in 1..n : Append(q, o)[k] = q[k]) /\ Append(q, o)[n + 1] = o
        BY <2>1
    <2>3. i \in 1..n \/ (i = n + 1 /\ i \notin 1..n)
        BY <1>3, <2>1
    <2> QED
        BY <2>1, <2>2, <2>3
<1> QED
    BY <1>1, <1>2, <1>3

\* The rest of a queue: what is sold short in it is not of the symbol of its first order.
LEMMA RestIsLone ==
    ASSUME NEW q \in Seq(Orders), q # <<>>, Lone(q)
    PROVE  /\ Lone(Tail(q))
           /\ Head(q).shares # Reinvest =>
                 \A i \in 1..Len(Tail(q)) : Tail(q)[i].side = "short" =>
                                               Tail(q)[i].symbol # Head(q).symbol
<1>1. /\ \A i \in 1..Len(Tail(q)) : i + 1 \in 1..Len(q) /\ Tail(q)[i] = q[i + 1]
      /\ Head(q) = q[1] /\ 1 \in 1..Len(q)
    BY InQueues
<1>2. ASSUME NEW i \in 1..Len(Tail(q)), Tail(q)[i].side = "short"
      PROVE  /\ positions[Tail(q)[i].symbol].shares <= 0
             /\ \A j \in 1..Len(Tail(q)) :
                   Tail(q)[j].symbol = Tail(q)[i].symbol /\ Tail(q)[j].shares # Reinvest => j = i
             /\ Head(q).shares # Reinvest => Tail(q)[i].symbol # Head(q).symbol
    <2>1. PICK k \in 1..Len(q) : k = i + 1 /\ Tail(q)[i] = q[k]
        BY <1>1
    <2>2. /\ positions[q[k].symbol].shares <= 0
          /\ \A j \in 1..Len(q) : q[j].symbol = q[k].symbol /\ q[j].shares # Reinvest => j = k
        BY <1>2, <2>1 DEF Lone
    <2>3. ASSUME NEW j \in 1..Len(Tail(q)), Tail(q)[j].symbol = Tail(q)[i].symbol,
                 Tail(q)[j].shares # Reinvest
          PROVE  j = i
        <3>1. j + 1 = k
            BY <1>1, <2>1, <2>2, <2>3
        <3> QED
            BY <2>1, <3>1
    <2>4. k # 1
        BY <2>1
    <2> QED
        BY <1>1, <2>1, <2>2, <2>3, <2>4
<1> QED
    BY <1>2 DEF Lone

\* An order that is put at the end of a queue that has none of its symbol.
LEMMA AddedIsLone ==
    ASSUME NEW q \in Seq(Orders), NEW o \in Orders, Lone(q),
           o.side = "short" => o.shares # Reinvest /\ positions[o.symbol].shares <= 0,
           o.shares # Reinvest => \A i \in 1..Len(q) : q[i].symbol # o.symbol
    PROVE  Lone(Append(q, o))
<1> DEFINE p == Append(q, o)
<1>1. ASSUME NEW i \in 1..Len(p), p[i].side = "short"
      PROVE  /\ positions[p[i].symbol].shares <= 0
             /\ \A j \in 1..Len(p) : p[j].symbol = p[i].symbol /\ p[j].shares # Reinvest => j = i
    <2>1. CASE i \in 1..Len(q) /\ p[i] = q[i]
        <3>1. /\ positions[q[i].symbol].shares <= 0
              /\ \A j \in 1..Len(q) : q[j].symbol = q[i].symbol /\ q[j].shares # Reinvest => j = i
            BY <1>1, <2>1 DEF Lone
        <3>2. \A j \in 1..Len(p) : p[j].symbol = p[i].symbol /\ p[j].shares # Reinvest =>
                                      j \in 1..Len(q) /\ p[j] = q[j]
            BY <2>1, InQueues
        <3> QED
            BY <2>1, <3>1, <3>2
    <2>2. CASE i = Len(q) + 1 /\ i \notin 1..Len(q) /\ p[i] = o
        <3>1. \A j \in 1..Len(p) : p[j].symbol = o.symbol /\ o.shares # Reinvest => j = Len(q) + 1
            BY InQueues
        <3> QED
            BY <1>1, <2>2, <3>1
    <2> QED
        BY <2>1, <2>2, InQueues
<1> QED
    BY <1>1 DEF Lone

\* Where nobody holds more of what is sold short, the queues stay as they are.
LEMMA StaysLone ==
    ASSUME NEW q, Lone(q),
           \A i \in 1..Len(q) : q[i].side = "short" /\ positions[q[i].symbol].shares <= 0
                                   => positions'[q[i].symbol].shares <= 0
    PROVE  Lone(q)'
BY DEF Lone

\* What an action that queues nothing keeps.
LEMMA ShortAsBefore ==
    ASSUME ShortInv, UNCHANGED <<pending, todo>>,
           \/ positions' = positions
           \/ /\ TypeInv
              /\ \A s \in Symbols : positions[s].shares <= 0 => positions'[s].shares <= 0
    PROVE  /\ Lone(pending)' /\ Lone(todo)'
           /\ \A s : Placed(s)' = Placed(s)
<1>1. CASE positions' = positions
    BY <1>1 DEF ShortInv, Lone, Placed
<1>2. CASE /\ TypeInv
           /\ \A s \in Symbols : positions[s].shares <= 0 => positions'[s].shares <= 0
    <2>1. PICK p \in Seq(Orders), q \in Seq(Orders) : p = pending /\ q = todo /\ Lone(p) /\ Lone(q)
        BY <1>2 DEF TypeInv, ShortInv
    <2>2. \A i \in 1..Len(p) : p[i].symbol \in Symbols
        BY OrderIs
    <2>3. \A i \in 1..Len(q) : q[i].symbol \in Symbols
        BY OrderIs
    <2>4. Lone(p)'
        BY <1>2, <2>1, <2>2, StaysLone
    <2>5. Lone(q)'
        BY <1>2, <2>1, <2>3, StaysLone
    <2> QED
        BY <2>1, <2>4, <2>5 DEF Lone, Placed
<1> QED
    BY <1>1, <1>2

\* What is queued in a rebalance.
LEMMA QueuedIsLone ==
    ASSUME TypeInv, ShortInv, UNCHANGED <<positions, todo>>, NEW s \in Symbols, Placed(s) = {},
           NEW side \in {"buy", "sell", "short", "cover"}, NEW n \in Nat,
           side = "short" => positions[s].shares <= 0, Queue(s, side, n)
    PROVE  /\ Lone(pending)' /\ Lone(todo)'
           /\ \A t \in Symbols \ {s} : Placed(t)' = Placed(t)
<1>1. PICK o \in Orders : o = [ready |-> day, symbol |-> s, side |-> side, shares |-> n]
    BY DEF Orders, TypeInv
<1>2. PICK q \in Seq(Orders) : q = pending /\ Lone(q) /\ pending' = Append(q, o)
    BY <1>1 DEF Queue, TypeInv, ShortInv
<1>3. \A i \in 1..Len(q) : q[i].symbol # o.symbol
    BY <1>1, <1>2 DEF Placed
<1>4. o.side = "short" => o.shares # Reinvest /\ positions[o.symbol].shares <= 0
    BY <1>1 DEF Reinvest
<1>5. Lone(Append(q, o))
    BY <1>2, <1>3, <1>4, AddedIsLone
<1>6. Lone(pending)' /\ Lone(todo)'
    BY <1>2, <1>5 DEF Lone, ShortInv
<1> QED
    BY <1>6, QueuePlaces

\* No step queues a short of what is held, or a second order of what is sold short.
LEMMA ShortsStay ==
    ASSUME NoHalts, TypeInv, ShortInv, [Next]_vars
    PROVE  ShortInv'
<1>a. \A s \in Symbols : positions[s].shares \in Int
    BY DEF TypeInv, Holdings
<1>1. CASE StartOrders
    <2>1. phase' = "orders" /\ todo' = pending /\ pending' = <<>> /\ positions' = positions
        BY <1>1 DEF StartOrders, books
    <2>2. Lone(<<>>)
        BY DEF Lone
    <2> QED
        BY <2>1, <2>2 DEF ShortInv, Lone
<1>2. ASSUME NEW s \in Symbols, NEW amount \in Dividends, CashDividend(s, amount)
      PROVE  ShortInv'
    <2>1. PICK o \in Orders : o = [ready |-> day, symbol |-> s, side |-> "buy", shares |-> Reinvest]
        BY DEF Orders, TypeInv
    <2>2. pending' \in {pending, Append(pending, o)} /\ phase = "actions" /\ phase' = phase
          /\ UNCHANGED <<positions, todo>>
        BY <1>2, <2>1 DEF CashDividend, Acts
    <2>3. PICK q \in Seq(Orders) : q = pending /\ Lone(q)
        BY DEF TypeInv, ShortInv
    <2>4. Lone(Append(q, o))
        BY <2>1, <2>3, AddedIsLone
    <2> QED
        BY <2>2, <2>3, <2>4 DEF ShortInv, Lone
<1>3. ASSUME NEW s \in Symbols, NEW ratio \in Ratios, ShareRatio(s, ratio)
      PROVE  ShortInv'
    <2>1. /\ phase = "actions" /\ phase' = phase /\ UNCHANGED <<pending, todo>>
          /\ positions' = [positions EXCEPT ![s].shares = Truncated(@, ratio)]
        BY <1>3 DEF ShareRatio, Acts
    <2>2. ASSUME NEW t \in Symbols, positions[t].shares <= 0 PROVE positions'[t].shares <= 0
        <3>1. CASE t = s
            <4>1. positions'[s].shares = Truncated(positions[s].shares, ratio)
                BY <2>1 DEF TypeInv, Holdings
            <4> QED
                BY <1>a, <2>2, <3>1, <4>1, TruncatedIs
        <3>2. CASE t # s
            BY <2>1, <2>2, <3>2 DEF TypeInv, Holdings
        <3> QED
            BY <3>1, <3>2
    <2> QED
        BY <2>1, <2>2, ShortAsBefore DEF ShortInv
<1>4. CASE Rejected
    <2>1. Head(todo) \in Orders
        BY <1>4, NextInLine DEF Rejected, NextOrder, TypeInv
    <2>2. /\ phase = "orders" /\ todo # <<>> /\ todo' = Tail(todo)
          /\ UNCHANGED <<phase, positions, pending>>
        BY <1>4, <2>1, NothingIsPutBack DEF Rejected, NextOrder, books
    <2>3. PICK q \in Seq(Orders) : q = todo /\ q # <<>> /\ Lone(q) /\ Lone(Tail(q))
        BY <2>2, RestIsLone DEF TypeInv, ShortInv
    <2> QED
        BY <2>2, <2>3 DEF ShortInv, Lone
<1>5. CASE BuyOrCover \/ SellOrShort
    <2>1. /\ phase = "orders" /\ todo # <<>> /\ UNCHANGED <<phase, pending>>
          /\ Order.symbol \in Symbols /\ Order.shares \in Nat
          /\ \/ positions' = positions /\ todo' \in {todo, Tail(todo)}
             \/ todo' = Tail(todo) /\ \A t \in Symbols \ {Order.symbol} : positions'[t] = positions[t]
        <3>1. CASE BuyOrCover
            <4>1. ASSUME NEW n \in Nat,
                         positions' = Bought(Ledger, Order.symbol, Order.side, n, Price, day).positions
                  PROVE  \A t \in Symbols \ {Order.symbol} : positions'[t] = positions[t]
                <5>1. PICK s \in Symbols, price \in Int : s = Order.symbol /\ price = Price
                    BY <3>1, BuyDoes
                <5> QED
                    BY <4>1, <5>1, BoughtIsPaid
            <4> QED
                BY <3>1, <4>1, BuyDoes DEF NextOrder
        <3>2. CASE SellOrShort
            <4>1. PICK s \in Symbols, n \in Nat, price \in Int :
                     s = Order.symbol /\ n = Order.shares /\ price = Price
                BY <3>2, SaleDoes
            <4>2. positions' = Sold(Ledger, s, Order.side, n, price).positions
                BY <3>2, <4>1, SaleDoes
            <4>3. \A t \in Symbols \ {s} : positions'[t] = positions[t]
                BY <4>2, SoldIs
            <4> QED
                BY <3>2, <4>1, <4>3, SaleDoes DEF NextOrder
        <3> QED
            BY <1>5, <3>1, <3>2
    <2>2. PICK q \in Seq(Orders), r \in Seq(Orders) :
             q = todo /\ q # <<>> /\ Lone(q) /\ r = Tail(q) /\ Lone(r)
        BY <2>1, RestIsLone, NextInLine DEF TypeInv, ShortInv
    <2>3. ASSUME todo' = r, \A t \in Symbols \ {Order.symbol} : positions'[t] = positions[t]
          PROVE  Lone(todo)'
        <3>1. \A i \in 1..Len(r) : r[i].side = "short" => r[i].symbol # Head(q).symbol
            BY <2>1, <2>2, RestIsLone DEF Order, Reinvest
        <3>2. \A i \in 1..Len(r) : r[i].symbol \in Symbols
            BY OrderIs
        <3>3. Lone(r)'
            BY <2>2, <2>3, <3>1, <3>2, StaysLone DEF Order
        <3> QED
            BY <2>3, <3>3 DEF Lone
    <2>4. ASSUME positions' = positions, todo' \in {todo, Tail(todo)}
          PROVE  Lone(todo)'
        <3>1. CASE todo' = q
            BY <2>2, <2>4, <3>1 DEF Lone
        <3>2. CASE todo' = r
            BY <2>2, <2>4, <3>2 DEF Lone
        <3> QED
            BY <2>2, <2>4, <3>1, <3>2
    <2>5. Lone(todo)'
        BY <2>1, <2>2, <2>3, <2>4
    <2> QED
        BY <2>1, <2>5 DEF ShortInv, Lone
<1>6. CASE StartMarking \/ NoRateAtAll
    <2>1. phase' \in {phase, "marking"} /\ phase = "orders" /\ UNCHANGED <<positions, pending, todo>>
        BY <1>6 DEF StartMarking, NoRateAtAll, OrdersDone, books, orders
    <2> QED
        BY <2>1, ShortAsBefore DEF ShortInv
<1>7. ASSUME NEW s \in Symbols, Mark(s) PROVE ShortInv'
    <2>1. phase = "marking" /\ phase' = phase /\ UNCHANGED <<positions, pending, todo>>
        BY <1>7 DEF Mark, books, orders
    <2> QED
        BY <2>1, ShortAsBefore DEF ShortInv
<1>8. CASE Rebalance
    <2>1. phase' = "targets" /\ pending' = <<>> /\ UNCHANGED <<positions, pending, todo>>
        BY <1>8 DEF Rebalance, books, orders, ShortInv
    <2>2. \A s : Placed(s)' = {}
        BY <2>1 DEF Placed
    <2> QED
        BY <2>1, <2>2, ShortAsBefore DEF ShortInv
<1>9. ASSUME NEW s \in Symbols, TargetRow(s) PROVE ShortInv'
    <2>1. /\ phase = "targets" /\ s \in rows /\ rows' = rows \ {s} /\ frame[s] \in Weights
          /\ UNCHANGED <<phase, positions, todo, frame>>
        BY <1>9 DEF TargetRow, TypeInv, books
    <2>2. Placed(s) = {} /\ frame[s] # Untargeted /\ rows \subseteq Symbols
        BY <2>1, BacktestAssumption DEF ShortInv, TypeInv
    <2>3. CASE bars[s] = NoBar \/ Target(s) = Current(s)
        <3>1. pending' = pending
            BY <1>9, <2>3 DEF TargetRow
        <3> QED
            BY <2>1, <3>1, ShortAsBefore DEF ShortInv
    <2>4. CASE ~(bars[s] = NoBar \/ Target(s) = Current(s))
        <3>1. PICK target \in Int, current \in Int :
                 /\ target = Target(s) /\ current = Current(s) /\ current = positions[s].shares
            BY <1>a, <2>1, <2>4, TargetIs DEF Current
        <3>2. PICK n \in Nat : n = AbsOf(target - current)
            BY AbsIsNatural
        <3>3. PICK side \in {"buy", "sell", "short", "cover"} : side = SideOf(current, target)
            BY DEF SideOf
        <3>4. side = "short" => current <= 0
            BY <2>4, <3>1, <3>3 DEF SideOf
        <3>5. Queue(s, side, n)
            BY <1>9, <2>4, <3>1, <3>2, <3>3 DEF TargetRow
        <3>6. /\ Lone(pending)' /\ Lone(todo)'
              /\ \A t \in Symbols \ {s} : Placed(t)' = Placed(t)
            BY <2>1, <2>2, <3>1, <3>4, <3>5, QueuedIsLone
        <3> QED
            BY <2>1, <2>2, <3>6 DEF ShortInv
    <2> QED
        BY <2>3, <2>4
<1>10. CASE CloseOthers
    <2>1. /\ phase = "targets" /\ phase' = "others" /\ UNCHANGED <<positions, pending, todo>>
          /\ rows' = {s \in Symbols : frame[s] = Untargeted /\ Current(s) # 0}
        BY <1>10 DEF CloseOthers, books, orders
    <2> QED
        BY <2>1, ShortAsBefore DEF ShortInv
<1>11. ASSUME NEW s \in Symbols, Liquidate(s) PROVE ShortInv'
    <2>1. /\ phase = "others" /\ s \in rows /\ rows' = rows \ {s} /\ rows \subseteq Symbols
          /\ UNCHANGED <<phase, positions, todo>> /\ Placed(s) = {}
        BY <1>11 DEF Liquidate, books, TypeInv, ShortInv
    <2>2. PICK n \in Nat, side \in {"buy", "sell", "short", "cover"} :
             Queue(s, side, n) /\ side # "short"
        <3>1. AbsOf(Current(s)) \in Nat
            BY <1>a, AbsIsNatural DEF Current
        <3> QED
            BY <1>11, <3>1 DEF Liquidate
    <2>3. /\ Lone(pending)' /\ Lone(todo)'
          /\ \A t \in Symbols \ {s} : Placed(t)' = Placed(t)
        BY <2>1, <2>2, QueuedIsLone
    <2> QED
        BY <2>1, <2>3 DEF ShortInv
<1>12. CASE CloseDay
    <2>1. /\ phase' = "closed" /\ UNCHANGED <<pending, todo>>
          /\ \A s \in Symbols : positions'[s] = IF positions[s].lock <= day
                                                THEN [positions[s] EXCEPT !.lock = 0] ELSE positions[s]
        BY <1>12 DEF CloseDay, orders
    <2>2. \A s \in Symbols : positions[s] \in [held : BOOLEAN, shares : Int, lock : Nat]
        BY DEF TypeInv, Holdings
    <2>3. \A s \in Symbols : positions'[s].shares = positions[s].shares
        BY <2>1, <2>2
    <2> QED
        BY <2>1, <2>3, ShortAsBefore DEF ShortInv
<1>13. CASE OpenDay
    <2>1. phase' = "actions" /\ UNCHANGED <<positions, pending, todo>>
        BY <1>13 DEF OpenDay, books, orders
    <2> QED
        BY <2>1, ShortAsBefore DEF ShortInv
<1>14. CASE UNCHANGED vars
    <2>1. UNCHANGED <<positions, pending, todo, phase, rows, frame>>
        BY <1>14 DEF vars, books, orders, plan
    <2> QED
        BY <2>1, ShortAsBefore DEF ShortInv
<1> QED
    BY <1>1, <1>2, <1>3, <1>4, <1>5, <1>6, <1>7, <1>8, <1>9, <1>10, <1>11, <1>12, <1>13,
       <1>14 DEF Next, Execute

\* Long-only weights make no order to sell short.
LEMMA LongStay ==
    ASSUME LongOnly, TypeInv, LongInv, [Next]_vars
    PROVE  LongInv'
<1> DEFINE NoShort(q) == \A i \in 1..Len(q) : q[i].side # "short"
<1>1. PICK p \in Seq(Orders), q \in Seq(Orders) : p = pending /\ q = todo /\ NoShort(p) /\ NoShort(q)
    BY DEF TypeInv, LongInv
<1>2. \A o \in Orders : o.side # "short" => NoShort(Append(p, o))
    BY <1>1, InQueues
<1>3. q # <<>> => NoShort(Tail(q)) /\ Head(q).side # "short" /\ Head(q) \in Orders
    BY <1>1, InQueues, NextInLine
<1>4. ASSUME todo' \in {q, p} \/ (q # <<>> /\ todo' = Tail(q)),
             \/ pending' \in {p, <<>>}
             \/ \E o \in Orders : o.side # "short" /\ pending' = Append(p, o)
      PROVE  LongInv'
    <2>1. NoShort(<<>>)
        OBVIOUS
    <2>2. NoShort(todo') /\ NoShort(pending')
        BY <1>1, <1>2, <1>3, <1>4, <2>1
    <2> QED
        BY <2>2 DEF LongInv
<1>5. ASSUME NEW s \in Symbols, NEW amount \in Dividends, CashDividend(s, amount)
      PROVE  LongInv'
    <2>1. PICK o \in Orders : o = [ready |-> day, symbol |-> s, side |-> "buy", shares |-> Reinvest]
        BY DEF Orders, TypeInv
    <2>2. pending' \in {p, Append(p, o)} /\ todo' = q /\ o.side # "short"
        BY <1>1, <1>5, <2>1 DEF CashDividend, Acts
    <2> QED
        BY <1>4, <2>2
<1>6. CASE Rejected
    <2>1. q # <<>> /\ todo' = Tail(q) /\ pending' \in {p, Append(p, Head(q))}
        BY <1>1, <1>6 DEF Rejected, NextOrder
    <2> QED
        BY <1>3, <1>4, <2>1
<1>7. CASE BuyOrCover \/ SellOrShort
    <2>1. q # <<>> /\ todo' \in {q, Tail(q)} /\ pending' = p
        BY <1>1, <1>7, BuyDoes, SaleDoes DEF NextOrder
    <2> QED
        BY <1>4, <2>1
<1>8. ASSUME NEW s \in Symbols, TargetRow(s) PROVE LongInv'
    <2>1. phase = "targets" /\ s \in rows /\ frame[s] \in Weights /\ todo' = q
        BY <1>1, <1>8 DEF TargetRow, TypeInv
    <2>2. CASE bars[s] = NoBar \/ Target(s) = Current(s)
        BY <1>1, <1>4, <1>8, <2>1, <2>2 DEF TargetRow
    <2>3. CASE ~(bars[s] = NoBar \/ Target(s) = Current(s))
        <3>1. PICK target \in Int, current \in Int :
                 target = Target(s) /\ current = Current(s) /\ target >= 0 /\ target # current
            <4>1. frame[s] \in Nat
                BY <2>1 DEF LongOnly
            <4> QED
                BY <2>1, <2>3, <4>1, frame[s] >= 0, TargetIs DEF Current, TypeInv, Holdings
        <3>2. PICK n \in Nat : n = AbsOf(target - current)
            BY AbsIsNatural
        <3>3. PICK side \in {"buy", "sell", "cover"} : side = SideOf(current, target)
            BY <3>1 DEF SideOf
        <3>4. PICK o \in Orders : o = [ready |-> day, symbol |-> s, side |-> side, shares |-> n]
            BY DEF Orders, TypeInv
        <3>5. pending' = Append(p, o)
            BY <1>1, <1>8, <2>3, <3>1, <3>2, <3>3, <3>4 DEF TargetRow, Queue
        <3> QED
            BY <1>4, <2>1, <3>4, <3>5
    <2> QED
        BY <2>2, <2>3
<1>9. ASSUME NEW s \in Symbols, Liquidate(s) PROVE LongInv'
    <2>1. PICK n \in Nat : n = AbsOf(Current(s))
        BY AbsIsNatural DEF Current, TypeInv, Holdings
    <2>2. PICK side \in {"sell", "cover"} : side = IF Current(s) > 0 THEN "sell" ELSE "cover"
        OBVIOUS
    <2>3. PICK o \in Orders : o = [ready |-> day, symbol |-> s, side |-> side, shares |-> n]
        BY DEF Orders, TypeInv
    <2>4. pending' = Append(p, o) /\ todo' = q
        BY <1>1, <1>9, <2>1, <2>2, <2>3 DEF Liquidate, Queue
    <2> QED
        BY <1>4, <2>3, <2>4
<1>10. CASE StartOrders
    BY <1>1, <1>4, <1>10 DEF StartOrders
<1>11. CASE UNCHANGED <<pending, todo>>
    BY <1>1, <1>4, <1>11
<1>12. \/ OpenDay \/ StartMarking \/ NoRateAtAll \/ Rebalance \/ CloseOthers \/ CloseDay
       \/ UNCHANGED vars
       \/ \E s \in Symbols : Mark(s) \/ \E ratio \in Ratios : ShareRatio(s, ratio)
       => UNCHANGED <<pending, todo>>
    BY DEF OpenDay, StartMarking, NoRateAtAll, Rebalance, CloseOthers, CloseDay, Mark, ShareRatio,
           Acts, vars, orders
<1> QED
    BY <1>5, <1>6, <1>7, <1>8, <1>9, <1>10, <1>11, <1>12 DEF Next, Execute

\* T+N: shares are not sold within N trading days of the last buy of their symbol, for
\* every calendar, number of settlement days, dividend and split.  Strategies may sell
\* short, and halts and limits put orders back, but not both for a symbol that has a
\* lock and may be sold short: there a buy may overtake an order to sell short, which
\* attempt_fill does not check against the lock.
THEOREM SettlementIsKept ==
    ASSUME LongOnly \/ NoHalts \/ ShortsBarred PROVE Spec => SettlementHolds
<1> DEFINE Inv == /\ TypeInv /\ LockInv
                  /\ LongOnly => LongInv
                  /\ NoHalts => ShortInv
<1>1. Inv /\ [Next]_vars =>
         [\A s \in Symbols :
          /\ phase = "orders" /\ LockDays[MarketOf(s)] > 0
          /\ positions[s].shares > 0 /\ bought[s] # 0
          /\ positions'[s].shares < positions[s].shares
          => Cardinality({x \in DaysOf(s) : bought[s] < x /\ x <= day})
                > LockDays[MarketOf(s)]]_vars
    <2> SUFFICES ASSUME Inv, [Next]_vars, NEW s \in Symbols,
                        phase = "orders", LockDays[MarketOf(s)] > 0,
                        positions[s].shares > 0, bought[s] # 0,
                        positions'[s].shares < positions[s].shares
                 PROVE  Cardinality({x \in DaysOf(s) : bought[s] < x /\ x <= day})
                            > LockDays[MarketOf(s)]
        OBVIOUS
    <2>1. SellOrShort /\ s = Order.symbol
        BY OnlySalesSell
    <2>2. Verdict(Order) = "fill" /\ Order \in Orders /\ Order.side \notin Buying /\ todo # <<>>
        BY <2>1, SaleDoes DEF NextOrder
    <2>3. Order = todo[1] /\ 1 \in 1..Len(todo)
        BY <2>2, InQueues DEF Order, TypeInv
    <2>4. Order.side # "short"
        <3>1. CASE LongOnly
            BY <2>3, <3>1 DEF LongInv
        <3>2. CASE NoHalts
            <4>1. Order.side = "short" => positions[s].shares <= 0
                BY <2>1, <2>3, <3>2 DEF ShortInv, Lone
            <4>2. positions[s].shares \in Int
                BY DEF TypeInv, Holdings
            <4> QED
                BY <4>1, <4>2
        <3>3. CASE ShortsBarred
            <4>1. s \in AShares /\ ~AShareShortAllowed
                BY <3>3 DEF ShortsBarred
            <4> QED
                BY <2>1, <2>2, <4>1 DEF Verdict, Buying
        <3> QED
            BY <3>1, <3>2, <3>3
    <2>5. Order.side = "sell"
        BY <2>2, <2>4, OrderIs DEF Buying
    <2>6. positions[s].held /\ bars[s] # NoBar
        BY <2>1, <2>2, FilledOrder DEF LockInv
    <2>7. positions[s].lock # 0 => day > positions[s].lock
        BY <2>1, <2>2, <2>5, <2>6, FilledOrder
    <2>8. day \in DaysOf(s) /\ day > 0 /\ day \in Int
        BY <2>6, MarketAssumption DEF LockInv, DaysOf, Days
    <2>9. bought[s] \in Nat
        BY DEF TypeInv
    <2>10. day > LockedUntil(s, bought[s])
        BY <2>7, <2>8 DEF LockInv, RunOut
    <2> QED
        BY <2>8, <2>9, <2>10, LocksCountDays
<1>2. Init => LongInv /\ ShortInv
    BY DEF Init, LongInv, ShortInv, Lone
<1>3. Inv /\ [Next]_vars => Inv'
    <2> SUFFICES ASSUME Inv, [Next]_vars PROVE Inv'
        OBVIOUS
    <2>1. TypeInv' /\ LockInv'
        BY TypesStay, LocksStay
    <2>2. LongOnly => LongInv'
        BY LongStay
    <2>3. NoHalts => ShortInv'
        BY ShortsStay
    <2> QED
        BY <2>1, <2>2, <2>3
<1>4. Init => Inv
    BY <1>2, InitialTypes, InitialLocks
<1> QED
    BY <1>1, <1>3, <1>4, PTL DEF Spec, SettlementHolds

-----------------------------------------------------------------------------
\* Holdings.  What is to be sold is there when it is sold.

\* Ratios that leave no fewer shares: stock dividends and splits.
NoReverseSplits == \A r \in Ratios : r[1] >= r[2]

\* No order that takes shares of a symbol away is queued.
NoSale(s) == \A i \in 1..Len(pending) : pending[i].symbol = s => pending[i].side \in Buying

\* An order that takes shares away is the only one of its symbol, and they are there.
Covered(q) ==
    \A i \in 1..Len(q) : q[i].side \notin Buying =>
        /\ q[i].shares <= positions[q[i].symbol].shares
        /\ \A j \in 1..Len(q) : q[j].side \notin Buying /\ q[j].symbol = q[i].symbol => j = i

\* The shares that are to be sold are held until they are: a rebalance begins with an
\* empty queue, and sizes one order for each symbol by what is held then.
HeldInv ==
    /\ \A s \in Symbols : positions[s].shares >= 0
    /\ phase \in {"orders", "marking"} => pending = <<>>
    /\ phase # "orders" => todo = <<>>
    /\ Covered(pending) /\ Covered(todo)
    /\ phase \in {"targets", "others"} => \A s \in rows : NoSale(s)
    /\ phase = "targets" => \A s \in Symbols : frame[s] = Untargeted => NoSale(s)

\* An empty queue.
LEMMA NothingToCover == Covered(<<>>)
BY DEF Covered

\* The rest of a covered queue is covered if only its first symbol was sold.
LEMMA RestIsCovered ==
    ASSUME NEW q \in Seq(Orders), q # <<>>, Covered(q)
    PROVE  \A i \in 1..Len(Tail(q)) : Tail(q)[i].side \notin Buying =>
              /\ Tail(q)[i].shares <= positions[Tail(q)[i].symbol].shares
              /\ Tail(q)[i].symbol \in Symbols
              /\ Head(q).side \notin Buying => Tail(q)[i].symbol # Head(q).symbol
              /\ \A j \in 1..Len(Tail(q)) :
                    Tail(q)[j].side \notin Buying /\ Tail(q)[j].symbol = Tail(q)[i].symbol => j = i
<1>1. PICK n \in Nat : n = Len(Tail(q)) /\ Len(q) = n + 1
    OBVIOUS
<1>2. \A i \in 1..n : Tail(q)[i] = q[i + 1] /\ i + 1 \in 1..Len(q)
    BY <1>1
<1>3. Head(q) = q[1] /\ 1 \in 1..Len(q)
    BY <1>1
<1>4. \A i \in 1..Len(q) : q[i].symbol \in Symbols
    BY OrderIs
<1> SUFFICES ASSUME NEW i \in 1..n, Tail(q)[i].side \notin Buying
             PROVE  /\ Tail(q)[i].shares <= positions[Tail(q)[i].symbol].shares
                    /\ Tail(q)[i].symbol \in Symbols
                    /\ Head(q).side \notin Buying => Tail(q)[i].symbol # Head(q).symbol
                    /\ \A j \in 1..n :
                         Tail(q)[j].side \notin Buying /\ Tail(q)[j].symbol = Tail(q)[i].symbol => j = i
    BY <1>1
<1>5. PICK k \in 1..Len(q) : k = i + 1 /\ Tail(q)[i] = q[k]
    BY <1>2
<1>6. /\ q[k].shares <= positions[q[k].symbol].shares
      /\ \A j \in 1..Len(q) : q[j].side \notin Buying /\ q[j].symbol = q[k].symbol => j = k
    BY <1>5 DEF Covered
<1>7. Head(q).side \notin Buying => q[k].symbol # Head(q).symbol
    BY <1>3, <1>5, <1>6
<1>8. ASSUME NEW j \in 1..n, Tail(q)[j].side \notin Buying, Tail(q)[j].symbol = Tail(q)[i].symbol
      PROVE  j = i
    <2>1. j + 1 \in 1..Len(q) /\ Tail(q)[j] = q[j + 1]
        BY <1>2
    <2>2. j + 1 = k
        BY <1>5, <1>6, <1>8, <2>1
    <2> QED
        BY <1>5, <2>2
<1> QED
    BY <1>4, <1>5, <1>6, <1>7, <1>8

\* A covered queue stays so as long as no position that is to be sold shrinks.
LEMMA StaysCovered ==
    ASSUME NEW q \in Seq(Orders), Covered(q), TypeInv, TypeInv',
           \A s \in Symbols : positions'[s].shares >= positions[s].shares
    PROVE  Covered(q)'
<1>1. \A s \in Symbols : positions[s].shares \in Int /\ positions'[s].shares \in Int
    BY DEF TypeInv, Holdings
<1>2. \A i \in 1..Len(q) : q[i].symbol \in Symbols /\ q[i].shares \in Int
    BY OrderIs
<1>3. ASSUME NEW i \in 1..Len(q), q[i].side \notin Buying
      PROVE  q[i].shares <= positions'[q[i].symbol].shares
    <2>1. q[i].shares <= positions[q[i].symbol].shares
        BY <1>3 DEF Covered
    <2> QED
        BY <1>1, <1>2, <2>1
<1> QED
    BY <1>3 DEF Covered

\* An order that is put at the end of a covered queue.
LEMMA AddedIsCovered ==
    ASSUME NEW q \in Seq(Orders), NEW o \in Orders, Covered(q),
           o.side \notin Buying => /\ o.shares <= positions[o.symbol].shares
                              /\ \A i \in 1..Len(q) : q[i].symbol = o.symbol => q[i].side \in Buying
    PROVE  Covered(Append(q, o))
<1>1. PICK n \in Nat : n = Len(q) /\ Len(Append(q, o)) = n + 1
    OBVIOUS
<1>2. (\A i \in 1..n : Append(q, o)[i] = q[i]) /\ Append(q, o)[n + 1] = o
    BY <1>1
<1>3. 1..(n + 1) = (1..n) \cup {n + 1}
    OBVIOUS
<1> DEFINE p == Append(q, o)
<1>4. ASSUME NEW i \in 1..(n + 1), p[i].side \notin Buying
      PROVE  /\ p[i].shares <= positions[p[i].symbol].shares
             /\ \A j \in 1..(n + 1) : p[j].side \notin Buying /\ p[j].symbol = p[i].symbol => j = i
    <2>1. CASE i = n + 1
        BY <1>1, <1>2, <1>3, <1>4, <2>1
    <2>2. CASE i \in 1..n
        <3>1. /\ q[i].shares <= positions[q[i].symbol].shares
              /\ \A j \in 1..n : q[j].side \notin Buying /\ q[j].symbol = q[i].symbol => j = i
            BY <1>1, <1>2, <1>4, <2>2 DEF Covered
        <3>2. o.side \notin Buying => o.symbol # q[i].symbol
            BY <1>1, <1>2, <1>4, <2>2
        <3> QED
            BY <1>2, <1>3, <2>2, <3>1, <3>2
    <2> QED
        BY <1>3, <2>1, <2>2
<1> QED
    BY <1>1, <1>4 DEF Covered

\* Ratios that add shares leave no position with fewer.
LEMMA TruncatedGrows ==
    ASSUME NoReverseSplits, NEW n \in Nat, NEW ratio \in Ratios
    PROVE  Truncated(n, ratio) >= n
<1>1. PICK up \in Nat, down \in Nat \ {0} : up = ratio[1] /\ down = ratio[2] /\ down <= up
    BY BacktestAssumption DEF NoReverseSplits
<1>2. n * down \in Int /\ n * up \in Int /\ n * down <= n * up
    <2>1. down * n <= up * n /\ down * n = n * down /\ up * n = n * up
        BY <1>1, ProductsGrow
    <2> QED
        BY <2>1
<1>3. (n * down) \div down = n
    <2>1. \A q \in Int : n * down = down * q => q = n
        OBVIOUS
    <2> QED
        BY <1>1
<1>4. (n * up) \div down >= n
    BY <1>2, <1>3, QuotientsGrow
<1> QED
    BY <1>1, <1>4 DEF Truncated

\* The order of a row leads from one position that is not short to another.
LEMMA SalesAreOfTheHeld ==
    ASSUME NEW current \in Nat, NEW target \in Nat, target # current
    PROVE  /\ SideOf(current, target) \in {"buy", "sell"}
           /\ AbsOf(target - current) \in Nat \ {0}
           /\ SideOf(current, target) = "sell" => AbsOf(target - current) <= current
BY DEF SideOf, AbsOf

\* What is queued for a symbol that had no sale yet.
LEMMA QueuedIsCovered ==
    ASSUME TypeInv, TypeInv', HeldInv, positions' = positions,
           NEW s \in Symbols, NoSale(s), NEW side \in {"buy", "sell", "cover"}, NEW n \in Nat,
           side = "sell" => n <= positions[s].shares, Queue(s, side, n)
    PROVE  /\ Covered(pending)'
           /\ \A t \in Symbols \ {s} : NoSale(t) => NoSale(t)'
<1>1. PICK o \in Orders : o = [ready |-> day, symbol |-> s, side |-> side, shares |-> n]
    BY DEF Orders, TypeInv
<1>2. PICK q \in Seq(Orders) : q = pending
    BY DEF TypeInv
<1>3. pending' = Append(q, o)
    BY <1>1, <1>2 DEF Queue
<1>4. Covered(Append(q, o))
    <2>1. Covered(q)
        BY <1>2 DEF HeldInv
    <2>2. \A i \in 1..Len(q) : q[i].symbol = o.symbol => q[i].side \in Buying
        BY <1>1, <1>2 DEF NoSale
    <2> QED
        BY <1>1, <2>1, <2>2, AddedIsCovered DEF Buying
<1>5. Covered(pending)'
    BY <1>3, <1>4 DEF Covered
<1>6. ASSUME NEW t \in Symbols \ {s}, NoSale(t) PROVE NoSale(t)'
    <2>1. PICK k \in Nat : k = Len(q) /\ Len(Append(q, o)) = k + 1
        OBVIOUS
    <2>2. (\A i \in 1..k : Append(q, o)[i] = q[i]) /\ Append(q, o)[k + 1] = o
        BY <2>1
    <2>3. 1..(k + 1) = (1..k) \cup {k + 1}
        OBVIOUS
    <2> QED
        BY <1>1, <1>2, <1>3, <1>6, <2>1, <2>2, <2>3 DEF NoSale
<1> QED
    BY <1>5, <1>6

\* What an action that only leaves more shares, and adds no order, keeps.
LEMMA HeldLater ==
    ASSUME TypeInv, TypeInv', HeldInv,
           \A s \in Symbols : positions'[s].shares >= positions[s].shares
    PROVE  /\ \A s \in Symbols : positions'[s].shares >= 0
           /\ \A q \in Seq(Orders) : q \in {pending, todo} => Covered(q)'
<1>1. \A s \in Symbols : positions[s].shares \in Int /\ positions'[s].shares \in Int
    BY DEF TypeInv, Holdings
<1>2. \A s \in Symbols : positions'[s].shares >= 0
    BY <1>1 DEF HeldInv
<1>3. ASSUME NEW q \in Seq(Orders), q \in {pending, todo} PROVE Covered(q)'
    <2>1. Covered(q)
        BY <1>3 DEF HeldInv
    <2> QED
        BY <2>1, StaysCovered
<1> QED
    BY <1>2, <1>3

\* What holds of the queues once an action has left them as they were.
LEMMA HeldAsBefore ==
    ASSUME TypeInv, TypeInv', HeldInv, UNCHANGED <<pending, todo>>,
           \A s \in Symbols : positions'[s].shares >= positions[s].shares
    PROVE  /\ \A s \in Symbols : positions'[s].shares >= 0
           /\ Covered(pending)' /\ Covered(todo)'
           /\ \A s : NoSale(s)' <=> NoSale(s)
<1>1. PICK p \in Seq(Orders), q \in Seq(Orders) : p = pending /\ q = todo
    BY DEF TypeInv
<1>2. Covered(p)' /\ Covered(q)' /\ \A s \in Symbols : positions'[s].shares >= 0
    BY <1>1, HeldLater
<1>3. Covered(pending)' /\ Covered(todo)'
    BY <1>1, <1>2 DEF Covered
<1> QED
    BY <1>2, <1>3 DEF NoSale

\* No step makes a position shrink below what is to be sold of it.
LEMMA HeldStays ==
    ASSUME LongOnly, NoHalts, NoReverseSplits, TypeInv, TypeInv', HeldInv, [Next]_vars
    PROVE  HeldInv'
<1> DEFINE Grown == \A s \in Symbols : positions'[s].shares >= positions[s].shares
<1>a. positions \in Holdings /\ \A s \in Symbols : positions[s].shares \in Nat
    BY DEF TypeInv, Holdings, HeldInv
<1>b. positions' = positions => Grown
    BY <1>a
<1>c. pending = <<>> => Covered(pending)
    BY NothingToCover
<1>1. CASE OpenDay
    <2>1. phase' = "actions" /\ phase = "closed" /\ UNCHANGED <<positions, pending, todo>>
        BY <1>1 DEF OpenDay, books, orders
    <2> QED
        BY <1>b, <2>1, HeldAsBefore DEF HeldInv
<1>2. CASE StartOrders
    <2>1. /\ phase = "actions" /\ phase' = "orders" /\ todo' = pending /\ pending' = <<>>
          /\ positions' = positions
        BY <1>2 DEF StartOrders, books
    <2>2. Covered(todo)' /\ Covered(pending)'
        BY <2>1 DEF HeldInv, Covered
    <2> QED
        BY <2>1, <2>2 DEF HeldInv
<1>3. ASSUME NEW s \in Symbols, NEW amount \in Dividends, CashDividend(s, amount)
      PROVE  HeldInv'
    <2>1. PICK o \in Orders : o = [ready |-> day, symbol |-> s, side |-> "buy", shares |-> Reinvest]
        BY DEF Orders, TypeInv
    <2>2. pending' \in {pending, Append(pending, o)} /\ phase = "actions" /\ phase' = phase
          /\ UNCHANGED <<positions, todo>>
        BY <1>3, <2>1 DEF CashDividend, Acts
    <2>3. PICK q \in Seq(Orders) : q = pending
        BY DEF TypeInv
    <2>4. Covered(q) /\ Covered(Append(q, o))
        BY <2>1, <2>3, AddedIsCovered DEF HeldInv, Buying
    <2>5. Covered(pending)' /\ Covered(todo)'
        BY <2>2, <2>3, <2>4 DEF HeldInv, Covered
    <2> QED
        BY <2>2, <2>5 DEF HeldInv
<1>4. ASSUME NEW s \in Symbols, NEW ratio \in Ratios, ShareRatio(s, ratio)
      PROVE  HeldInv'
    <2>1. /\ phase = "actions" /\ phase' = phase /\ UNCHANGED <<pending, todo>>
          /\ positions' = [positions EXCEPT ![s].shares = Truncated(@, ratio)]
        BY <1>4 DEF ShareRatio, Acts
    <2>2. Truncated(positions[s].shares, ratio) >= positions[s].shares
        BY <1>a, TruncatedGrows
    <2>3. ASSUME NEW t \in Symbols PROVE positions'[t].shares >= positions[t].shares
        <3>1. CASE t = s
            BY <1>a, <2>1, <2>2, <3>1 DEF Holdings
        <3>2. CASE t # s
            BY <1>a, <2>1, <3>2 DEF Holdings
        <3> QED
            BY <3>1, <3>2
    <2> QED
        BY <2>1, <2>3, HeldAsBefore DEF HeldInv
<1>5. CASE Rejected
    <2>1. Head(todo) \in Orders
        BY <1>5, NextInLine DEF Rejected, NextOrder, TypeInv
    <2>2. /\ phase = "orders" /\ todo # <<>> /\ todo' = Tail(todo)
          /\ UNCHANGED <<phase, positions, pending>>
        BY <1>5, <2>1, NothingIsPutBack DEF Rejected, NextOrder, books
    <2>3. PICK q \in Seq(Orders) : q = todo /\ q # <<>> /\ Covered(q)
        BY <2>2 DEF TypeInv, HeldInv
    <2>4. Covered(Tail(q))
        BY <2>3, RestIsCovered DEF Covered
    <2>5. Covered(todo)'
        BY <2>2, <2>3, <2>4 DEF Covered
    <2>6. Covered(pending)'
        BY <2>2 DEF HeldInv, Covered
    <2> QED
        BY <2>2, <2>5, <2>6 DEF HeldInv
<1>6. CASE BuyOrCover
    <2>1. /\ phase = "orders" /\ todo # <<>> /\ todo' \in {todo, Tail(todo)}
          /\ UNCHANGED <<phase, pending>>
        BY <1>6, BuyDoes DEF NextOrder
    <2>2. Grown
        <3>1. CASE UNCHANGED <<cash, positions, bought>>
            BY <1>b, <3>1
        <3>2. CASE ~UNCHANGED <<cash, positions, bought>>
            <4>1. PICK n \in Nat :
                      positions' = Bought(Ledger, Order.symbol, Order.side, n, Price, day).positions
                BY <1>6, <3>2, BuyDoes
            <4>2. PICK s \in Symbols, price \in Int : s = Order.symbol /\ price = Price
                BY <1>6, BuyDoes
            <4>3. /\ positions'[s].shares = positions[s].shares + n
                  /\ \A t \in Symbols \ {s} : positions'[t] = positions[t]
                BY <4>1, <4>2, BoughtIsPaid
            <4> QED
                BY <1>a, <4>3
        <3> QED
            BY <3>1, <3>2
    <2>3. PICK q \in Seq(Orders) : q = todo /\ q # <<>> /\ Covered(q)
        BY <2>1 DEF TypeInv, HeldInv
    <2>4. PICK r \in Seq(Orders) : r = todo' /\ Covered(r)
        <3>1. Covered(Tail(q)) /\ Tail(q) \in Seq(Orders)
            BY <2>3, RestIsCovered DEF Covered
        <3> QED
            BY <2>1, <2>3, <3>1
    <2>5. Covered(r)'
        BY <2>2, <2>4, StaysCovered
    <2>6. Covered(todo)'
        BY <2>4, <2>5 DEF Covered
    <2>7. pending = <<>> /\ Covered(pending)'
        BY <2>1 DEF HeldInv, Covered
    <2>8. \A s \in Symbols : positions'[s].shares >= 0
        BY <2>2, HeldLater
    <2> QED
        BY <2>1, <2>6, <2>7, <2>8 DEF HeldInv
<1>7. CASE SellOrShort
    <2>1. PICK s \in Symbols, n \in Nat, price \in Int :
             /\ s = Order.symbol /\ n = Order.shares /\ price = Price
        BY <1>7, SaleDoes
    <2>2. /\ positions' = Sold(Ledger, s, Order.side, n, price).positions
          /\ phase = "orders" /\ todo # <<>> /\ todo' = Tail(todo) /\ Order.side \notin Buying
          /\ Order \in Orders /\ UNCHANGED <<phase, pending>>
        BY <1>7, <2>1, SaleDoes DEF NextOrder
    <2>3. /\ positions'[s].shares = positions[s].shares - n
          /\ \A t \in Symbols \ {s} : positions'[t] = positions[t]
        BY <2>2, SoldIs
    <2>4. Order.side \notin Buying
        BY <2>2
    <2>5. PICK q \in Seq(Orders) : q = todo /\ q # <<>> /\ Covered(q)
        BY <2>2 DEF TypeInv, HeldInv
    <2>6. Order = q[1] /\ 1 \in 1..Len(q)
        BY <2>5 DEF Order
    <2>7. n <= positions[s].shares
        BY <2>1, <2>4, <2>5, <2>6 DEF Covered
    <2>8. \A t \in Symbols : positions'[t].shares >= 0
        BY <1>a, <2>3, <2>7
    <2>9. Covered(todo)'
        <3>1. PICK r \in Seq(Orders) : r = Tail(q)
            BY <2>5, NextInLine
        <3>2. \A i \in 1..Len(r) : r[i].side \notin Buying =>
                 /\ r[i].shares <= positions[r[i].symbol].shares
                 /\ r[i].symbol \in Symbols \ {s}
                 /\ \A j \in 1..Len(r) : r[j].side \notin Buying /\ r[j].symbol = r[i].symbol => j = i
            <4>1. Head(q).side \notin Buying /\ Head(q).symbol = s
                BY <2>1, <2>4, <2>5 DEF Order
            <4>2. \A i \in 1..Len(Tail(q)) : Tail(q)[i].side \notin Buying =>
                     /\ Tail(q)[i].shares <= positions[Tail(q)[i].symbol].shares
                     /\ Tail(q)[i].symbol \in Symbols
                     /\ Head(q).side \notin Buying => Tail(q)[i].symbol # Head(q).symbol
                     /\ \A j \in 1..Len(Tail(q)) :
                           Tail(q)[j].side \notin Buying /\ Tail(q)[j].symbol = Tail(q)[i].symbol => j = i
                BY <2>5, RestIsCovered
            <4> QED
                BY <3>1, <4>1, <4>2
        <3>3. \A i \in 1..Len(r) : r[i].side \notin Buying => r[i].shares <= positions'[r[i].symbol].shares
            BY <2>3, <3>2
        <3> QED
            BY <2>2, <2>5, <3>1, <3>2, <3>3 DEF Covered
    <2>10. pending' = <<>> /\ Covered(pending)'
        BY <2>2 DEF HeldInv, Covered
    <2> QED
        BY <2>2, <2>8, <2>9, <2>10 DEF HeldInv
<1>8. CASE StartMarking \/ NoRateAtAll
    <2>1. phase' \in {phase, "marking"} /\ phase = "orders" /\ todo' = <<>>
          /\ UNCHANGED <<positions, pending, todo>>
        BY <1>8 DEF StartMarking, NoRateAtAll, OrdersDone, books, orders
    <2> QED
        BY <1>b, <2>1, HeldAsBefore DEF HeldInv
<1>9. ASSUME NEW s \in Symbols, Mark(s) PROVE HeldInv'
    <2>1. phase = "marking" /\ phase' = phase /\ UNCHANGED <<positions, pending, todo>>
        BY <1>9 DEF Mark, books, orders
    <2> QED
        BY <1>b, <2>1, HeldAsBefore DEF HeldInv
<1>10. CASE Rebalance
    <2>1. /\ phase = "marking" /\ phase' = "targets" /\ pending' = <<>>
          /\ UNCHANGED <<positions, pending, todo>>
        BY <1>10 DEF Rebalance, books, orders, HeldInv
    <2>2. \A s : NoSale(s)'
        BY <2>1 DEF NoSale
    <2> QED
        BY <1>b, <2>1, <2>2, HeldAsBefore DEF HeldInv
<1>11. ASSUME NEW s \in Symbols, TargetRow(s) PROVE HeldInv'
    <2>1. /\ phase = "targets" /\ s \in rows /\ rows' = rows \ {s} /\ frame[s] \in Weights
          /\ UNCHANGED <<phase, positions, todo, frame>>
        BY <1>11 DEF TargetRow, TypeInv, books
    <2>2. NoSale(s) /\ frame[s] # Untargeted /\ rows \subseteq Symbols
        BY <2>1, BacktestAssumption DEF HeldInv, TypeInv
    <2>3. CASE bars[s] = NoBar \/ Target(s) = Current(s)
        <3>1. pending' = pending
            BY <1>11, <2>3 DEF TargetRow
        <3> QED
            BY <1>b, <2>1, <3>1, HeldAsBefore DEF HeldInv
    <2>4. CASE ~(bars[s] = NoBar \/ Target(s) = Current(s))
        <3>1. PICK target \in Nat, current \in Nat : target = Target(s) /\ current = Current(s)
            <4>1. Target(s) \in Int /\ (frame[s] >= 0 => Target(s) >= 0)
                BY <2>1, <2>4, TargetIs
            <4>2. frame[s] \in Nat
                BY <2>1 DEF LongOnly
            <4> QED
                BY <1>a, <4>1, <4>2, frame[s] >= 0 DEF Current
        <3>2. PICK side \in {"buy", "sell"}, n \in Nat :
                 /\ side = SideOf(current, target) /\ n = AbsOf(target - current)
                 /\ side = "sell" => n <= current
            BY <2>4, <3>1, SalesAreOfTheHeld
        <3>3. Queue(s, side, n)
            BY <1>11, <2>4, <3>1, <3>2 DEF TargetRow
        <3>4. /\ Covered(pending)'
              /\ \A t \in Symbols \ {s} : NoSale(t) => NoSale(t)'
            BY <2>1, <2>2, <3>1, <3>2, <3>3, QueuedIsCovered DEF Current
        <3>5. Covered(todo)'
            BY <2>1 DEF HeldInv, Covered
        <3> QED
            BY <2>1, <2>2, <3>4, <3>5 DEF HeldInv
    <2> QED
        BY <2>3, <2>4
<1>12. CASE CloseOthers
    <2>1. /\ phase = "targets" /\ phase' = "others" /\ UNCHANGED <<positions, pending, todo>>
          /\ rows' = {s \in Symbols : frame[s] = Untargeted /\ Current(s) # 0}
        BY <1>12 DEF CloseOthers, books, orders
    <2> QED
        BY <1>b, <2>1, HeldAsBefore DEF HeldInv
<1>13. ASSUME NEW s \in Symbols, Liquidate(s) PROVE HeldInv'
    <2>1. /\ phase = "others" /\ s \in rows /\ rows' = rows \ {s} /\ rows \subseteq Symbols
          /\ UNCHANGED <<phase, positions, todo>>
        BY <1>13 DEF Liquidate, books, TypeInv
    <2>2. NoSale(s)
        BY <2>1 DEF HeldInv
    <2>3. PICK n \in Nat : /\ n = positions[s].shares /\ n = AbsOf(Current(s))
                             /\ n <= positions[s].shares
        BY <1>a DEF Current, AbsOf
    <2>4. PICK side \in {"sell", "cover"} : side = IF Current(s) > 0 THEN "sell" ELSE "cover"
        OBVIOUS
    <2>5. Queue(s, side, n)
        BY <1>13, <2>3, <2>4 DEF Liquidate
    <2>6. /\ Covered(pending)'
          /\ \A t \in Symbols \ {s} : NoSale(t) => NoSale(t)'
        BY <2>1, <2>2, <2>3, <2>4, <2>5, QueuedIsCovered
    <2>7. Covered(todo)'
        BY <2>1 DEF HeldInv, Covered
    <2> QED
        BY <2>1, <2>6, <2>7 DEF HeldInv
<1>14. CASE CloseDay
    <2>1. /\ phase' = "closed" /\ phase # "orders" /\ UNCHANGED <<pending, todo>>
          /\ \A s \in Symbols : positions'[s] = IF positions[s].lock <= day
                                                THEN [positions[s] EXCEPT !.lock = 0] ELSE positions[s]
        BY <1>14 DEF CloseDay, orders
    <2>2. \A s \in Symbols : positions[s] \in [held : BOOLEAN, shares : Int, lock : Nat]
        BY <1>a DEF Holdings
    <2>3. \A s \in Symbols : positions'[s].shares = positions[s].shares
        BY <2>1, <2>2
    <2> QED
        BY <1>a, <2>1, <2>3, HeldAsBefore DEF HeldInv
<1>15. CASE UNCHANGED vars
    <2>1. UNCHANGED <<positions, pending, todo, phase, rows, frame>>
        BY <1>15 DEF vars, books, orders, plan
    <2> QED
        BY <1>b, <2>1, HeldAsBefore DEF HeldInv
<1> QED
    BY <1>1, <1>2, <1>3, <1>4, <1>5, <1>6, <1>7, <1>8, <1>9, <1>10, <1>11, <1>12, <1>13,
       <1>14, <1>15 DEF Next, Execute

\* Nothing is queued in the beginning.
LEMMA InitialHeld == Init => HeldInv
<1> SUFFICES ASSUME Init PROVE HeldInv
    OBVIOUS
<1>1. /\ phase = "closed" /\ pending = <<>> /\ todo = <<>>
      /\ \A s \in Symbols : positions[s] = NoPosition
    BY DEF Init
<1>2. \A s \in Symbols : positions[s].shares = 0
    BY <1>1 DEF NoPosition
<1> QED
    BY <1>1, <1>2 DEF HeldInv, Covered

\* No position is short.
LongStays == \A s \in Symbols : positions[s].shares >= 0

\* A long-only strategy never holds a short position, whatever dividends and splits do
\* to its positions and however many of its buys are reduced.  Where orders are put back
\* a second one for the same shares may be queued, and a reverse split leaves an order
\* for more shares than there are: both end short, which nothing in the code prevents.
THEOREM LongStaysLong ==
    ASSUME LongOnly, NoHalts, NoReverseSplits PROVE Spec => []LongStays
<1>1. Init => TypeInv /\ HeldInv
    BY InitialTypes, InitialHeld
<1>2. (TypeInv /\ HeldInv) /\ [Next]_vars => (TypeInv /\ HeldInv)'
    BY TypesStay, HeldStays
<1>3. TypeInv /\ HeldInv => LongStays
    BY DEF HeldInv, LongStays
<1> QED
    BY <1>1, <1>2, <1>3, PTL DEF Spec

-----------------------------------------------------------------------------
\* Cash.  A buy is sized by the cash of both currencies; that the balance it is taken
\* from has as much is so as long as there is only one.

\* All symbols are traded in one currency.
OneCurrency == \A s, t \in Symbols : CurrencyOf(s) = CurrencyOf(t)

\* Ratios that turn one share into whole shares.
WholeRatios == \A r \in Ratios : r[2] = 1

\* A number of whole lots.
InLots(n) == \E k \in Int : n = k * Lot

\* The numbers of shares a sale may have: whole lots, as long as no ratio leaves part
\* of one.
SaleSizes == IF WholeRatios THEN {n \in Nat \ {0} : InLots(n)} ELSE Nat \ {0}

\* A sale brings at least its own costs.  (A minimum commission takes more than the
\* proceeds of a sale that is small enough.)
SalesPay ==
    \A s \in Symbols, side \in {"sell", "short"}, price \in Prices, n \in SaleSizes :
        LET p == FillPrice(s, side, price) IN CostOf(s, side, n * p) <= n * p

\* Orders to sell that sell something.
Selling(q) == \A i \in 1..Len(q) : q[i].side \notin Buying => q[i].shares # 0

\* No balance is below zero; whoever trades in the base currency has no other; and every
\* order to sell is for some shares.
CashInv ==
    /\ \A c \in Currencies : cash[c] >= 0
    /\ \A s \in Symbols : CurrencyOf(s) = Base => \A c \in Currencies \ {Base} : cash[c] = 0
    /\ failure # "negative cash"
    /\ Selling(pending) /\ Selling(todo)
    /\ phase = "others" => \A s \in rows : Current(s) # 0

\* Orders for whole lots.
Lotted(q) == \A i \in 1..Len(q) : q[i].shares # Reinvest => InLots(q[i].shares)

\* Everything is held and ordered in whole lots.
LotInv ==
    /\ \A s \in Symbols : InLots(positions[s].shares)
    /\ Lotted(pending) /\ Lotted(todo)

\* Sums, differences and multiples of whole lots.
LEMMA LotsAddUp ==
    ASSUME NEW m \in Int, NEW n \in Int, InLots(m), InLots(n)
    PROVE  InLots(m + n) /\ InLots(m - n) /\ InLots(-m) /\ \A u \in Int : InLots(m * u)
<1>1. PICK lot \in Int, j \in Int, k \in Int : lot = Lot /\ m = j * lot /\ n = k * lot
    BY MarketAssumption DEF InLots
<1>2. m + n = (j + k) * lot /\ m - n = (j - k) * lot /\ -m = (-j) * lot
    BY <1>1
<1>3. ASSUME NEW u \in Int PROVE InLots(m * u)
    <2>1. m * u = (j * u) * lot
        BY <1>1
    <2> QED
        BY <1>1, <2>1, j * u \in Int DEF InLots
<1>4. j + k \in Int /\ j - k \in Int /\ -j \in Int
    OBVIOUS
<1> QED
    BY <1>1, <1>2, <1>3, <1>4 DEF InLots

\* A buy that is reduced is reduced to whole lots.
LEMMA LotsAreBought ==
    ASSUME NEW b, NEW s, NEW side, NEW wanted \in Nat, InLots(wanted), NEW price \in Nat \ {0},
           NEW d \in Int, b.cash \in Balances
    PROVE  InLots(SharesToBuy(b, s, side, wanted, price, d))
<1> DEFINE most == (CashInBase(b.cash, d) \div (price * FxToBase(CurrencyOf(s), d))) \div Lot
           lots == {k \in 1..most : Affordable(b, s, side, k * Lot, price, d)}
<1>1. SharesToBuy(b, s, side, wanted, price, d)
         \in {wanted} \cup {IF lots = {} THEN 0 ELSE Lot * Max(lots)}
    BY DEF SharesToBuy
<1>2. InLots(0)
    BY MarketAssumption, 0 * Lot = 0 DEF InLots
<1>3. CASE lots # {}
    <2>1. most \in Int
        <3>1. PICK unit \in Nat \ {0} : unit = price * FxToBase(CurrencyOf(s), d)
            <4>1. PICK r \in Nat \ {0} : r = FxToBase(CurrencyOf(s), d)
                BY RatesArePositive
            <4> QED
                BY <4>1, PositiveProduct
        <3>2. CashInBase(b.cash, d) \div unit \in Int
            BY CashIsANumber, QuotientsGrow
        <3> QED
            BY <3>1, <3>2, MarketAssumption, QuotientsGrow
    <2> HIDE DEF most
    <2>2. lots \in SUBSET Int /\ \A k \in lots : k <= most
        BY <2>1
    <2>3. Max(lots) \in Int
        BY <1>3, <2>1, <2>2, MaxIsOneOfThem
    <2>4. Lot * Max(lots) = Max(lots) * Lot
        BY <2>3, MarketAssumption
    <2>5. InLots(Lot * Max(lots))
        BY <2>3, <2>4 DEF InLots
    <2> QED
        BY <1>1, <1>3, <2>5
<1> QED
    BY <1>1, <1>2, <1>3

\* A target is a number of whole lots.
LEMMA LotsAreAimedAt ==
    ASSUME TypeInv, NEW s \in Symbols, frame[s] \in Weights, bars[s] # NoBar
    PROVE  InLots(Target(s))
<1>1. PICK unit \in Nat \ {0} : unit = WeightUnit * bars[s].close * FxToBase(CurrencyOf(s), day)
    <2>1. PICK rate \in Nat \ {0} : rate = FxToBase(CurrencyOf(s), day)
        BY RatesArePositive DEF TypeInv
    <2>2. PICK price \in Nat \ {0} : price = bars[s].close
        BY BarsHavePrices
    <2>3. WeightUnit * price \in Nat \ {0}
        BY BacktestAssumption, PositiveProduct
    <2>4. WeightUnit * price * rate \in Nat \ {0}
        BY <2>3, PositiveProduct
    <2> QED
        BY <2>1, <2>2, <2>4
<1>2. PICK value \in Int : value = nav.gross * frame[s]
    <2>1. PICK a \in Int, b \in Int : a = nav.gross /\ b = frame[s]
        BY BacktestAssumption DEF TypeInv
    <2> QED
        BY <2>1
<1>3. PICK lots \in Nat : lots = AbsOf(value) \div (unit * Lot)
    BY AbsIsNatural, MarketAssumption, PositiveProduct, NaturalQuotient
<1>4. PICK full \in {lots * Lot, (lots + 1) * Lot} :
          TargetShares(value, frame[s], unit) = IF frame[s] < 0 THEN -full ELSE full
    BY <1>3 DEF TargetShares
<1>5. InLots(full) /\ full \in Int
    <2>1. PICK k \in Int : full = k * Lot
        BY <1>4, lots \in Int, lots + 1 \in Int
    <2>2. k * Lot \in Int
        BY MarketAssumption
    <2> QED
        BY <2>1, <2>2 DEF InLots
<1>6. InLots(-full)
    BY <1>5, LotsAddUp
<1>7. Target(s) = TargetShares(value, frame[s], unit)
    BY <1>1, <1>2 DEF Target
<1> QED
    BY <1>4, <1>5, <1>6, <1>7

\* A debit that the cash of both currencies can pay.
LEMMA DebitLeavesNoDebt ==
    ASSUME NEW c \in Balances, \A k \in Currencies : c[k] >= 0,
           NEW ccy \in Currencies, NEW amount \in Int, NEW d \in Int,
           CashInBase(Debit(c, ccy, amount, d), d) >= 0,
           ccy = Base => \A k \in Currencies \ {Base} : c[k] = 0
    PROVE  /\ \A k \in Currencies : Debit(c, ccy, amount, d)[k] >= 0
           /\ ccy = Base => \A k \in Currencies \ {Base} : Debit(c, ccy, amount, d)[k] = 0
<1>1. PICK other \in Currencies : Currencies = {Base, other} /\ other # Base
    BY MarketAssumption DEF Currencies
<1>2. PICK rate \in Nat \ {0} : rate = FxToBase(other, d)
    BY RatesArePositive
<1>3. PICK left \in Int : left = c[ccy] - amount
    BY DEF Balances
<1>4. \A x \in Balances : CashInBase(x, d) = x[Base] + x[other] * rate
    <2>1. SUFFICES ASSUME NEW x \in Balances PROVE CashInBase(x, d) = x[Base] + x[other] * rate
        OBVIOUS
    <2>2. PICK m \in Int, h \in Int : m = x[Base] /\ h = x[other]
        BY <1>1, <2>1 DEF Balances
    <2>3. FxToBase(Base, d) = 1
        BY RatesArePositive
    <2>4. CashInBase(x, d) = x[Base] * FxToBase(Base, d) + x[other] * FxToBase(other, d)
        <3>1. PICK a \in Int, b \in Int :
                 a = x["CNY"] * FxToBase("CNY", d) /\ b = x["HKD"] * FxToBase("HKD", d)
            <4>1. PICK p \in Int, q \in Int, r \in Int, t \in Int :
                     p = x["CNY"] /\ q = x["HKD"] /\ r = FxToBase("CNY", d) /\ t = FxToBase("HKD", d)
                BY RatesArePositive DEF Balances, Currencies
            <4> QED
                BY <4>1
        <3>2. CashInBase(x, d) = a + b
            BY <3>1 DEF CashInBase
        <3>3. CASE Base = "CNY"
            <4>1. other = "HKD"
                BY <1>1, <3>3 DEF Currencies
            <4> QED
                BY <3>1, <3>2, <3>3, <4>1
        <3>4. CASE Base = "HKD"
            <4>1. other = "CNY"
                BY <1>1, <3>4 DEF Currencies
            <4>2. CashInBase(x, d) = b + a
                BY <3>1, <3>2
            <4> QED
                BY <3>1, <3>4, <4>1, <4>2
        <3> QED
            BY <1>1, <3>3, <3>4 DEF Currencies
    <2> QED
        BY <1>2, <2>2, <2>3, <2>4
<1>5. Debit(c, ccy, amount, d) \in Balances
    BY DebitTakes
<1>6. PICK m \in Int, h \in Int :
          m = Debit(c, ccy, amount, d)[Base] /\ h = Debit(c, ccy, amount, d)[other] /\ m + h * rate >= 0
    BY <1>1, <1>4, <1>5 DEF Balances
<1>a. ASSUME m >= 0, h >= 0, ccy = Base => h = 0
      PROVE  /\ \A k \in Currencies : Debit(c, ccy, amount, d)[k] >= 0
             /\ ccy = Base => \A k \in Currencies \ {Base} : Debit(c, ccy, amount, d)[k] = 0
    <2>1. ASSUME NEW k \in Currencies PROVE k = Base \/ k = other
        BY <1>1
    <2>2. ASSUME NEW k \in Currencies PROVE Debit(c, ccy, amount, d)[k] >= 0
        BY <1>6, <1>a, <2>1
    <2>3. ASSUME ccy = Base, NEW k \in Currencies \ {Base} PROVE Debit(c, ccy, amount, d)[k] = 0
        BY <1>6, <1>a, <2>1, <2>3
    <2> QED
        BY <2>2, <2>3
<1>7. CASE ccy = Base
    <2>1. Debit(c, ccy, amount, d) = [c EXCEPT ![ccy] = left]
        BY <1>3, <1>7 DEF Debit
    <2>2. h = 0
        BY <1>1, <1>6, <1>7, <2>1 DEF Balances
    <2>3. m >= 0
        BY <1>6, <2>2
    <2> QED
        BY <1>a, <2>2, <2>3
<1>8. CASE ccy # Base /\ left < 0
    <2>1. Debit(c, ccy, amount, d)[ccy] = 0 /\ ccy = other
        <3>1. Debit(c, ccy, amount, d)
                 = [c EXCEPT ![ccy] = 0, ![Base] = @ + left * FxToBase(ccy, d)]
            BY <1>3, <1>8 DEF Debit
        <3> QED
            BY <1>1, <1>8, <3>1 DEF Balances
    <2>2. h = 0
        BY <1>6, <2>1
    <2>3. m >= 0
        BY <1>6, <2>2
    <2> QED
        BY <1>8, <1>a, <2>2, <2>3
<1>9. CASE ccy # Base /\ left >= 0
    <2>1. Debit(c, ccy, amount, d) = [c EXCEPT ![ccy] = left]
        BY <1>3, <1>9 DEF Debit
    <2>2. h = left /\ m = c[Base]
        BY <1>1, <1>6, <1>9, <2>1 DEF Balances
    <2> QED
        BY <1>1, <1>9, <1>a, <2>2
<1> QED
    BY <1>3, <1>7, <1>8, <1>9

\* Queues whose sales sell something.
LEMMA SellingOn ==
    ASSUME NEW q \in Seq(Orders), Selling(q)
    PROVE  /\ q # <<>> => Selling(Tail(q)) /\ (Head(q).side \notin Buying => Head(q).shares # 0)
           /\ \A o \in Orders : (o.side \notin Buying => o.shares # 0) => Selling(Append(q, o))
<1>1. ASSUME q # <<>> PROVE Selling(Tail(q)) /\ (Head(q).side \notin Buying => Head(q).shares # 0)
    <2>1. PICK n \in Nat : n = Len(Tail(q)) /\ Len(q) = n + 1
        BY <1>1
    <2>2. \A i \in 1..n : Tail(q)[i] = q[i + 1] /\ i + 1 \in 1..Len(q)
        BY <1>1, <2>1
    <2>3. Head(q) = q[1] /\ 1 \in 1..Len(q)
        BY <1>1, <2>1
    <2> QED
        BY <2>1, <2>2, <2>3 DEF Selling
<1>2. ASSUME NEW o \in Orders, o.side \notin Buying => o.shares # 0 PROVE Selling(Append(q, o))
    <2>1. PICK n \in Nat : n = Len(q) /\ Len(Append(q, o)) = n + 1
        OBVIOUS
    <2>2. (\A i \in 1..n : Append(q, o)[i] = q[i]) /\ Append(q, o)[n + 1] = o
        BY <2>1
    <2>3. 1..(n + 1) = (1..n) \cup {n + 1}
        OBVIOUS
    <2> QED
        BY <1>2, <2>1, <2>2, <2>3 DEF Selling
<1> QED
    BY <1>1, <1>2

\* The shares of a queued order.
LEMMA SellingQueue ==
    ASSUME TypeInv, Selling(pending), NEW s \in Symbols,
           NEW side \in {"buy", "sell", "short", "cover"},
           NEW n \in Nat \ {0}, Queue(s, side, n)
    PROVE  Selling(pending)'
<1>1. PICK o \in Orders : o = [ready |-> day, symbol |-> s, side |-> side, shares |-> n]
    BY DEF Orders, TypeInv
<1>2. PICK q \in Seq(Orders) : q = pending /\ Selling(q)
    BY DEF TypeInv
<1>3. Selling(Append(q, o)) /\ pending' = Append(q, o)
    BY <1>1, <1>2, SellingOn DEF Queue
<1> QED
    BY <1>3 DEF Selling

\* What an action that leaves the balances alone keeps.
LEMMA CashAsBefore ==
    ASSUME CashInv, cash' = cash, failure' # "negative cash",
           Selling(pending)', Selling(todo)',
           phase' = "others" => \A s \in rows' : Current(s)' # 0
    PROVE  CashInv'
BY DEF CashInv

\* What a fill that leaves no balance below zero keeps.
LEMMA CashAfterFill ==
    ASSUME TypeInv, CashInv, todo # <<>>, todo' \in {todo, Tail(todo)}, pending' = pending,
           phase' = "orders", Guarded(cash'),
           \A c \in Currencies : cash'[c] >= 0,
           \A s \in Symbols : CurrencyOf(s) = Base => \A c \in Currencies \ {Base} : cash'[c] = 0,
           cash' \in Balances
    PROVE  CashInv'
<1>1. Selling(todo)' /\ Selling(pending)'
    <2>1. PICK q \in Seq(Orders) : q = todo /\ q # <<>> /\ Selling(q)
        BY DEF TypeInv, CashInv
    <2>2. Selling(todo')
        BY <2>1, SellingOn
    <2> QED
        BY <2>2 DEF CashInv, Selling
<1>2. failure' # "negative cash"
    <2>1. ~\E k \in Currencies : cash'[k] < 0
        BY DEF Balances
    <2> QED
        BY <2>1 DEF Guarded
<1> QED
    BY <1>1, <1>2 DEF CashInv

\* The balances as the invariants have them.
LEMMA CashIs ==
    ASSUME TypeInv, CashInv
    PROVE  /\ cash \in Balances /\ day \in Int
           /\ \A k \in Currencies : cash[k] \in Int /\ cash[k] >= 0
<1>1. cash \in Balances
    BY DEF TypeInv
<1>2. day \in Int
    BY DEF TypeInv
<1>3. \A k \in Currencies : cash[k] \in Int
    BY <1>1 DEF Balances
<1>4. \A k \in Currencies : cash[k] >= 0
    BY DEF CashInv
<1> QED
    BY <1>1, <1>2, <1>3, <1>4

\* A buy the sizing let through is paid for in the one currency there is.
LEMMA BuyLeavesNoDebt ==
    ASSUME OneCurrency, TypeInv, TypeInv', CashInv, BuyOrCover
    PROVE  CashInv'
<1>1. /\ phase = "orders" /\ phase' = "orders" /\ todo # <<>> /\ todo' \in {todo, Tail(todo)}
      /\ pending' = pending /\ Order.symbol \in Symbols
    BY BuyDoes DEF NextOrder
<1>2. CASE UNCHANGED <<cash, positions, bought>>
    <2>1. failure' \in {failure, "division by zero"} \/ Guarded(cash')
        <3> DEFINE o == Head(todo)
                   price == FillPrice(o.symbol, o.side, bars[o.symbol].price)
                   n == SharesToBuy(Ledger, o.symbol, o.side, o.shares, price, day)
        <3>1. \/ FillBuy(o, n, price)
              \/ failure' = "division by zero"
              \/ failure' = failure
            BY DEF BuyOrCover
        <3>2. FillBuy(o, n, price) => Guarded(cash')
            BY DEF FillBuy
        <3> QED
            BY <3>1, <3>2
    <2>2. ~\E k \in Currencies : cash'[k] < 0
        BY <1>2, CashIs
    <2>3. failure' # "negative cash"
        BY <2>1, <2>2 DEF CashInv, Guarded
    <2>4. PICK q \in Seq(Orders) : q = todo /\ q # <<>> /\ Selling(q)
        BY <1>1 DEF TypeInv, CashInv
    <2>5. Selling(todo') /\ Selling(pending)
        BY <1>1, <2>4, SellingOn DEF CashInv
    <2>6. Selling(todo)' /\ Selling(pending)'
        BY <1>1, <2>5 DEF Selling
    <2> QED
        BY <1>1, <1>2, <2>3, <2>6, CashAsBefore
<1>3. CASE ~UNCHANGED <<cash, positions, bought>>
    <2>1. PICK s \in Symbols, price \in Int : s = Order.symbol /\ price = Price
        BY BuyDoes
    <2>2. PICK n \in Nat : /\ Affordable(Ledger, s, Order.side, n, price, day)
                           /\ cash' = Bought(Ledger, s, Order.side, n, price, day).cash
        BY <1>3, <2>1, BuyDoes
    <2>3. PICK amount \in Int : amount = n * price + CostOf(s, Order.side, n * price)
        <3>1. n * price \in Int /\ CostOf(s, Order.side, n * price) \in Int
            BY n * price \in Int, CostsGrow
        <3> QED
            BY <3>1
    <2>4. cash' = Debit(cash, CurrencyOf(s), amount, day)
        BY <2>2, <2>3 DEF Bought, Ledger
    <2>5. CashInBase(cash', day) >= 0
        <3>1. CashInBase(cash', day) = CashInBase(cash, day) - Outlay(s, Order.side, n, price, day)
            BY <2>2, BoughtIsPaid
        <3>2. Outlay(s, Order.side, n, price, day) <= CashInBase(cash, day)
            BY <2>2 DEF Affordable, Ledger
        <3>3. CashInBase(cash, day) \in Int
            BY CashIsANumber DEF TypeInv
        <3>4. Outlay(s, Order.side, n, price, day) \in Int
            <4>1. PICK rate \in Int : rate = FxToBase(CurrencyOf(s), day)
                BY RatesArePositive DEF TypeInv
            <4> QED
                BY <2>3, <4>1 DEF Outlay
        <3> QED
            BY <3>1, <3>2, <3>3, <3>4
    <2>6. /\ \A k \in Currencies : cash'[k] >= 0
          /\ CurrencyOf(s) = Base => \A k \in Currencies \ {Base} : cash'[k] = 0
        <3>1. cash \in Balances /\ day \in Int /\ \A k \in Currencies : cash[k] >= 0
            BY CashIs
        <3>2. CurrencyOf(s) = Base => \A k \in Currencies \ {Base} : cash[k] = 0
            BY DEF CashInv
        <3>3. CurrencyOf(s) \in Currencies
            BY CurrenciesAre
        <3>4. PICK c \in Balances, ccy \in Currencies, d \in Int :
                 /\ c = cash /\ ccy = CurrencyOf(s) /\ d = day
                 /\ \A k \in Currencies : c[k] >= 0
                 /\ ccy = Base => \A k \in Currencies \ {Base} : c[k] = 0
            BY <3>1, <3>2, <3>3
        <3>5. CashInBase(Debit(c, ccy, amount, d), d) >= 0
            BY <2>4, <2>5, <3>4
        <3>6. /\ \A k \in Currencies : Debit(c, ccy, amount, d)[k] >= 0
              /\ ccy = Base => \A k \in Currencies \ {Base} : Debit(c, ccy, amount, d)[k] = 0
            BY <3>4, <3>5, DebitLeavesNoDebt
        <3> QED
            BY <2>4, <3>4, <3>6
    <2>7. \A t \in Symbols : CurrencyOf(t) = Base => \A k \in Currencies \ {Base} : cash'[k] = 0
        BY <2>6 DEF OneCurrency
    <2>8. Guarded(cash')
        <3>1. cash' = cash => ~UNCHANGED <<positions, bought>>
            BY <1>3
        <3> QED
            BY <1>3 DEF BuyOrCover, FillBuy, books
    <2> QED
        BY <1>1, <2>6, <2>7, <2>8, CashAfterFill DEF TypeInv
<1> QED
    BY <1>2, <1>3

\* A sale only adds to the balances.
LEMMA SaleLeavesNoDebt ==
    ASSUME OneCurrency, SalesPay, WholeRatios => LotInv,
           TypeInv, TypeInv', CashInv, SellOrShort
    PROVE  CashInv'
<1>1. /\ phase' = "orders" /\ todo # <<>> /\ todo' = Tail(todo) /\ pending' = pending
    BY SaleDoes DEF NextOrder
<1>2. PICK s \in Symbols, n \in Nat, price \in Int :
         /\ s = Order.symbol /\ n = Order.shares /\ price = Price
    BY SaleDoes
<1>3. Order \in Orders /\ Order.side \in {"sell", "short"} /\ Verdict(Order) = "fill"
    BY SaleDoes, OrderIs DEF Buying
<1>4. n # 0
    <2>1. PICK q \in Seq(Orders) : q = todo /\ q # <<>> /\ Selling(q)
        BY <1>1 DEF TypeInv, CashInv
    <2>2. Head(q).side \notin Buying => Head(q).shares # 0
        BY <2>1, SellingOn
    <2> QED
        BY <1>2, <1>3, <2>1, <2>2 DEF Order, Buying
<1>5. PICK gain \in Nat : gain = Gain(s, Order.side, n, price)
    <2>1. bars[s] # NoBar
        BY <1>2, <1>3, FilledOrder
    <2>2. bars[s].price \in Prices
        BY <2>1 DEF TypeInv, Bars
    <2>3. price = FillPrice(s, Order.side, bars[s].price)
        BY <1>2 DEF Price
    <2>4. CostOf(s, Order.side, n * price) <= n * price
        <3>1. n \in SaleSizes
            <4>1. CASE WholeRatios
                <5>1. PICK q \in Seq(Orders) : q = todo /\ q # <<>> /\ Lotted(q)
                    BY <1>1, <4>1 DEF TypeInv, LotInv
                <5>2. n # Reinvest => InLots(n)
                    BY <1>2, <5>1 DEF Lotted, Order
                <5>3. n # Reinvest
                    BY DEF Reinvest
                <5> QED
                    BY <1>4, <4>1, <5>2, <5>3 DEF SaleSizes
            <4>2. CASE ~WholeRatios
                BY <1>4, <4>2 DEF SaleSizes
            <4> QED
                BY <4>1, <4>2
        <3> QED
            BY <1>2, <1>3, <2>2, <2>3, <3>1 DEF SalesPay
    <2>5. n * price \in Int /\ CostOf(s, Order.side, n * price) \in Int
        BY n * price \in Int, CostsGrow
    <2> QED
        BY <2>4, <2>5 DEF Gain
<1>6. cash' = Changed(cash, CurrencyOf(s), gain)
    <2>1. cash' = Sold(Ledger, s, Order.side, n, price).cash
        BY <1>2, SaleDoes
    <2> QED
        BY <1>5, <2>1, SoldIs
<1>7. \A k \in Currencies : cash'[k] >= 0
    <2>1. ASSUME NEW k \in Currencies PROVE cash'[k] >= 0
        <3>1. cash'[k] \in {cash[k], cash[k] + gain}
            BY <1>6, CashIs, CurrenciesAre DEF Changed, Balances
        <3> QED
            BY <3>1, CashIs
    <2> QED
        BY <2>1
<1>8. \A t \in Symbols : CurrencyOf(t) = Base => \A k \in Currencies \ {Base} : cash'[k] = 0
    <2>1. SUFFICES ASSUME NEW t \in Symbols, CurrencyOf(t) = Base, NEW k \in Currencies \ {Base}
                   PROVE  cash'[k] = 0
        OBVIOUS
    <2>2. cash[k] = 0 /\ cash \in Balances
        BY <2>1 DEF CashInv, TypeInv
    <2>3. CurrencyOf(s) = Base
        BY <2>1 DEF OneCurrency
    <2>4. Changed(cash, CurrencyOf(s), gain)[k] = cash[k]
        BY <2>1, <2>2, <2>3 DEF Changed, Balances
    <2> QED
        BY <1>6, <2>2, <2>4
<1>9. Guarded(cash')
    BY DEF SellOrShort
<1> QED
    BY <1>1, <1>7, <1>8, <1>9, CashAfterFill DEF TypeInv

\* The balances of the beginning.
LEMMA InitialCashInv == Init => CashInv
<1> SUFFICES ASSUME Init PROVE CashInv
    OBVIOUS
<1>1. cash = [c \in Currencies |-> IF c = Base THEN InitialCash ELSE 0] /\ InitialCash \in Nat
    BY BacktestAssumption DEF Init
<1>2. (\A c \in Currencies : cash[c] >= 0) /\ \A c \in Currencies \ {Base} : cash[c] = 0
    BY <1>1
<1>3. Selling(pending) /\ Selling(todo) /\ phase = "closed" /\ failure = "none"
    BY DEF Init, Selling
<1> QED
    BY <1>2, <1>3 DEF CashInv

\* No step makes a debt.
LEMMA CashStays ==
    ASSUME OneCurrency, SalesPay, WholeRatios => LotInv,
           TypeInv, TypeInv', CashInv, [Next]_vars,
           Dividends \subseteq {0} \/ \A s \in Symbols : positions[s].shares >= 0
    PROVE  CashInv'
<1>a. /\ pending' = pending => Selling(pending)'
      /\ todo' = todo => Selling(todo)'
    BY DEF CashInv, Selling
<1>b. positions \in Holdings /\ \A s \in Symbols : positions[s].shares \in Int
    BY DEF TypeInv, Holdings
<1>1. CASE OpenDay
    <2>1. phase' = "actions" /\ UNCHANGED <<cash, pending, todo, failure>>
        BY <1>1 DEF OpenDay, books, orders
    <2> QED
        BY <1>a, <2>1, CashAsBefore DEF CashInv
<1>2. CASE StartOrders
    <2>1. phase' = "orders" /\ todo' = pending /\ pending' = <<>> /\ UNCHANGED <<cash, failure>>
        BY <1>2 DEF StartOrders, books
    <2>2. Selling(pending) /\ Selling(<<>>)
        <3>1. Selling(<<>>)
            BY DEF Selling
        <3> QED
            BY <3>1 DEF CashInv
    <2>3. Selling(todo)' /\ Selling(pending)'
        BY <2>1, <2>2 DEF Selling
    <2>4. failure' # "negative cash" /\ phase' # "others" /\ cash' = cash
        BY <2>1 DEF CashInv
    <2> QED
        BY <2>3, <2>4, CashAsBefore
<1>3. ASSUME NEW s \in Symbols, NEW amount \in Dividends, CashDividend(s, amount)
      PROVE  CashInv'
    <2>1. PICK o \in Orders : o = [ready |-> day, symbol |-> s, side |-> "buy", shares |-> Reinvest]
        BY DEF Orders, TypeInv
    <2>2. PICK paid \in Int : paid = amount * positions[s].shares
        BY <1>b, BacktestAssumption, amount \in Int
    <2>3. /\ pending' \in {pending, Append(pending, o)} /\ phase = "actions" /\ phase' = phase
          /\ UNCHANGED <<todo, failure>>
          /\ cash' = [cash EXCEPT ![CurrencyOf(s)] = @ + paid]
        BY <1>3, <2>1, <2>2 DEF CashDividend, Acts
    <2>4. paid >= 0
        <3>1. CASE Dividends \subseteq {0}
            <4>1. amount = 0
                BY <3>1
            <4> QED
                BY <1>b, <2>2, <4>1
        <3>2. CASE \A t \in Symbols : positions[t].shares >= 0
            <4>1. PICK n \in Nat : n = positions[s].shares
                BY <1>b, <3>2
            <4>2. amount \in Nat
                BY BacktestAssumption
            <4> QED
                BY <2>2, <4>1, <4>2
        <3> QED
            BY <3>1, <3>2
    <2>5. \A k \in Currencies : cash'[k] >= 0
        <3>1. ASSUME NEW k \in Currencies PROVE cash'[k] >= 0
            <4>1. cash'[k] \in {cash[k], cash[k] + paid}
                BY <2>3, CashIs, CurrenciesAre DEF Balances
            <4> QED
                BY <2>4, <4>1, CashIs
        <3> QED
            BY <3>1
    <2>6. \A t \in Symbols : CurrencyOf(t) = Base => \A k \in Currencies \ {Base} : cash'[k] = 0
        <3>1. SUFFICES ASSUME NEW t \in Symbols, CurrencyOf(t) = Base,
                              NEW k \in Currencies \ {Base}
                       PROVE  cash'[k] = 0
            OBVIOUS
        <3>2. cash[k] = 0
            BY <3>1 DEF CashInv
        <3>3. CurrencyOf(s) = Base
            BY <3>1 DEF OneCurrency
        <3>4. cash'[k] = cash[k]
            BY <2>3, <3>1, <3>3, CashIs DEF Balances
        <3> QED
            BY <3>2, <3>4
    <2>7. PICK q \in Seq(Orders) : q = pending /\ Selling(q)
        BY DEF TypeInv, CashInv
    <2>8. Selling(q) /\ Selling(Append(q, o))
        BY <2>1, <2>7, SellingOn DEF Buying
    <2>9. Selling(pending)' /\ Selling(todo)'
        BY <1>a, <2>3, <2>7, <2>8 DEF Selling
    <2> QED
        BY <2>3, <2>5, <2>6, <2>9 DEF CashInv
<1>4. ASSUME NEW s \in Symbols, NEW ratio \in Ratios, ShareRatio(s, ratio)
      PROVE  CashInv'
    <2>1. phase = "actions" /\ phase' = phase /\ UNCHANGED <<cash, pending, todo, failure>>
        BY <1>4 DEF ShareRatio, Acts
    <2> QED
        BY <1>a, <2>1, CashAsBefore DEF CashInv
<1>5. CASE Rejected
    <2>1. /\ phase = "orders" /\ todo # <<>> /\ todo' = Tail(todo)
          /\ UNCHANGED <<phase, cash, failure>>
          /\ pending' \in {pending, Append(pending, Head(todo))}
        BY <1>5 DEF Rejected, NextOrder, books
    <2>2. PICK q \in Seq(Orders) : q = todo /\ q # <<>> /\ Selling(q)
        BY <2>1 DEF TypeInv, CashInv
    <2>3. PICK p \in Seq(Orders) : p = pending /\ Selling(p)
        BY DEF TypeInv, CashInv
    <2>4. Selling(Tail(q)) /\ (Head(q).side \notin Buying => Head(q).shares # 0)
        BY <2>2, SellingOn
    <2>5. Head(q) \in Orders
        BY <2>2, NextInLine
    <2>6. Selling(Append(p, Head(q)))
        BY <2>3, <2>4, <2>5, SellingOn
    <2>7. Selling(pending)' /\ Selling(todo)'
        BY <2>1, <2>2, <2>3, <2>4, <2>6 DEF Selling
    <2> QED
        BY <2>1, <2>7, CashAsBefore DEF CashInv
<1>6. CASE BuyOrCover
    BY <1>6, BuyLeavesNoDebt
<1>7. CASE SellOrShort
    BY <1>7, SaleLeavesNoDebt
<1>8. CASE StartMarking \/ NoRateAtAll
    <2>1. /\ phase' \in {phase, "marking"} /\ phase = "orders"
          /\ UNCHANGED <<cash, pending, todo>> /\ failure' \in {failure, "no rate"}
        BY <1>8 DEF StartMarking, NoRateAtAll, OrdersDone, books, orders
    <2> QED
        BY <1>a, <2>1, CashAsBefore DEF CashInv
<1>9. ASSUME NEW s \in Symbols, Mark(s) PROVE CashInv'
    <2>1. phase = "marking" /\ phase' = phase /\ UNCHANGED <<cash, pending, todo, failure>>
        BY <1>9 DEF Mark, books, orders
    <2> QED
        BY <1>a, <2>1, CashAsBefore DEF CashInv
<1>10. CASE Rebalance
    <2>1. phase' = "targets" /\ UNCHANGED <<cash, pending, todo, failure>>
        BY <1>10 DEF Rebalance, books, orders
    <2> QED
        BY <1>a, <2>1, CashAsBefore DEF CashInv
<1>11. ASSUME NEW s \in Symbols, TargetRow(s) PROVE CashInv'
    <2>1. /\ phase = "targets" /\ s \in rows /\ frame[s] \in Weights
          /\ UNCHANGED <<phase, cash, todo, failure>>
        BY <1>11 DEF TargetRow, TypeInv, books
    <2>2. Selling(pending)'
        <3>1. CASE bars[s] = NoBar \/ Target(s) = Current(s)
            <4>1. pending' = pending
                BY <1>11, <3>1 DEF TargetRow
            <4> QED
                BY <1>a, <4>1
        <3>2. CASE ~(bars[s] = NoBar \/ Target(s) = Current(s))
            <4>1. PICK target \in Int, current \in Int :
                     target = Target(s) /\ current = Current(s) /\ target # current
                BY <1>b, <2>1, <3>2, TargetIs DEF Current
            <4>2. PICK n \in Nat \ {0} : n = AbsOf(target - current)
                BY <4>1 DEF AbsOf
            <4>3. PICK side \in {"buy", "sell", "short", "cover"} : side = SideOf(current, target)
                BY DEF SideOf
            <4>4. Queue(s, side, n)
                BY <1>11, <3>2, <4>1, <4>2, <4>3 DEF TargetRow
            <4>5. Selling(pending)
                BY DEF CashInv
            <4> QED
                BY <4>4, <4>5, SellingQueue
        <3> QED
            BY <3>1, <3>2
    <2> QED
        BY <1>a, <2>1, <2>2, CashAsBefore DEF CashInv
<1>12. CASE CloseOthers
    <2>1. /\ phase' = "others" /\ UNCHANGED <<cash, positions, pending, todo, failure>>
          /\ rows' = {s \in Symbols : frame[s] = Untargeted /\ Current(s) # 0}
        BY <1>12 DEF CloseOthers, books, orders
    <2>2. \A s \in rows' : Current(s)' # 0
        BY <2>1 DEF Current
    <2> QED
        BY <1>a, <2>1, <2>2, CashAsBefore DEF CashInv
<1>13. ASSUME NEW s \in Symbols, Liquidate(s) PROVE CashInv'
    <2>1. /\ phase = "others" /\ s \in rows /\ rows' = rows \ {s}
          /\ UNCHANGED <<phase, cash, positions, todo, failure>>
        BY <1>13 DEF Liquidate, books
    <2>2. PICK current \in Int : current = Current(s) /\ current # 0
        BY <1>b, <2>1 DEF CashInv, Current
    <2>3. PICK n \in Nat \ {0} : n = AbsOf(current)
        BY <2>2 DEF AbsOf
    <2>4. PICK side \in {"buy", "sell", "short", "cover"} :
             side = IF Current(s) > 0 THEN "sell" ELSE "cover"
        OBVIOUS
    <2>5. Queue(s, side, n)
        BY <1>13, <2>2, <2>3, <2>4 DEF Liquidate
    <2>6. Selling(pending)
        BY DEF CashInv
    <2>7. Selling(pending)'
        BY <2>3, <2>4, <2>5, <2>6, SellingQueue
    <2>8. \A t \in rows' : Current(t)' # 0
        BY <2>1 DEF CashInv, Current
    <2> QED
        BY <1>a, <2>1, <2>7, <2>8, CashAsBefore DEF CashInv
<1>14. CASE CloseDay
    <2>1. phase' = "closed" /\ UNCHANGED <<cash, pending, todo, failure>>
        BY <1>14 DEF CloseDay, orders
    <2> QED
        BY <1>a, <2>1, CashAsBefore DEF CashInv
<1>15. CASE UNCHANGED vars
    <2>1. UNCHANGED <<cash, positions, pending, todo, phase, rows, failure>>
        BY <1>15 DEF vars, books, orders, plan
    <2> QED
        BY <1>a, <2>1, CashAsBefore DEF CashInv, Current
<1> QED
    BY <1>1, <1>2, <1>3, <1>4, <1>5, <1>6, <1>7, <1>8, <1>9, <1>10, <1>11, <1>12, <1>13,
       <1>14, <1>15 DEF Next, Execute

\* Queues of whole lots.
LEMMA LottedOn ==
    ASSUME NEW q \in Seq(Orders), Lotted(q)
    PROVE  /\ q # <<>> => Lotted(Tail(q)) /\ (Head(q).shares # Reinvest => InLots(Head(q).shares))
           /\ \A o \in Orders : (o.shares # Reinvest => InLots(o.shares)) => Lotted(Append(q, o))
<1>1. ASSUME q # <<>> PROVE Lotted(Tail(q)) /\ (Head(q).shares # Reinvest => InLots(Head(q).shares))
    <2>1. PICK n \in Nat : n = Len(Tail(q)) /\ Len(q) = n + 1
        BY <1>1
    <2>2. \A i \in 1..n : Tail(q)[i] = q[i + 1] /\ i + 1 \in 1..Len(q)
        BY <1>1, <2>1
    <2>3. Head(q) = q[1] /\ 1 \in 1..Len(q)
        BY <1>1, <2>1
    <2> QED
        BY <2>1, <2>2, <2>3 DEF Lotted
<1>2. ASSUME NEW o \in Orders, o.shares # Reinvest => InLots(o.shares) PROVE Lotted(Append(q, o))
    <2>1. PICK n \in Nat : n = Len(q) /\ Len(Append(q, o)) = n + 1
        OBVIOUS
    <2>2. (\A i \in 1..n : Append(q, o)[i] = q[i]) /\ Append(q, o)[n + 1] = o
        BY <2>1
    <2>3. 1..(n + 1) = (1..n) \cup {n + 1}
        OBVIOUS
    <2> QED
        BY <1>2, <2>1, <2>2, <2>3 DEF Lotted
<1> QED
    BY <1>1, <1>2

\* What an action keeps that puts nothing but whole lots anywhere.
LEMMA LotsAsBefore ==
    ASSUME TypeInv, LotInv, todo' = todo \/ (todo # <<>> /\ todo' = Tail(todo)),
           \/ pending' = pending
           \/ \E o \in Orders : /\ o.shares # Reinvest => InLots(o.shares)
                              /\ pending' = Append(pending, o),
           \A s \in Symbols : InLots(positions'[s].shares)
    PROVE  LotInv'
<1>1. PICK p \in Seq(Orders), q \in Seq(Orders) : p = pending /\ q = todo /\ Lotted(p) /\ Lotted(q)
    BY DEF TypeInv, LotInv
<1>2. Lotted(todo')
    BY <1>1, LottedOn
<1>3. Lotted(pending')
    BY <1>1, LottedOn
<1> QED
    BY <1>2, <1>3 DEF LotInv, Lotted

\* Where no ratio leaves part of a lot, nothing else does.
LEMMA LotsStay ==
    ASSUME WholeRatios, TypeInv, TypeInv', LotInv, [Next]_vars
    PROVE  LotInv'
<1>a. \A s \in Symbols : positions[s].shares \in Int /\ InLots(positions[s].shares)
    BY DEF TypeInv, Holdings, LotInv
<1>b. positions' = positions => \A s \in Symbols : InLots(positions'[s].shares)
    BY <1>a
<1>1. CASE StartOrders
    <2>1. todo' = pending /\ pending' = <<>> /\ positions' = positions
        BY <1>1 DEF StartOrders, books
    <2>2. Lotted(pending) /\ Lotted(<<>>)
        BY DEF LotInv, Lotted
    <2> QED
        BY <1>b, <2>1, <2>2 DEF LotInv, Lotted
<1>2. ASSUME NEW s \in Symbols, NEW amount \in Dividends, CashDividend(s, amount)
      PROVE  LotInv'
    <2>1. PICK o \in Orders : o = [ready |-> day, symbol |-> s, side |-> "buy", shares |-> Reinvest]
        BY DEF Orders, TypeInv
    <2>2. pending' \in {pending, Append(pending, o)} /\ UNCHANGED <<todo, positions>>
        BY <1>2, <2>1 DEF CashDividend, Acts
    <2> QED
        BY <1>b, <2>1, <2>2, LotsAsBefore
<1>3. ASSUME NEW s \in Symbols, NEW ratio \in Ratios, ShareRatio(s, ratio)
      PROVE  LotInv'
    <2>1. /\ UNCHANGED <<pending, todo>>
          /\ positions' = [positions EXCEPT ![s].shares = Truncated(@, ratio)]
        BY <1>3 DEF ShareRatio, Acts
    <2>2. PICK n \in Int, up \in Int : n = positions[s].shares /\ InLots(n) /\ up = ratio[1]
        BY <1>a, BacktestAssumption
    <2>3. InLots(Truncated(n, ratio))
        <3>1. ratio[2] = 1
            BY DEF WholeRatios
        <3>2. \A m \in Int : m \div 1 = m
            OBVIOUS
        <3>3. Truncated(n, ratio) \in {n * up, -((-n) * up)}
            <4>1. (n * up) \div 1 = n * up /\ ((-n) * up) \div 1 = (-n) * up
                BY <3>2
            <4> QED
                BY <2>2, <3>1, <4>1 DEF Truncated
        <3>4. -((-n) * up) = n * up
            OBVIOUS
        <3> QED
            BY <2>2, <3>3, <3>4, LotsAddUp
    <2>4. ASSUME NEW t \in Symbols PROVE InLots(positions'[t].shares)
        <3>1. CASE t = s
            BY <2>1, <2>2, <2>3, <3>1 DEF TypeInv, Holdings
        <3>2. CASE t # s
            BY <1>a, <2>1, <3>2 DEF TypeInv, Holdings
        <3> QED
            BY <3>1, <3>2
    <2> QED
        BY <2>1, <2>4, LotsAsBefore
<1>4. CASE Rejected
    <2>1. /\ todo # <<>> /\ todo' = Tail(todo) /\ positions' = positions
          /\ pending' \in {pending, Append(pending, Head(todo))}
        BY <1>4 DEF Rejected, NextOrder, books
    <2>2. PICK q \in Seq(Orders) : q = todo /\ q # <<>> /\ Lotted(q)
        BY <2>1 DEF TypeInv, LotInv
    <2>3. Head(q) \in Orders /\ (Head(q).shares # Reinvest => InLots(Head(q).shares))
        BY <2>2, NextInLine, LottedOn
    <2> QED
        BY <1>b, <2>1, <2>2, <2>3, LotsAsBefore
<1>o. ASSUME todo # <<>>, Order.shares \in Nat PROVE InLots(Order.shares)
    <2>1. PICK q \in Seq(Orders) : q = todo /\ q # <<>> /\ Lotted(q)
        BY <1>o DEF TypeInv, LotInv
    <2>2. Head(q).shares # Reinvest => InLots(Head(q).shares)
        BY <2>1, LottedOn
    <2> QED
        BY <1>o, <2>1, <2>2 DEF Order, Reinvest
<1>5. CASE BuyOrCover
    <2>1. /\ todo # <<>> /\ todo' \in {todo, Tail(todo)} /\ pending' = pending
          /\ Order.shares \in Nat /\ Price \in Nat \ {0}
        BY <1>5, BuyDoes DEF NextOrder
    <2>2. PICK s \in Symbols : s = Order.symbol
        BY <1>5, BuyDoes
    <2>3. PICK n : n = SharesToBuy(Ledger, s, Order.side, Order.shares, Price, day)
        OBVIOUS
    <2>4. InLots(n) /\ n \in Int
        <3>1. Ledger.cash \in Balances /\ day \in Int
            BY DEF Ledger, TypeInv
        <3>2. InLots(Order.shares)
            BY <1>o, <2>1
        <3> QED
            BY <2>1, <2>3, <3>1, <3>2, LotsAreBought, BuysAreAffordable
    <2>5. \/ positions' = positions
          \/ positions' = Bought(Ledger, s, Order.side, n, Price, day).positions
        BY <1>5, <2>2, <2>3 DEF BuyOrCover, FillBuy, Order, Price, books
    <2>6. ASSUME positions' = Bought(Ledger, s, Order.side, n, Price, day).positions, NEW t \in Symbols
          PROVE  InLots(positions'[t].shares)
        <3>1. /\ positions'[s].shares = positions[s].shares + n
              /\ \A u \in Symbols \ {s} : positions'[u] = positions[u]
            BY <2>1, <2>4, <2>6, BoughtIsPaid
        <3>2. InLots(positions[s].shares + n)
            BY <1>a, <2>4, LotsAddUp
        <3> QED
            BY <1>a, <3>1, <3>2
    <2> QED
        BY <1>b, <2>1, <2>5, <2>6, LotsAsBefore
<1>6. CASE SellOrShort
    <2>1. /\ todo # <<>> /\ todo' = Tail(todo) /\ pending' = pending /\ Order.shares \in Nat
        BY <1>6, SaleDoes DEF NextOrder
    <2>2. PICK s \in Symbols, n \in Nat, price \in Int :
             /\ s = Order.symbol /\ n = Order.shares /\ price = Price
        BY <1>6, SaleDoes
    <2>3. positions' = Sold(Ledger, s, Order.side, n, price).positions
        BY <1>6, <2>2, SaleDoes
    <2>4. /\ positions'[s].shares = positions[s].shares - n
          /\ \A t \in Symbols \ {s} : positions'[t] = positions[t]
        BY <2>3, SoldIs
    <2>5. InLots(positions[s].shares - n)
        BY <1>a, <1>o, <2>1, <2>2, LotsAddUp
    <2>6. ASSUME NEW t \in Symbols PROVE InLots(positions'[t].shares)
        BY <1>a, <2>4, <2>5
    <2> QED
        BY <2>1, <2>6, LotsAsBefore
<1>7. ASSUME NEW s \in Symbols, TargetRow(s) PROVE LotInv'
    <2>1. s \in rows /\ frame[s] \in Weights /\ UNCHANGED <<positions, todo>>
        BY <1>7 DEF TargetRow, TypeInv, books
    <2>2. CASE bars[s] = NoBar \/ Target(s) = Current(s)
        <3>1. pending' = pending
            BY <1>7, <2>2 DEF TargetRow
        <3> QED
            BY <1>b, <2>1, <3>1, LotsAsBefore
    <2>3. CASE ~(bars[s] = NoBar \/ Target(s) = Current(s))
        <3>1. PICK target \in Int, current \in Int :
                 target = Target(s) /\ current = Current(s) /\ InLots(target) /\ InLots(current)
            BY <1>a, <2>1, <2>3, TargetIs, LotsAreAimedAt DEF Current
        <3>2. PICK n \in Nat : n = AbsOf(target - current) /\ InLots(n)
            <4>1. InLots(target - current)
                BY <3>1, LotsAddUp
            <4>2. InLots(-(target - current))
                BY <4>1, target - current \in Int, LotsAddUp
            <4> QED
                BY <4>1, <4>2 DEF AbsOf
        <3>3. PICK side \in {"buy", "sell", "short", "cover"} : side = SideOf(current, target)
            BY DEF SideOf
        <3>4. PICK o \in Orders : o = [ready |-> day, symbol |-> s, side |-> side, shares |-> n]
            BY DEF Orders, TypeInv
        <3>5. pending' = Append(pending, o)
            BY <1>7, <2>3, <3>1, <3>2, <3>3, <3>4 DEF TargetRow, Queue
        <3> QED
            BY <1>b, <2>1, <3>2, <3>4, <3>5, LotsAsBefore
    <2> QED
        BY <2>2, <2>3
<1>8. ASSUME NEW s \in Symbols, Liquidate(s) PROVE LotInv'
    <2>1. UNCHANGED <<positions, todo>>
        BY <1>8 DEF Liquidate, books
    <2>2. PICK current \in Int : current = Current(s) /\ InLots(current)
        BY <1>a DEF Current
    <2>3. PICK n \in Nat : n = AbsOf(current) /\ InLots(n)
        <3>1. InLots(-current)
            BY <2>2, LotsAddUp
        <3> QED
            BY <2>2, <3>1 DEF AbsOf
    <2>4. PICK side \in {"sell", "cover"} : side = IF Current(s) > 0 THEN "sell" ELSE "cover"
        OBVIOUS
    <2>5. PICK o \in Orders : o = [ready |-> day, symbol |-> s, side |-> side, shares |-> n]
        BY DEF Orders, TypeInv
    <2>6. pending' = Append(pending, o)
        BY <1>8, <2>2, <2>3, <2>4, <2>5 DEF Liquidate, Queue
    <2> QED
        BY <1>b, <2>1, <2>3, <2>5, <2>6, LotsAsBefore
<1>9. CASE CloseDay
    <2>1. /\ UNCHANGED <<pending, todo>>
          /\ \A s \in Symbols : positions'[s] = IF positions[s].lock <= day
                                                THEN [positions[s] EXCEPT !.lock = 0] ELSE positions[s]
        BY <1>9 DEF CloseDay, orders
    <2>2. \A s \in Symbols : positions[s] \in [held : BOOLEAN, shares : Int, lock : Nat]
        BY DEF TypeInv, Holdings
    <2>3. \A s \in Symbols : positions'[s].shares = positions[s].shares
        BY <2>1, <2>2
    <2> QED
        BY <1>a, <2>1, <2>3, LotsAsBefore
<1>10. CASE UNCHANGED <<positions, pending, todo>>
    BY <1>b, <1>10, LotsAsBefore
<1>11. \/ OpenDay \/ StartMarking \/ NoRateAtAll \/ Rebalance \/ CloseOthers \/ UNCHANGED vars
       \/ \E s \in Symbols : Mark(s)
       => UNCHANGED <<positions, pending, todo>>
    BY DEF OpenDay, StartMarking, NoRateAtAll, Rebalance, CloseOthers, Mark, vars, books, orders
<1> QED
    BY <1>1, <1>2, <1>3, <1>4, <1>5, <1>6, <1>7, <1>8, <1>9, <1>10, <1>11 DEF Next, Execute

\* Nothing is held in the beginning.
LEMMA InitialLots == Init => LotInv
<1>1. InLots(0)
    BY MarketAssumption, 0 * Lot = 0 DEF InLots
<1> QED
    BY <1>1 DEF Init, LotInv, Lotted, NoPosition

\* No balance goes below zero: for a portfolio in one currency whose sales bring their
\* costs, however prices, rates, halts, limits, lots and weights fall, the guard after
\* each fill never aborts a backtest.  A dividend on a short position is paid out of
\* the cash without looking at it, so either there are none or no position is short.
THEOREM NeverOverdrawn ==
    ASSUME OneCurrency, SalesPay,
           Dividends \subseteq {0} \/ (LongOnly /\ NoHalts /\ NoReverseSplits)
    PROVE  Spec => []CashNeverNegative
<1> DEFINE Lots == WholeRatios => LotInv
           Long == LongOnly /\ NoHalts /\ NoReverseSplits => HeldInv
           Inv  == TypeInv /\ Lots /\ Long /\ CashInv
<1>1. Init => Inv
    BY InitialTypes, InitialLots, InitialHeld, InitialCashInv
<1>2. Inv /\ [Next]_vars => Inv'
    <2> SUFFICES ASSUME Inv, [Next]_vars PROVE Inv'
        OBVIOUS
    <2>1. TypeInv'
        BY TypesStay
    <2>2. Lots'
        BY <2>1, LotsStay
    <2>3. Long'
        BY <2>1, HeldStays
    <2>4. Dividends \subseteq {0} \/ \A s \in Symbols : positions[s].shares >= 0
        BY DEF HeldInv
    <2>5. CashInv'
        BY <2>1, <2>4, CashStays
    <2> QED
        BY <2>1, <2>2, <2>3, <2>5
<1>3. Inv => CashNeverNegative
    BY DEF CashInv, CashNeverNegative
<1> QED
    BY <1>1, <1>2, <1>3, PTL DEF Spec

-----------------------------------------------------------------------------
\* Lookahead.  The queue is dated: what an order was sized by is older than the day
\* on which it is executed.

\* The orders of a queue were sized before a day; reinvestments have no size.
SizedBefore(o, d) == o.shares = Reinvest \/ (o.ready \in Int /\ o.ready < d)
QueuedBefore(q, d) == \E S : q \in Seq(S) /\ \A o \in S : SizedBefore(o, d)

QueueInv ==
    /\ day \in Nat /\ phase \in Early \cup Late
    /\ phase \in Early => QueuedBefore(pending, day)
    /\ phase \in Late => QueuedBefore(pending, day + 1)
    /\ phase = "orders" => QueuedBefore(todo, day)

\* An order may be added if it is old enough itself.
LEMMA Appended ==
    ASSUME NEW q, NEW d, QueuedBefore(q, d), NEW o, SizedBefore(o, d)
    PROVE  QueuedBefore(Append(q, o), d)
<1>1. PICK S : q \in Seq(S) /\ \A x \in S : SizedBefore(x, d)
    BY DEF QueuedBefore
<1>2. q \in Seq(S \cup {o}) /\ o \in S \cup {o}
    BY <1>1
<1>3. Append(q, o) \in Seq(S \cup {o})
    BY <1>2
<1> QED
    BY <1>1, <1>3 DEF QueuedBefore

\* What is left of a queue is no younger, and its first order is one of it.
LEMMA Taken ==
    ASSUME NEW q, NEW d, QueuedBefore(q, d), q # <<>>
    PROVE  QueuedBefore(Tail(q), d) /\ SizedBefore(Head(q), d)
<1>1. PICK S : q \in Seq(S) /\ \A x \in S : SizedBefore(x, d)
    BY DEF QueuedBefore
<1>2. Tail(q) \in Seq(S) /\ Head(q) \in S
    BY <1>1
<1> QED
    BY <1>1, <1>2 DEF QueuedBefore

\* Nothing is younger than an older queue.
LEMMA Aged ==
    ASSUME NEW q, NEW d \in Int, NEW e \in Int, d <= e, QueuedBefore(q, d)
    PROVE  QueuedBefore(q, e)
<1>1. PICK S : q \in Seq(S) /\ \A x \in S : SizedBefore(x, d)
    BY DEF QueuedBefore
<1>2. \A x \in S : SizedBefore(x, e)
    BY <1>1 DEF SizedBefore
<1> QED
    BY <1>1, <1>2 DEF QueuedBefore

LEMMA EmptyQueue == ASSUME NEW d PROVE QueuedBefore(<<>>, d)
<1>1. ASSUME NEW S, S = {} PROVE <<>> \in Seq(S) /\ \A o \in S : SizedBefore(o, d)
    <2>1. <<>> \in Seq(S)
        OBVIOUS
    <2> QED
        BY <1>1, <2>1
<1> QED
    BY <1>1 DEF QueuedBefore

\* An order queued today is one of before tomorrow.
LEMMA QueuedToday ==
    ASSUME NEW s, NEW side, NEW n, day \in Nat, QueuedBefore(pending, day + 1),
           Queue(s, side, n)
    PROVE  QueuedBefore(pending', day + 1)
<1> DEFINE o == [ready |-> day, symbol |-> s, side |-> side, shares |-> n]
<1>1. SizedBefore(o, day + 1)
    BY DEF SizedBefore
<1>2. pending' = Append(pending, o)
    BY DEF Queue
<1> HIDE DEF o
<1> QED
    BY <1>1, <1>2, Appended

LEMMA InitialQueues == Init => QueueInv
<1> SUFFICES ASSUME Init PROVE QueueInv
    OBVIOUS
<1>1. QueuedBefore(pending, day + 1)
    BY EmptyQueue DEF Init
<1> QED
    BY <1>1 DEF Init, QueueInv, Early, Late

LEMMA QueuesStay == QueueInv /\ [Next]_vars => QueueInv'
<1> SUFFICES ASSUME QueueInv, [Next]_vars PROVE QueueInv'
    OBVIOUS
<1> USE DEF QueueInv, Early, Late
<1>1. CASE OpenDay
    <2>1. day' \in Nat /\ day < day'
        BY <1>1, DaysAreNumbers DEF OpenDay
    <2>2. QueuedBefore(pending, day + 1) /\ pending' = pending
        BY <1>1 DEF OpenDay, orders
    <2>3. QueuedBefore(pending', day')
        BY <2>1, <2>2, Aged
    <2> QED
        BY <1>1, <2>1, <2>3 DEF OpenDay
<1>2. CASE StartOrders
    <2>1. QueuedBefore(pending, day) /\ todo' = pending /\ pending' = <<>> /\ day' = day
        BY <1>2 DEF StartOrders
    <2>2. QueuedBefore(todo', day') /\ QueuedBefore(pending', day')
        BY <2>1, EmptyQueue
    <2> QED
        BY <1>2, <2>1, <2>2 DEF StartOrders
<1>3. ASSUME NEW s \in Symbols, NEW amount \in Dividends, CashDividend(s, amount)
      PROVE  QueueInv'
    <2> DEFINE o == [ready |-> day, symbol |-> s, side |-> "buy", shares |-> Reinvest]
    <2>1. phase = "actions" /\ phase' = phase /\ day' = day
          /\ pending' \in {pending, Append(pending, o)}
        BY <1>3 DEF CashDividend, Acts
    <2>2. SizedBefore(o, day)
        BY DEF SizedBefore
    <2>3. QueuedBefore(pending', day')
        BY <2>1, <2>2, Appended
    <2> QED
        BY <2>1, <2>3
<1>4. ASSUME NEW s \in Symbols, NEW ratio \in Ratios, ShareRatio(s, ratio)
      PROVE  QueueInv'
    BY <1>4 DEF ShareRatio, Acts
<1>5. CASE Rejected
    <2>1. phase = "orders" /\ phase' = phase /\ day' = day /\ todo # <<>>
          /\ todo' = Tail(todo) /\ pending' \in {pending, Append(pending, Head(todo))}
        BY <1>5 DEF Rejected, NextOrder
    <2>2. QueuedBefore(todo', day') /\ SizedBefore(Head(todo), day)
        BY <2>1, Taken
    <2>3. QueuedBefore(pending', day')
        BY <2>1, <2>2, Appended
    <2> QED
        BY <2>1, <2>2, <2>3
<1>6. CASE BuyOrCover \/ SellOrShort
    <2>1. phase = "orders" /\ phase' = phase /\ day' = day /\ pending' = pending
          /\ todo # <<>> /\ todo' \in {todo, Tail(todo)}
        BY <1>6 DEF BuyOrCover, SellOrShort, FillBuy, NextOrder, orders
    <2>2. QueuedBefore(todo', day')
        BY <2>1, Taken
    <2> QED
        BY <2>1, <2>2
<1>7. CASE StartMarking
    <2>1. QueuedBefore(pending, day) /\ pending' = pending /\ day' = day /\ phase' = "marking"
        BY <1>7 DEF StartMarking, OrdersDone, orders
    <2>2. QueuedBefore(pending', day' + 1)
        BY <2>1, Aged
    <2> QED
        BY <2>1, <2>2
<1>8. CASE NoRateAtAll
    BY <1>8 DEF NoRateAtAll, orders
<1>9. ASSUME NEW s \in Symbols, Mark(s) PROVE QueueInv'
    BY <1>9 DEF Mark, orders
<1>10. ASSUME NEW s \in Symbols, TargetRow(s) PROVE QueueInv'
    <2>1. phase = "targets" /\ phase' = phase /\ day' = day /\ todo' = todo
        BY <1>10 DEF TargetRow
    <2>2. QueuedBefore(pending', day + 1)
        BY <1>10, <2>1, QueuedToday DEF TargetRow
    <2> QED
        BY <2>1, <2>2
<1>11. ASSUME NEW s \in Symbols, Liquidate(s) PROVE QueueInv'
    <2>1. phase = "others" /\ phase' = phase /\ day' = day /\ todo' = todo
        BY <1>11 DEF Liquidate
    <2>2. QueuedBefore(pending', day + 1)
        BY <1>11, <2>1, QueuedToday DEF Liquidate
    <2> QED
        BY <2>1, <2>2
<1>12. CASE Rebalance \/ CloseOthers \/ CloseDay
    BY <1>12 DEF Rebalance, CloseOthers, CloseDay, orders
<1>13. CASE UNCHANGED vars
    BY <1>13 DEF vars, orders
<1> QED
    BY <1>1, <1>2, <1>3, <1>4, <1>5, <1>6, <1>7, <1>8, <1>9, <1>10, <1>11, <1>12, <1>13
       DEF Next, Execute

\* An order of a queue is one of the set it is drawn from.
LEMMA QueuesAreDated == QueueInv => NoLookahead
<1> SUFFICES ASSUME QueueInv, phase = "orders", NEW i \in 1..Len(todo), todo[i].shares # Reinvest
             PROVE  todo[i].ready < day
    BY DEF NoLookahead
<1>1. PICK S : todo \in Seq(S) /\ \A o \in S : SizedBefore(o, day)
    BY DEF QueueInv, QueuedBefore
<1>2. todo[i] \in S
    BY <1>1
<1> QED
    BY <1>1, <1>2 DEF SizedBefore

\* No lookahead: an order whose size depends on the closing prices of a day is
\* executed on a later day, however often a halt has put it back.
THEOREM NeverLooksAhead == Spec => []NoLookahead
<1> QED
    BY InitialQueues, QueuesStay, QueuesAreDated, PTL DEF Spec

-----------------------------------------------------------------------------
\* The windows of walk_forward (WalkForward), for every length of the period and
\* every number of splits.

\* The quotient and the remainder.
LEMMA Division ==
    ASSUME NEW days \in Nat, NEW n \in Nat \ {0}
    PROVE  /\ days \div n \in Nat /\ days % n \in 0..(n - 1)
           /\ days = n * (days \div n) + (days % n)
    BY SMT

\* PartBegin is where the loop of _split_list stands after i rounds.
LEMMA PartsFollow ==
    ASSUME NEW days \in Nat, NEW n \in Nat \ {0}, NEW i \in Nat
    PROVE  /\ PartBegin(days, n, 0) = 0
           /\ PartBegin(days, n, i + 1) = PartBegin(days, n, i) + PartSize(days, n, i)
           /\ PartBegin(days, n, n) = days
           /\ PartBegin(days, n, i) \in Nat /\ PartSize(days, n, i) \in Nat
  <1> DEFINE k == days \div n
             m == days % n
  <1>1. k \in Nat /\ m \in 0..(n - 1) /\ days = n * k + m
    BY Division
  <1> HIDE DEF k, m
  <1>2. (i + 1) * k = i * k + k /\ i * k \in Nat /\ 0 * k = 0
    BY <1>1, SMT
  <1>3. /\ PartBegin(days, n, 0) = 0 * k + (IF 0 < m THEN 0 ELSE m)
        /\ PartBegin(days, n, i) = i * k + (IF i < m THEN i ELSE m)
        /\ PartBegin(days, n, i + 1) = (i + 1) * k + (IF i + 1 < m THEN i + 1 ELSE m)
        /\ PartBegin(days, n, n) = n * k + (IF n < m THEN n ELSE m)
        /\ PartSize(days, n, i) = k + (IF i < m THEN 1 ELSE 0)
    BY DEF PartBegin, PartSize, k, m
  <1> QED BY <1>1, <1>2, <1>3

\* With no more parts than days, no part is empty.
LEMMA PartsNotEmpty ==
    ASSUME NEW days \in Nat, NEW n \in Nat \ {0}, NEW i \in Nat, days >= n
    PROVE  PartBegin(days, n, i) <= PartEnd(days, n, i)
  <1> DEFINE k == days \div n
             m == days % n
  <1>1. k \in Nat /\ m \in 0..(n - 1) /\ days = n * k + m
    BY Division
  <1> HIDE DEF k, m
  <1>2. k # 0
    <2>1. ASSUME k = 0 PROVE FALSE
      <3>1. n * k = 0 BY <2>1
      <3> QED BY <1>1, <3>1
    <2> QED BY <2>1
  <1>3. PartSize(days, n, i) >= 1
    <2>1. PartSize(days, n, i) = k + (IF i < m THEN 1 ELSE 0)
      BY DEF PartSize, k, m
    <2> QED BY <2>1, <1>1, <1>2
  <1>4. /\ PartBegin(days, n, i + 1) = PartBegin(days, n, i) + PartSize(days, n, i)
        /\ PartBegin(days, n, i) \in Nat /\ PartSize(days, n, i) \in Nat
    BY PartsFollow
  <1> QED BY <1>3, <1>4 DEF PartEnd

\* A strategy is never judged on days it was fitted on, or on earlier ones: in
\* both modes the in-sample window of a pair is not empty and ends the day before
\* its out-of-sample window begins, which is not empty either.
THEOREM JudgedOnLaterDays ==
    ASSUME NEW days \in Nat, NEW splits \in Nat \ {0}, Accepted(days, splits),
           NEW mode \in Modes, NEW i \in 0..(splits - 1)
    PROVE  LET fitted == InSample(days, splits, mode, i)
               judged == OutOfSample(days, splits, i)
           IN /\ 0 <= fitted.from /\ fitted.from <= fitted.to
              /\ judged.from = fitted.to + 1 /\ judged.from <= judged.to
  <1> DEFINE n == splits + 1
  <1>1. n \in Nat \ {0} /\ days >= n /\ i \in Nat /\ i + 1 \in Nat
    BY DEF Accepted
  <1> HIDE DEF n
  <1>2. PartBegin(days, n, i) \in Nat /\ PartBegin(days, n, i + 1) \in Nat
    BY <1>1, PartsFollow
  <1>3. /\ PartBegin(days, n, i) <= PartEnd(days, n, i)
        /\ PartBegin(days, n, i + 1) <= PartEnd(days, n, i + 1)
    BY <1>1, PartsNotEmpty
  <1>4. PartEnd(days, n, i) = PartBegin(days, n, i + 1) - 1
    BY DEF PartEnd
  <1>5. InSample(days, splits, mode, i) =
            [from |-> IF mode = "expanding" THEN 0 ELSE PartBegin(days, n, i),
             to |-> PartEnd(days, n, i)]
    BY DEF InSample, n
  <1>6. OutOfSample(days, splits, i) =
            [from |-> PartBegin(days, n, i + 1), to |-> PartEnd(days, n, i + 1)]
    BY DEF OutOfSample, n
  <1> QED BY <1>2, <1>3, <1>4, <1>5, <1>6

\* The days on which a strategy is judged follow one another without a gap to the
\* last day of the period: no day counts twice in the combined result, and after
\* the first window none is left out.
THEOREM JudgedOnAllTheRest ==
    ASSUME NEW days \in Nat, NEW splits \in Nat \ {0}, NEW mode \in Modes
    PROVE  /\ OutOfSample(days, splits, splits - 1).to = days - 1
           /\ \A i \in 0..(splits - 2) :
                 OutOfSample(days, splits, i + 1).from = OutOfSample(days, splits, i).to + 1
           /\ InSample(days, splits, mode, 0).from = 0
           /\ OutOfSample(days, splits, 0).from = InSample(days, splits, mode, 0).to + 1
  <1> DEFINE n == splits + 1
  <1>1. n \in Nat \ {0}
    OBVIOUS
  <1>2. PartBegin(days, n, 0) = 0 /\ PartBegin(days, n, n) = days
    BY <1>1, PartsFollow, 0 \in Nat
  <1>3. OutOfSample(days, splits, splits - 1).to = days - 1
    <2>1. (splits - 1) + 1 + 1 = n
      OBVIOUS
    <2>2. OutOfSample(days, splits, splits - 1).to = PartBegin(days, n, (splits - 1) + 1 + 1) - 1
      BY DEF OutOfSample, PartEnd
    <2> QED BY <2>1, <2>2, <1>2
  <1>4. ASSUME NEW i \in 0..(splits - 2)
        PROVE  OutOfSample(days, splits, i + 1).from = OutOfSample(days, splits, i).to + 1
    <2>1. PartBegin(days, n, i + 1 + 1) \in Nat
      <3>1. i + 1 + 1 \in Nat
        OBVIOUS
      <3> QED BY <1>1, <3>1, PartsFollow
    <2>2. /\ OutOfSample(days, splits, i + 1).from = PartBegin(days, n, i + 1 + 1)
          /\ OutOfSample(days, splits, i).to = PartBegin(days, n, i + 1 + 1) - 1
      BY DEF OutOfSample, PartEnd
    <2> QED BY <2>1, <2>2
  <1>5. InSample(days, splits, mode, 0).from = 0
    BY <1>2 DEF InSample
  <1>6. OutOfSample(days, splits, 0).from = InSample(days, splits, mode, 0).to + 1
    <2>1. PartBegin(days, n, 1) \in Nat
      BY <1>1, PartsFollow, 1 \in Nat
    <2>2. /\ OutOfSample(days, splits, 0).from = PartBegin(days, n, 1)
          /\ InSample(days, splits, mode, 0).to = PartBegin(days, n, 1) - 1
      BY 0 + 1 = 1 DEF OutOfSample, InSample, PartEnd
    <2> QED BY <2>1, <2>2
  <1> QED BY <1>3, <1>4, <1>5, <1>6
=============================================================================
