-------------------------------- MODULE Reports --------------------------------
(***************************************************************************)
(* What NavTrack computes from its tables and stores nowhere.              *)
(*                                                                         *)
(*   - ValuationService.compute, the value of a portfolio on a day, and    *)
(*     run_valuation of the worker, which computes it again every evening; *)
(*   - PortfoliosService.aggregateValuationSeries, the value of a choice   *)
(*     of portfolios on each day of a window, from the ledger;             *)
(*   - TemplatesService.navSeries and navSeriesAvailableRange, the weighted*)
(*     price of an allocation template on each day of a window;            *)
(*   - the shares of TransactionsService.applyTemplateBuy.                 *)
(*                                                                         *)
(* They are operators over the ledger and the prices; the actions are the  *)
(* changes of these tables, one at a time, so that every table within the  *)
(* bounds is reached and two successive ones can be compared.  Positions   *)
(* are the ones that a recalculation stores.                               *)
(*                                                                         *)
(* Days are numbered.  Units, prices and fees are integers, in millionths: *)
(* their columns have six decimals.  A number of units times a price is in *)
(* millionths of a millionth, One to a millionth, and a cent is Cent       *)
(* millionths.  PostgreSQL and the worker calculate exactly and round where*)
(* they say so; the backend adds doubles, which is off by Drift at most.   *)
(***************************************************************************)
EXTENDS Integers, FiniteSets, Functions, FiniteSetsExt, SequencesExt

CONSTANTS
    Portfolio,    \* ids of portfolios
    Fund,         \* ids of instruments
    Txn,          \* ids of rows of the ledger: bounds how many it holds
    UsedType,     \* the transaction types that occur
    UnitValue,    \* the numbers of units that are traded
    Price,        \* the prices that a fund can have
    Paid,         \* the prices at which it is traded
    Fees,         \* the fees of a trade
    MaxDay,       \* the last day of the calendar
    TradeDay,     \* the days that are traded on
    PriceDay,     \* the days that prices are put for
    MaxRows,      \* bounds how many rows the two tables hold together
    One,          \* the millionths in one
    Cent,         \* the millionths in a cent
    Drift,        \* bounds how far a total of doubles is from the exact one
    Weight,       \* the allocation template: the weight of each of its funds
    Amount,       \* the amounts that are put into the template
    Today,        \* the date
    None

TransactionType ==
    {"BUY", "SELL", "SWITCH", "DIVIDEND_REINVEST", "FEE_CONSOLIDATION"}

ASSUME ReportsAssumption ==
    /\ IsFiniteSet(Portfolio) /\ IsFiniteSet(Fund) /\ IsFiniteSet(Txn)
    /\ UsedType \subseteq TransactionType
    /\ UnitValue \subseteq Int
    /\ Price \subseteq Nat \ {0} /\ Paid \subseteq Nat \ {0} /\ Fees \subseteq Nat
    /\ MaxDay \in Nat \ {0} /\ TradeDay \cup PriceDay \subseteq 1..MaxDay
    /\ MaxRows \in Nat
    /\ One \in Nat \ {0} /\ Cent \in Nat \ {0}
    /\ Drift \in Nat \ {0} /\ 2 * Drift < One * Cent
    /\ DOMAIN Weight \subseteq Fund /\ DOMAIN Weight # {}
    /\ \A f \in DOMAIN Weight : Weight[f] \in Nat \ {0}
    /\ Amount \subseteq Nat \ {0}
    /\ Today \in 1..MaxDay /\ None \notin Int

Day == 1..MaxDay

NoPrice == 0

Row == [pf : Portfolio, fund : Fund, type : UsedType, units : UnitValue,
        price : Paid, fees : Fees, day : TradeDay]

VARIABLES
    ledger,   \* the table transactions: a row, or None, for each id
    nav       \* the table nav_prices: the price of each fund on each day, or NoPrice

vars == <<ledger, nav>>

--------------------------------------------------------------------------------
(* Rounding.                                                                    *)

\* Math.round(a / b): a half goes up.
RoundUp(a, b) == (2 * a + b) \div (2 * b)

\* ROUND, ::numeric(18,2) and ROUND_HALF_UP: a half goes away from zero.
RoundAway(a, b) == IF a >= 0 THEN RoundUp(a, b) ELSE -RoundUp(-a, b)

\* round2 of a total: the cents that the doubles can lead to.  Next to a half cent
\* they are two.
Round2(x) == RoundUp(x - Drift, One * Cent)..RoundUp(x + Drift, One * Cent)

--------------------------------------------------------------------------------
(* Prices.                                                                      *)

PricedDays(f) == {d \in Day : nav[f][d] # NoPrice}

LastOf(S) == IF S = {} THEN 0 ELSE Max(S)

\* Mutant of NavDay: the first price of all stands in for an earlier one.
NavDayOrFirst(f, d) ==
    IF PricedDays(f) = {} THEN 0
    ELSE LET seen == {e \in PricedDays(f) : e <= d}
         IN IF seen = {} THEN Min(PricedDays(f)) ELSE Max(seen)

\* NavPricesService.navOnDate: the latest price on or before day d.
NavDay(f, d)    == LastOf({e \in PricedDays(f) : e <= d})
NavOnDate(f, d) == IF NavDay(f, d) = 0 THEN NoPrice ELSE nav[f][NavDay(f, d)]

--------------------------------------------------------------------------------
(* The ledger.                                                                  *)

RowsOf(S) == {t \in Txn : ledger[t] # None /\ ledger[t].pf \in S}

SignedUnits(t) ==
    IF ledger[t].type \in {"SELL", "SWITCH"} THEN -ledger[t].units ELSE ledger[t].units

\* What a row adds to the cash invested, exactly.
Cash(t) ==
    LET paid == ledger[t].units * ledger[t].price IN
    CASE ledger[t].type \in {"BUY", "DIVIDEND_REINVEST"} -> paid + ledger[t].fees * One
      [] ledger[t].type \in {"SELL", "SWITCH"}           -> -(paid - ledger[t].fees * One)
      [] OTHER                                           -> 0

UnitsIn(T) == MapThenSumSet(SignedUnits, T)
CashIn(T)  == MapThenSumSet(Cash, T)

Of(T, f) == {t \in T : ledger[t].fund = f}

\* recalculateFromTransactions: the funds with a positive total, and the average
\* price of the lots bought, None for a fund that was never bought.
Units(p, f) == UnitsIn(Of(RowsOf({p}), f))
Held(p)     == {f \in Fund : Of(RowsOf({p}), f) # {} /\ Units(p, f) > 0}

CostBasis(p, f) ==
    LET lots == {t \in Of(RowsOf({p}), f) : ledger[t].type \in {"BUY", "DIVIDEND_REINVEST"}}
        Spent(t)  == ledger[t].units * ledger[t].price
        Bought(t) == ledger[t].units
    IN IF lots = {} THEN None
       ELSE RoundAway(MapThenSumSet(Spent, lots), MapThenSumSet(Bought, lots))

--------------------------------------------------------------------------------
(* The value of a portfolio on a day.                                           *)

Priced(p, d) == {f \in Held(p) : NavOnDate(f, d) # NoPrice}
Costed(p)    == {f \in Held(p) : CostBasis(p, f) # None}

\* ValuationService.compute: without a date, the latest day on which a held fund
\* has a price; the totals are added as doubles and rounded once, and the cost
\* counts the positions without a price.
ValuationDay(p, date) ==
    LET latest == LastOf(UNION {PricedDays(f) : f \in Held(p)}) IN
    IF date # None THEN date ELSE IF latest # 0 THEN latest ELSE Today

TotalValue(p, d) ==
    LET Value(f) == Units(p, f) * NavOnDate(f, d)
    IN Round2(MapThenSumSet(Value, Priced(p, d)))

TotalCost(p) ==
    LET Cost(f) == Units(p, f) * CostBasis(p, f)
    IN Round2(MapThenSumSet(Cost, Costed(p)))

\* Mutant of WorkerValue: the latest price there is, whatever the date.
WorkerValueLatest(p, d) ==
    LET Value(f) == RoundAway(Units(p, f) * NavOnDate(f, MaxDay), One * Cent)
    IN MapThenSumSet(Value, Priced(p, d))

\* run_valuation: every position is rounded, and the cost leaves out the
\* positions without a price.
WorkerValue(p, d) ==
    LET Value(f) == RoundAway(Units(p, f) * NavOnDate(f, d), One * Cent)
    IN MapThenSumSet(Value, Priced(p, d))

WorkerCost(p, d) ==
    LET Cost(f) == RoundAway(Units(p, f) * CostBasis(p, f), One * Cent)
    IN MapThenSumSet(Cost, Priced(p, d) \cap Costed(p))

--------------------------------------------------------------------------------
(* The value of portfolios over time.                                           *)

TradeDays(S) == {ledger[t].day : t \in RowsOf(S)}

\* The last day of the series: the one asked for, or the latest on which a fund
\* traded in these portfolios has a price.
EndDay(S, to) ==
    LET traded == {ledger[t].fund : t \in RowsOf(S)}
        latest == LastOf(UNION {PricedDays(f) : f \in traded})
    IN IF to # None THEN to ELSE IF latest # 0 THEN latest ELSE Today

Clamp(n, lo, hi) == IF n < lo THEN lo ELSE IF n > hi THEN hi ELSE n

\* The first day: of the window of so many days, or the first trade of all.
StartDay(S, days, end) ==
    IF days # None THEN end - Clamp(days, 2, 3650) + 1
    ELSE IF RowsOf(S) = {} THEN end ELSE Min(TradeDays(S))

Before(T, d)    == {t \in T : ledger[t].day < d}
Within(T, a, b) == {t \in T : ledger[t].day \in a..b}

\* Mutant of Opening: the trades of the first day count twice.
OpeningWithFirstDay(T, start) == {t \in T : ledger[t].day <= start}

\* opening_units and opening_cash: what was traded before the window.
Opening(T, start) == Before(T, start)

\* units_by_day: the units at the opening and those of the days since.
UnitsOn(S, f, start, d) ==
    UnitsIn(Of(Opening(RowsOf(S), start), f)) + UnitsIn(Of(Within(RowsOf(S), start, d), f))

\* Mutant of TradedFunds: SELECT without DISTINCT, a row of the grid per trade.
TradedPerTrade(S) == {<<ledger[t].fund, t>> : t \in RowsOf(S)}

\* The instruments of the grid: SELECT DISTINCT, so one row a fund.
TradedFunds(S) == {<<ledger[t].fund, None>> : t \in RowsOf(S)}

\* value_by_day: the units at their latest price; a fund without one adds nothing.
ValueOn(S, start, d) ==
    LET Value(g) == UnitsOn(S, g[1], start, d) * NavOnDate(g[1], d)
    IN RoundAway(MapThenSumSet(Value, TradedFunds(S)), One * Cent)

\* ::numeric(24,6)
Cast(x) == RoundAway(x, One)

\* invested_by_day: the cash of the opening and of each day of trading since, each
\* of them cast to six decimals before they are added.
InvestedOn(S, start, d) ==
    LET CashOn(e) == Cast(CashIn(Within(RowsOf(S), e, e)))
    IN RoundAway(Cast(CashIn(Opening(RowsOf(S), start))) + MapThenSumSet(CashOn, TradeDays(S) \cap start..d), Cent)

Point(S, start, d) ==
    LET value    == ValueOn(S, start, d)
        invested == InvestedOn(S, start, d)
        pnl      == value - invested
    IN [value |-> value, invested |-> invested, pnl |-> pnl,
        pct |-> IF invested > 0 THEN RoundAway(pnl * 10000, invested) ELSE 0]

\* aggregateValuationSeries: the points of the days of the window.
Series(S, days, to) ==
    LET end   == EndDay(S, to)
        start == StartDay(S, days, end)
    IN [d \in start..end |-> Point(S, start, d)]

--------------------------------------------------------------------------------
(* The price of a template over time.                                           *)

TemplateFunds == DOMAIN Weight

\* navSeriesAvailableRange: refused unless every fund has a price.
AllPriced == \A f \in TemplateFunds : PricedDays(f) # {}

AvailableFrom == Max({Min(PricedDays(f)) : f \in TemplateFunds})
AvailableTo   == Min({Max(PricedDays(f)) : f \in TemplateFunds})

\* navByInstrument: the days with a price up to the ceiling, in order.
History(f) ==
    LET days == {d \in PricedDays(f) : d <= AvailableTo}
        rank == 1..Cardinality(days)
    IN CHOOSE h \in [rank -> days] : \A i, j \in rank : i < j => h[i] < h[j]

\* What is left to search of a history, and the latest day found so far.
Interval(h) == [lo : 1..Len(h) + 1, hi : 0..Len(h), found : 0..MaxDay]

\* Mutant of FindLatest: the interval is not narrowed to the right of the middle.
FindLatestLeft(h, d) ==
    LET search[s \in Interval(h)] ==
            IF s.lo > s.hi THEN s.found
            ELSE LET mid == (s.lo + s.hi) \div 2 IN
                 IF h[mid] <= d THEN h[mid] ELSE search[[s EXCEPT !.hi = mid - 1]]
    IN search[[lo |-> 1, hi |-> Len(h), found |-> 0]]

\* findLatestNavOnOrBefore: a binary search; 0 when all days are later.
FindLatest(h, d) ==
    LET search[s \in Interval(h)] ==
            IF s.lo > s.hi THEN s.found
            ELSE LET mid == (s.lo + s.hi) \div 2 IN
                 IF h[mid] <= d THEN search[[s EXCEPT !.lo = mid + 1, !.found = h[mid]]]
                 ELSE search[[s EXCEPT !.hi = mid - 1]]
    IN search[[lo |-> 1, hi |-> Len(h), found |-> 0]]

\* The window: an explicit one, cut at the last day with all prices; all days
\* since the first with all prices; or so many days up to the last.
SeriesStart(days, from, to) ==
    IF from # None /\ to # None /\ from <= to THEN from
    ELSE IF days <= 0 THEN Max({History(f)[1] : f \in TemplateFunds})
    ELSE AvailableTo - Clamp(days, 2, 3650) + 1

\* Mutant of SeriesEnd: an explicit window is not cut.
SeriesEndUncut(from, to) ==
    IF from # None /\ to # None /\ from <= to THEN to ELSE AvailableTo

SeriesEnd(from, to) ==
    IF from # None /\ to # None /\ from <= to /\ to < AvailableTo THEN to ELSE AvailableTo

\* A day on which a fund has no price yet has no point.
Complete(d) == \A f \in TemplateFunds : FindLatest(History(f), d) # 0

WeightedNav(d) ==
    LET Part(f) == nav[f][FindLatest(History(f), d)] * Weight[f]
    IN MapThenSumSet(Part, TemplateFunds)

\* None when a fund has no price at all, or none up to the ceiling.
SeriesDays(days, from, to) ==
    IF ~AllPriced \/ \E f \in TemplateFunds : History(f) = <<>> THEN {}
    ELSE {d \in SeriesStart(days, from, to)..SeriesEnd(from, to) : Complete(d)}

\* Each point is an index in hundredths, of which the first is 100.
NavSeries(days, from, to) ==
    LET shown == SeriesDays(days, from, to) IN
    [d \in shown |-> RoundUp(WeightedNav(d) * 10000, WeightedNav(Min(shown)))]

--------------------------------------------------------------------------------
(* The shares of a template buy.                                                *)

\* The items of the template come from the database in any order.
Orders == {s \in [1..Cardinality(TemplateFunds) -> TemplateFunds] : IsInjective(s)}

WeightSum == SumFunction(Weight)

Total(s) == FoldLeft(LAMBDA a, b : a + b, 0, s)

\* Mutant of Shares: the last fund is given its own share, not what is left.
SharesByWeight(items, amount) ==
    [k \in DOMAIN items |-> RoundUp(amount * Weight[items[k]], WeightSum)]

\* Each fund but the last gets its share, rounded; the last one what is left.
Shares(items, amount) ==
    LET share == [k \in DOMAIN items |-> RoundUp(amount * Weight[items[k]], WeightSum)]
    IN Append(Front(share), amount - Total(Front(share)))

\* The units bought, rounded at their sixth decimal as the amounts are.
UnitsBought(items, amount, d) ==
    [k \in DOMAIN items |-> RoundUp(Shares(items, amount)[k] * One, NavOnDate(items[k], d))]

\* Refused when a fund has no price yet, or would be bought no unit of.
BuyAccepted(items, amount, d) ==
    /\ \A f \in TemplateFunds : NavOnDate(f, d) # NoPrice
    /\ \A k \in DOMAIN items : UnitsBought(items, amount, d)[k] > 0

--------------------------------------------------------------------------------
(* The changes of the tables.                                                   *)

Init ==
    /\ ledger = [t \in Txn |-> None]
    /\ nav = [f \in Fund |-> [d \in Day |-> NoPrice]]

RoomForRow ==
    Cardinality(RowsOf(Portfolio)) + Cardinality({p \in Fund \X Day : nav[p[1]][p[2]] # NoPrice})
        < MaxRows

\* A transaction is created; an update is one that is deleted and created anew.
Trade(t, row) ==
    /\ ledger[t] = None /\ RoomForRow
    /\ IF row.type = "FEE_CONSOLIDATION" THEN row.units # 0 ELSE row.units > 0
    /\ ledger' = [ledger EXCEPT ![t] = row]
    /\ UNCHANGED nav

Untrade(t) ==
    /\ ledger[t] # None
    /\ ledger' = [ledger EXCEPT ![t] = None]
    /\ UNCHANGED nav

\* A price is stored, by a sync or by hand, and is not the one that was there.
PutPrice(f, d, price) ==
    /\ nav[f][d] # price
    /\ nav[f][d] # NoPrice \/ RoomForRow
    /\ nav' = [nav EXCEPT ![f][d] = price]
    /\ UNCHANGED ledger

Next ==
    \/ \E t \in Txn : (\E row \in Row : Trade(t, row)) \/ Untrade(t)
    \/ \E f \in Fund, d \in PriceDay, price \in Price : PutPrice(f, d, price)

Spec == Init /\ [][Next]_vars

--------------------------------------------------------------------------------
(* Properties.                                                                  *)

Windows == 2..MaxDay

Selections == SUBSET Portfolio \ {{}}

Near(a, b, tolerance) == a - b \in -tolerance..tolerance

\* A day shows the same in every range of the chart: what was traded before the
\* window is in its opening, what was traded in it is not, and nothing is in both.
\* The value is the same exactly; so is what was invested when the opening stands for
\* one day of trading, and else it is off by a cent, plus what the casts of its
\* days can add up to.
WindowsAgree ==
    \A S \in Selections, to \in Day \cup {None} :
        LET all == Series(S, None, to) IN
        \A d \in DOMAIN all :
            LET point == all[d] IN
            \A n \in Windows :
                LET start     == StartDay(S, n, EndDay(S, to))
                    part      == Series(S, n, to)[d]
                    opened    == Cardinality({e \in TradeDays(S) : e < start})
                    tolerance == IF opened <= 1 THEN 0 ELSE 1 + (opened + 1) \div (2 * Cent)
                IN d >= start =>
                     /\ part.value = point.value
                     /\ Near(part.invested, point.invested, tolerance)

\* The portfolios chosen add up, also when they hold the same fund: but for the
\* rounding of each series to the cent, and of the cash of each day before it.
ChoicesAddUp ==
    \A S \in Selections, to \in Day :
        LET Alone(p)    == Series({p}, MaxDay, to)[to]
            Value(p)    == Alone(p).value
            Invested(p) == Alone(p).invested
            both        == Series(S, MaxDay, to)[to]
            roundings   == (Cardinality(S) + 1) * (Cent + Cardinality(TradeDays(S)))
        IN /\ Near(both.value, MapThenSumSet(Value, S), Cardinality(S) \div 2)
           /\ Near(both.invested, MapThenSumSet(Invested, S), roundings \div (2 * Cent))

\* The chart ends at the value the portfolio's page shows, although it anchors on
\* the funds ever traded and the page on those still held: unless a trade is
\* dated after the last price, or a fund is oversold.  It is one of the values that
\* the page's doubles can lead to, and the page never shows another by more than a
\* cent.
ChartEndsAtValuation ==
    \A p \in Portfolio :
        LET end   == EndDay({p}, None)
            value == Series({p}, None, None)[end].value
            shown == TotalValue(p, ValuationDay(p, None))
        IN  /\ \A t \in RowsOf({p}) : ledger[t].day <= end
            /\ \A f \in Fund : Units(p, f) >= 0
            => value \in shown /\ \A total \in shown : Near(value, total, 1)

\* The worker and the backend value a portfolio the same, but for the roundings: of
\* each position there, of the total of doubles here.  The costs agree when every
\* position has a price.
ValuationsAgree ==
    \A p \in Portfolio, d \in Day :
        LET slack == (Cardinality(Held(p)) + 1) \div 2 IN
        /\ \A total \in TotalValue(p, d) : Near(WorkerValue(p, d), total, slack)
        /\ Priced(p, d) = Held(p) =>
             \A total \in TotalCost(p) : Near(WorkerCost(p, d), total, slack)

\* The search finds the latest price on or before the day.
SearchFindsLatest ==
    AllPriced =>
        \A f \in TemplateFunds, d \in Day :
            FindLatest(History(f), d) = NavDay(f, Min({d, AvailableTo}))

\* Whatever the window, the series of a template shows every day of it that the
\* date picker offers, and no other.
SeriesMatchesPicker ==
    AllPriced =>
        \A n \in {0} \cup Windows, from, to \in Day \cup {None} :
            LET shown == DOMAIN NavSeries(n, from, to) IN
            /\ AvailableFrom > AvailableTo => shown = {}
            /\ AvailableFrom <= AvailableTo => shown =
                 (SeriesStart(n, from, to)..SeriesEnd(from, to)) \cap (AvailableFrom..AvailableTo)

\* A template buy that is accepted spends the amount, all of it, and gives each
\* fund its part to within the roundings, in whatever order the funds come.
BuySpendsAmount ==
    \A items \in Orders, amount \in Amount, d \in Day :
        BuyAccepted(items, amount, d) =>
            LET shares == Shares(items, amount) IN
            /\ Total(shares) = amount
            /\ \A k \in DOMAIN items :
                 Near(2 * shares[k] * WeightSum, 2 * amount * Weight[items[k]],
                      (Cardinality(TemplateFunds) - 1) * WeightSum)

\* What is recorded of a day does not change the days before it: a trade or a
\* price put today leaves yesterday's point as it was.
PastIsStable ==
    [][LET trades == {t \in Txn : ledger'[t] # ledger[t]}
           since  == Min({ledger[t].day : t \in {u \in trades : ledger[u] # None}}
                         \cup {ledger'[t].day : t \in {u \in trades : ledger'[u] # None}}
                         \cup {d \in Day : \E f \in Fund : nav'[f][d] # nav[f][d]})
       IN \A p \in Portfolio, d \in 1..since - 1 :
            Series({p}, MaxDay, d)'[d] = Series({p}, MaxDay, d)[d]]_vars

================================================================================
