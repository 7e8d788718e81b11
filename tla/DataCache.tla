------------------------------ MODULE DataCache ------------------------------
(***************************************************************************)
(* The data layer: price_repository.py, fundamentals_repository.py and     *)
(* config_repository.py over the DuckDB cache of data/cache.py, with the   *)
(* conversions of data/converters.py, against sources that come to know    *)
(* more every day.                                                         *)
(*                                                                         *)
(* A request is a window of days.  Some tables keep a log of the windows   *)
(* that were fetched; from the others a request is answered as soon as one *)
(* row of the window is there.  A value in a table stands for where it     *)
(* comes from: a bar for the corporate actions it was adjusted for, a      *)
(* figure of a report for its version.  What a request leaves in the cache *)
(* is a step, whole or cut short by an error or a crash; what it answers   *)
(* is read from the cache.  Only one process at a time has the file open.  *)
(***************************************************************************)
EXTENDS Integers, FiniteSets, FiniteSetsExt

CONSTANTS
    Symbols,
    Constituents,   \* symbols that may be in the index
    LastDay,        \* bound: the last day of a request
    Splits,         \* the ex-dates of all symbols, announced in advance
    Reports,        \* bound: the days reports are about
    MaxVersions     \* bound: versions of reports

Days     == 1..LastDay
Dates    == 1..(LastDay + 1)
Windows  == {w \in [from : Days, to : Days] : w.from <= w.to}
Within(w) == w.from..w.to
NoRow    == [hfq |-> {}, total |-> {}, limits |-> FALSE, held |-> FALSE]

ASSUME CacheAssumption ==
    LastDay \in Nat \ {0} /\ Splits \subseteq Days /\ Reports \subseteq Days /\ MaxVersions \in Nat

VARIABLES
    today,      \* the bars of the days before are out
    filed,      \* the versions of reports the companies have published
    dated,      \* whether the source of reports says when a version became known
    membership, \* the members of the index on each day so far: none on the first
    cache       \* the tables and the logs of fetches

world == <<today, filed, dated, membership>>

\* A log remembers the day of a fetch for the properties' sake only.
EmptyCache ==
    [prices |-> [s \in Symbols |-> [d \in Days |-> NoRow]], priceLog |-> {},
     filings |-> {}, filingLog |-> {}, members |-> {}, memberLog |-> {}, rates |-> {}]

DataInit ==
    /\ today = 1 /\ filed = {} /\ dated \in BOOLEAN
    /\ membership = [d \in 1..1 |-> {}]
    /\ cache = EmptyCache

-----------------------------------------------------------------------------
\* The world

NextDay ==
    /\ today < LastDay + 1
    /\ today' = today + 1
    /\ \E members \in IF today + 1 \in Days THEN SUBSET Constituents ELSE {membership[today]} :
          membership' = [d \in 1..(today + 1) |-> IF d = today + 1 THEN members ELSE membership[d]]
    /\ UNCHANGED <<filed, dated, cache>>

\* A report is published, or replaced by another version.  A restatement keeps
\* the date of the first publication.  Of those a source does not date there is
\* one for a report: two would have the same key.
Publish(s, r, kind) ==
    LET earlier == {v \in filed : v.symbol = s /\ v.report = r} IN
    /\ r < today /\ Cardinality(filed) < MaxVersions
    /\ (kind = "restated") <=> (earlier # {})
    /\ dated \/ \A v \in earlier : v.kind # "restated"
    /\ filed' = filed \cup
          {[symbol |-> s, report |-> r, revealed |-> today, kind |-> kind,
            published |-> IF earlier = {} THEN today ELSE Min({v.published : v \in earlier})]}
    /\ UNCHANGED <<today, dated, membership, cache>>

-----------------------------------------------------------------------------
\* The tables

\* has_price_fetch_covering: one logged window spans the request.
Covers(log, s, w) == \E e \in log : e.symbol = s /\ e.from <= w.from /\ w.to <= e.to
Missing(log, S, w) == {s \in S : ~Covers(log, s, w)}
Entry(s, w) == [symbol |-> s, from |-> w.from, to |-> w.to, on |-> today]
Logged(log, T, w) == log \cup {Entry(s, w) : s \in T}

\* The bars a source has, and convert_prices of them: a close is scaled down for
\* every later action of the window, a total return up for every earlier one,
\* and price limits need the close of the day before.
BarsOf(w) == {d \in Within(w) : d < today}
Converted(w, d) ==
    [hfq    |-> {x \in Splits \cap Within(w) : d < x},
     total  |-> {x \in Splits \cap Within(w) : x <= d /\ \E b \in BarsOf(w) : b < x},
     limits |-> d - 1 \in BarsOf(w), held |-> TRUE]

\* (mutant) INSERT OR IGNORE
UpsertIgnoring(prices, T, w) ==
    [s \in Symbols |-> [d \in Days |->
        IF s \in T /\ d \in BarsOf(w) /\ ~prices[s][d].held THEN Converted(w, d) ELSE prices[s][d]]]

\* _upsert: what is there of these keys is deleted first.
Upserted(prices, T, w) ==
    [s \in Symbols |-> [d \in Days |->
        IF s \in T /\ d \in BarsOf(w) THEN Converted(w, d) ELSE prices[s][d]]]

\* (mutant) the known date of a version is that of its first publication
KnownAsPublished(v) == v.published

\* convert_fundamentals: a version is known since the date the source gives, or
\* since its report was first published.
KnownAsOf(v) == IF dated THEN v.revealed ELSE v.published

\* (mutant) in ascending order
RankAscending(v) ==
    CASE v.kind = "restated" -> 1 [] v.kind = "audited" -> 2 [] v.kind = "preliminary" -> 3

\* read_fundamentals_asof: of every report the version known last, a restated
\* one rather than another of the same day.
Rank(v) == CASE v.kind = "restated" -> 3 [] v.kind = "audited" -> 2 [] v.kind = "preliminary" -> 1
Visible(rows, S, asof) ==
    {v \in rows : v.symbol \in S /\ v.published <= asof /\ KnownAsOf(v) <= asof}
Newer(v, u) == KnownAsOf(v) > KnownAsOf(u) \/ (KnownAsOf(v) = KnownAsOf(u) /\ Rank(v) > Rank(u))
FundamentalsAt(c, S, asof) ==
    LET rows == Visible(c.filings, S, asof) IN
    {v \in rows : ~\E u \in rows : u.symbol = v.symbol /\ u.report = v.report /\ Newer(u, v)}

\* read_constituents_asof, and what a snapshot of the index becomes: memberships
\* without an end.
MembersAt(c, asof) == {e.who : e \in {f \in c.members : f.from <= asof}}
Memberships(D)     == {[who |-> m, from |-> d] : m \in Constituents, d \in D}

-----------------------------------------------------------------------------
\* Requests.  Each gives the states it may leave the cache in when it ends
\* early, among them the one it begins with, and the one it ends in.

\* (mutant) the fetch is logged before it is made
PricesTornAfterLog(c, T, w) ==
    {c} \cup {[c EXCEPT !.priceLog = Logged(@, U, w)] : U \in SUBSET T}

PricesTorn(c, T, w) ==
    LET written == [c EXCEPT !.prices = Upserted(@, T, w)] IN
    {c} \cup {[written EXCEPT !.priceLog = Logged(@, U, w)] : U \in SUBSET T}
PricesDone(c, T, w) ==
    [c EXCEPT !.prices = Upserted(@, T, w), !.priceLog = Logged(@, T, w)]
GetPricesTorn(c, S, w) == PricesTorn(c, Missing(c.priceLog, S, w), w)
GetPrices(c, S, w)     == PricesDone(c, Missing(c.priceLog, S, w), w)

FilingsOf(T, w) == {v \in filed : v.symbol \in T /\ v.report \in Within(w)}
FilingsTorn(c, T, w) ==
    LET written == [c EXCEPT !.filings = @ \cup FilingsOf(T, w)] IN
    {c} \cup {[written EXCEPT !.filingLog = Logged(@, U, w)] : U \in SUBSET T}
FilingsDone(c, T, w) ==
    [c EXCEPT !.filings = @ \cup FilingsOf(T, w), !.filingLog = Logged(@, T, w)]
Unfiled(c, S, w) == Missing(c.filingLog, S, w)
GetFundamentalsTorn(c, S, w) == FilingsTorn(c, Unfiled(c, S, w), w)
GetFundamentals(c, S, w)     == FilingsDone(c, Unfiled(c, S, w), w)

\* get_index_constituents of every day of a sample, in its order.
Snapshots(D) == {e \in Memberships(D) : e.who \in membership[e.from]}
Sampled(c, D) ==
    LET new == D \ c.memberLog IN
    [c EXCEPT !.members = @ \cup Snapshots(new), !.memberLog = @ \cup new]
GetUniverseTorn(c, D) ==
    {Sampled(c, {d \in D : d < n}) : n \in D}
    \cup {[Sampled(c, {d \in D : d < n}) EXCEPT !.members = @ \cup Snapshots({n} \ c.memberLog)] : n \in D}

\* Exchange rates are fetched if nothing of the window is there; calendars and
\* corporate actions are treated alike.
AnyOf(days, w) == days \cap Within(w) # {}
GetFxSeries(c, w) ==
    IF AnyOf(c.rates, w) THEN c ELSE [c EXCEPT !.rates = @ \cup BarsOf(w)]

\* compute_ah_premium: the prices of one share, of the other, the rates.
PremiumTorn(c, a, h, w) ==
    LET one == GetPrices(c, {a}, w) IN
    GetPricesTorn(c, {a}, w) \cup GetPricesTorn(one, {h}, w) \cup {GetPrices(one, {h}, w)}
Premium(c, a, h, w) == GetFxSeries(GetPrices(GetPrices(c, {a}, w), {h}, w), w)

\* A request leaves the cache whole, or as far as it has come.
Leaves(torn, done) == cache' \in torn \cup {done} /\ UNCHANGED world

RequestPrices       == \E S \in (SUBSET Symbols) \ {{}}, w \in Windows :
                          Leaves(GetPricesTorn(cache, S, w), GetPrices(cache, S, w))
RequestFundamentals == \E S \in (SUBSET Symbols) \ {{}}, w \in Windows :
                          Leaves(GetFundamentalsTorn(cache, S, w), GetFundamentals(cache, S, w))
RequestUniverse     == \E w \in {v \in Windows : v.to <= today} :
                          Leaves(GetUniverseTorn(cache, Within(w)), Sampled(cache, Within(w)))
RequestFxSeries     == \E w \in Windows : Leaves({}, GetFxSeries(cache, w))
RequestPremium      == \E a, h \in Symbols, w \in Windows :
                          a # h /\ Leaves(PremiumTorn(cache, a, h, w), Premium(cache, a, h, w))

DataRequest ==
    \/ RequestPrices \/ RequestFundamentals \/ RequestUniverse
    \/ RequestFxSeries \/ RequestPremium

DataWorld == NextDay \/ \E s \in Symbols, r \in Reports, k \in {"audited", "restated"} : Publish(s, r, k)
-----------------------------------------------------------------------------
\* Properties

\* What is logged as fetched is in the cache as far as it was out on the day of
\* the fetch, however a request ended: no request will fetch it again.
CoveredIsHeld ==
    /\ \A e \in cache.priceLog : \A d \in e.from..e.to :
          d < e.on => cache.prices[e.symbol][d].held
    /\ \A e \in cache.filingLog : \A v \in filed :
          v.symbol = e.symbol /\ v.report \in e.from..e.to /\ v.revealed < e.on
             => v \in cache.filings
    /\ \A d \in cache.memberLog : \A m \in membership[d] : [who |-> m, from |-> d] \in cache.members

\* A series that has just been fetched has no gap in its adjustments: from one bar
\* to the next the factors change by the actions between the two only.  (A series
\* answered from the cache may: a later fetch of other days rewrites its rows.)
Joined(row, next, d) ==
    /\ row.held /\ next.held =>
          /\ row.hfq \ next.hfq = Splits \cap {d + 1} /\ next.hfq \subseteq row.hfq
          /\ next.total \ row.total = Splits \cap {d + 1} /\ row.total \subseteq next.total
          /\ next.limits
FreshIsContinuous ==
    [][\A e \in cache'.priceLog \ cache.priceLog : \A d \in e.from..(e.to - 1) :
          Joined(cache'.prices[e.symbol][d], cache'.prices[e.symbol][d + 1], d)]_cache

\* Nothing a request of a day reads from the cache came after that day: neither a
\* report, nor a member of the index, nor a version of a report, unless it is a
\* restatement from a source that gives no dates.
NoHindsight ==
    \A asof \in Dates :
        /\ \A v \in FundamentalsAt(cache, Symbols, asof) :
              /\ \E u \in filed : u.symbol = v.symbol /\ u.report = v.report /\ u.revealed <= asof
              /\ v.revealed <= asof \/ (v.kind = "restated" /\ ~dated)
        /\ \A m \in MembersAt(cache, asof) : \E d \in 1..today : d <= asof /\ m \in membership[d]

\* A request of a day reads all that was known that day, of every report and every
\* sampled day that has been fetched since.
NothingKnownIsMissing ==
    \A asof \in Dates :
        /\ \A e \in cache.filingLog : \A v \in filed :
              v.symbol = e.symbol /\ v.report \in e.from..e.to /\ v.revealed < e.on
              /\ v.revealed <= asof =>
                 \E u \in FundamentalsAt(cache, {e.symbol}, asof) :
                    /\ u.report = v.report
                    /\ \/ u.revealed > v.revealed
                       \/ u.revealed = v.revealed /\ (u = v \/ u.kind = "restated")
        /\ asof \in cache.memberLog => membership[asof] \subseteq MembersAt(cache, asof)
=============================================================================
