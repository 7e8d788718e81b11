--------------------------- MODULE WatchlistProofs ---------------------------
(***************************************************************************)
(* What the DuckDB file holds, for every number of processes, symbols and  *)
(* days, and however requests, snapshots and edits of lists are cut short. *)
(*                                                                         *)
(* A request may go through several states of the cache before it ends, so *)
(* the invariant is one of caches: Whole(c) says what CoveredIsHeld and    *)
(* NoHindsight say of the cache, and of the rows and days it may hold at   *)
(* all.  Every part of a request leads from a whole cache to whole ones.   *)
(***************************************************************************)
EXTENDS Watchlist, WellFoundedInduction, TLAPS

Rows    == [hfq : SUBSET Days, total : SUBSET Days, limits : BOOLEAN, held : BOOLEAN]
Entries == [symbol : Symbols, from : Days, to : Days, on : 1..today]
Caches  ==
    [prices : [Symbols -> [Days -> Rows]], priceLog : SUBSET Entries,
     filings : SUBSET filed, filingLog : SUBSET Entries,
     members : SUBSET [who : Constituents, from : 1..today], memberLog : SUBSET (1..today),
     rates : SUBSET Days]

PricesWhole(c) ==
    /\ \A e \in c.priceLog : \A d \in e.from..e.to : d < e.on => c.prices[e.symbol][d].held
    /\ \A s \in Symbols, d \in Days : c.prices[s][d].held => d < today
FilingsWhole(c) ==
    \A e \in c.filingLog : \A v \in filed :
        v.symbol = e.symbol /\ v.report \in e.from..e.to /\ v.revealed < e.on => v \in c.filings
MembersWhole(c) ==
    /\ \A d \in c.memberLog : \A m \in membership[d] : [who |-> m, from |-> d] \in c.members
    /\ \A e \in c.members : e.who \in membership[e.from]

Whole(c) == c \in Caches /\ PricesWhole(c) /\ FilingsWhole(c) /\ MembersWhole(c)

IInv ==
    /\ today \in Dates
    /\ membership \in [1..today -> SUBSET Constituents]
    /\ Whole(cache)

\* The lists are of symbols, so that a snapshot asks for nothing else.
Lists == [listed : BOOLEAN, symbols : SUBSET Symbols]
ListsWhole == list \in Lists /\ copy \in [Procs -> Lists]

World == today \in Dates /\ membership \in [1..today -> SUBSET Constituents]

-----------------------------------------------------------------------------
\* Parts of a request

LEMMA DatesAreNumbers ==
    /\ LastDay \in Nat /\ \A d \in Days : d \in Int /\ d \in Nat
    /\ \A d \in Dates : d \in Nat /\ d \in Int
    /\ Splits \subseteq Days
BY CacheAssumption DEF Days, Dates

LEMMA RowsAreMade ==
    ASSUME World, NEW w \in Windows, NEW d \in Days
    PROVE  Converted(w, d) \in Rows /\ Converted(w, d).held
BY DatesAreNumbers DEF Converted, Rows

LEMMA UpsertedRows ==
    ASSUME World, NEW c, Whole(c), NEW T \in SUBSET Symbols, NEW w \in Windows
    PROVE  /\ Upserted(c.prices, T, w) \in [Symbols -> [Days -> Rows]]
           /\ \A s \in Symbols, d \in Days :
                 /\ c.prices[s][d].held => Upserted(c.prices, T, w)[s][d].held
                 /\ s \in T /\ d \in BarsOf(w) => Upserted(c.prices, T, w)[s][d].held
                 /\ Upserted(c.prices, T, w)[s][d].held => d < today
<1>1. c.prices \in [Symbols -> [Days -> Rows]] /\ PricesWhole(c)
    BY DEF Whole, Caches
<1>2. \A d \in Days : Converted(w, d) \in Rows /\ Converted(w, d).held
    BY RowsAreMade
<1>3. \A s \in Symbols, d \in Days :
         Upserted(c.prices, T, w)[s][d]
            = IF s \in T /\ d \in BarsOf(w) THEN Converted(w, d) ELSE c.prices[s][d]
    BY DEF Upserted
<1>4. Upserted(c.prices, T, w) \in [Symbols -> [Days -> Rows]]
    BY <1>1, <1>2 DEF Upserted
<1>5. \A d \in BarsOf(w) : d < today
    BY DEF BarsOf
<1> QED
    BY <1>1, <1>2, <1>3, <1>4, <1>5 DEF PricesWhole

\* A window that is logged on a day spans days and entries of that day.
LEMMA EntriesAreMade ==
    ASSUME World, NEW T \in SUBSET Symbols, NEW w \in Windows, NEW log \in SUBSET Entries
    PROVE  /\ Logged(log, T, w) \in SUBSET Entries
           /\ \A e \in Logged(log, T, w) : e \in log \/
                 (e.symbol \in T /\ e.from = w.from /\ e.to = w.to /\ e.on = today)
<1>1. \A s \in Symbols : Entry(s, w) \in Entries
    BY DatesAreNumbers DEF Entry, Entries, Windows, World, Dates
<1> QED
    BY <1>1 DEF Logged, Entry

LEMMA WrittenPrices ==
    ASSUME World, NEW c, Whole(c), NEW T \in SUBSET Symbols, NEW w \in Windows,
           NEW U \in SUBSET T
    PROVE  Whole([c EXCEPT !.prices = Upserted(@, T, w), !.priceLog = Logged(@, U, w)])
<1> DEFINE P == Upserted(c.prices, T, w)
           L == Logged(c.priceLog, U, w)
           d == [c EXCEPT !.prices = P, !.priceLog = L]
<1>1. c \in Caches /\ c.priceLog \in SUBSET Entries
    BY DEF Whole, Caches
<1>2. /\ P \in [Symbols -> [Days -> Rows]]
      /\ \A s \in Symbols, x \in Days :
            /\ c.prices[s][x].held => P[s][x].held
            /\ s \in T /\ x \in BarsOf(w) => P[s][x].held
            /\ P[s][x].held => x < today
    BY UpsertedRows
<1>3. /\ L \in SUBSET Entries
      /\ \A e \in L : e \in c.priceLog \/
            (e.symbol \in U /\ e.from = w.from /\ e.to = w.to /\ e.on = today)
    BY <1>1, EntriesAreMade
<1> HIDE DEF P, L
<1>4. d \in Caches /\ d.prices = P /\ d.priceLog = L /\ d.filings = c.filings
      /\ d.filingLog = c.filingLog /\ d.members = c.members /\ d.memberLog = c.memberLog
    BY <1>1, <1>2, <1>3 DEF Caches
<1> HIDE DEF d
<1>5. PricesWhole(d)
    <2>1. ASSUME NEW e \in L, NEW x \in e.from..e.to, x < e.on PROVE P[e.symbol][x].held
        <3>1. e \in Entries /\ x \in Days
            BY <1>3, DatesAreNumbers DEF Entries, Days
        <3>2. CASE e \in c.priceLog
            BY <2>1, <3>1, <3>2, <1>2 DEF Whole, PricesWhole, Entries
        <3>3. CASE e \in L \ c.priceLog
            <4>1. e.symbol \in T /\ x \in w.from..w.to /\ x < today
                BY <1>3, <2>1, <3>3
            <4>2. x \in BarsOf(w)
                BY <4>1 DEF BarsOf, Within
            <4> QED
                BY <1>2, <3>1, <4>1, <4>2
        <3> QED
            BY <3>2, <3>3
    <2> QED
        BY <1>2, <1>4, <2>1 DEF PricesWhole
<1>6. FilingsWhole(d) /\ MembersWhole(d)
    BY <1>4 DEF Whole, FilingsWhole, MembersWhole
<1>7. Whole(d)
    BY <1>4, <1>5, <1>6 DEF Whole
<1> QED
    BY <1>7 DEF d, P, L

LEMMA RequestedPrices ==
    ASSUME World, NEW c, Whole(c), NEW S \in SUBSET Symbols, NEW w \in Windows
    PROVE  Whole(GetPrices(c, S, w)) /\ \A d \in GetPricesTorn(c, S, w) : Whole(d)
<1> DEFINE T == Missing(c.priceLog, S, w)
<1>1. T \in SUBSET Symbols
    BY DEF Missing
<1> HIDE DEF T
<1>2. Whole(PricesDone(c, T, w))
    BY <1>1, WrittenPrices DEF PricesDone
<1>3. \A U \in SUBSET T :
         [[c EXCEPT !.prices = Upserted(@, T, w)] EXCEPT !.priceLog = Logged(@, U, w)]
           = [c EXCEPT !.prices = Upserted(@, T, w), !.priceLog = Logged(@, U, w)]
    BY DEF Whole, Caches
<1>4. ASSUME NEW d \in PricesTorn(c, T, w) PROVE Whole(d)
    <2>1. CASE d = c
        BY <2>1
    <2>2. ASSUME NEW U \in SUBSET T,
                 d = [[c EXCEPT !.prices = Upserted(@, T, w)] EXCEPT !.priceLog = Logged(@, U, w)]
          PROVE  Whole(d)
        <3>1. d = [c EXCEPT !.prices = Upserted(@, T, w), !.priceLog = Logged(@, U, w)]
            BY <2>2, <1>3
        <3> QED
            BY <3>1, <1>1, WrittenPrices
    <2> QED
        BY <1>4, <2>1, <2>2 DEF PricesTorn
<1> QED
    BY <1>2, <1>4 DEF GetPrices, GetPricesTorn, T

LEMMA WrittenFilings ==
    ASSUME World, NEW c, Whole(c), NEW T \in SUBSET Symbols, NEW w \in Windows,
           NEW U \in SUBSET T
    PROVE  Whole([c EXCEPT !.filings = @ \cup FilingsOf(T, w), !.filingLog = Logged(@, U, w)])
<1> DEFINE F == c.filings \cup FilingsOf(T, w)
           L == Logged(c.filingLog, U, w)
           d == [c EXCEPT !.filings = F, !.filingLog = L]
<1>1. c \in Caches /\ c.filingLog \in SUBSET Entries /\ F \in SUBSET filed
    BY DEF Whole, Caches, FilingsOf
<1>2. /\ L \in SUBSET Entries
      /\ \A e \in L : e \in c.filingLog \/
            (e.symbol \in U /\ e.from = w.from /\ e.to = w.to /\ e.on = today)
    BY <1>1, EntriesAreMade
<1>3. \A e \in L : \A v \in filed :
         v.symbol = e.symbol /\ v.report \in e.from..e.to /\ v.revealed < e.on => v \in F
    BY <1>2 DEF Whole, FilingsWhole, FilingsOf, Within
<1> HIDE DEF F, L
<1>4. d \in Caches /\ d.prices = c.prices /\ d.priceLog = c.priceLog /\ d.filings = F
      /\ d.filingLog = L /\ d.members = c.members /\ d.memberLog = c.memberLog
    BY <1>1, <1>2 DEF Caches
<1> HIDE DEF d
<1>5. Whole(d)
    BY <1>3, <1>4 DEF Whole, PricesWhole, FilingsWhole, MembersWhole
<1> QED
    BY <1>5 DEF d, F, L

LEMMA RequestedFilings ==
    ASSUME World, NEW c, Whole(c), NEW S \in SUBSET Symbols, NEW w \in Windows
    PROVE  Whole(GetFundamentals(c, S, w)) /\ \A d \in GetFundamentalsTorn(c, S, w) : Whole(d)
<1> DEFINE T == Unfiled(c, S, w)
<1>1. T \in SUBSET Symbols
    BY DEF Unfiled, Missing
<1> HIDE DEF T
<1>2. Whole(FilingsDone(c, T, w))
    BY <1>1, WrittenFilings DEF FilingsDone
<1>3. \A U \in SUBSET T :
         [[c EXCEPT !.filings = @ \cup FilingsOf(T, w)] EXCEPT !.filingLog = Logged(@, U, w)]
           = [c EXCEPT !.filings = @ \cup FilingsOf(T, w), !.filingLog = Logged(@, U, w)]
    BY DEF Whole, Caches
<1>4. ASSUME NEW d \in FilingsTorn(c, T, w) PROVE Whole(d)
    <2>1. CASE d = c
        BY <2>1
    <2>2. ASSUME NEW U \in SUBSET T,
                 d = [[c EXCEPT !.filings = @ \cup FilingsOf(T, w)] EXCEPT !.filingLog = Logged(@, U, w)]
          PROVE  Whole(d)
        <3>1. d = [c EXCEPT !.filings = @ \cup FilingsOf(T, w), !.filingLog = Logged(@, U, w)]
            BY <2>2, <1>3
        <3> QED
            BY <3>1, <1>1, WrittenFilings
    <2> QED
        BY <1>4, <2>1, <2>2 DEF FilingsTorn
<1> QED
    BY <1>2, <1>4 DEF GetFundamentals, GetFundamentalsTorn, T

\* Snapshots of days that have come, logged or not.
LEMMA WrittenMembers ==
    ASSUME World, NEW c, Whole(c), NEW D \in SUBSET (1..today), NEW E \in SUBSET D
    PROVE  Whole([c EXCEPT !.members = @ \cup Snapshots(D), !.memberLog = @ \cup E])
<1> DEFINE M == c.members \cup Snapshots(D)
           L == c.memberLog \cup E
           d == [c EXCEPT !.members = M, !.memberLog = L]
<1>1. \A x \in D : membership[x] \subseteq Constituents
    BY DEF World
<1>2. \A e \in Snapshots(D) : e.who \in membership[e.from] /\ e \in [who : Constituents, from : 1..today]
    BY DEF Snapshots, Memberships
<1>3. ASSUME NEW x \in D, NEW m \in membership[x]
      PROVE  [who |-> m, from |-> x] \in Snapshots(D)
    <2>1. m \in Constituents
        BY <1>1
    <2>2. [who |-> m, from |-> x] \in Memberships(D)
        BY <2>1 DEF Memberships
    <2> QED
        BY <2>2 DEF Snapshots
<1>4. c \in Caches /\ M \in SUBSET [who : Constituents, from : 1..today] /\ L \in SUBSET (1..today)
    BY <1>2 DEF Whole, Caches
<1>5. /\ \A x \in L : \A m \in membership[x] : [who |-> m, from |-> x] \in M
      /\ \A e \in M : e.who \in membership[e.from]
    BY <1>2, <1>3 DEF Whole, MembersWhole
<1> HIDE DEF M, L
<1>6. d \in Caches /\ d.prices = c.prices /\ d.priceLog = c.priceLog /\ d.filings = c.filings
      /\ d.filingLog = c.filingLog /\ d.members = M /\ d.memberLog = L
    BY <1>4 DEF Caches
<1> HIDE DEF d
<1>7. Whole(d)
    BY <1>5, <1>6 DEF Whole, PricesWhole, FilingsWhole, MembersWhole
<1> QED
    BY <1>7 DEF d, M, L

LEMMA RequestedMembers ==
    ASSUME World, NEW c, Whole(c), NEW D \in SUBSET (1..today)
    PROVE  Whole(Sampled(c, D)) /\ \A d \in GetUniverseTorn(c, D) : Whole(d)
<1>1. ASSUME NEW E \in SUBSET D PROVE Whole(Sampled(c, E))
    BY WrittenMembers DEF Sampled
<1>2. ASSUME NEW E \in SUBSET D, NEW n \in D
      PROVE  Whole([Sampled(c, E) EXCEPT !.members = @ \cup Snapshots({n} \ c.memberLog)])
    <2> DEFINE s == Sampled(c, E)
               A == {n} \ c.memberLog
               t == [s EXCEPT !.members = @ \cup Snapshots(A), !.memberLog = @ \cup {}]
    <2>1. Whole(s)
        BY <1>1
    <2> HIDE DEF s
    <2>2. Whole(t)
        BY <2>1, WrittenMembers
    <2>3. t = [s EXCEPT !.members = @ \cup Snapshots(A)]
        BY <2>1 DEF Whole, Caches
    <2> QED
        BY <2>2, <2>3 DEF s
<1>3. \A n \in D : {x \in D : x < n} \in SUBSET D
    OBVIOUS
<1> QED
    BY <1>1, <1>2, <1>3 DEF GetUniverseTorn

LEMMA RequestedRates ==
    ASSUME World, NEW c, Whole(c), NEW w \in Windows
    PROVE  Whole(GetFxSeries(c, w))
<1> DEFINE R == c.rates \cup BarsOf(w)
           d == [c EXCEPT !.rates = R]
<1>1. c \in Caches /\ R \in SUBSET Days
    BY DatesAreNumbers DEF Whole, Caches, BarsOf, Within, Windows, Days
<1> HIDE DEF R
<1>2. d \in Caches /\ d.prices = c.prices /\ d.priceLog = c.priceLog /\ d.filings = c.filings
      /\ d.filingLog = c.filingLog /\ d.members = c.members /\ d.memberLog = c.memberLog
    BY <1>1 DEF Caches
<1> HIDE DEF d
<1>3. Whole(d)
    BY <1>2 DEF Whole, PricesWhole, FilingsWhole, MembersWhole
<1> QED
    BY <1>3 DEF GetFxSeries, d, R

\* The prices of one share, of the other, and the rates.
LEMMA RequestedPremium ==
    ASSUME World, NEW c, Whole(c), NEW a \in Symbols, NEW h \in Symbols, NEW w \in Windows
    PROVE  Whole(Premium(c, a, h, w)) /\ \A d \in PremiumTorn(c, a, h, w) : Whole(d)
<1> DEFINE one == GetPrices(c, {a}, w)
           two == GetPrices(one, {h}, w)
<1>1. Whole(one) /\ \A d \in GetPricesTorn(c, {a}, w) : Whole(d)
    BY RequestedPrices
<1> HIDE DEF one
<1>2. Whole(two) /\ \A d \in GetPricesTorn(one, {h}, w) : Whole(d)
    BY <1>1, RequestedPrices
<1> HIDE DEF two
<1>3. Whole(GetFxSeries(two, w))
    BY <1>2, RequestedRates
<1> QED
    BY <1>1, <1>2, <1>3 DEF Premium, PremiumTorn, one, two

-----------------------------------------------------------------------------
\* Steps

LEMMA Initially == Init => IInv
<1> SUFFICES ASSUME Init PROVE IInv
    OBVIOUS
<1>1. today \in Dates /\ membership \in [1..today -> SUBSET Constituents]
    BY DatesAreNumbers DEF Init, DataInit, Dates
<1>2. NoRow \in Rows /\ ~NoRow.held
    BY DEF NoRow, Rows
<1>3. cache \in Caches /\ PricesWhole(cache)
    BY <1>2 DEF Init, DataInit, EmptyCache, Caches, PricesWhole
<1>4. FilingsWhole(cache) /\ MembersWhole(cache)
    BY DEF Init, DataInit, EmptyCache, FilingsWhole, MembersWhole
<1> QED
    BY <1>1, <1>3, <1>4 DEF IInv, Whole

\* The world goes on; what was fetched before stays true of it.
LEMMA WorldStep == ASSUME IInv, DataWorld PROVE IInv'
<1> USE DEF IInv
<1>1. CASE NextDay
    <2>1. /\ today' = today + 1 /\ today' \in Dates /\ filed' = filed /\ cache' = cache
          /\ today \in Nat
        BY <1>1, DatesAreNumbers DEF NextDay, Dates
    <2>2. /\ membership' \in [1..today' -> SUBSET Constituents]
          /\ \A d \in 1..today : membership'[d] = membership[d]
        <3>1. PICK members \in SUBSET Constituents :
                 membership' = [d \in 1..(today + 1) |->
                                  IF d = today + 1 THEN members ELSE membership[d]]
            <4>1. today \in 1..today
                BY <2>1, DatesAreNumbers DEF Dates
            <4> QED
                BY <1>1, <4>1 DEF NextDay
        <3> QED
            BY <2>1, <3>1
    <2>3. cache' \in Caches'
        <3>1. Entries \subseteq Entries' /\ 1..today \subseteq 1..today'
            BY <2>1 DEF Entries
        <3> QED
            BY <2>1, <3>1 DEF Whole, Caches
    <2>4. PricesWhole(cache)' /\ FilingsWhole(cache)'
        <3>1. PricesWhole(cache) /\ FilingsWhole(cache)
            BY DEF Whole
        <3>2. \A d \in Days : d < today => d < today'
            BY <2>1, DatesAreNumbers
        <3> QED
            BY <2>1, <3>1, <3>2 DEF PricesWhole, FilingsWhole
    <2>5. MembersWhole(cache)'
        <3>1. /\ \A d \in cache.memberLog : d \in 1..today
              /\ \A e \in cache.members : e.from \in 1..today
            BY DEF Whole, Caches
        <3> QED
            BY <2>1, <2>2, <3>1 DEF Whole, MembersWhole
    <2> QED
        BY <2>1, <2>2, <2>3, <2>4, <2>5 DEF Whole
<1>2. ASSUME NEW s \in Symbols, NEW r \in Reports, NEW k, Publish(s, r, k)
      PROVE  IInv'
    <2>1. /\ today' = today /\ membership' = membership /\ cache' = cache /\ filed \subseteq filed'
          /\ \A v \in filed' \ filed : v.revealed = today
        BY <1>2 DEF Publish
    <2>2. cache' \in Caches'
        BY <2>1 DEF Whole, Caches, Entries
    <2>3. FilingsWhole(cache)'
        <3>1. \A e \in cache.filingLog : e.on \in 1..today
            BY DEF Whole, Caches, Entries
        <3>2. \A e \in cache.filingLog : ~(today < e.on)
            BY <3>1, DatesAreNumbers
        <3> QED
            BY <2>1, <3>2 DEF Whole, FilingsWhole
    <2>4. PricesWhole(cache)' /\ MembersWhole(cache)'
        BY <2>1 DEF Whole, PricesWhole, MembersWhole
    <2> QED
        BY <2>1, <2>2, <2>3, <2>4 DEF Whole
<1> QED
    BY <1>1, <1>2 DEF DataWorld

\* A step that leads from the cache to a whole one.
LEMMA CacheStep ==
    ASSUME IInv, UNCHANGED world, Whole(cache') PROVE IInv'
<1>1. today' = today /\ membership' = membership /\ filed' = filed
    BY DEF world
<1>2. Whole(cache)'
    BY <1>1 DEF Whole, Caches, Entries, PricesWhole, FilingsWhole, MembersWhole
<1> QED
    BY <1>1, <1>2 DEF IInv

LEMMA RequestStep == ASSUME IInv, DataRequest PROVE IInv'
<1>1. World /\ Whole(cache)
    BY DEF IInv, World
<1>2. CASE RequestPrices
    BY <1>1, <1>2, RequestedPrices, CacheStep DEF RequestPrices, Leaves
<1>3. CASE RequestFundamentals
    BY <1>1, <1>3, RequestedFilings, CacheStep DEF RequestFundamentals, Leaves
<1>4. CASE RequestUniverse
    <2>1. PICK w \in Windows : w.to <= today /\ Leaves(GetUniverseTorn(cache, Within(w)),
                                                        Sampled(cache, Within(w)))
        BY <1>4 DEF RequestUniverse
    <2>2. Within(w) \in SUBSET (1..today)
        BY <1>1, <2>1, DatesAreNumbers DEF Within, Windows, Days, World
    <2> QED
        BY <1>1, <2>1, <2>2, RequestedMembers, CacheStep DEF Leaves
<1>5. CASE RequestFxSeries
    BY <1>1, <1>5, RequestedRates, CacheStep DEF RequestFxSeries, Leaves
<1>6. CASE RequestPremium
    BY <1>1, <1>6, RequestedPremium, CacheStep DEF RequestPremium, Leaves
<1> QED
    BY <1>2, <1>3, <1>4, <1>5, <1>6 DEF DataRequest

LEMMA SnapshotStep ==
    ASSUME IInv, list \in Lists, NEW p \in Procs, NEW asof \in SnapshotDays, NEW force \in BOOLEAN,
           Snapshot(p, asof, force)
    PROVE  IInv'
<1> DEFINE S == list.symbols
           w == Day(asof)
           next == GetPrices(cache, S, w)
<1>1. World /\ Whole(cache) /\ S \in SUBSET Symbols
    BY DEF IInv, World, Lists
<1>2. w \in Windows
    BY WatchlistAssumption, DatesAreNumbers DEF Day, Windows
<1> HIDE DEF S, w
<1>3. Whole(next) /\ \A c \in GetPricesTorn(cache, S, w) : Whole(c)
    BY <1>1, <1>2, RequestedPrices
<1> HIDE DEF next
<1>4. ASSUME NEW c, Whole(c)
      PROVE  Whole(GetFundamentals(c, S, w)) /\ \A d \in GetFundamentalsTorn(c, S, w) : Whole(d)
    BY <1>1, <1>2, <1>4, RequestedFilings
<1>5. \A c \in Collected(cache, S, asof) \cup CollectedTorn(cache, S, asof) : Whole(c)
    BY <1>1, <1>3, <1>4 DEF Collected, CollectedTorn, next, w
<1>6. Whole(cache') /\ UNCHANGED world
    BY <1>5 DEF Snapshot, world, S
<1> QED
    BY <1>6, CacheStep

LEMMA ListsStep == ASSUME ListsWhole, [Next]_vars PROVE ListsWhole'
<1> USE DEF ListsWhole, Lists
<1>1. None \in Lists /\ \A S \in SUBSET Symbols : List(S) \in Lists
    BY DEF None, List
<1>2. CASE DataWorld /\ UNCHANGED watch
    BY <1>2 DEF watch
<1>3. ASSUME NEW p \in Procs,
             OpenData(p) \/ UseData(p) \/ CloseData(p) \/ Refused(p) \/ Delete(p)
      PROVE  ListsWhole'
    BY <1>1, <1>3 DEF OpenData, UseData, CloseData, Refused, Delete, Becomes
<1>4. ASSUME NEW p \in Procs, NEW S \in SUBSET Symbols, Create(p, S) PROVE ListsWhole'
    BY <1>1, <1>4 DEF Create
<1>5. ASSUME NEW p \in Procs, Read(p) \/ ImportDelete(p) PROVE ListsWhole'
    BY <1>1, <1>5 DEF Read, ImportDelete, Becomes
<1>6. ASSUME NEW p \in Procs, Write(p) \/ ImportCreate(p) PROVE ListsWhole'
    <2>1. \A S \in SUBSET Symbols : Edited(S) \subseteq SUBSET Symbols
        BY DEF Edited
    <2> QED
        BY <1>1, <1>6, <2>1 DEF Write, ImportCreate, Becomes
<1>7. ASSUME NEW p \in Procs, NEW asof \in SnapshotDays, NEW force \in BOOLEAN,
             Snapshot(p, asof, force)
      PROVE  ListsWhole'
    BY <1>7 DEF Snapshot
<1>8. CASE UNCHANGED vars
    BY <1>8 DEF vars, watch
<1> QED
    BY <1>2, <1>3, <1>4, <1>5, <1>6, <1>7, <1>8 DEF Next

LEMMA Inductive == IInv /\ ListsWhole /\ [Next]_vars => IInv' /\ ListsWhole'
<1> SUFFICES ASSUME IInv, ListsWhole, [Next]_vars PROVE IInv'
    BY ListsStep
<1>1. CASE DataWorld
    BY <1>1, WorldStep
<1>2. ASSUME NEW p \in Procs, UseData(p) PROVE IInv'
    BY <1>2, RequestStep DEF UseData
<1>3. ASSUME NEW p \in Procs, NEW asof \in SnapshotDays, NEW force \in BOOLEAN,
             Snapshot(p, asof, force)
      PROVE  IInv'
    BY <1>3, SnapshotStep DEF ListsWhole
<1>4. CASE UNCHANGED <<world, cache>>
    <2>1. Whole(cache)
        BY DEF IInv
    <2> QED
        BY <1>4, <2>1, CacheStep
<1> QED
    BY <1>1, <1>2, <1>3, <1>4
       DEF Next, vars, OpenData, CloseData, Create, Read, Write, Delete, ImportDelete,
           ImportCreate, Refused

LEMMA InvImplies == IInv => CoveredIsHeld
BY DEF IInv, Whole, PricesWhole, FilingsWhole, MembersWhole, CoveredIsHeld

\* What is logged as fetched is in the cache as far as it was out on the day of
\* the fetch, however a request ended and whoever used the file in between.
THEOREM NothingIsMissed == Spec => []CoveredIsHeld
<1>1. Init => ListsWhole
    BY DEF Init, None, ListsWhole, Lists
<1> QED
    BY <1>1, Initially, Inductive, InvImplies, PTL DEF Spec

-----------------------------------------------------------------------------
\* What a request of a day reads

\* The versions of reports that are out.  Each has the date of its report, which is
\* that of the one version that is no restatement, and without dates there are no
\* two restatements of a report.
OfOneReport(u, v) == u.symbol = v.symbol /\ u.report = v.report
FiledInv ==
    /\ dated \in BOOLEAN
    /\ \A v \in filed : /\ v.revealed \in Dates /\ v.revealed <= today
                        /\ v.published \in Dates /\ v.published <= v.revealed
                        /\ v.kind \in {"audited", "restated"}
                        /\ \E u \in filed : OfOneReport(u, v) /\ u.revealed = v.published
    /\ \A u, v \in filed : OfOneReport(u, v) =>
          /\ u.published = v.published
          /\ u.kind = "audited" /\ v.kind = "audited" => u = v
          /\ u.kind = "restated" /\ v.kind = "restated" /\ ~dated => u = v
    /\ \A v \in filed : v.kind = "audited" => v.revealed = v.published

\* A set of natural numbers that is not empty has a least one.
LEMMA LeastNat ==
    ASSUME NEW S \in SUBSET Nat, S # {}
    PROVE  \E m \in S : \A n \in S : m <= n
<1>1. \E m \in S : \A n \in S : ~(<<n, m>> \in OpToRel(<, Nat))
    BY NatLessThanWellFounded, WFMin, Zenon
<1>2. \A m, n \in S : <<n, m>> \in OpToRel(<, Nat) <=> n < m
    BY DEF OpToRel
<1>3. PICK m \in S : \A n \in S : ~(n < m)
    BY <1>1, <1>2, Zenon
<1> QED
    BY <1>3

LEMMA MinIsOneOfThem ==
    ASSUME NEW S \in SUBSET Nat, S # {}
    PROVE  Min(S) \in S /\ \A n \in S : Min(S) <= n
<1>1. \E m \in S : \A n \in S : m <= n
    BY LeastNat
<1> QED
    BY <1>1 DEF Min

LEMMA PublishedLater ==
    ASSUME FiledInv, today \in Dates, NEW s \in Symbols, NEW r \in Reports,
           NEW k \in {"audited", "restated"}, Publish(s, r, k)
    PROVE  FiledInv'
<1> DEFINE earlier == {v \in filed : v.symbol = s /\ v.report = r}
           first   == IF earlier = {} THEN today ELSE Min({v.published : v \in earlier})
           new     == [symbol |-> s, report |-> r, revealed |-> today, kind |-> k,
                       published |-> first]
<1>1. /\ filed' = filed \cup {new} /\ today' = today /\ dated' = dated
      /\ (k = "restated") <=> (earlier # {})
      /\ dated \/ \A v \in earlier : v.kind # "restated"
    BY DEF Publish
<1>2. CASE earlier = {}
    <2>1. new.published = today /\ new.revealed = today /\ new.kind = "audited"
        BY <1>1, <1>2
    <2>2. \A v \in filed : ~OfOneReport(v, new) /\ ~OfOneReport(new, v)
        BY <1>2 DEF OfOneReport
    <2> HIDE DEF new
    <2>3. OfOneReport(new, new)
        BY DEF OfOneReport
    <2> QED
        BY <1>1, <2>1, <2>2, <2>3, DatesAreNumbers DEF FiledInv, OfOneReport
<1>3. CASE earlier # {}
    <2>1. PICK v \in earlier : TRUE
        BY <1>3
    <2>2. \A u \in earlier : u.published = v.published
        BY DEF FiledInv, OfOneReport
    <2>3. first = v.published
        <3>1. {u.published : u \in earlier} = {v.published} /\ v.published \in Nat
            BY <2>2, DatesAreNumbers DEF FiledInv
        <3> QED
            BY <1>3, <3>1, MinIsOneOfThem
    <2>4. PICK u \in filed : OfOneReport(u, v) /\ u.revealed = v.published
        BY DEF FiledInv
    <2>5. /\ new.symbol = v.symbol /\ new.report = v.report /\ new.revealed = today
          /\ new.published = v.published /\ new.kind = "restated"
        BY <1>1, <1>3, <2>3
    <2>6. \A x \in filed : OfOneReport(x, new) \/ OfOneReport(new, x) => x \in earlier
        BY DEF OfOneReport
    <2>7. \A x \in filed : OfOneReport(x, new) \/ OfOneReport(new, x) =>
             x.published = new.published /\ (dated \/ x.kind # "restated")
        BY <1>1, <2>2, <2>5, <2>6
    <2> HIDE DEF new, earlier, first
    <2>8. OfOneReport(u, new) /\ v.published \in Dates /\ v.published <= today
        BY <2>1, <2>4, <2>5, DatesAreNumbers DEF FiledInv, OfOneReport, earlier
    <2> QED
        BY <1>1, <2>4, <2>5, <2>7, <2>8, DatesAreNumbers DEF FiledInv
<1> QED
    BY <1>2, <1>3

LEMMA FiledStep == IInv /\ FiledInv /\ [Next]_vars => FiledInv'
<1> SUFFICES ASSUME IInv, FiledInv, [Next]_vars PROVE FiledInv'
    OBVIOUS
<1>1. CASE NextDay
    <2>1. filed' = filed /\ dated' = dated /\ today' = today + 1 /\ today \in Int
        BY <1>1, DatesAreNumbers DEF NextDay, IInv
    <2>2. \A v \in filed : v.revealed <= today'
        BY <2>1, DatesAreNumbers DEF FiledInv
    <2> QED
        BY <2>1, <2>2 DEF FiledInv, OfOneReport
<1>2. ASSUME NEW s \in Symbols, NEW r \in Reports, NEW k \in {"audited", "restated"},
             Publish(s, r, k)
      PROVE  FiledInv'
    BY <1>2, PublishedLater DEF IInv
<1>3. CASE UNCHANGED world
    BY <1>3 DEF world, FiledInv
<1>4. DataRequest => UNCHANGED world
    BY DEF DataRequest, RequestPrices, RequestFundamentals, RequestUniverse, RequestFxSeries,
           RequestPremium, Leaves
<1> QED
    BY <1>1, <1>2, <1>3, <1>4
       DEF Next, vars, DataWorld, UseData, OpenData, CloseData, Create, Read, Write, Delete,
           ImportDelete, ImportCreate, Refused, Snapshot

\* Of any versions that a day knows one was known last: dates and ranks count
\* down to it.
Lateness(v) == 4 * (LastDay + 1 - KnownAsOf(v)) + (3 - Rank(v))

LEMMA SomeVersionIsNewest ==
    ASSUME FiledInv, NEW V \in SUBSET filed, NEW v \in V
    PROVE  \E u \in V : /\ ~\E x \in V : Newer(x, u)
                        /\ KnownAsOf(u) >= KnownAsOf(v)
                        /\ KnownAsOf(u) = KnownAsOf(v) => Rank(u) >= Rank(v)
<1>1. \A x \in V : KnownAsOf(x) \in Int /\ KnownAsOf(x) <= LastDay + 1 /\ Rank(x) \in {1, 2, 3}
    BY DatesAreNumbers DEF FiledInv, Rank, Dates, KnownAsOf
<1>2. \A x \in V : Lateness(x) \in Nat
    BY <1>1, DatesAreNumbers DEF Lateness
<1>3. {Lateness(x) : x \in V} \in SUBSET Nat /\ Lateness(v) \in {Lateness(x) : x \in V}
    BY <1>2
<1>4. PICK m \in {Lateness(x) : x \in V} : \A n \in {Lateness(x) : x \in V} : m <= n
    BY <1>3, LeastNat
<1>5. PICK u \in V : Lateness(u) = m
    BY <1>4
<1>6. \A x \in V : Lateness(u) <= Lateness(x)
    BY <1>4, <1>5
<1>7. ASSUME NEW x \in V
      PROVE  ~Newer(x, u) /\ KnownAsOf(u) >= KnownAsOf(x)
             /\ (KnownAsOf(u) = KnownAsOf(x) => Rank(u) >= Rank(x))
    <2>1. /\ KnownAsOf(u) \in Int /\ KnownAsOf(x) \in Int
          /\ Rank(u) \in {1, 2, 3} /\ Rank(x) \in {1, 2, 3}
        BY <1>1
    <2>2. 4 * (LastDay + 1 - KnownAsOf(u)) + (3 - Rank(u))
             <= 4 * (LastDay + 1 - KnownAsOf(x)) + (3 - Rank(x))
        BY <1>6 DEF Lateness
    <2> HIDE DEF Rank, KnownAsOf
    <2> QED
        BY <2>1, <2>2, DatesAreNumbers DEF Newer
<1> QED
    BY <1>7

LEMMA KnownIsRead ==
    ASSUME IInv, FiledInv, NEW asof \in Dates, NEW e \in cache.filingLog, NEW v \in filed,
           v.symbol = e.symbol, v.report \in e.from..e.to, v.revealed < e.on, v.revealed <= asof
    PROVE  \E u \in FundamentalsAt(cache, {e.symbol}, asof) :
              /\ u.report = v.report
              /\ u.revealed > v.revealed \/ (u.revealed = v.revealed /\ (u = v \/ u.kind = "restated"))
<1> DEFINE R == Visible(cache.filings, {e.symbol}, asof)
           V == {x \in R : x.report = v.report}
<1>1. v \in cache.filings /\ cache.filings \subseteq filed
    BY DEF IInv, Whole, FilingsWhole, Caches
<1>2. v \in V
    BY <1>1, DatesAreNumbers DEF FiledInv, Visible, KnownAsOf
<1>3. V \in SUBSET filed
    BY <1>1 DEF Visible
<1>4. \A x \in R : x \in filed /\ x.symbol = e.symbol
    BY <1>1 DEF Visible
<1> HIDE DEF R
<1>5. PICK u \in V : /\ ~\E x \in V : Newer(x, u)
                     /\ KnownAsOf(u) >= KnownAsOf(v)
                     /\ KnownAsOf(u) = KnownAsOf(v) => Rank(u) >= Rank(v)
    BY <1>2, <1>3, SomeVersionIsNewest
<1>6. u \in FundamentalsAt(cache, {e.symbol}, asof)
    BY <1>4, <1>5 DEF FundamentalsAt, R
<1>7. u \in filed /\ OfOneReport(u, v) /\ u.report = v.report
    BY <1>4, <1>5 DEF OfOneReport
<1>8. /\ u.kind \in {"audited", "restated"} /\ v.kind \in {"audited", "restated"}
      /\ u.kind = "audited" /\ v.kind = "audited" => u = v
      /\ u.revealed \in Int /\ v.revealed \in Int
    BY <1>7, DatesAreNumbers DEF FiledInv
\* With dates the later version wins, and a restatement among equals.
<1>9. CASE dated
    <2>1. /\ u.revealed >= v.revealed
          /\ u.revealed = v.revealed => ~(u.kind = "audited" /\ v.kind = "restated")
        BY <1>5, <1>9 DEF KnownAsOf, Rank
    <2> QED
        BY <1>6, <1>7, <1>8, <2>1
\* Without dates all versions are known alike: the restatement wins.
<1>10. CASE ~dated
    <2>1. KnownAsOf(u) = KnownAsOf(v)
        BY <1>7, <1>10 DEF FiledInv, KnownAsOf
    <2>2. ~(u.kind = "audited" /\ v.kind = "restated")
        BY <1>5, <2>1 DEF Rank
    <2>3. u.kind = "restated" /\ v.kind = "restated" => u = v
        BY <1>7, <1>10 DEF FiledInv
    <2>4. u.kind = "restated" /\ v.kind = "audited" => u.revealed >= v.revealed
        BY <1>7, DatesAreNumbers DEF FiledInv, OfOneReport
    <2> QED
        BY <1>6, <1>7, <1>8, <2>2, <2>3, <2>4
<1> QED
    BY <1>9, <1>10 DEF FiledInv

\* What a day reads of a report was out by then, or its report was and the source
\* keeps no dates of restatements.
LEMMA ReadIsOut ==
    ASSUME IInv, FiledInv, NEW asof \in Dates, NEW v \in FundamentalsAt(cache, Symbols, asof)
    PROVE  /\ \E u \in filed : u.symbol = v.symbol /\ u.report = v.report /\ u.revealed <= asof
           /\ v.revealed <= asof \/ (v.kind = "restated" /\ ~dated)
<1>1. v \in filed /\ v.published <= asof /\ KnownAsOf(v) <= asof
    BY DEF FundamentalsAt, Visible, IInv, Whole, Caches
<1>2. PICK u \in filed : OfOneReport(u, v) /\ u.revealed = v.published
    BY <1>1 DEF FiledInv
<1>3. v.revealed <= asof \/ (v.kind = "restated" /\ ~dated)
    BY <1>1 DEF FiledInv, KnownAsOf
<1> QED
    BY <1>1, <1>2, <1>3 DEF OfOneReport

\* A member that is read was a member on some day until then.
LEMMA ReadIsMember ==
    ASSUME IInv, NEW asof \in Dates, NEW m \in MembersAt(cache, asof)
    PROVE  \E d \in 1..today : d <= asof /\ m \in membership[d]
<1>1. PICK e \in cache.members : e.from <= asof /\ m = e.who
    BY DEF MembersAt
<1>2. e.from \in 1..today /\ e.who \in membership[e.from]
    BY <1>1 DEF IInv, Whole, Caches, MembersWhole
<1> QED
    BY <1>1, <1>2

\* Nothing a request of a day reads from the cache came after that day: no report,
\* no member, and no version of a report but undated restatements.
THEOREM NothingFromTheFuture == Spec => []NoHindsight
<1>1. Init => ListsWhole /\ FiledInv
    BY DEF Init, DataInit, None, ListsWhole, Lists, FiledInv
<1>2. IInv /\ FiledInv => NoHindsight
    BY ReadIsOut, ReadIsMember DEF NoHindsight
<1> QED
    BY <1>1, <1>2, Initially, Inductive, FiledStep, PTL DEF Spec

\* A request of a day reads, of every report and every sampled day fetched since,
\* what was known that day and the latest of it.
THEOREM NothingKnownIsOverlooked == Spec => []NothingKnownIsMissing
<1>1. Init => ListsWhole /\ FiledInv
    BY DEF Init, DataInit, None, ListsWhole, Lists, FiledInv
<1>2. IInv /\ FiledInv => NothingKnownIsMissing
    <2> SUFFICES ASSUME IInv, FiledInv PROVE NothingKnownIsMissing
        OBVIOUS
    <2>1. ASSUME NEW asof \in cache.memberLog, NEW m \in membership[asof]
          PROVE  m \in MembersAt(cache, asof)
        <3>1. [who |-> m, from |-> asof] \in cache.members /\ asof \in Int
            BY <2>1 DEF IInv, Whole, MembersWhole, Caches
        <3>2. [who |-> m, from |-> asof] \in {f \in cache.members : f.from <= asof}
            BY <3>1
        <3> QED
            BY <3>2 DEF MembersAt
    <2> QED
        BY <2>1, KnownIsRead DEF NothingKnownIsMissing
<1> QED
    BY <1>1, <1>2, Initially, Inductive, FiledStep, PTL DEF Spec

-----------------------------------------------------------------------------
\* Fresh series

\* From one cache to the next only series of some symbols are fetched, and
\* those without a gap.
Fresh(c, d) ==
    \A e \in d.priceLog \ c.priceLog : \A x \in e.from..(e.to - 1) :
        Joined(d.prices[e.symbol][x], d.prices[e.symbol][x + 1], x)
FreshOf(c, d, T) ==
    /\ Fresh(c, d)
    /\ \A e \in d.priceLog \ c.priceLog : e.symbol \in T
    /\ \A s \in Symbols \ T : d.prices[s] = c.prices[s]

\* Two bars converted together differ by the actions between them.
LEMMA ConvertedTogether ==
    ASSUME World, NEW w \in Windows, NEW x \in BarsOf(w), x + 1 \in BarsOf(w)
    PROVE  Joined(Converted(w, x), Converted(w, x + 1), x)
<1> DEFINE W == Within(w)
           past(y) == \E b \in BarsOf(w) : b < y
<1>1. BarsOf(w) \subseteq W /\ W \subseteq Int /\ Splits \subseteq Int
    BY DatesAreNumbers DEF BarsOf, Within, Windows, Days
<1>2. {y \in Splits \cap W : x < y} \ {y \in Splits \cap W : x + 1 < y} = Splits \cap {x + 1}
    BY <1>1
<1>3. {y \in Splits \cap W : x + 1 < y} \subseteq {y \in Splits \cap W : x < y}
    BY <1>1
<1>4. past(x + 1)
    BY <1>1
<1>5. {y \in Splits \cap W : y <= x + 1 /\ past(y)} \ {y \in Splits \cap W : y <= x /\ past(y)}
         = Splits \cap {x + 1}
    BY <1>1, <1>4
<1>6. {y \in Splits \cap W : y <= x /\ past(y)} \subseteq {y \in Splits \cap W : y <= x + 1 /\ past(y)}
    BY <1>1
<1>7. (x + 1) - 1 \in BarsOf(w)
    BY <1>1
<1> QED
    BY <1>2, <1>3, <1>5, <1>6, <1>7 DEF Joined, Converted

LEMMA FreshlyWritten ==
    ASSUME World, NEW c, Whole(c), NEW T \in SUBSET Symbols, NEW w \in Windows,
           NEW U \in SUBSET T
    PROVE  FreshOf(c, [c EXCEPT !.prices = Upserted(@, T, w), !.priceLog = Logged(@, U, w)], T)
<1> DEFINE P == Upserted(c.prices, T, w)
           L == Logged(c.priceLog, U, w)
           d == [c EXCEPT !.prices = P, !.priceLog = L]
<1>1. c \in Caches /\ c.priceLog \in SUBSET Entries /\ c.prices \in [Symbols -> [Days -> Rows]]
      /\ PricesWhole(c)
    BY DEF Whole, Caches
<1>2. \A s \in Symbols, x \in Days :
         P[s][x] = IF s \in T /\ x \in BarsOf(w) THEN Converted(w, x) ELSE c.prices[s][x]
    BY DEF Upserted
<1>3. \A s \in Symbols \ T : P[s] = c.prices[s]
    BY <1>1 DEF Upserted
<1>4. \A e \in L \ c.priceLog : e.symbol \in T /\ e.from = w.from /\ e.to = w.to
    BY <1>1, EntriesAreMade
<1> HIDE DEF P, L
<1>5. ASSUME NEW s \in T, NEW x \in w.from..(w.to - 1) PROVE Joined(P[s][x], P[s][x + 1], x)
    <2>1. x \in Days /\ x + 1 \in Days /\ x \in Within(w) /\ x + 1 \in Within(w) /\ today \in Int
        BY DatesAreNumbers DEF Windows, Within, Days, World
    <2>2. \A y \in {x, x + 1} : P[s][y].held => y \in BarsOf(w) /\ P[s][y] = Converted(w, y)
        BY <1>1, <1>2, <2>1 DEF PricesWhole, BarsOf
    <2>3. CASE P[s][x].held /\ P[s][x + 1].held
        BY <2>2, <2>3, ConvertedTogether
    <2> QED
        BY <2>3 DEF Joined
<1>6. d.prices = P /\ d.priceLog = L
    BY <1>1 DEF Caches
<1> HIDE DEF d
<1>7. FreshOf(c, d, T)
    BY <1>3, <1>4, <1>5, <1>6 DEF FreshOf, Fresh
<1> QED
    BY <1>7 DEF d, P, L

\* Nothing is fresh where no price is logged.
LEMMA NothingFresh ==
    ASSUME NEW c, NEW d, d.priceLog = c.priceLog PROVE Fresh(c, d)
BY DEF Fresh

LEMMA FreshPrices ==
    ASSUME World, NEW c, Whole(c), NEW S \in SUBSET Symbols, NEW w \in Windows
    PROVE  /\ FreshOf(c, GetPrices(c, S, w), S)
           /\ \A d \in GetPricesTorn(c, S, w) : FreshOf(c, d, S)
<1> DEFINE T == Missing(c.priceLog, S, w)
<1>1. T \in SUBSET Symbols /\ T \subseteq S
    BY DEF Missing
<1> HIDE DEF T
<1>2. \A d : FreshOf(c, d, T) => FreshOf(c, d, S)
    BY <1>1 DEF FreshOf
<1>3. FreshOf(c, PricesDone(c, T, w), S)
    BY <1>1, <1>2, FreshlyWritten DEF PricesDone
<1>4. ASSUME NEW d \in PricesTorn(c, T, w) PROVE FreshOf(c, d, S)
    <2>1. CASE d = c
        BY <2>1 DEF FreshOf, Fresh
    <2>2. ASSUME NEW U \in SUBSET T,
                 d = [[c EXCEPT !.prices = Upserted(@, T, w)] EXCEPT !.priceLog = Logged(@, U, w)]
          PROVE  FreshOf(c, d, S)
        <3>1. d = [c EXCEPT !.prices = Upserted(@, T, w), !.priceLog = Logged(@, U, w)]
            BY <2>2 DEF Whole, Caches
        <3> QED
            BY <3>1, <1>1, <1>2, FreshlyWritten
    <2> QED
        BY <1>4, <2>1, <2>2 DEF PricesTorn
<1> QED
    BY <1>3, <1>4 DEF GetPrices, GetPricesTorn, T

\* A second share does not disturb the series of the first.
LEMMA FreshTogether ==
    ASSUME World, NEW b, NEW c, NEW d, Whole(c), Whole(d), NEW a \in Symbols, NEW h \in Symbols,
           a # h, FreshOf(b, c, {a}), FreshOf(c, d, {h})
    PROVE  Fresh(b, d)
<1> SUFFICES ASSUME NEW e \in d.priceLog \ b.priceLog, NEW x \in e.from..(e.to - 1)
             PROVE  Joined(d.prices[e.symbol][x], d.prices[e.symbol][x + 1], x)
    BY DEF Fresh
<1>1. CASE e \in d.priceLog \ c.priceLog
    BY <1>1 DEF FreshOf, Fresh
<1>2. CASE e \in c.priceLog \ b.priceLog
    <2>1. e.symbol = a /\ d.prices[a] = c.prices[a]
        BY <1>2 DEF FreshOf
    <2>2. Joined(c.prices[e.symbol][x], c.prices[e.symbol][x + 1], x)
        BY <1>2 DEF FreshOf, Fresh
    <2> QED
        BY <2>1, <2>2
<1> QED
    BY <1>1, <1>2

LEMMA FreshPremium ==
    ASSUME World, NEW c, Whole(c), NEW a \in Symbols, NEW h \in Symbols, a # h, NEW w \in Windows
    PROVE  Fresh(c, Premium(c, a, h, w)) /\ \A d \in PremiumTorn(c, a, h, w) : Fresh(c, d)
<1> DEFINE one == GetPrices(c, {a}, w)
           two == GetPrices(one, {h}, w)
<1>0. {a} \in SUBSET Symbols /\ {h} \in SUBSET Symbols
    OBVIOUS
<1>1. /\ Whole(one) /\ FreshOf(c, one, {a})
      /\ \A d \in GetPricesTorn(c, {a}, w) : Fresh(c, d)
    <2>1. FreshOf(c, one, {a}) /\ \A d \in GetPricesTorn(c, {a}, w) : FreshOf(c, d, {a})
        BY <1>0, FreshPrices
    <2> QED
        BY <1>0, <2>1, RequestedPrices DEF FreshOf
<1> HIDE DEF one
<1>2. /\ Whole(two) /\ FreshOf(one, two, {h})
      /\ \A d \in GetPricesTorn(one, {h}, w) : Whole(d) /\ FreshOf(one, d, {h})
    BY <1>0, <1>1, RequestedPrices, FreshPrices
<1> HIDE DEF two
<1>3. Fresh(c, two) /\ \A d \in GetPricesTorn(one, {h}, w) : Fresh(c, d)
    BY <1>1, <1>2, FreshTogether
<1>4. GetFxSeries(two, w).prices = two.prices /\ GetFxSeries(two, w).priceLog = two.priceLog
    BY <1>2 DEF GetFxSeries, Whole, Caches
<1>5. Fresh(c, GetFxSeries(two, w))
    BY <1>3, <1>4 DEF Fresh
<1> QED
    BY <1>1, <1>3, <1>5 DEF Premium, PremiumTorn, one, two

\* The other tables have no part in it.
LEMMA OtherTables ==
    ASSUME World, NEW c, Whole(c)
    PROVE  /\ \A S, w : GetFundamentals(c, S, w).priceLog = c.priceLog
                        /\ GetFundamentals(c, S, w).prices = c.prices
           /\ \A S, w : \A d \in GetFundamentalsTorn(c, S, w) :
                  d.priceLog = c.priceLog /\ d.prices = c.prices
           /\ \A D : Sampled(c, D).priceLog = c.priceLog
           /\ \A D : \A d \in GetUniverseTorn(c, D) : d.priceLog = c.priceLog
           /\ \A w : GetFxSeries(c, w).priceLog = c.priceLog
BY DEF Whole, Caches, GetFundamentals, GetFundamentalsTorn, FilingsDone, FilingsTorn,
       Sampled, GetUniverseTorn, GetFxSeries

LEMMA FreshStep == ASSUME IInv, ListsWhole, [Next]_vars PROVE Fresh(cache, cache')
<1>1. World /\ Whole(cache)
    BY DEF IInv, World
<1>2. CASE RequestPrices
    <2>1. PICK S \in SUBSET Symbols, w \in Windows :
             Leaves(GetPricesTorn(cache, S, w), GetPrices(cache, S, w))
        BY <1>2 DEF RequestPrices
    <2>2. FreshOf(cache, cache', S)
        BY <1>1, <2>1, FreshPrices DEF Leaves
    <2> QED
        BY <2>2 DEF FreshOf
<1>3. CASE RequestFundamentals \/ RequestUniverse \/ RequestFxSeries
    BY <1>1, <1>3, OtherTables, NothingFresh
       DEF RequestFundamentals, RequestUniverse, RequestFxSeries, Leaves
<1>4. CASE RequestPremium
    BY <1>1, <1>4, FreshPremium DEF RequestPremium, Leaves
<1>5. ASSUME NEW p \in Procs, NEW asof \in SnapshotDays, NEW force \in BOOLEAN,
             Snapshot(p, asof, force)
      PROVE  Fresh(cache, cache')
    <2> DEFINE S == list.symbols
               w == Day(asof)
               next == GetPrices(cache, S, w)
    <2>1. S \in SUBSET Symbols /\ w \in Windows
        BY WatchlistAssumption, DatesAreNumbers DEF ListsWhole, Lists, Day, Windows
    <2> HIDE DEF S, w
    <2>2. /\ Whole(next) /\ Fresh(cache, next)
          /\ \A c \in GetPricesTorn(cache, S, w) : Fresh(cache, c)
        BY <1>1, <2>1, RequestedPrices, FreshPrices DEF FreshOf
    <2> HIDE DEF next
    <2>3. ASSUME NEW c \in {cache, next}, NEW d \in {GetFundamentals(c, S, w)} \cup GetFundamentalsTorn(c, S, w)
          PROVE  Fresh(cache, d)
        <3>1. d.priceLog = c.priceLog /\ d.prices = c.prices
            BY <1>1, <2>2, <2>3, OtherTables
        <3> QED
            BY <2>2, <3>1 DEF Fresh
    <2>4. Fresh(cache, cache)
        BY NothingFresh
    <2>5. \A d \in Collected(cache, S, asof) \cup CollectedTorn(cache, S, asof) : Fresh(cache, d)
        BY <2>2, <2>3, <2>4 DEF Collected, CollectedTorn, next, w
    <2> QED
        BY <1>5, <2>5 DEF Snapshot, S
<1>6. CASE UNCHANGED cache
    BY <1>6, NothingFresh
<1> QED
    BY <1>2, <1>3, <1>4, <1>5, <1>6
       DEF Next, vars, DataWorld, NextDay, Publish, DataRequest, UseData, OpenData, CloseData,
           Create, Read, Write, Delete, ImportDelete, ImportCreate, Refused

\* A series that has just been fetched has no gap in its adjustments.
THEOREM FreshSeriesAreContinuous == Spec => FreshIsContinuous
<1>1. Init => ListsWhole
    BY DEF Init, None, ListsWhole, Lists
<1>2. IInv /\ ListsWhole /\ [Next]_vars =>
         [\A e \in cache'.priceLog \ cache.priceLog : \A d \in e.from..(e.to - 1) :
             Joined(cache'.prices[e.symbol][d], cache'.prices[e.symbol][d + 1], d)]_cache
    BY FreshStep DEF Fresh
<1> QED
    BY <1>1, <1>2, Initially, Inductive, PTL DEF Spec, FreshIsContinuous

-----------------------------------------------------------------------------
\* Snapshots

\* With force the earlier rows of the day go, without it there are none.
LEMMA KeptAreOfOtherDays ==
    ASSUME NEW asof, NEW force \in BOOLEAN, Guarded(asof, force)
    PROVE  Kept(asof, force) \subseteq {r \in rows : r.date # asof}
BY DEF Guarded, Kept

LEMMA SnapshotsStayOne == SnapshotIsOneCall /\ [Next]_vars => SnapshotIsOneCall'
<1> SUFFICES ASSUME SnapshotIsOneCall, [Next]_vars PROVE SnapshotIsOneCall'
    OBVIOUS
<1>1. ASSUME NEW p \in Procs, NEW asof \in SnapshotDays, NEW force \in BOOLEAN,
             Snapshot(p, asof, force)
      PROVE  SnapshotIsOneCall'
    <2>1. PICK S : rows' \subseteq Kept(asof, force) \cup Taken(asof, S)
        BY <1>1 DEF Snapshot
    <2>2. \A r \in Kept(asof, force) : r \in rows /\ r.date # asof
        BY <1>1, KeptAreOfOtherDays DEF Snapshot
    <2>3. \A r \in Taken(asof, S) : r.date = asof /\ r.call = calls
        BY DEF Taken
    <2> QED
        BY <2>1, <2>2, <2>3 DEF SnapshotIsOneCall
<1>2. CASE rows' \subseteq rows
    BY <1>2 DEF SnapshotIsOneCall
<1> QED
    BY <1>1, <1>2 DEF Next, vars, watch, OpenData, UseData, CloseData, Create, Read, Write,
                      Delete, ImportDelete, ImportCreate, Refused

\* All rows of a snapshot were collected by one call.
THEOREM SnapshotsAreOneCall == Spec => []SnapshotIsOneCall
<1>1. Init => SnapshotIsOneCall
    BY DEF Init, SnapshotIsOneCall
<1> QED
    BY <1>1, SnapshotsStayOne, PTL DEF Spec
=============================================================================
