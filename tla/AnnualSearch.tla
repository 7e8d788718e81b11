---------------------------- MODULE AnnualSearch -----------------------------
(***************************************************************************)
(* search_annual_reports (cninfo, for the mainland) and                    *)
(* search_hkex_annual_reports (HKEX) of scripts/download_filings.py: the   *)
(* catalogue is read by many queries while the exchange goes on publishing,*)
(* and then classified.                                                    *)
(*                                                                         *)
(* cninfo gives pages, the newest announcement first, so every publication *)
(* shifts them, and it may turn the row of a report into the row of its    *)
(* cancellation.  HKEX gives at most RowRange rows of a window of days; a  *)
(* window whose answer is full is asked for again in two halves.           *)
(*                                                                         *)
(* The selection is written to a manifest, which may later be promoted or  *)
(* revalidated; the files behind it are in FilingStore.                    *)
(***************************************************************************)
EXTENDS FilingCatalog, Sequences

CONSTANTS
    Years,      \* fiscal years
    Cutoff,     \* as_of, or the day of the search
    LastYear,   \* end_year
    Count,      \* years: how many reports are wanted
    PageSize,   \* pageSize of cninfo
    RowRange,   \* rowRange of HKEX
    MaxTime,    \* bound: the times of publication
    MaxFilings, \* bound: announcements
    MaxOdd      \* bound: announcements not known by one year in their title

Times     == 1..MaxTime
Ids       == 1..MaxFilings
Exchanges == {"CN", "HK"}

ASSUME SearchAssumption ==
    /\ NoId \notin Ids /\ Years \subseteq Nat /\ IsFiniteSet(Years) /\ Batch \in Nat
    /\ PageSize \in Nat \ {0} /\ RowRange \in Nat \ {0} /\ Count \in Nat \ {0}
    /\ MaxTime \in Nat /\ MaxFilings \in Nat /\ Cutoff \in Times /\ LastYear \in Nat
    /\ MaxOdd \in Nat

VARIABLES
    server,     \* the catalogue: announcement 1 is the oldest
    exchange,
    windowed,   \* whether cninfo leaves out what is later than the query's seDate
    stage,      \* of the search, and of what is done with its manifest
    todo,       \* the queries still to be put: one page, or windows of days
    asked,      \* the queries put so far with their answers
    manifest,   \* the manifest written, or NoManifest
    again       \* the answers a revalidation has got to the same queries

searchVars == <<server, exchange, windowed, stage, todo, asked, manifest, again>>

NoRows     == [i \in {} |-> NoId]
NoManifest == [as_of |-> 0, rows |-> NoRows, status |-> NoRows]

SearchInit ==
    /\ server = <<>> /\ exchange \in Exchanges
    /\ windowed \in BOOLEAN /\ (exchange = "HK" => windowed)
    /\ stage = "new" /\ todo = <<>> /\ asked = <<>>
    /\ manifest = NoManifest /\ again = <<>>

-----------------------------------------------------------------------------
\* The exchange

\* An announcement has the fiscal year its title names, or none that can be
\* read.  A notice of HKEX may name another one, or one more, as the end of the
\* report period; it is about that year, a correction about its title's if that
\* names one.  (A report whose two years differ is a malformed record.)
Consistent(a) ==
    /\ Cardinality(a.title) <= 1 /\ Cardinality(a.fiscal) <= 1
    /\ a.kind \in {"other", "malformed"} => a.title = {}
    /\ a.fiscal # a.title =>
           exchange = "HK" /\ a.kind \in {"cancel", "correction"} /\ a.fiscal # {}
    /\ a.years = IF a.kind = "correction" /\ a.title # {} THEN a.title ELSE a.fiscal

Odd(a) == a.title = {} \/ a.fiscal # a.title

\* A cancellation may name a report by its id.
Publishable(id) ==
    {a \in Announcements(1..(id - 1), Times, Years) :
        /\ Consistent(a)
        /\ a.kind # "cancel" => a.target = NoId
        /\ id > 1 => server[id - 1].time <= a.time
        /\ Odd(a) => Cardinality({i \in DOMAIN server : Odd(server[i])}) < MaxOdd}

Open == stage \in {"new", "reading", "recheck"}

File ==
    /\ Open /\ Len(server) < MaxFilings
    /\ \E a \in Publishable(Len(server) + 1) : server' = Append(server, a)
    /\ UNCHANGED <<exchange, windowed, stage, todo, asked, manifest, again>>

\* cninfo turns a report into its own cancellation, in place.
Withdraw(i) ==
    /\ Open /\ exchange = "CN" /\ server[i].kind = "annual"
    /\ server' = [server EXCEPT ![i].kind = "cancel"]
    /\ UNCHANGED <<exchange, windowed, stage, todo, asked, manifest, again>>

\* What the pages of cninfo run over; the query's window ends on as_of.
Listed == {i \in DOMAIN server : windowed => server[i].time <= Cutoff}

\* The rows of page p.
OnPage(p) == {i \in Listed : (Cardinality(Listed) - i) \div PageSize = p - 1}

\* The newest RowRange rows of the days of a window.
InWindow(w) ==
    LET all == {i \in DOMAIN server : server[i].time \in w.from..w.to} IN
    {i \in all : Cardinality({j \in all : j > i}) < RowRange}

\* The body of an answer holds the rows and, from cninfo, the number of all that
\* are listed.  How many announcements had been made is kept for the properties.
Answer(q) ==
    LET ids == IF exchange = "CN" THEN OnPage(q) ELSE InWindow(q) IN
    [query |-> q, made |-> Len(server),
     total |-> IF exchange = "CN" THEN Cardinality(Listed) ELSE 0,
     rows  |-> [i \in ids |-> server[i]]]

-----------------------------------------------------------------------------
\* What is read

\* A window whose answer may be truncated; its rows are not used.
Full(a) == exchange = "HK" /\ Cardinality(DOMAIN a.rows) >= RowRange

Whole(answers) == {k \in DOMAIN answers : ~Full(answers[k])}
IdsIn(answers) == UNION {DOMAIN answers[k].rows : k \in Whole(answers)}

\* The records: of an announcement that was given twice the first is kept.
Records(answers) ==
    [i \in IdsIn(answers) |->
        LET first == CHOOSE k \in Whole(answers) :
                         /\ i \in DOMAIN answers[k].rows
                         /\ \A j \in Whole(answers) : i \in DOMAIN answers[j].rows => k <= j
        IN answers[first].rows[i]]

-----------------------------------------------------------------------------
\* The search

Window == [from |-> 1, to |-> Cutoff]

Begin ==
    /\ stage = "new"
    /\ stage' = "reading"
    /\ todo' = IF exchange = "CN" THEN <<1>> ELSE <<Window>>
    /\ UNCHANGED <<server, exchange, windowed, asked, manifest, again>>

\* The pages do not fit together: another total than at first, an end before the
\* total is reached, an announcement that has been read already, or too many.
Faulty(a) ==
    \/ asked # <<>> /\ a.total # asked[1].total
    \/ DOMAIN a.rows = {} /\ Cardinality(IdsIn(asked)) < a.total
    \/ DOMAIN a.rows \cap IdsIn(asked) # {}
    \/ Cardinality(IdsIn(asked)) + Cardinality(DOMAIN a.rows) > a.total

ReadPage ==
    LET a    == Answer(Head(todo))
        read == Cardinality(IdsIn(asked)) + Cardinality(DOMAIN a.rows)
    IN
    /\ stage = "reading" /\ exchange = "CN"
    /\ asked' = Append(asked, a)
    /\ \/ Faulty(a) /\ stage' = "refused" /\ todo' = <<>>
       \/ ~Faulty(a) /\ read = a.total /\ stage' = "classify" /\ todo' = <<>>
       \/ ~Faulty(a) /\ read # a.total /\ stage' = stage /\ todo' = <<Head(todo) + 1>>
    /\ UNCHANGED <<server, exchange, windowed, manifest, again>>

\* (mutant) the second half begins a day late
HalvesWithGap(w) ==
    LET mid == w.from + ((w.to - w.from) \div 2) IN
    <<[from |-> w.from, to |-> mid], [from |-> mid + 2, to |-> w.to]>>

Halves(w) ==
    LET mid == w.from + ((w.to - w.from) \div 2) IN
    <<[from |-> w.from, to |-> mid], [from |-> mid + 1, to |-> w.to]>>

\* _fetch_hkex_complete_catalog; the halves of a window come before what is left.
ReadWindow ==
    LET w    == Head(todo)
        a    == Answer(w)
        rest == Tail(todo)
        next == IF Full(a) THEN Halves(w) \o rest ELSE rest
    IN
    /\ stage = "reading" /\ exchange = "HK"
    /\ asked' = Append(asked, a)
    /\ \/ Full(a) /\ w.from >= w.to /\ stage' = "refused" /\ todo' = <<>>
       \/ /\ ~(Full(a) /\ w.from >= w.to)
          /\ todo' = next
          /\ stage' = IF next = <<>> THEN "classify" ELSE stage
    /\ UNCHANGED <<server, exchange, windowed, manifest, again>>

Query == [cat |-> Records(asked), cutoff |-> Cutoff, last |-> LastYear, count |-> Count]

Classify ==
    /\ stage = "classify"
    /\ stage' = IF Refused(Query) THEN "refused" ELSE "selected"
    /\ UNCHANGED <<server, exchange, windowed, todo, asked, manifest, again>>

-----------------------------------------------------------------------------
\* The manifest

\* write_annual_manifest, once the files are there.  Without --as-of the date is
\* taken from the clock again, where it may be the next day.
Write ==
    LET rows == Records(asked) IN
    /\ stage = "selected" /\ Selected(Query) # {}
    /\ \E day \in {Cutoff, Cutoff + 1} :
          manifest' = [as_of |-> day, rows |-> rows,
                       status |-> [i \in DOMAIN rows |-> Status(Query, i)]]
    /\ stage' = "written"
    /\ UNCHANGED <<server, exchange, windowed, todo, asked, again>>

\* A record rebuilt from its row in the manifest: the fiscal years come from the
\* title again.  A report keeps the end of its period, a notice does not (its row
\* says that none applies), so the year a notice took from it is lost.
Rebuilt(a) ==
    IF a.kind \in {"cancel", "correction"}
    THEN [a EXCEPT !.fiscal = a.title, !.years = a.title]
    ELSE a

\* (mutant) the id a notice names is left out of the reconstructed records
RowsUntargeted(m) ==
    [i \in DOMAIN m.rows |-> [Rebuilt(m.rows[i]) EXCEPT !.target = NoId]]

\* _manifest_candidate_records, read by _to_announcement or _to_hkex_announcement
RowsOf(m) == [i \in DOMAIN m.rows |-> Rebuilt(m.rows[i])]

QueryOf(m, rows) == [cat |-> rows, cutoff |-> m.as_of, last |-> LastYear, count |-> Count]

\* The rows are those of the manifest and have, classified again, the states it
\* gives them.
Reconstructs(m, rows) ==
    LET q == QueryOf(m, rows) IN
    /\ DOMAIN rows = DOMAIN m.rows
    /\ \A i \in DOMAIN rows : rows[i].fiscal = m.rows[i].fiscal /\ rows[i].years = m.rows[i].years
    /\ ~Refused(q)
    /\ \A i \in DOMAIN rows : Status(q, i) = m.status[i]

\* _validate_annual_candidate_evidence
ValidEvidence(m) ==
    LET chosen == {i \in DOMAIN m.rows : m.status[i] = "selected"} IN
    /\ chosen # {}
    /\ \A i \in chosen : m.rows[i].kind \in {"annual", "corrected"}
    /\ \A i, j \in chosen : m.rows[i].fiscal = m.rows[j].fiscal => i = j

PromoteRows ==
    /\ stage = "written"
    /\ stage' = IF ValidEvidence(manifest) /\ Reconstructs(manifest, RowsOf(manifest))
             THEN "promoted" ELSE "rejected"
    /\ UNCHANGED <<server, exchange, windowed, todo, asked, manifest, again>>

\* revalidate_annual_manifest: the window of the recorded queries has to end on
\* the date of the manifest; then they are put again, one by one.
BeginRevalidation ==
    /\ stage = "written"
    /\ stage' = IF manifest.as_of = Cutoff THEN "recheck" ELSE "differs"
    /\ UNCHANGED <<server, exchange, windowed, todo, asked, manifest, again>>

Reask ==
    /\ stage = "recheck" /\ Len(again) < Len(asked)
    /\ again' = Append(again, Answer(asked[Len(again) + 1].query))
    /\ UNCHANGED <<server, exchange, windowed, stage, todo, asked, manifest>>

\* (mutant) only the selected announcements are looked for
ConfirmsSelected(m, old, new) ==
    \A i \in DOMAIN m.rows : m.status[i] = "selected" =>
        i \in IdsIn(new) /\ Records(new)[i] = m.rows[i]

\* What the hash of the answers is taken of
BodiesOf(answers) == [k \in DOMAIN answers |-> [total |-> answers[k].total, rows |-> answers[k].rows]]

\* The answers have the hash of the old ones and lead to the same states, and no
\* row is later than the date of the manifest.
Confirms(m, old, new) ==
    /\ BodiesOf(old) = BodiesOf(new)
    /\ Reconstructs(m, Records(new))
    /\ \A i \in DOMAIN m.rows : m.rows[i].time <= m.as_of

Revalidate ==
    /\ stage = "recheck" /\ Len(again) = Len(asked)
    /\ stage' = IF ValidEvidence(manifest) /\ Confirms(manifest, asked, again)
             THEN "revalidated" ELSE "differs"
    /\ UNCHANGED <<server, exchange, windowed, todo, asked, manifest, again>>

SearchNext ==
    \/ File \/ \E i \in DOMAIN server : Withdraw(i)
    \/ Begin \/ ReadPage \/ ReadWindow \/ Classify
    \/ Write \/ PromoteRows
    \/ BeginRevalidation \/ Reask \/ Revalidate

SearchSpec == SearchInit /\ [][SearchNext]_searchVars
-----------------------------------------------------------------------------
\* Properties

\* A search that is not refused has read every announcement that had been made
\* when it began and that the query's window holds, and cninfo's exactly:
\* publications between two pages shift rows, answers of HKEX are cut off, and
\* none is missed for it.
SearchIsWhole ==
    stage \in {"classify", "selected"} =>
        LET known == 1..asked[1].made IN
        /\ exchange = "CN" =>
               IdsIn(asked) = {i \in known : windowed => server[i].time <= Cutoff}
        /\ exchange = "HK" => {i \in known : server[i].time <= Cutoff} \subseteq IdsIn(asked)

\* A selected report is the newest of its year; no later notice cancels it, by
\* its id or as the report of the year; and a later correction notice only
\* accompanies it, one id and at most Batch behind, being corrected itself.
SelectionIsSound ==
    stage = "selected" =>
        LET records == Records(asked) IN
        \A s \in Selected(Query) : \A i \in DOMAIN records :
            LET r == records[s]
                a == records[i]
                later == /\ a.time <= Cutoff /\ a.years \cap r.years # {}
                         /\ a.time > r.time \/ (a.time = r.time /\ i > s)
            IN
            later =>
                /\ a.kind \notin {"annual", "corrected"}
                /\ a.kind = "cancel" => a.target \notin {s, NoId}
                /\ a.kind = "correction" =>
                       r.kind = "corrected" /\ i = s + 1 /\ a.time - r.time <= Batch

\* What was published after the cutoff changes nothing: the same catalogue
\* without it is classified alike, so a search can be repeated later.
NoLookAhead ==
    stage \in {"classify", "selected", "refused"} =>
        LET records == Records(asked)
            known   == {i \in DOMAIN records :
                           records[i].kind = "malformed" \/ records[i].time <= Cutoff}
        IN Outcome(Query) = Outcome([Query EXCEPT !.cat = [i \in known |-> records[i]]])

\* A manifest that was written can be promoted: its rows, read back from what it
\* stores of them, are given the states it records.  It cannot only if a notice
\* in it took its year from the report period, which is not stored, or if midnight
\* passed before the writing and a row was published on the new day.
WrittenIsPromotable ==
    stage = "rejected" =>
        \E i \in DOMAIN manifest.rows :
            LET a == manifest.rows[i] IN
            \/ a.kind \in {"cancel", "correction"} /\ a.fiscal # a.title
            \/ Cutoff < a.time /\ a.time <= manifest.as_of

\* A manifest that was revalidated says what a search begun at the revalidation
\* would: it holds every announcement that had been made by then and counts, as
\* it was served this time, and the states a search would give to them, though the
\* queries are those of the old search and the exchange publishes between them.
RevalidatedStands ==
    stage = "revalidated" =>
        LET made == {i \in 1..again[1].made : server[i].time <= manifest.as_of}
            rows == Records(again)
        IN
        /\ made \subseteq DOMAIN manifest.rows
        /\ \A i \in made : i \in DOMAIN rows /\ rows[i] = manifest.rows[i]
        /\ \A i \in made : Status(QueryOf(manifest, rows), i) = manifest.status[i]

=============================================================================
