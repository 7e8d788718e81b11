---------------------------- MODULE FilingCatalog ----------------------------
(***************************************************************************)
(* Which annual reports scripts/download_filings.py selects from a         *)
(* catalogue of official announcements: _classify_annual_catalog and what  *)
(* it calls.  The result is a function of the catalogue, so this module has*)
(* operators only; AnnualSearch uses them.                                 *)
(*                                                                         *)
(* An announcement is known by its id, a number.  Its title counts only    *)
(* through the kind the title patterns give it and the fiscal year it      *)
(* names (title, a set of at most one).  The record keeps a fiscal year of *)
(* its own (fiscal), which HKEX may state beside the title, and the fiscal *)
(* years the announcement is about (years), by which it is classified.  A  *)
(* query q holds the catalogue (a function from ids), the cutoff, the last *)
(* fiscal year wanted and the number of years wanted.                      *)
(***************************************************************************)
EXTENDS Integers, FiniteSets

CONSTANTS
    NoId,       \* no announcement
    Batch       \* the five minutes a notice may come after its correction

\* What the title patterns tell apart.  "malformed" is a record without a
\* title, an address or a time; "other" a title they exclude.
Kinds == {"annual", "corrected", "cancel", "correction", "other", "malformed"}

Announcements(Ids, Times, Years) ==
    [kind : Kinds, time : Times, target : Ids \cup {NoId},
     title : SUBSET Years, fiscal : SUBSET Years, years : SUBSET Years]

-----------------------------------------------------------------------------
\* The states an announcement is put in before anything is selected

\* (mutant) notices and reports published after the cutoff count as well
LiveWithFuture(q) == {i \in DOMAIN q.cat : q.cat[i].kind # "malformed"}

Live(q) == {i \in DOMAIN q.cat :
                q.cat[i].kind # "malformed" /\ q.cat[i].time <= q.cutoff}

OfKind(q, kinds)    == {i \in Live(q) : q.cat[i].kind \in kinds}
Notices(q, kind, y) == {i \in OfKind(q, {kind}) : y \in q.cat[i].years}
Reports(q, y)       == {i \in OfKind(q, {"annual", "corrected"}) : y \in q.cat[i].years}
Candidates(q, y)    == IF y <= q.last THEN Reports(q, y) ELSE {}

\* The fiscal years that some live announcement is about.
YearsOf(q) == UNION {q.cat[i].years : i \in Live(q)}

\* A notice whose title names no fiscal year, or a malformed record, ends the
\* search with an error.
Unreadable(q) ==
    \/ \E i \in DOMAIN q.cat : q.cat[i].kind = "malformed"
    \/ \E i \in OfKind(q, {"cancel", "correction"}) : q.cat[i].years = {}

-----------------------------------------------------------------------------
\* The official order of announcements, and what a notice replaces

Before(q, i, j) ==
    \/ q.cat[i].time < q.cat[j].time
    \/ q.cat[i].time = q.cat[j].time /\ i < j

Newest(q, S) == IF S = {} THEN NoId
                ELSE CHOOSE i \in S : \A j \in S \ {i} : Before(q, j, i)

\* What a notice for year y can be about: the reports of the year and, if it is
\* the first of all, a cancellation, whose row was the report before the source
\* changed it.
Replaceable(q, y) ==
    LET all == Reports(q, y) \cup Notices(q, "cancel", y) IN
    Reports(q, y) \cup {i \in all : \A j \in all \ {i} : Before(q, i, j)}

Target(q, n, y) ==
    IF q.cat[n].target # NoId THEN q.cat[n].target
    ELSE Newest(q, {i \in Replaceable(q, y) : Before(q, i, n)})

-----------------------------------------------------------------------------
\* Cancellations

Chosen(q, y) == Newest(q, Candidates(q, y))

\* Notice n takes the report chosen for year y away.
Removes(q, n, y) ==
    /\ Target(q, n, y) \in {Chosen(q, y), NoId}
    /\ Before(q, Chosen(q, y), n)

\* The notices that are looked at: in their order, up to the first that removes.
Heard(q, y) ==
    LET all == Notices(q, "cancel", y) IN
    IF Chosen(q, y) = NoId THEN {}
    ELSE {n \in all : ~\E m \in all : Before(q, m, n) /\ Removes(q, m, y)}

Withdrawn(q, y) == \E n \in Heard(q, y) : Removes(q, n, y)

Cancelled(q, y) ==
    (IF Withdrawn(q, y) THEN {Chosen(q, y)} ELSE {}) \cup
    ({Target(q, n, y) : n \in Heard(q, y)} \cap Candidates(q, y))

\* A cancellation of something the catalogue does not hold is an error.
TargetMissing(q, y) ==
    \E n \in Heard(q, y) : Target(q, n, y) \notin Candidates(q, y) \cup {NoId}

\* (mutant) a cancellation is looked up but not acted upon
KeptAlways(q, y) == Chosen(q, y)

Kept(q, y) == IF Withdrawn(q, y) THEN NoId ELSE Chosen(q, y)

-----------------------------------------------------------------------------
\* Corrections

\* A correction notice published right after the corrected report it is about.
SameBatch(q, report, notice) ==
    /\ notice = report + 1
    /\ q.cat[notice].time - q.cat[report].time \in 0..Batch

\* A notice newer than the report kept, with no corrected report to go with it.
Uncorrected(q, y) ==
    LET n == Newest(q, Notices(q, "correction", y)) IN
    /\ Kept(q, y) # NoId /\ n # NoId
    /\ Before(q, Kept(q, y), n)
    /\ ~\E r \in Candidates(q, y) :
            /\ q.cat[r].kind = "corrected"
            /\ Before(q, n, r) \/ SameBatch(q, r, n)

-----------------------------------------------------------------------------
\* The result

Refused(q) ==
    \/ Unreadable(q)
    \/ \E y \in YearsOf(q) : TargetMissing(q, y) \/ Uncorrected(q, y)

KeptYears(q)   == {y \in YearsOf(q) : Kept(q, y) # NoId}
LatestYears(q) ==
    LET kept == KeptYears(q) IN {y \in kept : Cardinality({z \in kept : z > y}) < q.count}
Selected(q)    == {Kept(q, y) : y \in LatestYears(q)}

\* The status each record of the manifest carries: the first that applies.
Status(q, i) ==
    LET a == q.cat[i] IN
    IF a.time > q.cutoff                 THEN "after_cutoff"
    ELSE IF a.kind = "cancel"            THEN "cancellation"
    ELSE IF a.kind = "correction"        THEN "correction_notice"
    ELSE IF a.kind = "other"             THEN "excluded"
    ELSE IF a.years = {}                 THEN "unresolved_fiscal_year"
    ELSE IF \A y \in a.years : y > q.last THEN "after_target_year"
    ELSE IF i \in Selected(q)            THEN "selected"
    ELSE IF \E y \in a.years : i \in Cancelled(q, y) THEN "cancelled"
    ELSE IF \E y \in a.years : Kept(q, y) \notin {NoId, i} THEN "superseded"
    ELSE "outside_window"

Outcome(q) == IF Refused(q) THEN [refused |-> TRUE, status |-> <<>>]
              ELSE [refused |-> FALSE,
                    status |-> [i \in Live(q) |-> Status(q, i)]]
=============================================================================
