------------------------------ MODULE EventRules ------------------------------
(***************************************************************************)
(* What scripts/build_event_manifest.py derives from the official answers  *)
(* it has: which tenures make a roster, which tenure an event is about,    *)
(* which events a query may contain, and how the events of several sources *)
(* become one list.  All of it is a function of the answers; EventRegister *)
(* and its instances use it.                                               *)
(*                                                                         *)
(* Days are numbers.  A tenure is one stretch of one person in one role.  A*)
(* record is what a source says of one event; its text stands for the      *)
(* document, the offence and the title, which count only by being equal.   *)
(***************************************************************************)
EXTENDS Integers, SequencesExt

CONSTANTS
    Serving,    \* the end of a tenure that goes on, of a listing that goes on
    Sources,
    Native,     \* the sources that name persons; the others name tenures
    Ranged,     \* the sources that answer only for the days asked for
    HomeOf,     \* [Sources -> exchanges]: whose issuer code a source knows
    Required,   \* [categories -> [exchanges -> sets of sources]]
    Prior       \* how far back a rolling query has to reach: three years

Roles       == {"issuer", "auditor", "controller", "chair", "cfo"}
Continual   == {"chair", "cfo"}
Categories  == {"formal_sanctions", "late_filings"}
Historical  == {"formal_sanctions"}
Statuses    == {"pending", "final"}
Connections == {"issuer", "during", "after", "unknown"}

TypeOfRole(role) == IF role \in Continual THEN "management" ELSE role

-----------------------------------------------------------------------------
\* The roster

UpTo(end, day)   == IF end = Serving THEN day ELSE end
Covers(t, day)   == t.from <= day /\ (t.to = Serving \/ day <= t.to)
InOffice(t, day, as_of) == t.from <= day /\ day <= UpTo(t.to, as_of)

Overlap(t, u, as_of) == t.from <= UpTo(u.to, as_of) /\ u.from <= UpTo(t.to, as_of)

ValidPeriod(t, as_of) ==
    t.from <= as_of /\ (t.to # Serving => t.from <= t.to /\ t.to <= as_of)

\* A person has one type, and one tenure at a time in a role.
Ambiguous(roster, as_of) ==
    \E t, u \in roster :
        /\ t # u /\ t.person = u.person
        /\ \/ TypeOfRole(t.role) # TypeOfRole(u.role)
           \/ t.role = u.role /\ Overlap(t, u, as_of)

TypesOf(roster) == {TypeOfRole(t.role) : t \in roster}

\* (mutant) a tenure may begin a day after the cursor
StepsOverGap(start, as_of, cursor, t) ==
    IF cursor.stopped \/ t.from > cursor.day + 1 THEN [cursor EXCEPT !.stopped = TRUE]
    ELSE LET next == UpTo(t.to, as_of) + 1 IN
         [day |-> IF next > cursor.day THEN next ELSE cursor.day,
          stopped |-> next > as_of]

\* One period of require_continuous_role_history: the cursor is the first day not
\* known to be covered.
Steps(start, as_of, cursor, t) ==
    IF cursor.stopped \/ t.from > cursor.day THEN [cursor EXCEPT !.stopped = TRUE]
    ELSE LET next == UpTo(t.to, as_of) + 1 IN
         [day |-> IF next > cursor.day THEN next ELSE cursor.day,
          stopped |-> next > as_of]

Sooner(t, u, as_of) ==
    \/ t.from < u.from
    \/ t.from = u.from /\ UpTo(t.to, as_of) <= UpTo(u.to, as_of)

Sorted(tenures, as_of) ==
    CHOOSE p \in [1..Cardinality(tenures) -> tenures] :
        \A j, k \in DOMAIN p : j < k => p[j] # p[k] /\ Sooner(p[j], p[k], as_of)

Continuous(roster, role, start, as_of) ==
    LET periods == Sorted({t \in roster : t.role = role}, as_of)
        cursor[k \in 0..Len(periods)] ==
            IF k = 0 THEN [day |-> start, stopped |-> FALSE]
            ELSE Steps(start, as_of, cursor[k - 1], periods[k])
    IN cursor[Len(periods)].day > as_of

\* A controller is required unless none is identified, and then there is none.
ValidRoster(roster, identified, start, as_of) ==
    /\ \A t \in roster : ValidPeriod(t, as_of)
    /\ ~Ambiguous(roster, as_of)
    /\ {"issuer", "management", "auditor"} \subseteq TypesOf(roster)
    /\ identified <=> "controller" \in TypesOf(roster)
    /\ \A role \in Continual \cup (IF identified THEN {"controller"} ELSE {}) :
           Continuous(roster, role, start, as_of)

SameTenure(t, d) == t.person = d.person /\ t.role = d.role /\ t.from = d.from /\ t.to = d.to

\* _native_roster_subjects: the declared tenures are those of the official roster,
\* each of them once.
Recognised(official, declared) ==
    /\ \A t \in official : Cardinality({d \in declared : SameTenure(t, d)}) = 1
    /\ \A d \in declared : Cardinality({t \in official : SameTenure(t, d)}) = 1

-----------------------------------------------------------------------------
\* Listings: [exchanges -> [from, to]]

ListedBy(listing, as_of) == {x \in DOMAIN listing : listing[x].from <= as_of}
ActiveAt(listing, as_of) ==
    {x \in ListedBy(listing, as_of) : listing[x].to = Serving \/ listing[x].to > as_of}
HistoryStart(listing, as_of) ==
    Min({listing[x].from : x \in ListedBy(listing, as_of)})

\* _normalize_listing_profile_response: what the profile of a company sought on an
\* exchange has to say.
ValidListing(listing, exchange, as_of) ==
    /\ exchange \in ListedBy(listing, as_of)
    /\ DOMAIN listing \subseteq {"SH", "SZ", "HK"} /\ ~({"SH", "SZ"} \subseteq DOMAIN listing)
    /\ \A x \in DOMAIN listing : listing[x].to = Serving \/ listing[x].from <= listing[x].to

\* (mutant) an exchange the company has left is not asked any more
RequiredOfActive(category, listing, as_of) ==
    UNION {Required[category][x] : x \in ActiveAt(listing, as_of)}

RequiredSources(category, listing, as_of) ==
    UNION {Required[category][x] : x \in ListedBy(listing, as_of)}

-----------------------------------------------------------------------------
\* Queries and their answers

\* A query that reaches back far enough.
ReachesBack(category, source, start, listing, as_of) ==
    IF category \in Historical THEN start <= listing[HomeOf[source]].from
    ELSE start <= as_of - Prior

\* What is before the window may still be open: a rolling query asks for that.
Inside(category, r, start) ==
    \/ r.day >= start /\ r.published >= start
    \/ r.status = "pending" /\ category \notin Historical

Wanted(source, category, r, start, as_of) ==
    /\ r.category = category
    /\ source \in Ranged => Inside(category, r, start) /\ r.published <= as_of

\* The official answer to a query, as a source should give it.
AnswerTo(page, source, category, start, as_of) ==
    LET picked[k \in 0..Len(page)] ==
            IF k = 0 THEN <<>>
            ELSE IF Wanted(source, category, page[k], start, as_of)
                 THEN Append(picked[k - 1], page[k]) ELSE picked[k - 1]
    IN picked[Len(page)]

\* The tenures a record may be about.
Meant(source, r, roster) ==
    IF source \in Native
    THEN {t \in roster : t.person = r.subject /\ t.role = r.role /\ Covers(t, r.day)}
    ELSE {t \in roster : t.id = r.subject}

\* What the record says of the subject fits its tenure.
ValidConnection(r, t, as_of) ==
    /\ r.role = t.role
    /\ r.connection = "issuer" <=> t.role = "issuer"
    /\ r.connection = "unknown" => r.status = "pending"
    /\ r.connection = "during"  => InOffice(t, r.day, as_of)
    /\ r.connection = "after"   => ~InOffice(t, r.day, as_of)

\* (mutant) a later change of the status is not looked at
ValidTimesPublished(r, as_of) == r.day <= as_of /\ r.published <= as_of

ValidTimes(r, as_of) == r.day <= as_of /\ r.published <= as_of /\ r.effective <= as_of

ValidRecord(source, category, r, roster, start, as_of) ==
    /\ Cardinality(Meant(source, r, roster)) = 1
    /\ ValidTimes(r, as_of)
    /\ Inside(category, r, start)
    /\ category \in Historical => r.status = "final"
    /\ \A t \in Meant(source, r, roster) : ValidConnection(r, t, as_of)

\* _normalize_event
Event(source, r, roster) ==
    [text |-> r.text, day |-> r.day, status |-> r.status,
     tenure |-> (CHOOSE t \in Meant(source, r, roster) : TRUE).id,
     provenance |-> {<<source, r.record>>}]

Events(source, answer, roster) ==
    [k \in DOMAIN answer |-> Event(source, answer[k], roster)]

-----------------------------------------------------------------------------
\* One list of events

Key(e) == <<e.text, e.day, e.status, e.tenure>>

\* One event of _merge_canonical_events.
MergeOne(list, e) ==
    LET same == {k \in DOMAIN list : Key(list[k]) = Key(e)} IN
    IF same = {} THEN Append(list, e)
    ELSE [k \in DOMAIN list |->
             IF k = Max(same) THEN [list[k] EXCEPT !.provenance = @ \cup e.provenance]
             ELSE list[k]]

Merge(list, events) ==
    LET merged[k \in 0..Len(events)] ==
            IF k = 0 THEN list ELSE MergeOne(merged[k - 1], events[k])
    IN merged[Len(events)]

MergeAll(list, answers) ==
    LET merged[k \in 0..Len(answers)] ==
            IF k = 0 THEN list ELSE Merge(merged[k - 1], answers[k])
    IN merged[Len(answers)]

\* build_manifest takes the events of the first source as they are.
Aggregate(answers) == MergeAll(Head(answers), Tail(answers))

\* revalidate_manifest begins with an empty list.
AggregateAgain(answers) == MergeAll(<<>>, answers)
=============================================================================
