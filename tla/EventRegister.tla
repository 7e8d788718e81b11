---------------------------- MODULE EventRegister ----------------------------
(***************************************************************************)
(* The official registers of a company (who held which office, what        *)
(* regulators published) grow day by day; scripts/build_event_manifest.py  *)
(* builds a manifest from them for a date, and revalidates it later.       *)
(*                                                                         *)
(* The registers are the environment.  BuildManifest and Revalidate see    *)
(* answers that do not change while they run; EventManifest is about those *)
(* that do.                                                                *)
(***************************************************************************)
EXTENDS EventRules

CONSTANTS
    People,
    Texts,      \* what events are about
    Offices,    \* the roles that may change hands
    Founders,   \* the tenures the company begins with
    Listings,   \* the listings it may have
    LastDay,    \* bound: days
    MaxTenures, \* bound: tenures entered later
    MaxRecords  \* bound: publications

Days == 1..LastDay

Persons == People \cup {t.person : t \in Founders}
Tenures == [id : Nat, person : Persons, role : Roles, from : Days, to : Days \cup {Serving}]

ASSUME RegisterAssumption ==
    /\ Serving \notin Days /\ LastDay \in Nat \ {0} /\ Prior \in Nat
    /\ Offices \subseteq Roles /\ Native \cup Ranged \subseteq Sources
    /\ IsFiniteSet(Sources) /\ HomeOf \in [Sources -> UNION {DOMAIN l : l \in Listings}]
    /\ Founders \subseteq Tenures /\ IsFiniteSet(Founders)

\* REQUIRED_SOURCE_IDS names a source of every exchange for every category.
ASSUME ListingAssumption ==
    \A l \in Listings : \A x \in DOMAIN l :
        l[x].from \in Int /\ \A c \in Categories : Required[c][x] # {}

VARIABLES
    today,
    listing,
    roster,     \* the tenures registered so far
    pages,      \* [Sources -> the records published so far, in their order]
    past,       \* history: roster and pages at the end of each day
    manifest,   \* what was built, or Nothing (bound: once)
    known,      \* history: the registers of the manifest's date, and when it was built
    verdict     \* of a revalidation (bound: nothing happens after it)

registerVars == <<today, listing, roster, pages, past, manifest, known, verdict>>

Nothing  == [as_of |-> 0]
Published == UNION {{pages[s][k].record : k \in DOMAIN pages[s]} : s \in Sources}
Known    == [roster |-> roster, pages |-> pages]

\* The registers as they were at the end of a day, or are today.
KnownOn(day) == IF day = today THEN Known ELSE past[day]

RegisterInit ==
    /\ today = 1 /\ listing \in Listings
    /\ roster = Founders /\ pages = [s \in Sources |-> <<>>]
    /\ past = <<>> /\ manifest = Nothing /\ known = Nothing /\ verdict = "none"

-----------------------------------------------------------------------------
\* The registers

Undecided == verdict = "none"

NextDay ==
    /\ Undecided /\ today < LastDay
    /\ today' = today + 1 /\ past' = Append(past, Known)
    /\ UNCHANGED <<listing, roster, pages, manifest, known, verdict>>

Appoint(person, role) ==
    /\ Undecided /\ Cardinality(roster) < Cardinality(Founders) + MaxTenures
    /\ roster' = roster \cup {[id |-> Cardinality(roster) + 1, person |-> person,
                               role |-> role, from |-> today, to |-> Serving]}
    /\ UNCHANGED <<today, listing, pages, past, manifest, known, verdict>>

\* Today is the last day in office.
Depart(t) ==
    /\ Undecided /\ t.role \in Offices /\ t.to = Serving
    /\ roster' = (roster \ {t}) \cup {[t EXCEPT !.to = today]}
    /\ UNCHANGED <<today, listing, pages, past, manifest, known, verdict>>

\* One or several regulators publish what somebody did on an earlier day.
Publish(where) ==
    /\ Undecided /\ Cardinality(Published) < MaxRecords
    /\ \E category \in Categories, t \in {u \in roster : u.role \in Offices},
          day \in 1..today, status \in Statuses, text \in Texts,
          connection \in Connections \ {"issuer"} :
          pages' = [s \in Sources |->
              IF s \notin where THEN pages[s]
              ELSE Append(pages[s],
                  [record |-> Cardinality(Published) + 1, category |-> category,
                   subject |-> IF s \in Native THEN t.person ELSE t.id,
                   role |-> t.role, connection |-> connection, day |-> day,
                   published |-> today, status |-> status, effective |-> today,
                   text |-> text])]
    /\ UNCHANGED <<today, listing, roster, past, manifest, known, verdict>>

\* What was pending becomes final, in place.
Conclude(source, k) ==
    /\ Undecided /\ pages[source][k].status = "pending"
    /\ pages' = [pages EXCEPT ![source][k].status = "final", ![source][k].effective = today]
    /\ UNCHANGED <<today, listing, roster, past, manifest, known, verdict>>

-----------------------------------------------------------------------------
\* build_manifest: one plan asks the same sources in every category, all of them
\* from the day on that the category begins with

Answers(category, sources, start, as_of) ==
    LET order == SetToSeq(sources) IN
    [k \in DOMAIN order |-> AnswerTo(pages[order[k]], order[k], category, start, as_of)]

\* What the records of a category become.
EventsOf(category, sources, start, as_of, subjects) ==
    LET order   == SetToSeq(sources)
        answers == Answers(category, sources, start, as_of)
    IN [k \in DOMAIN order |-> Events(order[k], answers[k], subjects)]

ValidQuery(category, sources, start, as_of, subjects) ==
    /\ RequiredSources(category, listing, as_of) \subseteq sources
    /\ \A s \in sources :
          LET answer == AnswerTo(pages[s], s, category, start, as_of) IN
          /\ HomeOf[s] \in ListedBy(listing, as_of)
          /\ ReachesBack(category, s, start, listing, as_of)
          /\ \A k \in DOMAIN answer :
                 ValidRecord(s, category, answer[k], subjects, start, as_of)

\* The company is sought on an exchange it is listed on at the date.
ValidSubjects(subjects, as_of) ==
    /\ \E x \in ActiveAt(listing, as_of) : ValidListing(listing, x, as_of)
    /\ ValidRoster(subjects, TRUE, HistoryStart(listing, as_of), as_of)

\* Who declares the subjects may leave somebody out or take one as still serving.
Declarations ==
    {roster} \cup {roster \ {t} : t \in roster}
    \cup {(roster \ {t}) \cup {[t EXCEPT !.to = Serving]} : t \in roster}

BuildManifest(as_of) ==
    /\ manifest = Nothing
    /\ \E subjects \in {d \in Declarations : Recognised(roster, d)} :
          /\ ValidSubjects(subjects, as_of)
          /\ \E sources \in SUBSET Sources, start \in [Categories -> 1..as_of] :
                LET events(c) == EventsOf(c, sources, start[c], as_of, subjects) IN
                /\ \A c \in Categories : ValidQuery(c, sources, start[c], as_of, subjects)
                /\ manifest' =
                      [as_of |-> as_of, start |-> start, sources |-> sources, roster |-> subjects,
                       events |-> [c \in Categories |-> events(c)],
                       list |-> [c \in Categories |-> Aggregate(events(c))]]
    /\ known' = [before |-> KnownOn(as_of), now |-> Known]
    /\ UNCHANGED <<today, listing, roster, pages, past, verdict>>

\* revalidate_manifest: the official roster is the manifest's and makes one still.
SubjectsStand == roster = manifest.roster /\ ValidSubjects(roster, manifest.as_of)

\* _events_from_live_pages: the events the same queries bring now.
LiveEvents(category) ==
    EventsOf(category, manifest.sources, manifest.start[category], manifest.as_of, manifest.roster)

\* revalidate_manifest: the same answers, and the list made of them again.
Revalidate ==
    /\ Undecided /\ manifest # Nothing
    /\ verdict' =
          IF /\ SubjectsStand
             /\ \A c \in Categories :
                   /\ ValidQuery(c, manifest.sources, manifest.start[c], manifest.as_of, manifest.roster)
                   /\ LiveEvents(c) = manifest.events[c]
                   /\ AggregateAgain(LiveEvents(c)) = manifest.list[c]
          THEN "confirmed" ELSE "differs"
    /\ UNCHANGED <<today, listing, roster, pages, past, manifest, known>>

RegisterNext ==
    \/ NextDay
    \/ \E person \in People, role \in Offices : Appoint(person, role)
    \/ \E t \in roster : Depart(t)
    \/ \E where \in (SUBSET Sources) \ {{}} : Publish(where)
    \/ \E s \in Sources : \E k \in DOMAIN pages[s] : Conclude(s, k)
    \/ \E as_of \in 1..today : BuildManifest(as_of)
    \/ Revalidate

RegisterSpec == RegisterInit /\ [][RegisterNext]_registerVars
-----------------------------------------------------------------------------
\* Properties

\* The walk along the tenures of a role finds it filled exactly if it was filled
\* on every day, however the tenures nest, touch or overlap.
HistoryIsWhole ==
    \A role \in Continual, start \in Days : \A as_of \in start..today :
        Continuous(roster, role, start, as_of)
            <=> \A day \in start..as_of : \E t \in roster : t.role = role /\ Covers(t, day)

\* A manifest for an earlier day holds what could be known on that day: its
\* tenures and its records are those registered then, in the state they had then,
\* though the registers it was built from went on.
NoHindsight ==
    manifest # Nothing =>
        /\ manifest.roster = known.before.roster
        /\ \A c \in Categories : \A k \in DOMAIN manifest.list[c] :
              LET e == manifest.list[c][k] IN
              \A from \in e.provenance :
                  \E j \in DOMAIN known.before.pages[from[1]] :
                      LET r == known.before.pages[from[1]][j] IN
                      r.record = from[2] /\ r.status = e.status /\ r.day = e.day

\* Nothing is left out and nobody is taken for another: what a regulator of any
\* exchange the company was ever listed on had published by the date, of the days
\* the category is about or still open, stands in the list once, as an event of
\* the tenure in which it happened, or which the source says.
NothingIsLeftOut ==
    manifest # Nothing =>
        LET as_of == manifest.as_of
            Due(c, s, j) ==
                LET r == known.before.pages[s][j] IN
                /\ r.category = c
                /\ \E x \in DOMAIN listing : listing[x].from <= as_of /\ s \in Required[c][x]
                /\ IF c \in Historical THEN r.day >= listing[HomeOf[s]].from
                   ELSE r.day >= as_of - Prior \/ known.now.pages[s][j].status = "pending"
        IN
        \A c \in Categories, s \in Sources : \A j \in DOMAIN known.before.pages[s] :
            LET r == known.before.pages[s][j]
                held == {k \in DOMAIN manifest.list[c] :
                            <<s, r.record>> \in manifest.list[c][k].provenance}
            IN
            Due(c, s, j) =>
                \E k \in held :
                    /\ held = {k}
                    /\ \E t \in manifest.roster :
                          /\ t.id = manifest.list[c][k].tenure /\ t.role = r.role
                          /\ r.subject \in {t.person, t.id}

=============================================================================
