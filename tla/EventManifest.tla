---------------------------- MODULE EventManifest ----------------------------
(***************************************************************************)
(* How evidence of regulatory events becomes a manifest while the official *)
(* sources and the local files may change at any time:                     *)
(*                                                                         *)
(*   collect     scripts/collect_event_evidence.py stores every answer in a*)
(*               file and binds the files together in a bundle             *)
(*   publish     build_event_manifest.write_manifest builds a manifest from*)
(*               a bundle, asking the sources again                        *)
(*   revalidate  build_event_manifest.revalidate_manifest                  *)
(*                                                                         *)
(* An answer stands for its bytes and its hash: a version, never used twice*)
(* for the same item.  What is derived from the answers is in EventRules.  *)
(* A process works on one job after the other; all of a job's reads, in the*)
(* order of the code, are its program.  A file is compared with the live   *)
(* answer in one step: nothing that changes one of the two depends on the  *)
(* other.                                                                  *)
(***************************************************************************)
EXTENDS Integers, Sequences, FiniteSets

CONSTANTS
    Procs,
    MaxChanges,     \* bound: changes of a source or of a file
    MaxJobs         \* bound: jobs

\* The profile and the roster are treated alike; so are all documents.
Roster   == "roster"
Page     == "page"
Document == "document"
Items    == {Roster, Page, Document}
Jobs     == {"collect", "publish", "revalidate"}

NotSeen == -1
NoPlan  == [paths |-> [i \in Items |-> <<>>], rev |-> NotSeen]
NoName  == <<>>

ASSUME ManifestAssumption == MaxChanges \in Nat /\ MaxJobs \in Nat

VARIABLES
    official,   \* [Items -> what the source answers now]; for the roster with a quote
    evidence,   \* the files of answers, by name
    drafts,     \* the bundles under validation, by name
    bundles,    \* the bundles, by name
    manifests,  \* the manifests, by name
    job, step,  \* the job of each process and its next step; "none" when idle
    seen,       \* the versions a job works with
    plan,       \* the bundle it has read or is making
    source,     \* the name of the bundle or of the manifest it is given
    target,     \* the name it has decided to write to
    outcome,    \* of the last job: "none", "done", "refused" or "occupied"
    moments,    \* history: the files and answers there were during the job, and
    settled,    \* how many of them when it had read everything once
    changes, jobs

files  == <<evidence, drafts, bundles, manifests>>
locals == <<seen, plan, source, target>>
vars   == <<official, files, job, step, locals, outcome, moments, settled, changes, jobs>>

\* Nothing has been collected, or what the sources answer still.
FirstPlan == [paths |-> [i \in Items |-> <<i>>], rev |-> 0]
Init ==
    /\ official = [i \in Items |-> IF i = Roster THEN [kept |-> 0, quote |-> 0] ELSE 0]
    /\ \/ evidence = <<>> /\ bundles = <<>>
       \/ evidence = [n \in {<<i>> : i \in Items} |-> 0] /\ bundles = [n \in {<<"bundle">>} |-> FirstPlan]
    /\ drafts = <<>> /\ manifests = <<>>
    /\ job = [p \in Procs |-> "none"] /\ step = [p \in Procs |-> 0]
    /\ seen = [p \in Procs |-> [i \in Items |-> NotSeen]]
    /\ plan = [p \in Procs |-> NoPlan]
    /\ source = [p \in Procs |-> NoName] /\ target = [p \in Procs |-> NoName]
    /\ outcome = [p \in Procs |-> "none"]
    /\ moments = [p \in Procs |-> <<>>] /\ settled = [p \in Procs |-> 0]
    /\ changes = 0 /\ jobs = 0

-----------------------------------------------------------------------------
\* Programs

Do(what, item) == [do |-> what, item |-> item]

\* (mutant) the sources are asked once
BuildOnce ==
    <<Do("agree", Roster), Do("agree", Page), Do("agree", Document),
      Do("keep", Page), Do("keep", Page), Do("keep", Document)>>

\* build_manifest: "agree" asks the source and reads the file, "keep" reads the
\* file.  A page is read again after its documents, and the pages are not asked
\* for a second time.
Build ==
    <<Do("agree", Roster), Do("agree", Page), Do("agree", Document),
      Do("keep", Page), Do("keep", Page), Do("keep", Document),
      Do("agree", Roster), Do("agree", Document)>>

Store(item) == <<Do("fetch", item), Do("look", item), Do("link", item)>>

Program(j) ==
    CASE j = "collect" ->
           Store(Roster) \o Store(Page) \o Store(Document)
           \o <<Do("look", "draft"), Do("link", "draft"), Do("reopen", "draft")>> \o Build
           \o <<Do("look", "bundle"), Do("link", "bundle"), Do("clear", "draft")>>
      [] j = "publish" ->
           <<Do("open", "bundle"), Do("reopen", "bundle")>> \o Build
           \o <<Do("look", "manifest"), Do("same", "bundle"), Do("keep", Roster),
                Do("keep", Page), Do("keep", Document), Do("link", "manifest")>>
      [] j = "revalidate" ->
           <<Do("open", "manifest"), Do("agree", Roster), Do("agree", Roster),
             Do("ask", Page), Do("agree", Document), Do("same", "manifest")>>
      [] OTHER -> <<>>

Here(p)        == Program(job[p])[step[p]]
At(p, what)    == job[p] # "none" /\ Here(p).do = what
Extended(f, n, c) == [k \in DOMAIN f \cup {n} |-> IF k = n THEN c ELSE f[k]]
Without(f, n)     == [k \in DOMAIN f \ {n} |-> f[k]]

\* (mutant) the answer with the quote
AskedIdentityWhole == official[Roster].kept + official[Roster].quote

\* _fetch_bootstrapped_identity gets a token from one page and a quote with it
\* from another; it keeps the profile, and not the token or the price.
AskedIdentity == official[Roster].kept

\* _fetch_official_event_pages: as many pages as the first ones announce.
AskedPages == official[Page]

\* _fetch_official_document
AskedDocument == official[Document]

\* The fetcher goes by what is asked for.
Asked(i) ==
    CASE i = Roster -> AskedIdentity [] i = Page -> AskedPages [] i = Document -> AskedDocument

\* The moment as it is for a job: the answers and the files it may read.
Now == [official |-> [i \in Items |-> Asked(i)], evidence |-> evidence, bundles |-> bundles]

\* The next step of p, n steps on; after the last the job is done.
Advance(p, n) ==
    LET ends == step[p] + n > Len(Program(job[p])) IN
    /\ step'    = [step EXCEPT ![p] = IF ends THEN 0 ELSE @ + n]
    /\ job'     = [job EXCEPT ![p] = IF ends THEN "none" ELSE @]
    /\ outcome' = [outcome EXCEPT ![p] = IF ends THEN "done" ELSE @]

\* ManifestError or CollectionError.  A collector still removes its draft.
Fail(p, reason) ==
    /\ outcome' = [outcome EXCEPT ![p] = reason]
    /\ step' = [step EXCEPT ![p] = 0] /\ job' = [job EXCEPT ![p] = "none"]
    /\ drafts' = IF job[p] = "collect" /\ target[p] \in DOMAIN drafts
                 THEN Without(drafts, target[p]) ELSE drafts
    /\ UNCHANGED <<evidence, bundles, manifests, locals>>

\* Go on if a check holds.
Check(p, holds) ==
    \/ holds /\ Advance(p, 1) /\ UNCHANGED <<files, locals>>
    \/ ~holds /\ Fail(p, "refused")

Outside == UNCHANGED <<official, moments, settled, changes, jobs>>

-----------------------------------------------------------------------------
\* Jobs

\* Nothing is known of a job before it begins, and after it could not go on.
Fresh(p, j, from) ==
    /\ job' = [job EXCEPT ![p] = j] /\ step' = [step EXCEPT ![p] = IF j = "none" THEN 0 ELSE 1]
    /\ source' = [source EXCEPT ![p] = from]
    /\ seen' = [seen EXCEPT ![p] = [i \in Items |-> NotSeen]]
    /\ plan' = [plan EXCEPT ![p] = NoPlan]
    /\ target' = [target EXCEPT ![p] = NoName]
    /\ outcome' = [outcome EXCEPT ![p] = "none"]
    /\ moments' = [moments EXCEPT ![p] = IF j = "none" THEN <<>> ELSE <<Now>>]
    /\ settled' = [settled EXCEPT ![p] = 0]

Start(p, j) ==
    /\ job[p] = "none" /\ jobs < MaxJobs
    /\ \E n \in CASE j = "collect"    -> {NoName}
                  [] j = "publish"    -> DOMAIN bundles
                  [] j = "revalidate" -> DOMAIN manifests : Fresh(p, j, n)
    /\ jobs' = jobs + 1
    /\ UNCHANGED <<official, files, changes>>

\* The collector asks a source.
Fetch(p) ==
    /\ At(p, "fetch")
    /\ seen' = [seen EXCEPT ![p][Here(p).item] = Asked(Here(p).item)]
    /\ Advance(p, 1)
    /\ UNCHANGED <<files, plan, source, target>> /\ Outside

\* What a write puts there, and among which files.
Content(p) ==
    LET item == Here(p).item IN
    CASE item \in Items               -> seen[p][item]
      [] item \in {"draft", "bundle"} -> plan[p]
      [] item = "manifest"            -> [plan |-> plan[p], seen |-> seen[p]]

Shelf(p) ==
    LET item == Here(p).item IN
    CASE item \in Items      -> evidence
      [] item = "draft"      -> drafts
      [] item = "bundle"     -> bundles
      [] item = "manifest"   -> manifests

\* The plain name, or one with the hash if the plain one is taken.
NameFor(shelf, item, content) ==
    IF <<item>> \in DOMAIN shelf /\ shelf[<<item>>] # content THEN <<item, content>>
    ELSE <<item>>

\* The file of an item is recorded in the plan once its name is certain.
Placed(p, name) ==
    IF Here(p).item \in Items THEN [plan EXCEPT ![p].paths[Here(p).item] = name, ![p].rev = 0]
    ELSE plan

\* _write_immutable and write_manifest: what is there already is not written.
Look(p) ==
    /\ At(p, "look")
    /\ LET name == NameFor(Shelf(p), Here(p).item, Content(p))
           there == name \in DOMAIN Shelf(p) /\ Shelf(p)[name] = Content(p)
           last == Len(Program(job[p])) + 1 - step[p]
       IN
       /\ target' = [target EXCEPT ![p] = name]
       /\ plan' = IF there THEN Placed(p, name) ELSE plan
       /\ Advance(p, IF ~there THEN 1 ELSE IF Here(p).item = "manifest" THEN last ELSE 2)
    /\ UNCHANGED <<files, seen, source>> /\ Outside

\* (mutant) os.replace
LinkedOver(shelf, name, content) == Extended(shelf, name, content)

\* os.link of a finished temporary file.
Linked(shelf, name, content) ==
    IF name \in DOMAIN shelf THEN shelf ELSE Extended(shelf, name, content)

Link(p) ==
    LET shelf == Linked(Shelf(p), target[p], Content(p))
        item  == Here(p).item
    IN
    /\ At(p, "link")
    /\ \/ /\ shelf[target[p]] = Content(p)
          /\ evidence'  = IF item \in Items THEN shelf ELSE evidence
          /\ drafts'    = IF item = "draft" THEN shelf ELSE drafts
          /\ bundles'   = IF item = "bundle" THEN shelf ELSE bundles
          /\ manifests' = IF item = "manifest" THEN shelf ELSE manifests
          /\ plan' = Placed(p, target[p])
          /\ Advance(p, 1)
          /\ UNCHANGED <<seen, source, target>>
       \/ shelf[target[p]] # Content(p) /\ Fail(p, "occupied")
    /\ Outside

\* write_manifest takes a copy of the bundle; revalidate_manifest of the manifest.
Open(p) ==
    /\ At(p, "open")
    /\ plan' = [plan EXCEPT ![p] = IF job[p] = "publish" THEN bundles[source[p]]
                                   ELSE manifests[source[p]].plan]
    /\ seen' = IF job[p] = "publish" THEN seen
               ELSE [seen EXCEPT ![p] = manifests[source[p]].seen]
    /\ Advance(p, 1)
    /\ UNCHANGED <<files, source, target>> /\ Outside

\* build_manifest reads the bundle by itself.  The draft may be gone by now.
Reopen(p) ==
    /\ At(p, "reopen")
    /\ \/ /\ job[p] = "collect"
          /\ Check(p, target[p] \in DOMAIN drafts)
       \/ /\ job[p] = "publish"
          /\ plan' = [plan EXCEPT ![p] = bundles[source[p]]]
          /\ Advance(p, 1)
          /\ UNCHANGED <<files, seen, source, target>>
    /\ Outside

\* A source does not answer, leads to another host, or answers what cannot be
\* read: no token, no equity quote of the issuer, no number of pages.
Unanswered(p) ==
    /\ At(p, "fetch") \/ At(p, "agree") \/ At(p, "ask")
    /\ drafts' = IF job[p] = "collect" THEN Without(drafts, target[p]) ELSE drafts
    /\ Fresh(p, "none", NoName)
    /\ UNCHANGED <<official, evidence, bundles, manifests, changes, jobs>>

\* The file holds what the source answers, and what was read before.
Agrees(p, i) ==
    LET here == evidence[plan[p].paths[i]] IN
    here = Asked(i) /\ seen[p][i] \in {NotSeen, here}

\* The checks of a collector compare with what it has just fetched: its builder
\* reads the files as if for the first time, and they are the ones it wrote.
Agree(p) ==
    LET i == Here(p).item IN
    /\ At(p, "agree")
    /\ \/ /\ Agrees(p, i)
          /\ seen' = [seen EXCEPT ![p][i] = Asked(i)]
          /\ settled' = IF seen[p][i] = NotSeen THEN [settled EXCEPT ![p] = Len(moments[p])]
                        ELSE settled
          /\ Advance(p, 1)
          /\ UNCHANGED <<files, plan, source, target>>
       \/ ~Agrees(p, i) /\ Fail(p, "refused") /\ UNCHANGED settled
    /\ UNCHANGED <<official, moments, changes, jobs>>

\* A file that has been read is read again.
Keep(p) ==
    LET i == Here(p).item IN
    /\ At(p, "keep")
    /\ Check(p, evidence[plan[p].paths[i]] = seen[p][i])
    /\ Outside

\* A revalidation asks for the pages and leaves their files alone.
Ask(p) ==
    LET i == Here(p).item IN
    /\ At(p, "ask")
    /\ Check(p, Asked(i) = seen[p][i])
    /\ Outside

\* The bundle, or the manifest, is still what was read first.
Same(p) ==
    /\ At(p, "same")
    /\ Check(p, IF job[p] = "publish" THEN bundles[source[p]] = plan[p]
                ELSE manifests[source[p]] = [plan |-> plan[p], seen |-> seen[p]])
    /\ Outside

\* The collector removes its draft, whoever uses one of the same content.
Clear(p) ==
    /\ At(p, "clear")
    /\ drafts' = Without(drafts, NameFor(drafts, "draft", plan[p]))
    /\ Advance(p, 1)
    /\ UNCHANGED <<evidence, bundles, manifests, locals>> /\ Outside

-----------------------------------------------------------------------------
\* The world

Noticed(new) ==
    moments' = [p \in Procs |-> IF job[p] = "none" THEN moments[p] ELSE Append(moments[p], new)]

\* A source answers something else.
Change(i) ==
    /\ changes < MaxChanges /\ changes' = changes + 1
    /\ official' = IF i = Roster THEN [official EXCEPT ![i].kept = changes + 1]
                   ELSE [official EXCEPT ![i] = changes + 1]
    /\ Noticed([Now EXCEPT !.official[i] = changes + 1])
    /\ UNCHANGED <<files, job, step, locals, outcome, settled, jobs>>

\* A price moves.
Quote ==
    /\ changes < MaxChanges /\ changes' = changes + 1
    /\ official' = [official EXCEPT ![Roster].quote = changes + 1]
    /\ UNCHANGED <<files, job, step, locals, outcome, moments, settled, jobs>>

\* Somebody rewrites a file of evidence, or the declarations of a bundle.
EditEvidence(n) ==
    /\ changes < MaxChanges /\ changes' = changes + 1
    /\ evidence' = [evidence EXCEPT ![n] = changes + 1]
    /\ Noticed([Now EXCEPT !.evidence[n] = changes + 1])
    /\ UNCHANGED <<official, drafts, bundles, manifests, job, step, locals, outcome, settled, jobs>>

EditBundle(n) ==
    /\ changes < MaxChanges /\ changes' = changes + 1
    /\ bundles' = [bundles EXCEPT ![n].rev = changes + 1]
    /\ Noticed([Now EXCEPT !.bundles[n].rev = changes + 1])
    /\ UNCHANGED <<official, evidence, drafts, manifests, job, step, locals, outcome, settled, jobs>>

Next ==
    \/ \E p \in Procs :
          \/ \E j \in Jobs : Start(p, j)
          \/ Fetch(p) \/ Unanswered(p) \/ Look(p) \/ Link(p) \/ Open(p) \/ Reopen(p)
          \/ Agree(p) \/ Keep(p) \/ Ask(p) \/ Same(p) \/ Clear(p)
    \/ \E i \in Items : Change(i)
    \/ Quote
    \/ \E n \in DOMAIN evidence : EditEvidence(n)
    \/ \E n \in DOMAIN bundles : EditBundle(n)

Spec == Init /\ [][Next]_vars
-----------------------------------------------------------------------------
\* Properties

\* What is published held together when all of it was known: after the last item
\* had been read there still was a moment at which every file and the bundle were
\* as the manifest says and the sources of roster and documents answered just
\* that.  (The source of a page is not asked again: it was right when first asked.)
Pairs(f) == {<<x, f[x]>> : x \in DOMAIN f}
PublishedTogether ==
    [][\A n \in DOMAIN manifests' \ DOMAIN manifests :
          LET m == manifests'[n] IN
          \E p \in {q \in Procs : job[q] = "publish" /\ At(q, "link")} :
             /\ \E k \in settled[p]..Len(moments[p]) :
                   LET now == moments[p][k] IN
                   /\ \A i \in Items : <<m.plan.paths[i], m.seen[i]>> \in Pairs(now.evidence)
                   /\ \A i \in Items \ {Page} : now.official[i] = m.seen[i]
                   /\ <<source[p], m.plan>> \in Pairs(now.bundles)
             /\ \E k \in 1..Len(moments[p]) : moments[p][k].official[Page] = m.seen[Page]]_vars

\* A publication or a revalidation during which nothing changes but prices, of
\* evidence that is what the sources answer, is not refused, whatever other jobs
\* are under way.
Fits(now, paths, i) == <<paths[i], now.official[i]>> \in Pairs(now.evidence)
UndisturbedSucceeds ==
    \A p \in Procs :
        outcome[p] = "refused" /\ source[p] # NoName =>
            \/ Len(moments[p]) > 1
            \/ \E i \in Items : ~Fits(moments[p][1], plan[p].paths, i)
            \/ \E i \in Items : seen[p][i] \notin {NotSeen, moments[p][1].official[i]}

\* Manifests implement the archive: one content per name, for ever.
Registered == INSTANCE Archive WITH held <- Pairs(manifests)
ImplementsArchive == Registered!Spec
=============================================================================
