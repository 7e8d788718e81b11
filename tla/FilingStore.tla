----------------------------- MODULE FilingStore -----------------------------
(***************************************************************************)
(* The files scripts/download_filings.py keeps for one fiscal year:        *)
(*                                                                         *)
(*   pdf, sidecar    the report and a note of its address and hash; every  *)
(*                   download replaces them, one after the other           *)
(*   copies, origins an immutable copy per content, named by its hash, with*)
(*                   a note of the address it came from                    *)
(*   drafts, canon   two directories of manifests that bind an address to  *)
(*                   a content; in each a manifest is either at the first  *)
(*                   name or at one that carries its own hash              *)
(*                                                                         *)
(* A downloader runs main(): download_pdf, then write_annual_manifest with *)
(* _persist_immutable_annual_pdf.  A promoter runs main(--promote):        *)
(* promote_annual_manifest moves a draft that was reviewed to canon.       *)
(* Processes run side by side and may die between any two calls of the file*)
(* system; the official site may change what an address serves.            *)
(***************************************************************************)
EXTENDS Integers, FiniteSets

CONSTANTS
    Downloaders, Promoters,
    Urls, Bodies,   \* official addresses, and the contents they serve
    None,
    MaxChanges,     \* bound: changes of an official file
    MaxCrashes,     \* bound: deaths of a process
    MaxEdits        \* bound: drafts rewritten by a reviewer

Procs     == Downloaders \cup Promoters
Manifests == [url : Urls, body : Bodies]
Sources   == [url : Urls, sha : Bodies]     \* a content stands for its hash

ASSUME StoreAssumption ==
    /\ None \notin Procs \cup Urls \cup Bodies \cup Manifests \cup Sources
    /\ Downloaders \cap Promoters = {}
    /\ MaxChanges \in Nat /\ MaxCrashes \in Nat /\ MaxEdits \in Nat

VARIABLES
    official,       \* what each address serves
    pdf, sidecar, copies, origins, drafts, canon,
    lock,           \* the holder of the download lock
    pc,
    url, body,      \* the address of a downloader, and the content it works on
    draft, slot,    \* the source_body a promoter has read, and where
    place,          \* the slot of canon a promoter has linked
    reply,          \* the manifest a call has answered with
    served,         \* history: what each address has served so far
    changes, crashes, edits

files  == <<pdf, sidecar, copies, origins, drafts, canon>>
locals == <<url, body, draft, slot, place, reply>>
world  == <<official, served, changes, crashes, edits>>
vars   == <<files, locals, world, lock, pc>>

EmptyDir == [first |-> None, named |-> {}]

Init ==
    /\ official \in [Urls -> Bodies]
    /\ served = [u \in Urls |-> {official[u]}]
    /\ pdf = None /\ sidecar = None
    /\ copies = [b \in Bodies |-> None] /\ origins = [b \in Bodies |-> None]
    /\ drafts = EmptyDir /\ canon = EmptyDir
    /\ lock = None
    /\ pc = [p \in Procs |-> "new"]
    /\ url = [p \in Procs |-> None] /\ body = [p \in Procs |-> None]
    /\ draft = [p \in Procs |-> None] /\ slot = [p \in Procs |-> None]
    /\ place = [p \in Procs |-> None]
    /\ reply = [p \in Procs |-> None]
    /\ changes = 0 /\ crashes = 0 /\ edits = 0

-----------------------------------------------------------------------------
\* Helpers

Goto(p, label) == pc' = [pc EXCEPT ![p] = label]

\* FetchSchemaError or an OSError: the call prints it and ends.
Raise(p) == Goto(p, "failed") /\ UNCHANGED <<files, locals>>

\* A step that goes on when a check holds and raises when it does not.
Check(p, holds, label) ==
    /\ Goto(p, IF holds THEN label ELSE "failed")
    /\ UNCHANGED <<files, locals>>

Quiet == UNCHANGED <<world, lock>>

\* (mutant) the sidecar is asked for the address only
ValidSourceByUrl(u, b) == sidecar # None /\ sidecar.url = u

\* _validate_selected_pdf_source
ValidSource(u, b) == sidecar = [url |-> u, sha |-> b]

\* (mutant) the first name of a directory is written whatever it holds
LinkedOver(dir, m, first) == [dir EXCEPT !.first = m]

\* os.link to one of the two names of a manifest; FileExistsError changes nothing.
Linked(dir, m, first) ==
    IF ~first THEN [dir EXCEPT !.named = @ \cup {m}]
    ELSE IF dir.first = None THEN [dir EXCEPT !.first = m] ELSE dir

\* The manifest is now at that name, because of this call or of another one.
IsAt(dir, m, first) == IF first THEN dir.first = m ELSE m \in dir.named

-----------------------------------------------------------------------------
\* download_pdf

Start(p) ==
    /\ p \in Downloaders /\ pc[p] = "new"
    /\ \E u \in Urls : url' = [url EXCEPT ![p] = u]
    /\ Goto(p, "fetch")
    /\ UNCHANGED <<files, body, draft, slot, place, reply>> /\ Quiet

\* _http_get, before the lock is taken.  It raises after three attempts.
Fetch(p) ==
    /\ pc[p] = "fetch"
    /\ \/ /\ body' = [body EXCEPT ![p] = official[url[p]]]
          /\ Goto(p, "lock")
          /\ UNCHANGED <<files, url, draft, slot, place, reply>>
       \/ Raise(p)
    /\ Quiet

\* A body that is too short or no PDF is one that is never fetched.
Lock(p) ==
    /\ pc[p] = "lock" /\ lock = None
    /\ lock' = p
    /\ Goto(p, "compare")
    /\ UNCHANGED <<files, locals, world>>

Skips(p) == pdf # None /\ ValidSource(url[p], pdf) /\ body[p] = pdf

Compare(p) ==
    /\ pc[p] = "compare"
    /\ Goto(p, IF Skips(p) THEN "digest" ELSE "replace_pdf")
    /\ lock' = IF Skips(p) THEN None ELSE lock
    /\ UNCHANGED <<files, locals, world>>

ReplacePdf(p) ==
    /\ pc[p] = "replace_pdf"
    /\ pdf' = body[p]
    /\ Goto(p, "replace_sidecar")
    /\ UNCHANGED <<sidecar, copies, origins, drafts, canon, locals>> /\ Quiet

ReplaceSidecar(p) ==
    /\ pc[p] = "replace_sidecar"
    /\ sidecar' = [url |-> url[p], sha |-> body[p]]
    /\ lock' = None
    /\ Goto(p, "digest")
    /\ UNCHANGED <<pdf, copies, origins, drafts, canon, locals, world>>

-----------------------------------------------------------------------------
\* _persist_immutable_annual_pdf

\* The file may be another one by now: the lock is released.
Digest(p) ==
    /\ pc[p] = "digest"
    /\ body' = [body EXCEPT ![p] = pdf]
    /\ Goto(p, IF copies[pdf] = None THEN "copy" ELSE "source")
    /\ UNCHANGED <<files, url, draft, slot, place, reply>> /\ Quiet

\* The copy has the digest or the call raises; its source is validated, too.
Copy(p) ==
    /\ pc[p] = "copy"
    /\ Check(p, pdf = body[p] /\ ValidSource(url[p], pdf), "link_copy")
    /\ Quiet

LinkCopy(p) ==
    /\ pc[p] = "link_copy"
    /\ copies' = [copies EXCEPT ![body[p]] = IF @ = None THEN body[p] ELSE @]
    /\ Goto(p, "verify")
    /\ UNCHANGED <<pdf, sidecar, origins, drafts, canon, locals>> /\ Quiet

Verify(p) ==
    /\ pc[p] = "verify"
    /\ Check(p, copies[body[p]] = body[p] /\ pdf = body[p], "source")
    /\ Quiet

Source(p) ==
    /\ pc[p] = "source"
    /\ Check(p, copies[body[p]] = body[p] /\ ValidSource(url[p], body[p]), "link_origin")
    /\ Quiet

\* (mutant) the note of an origin is replaced as the sidecar is
LinkOriginOver(p) ==
    /\ pc[p] = "link_origin"
    /\ origins' = [origins EXCEPT ![body[p]] = url[p]]
    /\ Goto(p, "check_1")
    /\ UNCHANGED <<pdf, sidecar, copies, drafts, canon, locals>> /\ Quiet

\* _persist_pdf_source_metadata
LinkOrigin(p) ==
    /\ pc[p] = "link_origin"
    /\ origins' = [origins EXCEPT ![body[p]] = IF @ = None THEN url[p] ELSE @]
    /\ Goto(p, IF origins'[body[p]] = url[p] THEN "check_1" ELSE "failed")
    /\ UNCHANGED <<pdf, sidecar, copies, drafts, canon, locals>> /\ Quiet

-----------------------------------------------------------------------------
\* The publication in write_annual_manifest

Bound(p) == [url |-> url[p], body |-> body[p]]

\* Before each of the two names is tried the files are validated again.
CheckSnapshots(p) ==
    /\ pc[p] \in {"check_1", "check_2"}
    /\ Check(p, /\ pdf = body[p] /\ copies[body[p]] = body[p]
                /\ ValidSource(url[p], body[p]),
             IF pc[p] = "check_1" THEN "link_1" ELSE "link_2")
    /\ Quiet

LinkDraft(p) ==
    LET first == pc[p] = "link_1"
        m     == Bound(p)
    IN
    /\ pc[p] \in {"link_1", "link_2"}
    /\ drafts' = Linked(drafts, m, first)
    /\ \/ /\ IsAt(drafts', m, first)
          /\ reply' = [reply EXCEPT ![p] = m] /\ Goto(p, "ok")
       \/ /\ ~IsAt(drafts', m, first)
          /\ reply' = reply /\ Goto(p, "check_2")
    /\ UNCHANGED <<pdf, sidecar, copies, origins, canon, url, body, draft, slot, place>>
    /\ Quiet

-----------------------------------------------------------------------------
\* promote_annual_manifest

\* What is at source_path: the draft at the first name, or one at its own.
IsDraft(m, from) == IF from = "first" THEN drafts.first = m ELSE m \in drafts.named

ReadDraft(p) ==
    /\ p \in Promoters /\ pc[p] = "new"
    /\ \E m \in Manifests, from \in {"first", "named"} :
          /\ IsDraft(m, from)
          /\ draft' = [draft EXCEPT ![p] = m] /\ slot' = [slot EXCEPT ![p] = from]
    /\ Goto(p, "valid_1")
    /\ UNCHANGED <<files, url, body, place, reply>> /\ Quiet

\* (mutant) what a manifest says is not compared with the files it names
BackedAlways(m) == TRUE

\* _validate_annual_candidate_evidence, _validate_promotion_pdf_snapshots
Backed(m) == copies[m.body] = m.body /\ origins[m.body] = m.url

Validate(p) ==
    /\ pc[p] \in {"valid_1", "valid_2"}
    /\ Check(p, Backed(draft[p]), IF pc[p] = "valid_1" THEN "promote_1" ELSE "promote_2")
    /\ Quiet

LinkCanon(p) ==
    LET first == pc[p] = "promote_1"
        m     == draft[p]
    IN
    /\ pc[p] \in {"promote_1", "promote_2"}
    /\ canon' = Linked(canon, m, first)
    /\ \/ /\ IsAt(canon, m, first)              \* it has been there before
          /\ reply' = [reply EXCEPT ![p] = m] /\ Goto(p, "ok") /\ place' = place
       \/ /\ ~IsAt(canon, m, first) /\ IsAt(canon', m, first)
          /\ place' = [place EXCEPT ![p] = IF first THEN "first" ELSE "named"]
          /\ Goto(p, "reread") /\ reply' = reply
       \/ /\ ~IsAt(canon', m, first)
          /\ Goto(p, "valid_2") /\ UNCHANGED <<reply, place>>
    /\ UNCHANGED <<pdf, sidecar, copies, origins, drafts, url, body, draft, slot>>
    /\ Quiet

\* What this call has linked is unlinked if the files it names, or the draft it
\* was copied from, have changed.
Reread(p) ==
    /\ pc[p] = "reread"
    /\ \/ /\ Backed(draft[p]) /\ IsDraft(draft[p], slot[p])
          /\ reply' = [reply EXCEPT ![p] = draft[p]] /\ Goto(p, "ok") /\ canon' = canon
       \/ /\ ~Backed(draft[p]) \/ ~IsDraft(draft[p], slot[p])
          /\ canon' = IF place[p] = "first" THEN [canon EXCEPT !.first = None]
                      ELSE [canon EXCEPT !.named = @ \ {draft[p]}]
          /\ Goto(p, "failed") /\ reply' = reply
    /\ UNCHANGED <<pdf, sidecar, copies, origins, drafts, url, body, draft, slot, place>>
    /\ Quiet

-----------------------------------------------------------------------------
\* The environment

\* A flock ends with its process; no file is taken back.
Crash(p) ==
    /\ pc[p] \notin {"new", "ok", "failed", "dead"}
    /\ crashes < MaxCrashes /\ crashes' = crashes + 1
    /\ lock' = IF lock = p THEN None ELSE lock
    /\ Goto(p, "dead")
    /\ UNCHANGED <<files, locals, official, served, changes, edits>>

ChangeOfficial(u) ==
    /\ changes < MaxChanges /\ changes' = changes + 1
    /\ \E b \in Bodies \ {official[u]} :
          /\ official' = [official EXCEPT ![u] = b]
          /\ served' = [served EXCEPT ![u] = @ \cup {b}]
    /\ UNCHANGED <<files, locals, lock, pc, crashes, edits>>

\* A reviewer rewrites the draft at the first name.
EditDraft ==
    /\ edits < MaxEdits /\ edits' = edits + 1
    /\ drafts.first # None
    /\ \E m \in Manifests \ {drafts.first} : drafts' = [drafts EXCEPT !.first = m]
    /\ UNCHANGED <<pdf, sidecar, copies, origins, canon, locals, lock, pc,
                   official, served, changes, crashes>>

Download(p) == \/ Start(p) \/ Fetch(p) \/ Lock(p) \/ Compare(p) \/ ReplacePdf(p)
               \/ ReplaceSidecar(p)
Persist(p)  == \/ Digest(p) \/ Copy(p) \/ LinkCopy(p) \/ Verify(p) \/ Source(p)
               \/ LinkOrigin(p) \/ CheckSnapshots(p) \/ LinkDraft(p)
Promote(p)  == \/ ReadDraft(p) \/ Validate(p) \/ LinkCanon(p) \/ Reread(p)

Next ==
    \/ \E p \in Procs : Download(p) \/ Persist(p) \/ Promote(p) \/ Crash(p)
    \/ \E u \in Urls : ChangeOfficial(u)
    \/ EditDraft

Spec == Init /\ [][Next]_vars

-----------------------------------------------------------------------------
\* Properties

TypeOK ==
    /\ official \in [Urls -> Bodies] /\ served \in [Urls -> SUBSET Bodies]
    /\ pdf \in Bodies \cup {None} /\ sidecar \in Sources \cup {None}
    /\ copies \in [Bodies -> Bodies \cup {None}]
    /\ origins \in [Bodies -> Urls \cup {None}]
    /\ drafts \in [first : Manifests \cup {None}, named : SUBSET Manifests]
    /\ canon \in [first : Manifests \cup {None}, named : SUBSET Manifests]
    /\ lock \in Procs \cup {None}
    /\ pc \in [Procs -> {"new", "fetch", "lock", "compare", "replace_pdf",
          "replace_sidecar", "digest", "copy", "link_copy", "verify", "source",
          "link_origin", "check_1", "check_2", "link_1", "link_2", "valid_1",
          "valid_2", "promote_1", "promote_2", "reread", "ok", "failed", "dead"}]
    /\ url \in [Procs -> Urls \cup {None}] /\ body \in [Procs -> Bodies \cup {None}]
    /\ draft \in [Procs -> Manifests \cup {None}]
    /\ slot \in [Procs -> {"first", "named", None}]
    /\ place \in [Procs -> {"first", "named", None}]
    /\ reply \in [Procs -> Manifests \cup {None}]
    /\ changes \in 0..MaxChanges /\ crashes \in 0..MaxCrashes /\ edits \in 0..MaxEdits

InCanon == (IF canon.first = None THEN {} ELSE {canon.first}) \cup canon.named

\* What a manifest says was so: the address has served that content.  Downloads
\* of different addresses share one pdf and one sidecar, which are replaced one
\* after the other, may be torn by a crash, and are read long after the lock.
ManifestsAreTrue ==
    \A m \in (InCanon \cup {reply[p] : p \in Downloaders}) \ {None} :
        m.body \in served[m.url]

\* Whatever is in canon is backed by an immutable copy and the note of its origin.
CanonIsBacked ==
    \A m \in InCanon : copies[m.body] = m.body /\ origins[m.body] = m.url

\* Copies and their notes implement an archive: nothing once put under a name
\* changes or goes, whoever dies and whatever is downloaded again.
Store == INSTANCE Archive WITH
    held <- {<<<<"copy", b>>, copies[b]>> : b \in {c \in Bodies : copies[c] # None}} \cup
            {<<<<"origin", b>>, origins[b]>> : b \in {c \in Bodies : origins[c] # None}}
ImplementsArchive == Store!Spec

\* The manifest a promotion has answered with is in canon ...
PromotionsStay == \A p \in Promoters : reply[p] # None => reply[p] \in InCanon

\* ... as long as no draft is rewritten while it is promoted.
OnlyEditsRetract == edits = 0 => PromotionsStay
=============================================================================
