---------------------------- MODULE ExtractCache ----------------------------
(***************************************************************************)
(* extract_pdf of scripts/extract_pdf.py: the text and images of one PDF   *)
(* are extracted into a staging directory, which then replaces the cache   *)
(* directory.  Renaming the old cache away and the new one in are two      *)
(* steps; a journal names the directories in between, so that the next     *)
(* call can put things right after a crash.  There is no lock: calls may   *)
(* overlap.  Meanwhile the PDF may be replaced at any time.                *)
(*                                                                         *)
(* A call is a number; its staging and backup directories carry it (mkdtemp*)
(* makes their names unique).  A content of the PDF stands for its SHA-256.*)
(***************************************************************************)
EXTENDS Integers

CONSTANTS
    Versions,   \* contents of the PDF
    Models,     \* models that describe images
    TextOnly,   \* in place of a model: --skip-images
    None,
    MaxCalls,   \* bound: calls of extract_pdf
    MaxChanges, \* bound: replacements of the PDF
    MaxFaults   \* bound: crashes and failed system calls

Calls  == 1..MaxCalls
Wanted == Models \cup {TextOnly}

ASSUME ExtractAssumption ==
    /\ None \notin Versions /\ TextOnly \notin Models
    /\ MaxCalls \in Nat /\ MaxChanges \in Nat /\ MaxFaults \in Nat

VARIABLES
    pdf,        \* the content of the PDF
    cache,      \* <parent>/_extracted/<stem>
    staging, backup,    \* the directories of each call
    journal,    \* the call whose directories the swap journal names, or 0
    pc,
    args,       \* force and the wanted images of each call
    start,      \* source_sha256_at_start
    named,      \* the call named by the journal a recovery has read
    reply,      \* the extraction a call has returned
    seen,       \* contents the PDF has had during each call
    filled,     \* TRUE once an extraction has been put in the cache
    overlapped, \* TRUE once two calls have run at the same time
    changes, faults,
    tripped     \* the calls that ended when a system call failed

mishaps == <<faults, tripped>>
store   == <<cache, staging, backup, journal>>
inputs  == <<pdf, args, seen, changes, overlapped>>
vars    == <<store, inputs, filled, pc, start, named, reply, mishaps>>

\* A directory: the content its text and images were taken from, what its
\* metadata says of them, whether the description of an image is missing, and
\* whether rmtree has not begun to remove its files.
Dirs == [there : BOOLEAN, from : Versions \cup {None}, sha : Versions \cup {None},
         images : Wanted, errors : BOOLEAN, whole : BOOLEAN]

NoDir == [there |-> FALSE, from |-> None, sha |-> None, images |-> TextOnly,
          errors |-> FALSE, whole |-> FALSE]

\* An earlier call has filled the cache, or none has.
Init ==
    /\ pdf \in Versions
    /\ cache \in {NoDir} \cup [there : {TRUE}, from : {pdf}, sha : {pdf},
                               images : Wanted, errors : {FALSE}, whole : {TRUE}]
    /\ filled = cache.there /\ journal = 0
    /\ staging = [c \in Calls |-> NoDir] /\ backup = [c \in Calls |-> NoDir]
    /\ pc    = [c \in Calls |-> "new"]
    /\ args  = [c \in Calls |-> [force |-> FALSE, images |-> TextOnly]]
    /\ start = [c \in Calls |-> None]
    /\ named = [c \in Calls |-> 0]
    /\ reply = [c \in Calls |-> NoDir]
    /\ seen  = [c \in Calls |-> {}]
    /\ overlapped = FALSE /\ changes = 0 /\ faults = 0 /\ tripped = {}

-----------------------------------------------------------------------------
\* Helpers

Ended   == {"ok", "error", "dead"}
Running == {c \in Calls : pc[c] \notin Ended \cup {"new"}}

Goto(c, label) == pc' = [pc EXCEPT ![c] = label]

\* What most steps leave alone.
Quiet == UNCHANGED <<inputs, filled, start, named, reply, mishaps>>

\* An exception: the finally clause removes the call's staging directory.
Raise(c) ==
    /\ staging' = [staging EXCEPT ![c] = NoDir]
    /\ Goto(c, "error")
    /\ UNCHANGED <<cache, backup, journal>>

\* shutil.rmtree removes one file after another.
Rmtree(d) == IF d.whole THEN [d EXCEPT !.whole = FALSE] ELSE NoDir

\* (mutant) the recorded hash of the source is not compared
ValidForAny(d, sha, images) ==
    d.there /\ d.whole /\ (images = TextOnly \/ d.images = images)

\* is_cache_valid: every file has the hash the metadata gives, the source has
\* the recorded hash, and the images are of the wanted kind.
ValidFor(d, sha, images) ==
    /\ d.there /\ d.whole /\ d.sha = sha
    /\ images = TextOnly \/ (d.images = images /\ ~d.errors)

-----------------------------------------------------------------------------
\* _recover_interrupted_cache_swap

ReadJournal(c) ==
    /\ pc[c] = "recover"
    /\ named' = [named EXCEPT ![c] = journal]
    /\ Goto(c, IF journal = 0 THEN "hash" ELSE "if_cache")
    /\ UNCHANGED <<store, inputs, filled, start, reply, mishaps>>

\* The looks at the disk of its two if statements, one by one.
Look(c) ==
    LET old == backup[named[c]].there IN
    /\ \/ /\ pc[c] = "if_cache"
          /\ Goto(c, IF cache.there THEN "elif_cache" ELSE "if_backup")
       \/ /\ pc[c] = "if_backup"
          /\ Goto(c, IF old THEN "put_back" ELSE "elif_cache")
       \/ /\ pc[c] = "elif_cache"
          /\ Goto(c, IF cache.there THEN "elif_backup" ELSE "if_staging")
       \/ /\ pc[c] = "elif_backup"
          /\ Goto(c, IF old THEN "drop_backup" ELSE "if_staging")
       \/ /\ pc[c] = "if_staging"
          /\ Goto(c, IF staging[named[c]].there THEN "drop_staging"
                     ELSE "drop_journal")
    /\ UNCHANGED store /\ Quiet

PutBack(c) ==
    LET n == named[c] IN
    /\ pc[c] = "put_back"
    /\ \/ /\ backup[n].there /\ ~cache.there
          /\ cache' = backup[n]
          /\ backup' = [backup EXCEPT ![n] = NoDir]
          /\ Goto(c, "if_staging")
          /\ UNCHANGED <<staging, journal>>
       \/ ~(backup[n].there /\ ~cache.there) /\ Raise(c)
    /\ Quiet

DropBackup(c) ==
    LET n == named[c] IN
    /\ pc[c] = "drop_backup"
    /\ \/ /\ backup[n].there
          /\ backup' = [backup EXCEPT ![n] = Rmtree(@)]
          /\ Goto(c, IF backup[n].whole THEN "drop_backup" ELSE "if_staging")
          /\ UNCHANGED <<cache, staging, journal>>
       \/ ~backup[n].there /\ Raise(c)
    /\ Quiet

DropStaging(c) ==
    LET n == named[c] IN
    /\ pc[c] = "drop_staging"
    /\ \/ /\ staging[n].there
          /\ staging' = [staging EXCEPT ![n] = Rmtree(@)]
          /\ Goto(c, IF staging[n].whole THEN "drop_staging" ELSE "drop_journal")
          /\ UNCHANGED <<cache, backup, journal>>
       \/ ~staging[n].there /\ Raise(c)
    /\ Quiet

\* journal_path.unlink() of a recovery and of a swap; what remains is "next".
Unlink(c, next) ==
    \/ /\ journal # 0 /\ journal' = 0
       /\ Goto(c, next)
       /\ UNCHANGED <<cache, staging, backup>>
    \/ journal = 0 /\ Raise(c)

DropJournal(c) == pc[c] = "drop_journal" /\ Unlink(c, "hash") /\ Quiet

Recover(c) ==
    \/ ReadJournal(c) \/ Look(c) \/ PutBack(c) \/ DropBackup(c)
    \/ DropStaging(c) \/ DropJournal(c)

-----------------------------------------------------------------------------
\* extract_pdf up to the swap

Call(c) ==
    /\ pc[c] = "new" /\ \A b \in 1..(c - 1) : pc[b] # "new"
    /\ \E force \in BOOLEAN, images \in Wanted :
          args' = [args EXCEPT ![c] = [force |-> force, images |-> images]]
    /\ seen' = [seen EXCEPT ![c] = {pdf}]
    /\ overlapped' = (overlapped \/ Running # {})
    /\ Goto(c, "recover")
    /\ UNCHANGED <<store, pdf, changes, filled, start, named, reply, mishaps>>

HashSource(c) ==
    /\ pc[c] = "hash"
    /\ start' = [start EXCEPT ![c] = pdf]
    /\ Goto(c, "validate")
    /\ UNCHANGED <<store, inputs, filled, named, reply, mishaps>>

\* is_cache_valid hashes the source again; without a valid cache, mkdtemp.
Validate(c) ==
    /\ pc[c] = "validate"
    /\ \/ /\ ~args[c].force /\ ValidFor(cache, pdf, args[c].images)
          /\ Goto(c, "hit")
          /\ UNCHANGED staging
       \/ /\ args[c].force \/ ~ValidFor(cache, pdf, args[c].images)
          /\ Goto(c, "snapshot")
          /\ staging' = [staging EXCEPT ![c] =
                [there |-> TRUE, from |-> None, sha |-> start[c],
                 images |-> args[c].images, errors |-> FALSE, whole |-> TRUE]]
    /\ UNCHANGED <<cache, backup, journal>> /\ Quiet

\* The source is hashed again; then metadata.json is read, or is not there.
Hit(c) ==
    /\ pc[c] = "hit"
    /\ \/ /\ pdf = start[c] /\ cache.there
          /\ reply' = [reply EXCEPT ![c] = cache]
          /\ Goto(c, "ok")
          /\ UNCHANGED store
       \/ (pdf # start[c] \/ ~cache.there) /\ Raise(c) /\ UNCHANGED reply
    /\ UNCHANGED <<inputs, filled, start, named, mishaps>>

\* (mutant) the copy is not compared with the hash taken at the start
SnapshotUnchecked(c) ==
    /\ pc[c] = "snapshot"
    /\ staging' = [staging EXCEPT ![c].from = pdf]
    /\ Goto(c, "extract")
    /\ UNCHANGED <<cache, backup, journal>> /\ Quiet

\* A private copy of the PDF, if it still has the content that was hashed.
Snapshot(c) ==
    /\ pc[c] = "snapshot"
    /\ \/ /\ pdf = start[c]
          /\ staging' = [staging EXCEPT ![c].from = pdf]
          /\ Goto(c, "extract")
          /\ UNCHANGED <<cache, backup, journal>>
       \/ pdf # start[c] /\ Raise(c)
    /\ Quiet

\* pdftotext fails, or there is no text, or the pages are written.
ExtractText(c) ==
    /\ pc[c] = "extract"
    /\ \/ Goto(c, IF args[c].images = TextOnly THEN "recheck" ELSE "images") /\ UNCHANGED store
       \/ Raise(c)
    /\ Quiet

\* pdfimages lists the images and dumps them; each is converted, or left out as
\* too small or unreadable.
ExtractImages(c) ==
    /\ pc[c] = "images"
    /\ \/ Goto(c, "describe") /\ UNCHANGED store
       \/ Raise(c)
    /\ Quiet

\* describe_all_images writes a description of every image, or a stub in its place
\* and an error; one error if there is no key, even without an image.
Describe(c) ==
    /\ pc[c] = "describe"
    /\ \E errors \in BOOLEAN : staging' = [staging EXCEPT ![c].errors = errors]
    /\ Goto(c, "described")
    /\ UNCHANGED <<cache, backup, journal>> /\ Quiet

\* One missing description fails the call.
Described(c) ==
    /\ pc[c] = "described"
    /\ \/ ~staging[c].errors /\ Goto(c, "recheck") /\ UNCHANGED store
       \/ staging[c].errors /\ Raise(c)
    /\ Quiet

\* The source is hashed once more; then metadata.json completes the staging.
Recheck(c) ==
    /\ pc[c] = "recheck"
    /\ \/ pdf = start[c] /\ Goto(c, "publish") /\ UNCHANGED store
       \/ pdf # start[c] /\ Raise(c)
    /\ Quiet

-----------------------------------------------------------------------------
\* The swap

Publish(c) ==
    /\ pc[c] = "publish"
    /\ Goto(c, IF cache.there THEN "journal" ELSE "install_new")
    /\ UNCHANGED store /\ Quiet

\* (mutant) the old cache is moved away without a journal
JournalForgotten(c) ==
    /\ pc[c] = "journal"
    /\ Goto(c, "move_out")
    /\ UNCHANGED store /\ Quiet

WriteJournal(c) ==
    /\ pc[c] = "journal"
    /\ journal' = c
    /\ Goto(c, "move_out")
    /\ UNCHANGED <<cache, staging, backup>> /\ Quiet

MoveOut(c) ==
    /\ pc[c] = "move_out"
    /\ \/ /\ cache.there
          /\ backup' = [backup EXCEPT ![c] = cache]
          /\ cache' = NoDir
          /\ Goto(c, "install_over")
          /\ UNCHANGED <<staging, journal>>
       \/ ~cache.there /\ Raise(c)
    /\ Quiet

Installs(c) == pc[c] \in {"install_new", "install_over"}

Install(c) ==
    /\ Installs(c) /\ staging[c].there /\ ~cache.there
    /\ cache' = staging[c]
    /\ staging' = [staging EXCEPT ![c] = NoDir]
    /\ filled' = TRUE
    /\ Goto(c, IF pc[c] = "install_over" THEN "clean" ELSE "answer")
    /\ UNCHANGED <<backup, journal, inputs, start, named, reply, mishaps>>

\* staging_dir.replace(cache_dir) raises, because it cannot or because it fails:
\* the handler looks whether the backup has to go back.
InstallFails(c) ==
    LET can == staging[c].there /\ ~cache.there
    IN  /\ Installs(c) /\ (can => faults < MaxFaults)
        /\ faults' = IF can THEN faults + 1 ELSE faults
        /\ Goto(c, IF pc[c] = "install_new" THEN "raise"
                   ELSE IF backup[c].there /\ ~cache.there THEN "undo" ELSE "give_up")
        /\ UNCHANGED <<store, inputs, filled, start, named, reply, tripped>>

\* backup_dir.replace(cache_dir) in the handler.
Undo(c) ==
    /\ pc[c] = "undo"
    /\ \/ /\ backup[c].there /\ ~cache.there
          /\ cache' = backup[c]
          /\ backup' = [backup EXCEPT ![c] = NoDir]
          /\ Goto(c, "give_up")
          /\ UNCHANGED <<staging, journal>>
       \/ ~(backup[c].there /\ ~cache.there) /\ Raise(c)
    /\ Quiet

\* (mutant) the journal outlives the swap it was written for
GiveUpJournalled(c) == pc[c] \in {"give_up", "raise"} /\ Raise(c) /\ Quiet

\* journal_path.unlink(missing_ok=True), and the exception goes on.
GiveUp(c) ==
    \/ /\ pc[c] = "give_up"
       /\ journal' = 0
       /\ Goto(c, "raise")
       /\ UNCHANGED <<cache, staging, backup>> /\ Quiet
    \/ pc[c] = "raise" /\ Raise(c) /\ Quiet

Clean(c) ==
    /\ pc[c] = "clean"
    /\ \/ /\ backup[c].there
          /\ backup' = [backup EXCEPT ![c] = Rmtree(@)]
          /\ Goto(c, IF backup[c].whole THEN "clean" ELSE "unjournal")
          /\ UNCHANGED <<cache, staging, journal>>
       \/ ~backup[c].there /\ Raise(c)
    /\ Quiet

Unjournal(c) == pc[c] = "unjournal" /\ Unlink(c, "answer") /\ Quiet

\* return meta: the metadata as it was written.
Answer(c) ==
    /\ pc[c] = "answer"
    /\ reply' = [reply EXCEPT ![c] =
          [there |-> TRUE, from |-> start[c], sha |-> start[c],
           images |-> args[c].images, errors |-> FALSE, whole |-> TRUE]]
    /\ Goto(c, "ok")
    /\ UNCHANGED <<store, inputs, filled, start, named, mishaps>>

-----------------------------------------------------------------------------
\* The environment

\* A system call fails where nothing catches it: in the recovery, in the work up
\* to the swap, when the old cache is moved out, when it is put back, when the
\* backup or the journal is removed.  Only the finally clause still runs, and
\* its rmtree may fail too, after its first files.
IoFails(c) ==
    /\ c \in Running /\ ~Installs(c) /\ pc[c] # "answer"
    /\ faults < MaxFaults
    /\ faults' = faults + 1 /\ tripped' = tripped \cup {c}
    /\ \E left \in {NoDir, [staging[c] EXCEPT !.whole = FALSE]} :
          staging' = [staging EXCEPT ![c] = left]
    /\ Goto(c, "error")
    /\ UNCHANGED <<cache, backup, journal, inputs, filled, start, named, reply>>

Crash(c) ==
    /\ c \in Running /\ faults < MaxFaults
    /\ faults' = faults + 1
    /\ Goto(c, "dead")
    /\ UNCHANGED <<store, inputs, filled, start, named, reply, tripped>>

ReplacePdf ==
    /\ changes < MaxChanges
    /\ changes' = changes + 1
    /\ pdf' \in Versions \ {pdf}
    /\ seen' = [c \in Calls |-> IF c \in Running THEN seen[c] \cup {pdf'}
                                ELSE seen[c]]
    /\ UNCHANGED <<store, args, overlapped, filled, pc, start, named, reply, mishaps>>

Step(c) ==
    \/ Recover(c)
    \/ HashSource(c) \/ Validate(c) \/ Hit(c)
    \/ Snapshot(c) \/ ExtractText(c) \/ ExtractImages(c) \/ Describe(c) \/ Described(c)
    \/ Recheck(c)
    \/ Publish(c) \/ WriteJournal(c) \/ MoveOut(c) \/ Install(c)
    \/ InstallFails(c) \/ Undo(c) \/ GiveUp(c) \/ Clean(c) \/ Unjournal(c) \/ Answer(c)

Next ==
    \/ \E c \in Calls : Call(c) \/ Step(c) \/ IoFails(c) \/ Crash(c)
    \/ ReplacePdf

Spec == Init /\ [][Next]_vars

-----------------------------------------------------------------------------
\* Correctness

\* A finished extraction is never lost by calls that do not overlap: wherever
\* the call that replaces it dies or fails, and wherever the call that recovers
\* from that dies, a complete extraction is in the cache or in the backup the
\* journal leads to.
Kept(d) == d.there /\ d.whole

NothingLost ==
    filled /\ ~overlapped => \/ Kept(cache)
                             \/ journal # 0 /\ Kept(backup[journal])

\* The cache is what its metadata says: text and images come from the very
\* content whose SHA-256 is recorded, also when the PDF is replaced and put
\* back while it is being read; and no image has a stub for a description.
CacheIsFaithful == cache.there => cache.from = cache.sha /\ ~cache.errors

\* While calls do not overlap, an answer describes a content the PDF had while
\* the call ran, with the images that were asked for: no call is answered from
\* an outdated cache.  (A call that overlaps another may validate one cache and
\* read the metadata of the next.)
AnswersWereSeen ==
    ~overlapped => \A c \in Calls : pc[c] = "ok" =>
        /\ reply[c].from \in seen[c]
        /\ args[c].images = TextOnly \/ reply[c].images = args[c].images

\* One call that reaches its end, with an answer or with an error of its own,
\* clears away what all calls before it have left of their swaps, whether they
\* died or a system call failed under them, also in the recovery, when the old
\* cache is moved out and when it is put back: no journal and no backup survive
\* it, if calls do not overlap.
SwapsSettle ==
    /\ ~overlapped /\ Running = {}
    /\ \A c \in Calls : pc[c] = "dead" \/ c \in tripped =>
           \E b \in Calls \ tripped : b > c /\ pc[b] \in {"ok", "error"}
    => journal = 0 /\ \A c \in Calls : ~backup[c].there

=============================================================================
