------------------------- MODULE ExtractCacheProofs -------------------------
(***************************************************************************)
(* The PDF extraction cache loses no extraction, never contradicts its     *)
(* metadata, answers from what the PDF held during the call and clears its *)
(* swaps away, for any number of calls, crashes and replaced PDFs.         *)
(*                                                                         *)
(* Two things are invariant whatever overlaps: the types, and that a       *)
(* directory which is there says the truth about itself.  The rest holds   *)
(* while calls do not overlap.  Then at most one call runs, the one that   *)
(* started last, so that its program counter says what is on the disk      *)
(* (LabelInv), and with nobody running the disk is what the last call left *)
(* (DiskInv).                                                              *)
(***************************************************************************)
EXTENDS ExtractCache, TLAPS

Looks    == {"if_cache", "if_backup", "elif_cache", "elif_backup", "if_staging"}
Recovery == Looks \cup {"put_back", "drop_backup", "drop_staging", "drop_journal"}
Working  == {"snapshot", "extract", "images", "describe", "described", "recheck"}
Swap     == {"publish", "journal", "move_out", "install_new", "install_over"}
Leaving  == {"undo", "give_up", "raise", "clean", "unjournal", "answer"}
Hashed   == {"validate", "hit"} \cup Working \cup Swap \cup Leaving
Labels   == {"recover", "hash"} \cup Recovery \cup Hashed

-----------------------------------------------------------------------------
\* The inductive invariant

TypeInv ==
    /\ pdf \in Versions /\ cache \in Dirs
    /\ staging \in [Calls -> Dirs] /\ backup \in [Calls -> Dirs]
    /\ journal \in {0} \cup Calls
    /\ pc \in [Calls -> {"new"} \cup Labels \cup Ended]
    /\ args \in [Calls -> [force : BOOLEAN, images : Wanted]]
    /\ start \in [Calls -> Versions \cup {None}]
    /\ named \in [Calls -> {0} \cup Calls]
    /\ reply \in [Calls -> Dirs]
    /\ seen \in [Calls -> SUBSET Versions]
    /\ filled \in BOOLEAN /\ overlapped \in BOOLEAN /\ tripped \subseteq Calls

\* A recovery has read a journal, and whatever it reads next is of that call.
NamedInv == \A c \in Calls : pc[c] \in Recovery => named[c] \in Calls

\* A directory that has become or may become the cache says the truth.
Faithful(d) == d.there => d.from = d.sha /\ ~d.errors

Staged(c) ==
    staging[c].there =>
        /\ pc[c] \in Working \cup Swap => staging[c].sha = start[c]
        /\ pc[c] \in (Working \ {"snapshot"}) \cup Swap => staging[c].from = start[c]
        /\ pc[c] \in {"snapshot", "extract", "images", "recheck"} \cup Swap
              => ~staging[c].errors

FaithInv == Faithful(cache) /\ \A c \in Calls : Faithful(backup[c]) /\ Staged(c)

\* What a call has hashed, and what it will answer, the PDF has held since it
\* began.
SeenInv ==
    \A c \in Calls :
        /\ c \in Running => pdf \in seen[c]
        /\ pc[c] \in Hashed => start[c] \in seen[c]
        /\ ~overlapped /\ pc[c] = "hit" =>
              ValidFor(cache, cache.sha, args[c].images) /\ cache.sha \in seen[c]
        /\ ~overlapped /\ pc[c] = "ok" =>
              /\ reply[c].from \in seen[c]
              /\ args[c].images = TextOnly \/ reply[c].images = args[c].images

\* Calls start in order, and while none overlaps only the last one started runs.
OrderInv ==
    \A b, c \in Calls : c < b =>
        /\ pc[c] = "new" => pc[b] = "new"
        /\ ~overlapped /\ c \in Running => pc[b] = "new"

\* The disk while calls do not overlap: the cache is complete, a finished
\* extraction is in it or in the journal's backup, and there is no other backup.
Sound ==
    /\ cache.there => cache.whole /\ filled
    /\ filled => Kept(cache) \/ (journal # 0 /\ Kept(backup[journal]))
    /\ \A n \in Calls : backup[n].there => journal = n /\ filled

\* A journal nobody works on was left by the last call, which died or had a
\* system call fail under it.
DiskInv ==
    /\ Sound
    /\ journal # 0 /\ Running = {} =>
          \E c \in Calls : /\ pc[c] = "dead" \/ c \in tripped
                         /\ \A b \in Calls : c < b => pc[b] = "new"

\* What the program counter of a call that runs alone says of the disk.
LabelInv(c) ==
    /\ pc[c] \in Recovery => named[c] = journal
    /\ pc[c] \in {"if_backup", "put_back"} => ~cache.there
    /\ pc[c] \in {"put_back", "drop_backup"} => backup[named[c]].there
    /\ pc[c] = "elif_cache" => cache.there \/ ~backup[named[c]].there
    /\ pc[c] \in {"elif_backup", "drop_backup"} => cache.there
    /\ pc[c] \in {"if_staging", "drop_staging", "drop_journal"}
          => (filled => cache.there) /\ ~backup[named[c]].there
    /\ pc[c] = "drop_staging" => staging[named[c]].there
    /\ pc[c] \in {"hash", "validate", "hit", "publish", "journal", "install_new",
                  "answer", "raise"} \cup Working => journal = 0
    /\ pc[c] \in {"move_out", "install_over", "clean", "unjournal", "undo", "give_up"}
          => journal = c
    /\ pc[c] \in {"journal", "move_out", "clean", "unjournal", "give_up"} => cache.there
    /\ pc[c] \in {"install_new", "install_over", "undo"} => ~cache.there
    /\ pc[c] \in {"install_over", "undo"} => backup[c].whole
    /\ pc[c] \in {"install_over", "undo", "clean"} => backup[c].there
    /\ pc[c] \in {"unjournal", "give_up"} => ~backup[c].there
    /\ pc[c] \in Working \cup Swap => staging[c].there /\ staging[c].whole

SoloInv == ~overlapped => DiskInv /\ \A c \in Calls : LabelInv(c)

IInv == TypeInv /\ NamedInv /\ FaithInv /\ SeenInv /\ OrderInv /\ SoloInv

-----------------------------------------------------------------------------
\* Types

\* What a step may write into a directory leaves it a directory.
LEMMA DirTypes ==
    /\ NoDir \in Dirs /\ ~NoDir.there
    /\ \A d \in Dirs : Rmtree(d) \in Dirs
  BY DEF NoDir, Dirs, Wanted, Rmtree

\* Only a call that runs takes a step, and a step moves its own program counter.
LEMMA StepMoves ==
    ASSUME TypeInv, NEW c \in Calls, Step(c)
    PROVE  /\ c \in Running /\ pc[c] \in Labels
           /\ pc' \in [Calls -> {"new"} \cup Labels \cup Ended]
           /\ pc'[c] \in Labels \cup Ended
           /\ \A b \in Calls : b # c => pc'[b] = pc[b]
           /\ UNCHANGED inputs
  <1> USE DEF Goto, Quiet, Raise
  <1> DEFINE Moved == /\ pc[c] \in Labels
                      /\ pc'[c] \in Labels \cup Ended
                      /\ pc' = [pc EXCEPT ![c] = pc'[c]]
                      /\ UNCHANGED inputs
  <1>0. DOMAIN pc = Calls  BY DEF TypeInv
  <1>1. Moved
    <2> USE <1>0
    <2>1. CASE Recover(c)
      <3>1. CASE ReadJournal(c) \/ Look(c) \/ PutBack(c)
        BY <3>1 DEF ReadJournal, Look, PutBack, Labels, Recovery, Looks, Hashed, Ended
      <3>2. CASE DropBackup(c) \/ DropStaging(c) \/ DropJournal(c)
        BY <3>2 DEF DropBackup, DropStaging, DropJournal, Unlink, Labels, Recovery, Looks, Hashed, Ended
      <3> QED  BY <2>1, <3>1, <3>2 DEF Recover
    <2>2. CASE HashSource(c) \/ Validate(c) \/ Hit(c) \/ Snapshot(c)
      BY <2>2 DEF HashSource, Validate, Hit, Snapshot, Labels, Hashed, Working, Ended
    <2>3. CASE ExtractText(c) \/ ExtractImages(c) \/ Describe(c) \/ Described(c) \/ Recheck(c)
      BY <2>3 DEF ExtractText, ExtractImages, Describe, Described, Recheck, Labels,
         Hashed, Working, Swap, Ended
    <2>4. CASE Publish(c) \/ WriteJournal(c) \/ MoveOut(c)
      BY <2>4 DEF Publish, WriteJournal, MoveOut, Labels, Hashed, Swap, Ended
    <2>5. CASE Install(c) \/ InstallFails(c) \/ Undo(c) \/ GiveUp(c)
      BY <2>5 DEF Install, InstallFails, Installs, Undo, GiveUp, Labels, Hashed, Swap, Leaving, Ended
    <2>6. CASE Clean(c) \/ Unjournal(c) \/ Answer(c)
      BY <2>6 DEF Clean, Unjournal, Unlink, Answer, Labels, Hashed, Leaving, Ended
    <2> QED  BY <2>1, <2>2, <2>3, <2>4, <2>5, <2>6 DEF Step
  <1>2. Labels \cap (Ended \cup {"new"}) = {}
    BY DEF Labels, Recovery, Looks, Hashed, Working, Swap, Leaving, Ended
  <1>3. pc' \in [Calls -> {"new"} \cup Labels \cup Ended]
    BY <1>1 DEF TypeInv
  <1> QED  BY <1>0, <1>1, <1>2, <1>3 DEF Running

LEMMA StepTypes ==
    ASSUME TypeInv, NamedInv, NEW c \in Calls, Step(c)
    PROVE  TypeInv'
  <1> USE DirTypes DEF Quiet, Raise, store, inputs
  <1> DEFINE DiskTypes == /\ cache \in Dirs
                          /\ staging \in [Calls -> Dirs] /\ backup \in [Calls -> Dirs]
                          /\ journal \in {0} \cup Calls
             CallTypes == /\ start \in [Calls -> Versions \cup {None}]
                          /\ named \in [Calls -> {0} \cup Calls]
                          /\ reply \in [Calls -> Dirs]
                          /\ filled \in BOOLEAN
  <1>1. DiskTypes' /\ CallTypes'
    <2>0. DiskTypes /\ CallTypes /\ 0 \notin Calls  BY DEF TypeInv, Calls
    <2>1. CASE ReadJournal(c) \/ Look(c)
      BY <2>0, <2>1 DEF ReadJournal, Look
    <2>2. CASE PutBack(c)
      <3>1. named[c] \in Calls  BY <2>2 DEF PutBack, NamedInv, Recovery
      <3> QED  BY <2>0, <2>2, <3>1 DEF PutBack
    <2>14. CASE HashSource(c)
      <3>1. pdf \in Versions  BY DEF TypeInv
      <3> QED  BY <2>0, <2>14, <3>1 DEF HashSource
    <2>3. CASE DropBackup(c) \/ DropStaging(c)
      BY <2>0, <2>3 DEF DropBackup, DropStaging
    <2>4. CASE DropJournal(c) \/ Unjournal(c)
      BY <2>0, <2>4 DEF DropJournal, Unjournal, Unlink
    <2>5. CASE Validate(c)
      <3>1. args[c].images \in Wanted /\ start[c] \in Versions \cup {None}
        BY DEF TypeInv
      <3> DEFINE d == [there |-> TRUE, from |-> None, sha |-> start[c],
                       images |-> args[c].images, errors |-> FALSE, whole |-> TRUE]
      <3>2. d \in Dirs  BY <3>1 DEF Dirs
      <3>3. staging' \in {staging, [staging EXCEPT ![c] = d]}
        BY <2>5 DEF Validate
      <3> HIDE DEF d
      <3> QED  BY <2>0, <2>5, <3>2, <3>3 DEF Validate
    <2>6. CASE Hit(c)
      BY <2>0, <2>6 DEF Hit
    <2>7. CASE Snapshot(c)
      <3>1. [staging[c] EXCEPT !.from = pdf] \in Dirs  BY <2>0 DEF Dirs, TypeInv
      <3> QED  BY <2>0, <2>7, <3>1 DEF Snapshot
    <2>8. CASE ExtractText(c) \/ ExtractImages(c) \/ Described(c) \/ Recheck(c) \/ Publish(c)
      BY <2>0, <2>8 DEF ExtractText, ExtractImages, Described, Recheck, Publish
    <2>9. CASE Describe(c)
      <3>1. \A errors \in BOOLEAN : [staging[c] EXCEPT !.errors = errors] \in Dirs
        BY <2>0 DEF Dirs
      <3> QED  BY <2>0, <2>9, <3>1 DEF Describe
    <2>10. CASE WriteJournal(c) \/ MoveOut(c)
      BY <2>0, <2>10 DEF WriteJournal, MoveOut
    <2>11. CASE Install(c)
      BY <2>0, <2>11 DEF Install
    <2>15. CASE InstallFails(c) \/ Undo(c)
      BY <2>0, <2>15 DEF InstallFails, Undo
    <2>12. CASE GiveUp(c) \/ Clean(c)
      BY <2>0, <2>12 DEF GiveUp, Clean
    <2>13. CASE Answer(c)
      <3>1. args[c].images \in Wanted /\ start[c] \in Versions \cup {None}
        BY DEF TypeInv
      <3>2. [there |-> TRUE, from |-> start[c], sha |-> start[c],
             images |-> args[c].images, errors |-> FALSE, whole |-> TRUE] \in Dirs
        BY <3>1 DEF Dirs
      <3> QED  BY <2>0, <2>13, <3>2 DEF Answer
    <2> QED
      BY <2>1, <2>2, <2>3, <2>4, <2>5, <2>6, <2>7, <2>8, <2>9, <2>10, <2>11, <2>12,
         <2>13, <2>14, <2>15 DEF Step, Recover
  <1>2. tripped' = tripped
    BY DEF Step, Recover, ReadJournal, Look, PutBack, DropBackup, DropStaging, DropJournal,
       HashSource, Validate, Hit, Snapshot, ExtractText, ExtractImages, Describe,
       Described, Recheck, Publish, WriteJournal, MoveOut, Install, InstallFails, Undo,
       GiveUp, Clean, Unjournal, Answer, mishaps
  <1> QED  BY <1>1, <1>2, StepMoves DEF TypeInv

LEMMA CallTypes ==
    ASSUME TypeInv, NEW c \in Calls, Call(c)
    PROVE  TypeInv'
  <1>1. PICK force \in BOOLEAN, images \in Wanted :
           args' = [args EXCEPT ![c] = [force |-> force, images |-> images]]
    BY DEF Call
  <1>2. args' \in [Calls -> [force : BOOLEAN, images : Wanted]]
    BY <1>1 DEF TypeInv
  <1>3. seen' \in [Calls -> SUBSET Versions] /\ overlapped' \in BOOLEAN
    BY DEF Call, TypeInv
  <1>4. pc' \in [Calls -> {"new"} \cup Labels \cup Ended]
    BY DEF Call, Goto, TypeInv, Labels
  <1> QED  BY <1>2, <1>3, <1>4 DEF Call, TypeInv, store, mishaps

LEMMA OtherTypes ==
    ASSUME TypeInv
    PROVE  /\ \A c \in Calls : Crash(c) \/ IoFails(c) => TypeInv'
           /\ ReplacePdf => TypeInv'
  <1>1. ASSUME NEW c \in Calls, Crash(c)  PROVE TypeInv'
    BY <1>1 DEF Crash, Goto, TypeInv, store, inputs, Ended
  <1>3. ASSUME NEW c \in Calls, IoFails(c)  PROVE TypeInv'
    <2>1. [staging[c] EXCEPT !.whole = FALSE] \in Dirs
      BY DEF TypeInv, Dirs
    <2>2. staging' \in [Calls -> Dirs]
      <3>1. PICK left \in {NoDir, [staging[c] EXCEPT !.whole = FALSE]} :
               staging' = [staging EXCEPT ![c] = left]
        BY <1>3 DEF IoFails
      <3>2. left \in Dirs  BY <2>1, DirTypes
      <3> QED  BY <3>1, <3>2 DEF TypeInv
    <2>3. tripped' \subseteq Calls
      BY <1>3 DEF IoFails, TypeInv
    <2>4. pc' \in [Calls -> {"new"} \cup Labels \cup Ended]
      BY <1>3 DEF IoFails, Goto, TypeInv, Ended
    <2>5. UNCHANGED <<inputs, cache, backup, journal, filled, start, named, reply>>
      BY <1>3 DEF IoFails
    <2> QED  BY <2>2, <2>3, <2>4, <2>5 DEF TypeInv, inputs
  <1>2. ASSUME ReplacePdf  PROVE TypeInv'
    <2>1. pdf' \in Versions /\ seen' \in [Calls -> SUBSET Versions]
      BY <1>2 DEF ReplacePdf, TypeInv
    <2> QED  BY <1>2, <2>1 DEF ReplacePdf, TypeInv, store, mishaps
  <1> QED  BY <1>1, <1>2, <1>3

-----------------------------------------------------------------------------
\* Which call runs

\* A call that runs while none overlaps is the only one.
LEMMA OthersRest ==
    ASSUME TypeInv, OrderInv, ~overlapped, NEW c \in Running
    PROVE  /\ \A b \in Calls : b # c => pc[b] \in Ended \cup {"new"}
           /\ \A b \in Calls : c < b => pc[b] = "new"
  BY DEF OrderInv, Running, TypeInv, Calls

LEMMA StepOrder ==
    ASSUME TypeInv, OrderInv, NEW c \in Calls, Step(c)
    PROVE  OrderInv'
  <1>1. /\ c \in Running
        /\ pc'[c] \in Labels \cup Ended
        /\ \A b \in Calls : b # c => pc'[b] = pc[b]
        /\ overlapped' = overlapped
    BY StepMoves DEF inputs
  <1>2. pc[c] # "new" /\ pc'[c] # "new"
    BY <1>1 DEF Running, Labels, Recovery, Looks, Hashed, Working, Swap, Leaving, Ended
  <1>3. \A b \in Calls : b \in Running' => b \in Running
    BY <1>1 DEF Running
  <1> QED  BY <1>1, <1>2, <1>3 DEF OrderInv

LEMMA OtherOrder ==
    ASSUME TypeInv, OrderInv, NEW c \in Calls,
           Call(c) \/ Crash(c) \/ IoFails(c) \/ ReplacePdf
    PROVE  OrderInv'
  <1>1. CASE Call(c)
    <2>1. /\ pc[c] = "new" /\ pc'[c] = "recover"
          /\ \A b \in Calls : b # c => pc'[b] = pc[b]
          /\ overlapped' = (overlapped \/ Running # {})
      BY <1>1 DEF Call, Goto, TypeInv
    <2>2. \A b \in Calls : c < b => pc[b] = "new"
      BY <2>1 DEF OrderInv
    <2>3. \A b \in Calls : b < c => pc[b] # "new"
      BY <1>1 DEF Call, Calls
    <2>4. ASSUME NEW d \in Calls, NEW b \in Calls, d < b
          PROVE  /\ pc'[d] = "new" => pc'[b] = "new"
                 /\ ~overlapped' /\ d \in Running' => pc'[b] = "new"
      <3>1. CASE d = c
        BY <2>1, <2>2, <2>4, <3>1 DEF Calls
      <3>2. CASE d # c
        <4>1. pc'[d] = pc[d] /\ (b # c => pc'[b] = pc[b])  BY <2>1, <3>2
        <4>0. c \in Int /\ d \in Int /\ b \in Int  BY DEF Calls
        <4>2. pc'[d] = "new" => c < d
          <5>1. d < c => pc[d] # "new"  BY <2>3
          <5>2. d < c \/ c < d  BY <3>2, <4>0
          <5> QED  BY <4>1, <5>1, <5>2
        <4>3. ~overlapped' => d \notin Running'
          BY <2>1, <4>1 DEF Running
        <4>4. pc'[d] = "new" => pc'[b] = "new"
          <5>1. pc'[d] = "new" => b # c /\ pc[b] = "new"
            BY <2>2, <2>4, <4>0, <4>2
          <5> QED  BY <4>1, <5>1
        <4> QED  BY <4>3, <4>4
      <3> QED  BY <3>1, <3>2
    <2> QED  BY <2>4 DEF OrderInv
  <1>2. CASE Crash(c) \/ IoFails(c)
    <2>1. /\ pc[c] # "new" /\ pc'[c] \in {"dead", "error"}
          /\ \A b \in Calls : b # c => pc'[b] = pc[b]
          /\ overlapped' = overlapped
      BY <1>2 DEF Crash, IoFails, Goto, TypeInv, inputs, Running
    <2>2. \A b \in Calls : b \in Running' => b \in Running
      BY <2>1 DEF Running, Ended
    <2> QED  BY <2>1, <2>2 DEF OrderInv, Running
  <1>3. CASE ReplacePdf
    BY <1>3 DEF ReplacePdf, OrderInv, Running
  <1> QED  BY <1>1, <1>2, <1>3

-----------------------------------------------------------------------------
\* The steps of a call: what they read, and what is on the disk is the truth

LEMMA StepNamed ==
    ASSUME TypeInv, NamedInv, NEW c \in Calls, Step(c)
    PROVE  NamedInv'
  <1>0. DOMAIN pc = Calls /\ DOMAIN named = Calls  BY DEF TypeInv
  <1>1. \A b \in Calls : b # c => pc'[b] = pc[b]
    BY StepMoves
  <1>2. CASE ReadJournal(c)
    <2>1. journal # 0 \/ pc'[c] = "hash"
      BY <1>0, <1>2 DEF ReadJournal, Goto
    <2>2. named' = [named EXCEPT ![c] = journal]
      BY <1>2 DEF ReadJournal
    <2> QED
      BY <1>0, <1>1, <2>1, <2>2 DEF NamedInv, TypeInv, Recovery, Looks
  <1>3. CASE ~ReadJournal(c)
    <2>1. named' = named
      BY <1>3 DEF Step, Recover, Look, PutBack, DropBackup, DropStaging, DropJournal,
         HashSource, Validate, Hit, Snapshot, ExtractText, ExtractImages, Describe,
         Described, Recheck, Publish, WriteJournal, MoveOut, Install, InstallFails, Undo,
         GiveUp, Clean, Unjournal, Answer, Quiet
    <2>2. pc'[c] \in Recovery => pc[c] \in Recovery
      <3>1. CASE Recover(c)
        BY <1>3, <3>1 DEF Recover, Look, PutBack, DropBackup, DropStaging, DropJournal,
           Recovery, Looks
      <3>2. CASE HashSource(c) \/ Validate(c) \/ Hit(c) \/ Snapshot(c) \/ ExtractText(c)
        BY <1>0, <3>2 DEF HashSource, Validate, Hit, Snapshot, ExtractText, Raise, Goto,
           Recovery, Looks
      <3>3. CASE ExtractImages(c) \/ Describe(c) \/ Described(c) \/ Recheck(c) \/ Publish(c)
        BY <1>0, <3>3 DEF ExtractImages, Describe, Described, Recheck, Publish, Raise,
           Goto, Recovery, Looks
      <3>4. CASE WriteJournal(c) \/ MoveOut(c) \/ Install(c) \/ InstallFails(c)
        BY <1>0, <3>4 DEF WriteJournal, MoveOut, Install, InstallFails, Raise, Goto,
           Recovery, Looks
      <3>5. CASE Undo(c) \/ GiveUp(c) \/ Clean(c) \/ Unjournal(c) \/ Answer(c)
        BY <1>0, <3>5 DEF Undo, GiveUp, Clean, Unjournal, Unlink, Answer, Raise, Goto,
           Recovery, Looks
      <3> QED  BY <3>1, <3>2, <3>3, <3>4, <3>5 DEF Step
    <2> QED  BY <1>1, <2>1, <2>2 DEF NamedInv
  <1> QED  BY <1>2, <1>3

\* Removing files, or everything, leaves the truth of what is left.
LEMMA FaithfulDirs ==
    /\ Faithful(NoDir) /\ ~NoDir.there
    /\ \A d \in Dirs : Rmtree(d).there =>
          d.there /\ Rmtree(d).from = d.from /\ Rmtree(d).sha = d.sha
                  /\ Rmtree(d).errors = d.errors
    /\ \A d \in Dirs : Faithful(d) => Faithful(Rmtree(d))
  BY DEF Faithful, NoDir, Dirs, Rmtree

LEMMA StepFaith ==
    ASSUME TypeInv, NamedInv, FaithInv, NEW c \in Calls, Step(c)
    PROVE  FaithInv'
  <1> USE FaithfulDirs DEF Quiet, store
  <1>0. /\ DOMAIN pc = Calls /\ DOMAIN staging = Calls /\ DOMAIN backup = Calls
        /\ cache \in Dirs
        /\ \A b \in Calls : staging[b] \in Dirs /\ backup[b] \in Dirs
    BY DEF TypeInv
  <1>1. \A b \in Calls : b # c => pc'[b] = pc[b]
    BY StepMoves
  <1>2. /\ Faithful(cache)
        /\ \A b \in Calls : Faithful(backup[b]) /\ Staged(b)
    BY DEF FaithInv
  <1>3. CASE UNCHANGED <<cache, staging, backup, start>> /\ ~Validate(c) /\ ~Snapshot(c)
    <2>1. Staged(c)'
      <3>1. CASE Recover(c) \/ Hit(c)
        BY <1>0, <1>3, <3>1 DEF Recover, ReadJournal, Look, PutBack, DropBackup,
           DropStaging, DropJournal, Unlink, Hit, Goto, Raise, Staged, Working, Swap
      <3>3. CASE ExtractText(c) \/ ExtractImages(c)
        BY <1>0, <1>2, <1>3, <3>3 DEF ExtractText, ExtractImages, Goto, Raise,
           Staged, Working, Swap
      <3>4. CASE Describe(c) \/ Described(c) \/ Recheck(c) \/ Publish(c)
        BY <1>0, <1>2, <1>3, <3>4 DEF Describe, Described, Recheck, Publish, Goto, Raise,
           Staged, Working, Swap
      <3>5. CASE WriteJournal(c) \/ MoveOut(c) \/ Install(c) \/ InstallFails(c)
        BY <1>0, <1>2, <1>3, <3>5 DEF WriteJournal, MoveOut, Install, InstallFails,
           Goto, Raise, Staged, Working, Swap
      <3>6. CASE Undo(c) \/ GiveUp(c) \/ Clean(c) \/ Unjournal(c) \/ Answer(c)
        BY <1>0, <3>6 DEF Undo, GiveUp, Clean, Unjournal, Unlink, Answer,
           Goto, Raise, Staged, Working, Swap
      <3>7. CASE HashSource(c)
        BY <1>0, <3>7 DEF HashSource, Goto, Staged, Working, Swap
      <3> QED  BY <1>3, <3>1, <3>3, <3>4, <3>5, <3>6, <3>7 DEF Step
    <2> QED  BY <1>1, <1>2, <1>3, <2>1 DEF FaithInv, Staged, Faithful
  <1>4. CASE Raise(c) /\ start' = start
    BY <1>0, <1>1, <1>2, <1>4 DEF Raise, FaithInv, Staged, Faithful
  <1>5. CASE Recover(c)
    <2>1. ~ReadJournal(c) => named[c] \in Calls
      BY <1>5 DEF Recover, Look, PutBack, DropBackup, DropStaging, DropJournal,
         NamedInv, Recovery, Looks
    <2>2. CASE PutBack(c)
      <3>1. CASE /\ cache' = backup[named[c]] /\ backup' = [backup EXCEPT ![named[c]] = NoDir]
                 /\ UNCHANGED <<staging, start>> /\ pc'[c] = "if_staging"
                 /\ named[c] \in Calls
        <4>1. Faithful(cache)' /\ \A b \in Calls : Faithful(backup[b])'
          BY <1>0, <1>2, <3>1 DEF Faithful
        <4>2. Staged(c)'
          BY <3>1 DEF Staged, Working, Swap
        <4> QED  BY <1>1, <1>2, <3>1, <4>1, <4>2 DEF FaithInv, Staged
      <3>2. ~ReadJournal(c)  BY <2>2 DEF PutBack, ReadJournal
      <3> QED  BY <1>0, <1>4, <2>1, <2>2, <3>1, <3>2 DEF PutBack, Goto
    <2>3. CASE DropBackup(c)
      <3>1. CASE UNCHANGED <<cache, staging>>
        <4>1. pc'[c] \notin Working \cup Swap
          BY <1>0, <2>3 DEF DropBackup, Goto, Raise, Working, Swap
        <4>2. Staged(c)'
          BY <4>1 DEF Staged, Working, Swap
        <4> QED  BY <1>0, <1>1, <1>2, <2>1, <2>3, <3>1, <4>2
                 DEF DropBackup, Raise, FaithInv, Staged
      <3> QED  BY <1>4, <2>3, <3>1 DEF DropBackup
    <2>4. CASE DropStaging(c)
      <3>1. CASE UNCHANGED <<cache, backup>> /\ named[c] \in Calls
                 /\ staging' = [staging EXCEPT ![named[c]] = Rmtree(@)]
        <4>1. pc'[c] \notin Working \cup Swap
          BY <1>0, <2>4 DEF DropStaging, Goto, Raise, Working, Swap
        <4>2. Staged(c)'
          BY <4>1 DEF Staged, Working, Swap
        <4>3. ASSUME NEW b \in Calls, b # c  PROVE Staged(b)'
          <5>1. staging'[b] \in {staging[b], Rmtree(staging[b])}
            BY <1>0, <3>1
          <5> QED  BY <1>0, <1>1, <1>2, <2>4, <4>3, <5>1 DEF DropStaging, Staged
        <4> QED  BY <1>2, <3>1, <4>2, <4>3 DEF FaithInv, Faithful
      <3>2. ~ReadJournal(c)  BY <2>4 DEF DropStaging, ReadJournal
      <3> QED  BY <1>4, <2>1, <2>4, <3>1, <3>2 DEF DropStaging
    <2> QED
      BY <1>3, <1>4, <1>5, <2>2, <2>3, <2>4 DEF Recover, ReadJournal, Look, DropJournal,
         Unlink, Validate, Snapshot
  <1>6. CASE HashSource(c)
    <2>1. pc'[c] = "validate" /\ \A b \in Calls : b # c => start'[b] = start[b]
      BY <1>0, <1>6 DEF HashSource, Goto, TypeInv
    <2> QED  BY <1>1, <1>2, <1>6, <2>1 DEF HashSource, FaithInv, Staged, Faithful, Working, Swap
  <1>7. CASE Validate(c)
    <2>1. \/ UNCHANGED staging /\ pc'[c] = "hit"
          \/ /\ staging'[c].sha = start[c] /\ ~staging'[c].errors /\ pc'[c] = "snapshot"
             /\ \A b \in Calls : b # c => staging'[b] = staging[b]
      BY <1>0, <1>7 DEF Validate, Goto
    <2>2. Staged(c)'
      BY <1>7, <2>1 DEF Validate, Staged, Working, Swap
    <2> QED  BY <1>1, <1>2, <1>7, <2>1, <2>2 DEF Validate, FaithInv, Staged, Faithful
  <1>8. CASE Snapshot(c)
    <2>1. CASE pdf = start[c] /\ pc[c] = "snapshot" /\ pc' = [pc EXCEPT ![c] = "extract"]
               /\ staging' = [staging EXCEPT ![c].from = pdf]
               /\ UNCHANGED <<cache, backup, start>>
      <3>1. /\ staging'[c] = [staging[c] EXCEPT !.from = pdf] /\ pc'[c] = "extract"
            /\ \A b \in Calls : b # c => staging'[b] = staging[b]
        BY <1>0, <2>1
      <3>2. /\ staging'[c].from = pdf /\ staging'[c].sha = staging[c].sha
            /\ staging'[c].errors = staging[c].errors /\ staging'[c].there = staging[c].there
        BY <1>0, <3>1 DEF Dirs
      <3> QED
        BY <1>1, <1>2, <2>1, <3>1, <3>2 DEF FaithInv, Staged, Faithful, Working, Swap
    <2> QED  BY <1>4, <1>8, <2>1 DEF Snapshot, Goto
  <1>9. CASE ExtractText(c) \/ ExtractImages(c) \/ Described(c) \/ Recheck(c) \/ Publish(c)
    BY <1>3, <1>4, <1>9 DEF ExtractText, ExtractImages, Described, Recheck, Publish,
       Validate, Snapshot
  <1>10. CASE Describe(c)
    <2>1. PICK errors \in BOOLEAN : staging' = [staging EXCEPT ![c].errors = errors]
      BY <1>10 DEF Describe
    <2>2. /\ staging'[c] = [staging[c] EXCEPT !.errors = errors]
          /\ pc[c] = "describe" /\ pc'[c] = "described"
          /\ \A b \in Calls : b # c => staging'[b] = staging[b]
      BY <1>0, <1>10, <2>1 DEF Describe, Goto
    <2>3. /\ staging'[c].from = staging[c].from /\ staging'[c].sha = staging[c].sha
          /\ staging'[c].there = staging[c].there
      BY <1>0, <2>2 DEF Dirs
    <2> QED
      BY <1>1, <1>2, <1>10, <2>2, <2>3 DEF Describe, FaithInv, Staged, Faithful, Working, Swap
  <1>11. CASE WriteJournal(c)
    BY <1>3, <1>11 DEF WriteJournal, Validate, Snapshot
  <1>12. CASE MoveOut(c)
    <2>1. CASE cache' = NoDir /\ backup' = [backup EXCEPT ![c] = cache]
               /\ pc' = [pc EXCEPT ![c] = "install_over"] /\ pc[c] = "move_out"
               /\ UNCHANGED <<staging, start>>
      <3>1. Staged(c)'
        BY <1>0, <1>2, <2>1 DEF Staged, Working, Swap
      <3>2. \A b \in Calls : Faithful(backup[b])'
        BY <1>0, <1>2, <2>1 DEF Faithful
      <3> QED  BY <1>1, <1>2, <2>1, <3>1, <3>2 DEF FaithInv, Staged, Faithful
    <2> QED  BY <1>4, <1>12, <2>1 DEF MoveOut, Goto
  <1>13. CASE Install(c)
    <2>1. /\ cache' = staging[c] /\ staging'[c] = NoDir
          /\ \A b \in Calls : b # c => staging'[b] = staging[b]
          /\ UNCHANGED <<backup, start>> /\ pc[c] \in Swap /\ staging[c].there
      BY <1>0, <1>13 DEF Install, Installs, Swap
    <2>2. Faithful(cache)'
      BY <1>2, <2>1 DEF Staged, Faithful, Swap
    <2>3. Staged(c)'
      BY <2>1 DEF Staged
    <2> QED  BY <1>1, <1>2, <2>1, <2>2, <2>3 DEF FaithInv, Staged, Faithful
  <1>14. CASE InstallFails(c)
    BY <1>3, <1>14 DEF InstallFails, Installs, Validate, Snapshot
  <1>18. CASE Undo(c)
    <2>1. CASE /\ cache' = backup[c] /\ backup' = [backup EXCEPT ![c] = NoDir]
               /\ pc' = [pc EXCEPT ![c] = "give_up"] /\ UNCHANGED <<staging, start>>
      <3>1. Faithful(cache)' /\ \A b \in Calls : Faithful(backup[b])'
        BY <1>0, <1>2, <2>1 DEF Faithful
      <3>2. Staged(c)'
        BY <1>0, <2>1 DEF Staged, Working, Swap
      <3> QED  BY <1>1, <1>2, <2>1, <3>1, <3>2 DEF FaithInv, Staged
    <2> QED  BY <1>4, <1>18, <2>1 DEF Undo, Goto
  <1>15. CASE GiveUp(c)
    BY <1>3, <1>4, <1>15 DEF GiveUp, Validate, Snapshot
  <1>16. CASE Clean(c)
    <2>1. CASE UNCHANGED <<cache, staging, start>> /\ pc'[c] \in {"clean", "unjournal"}
               /\ backup' = [backup EXCEPT ![c] = Rmtree(@)]
      <3>1. \A b \in Calls : Faithful(backup[b])'
        BY <1>0, <1>2, <2>1 DEF Faithful
      <3>2. Staged(c)'
        BY <2>1 DEF Staged, Working, Swap
      <3> QED  BY <1>1, <1>2, <2>1, <3>1, <3>2 DEF FaithInv, Staged, Faithful
    <2> QED  BY <1>0, <1>4, <1>16, <2>1 DEF Clean, Goto
  <1>17. CASE Unjournal(c) \/ Answer(c) \/ Hit(c)
    BY <1>3, <1>4, <1>17 DEF Unjournal, Unlink, Answer, Hit, Validate, Snapshot
  <1> QED
    BY <1>5, <1>6, <1>7, <1>8, <1>9, <1>10, <1>11, <1>12, <1>13, <1>14, <1>15, <1>16,
       <1>17, <1>18 DEF Step

LEMMA OtherFaith ==
    ASSUME TypeInv, FaithInv, NEW c \in Calls,
           Call(c) \/ Crash(c) \/ IoFails(c) \/ ReplacePdf
    PROVE  FaithInv'
  <1>1. CASE Call(c) \/ Crash(c)
    <2>1. /\ pc'[c] \in {"recover", "dead"} /\ \A b \in Calls : b # c => pc'[b] = pc[b]
          /\ UNCHANGED <<cache, staging, backup, start>>
      BY <1>1 DEF Call, Crash, Goto, TypeInv, store
    <2>2. Staged(c)'
      BY <2>1 DEF Staged, Working, Swap
    <2> QED  BY <2>1, <2>2 DEF FaithInv, Staged, Faithful
  <1>2. CASE ReplacePdf
    BY <1>2 DEF ReplacePdf, FaithInv, Staged, Faithful, store
  <1>3. CASE IoFails(c)
    <2>1. /\ pc'[c] = "error" /\ \A b \in Calls : b # c => pc'[b] = pc[b]
          /\ \A b \in Calls : b # c => staging'[b] = staging[b]
          /\ UNCHANGED <<cache, backup, start>>
      BY <1>3 DEF IoFails, Goto, TypeInv
    <2>2. Staged(c)'
      BY <2>1 DEF Staged, Working, Swap
    <2> QED  BY <2>1, <2>2 DEF FaithInv, Staged, Faithful
  <1> QED  BY <1>1, <1>2, <1>3

\* What a call is told when it ends comes from the PDF it saw: the hit reads a
\* cache that was valid for the PDF, the answer describes what was hashed.
LEMMA StepSeen ==
    ASSUME TypeInv, FaithInv, SeenInv, OrderInv, NEW c \in Calls, Step(c)
    PROVE  SeenInv'
  <1>0. /\ DOMAIN pc = Calls /\ DOMAIN start = Calls /\ DOMAIN reply = Calls
    BY DEF TypeInv
  <1>1. /\ c \in Running /\ pc[c] \in Labels /\ pc'[c] \in Labels \cup Ended
        /\ \A b \in Calls : b # c => pc'[b] = pc[b]
        /\ UNCHANGED <<pdf, args, seen, overlapped>>
    BY StepMoves DEF inputs
  <1>2. /\ pdf \in seen[c]
        /\ pc[c] \in Hashed => start[c] \in seen[c]
        /\ ~overlapped /\ pc[c] = "hit" =>
              ValidFor(cache, cache.sha, args[c].images) /\ cache.sha \in seen[c]
    BY <1>1 DEF SeenInv
  <1>3. ASSUME NEW b \in Calls, b # c
        PROVE  /\ b \in Running' => pdf' \in seen'[b]
               /\ pc'[b] \in Hashed => start'[b] \in seen'[b]
               /\ ~overlapped' /\ pc'[b] = "hit" =>
                     /\ ValidFor(cache', (cache.sha)', args'[b].images)
                     /\ (cache.sha)' \in seen'[b]
               /\ ~overlapped' /\ pc'[b] = "ok" =>
                     /\ (reply[b].from)' \in seen'[b]
                     /\ args'[b].images = TextOnly \/ (reply[b].images)' = args'[b].images
    <2>1. start'[b] = start[b] /\ reply'[b] = reply[b]
      <3>1. start' = start \/ start' = [start EXCEPT ![c] = pdf]
        BY DEF Step, Recover, ReadJournal, Look, PutBack, DropBackup, DropStaging,
           DropJournal, HashSource, Validate, Hit, Snapshot, ExtractText, ExtractImages,
           Describe, Described, Recheck, Publish, WriteJournal, MoveOut, Install,
           InstallFails, Undo, GiveUp, Clean, Unjournal, Answer, Quiet
      <3>2. reply' = reply \/ \E d : reply' = [reply EXCEPT ![c] = d]
        BY DEF Step, Recover, ReadJournal, Look, PutBack, DropBackup, DropStaging,
           DropJournal, HashSource, Validate, Hit, Snapshot, ExtractText, ExtractImages,
           Describe, Described, Recheck, Publish, WriteJournal, MoveOut, Install,
           InstallFails, Undo, GiveUp, Clean, Unjournal, Answer, Quiet
      <3> QED  BY <1>0, <1>3, <3>1, <3>2
    <2>2. ~overlapped => pc[b] # "hit"
      BY <1>1, <1>3, OthersRest DEF Ended
    <2> QED  BY <1>1, <1>3, <2>1, <2>2 DEF SeenInv, Running
  <1>4. start'[c] \in seen'[c] \/ pc'[c] \notin Hashed
    <2>1. CASE HashSource(c)
      BY <1>0, <1>1, <1>2, <2>1 DEF HashSource
    <2>2. CASE Recover(c)
      BY <1>0, <2>2 DEF Recover, ReadJournal, Look, PutBack, DropBackup, DropStaging,
         DropJournal, Unlink, Raise, Goto, Hashed, Working, Swap, Leaving
    <2>3. CASE ~HashSource(c) /\ ~Recover(c)
      <3>1. start' = start
        BY <2>3 DEF Step, Validate, Hit, Snapshot, ExtractText, ExtractImages,
           Describe, Described, Recheck, Publish, WriteJournal, MoveOut, Install,
           InstallFails, Undo, GiveUp, Clean, Unjournal, Answer, Quiet
      <3>2. pc[c] \in Hashed
        BY <2>3 DEF Step, Validate, Hit, Snapshot, ExtractText, ExtractImages,
           Describe, Described, Recheck, Publish, WriteJournal, MoveOut, Install, Installs,
           InstallFails, Undo, GiveUp, Clean, Unjournal, Answer, Hashed, Working, Swap, Leaving
      <3> QED  BY <1>1, <1>2, <3>1, <3>2
    <2> QED  BY <2>1, <2>2, <2>3
  <1>5. CASE Validate(c)
    <2>1. pc'[c] # "ok" /\ cache' = cache
      BY <1>0, <1>5 DEF Validate, Goto
    <2>2. pc'[c] = "hit" => ValidFor(cache, pdf, args[c].images)
      BY <1>0, <1>5 DEF Validate, Goto
    <2>3. pc'[c] = "hit" => ValidFor(cache, cache.sha, args[c].images) /\ cache.sha = pdf
      BY <2>2 DEF ValidFor
    <2> QED  BY <1>1, <1>2, <1>3, <1>4, <2>1, <2>3 DEF SeenInv
  <1>6. CASE Hit(c)
    <2>1. pc'[c] # "hit"
      BY <1>0, <1>6 DEF Hit, Raise, Goto
    <2>2. pc'[c] = "ok" => reply'[c] = cache /\ cache.there
      BY <1>0, <1>6 DEF Hit, Raise, Goto
    <2>3. ~overlapped /\ pc'[c] = "ok" =>
             /\ cache.from \in seen[c]
             /\ args[c].images = TextOnly \/ cache.images = args[c].images
      BY <1>2, <1>6, <2>2 DEF Hit, FaithInv, Faithful, ValidFor
    <2> QED  BY <1>1, <1>2, <1>3, <1>4, <2>1, <2>2, <2>3 DEF SeenInv
  <1>7. CASE Answer(c)
    <2>1. /\ pc'[c] = "ok" /\ pc[c] = "answer"
          /\ reply'[c].from = start[c] /\ reply'[c].images = args[c].images
      BY <1>0, <1>7 DEF Answer, Goto
    <2>2. start[c] \in seen[c]
      BY <1>2, <2>1 DEF Hashed, Leaving
    <2> QED  BY <1>1, <1>2, <1>3, <1>4, <2>1, <2>2 DEF SeenInv
  <1>8. CASE ~Validate(c) /\ ~Hit(c) /\ ~Answer(c)
    <2>1. pc'[c] \notin {"hit", "ok"}
      BY <1>0, <1>8 DEF Step, Recover, ReadJournal, Look, PutBack, DropBackup, DropStaging,
         DropJournal, HashSource, Snapshot, ExtractText, ExtractImages,
         Describe, Described, Recheck, Publish, WriteJournal, MoveOut, Install,
         InstallFails, Undo, GiveUp, Clean, Unjournal, Unlink, Raise, Goto
    <2> QED  BY <1>1, <1>2, <1>3, <1>4, <2>1 DEF SeenInv
  <1> QED  BY <1>5, <1>6, <1>7, <1>8

LEMMA OtherSeen ==
    ASSUME TypeInv, SeenInv, NEW c \in Calls,
           Call(c) \/ Crash(c) \/ IoFails(c) \/ ReplacePdf
    PROVE  SeenInv'
  <1>1. CASE Call(c) \/ Crash(c) \/ IoFails(c)
    <2>1. /\ pc'[c] \in {"recover", "dead", "error"} /\ \A b \in Calls : b # c => pc'[b] = pc[b]
          /\ pc'[c] = "recover" => pdf' \in seen'[c]
          /\ \A b \in Calls : b # c => seen'[b] = seen[b] /\ args'[b] = args[b]
          /\ ~overlapped' => ~overlapped
          /\ UNCHANGED <<cache, start, reply, pdf>>
      BY <1>1 DEF Call, Crash, IoFails, Goto, TypeInv, store, inputs
    <2>2. pc'[c] \notin Hashed /\ pc'[c] \notin {"hit", "ok"}
      BY <2>1 DEF Hashed, Working, Swap, Leaving
    <2>3. c \in Running' => pdf' \in seen'[c]
      BY <2>1 DEF Running, Ended
    <2> QED  BY <2>1, <2>2, <2>3 DEF SeenInv, Running
  <1>2. CASE ReplacePdf
    <2>1. \A b \in Calls : seen[b] \subseteq seen'[b]
      BY <1>2 DEF ReplacePdf, TypeInv
    <2>2. \A b \in Running : pdf' \in seen'[b]
      BY <1>2 DEF ReplacePdf, TypeInv, Running
    <2>3. UNCHANGED <<cache, pc, args, start, reply, overlapped>> /\ Running' = Running
      BY <1>2 DEF ReplacePdf, store, Running
    <2> QED  BY <2>1, <2>2, <2>3 DEF SeenInv
  <1> QED  BY <1>1, <1>2

-----------------------------------------------------------------------------
\* The disk while calls do not overlap

\* A call that runs alone keeps the disk sound and its program counter truthful,
\* and leaves no journal when it ends.  What makes it so in each step is what the
\* label of the step says: a recovery puts the backup back only into an empty
\* place and removes it only beside a cache; a swap moves the cache away only
\* under its own journal, and drops the backup only once the new cache is there.
LEMMA SoloStep ==
    ASSUME TypeInv, NamedInv, Sound, NEW c \in Calls, LabelInv(c), Step(c)
    PROVE  Sound' /\ LabelInv(c)' /\ (pc'[c] \in Ended => journal' = 0)
  <1> DEFINE Goal == Sound' /\ LabelInv(c)' /\ (pc'[c] \in Ended => journal' = 0)
  <1> USE DEF Quiet, store, Goto
  <1>0. /\ DOMAIN pc = Calls /\ DOMAIN staging = Calls /\ DOMAIN backup = Calls
        /\ DOMAIN named = Calls
        /\ journal \in {0} \cup Calls /\ 0 \notin Calls
        /\ pc[c] \in Recovery => named[c] \in Calls
    BY DEF TypeInv, NamedInv, Calls
  <1>1. ASSUME Raise(c), journal = 0, filled' = filled  PROVE Goal
    <2>1. pc'[c] = "error"  BY <1>0, <1>1 DEF Raise
    <2>2. LabelInv(c)'
      BY <2>1 DEF LabelInv, Recovery, Looks, Working, Swap
    <2> QED  BY <1>0, <1>1, <2>1, <2>2 DEF Raise, Sound, Ended
  <1>2. CASE ReadJournal(c)
    <2>1. /\ UNCHANGED <<cache, staging, backup, journal, filled>>
          /\ named'[c] = journal
          /\ pc'[c] = IF journal = 0 THEN "hash" ELSE "if_cache"
      BY <1>0, <1>2 DEF ReadJournal
    <2>2. LabelInv(c)'
      BY <2>1 DEF LabelInv, Recovery, Looks, Working, Swap
    <2> QED  BY <1>0, <2>1, <2>2 DEF Sound, Ended
  <1>3. CASE Look(c)
    <2>1. UNCHANGED <<cache, staging, backup, journal, filled, named>>
      BY <1>3 DEF Look
    <2>2. LabelInv(c)' /\ pc'[c] \notin Ended
      BY <1>0, <1>3, <2>1 DEF Look, Sound, Kept, LabelInv, Recovery, Looks, Working, Swap,
         Ended
    <2> QED  BY <2>1, <2>2 DEF Sound
  <1>4. CASE PutBack(c)
    <2>1. named[c] = journal /\ ~cache.there /\ backup[journal].there /\ journal \in Calls
      BY <1>0, <1>4 DEF PutBack, LabelInv, Recovery
    <2>2. /\ cache' = backup[journal] /\ backup' = [backup EXCEPT ![journal] = NoDir]
          /\ pc'[c] = "if_staging"
          /\ UNCHANGED <<staging, journal, filled, named>>
      BY <1>0, <1>4, <2>1 DEF PutBack
    <2>3. filled /\ Kept(backup[journal])
      BY <2>1 DEF Sound, Kept
    <2>4. backup'[journal] = NoDir /\ \A n \in Calls : n # journal => backup'[n] = backup[n]
      BY <1>0, <2>1, <2>2
    <2>5. LabelInv(c)'
      BY <2>1, <2>2, <2>3, <2>4 DEF LabelInv, Kept, Recovery, Looks, Working, Swap, NoDir
    <2> QED  BY <2>1, <2>2, <2>3, <2>4, <2>5 DEF Sound, Kept, Ended, NoDir
  <1>5. CASE DropBackup(c)
    <2>1. named[c] = journal /\ cache.there /\ backup[journal].there /\ journal \in Calls
      BY <1>0, <1>5 DEF DropBackup, LabelInv, Recovery
    <2>2. /\ backup' = [backup EXCEPT ![journal] = Rmtree(backup[journal])]
          /\ pc'[c] = IF backup[journal].whole THEN "drop_backup" ELSE "if_staging"
          /\ UNCHANGED <<cache, staging, journal, filled, named>>
      BY <1>0, <1>5, <2>1 DEF DropBackup
    <2>3. /\ backup'[journal] = Rmtree(backup[journal])
          /\ \A n \in Calls : n # journal => backup'[n] = backup[n]
      BY <1>0, <2>1, <2>2
    <2>4. IF backup[journal].whole THEN backup'[journal].there ELSE ~backup'[journal].there
      BY <2>1, <2>3 DEF Rmtree, NoDir, TypeInv, Dirs
    <2>5. LabelInv(c)'
      BY <1>0, <2>1, <2>2, <2>4 DEF LabelInv, Recovery, Looks, Working, Swap
    <2> QED  BY <2>1, <2>2, <2>3, <2>4, <2>5 DEF Sound, Kept, Ended
  <1>6. CASE DropStaging(c)
    <2>1. named[c] = journal /\ staging[journal].there /\ journal \in Calls
      BY <1>0, <1>6 DEF DropStaging, LabelInv, Recovery
    <2>2. /\ staging' = [staging EXCEPT ![journal] = Rmtree(staging[journal])]
          /\ pc[c] = "drop_staging"
          /\ pc'[c] = IF staging[journal].whole THEN "drop_staging" ELSE "drop_journal"
          /\ UNCHANGED <<cache, backup, journal, filled, named>>
      BY <1>0, <1>6, <2>1 DEF DropStaging
    <2>3. staging[journal].whole => staging'[journal].there
      BY <1>0, <2>1, <2>2 DEF Rmtree, TypeInv, Dirs
    <2>4. LabelInv(c)'
      BY <1>0, <2>1, <2>2, <2>3 DEF LabelInv, Recovery, Looks, Working, Swap
    <2> QED  BY <2>1, <2>2, <2>4 DEF Sound, Ended
  <1>7. CASE DropJournal(c)
    <2>1. /\ named[c] = journal /\ journal \in Calls
          /\ filled => cache.there
          /\ ~backup[journal].there
      BY <1>0, <1>7 DEF DropJournal, LabelInv, Recovery
    <2>2. /\ journal' = 0 /\ pc'[c] = "hash"
          /\ UNCHANGED <<cache, staging, backup, filled, named>>
      BY <1>0, <1>7, <2>1 DEF DropJournal, Unlink
    <2>3. LabelInv(c)'
      BY <2>2 DEF LabelInv, Recovery, Looks, Working, Swap
    <2> QED  BY <2>1, <2>2, <2>3 DEF Sound, Kept, Ended
  <1>8. CASE HashSource(c) \/ Validate(c) \/ Hit(c)
    <2>1. journal = 0 /\ UNCHANGED <<cache, backup, journal, filled, named>>
      BY <1>8 DEF HashSource, Validate, Hit, Raise, LabelInv
    <2>2. \/ pc'[c] \in {"validate", "hit", "ok", "error"}
          \/ pc'[c] = "snapshot" /\ staging'[c].there /\ staging'[c].whole
      BY <1>0, <1>8 DEF HashSource, Validate, Hit, Raise
    <2>3. LabelInv(c)'
      BY <2>1, <2>2 DEF LabelInv, Recovery, Looks, Working, Swap
    <2> QED  BY <2>1, <2>3 DEF Sound
  <1>9. CASE Snapshot(c) \/ ExtractText(c) \/ ExtractImages(c) \/ Describe(c) \/ Described(c)
             \/ Recheck(c)
    <2>1. pc[c] \in Working
      BY <1>9 DEF Snapshot, ExtractText, ExtractImages, Describe, Described, Recheck, Working
    <2>2. journal = 0 /\ staging[c].there /\ staging[c].whole
      BY <2>1 DEF LabelInv
    <2>3. UNCHANGED <<cache, backup, journal, filled, named>>
      BY <1>9 DEF Snapshot, ExtractText, ExtractImages, Describe, Described, Recheck, Raise
    <2>4. pc'[c] = "error" \/ pc'[c] = "publish" \/ pc'[c] \in Working
      BY <1>0, <1>9 DEF Snapshot, ExtractText, ExtractImages, Describe, Described, Recheck,
         Raise, Working
    <2>5. pc'[c] # "error" => staging'[c].there /\ staging'[c].whole
      <3>1. CASE Snapshot(c)
        <4>1. pc'[c] # "error" => staging' = [staging EXCEPT ![c].from = pdf]
          BY <1>0, <3>1 DEF Snapshot, Raise
        <4>2. staging[c] \in Dirs
          BY DEF TypeInv
        <4> QED  BY <1>0, <2>2, <4>1, <4>2 DEF Dirs
      <3>2. CASE Describe(c)
        BY <1>0, <2>2, <3>2 DEF Describe, TypeInv, Dirs
      <3> QED
        BY <1>0, <1>9, <2>2, <3>1, <3>2 DEF ExtractText, ExtractImages, Described, Recheck, Raise
    <2>6. LabelInv(c)'
      BY <2>2, <2>3, <2>4, <2>5 DEF LabelInv, Recovery, Looks, Working, Swap
    <2> QED  BY <2>2, <2>3, <2>6 DEF Sound
  <1>10. CASE Publish(c) \/ WriteJournal(c)
    <2>1. /\ journal = 0 /\ staging[c].there /\ staging[c].whole
          /\ UNCHANGED <<cache, staging, backup, filled, named>>
      BY <1>10 DEF Publish, WriteJournal, LabelInv, Swap
    <2>2. \/ pc'[c] = "journal" /\ cache.there /\ journal' = 0
          \/ pc'[c] = "install_new" /\ ~cache.there /\ journal' = 0
          \/ pc'[c] = "move_out" /\ journal' = c /\ cache.there
      BY <1>0, <1>10, <2>1 DEF Publish, WriteJournal, LabelInv
    <2>3. LabelInv(c)'
      BY <2>1, <2>2 DEF LabelInv, Recovery, Looks, Working, Swap
    <2>4. Sound'
      BY <1>0, <2>1, <2>2 DEF Sound, Kept
    <2> QED  BY <2>2, <2>3, <2>4 DEF Ended
  <1>11. CASE MoveOut(c)
    <2>1. /\ journal = c /\ cache.there /\ cache.whole /\ filled
          /\ staging[c].there /\ staging[c].whole
      BY <1>11 DEF MoveOut, LabelInv, Swap, Sound
    <2>2. /\ backup' = [backup EXCEPT ![c] = cache] /\ cache' = NoDir
          /\ pc'[c] = "install_over" /\ UNCHANGED <<staging, journal, filled, named>>
      BY <1>0, <1>11, <2>1 DEF MoveOut
    <2>3. backup'[c] = cache /\ \A n \in Calls : n # c => backup'[n] = backup[n]
      BY <1>0, <2>2
    <2>4. LabelInv(c)'
      BY <2>1, <2>2, <2>3 DEF LabelInv, Recovery, Looks, Working, Swap, NoDir
    <2> QED  BY <1>0, <2>1, <2>2, <2>3, <2>4 DEF Sound, Kept, Ended, NoDir
  <1>12. CASE Install(c)
    <2>1. /\ pc[c] \in {"install_new", "install_over"} /\ ~cache.there
          /\ staging[c].there /\ staging[c].whole
          /\ IF pc[c] = "install_over" THEN journal = c /\ backup[c].there
                                       ELSE journal = 0
      BY <1>12 DEF Install, Installs, LabelInv, Swap
    <2>2. /\ cache' = staging[c] /\ filled' = TRUE
          /\ pc'[c] = IF pc[c] = "install_over" THEN "clean" ELSE "answer"
          /\ UNCHANGED <<backup, journal, named>>
      BY <1>0, <1>12 DEF Install
    <2>3. LabelInv(c)'
      BY <2>1, <2>2 DEF LabelInv, Recovery, Looks, Working, Swap
    <2> QED  BY <2>1, <2>2, <2>3 DEF Sound, Kept, Ended
  <1>13. CASE InstallFails(c)
    <2>1. UNCHANGED <<cache, backup, staging, journal, filled, named>>
      BY <1>13 DEF InstallFails
    <2>2. CASE pc[c] = "install_over"
      <3>1. ~cache.there /\ journal = c /\ backup[c].there /\ backup[c].whole
        BY <2>2 DEF LabelInv
      <3>2. pc'[c] = "undo"
        BY <1>0, <1>13, <2>2, <3>1 DEF InstallFails
      <3>3. LabelInv(c)'
        BY <2>1, <3>1, <3>2 DEF LabelInv, Recovery, Looks, Working, Swap
      <3> QED  BY <2>1, <3>2, <3>3 DEF Sound, Ended
    <2>3. CASE pc[c] = "install_new"
      <3>1. journal = 0
        BY <2>3 DEF LabelInv
      <3>2. pc'[c] = "raise"
        BY <1>0, <1>13, <2>3 DEF InstallFails
      <3>3. LabelInv(c)'
        BY <2>1, <3>1, <3>2 DEF LabelInv, Recovery, Looks, Working, Swap
      <3> QED  BY <2>1, <3>2, <3>3 DEF Sound, Ended
    <2> QED  BY <1>13, <2>2, <2>3 DEF InstallFails, Installs
  <1>18. CASE Undo(c)
    <2>1. ~cache.there /\ journal = c /\ backup[c].there /\ backup[c].whole /\ filled
      BY <1>18 DEF Undo, LabelInv, Sound
    <2>2. /\ cache' = backup[c] /\ backup' = [backup EXCEPT ![c] = NoDir]
          /\ pc'[c] = "give_up" /\ UNCHANGED <<staging, journal, filled, named>>
      BY <1>0, <1>18, <2>1 DEF Undo
    <2>3. backup'[c] = NoDir /\ \A n \in Calls : n # c => backup'[n] = backup[n]
      BY <1>0, <2>2
    <2>4. LabelInv(c)'
      BY <2>1, <2>2, <2>3 DEF LabelInv, Recovery, Looks, Working, Swap, NoDir
    <2> QED  BY <2>1, <2>2, <2>3, <2>4 DEF Sound, Kept, Ended, NoDir
  <1>14. CASE GiveUp(c)
    <2>1. CASE pc[c] = "give_up"
      <3>1. cache.there /\ journal = c /\ ~backup[c].there
        BY <2>1 DEF LabelInv
      <3>2. journal' = 0 /\ pc'[c] = "raise" /\ UNCHANGED <<cache, staging, backup, filled, named>>
        BY <1>0, <1>14, <2>1 DEF GiveUp
      <3>3. LabelInv(c)'
        BY <3>1, <3>2 DEF LabelInv, Recovery, Looks, Working, Swap
      <3> QED  BY <1>0, <3>1, <3>2, <3>3 DEF Sound, Kept, Ended
    <2>2. CASE pc[c] = "raise"
      BY <1>1, <1>14, <2>2 DEF GiveUp, LabelInv
    <2> QED  BY <1>14, <2>1, <2>2 DEF GiveUp
  <1>15. CASE Clean(c)
    <2>1. journal = c /\ cache.there /\ backup[c].there
      BY <1>15 DEF Clean, LabelInv
    <2>2. /\ backup' = [backup EXCEPT ![c] = Rmtree(backup[c])]
          /\ pc'[c] = IF backup[c].whole THEN "clean" ELSE "unjournal"
          /\ UNCHANGED <<cache, staging, journal, filled, named>>
      BY <1>0, <1>15, <2>1 DEF Clean
    <2>3. /\ backup'[c] = Rmtree(backup[c])
          /\ \A n \in Calls : n # c => backup'[n] = backup[n]
      BY <1>0, <2>2
    <2>4. IF backup[c].whole THEN backup'[c].there ELSE ~backup'[c].there
      BY <2>1, <2>3 DEF Rmtree, NoDir, TypeInv, Dirs
    <2>5. LabelInv(c)'
      BY <2>1, <2>2, <2>4 DEF LabelInv, Recovery, Looks, Working, Swap
    <2> QED  BY <2>1, <2>2, <2>3, <2>4, <2>5 DEF Sound, Kept, Ended
  <1>16. CASE Unjournal(c)
    <2>1. journal = c /\ cache.there /\ ~backup[c].there
      BY <1>16 DEF Unjournal, LabelInv
    <2>2. /\ journal' = 0 /\ pc'[c] = "answer"
          /\ UNCHANGED <<cache, staging, backup, filled, named>>
      BY <1>0, <1>16, <2>1 DEF Unjournal, Unlink
    <2>3. LabelInv(c)'
      BY <2>2 DEF LabelInv, Recovery, Looks, Working, Swap
    <2> QED  BY <1>0, <2>1, <2>2, <2>3 DEF Sound, Kept, Ended
  <1>17. CASE Answer(c)
    <2>1. journal = 0 /\ pc'[c] = "ok" /\ UNCHANGED <<cache, staging, backup, journal, filled, named>>
      BY <1>0, <1>17 DEF Answer, LabelInv
    <2>2. LabelInv(c)'
      BY <2>1 DEF LabelInv, Recovery, Looks, Working, Swap
    <2> QED  BY <2>1, <2>2 DEF Sound
  <1> QED
    BY <1>2, <1>3, <1>4, <1>5, <1>6, <1>7, <1>8, <1>9, <1>10, <1>11, <1>12, <1>13, <1>14,
       <1>15, <1>16, <1>17, <1>18 DEF Step, Recover

\* A call that does not run says nothing of the disk.
LEMMA RestingLabel ==
    ASSUME NEW b \in Calls, pc[b] \in Ended \cup {"new", "recover"}
    PROVE  LabelInv(b)
  BY DEF LabelInv, Ended, Recovery, Looks, Working, Swap

LEMMA StepSolo ==
    ASSUME TypeInv, NamedInv, OrderInv, SoloInv, NEW c \in Calls, Step(c)
    PROVE  SoloInv'
  <1> SUFFICES ASSUME ~overlapped'  PROVE DiskInv' /\ \A b \in Calls : LabelInv(b)'
    BY DEF SoloInv
  <1>1. /\ c \in Running /\ pc'[c] \in Labels \cup Ended
        /\ \A b \in Calls : b # c => pc'[b] = pc[b]
        /\ ~overlapped
    BY StepMoves DEF inputs
  <1>2. Sound /\ LabelInv(c)
    BY <1>1 DEF SoloInv, DiskInv
  <1>3. Sound' /\ LabelInv(c)' /\ (pc'[c] \in Ended => journal' = 0)
    BY <1>2, SoloStep
  <1>4. ASSUME NEW b \in Calls, b # c  PROVE LabelInv(b)'
    <2>1. pc'[b] \in Ended \cup {"new", "recover"}
      BY <1>1, <1>4, OthersRest
    <2> QED  BY <2>1 DEF LabelInv, Ended, Recovery, Looks, Working, Swap
  <1>5. Running' = {} => journal' = 0
    <2>1. pc'[c] # "new"
      BY <1>1 DEF Labels, Recovery, Looks, Hashed, Working, Swap, Leaving, Ended
    <2> QED  BY <1>3, <2>1 DEF Running
  <1> QED  BY <1>3, <1>4, <1>5 DEF DiskInv

LEMMA OtherSolo ==
    ASSUME TypeInv, OrderInv, SoloInv, NEW c \in Calls,
           Call(c) \/ Crash(c) \/ IoFails(c) \/ ReplacePdf
    PROVE  SoloInv'
  <1> SUFFICES ASSUME ~overlapped'  PROVE DiskInv' /\ \A b \in Calls : LabelInv(b)'
    BY DEF SoloInv
  <1>1. CASE Call(c) \/ Crash(c) \/ IoFails(c)
    <2>1. /\ UNCHANGED <<cache, backup, journal, filled, named>> /\ ~overlapped
          /\ pc'[c] \in {"recover", "dead", "error"}
          /\ \A b \in Calls : b # c => pc'[b] = pc[b]
      BY <1>1 DEF Call, Crash, IoFails, Goto, TypeInv, store, inputs
    <2>2. Sound'
      BY <2>1 DEF SoloInv, DiskInv, Sound, Kept
    <2>3. LabelInv(c)'
      BY <2>1 DEF LabelInv, Recovery, Looks, Working, Swap
    <2>4. CASE Call(c)
      <3>1. c \in Running'  BY <2>1, <2>4 DEF Call, Goto, Running, TypeInv, Ended
      <3>2. \A b \in Calls : b # c => LabelInv(b)'
        BY <2>1, <2>4 DEF Call, store, SoloInv, LabelInv
      <3> QED  BY <2>2, <2>3, <3>1, <3>2 DEF DiskInv
    <2>5. CASE Crash(c) \/ IoFails(c)
      <3>1. /\ c \in Running
            /\ pc'[c] = "dead" \/ c \in tripped'
        BY <2>5 DEF Crash, IoFails, Goto, TypeInv
      <3>2. \A b \in Calls : c < b => pc'[b] = "new"
        BY <2>1, <3>1, OthersRest DEF Calls
      <3>3. \A b \in Calls : b # c => pc'[b] \in Ended \cup {"new"}
        BY <2>1, <3>1, OthersRest
      <3>4. \A b \in Calls : b # c => LabelInv(b)'
        BY <3>3 DEF LabelInv, Ended, Recovery, Looks, Working, Swap
      <3> QED  BY <2>2, <2>3, <3>1, <3>2, <3>4 DEF DiskInv
    <2> QED  BY <1>1, <2>4, <2>5
  <1>2. CASE ReplacePdf
    BY <1>2 DEF ReplacePdf, store, mishaps, SoloInv, DiskInv, Sound, Kept, LabelInv, Running
  <1> QED  BY <1>1, <1>2

-----------------------------------------------------------------------------
\* The invariant, and what follows from it

LEMMA InitInv == Init => IInv
  <1> SUFFICES ASSUME Init  PROVE IInv
    OBVIOUS
  <1>1. /\ cache \in Dirs /\ pdf \in Versions /\ filled = cache.there
        /\ cache.there => cache.whole /\ cache.from = cache.sha /\ ~cache.errors
    <2>1. pdf \in Versions /\ filled = cache.there
      BY DEF Init
    <2>2. CASE cache = NoDir
      BY <2>1, <2>2, DirTypes
    <2>3. CASE cache \in [there : {TRUE}, from : {pdf}, sha : {pdf}, images : Wanted,
                          errors : {FALSE}, whole : {TRUE}]
      BY <2>1, <2>3 DEF Dirs
    <2> QED  BY <2>1, <2>2, <2>3 DEF Init
  <1>2. TypeInv
    <2>1. args \in [Calls -> [force : BOOLEAN, images : Wanted]]
      BY DEF Init, Wanted
    <2>2. filled \in BOOLEAN
      BY <1>1 DEF Dirs
    <2> QED  BY <1>1, <2>1, <2>2, DirTypes DEF Init, TypeInv
  <1>3. \A c \in Calls : /\ pc[c] = "new" /\ c \notin Running
                         /\ ~staging[c].there /\ ~backup[c].there
    BY DirTypes DEF Init, Running
  <1>4. NamedInv /\ OrderInv
    BY <1>3 DEF NamedInv, OrderInv, Recovery, Looks
  <1>5. FaithInv
    BY <1>1, <1>3 DEF FaithInv, Faithful, Staged
  <1>6. SeenInv
    BY <1>3 DEF SeenInv, Hashed, Working, Swap, Leaving
  <1>7. SoloInv
    <2>1. Sound /\ journal = 0
      BY <1>1, <1>3 DEF Sound, Kept, Init
    <2> QED  BY <1>3, <2>1, RestingLabel DEF SoloInv, DiskInv
  <1> QED  BY <1>2, <1>4, <1>5, <1>6, <1>7 DEF IInv

LEMMA NextInv == IInv /\ [Next]_vars => IInv'
  <1> SUFFICES ASSUME IInv, [Next]_vars  PROVE IInv'
    OBVIOUS
  <1> USE DEF IInv
  <1>1. ASSUME NEW c \in Calls, Step(c)  PROVE IInv'
    BY <1>1, StepTypes, StepNamed, StepFaith, StepSeen, StepOrder, StepSolo
  <1>2. ASSUME NEW c \in Calls, Call(c) \/ Crash(c) \/ IoFails(c)  PROVE IInv'
    <2>1. TypeInv'  BY <1>2, CallTypes, OtherTypes
    <2>2. NamedInv'
      BY <1>2 DEF Call, Crash, IoFails, Goto, TypeInv, NamedInv, Recovery, Looks
    <2> QED  BY <1>2, <2>1, <2>2, OtherFaith, OtherSeen, OtherOrder, OtherSolo
  <1>3. CASE ReplacePdf
    <2>1. CASE Calls # {}
      <3>1. PICK c \in Calls : TRUE  BY <2>1
      <3>2. NamedInv'  BY <1>3 DEF ReplacePdf, NamedInv
      <3> QED  BY <1>3, <3>1, <3>2, OtherTypes, OtherFaith, OtherSeen, OtherOrder, OtherSolo
    <2>2. CASE Calls = {}
      <3>1. TypeInv'  BY <1>3, OtherTypes
      <3> QED
        BY <1>3, <2>2, <3>1 DEF ReplacePdf, store, mishaps, NamedInv, FaithInv, Faithful, SeenInv,
           OrderInv, SoloInv, DiskInv, Sound, Kept, Running
    <2> QED  BY <2>1, <2>2
  <1>4. CASE UNCHANGED vars
    BY <1>4 DEF vars, store, inputs, mishaps, TypeInv, NamedInv, FaithInv, Faithful, Staged, SeenInv,
       ValidFor, OrderInv, SoloInv, DiskInv, Sound, Kept, LabelInv, Running
  <1> QED  BY <1>1, <1>2, <1>3, <1>4 DEF Next

\* Every variable keeps the values the code gives it, whatever overlaps.
THEOREM TypesHold == Spec => []TypeInv
  <1>1. IInv => TypeInv  BY DEF IInv
  <1> QED  BY <1>1, InitInv, NextInv, PTL DEF Spec

\* The cache and every backup say of themselves what is true, even when calls
\* overlap and the PDF changes while it is read.
THEOREM CacheNeverLies == Spec => []CacheIsFaithful
  <1>1. IInv => CacheIsFaithful  BY DEF IInv, FaithInv, Faithful, CacheIsFaithful
  <1> QED  BY <1>1, InitInv, NextInv, PTL DEF Spec

\* No death and no failed rename of calls that do not overlap loses a finished
\* extraction.
THEOREM ExtractionSurvives == Spec => []NothingLost
  <1>1. IInv => NothingLost
    BY DEF IInv, SoloInv, DiskInv, Sound, NothingLost
  <1> QED  BY <1>1, InitInv, NextInv, PTL DEF Spec

\* A call that does not overlap another is answered from a PDF that was there
\* while it ran.
THEOREM NoStaleAnswer == Spec => []AnswersWereSeen
  <1>1. IInv => AnswersWereSeen
    BY DEF IInv, SeenInv, AnswersWereSeen
  <1> QED  BY <1>1, InitInv, NextInv, PTL DEF Spec

\* One call that comes to its end by itself leaves neither journal nor backup of
\* the calls before it, however they died or failed.
THEOREM CrashesAreCleared == Spec => []SwapsSettle
  <1>1. IInv => SwapsSettle
    <2> SUFFICES ASSUME IInv, ~overlapped, Running = {},
                        \A c \in Calls : pc[c] = "dead" \/ c \in tripped =>
                            \E b \in Calls \ tripped : b > c /\ pc[b] \in {"ok", "error"}
                 PROVE  journal = 0 /\ \A c \in Calls : ~backup[c].there
      BY DEF SwapsSettle
    <2>1. DiskInv /\ Sound
      BY DEF IInv, SoloInv, DiskInv
    <2>2. journal = 0
      <3> SUFFICES ASSUME journal # 0  PROVE FALSE
        OBVIOUS
      <3>1. PICK c \in Calls : /\ pc[c] = "dead" \/ c \in tripped
                             /\ \A b \in Calls : c < b => pc[b] = "new"
        BY <2>1 DEF DiskInv
      <3>2. PICK b \in Calls : b > c /\ pc[b] \in {"ok", "error"}
        BY <3>1
      <3>3. c < b  BY <3>2 DEF Calls
      <3> QED  BY <3>1, <3>2, <3>3
    <2> QED  BY <2>1, <2>2 DEF Sound, Calls
  <1> QED  BY <1>1, InitInv, NextInv, PTL DEF Spec

=============================================================================
