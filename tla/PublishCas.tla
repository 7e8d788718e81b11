----------------------------- MODULE PublishCas -----------------------------
(***************************************************************************)
(* publish_text of scripts/publish_text_cas.py: publishers replace one     *)
(* text file only if it still has the content they expect and their guard  *)
(* files are unchanged.  Publishers exclude each other with a non-blocking *)
(* flock; editors know nothing of it and rewrite or delete the file at any *)
(* moment, and guard files change at any moment.  Every file-system call   *)
(* is a step of its own, and a publisher may die between two of them.      *)
(*                                                                         *)
(* A content is named by who wrote it: Base, the publisher itself, or the  *)
(* number of the edit.  Equal SHA-256 sums are equal contents.             *)
(***************************************************************************)
EXTENDS Naturals

CONSTANTS Publishers, Base, Absent,
          InitialTarget,  \* what is at the target at first: Base or Absent
          MaxEdits,       \* bound: edits of the target
          MaxDeletes,     \* bound: deletions of the target
          MaxGuardFlips,  \* bound: changes of the guard files
          MaxCrashes      \* bound: publishers that die

Edits    == 1..MaxEdits
Contents == {Base} \cup Publishers \cup Edits

ASSUME ContentsAssumption ==
    /\ Absent \notin Contents
    /\ Base \notin Publishers \cup Edits /\ Publishers \cap Edits = {}
    /\ InitialTarget \in {Base, Absent}
ASSUME BoundsAssumption ==
    MaxEdits \in Nat /\ MaxDeletes \in Nat /\ MaxGuardFlips \in Nat
    /\ MaxCrashes \in Nat

VARIABLES
    target,     \* the content at the target path, or Absent
    temp,       \* the content of each publisher's .partial file, or Absent
    guard,      \* TRUE when every guard file has its expected hash
    lock,       \* the publisher that holds the flock, or Absent
    pc,         \* the next file-system call of each publisher
    expected,   \* its expected_sha256 argument
    original,   \* its original_body
    reply,      \* "ok", "error", or "none" while running or after a crash
    superseded, \* contents an editor replaced or removed, or a publisher
                \* took out as the baseline its caller named
    edits, deletes, flips, crashes

files  == <<target, temp>>
args   == <<expected, original>>
counts == <<edits, deletes, flips, crashes>>
vars   == <<files, guard, lock, pc, args, reply, superseded, counts>>

Init ==
    /\ target = InitialTarget
    /\ temp     = [p \in Publishers |-> Absent]
    /\ guard = TRUE /\ lock = Absent
    /\ pc       = [p \in Publishers |-> "start"]
    /\ expected = [p \in Publishers |-> Absent]
    /\ original = [p \in Publishers |-> Absent]
    /\ reply    = [p \in Publishers |-> "none"]
    /\ superseded = {}
    /\ edits = 0 /\ deletes = 0 /\ flips = 0 /\ crashes = 0

-----------------------------------------------------------------------------
\* Helpers

Goto(p, label) ==
    /\ pc' = [pc EXCEPT ![p] = label]
    /\ UNCHANGED <<lock, reply>>

\* The finally clause: the flock is dropped.  (The .partial file is unlinked
\* in the same clause: RaiseError and Final set temp.)
Return(p, answer) ==
    /\ pc'    = [pc EXCEPT ![p] = "done"]
    /\ lock'  = Absent
    /\ reply' = [reply EXCEPT ![p] = answer]

RaiseError(p) ==
    /\ Return(p, "error")
    /\ temp' = [temp EXCEPT ![p] = Absent]
    /\ UNCHANGED <<target, guard, args, superseded, counts>>

\* renameat2(RENAME_EXCHANGE) of the .partial file and the target; it fails
\* when the target does not exist.
Exchange(p) ==
    /\ target # Absent
    /\ target' = temp[p]
    /\ temp' = [temp EXCEPT ![p] = target]

-----------------------------------------------------------------------------
\* publish_text, one action per call that looks at or changes a file

Start(p) ==
    /\ pc[p] = "start"
    /\ expected' \in {[expected EXCEPT ![p] = e] :
                          e \in (Contents \ {p}) \cup {Absent}}
    /\ \/ /\ lock = Absent /\ lock' = p
          /\ pc' = [pc EXCEPT ![p] = "guards1"] /\ UNCHANGED reply
       \/ /\ lock # Absent /\ UNCHANGED lock
          /\ pc'    = [pc EXCEPT ![p] = "done"]
          /\ reply' = [reply EXCEPT ![p] = "error"]
    /\ UNCHANGED <<files, guard, original, superseded, counts>>

CheckGuards(p, from, to) ==
    /\ pc[p] = from /\ guard
    /\ Goto(p, to)
    /\ UNCHANGED <<files, guard, args, superseded, counts>>

Guards1(p) ==
    \/ CheckGuards(p, "guards1", "baseline")
    \/ pc[p] = "guards1" /\ ~guard /\ RaiseError(p)

\* (mutant) takes whatever is at the target for the baseline
BaselineUnchecked(p) ==
    /\ pc[p] = "baseline"
    /\ original' = [original EXCEPT ![p] = target]
    /\ Goto(p, "stage")
    /\ UNCHANGED <<files, guard, expected, superseded, counts>>

ReadBaseline(p) ==
    \/ /\ pc[p] = "baseline" /\ target = expected[p]
       /\ original' = [original EXCEPT ![p] = target]
       /\ Goto(p, "stage")
       /\ UNCHANGED <<files, guard, expected, superseded, counts>>
    \/ pc[p] = "baseline" /\ target # expected[p] /\ RaiseError(p)

Stage(p) ==
    /\ pc[p] = "stage"
    /\ temp' = [temp EXCEPT ![p] = p]
    /\ Goto(p, "guards2")
    /\ UNCHANGED <<target, guard, args, superseded, counts>>

Guards2(p) ==
    \/ CheckGuards(p, "guards2", "swap")
    \/ pc[p] = "guards2" /\ ~guard /\ RaiseError(p)

\* os.link for an absent baseline, the exchange for an existing one.
Swap(p) ==
    \/ /\ pc[p] = "swap" /\ original[p] = Absent /\ target = Absent
       /\ target' = p
       /\ temp' = [temp EXCEPT ![p] = Absent]
       /\ Goto(p, "guards3")
       /\ UNCHANGED <<guard, args, superseded, counts>>
    \/ /\ pc[p] = "swap" /\ original[p] # Absent
       /\ Exchange(p)
       /\ Goto(p, "compare")
       /\ UNCHANGED <<guard, args, superseded, counts>>
    \/ /\ pc[p] = "swap"
       /\ (original[p] = Absent) # (target = Absent)
       /\ RaiseError(p)

\* (mutant) takes the exchange itself for proof of the baseline
CompareSkipped(p) ==
    /\ pc[p] = "compare"
    /\ Goto(p, "guards3")
    /\ UNCHANGED <<files, guard, args, superseded, counts>>

\* What came out is the baseline the caller named, or it goes back in.
Compare(p) ==
    \/ /\ pc[p] = "compare" /\ temp[p] = original[p]
       /\ superseded' = superseded \cup {original[p]}
       /\ Goto(p, "guards3")
       /\ UNCHANGED <<files, guard, args, counts>>
    \/ /\ pc[p] = "compare" /\ temp[p] # original[p]
       /\ Goto(p, "restore")
       /\ UNCHANGED <<files, guard, args, superseded, counts>>

Guards3(p) ==
    \/ CheckGuards(p, "guards3", "final")
    \/ /\ pc[p] = "guards3" /\ ~guard
       /\ Goto(p, IF original[p] = Absent THEN "reread" ELSE "restore")
       /\ UNCHANGED <<files, guard, args, superseded, counts>>

\* Rollback of a file that was absent: read it, then unlink it.
Reread(p) ==
    \/ /\ pc[p] = "reread" /\ target = p
       /\ Goto(p, "unlink")
       /\ UNCHANGED <<files, guard, args, superseded, counts>>
    \/ pc[p] = "reread" /\ target # p /\ RaiseError(p)

Unlink(p) ==
    /\ pc[p] = "unlink"
    /\ target' = Absent
    /\ Return(p, "error")
    /\ UNCHANGED <<temp, guard, args, superseded, counts>>

\* (mutant) a rollback that never exchanges back
RestoreNothing(p) ==
    pc[p] \in {"restore", "settle", "undo"} /\ RaiseError(p)

\* _restore_exchanged_target: exchange, look at what came out, and exchange
\* again when it is not this publisher's body.
Restore(p) ==
    \/ /\ pc[p] = "restore" /\ Exchange(p)
       /\ Goto(p, "settle")
       /\ UNCHANGED <<guard, args, superseded, counts>>
    \/ pc[p] = "restore" /\ target = Absent /\ RaiseError(p)
    \/ pc[p] = "settle" /\ temp[p] = p /\ RaiseError(p)
    \/ /\ pc[p] = "settle" /\ temp[p] # p
       /\ Goto(p, "undo")
       /\ UNCHANGED <<files, guard, args, superseded, counts>>
    \/ /\ pc[p] = "undo" /\ target # Absent
       /\ target' = temp[p]
       /\ temp' = [temp EXCEPT ![p] = Absent]
       /\ Return(p, "error")
       /\ UNCHANGED <<guard, args, superseded, counts>>
    \/ pc[p] = "undo" /\ target = Absent /\ RaiseError(p)

Final(p) ==
    \/ /\ pc[p] = "final" /\ target = p
       /\ Return(p, "ok")
       /\ temp' = [temp EXCEPT ![p] = Absent]
       /\ UNCHANGED <<target, guard, args, superseded, counts>>
    \/ pc[p] = "final" /\ target # p /\ RaiseError(p)

-----------------------------------------------------------------------------
\* The environment

\* An editor writes a new version over whatever it finds at the target.
Edit ==
    /\ edits < MaxEdits
    /\ edits' = edits + 1
    /\ target' = edits + 1
    /\ superseded' = superseded \cup ({target} \ {Absent})
    /\ UNCHANGED <<temp, guard, lock, pc, args, reply, deletes, flips, crashes>>

Delete ==
    /\ target # Absent /\ deletes < MaxDeletes
    /\ deletes' = deletes + 1
    /\ target' = Absent
    /\ superseded' = superseded \cup {target}
    /\ UNCHANGED <<temp, guard, lock, pc, args, reply, edits, flips, crashes>>

FlipGuard ==
    /\ flips < MaxGuardFlips
    /\ flips' = flips + 1
    /\ guard' = ~guard
    /\ UNCHANGED <<files, lock, pc, args, reply, superseded, edits, deletes,
                   crashes>>

\* The process dies: its flock goes, its .partial file stays on the disk.
Crash(p) ==
    /\ pc[p] \notin {"start", "done"} /\ crashes < MaxCrashes
    /\ crashes' = crashes + 1
    /\ pc' = [pc EXCEPT ![p] = "done"]
    /\ lock' = Absent
    /\ UNCHANGED <<files, guard, args, reply, superseded, edits, deletes,
                   flips>>

Publish(p) ==
    \/ Start(p) \/ Guards1(p) \/ ReadBaseline(p) \/ Stage(p) \/ Guards2(p)
    \/ Swap(p) \/ Compare(p) \/ Guards3(p) \/ Reread(p) \/ Unlink(p)
    \/ Restore(p) \/ Final(p)

Next ==
    \/ \E p \in Publishers : Publish(p) \/ Crash(p)
    \/ Edit \/ Delete \/ FlipGuard

Spec == Init /\ [][Next]_vars

-----------------------------------------------------------------------------
\* Correctness

Labels == {"guards1", "baseline", "stage", "guards2", "swap", "compare",
           "guards3", "reread", "unlink", "restore", "settle", "undo", "final"}

\* Every variable keeps its type.
TypeOK ==
    /\ target \in Contents \cup {Absent}
    /\ temp \in [Publishers -> Contents \cup {Absent}]
    /\ guard \in BOOLEAN /\ lock \in Publishers \cup {Absent}
    /\ pc \in [Publishers -> Labels \cup {"start", "done"}]
    /\ expected \in [Publishers -> Contents \cup {Absent}]
    /\ original \in [Publishers -> Contents \cup {Absent}]
    /\ reply \in [Publishers -> {"none", "ok", "error"}]
    /\ superseded \in SUBSET Contents
    /\ edits \in 0..MaxEdits /\ deletes \in 0..MaxDeletes
    /\ flips \in 0..MaxGuardFlips /\ crashes \in 0..MaxCrashes

\* A publish that failed leaves nothing of its own at the target, whichever
\* file-system call it failed at and whatever others did meanwhile: every
\* path that raises PublishError after the exchange has undone it.
FailureLeavesNothing ==
    \A p \in Publishers : reply[p] = "error" => target # p

\* Compare-and-swap: of the publishers that expect the same existing content
\* no two succeed, in spite of rollbacks that put that content back.
OneWinnerPerBaseline ==
    \A p, q \in Publishers :
        /\ reply[p] = "ok" /\ reply[q] = "ok" /\ p # q
        => expected[p] = Absent \/ expected[p] # expected[q]

\* An edit stays on the disk until an editor replaces it or a publisher takes
\* it out as the baseline its caller named.  PublishError is documented as
\* raised when a text cannot be published without data loss
\* (publish_text_cas.py:16); the rollback of a file that was absent reads it
\* and then unlinks whatever is there by then.
NoEditLost ==
    \A e \in 1..edits :
        \/ e = target \/ e \in superseded
        \/ \E p \in Publishers : temp[p] = e

\* A single edit of an existing file is never lost, whenever it comes and
\* however many publishers fail, roll back or die around it.
LoneEditSurvives ==
    InitialTarget # Absent /\ edits + deletes = 1 => NoEditLost
=============================================================================
