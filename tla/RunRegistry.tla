----------------------------- MODULE RunRegistry -----------------------------
(***************************************************************************)
(* What the run store promises its callers: one durable table of runs, in  *)
(* which a run is created or completed by a single indivisible step.  Locks,*)
(* the index file, crashes and the order of the file writes are absent.    *)
(***************************************************************************)
EXTENDS RunRecords

VARIABLE runs

Init == runs = [r \in RunIds |-> NoRecord]

\* A run is created only when no unfinished run has the same inputs, unless
\* the caller asked for a clean one; it descends from the latest run and
\* invalidates that run's result when the inputs changed.
Create(r, f, c, x, t) ==
    /\ runs[r].status = "absent"
    /\ c \/ Unfinished(runs, f) = {}
    /\ runs' = [runs EXCEPT ![r] = NewCheckpoint(runs, f, c, x, t)]

\* A known run is completed, possibly again, at the path it is bound to.
Complete(r, x, a) ==
    /\ r \in Known(runs)
    /\ runs[r].path \in {None, x}
    /\ runs' = [runs EXCEPT ![r] = CompletedCheckpoint(@, x, a)]

Next ==
    \/ \E r \in RunIds, f \in Fingerprints, c \in BOOLEAN,
          x \in ExtPaths \cup {None}, t \in 0..MaxClock : Create(r, f, c, x, t)
    \/ \E r \in RunIds, x \in Paths, a \in Artifacts : Complete(r, x, a)

Spec == Init /\ [][Next]_runs
=============================================================================
