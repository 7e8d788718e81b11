----------------------------- MODULE RunRecords -----------------------------
(***************************************************************************)
(* The records financial_run_store.py keeps about the runs of one ticker,  *)
(* one skill and one fiscal year, and the pure choices made from them.     *)
(* A run is named by the N of its "-vN" suffix; its own report.md is the   *)
(* path N, any other result path is a member of ExtPaths.                  *)
(* The same record shape is used for checkpoint.json and for an entry of   *)
(* index.json: status "absent" says the file or the entry does not exist.  *)
(***************************************************************************)
EXTENDS Naturals

CONSTANTS Fingerprints,   \* input fingerprints callers resolve with
          ExtPaths,       \* result paths outside the run directories
          Artifacts,      \* result artifact ids
          None,           \* "no value": None in the Python code
          MaxRuns,        \* bound: version numbers 1..MaxRuns
          MaxClock        \* bound: values of the wall clock 0..MaxClock

RunIds == 1..MaxRuns
Paths  == RunIds \cup ExtPaths

ASSUME BoundsAssumption == MaxRuns \in Nat /\ MaxClock \in Nat
ASSUME NoneAssumption   == None \notin Fingerprints \cup Artifacts \cup Paths

Records ==
    [status   : {"absent", "in_progress", "completed"},
     fp       : Fingerprints \cup {None},
     parent   : {0} \cup RunIds,
     created  : 0..MaxClock,
     path     : Paths \cup {None},
     artifact : Artifacts \cup {None},
     clean    : BOOLEAN,
     invalidated : SUBSET Artifacts]

NoRecord ==
    [status |-> "absent", fp |-> None, parent |-> 0, created |-> 0,
     path |-> None, artifact |-> None, clean |-> FALSE, invalidated |-> {}]

\* An index entry keeps every field of the checkpoint but clean and
\* invalidated_artifacts.
RecordFromCheckpoint(c) == [c EXCEPT !.clean = FALSE, !.invalidated = {}]

Known(ix)         == {r \in RunIds : ix[r].status # "absent"}
Matching(ix, f)   == {r \in Known(ix) : ix[r].fp = f}
Unfinished(ix, f) == {r \in Matching(ix, f) : ix[r].status = "in_progress"}

\* The path a run's result is read from: the bound one or its own report.md.
ResultPath(ix, r) == IF ix[r].path = None THEN r ELSE ix[r].path

Reusable(ix, f, published) ==
    {r \in Matching(ix, f) : /\ ix[r].status = "completed"
                             /\ ResultPath(ix, r) \in published}

\* max(..., key=_run_sort_key): creation time, then version.
Created(ix) == [r \in RunIds |-> ix[r].created]

NotNewer(at, s, r) == at[s] < at[r] \/ (at[s] = at[r] /\ s <= r)

Newest(at, S) == CHOOSE r \in S : \A s \in S : NotNewer(at, s, r)

Latest(ix, S) == Newest(Created(ix), S)

ParentOf(ix, c) == IF c \/ Known(ix) = {} THEN 0 ELSE Latest(ix, Known(ix))

Invalidates(ix, f, par) ==
    IF par # 0 /\ ix[par].artifact # None /\ ix[par].fp # f
    THEN {ix[par].artifact} ELSE {}

\* The initial checkpoint of a run created for inputs f, with clean flag c,
\* requested result path x and creation time t, when the index holds ix.
NewCheckpoint(ix, f, c, x, t) ==
    [status |-> "in_progress", fp |-> f, parent |-> ParentOf(ix, c),
     created |-> t, path |-> x, artifact |-> None, clean |-> c,
     invalidated |-> Invalidates(ix, f, ParentOf(ix, c))]

CompletedCheckpoint(c, x, a) ==
    [c EXCEPT !.status = "completed", !.artifact = a, !.path = x]
=============================================================================
