------------------------------ MODULE Watchlist ------------------------------
(***************************************************************************)
(* A watchlist and its snapshots (watchlist/store.py), kept in the DuckDB  *)
(* file of the data layer, and used by several processes, one connection   *)
(* after the other.  A process that has the data layer open keeps everybody*)
(* else out of the file; what another process tries meanwhile fails.       *)
(*                                                                         *)
(* One name of a list is modelled: operations on different names have      *)
(* nothing in common but the file.  Descriptions and screen conditions are *)
(* treated like the symbols.                                               *)
(***************************************************************************)
EXTENDS DataCache

CONSTANTS
    Procs,
    Nobody,
    SnapshotDays,   \* bound: the days snapshots are taken for
    MaxRequests,    \* bound: requests to the data layer itself
    MaxCalls        \* bound: these and calls of the store

ASSUME WatchlistAssumption == SnapshotDays \subseteq Days /\ Nobody \notin Procs

None    == [listed |-> FALSE, symbols |-> {}]
List(S) == [listed |-> TRUE, symbols |-> S]

VARIABLES
    list,       \* the row of watchlist_definitions, or None
    rows,       \* watchlist_snapshots: records of date, symbol and call
    owner,      \* the process that has the data layer open, or Nobody
    doing,      \* what each process does between two connections
    copy,       \* the list as a process read it
    requests, calls

watch == <<list, rows, owner, doing, copy, requests, calls>>
vars  == <<world, cache, watch>>

Init ==
    /\ DataInit
    /\ list = None /\ rows = {} /\ owner = Nobody
    /\ doing = [p \in Procs |-> "idle"] /\ copy = [p \in Procs |-> None]
    /\ requests = 0 /\ calls = 0

\* _conn: DuckDB gives the file to one process at a time.
Connects(p) == owner \in {Nobody, p}
Idle(p)     == doing[p] = "idle"
Counted     == calls < MaxCalls /\ calls' = calls + 1
Called      == Counted /\ UNCHANGED requests
Becomes(p, what, read) ==
    /\ doing' = [doing EXCEPT ![p] = what]
    /\ copy'  = [copy EXCEPT ![p] = read]

-----------------------------------------------------------------------------
\* The data layer is opened, used and closed.  A crash closes it, too, and
\* forgets what the process was doing.

OpenData(p) ==
    /\ owner = Nobody /\ Idle(p)
    /\ owner' = p
    /\ UNCHANGED <<world, cache, list, rows, doing, copy, requests, calls>>

UseData(p) ==
    /\ owner = p /\ Idle(p)
    /\ requests < MaxRequests /\ requests' = requests + 1 /\ Counted
    /\ DataRequest
    /\ UNCHANGED <<list, rows, owner, doing, copy>>

CloseData(p) ==
    /\ owner = p \/ (~Idle(p) /\ owner = Nobody)
    /\ owner' = Nobody
    /\ Becomes(p, "idle", None)
    /\ UNCHANGED <<world, cache, list, rows, requests, calls>>

-----------------------------------------------------------------------------
\* Lists

Create(p, S) ==
    /\ Idle(p) /\ Connects(p) /\ ~list.listed
    /\ list' = List(S)
    /\ Called
    /\ UNCHANGED <<world, cache, rows, owner, doing, copy>>

\* update, add_symbol and remove_symbol read the list in one connection ...
Read(p) ==
    /\ Idle(p) /\ Connects(p) /\ list.listed
    /\ Becomes(p, "editing", list)
    /\ Called
    /\ UNCHANGED <<world, cache, list, rows, owner>>

\* ... and write what they make of it in another, if there still is a list: one
\* symbol more, one less, or those update was given, whatever they are.
Edited(S) == {S \cup {s} : s \in Symbols} \cup {S \ {s} : s \in Symbols} \cup SUBSET Symbols
Write(p) ==
    /\ doing[p] = "editing" /\ Connects(p)
    /\ IF list.listed THEN \E S \in Edited(copy[p].symbols) : list' = List(S)
                      ELSE list' = list
    /\ Becomes(p, "idle", None)
    /\ UNCHANGED <<world, cache, rows, owner, requests, calls>>

\* The snapshots first, then the list; a crash may come between the two.
Delete(p) ==
    /\ Idle(p) /\ Connects(p)
    /\ rows' = {}
    /\ list' \in {list, None}
    /\ Called
    /\ UNCHANGED <<world, cache, owner, doing, copy>>

\* import_yaml with overwrite deletes in one connection and creates in another.
\* The file holds any set of symbols.
ImportDelete(p) ==
    /\ Idle(p) /\ Connects(p)
    /\ rows' = {} /\ list' = None
    /\ Becomes(p, "importing", None)
    /\ Called
    /\ UNCHANGED <<world, cache, owner>>

ImportCreate(p) ==
    /\ doing[p] = "importing" /\ Connects(p)
    /\ IF list.listed THEN list' = list ELSE \E S \in SUBSET Symbols : list' = List(S)
    /\ Becomes(p, "idle", None)
    /\ UNCHANGED <<world, cache, rows, owner, requests, calls>>

\* Somebody is kept out by the owner of the file: duckdb.IOException.
Refused(p) ==
    /\ ~Idle(p) /\ ~Connects(p)
    /\ Becomes(p, "idle", None)
    /\ UNCHANGED <<world, cache, list, rows, owner, requests, calls>>

-----------------------------------------------------------------------------
\* Snapshots

Day(d) == [from |-> d, to |-> d]

\* _collect_metrics asks for prices, then for fundamentals.  An error of a source
\* is swallowed; a crash leaves any part of a request.
Collected(c, S, asof) ==
    LET priced == {c, GetPrices(c, S, Day(asof))} IN
    priced \cup {GetFundamentals(d, S, Day(asof)) : d \in priced}
CollectedTorn(c, S, asof) ==
    GetPricesTorn(c, S, Day(asof))
    \cup UNION {GetFundamentalsTorn(d, S, Day(asof)) : d \in {c, GetPrices(c, S, Day(asof))}}

\* (mutant) a snapshot there is is added to
GuardedNever(asof, force) == TRUE

\* The immutability guard.
Guarded(asof, force) == (\E r \in rows : r.date = asof) => force

\* The process has the file of the lists open as its data layer throughout, so that
\* nobody comes between.  With force the rows of the day are deleted; then the metrics are collected, and
\* the rows inserted one by one, each for itself: a crash leaves some.
Kept(asof, force) == {r \in rows : r.date # asof \/ ~force}
Taken(asof, S)    == {[date |-> asof, symbol |-> s, call |-> calls] : s \in S}
Snapshot(p, asof, force) ==
    /\ owner = p /\ Idle(p) /\ list.listed
    /\ Guarded(asof, force)
    /\ Called
    /\ \/ /\ cache' \in CollectedTorn(cache, list.symbols, asof)
          /\ rows' = Kept(asof, force)
       \/ /\ cache' \in Collected(cache, list.symbols, asof)
          /\ \E S \in SUBSET list.symbols : rows' = Kept(asof, force) \cup Taken(asof, S)
    /\ UNCHANGED <<world, list, owner, doing, copy>>

-----------------------------------------------------------------------------
Next ==
    \/ DataWorld /\ UNCHANGED watch
    \/ \E p \in Procs :
          \/ OpenData(p) \/ UseData(p) \/ CloseData(p)
          \/ \E S \in SUBSET Symbols : Create(p, S)
          \/ Read(p) \/ Write(p) \/ Delete(p)
          \/ ImportDelete(p) \/ ImportCreate(p) \/ Refused(p)
          \/ \E asof \in SnapshotDays, force \in BOOLEAN : Snapshot(p, asof, force)

Spec == Init /\ [][Next]_vars
-----------------------------------------------------------------------------
\* Properties

\* All rows of a snapshot were collected by one call, of one and the same list,
\* whatever was edited, deleted, imported or cut short between two calls.
SnapshotIsOneCall == \A r, q \in rows : r.date = q.date => r.call = q.call
=============================================================================
