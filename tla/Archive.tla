------------------------------- MODULE Archive -------------------------------
(***************************************************************************)
(* What the stores of official evidence promise: under a name there is at  *)
(* most one content, it is put there in one step, and it stays.  The filing*)
(* downloader (FilingStore) and the event manifests (EventManifest)        *)
(* implement this with a temporary file and os.link.                       *)
(***************************************************************************)
VARIABLE held       \* a set of pairs of a name and its content

Init == held = {}

Add(h) ==
    /\ \A other \in held : other[1] # h[1]
    /\ held' = held \cup {h}

Next == \E h \in held' \ held : Add(h)

Spec == Init /\ [][Next]_held
=============================================================================
