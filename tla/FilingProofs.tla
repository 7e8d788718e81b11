---------------------------- MODULE FilingProofs ----------------------------
(***************************************************************************)
(* What the downloader of annual reports promises: its store of files, for *)
(* any number of downloads, promotions, addresses and contents, wherever   *)
(* processes die; and its search, for every catalogue, page size, row range*)
(* and cutoff, whatever is published between two queries.                  *)
(*                                                                         *)
(* The store.  The archive of copies and origins only grows, so what was   *)
(* validated against it stays valid.  The invariant follows what a process *)
(* knows: a downloader, that its address has served the body it works on,  *)
(* from the answer to the lock and again once the sidecar was read; a      *)
(* promoter, that its draft is backed by the archive, and stays one if     *)
(* nobody rewrites it.                                                     *)
(*                                                                         *)
(* The search, in the second half.  Announcements are numbered in the      *)
(* official order and their times never change, so every catalogue of rows *)
(* read at different moments is one in order.  ReadInv says so; WholeInv   *)
(* counts the pages and covers the days by windows; ManifestInv ties a     *)
(* manifest to the catalogue it was made of.                               *)
(***************************************************************************)
EXTENDS FilingStore, AnnualSearch, FiniteSetTheorems, WellFoundedInduction, SequenceTheorems,
        TLAPS

-----------------------------------------------------------------------------
\* The store

Fetched   == {"lock", "compare", "replace_pdf", "replace_sidecar"}
Hashed    == {"copy", "link_copy", "verify", "source"}
Confirmed == {"link_origin", "check_1", "check_2", "link_1", "link_2"}
Reviewed  == {"valid_1", "valid_2", "promote_1", "promote_2", "reread"}
Validated == {"valid_2", "promote_1", "promote_2", "reread"}

Roles ==
    /\ \A p \in Downloaders : pc[p] \notin Reviewed
    /\ \A p \in Promoters : pc[p] \notin {"fetch", "digest"} \cup Fetched \cup Hashed \cup Confirmed

\* What has been read in the course of a call, and from where.
Known ==
    \A p \in Procs :
        /\ pc[p] \in {"fetch", "digest"} \cup Fetched \cup Hashed \cup Confirmed => url[p] \in Urls
        /\ pc[p] \in Fetched \cup Hashed \cup Confirmed => body[p] \in Bodies
        /\ pc[p] \in {"replace_sidecar", "digest"} => pdf # None
        /\ pc[p] \in Reviewed => draft[p] \in Manifests

\* The address has served it.
Served ==
    /\ \A u \in Urls : official[u] \in served[u]
    /\ sidecar # None => sidecar.sha \in served[sidecar.url]
    /\ \A b \in Bodies : origins[b] # None => b \in served[origins[b]]
    /\ \A p \in Procs : pc[p] \in Fetched \cup Confirmed => body[p] \in served[url[p]]
    /\ \A p \in Downloaders : reply[p] # None => reply[p].body \in served[reply[p].url]

\* What a promoter has validated stays as it was.
Promotable ==
    \A p \in Procs :
        /\ pc[p] \in Validated => Backed(draft[p])
        /\ pc[p] \in Reviewed /\ edits = 0 => IsDraft(draft[p], slot[p])

\* What a promotion has linked is in canon, and so is what it has answered with.
PromotionsHold ==
    edits = 0 =>
        \A q \in Promoters :
            /\ pc[q] = "reread" => draft[q] \in InCanon
            /\ reply[q] # None => reply[q] \in InCanon

IInv == TypeOK /\ Roles /\ Known /\ Served /\ Promotable /\ CanonIsBacked /\ PromotionsHold

-----------------------------------------------------------------------------
LEMMA Initially == Init => IInv
<1> SUFFICES ASSUME Init PROVE IInv
    OBVIOUS
<1> USE StoreAssumption DEF Init, EmptyDir
<1>1. TypeOK
    BY DEF TypeOK, Manifests
<1>2. Roles /\ Known /\ Served /\ Promotable
    BY DEF Roles, Known, Served, Promotable, Fetched, Hashed, Confirmed,
       Reviewed, Validated, Procs
<1>3. CanonIsBacked /\ PromotionsHold
    BY DEF CanonIsBacked, PromotionsHold, InCanon, Procs
<1> QED
    BY <1>1, <1>2, <1>3 DEF IInv

\* A downloader promotes nothing and a promoter downloads nothing.
LEMMA RolesStep == TypeOK /\ Roles /\ [Next]_vars => Roles'
<1> SUFFICES ASSUME TypeOK /\ Roles, [Next]_vars PROVE Roles'
    OBVIOUS
<1> USE StoreAssumption DEF TypeOK, Roles, Fetched, Hashed, Confirmed, Reviewed,
      Validated, Procs, files, locals, world, Quiet, Goto, Check, Raise
<1>1. ASSUME NEW p \in Procs, Start(p) PROVE Roles'
    BY <1>1, SMTT(30) DEF Start
<1>2. ASSUME NEW p \in Procs, Fetch(p) PROVE Roles'
    BY <1>2, SMTT(30) DEF Fetch
<1>3. ASSUME NEW p \in Procs, Lock(p) PROVE Roles'
    BY <1>3, SMTT(30) DEF Lock
<1>4. ASSUME NEW p \in Procs, Compare(p) PROVE Roles'
    BY <1>4, SMTT(30) DEF Compare, Skips, ValidSource
<1>5. ASSUME NEW p \in Procs, ReplacePdf(p) PROVE Roles'
    BY <1>5, SMTT(30) DEF ReplacePdf
<1>6. ASSUME NEW p \in Procs, ReplaceSidecar(p) PROVE Roles'
    BY <1>6, SMTT(30) DEF ReplaceSidecar
<1>7. ASSUME NEW p \in Procs, Digest(p) PROVE Roles'
    BY <1>7, SMTT(30) DEF Digest
<1>8. ASSUME NEW p \in Procs, Copy(p) PROVE Roles'
    BY <1>8, SMTT(30) DEF Copy, ValidSource
<1>9. ASSUME NEW p \in Procs, LinkCopy(p) PROVE Roles'
    BY <1>9, SMTT(30) DEF LinkCopy
<1>10. ASSUME NEW p \in Procs, Verify(p) PROVE Roles'
    BY <1>10, SMTT(30) DEF Verify
<1>11. ASSUME NEW p \in Procs, Source(p) PROVE Roles'
    BY <1>11, SMTT(30) DEF Source, ValidSource
<1>12. ASSUME NEW p \in Procs, LinkOrigin(p) PROVE Roles'
    BY <1>12, SMTT(30) DEF LinkOrigin
<1>13. ASSUME NEW p \in Procs, CheckSnapshots(p) PROVE Roles'
    BY <1>13, SMTT(30) DEF CheckSnapshots, ValidSource
<1>14. ASSUME NEW p \in Procs, LinkDraft(p) PROVE Roles'
    BY <1>14, SMTT(30) DEF LinkDraft, Bound, Linked, IsAt
<1>15. ASSUME NEW p \in Procs, ReadDraft(p) PROVE Roles'
    BY <1>15, SMTT(30) DEF ReadDraft, IsDraft
<1>16. ASSUME NEW p \in Procs, Validate(p) PROVE Roles'
    BY <1>16, SMTT(30) DEF Validate, Backed
<1>17. ASSUME NEW p \in Procs, LinkCanon(p) PROVE Roles'
    BY <1>17, SMTT(30) DEF LinkCanon, Linked, IsAt
<1>18. ASSUME NEW p \in Procs, Reread(p) PROVE Roles'
    BY <1>18, SMTT(30) DEF Reread, Backed, IsDraft
<1>19. ASSUME NEW p \in Procs, Crash(p) PROVE Roles'
    BY <1>19, SMTT(30) DEF Crash
<1>20. ASSUME NEW u \in Urls, ChangeOfficial(u) PROVE Roles'
    BY <1>20, SMTT(30) DEF ChangeOfficial
<1>21. CASE EditDraft \/ UNCHANGED vars
    BY <1>21, SMTT(30) DEF EditDraft, vars
<1> QED
    BY <1>1, <1>2, <1>3, <1>4, <1>5, <1>6, <1>7, <1>8, <1>9, <1>10, <1>11,
       <1>12, <1>13, <1>14, <1>15, <1>16, <1>17, <1>18, <1>19, <1>20, <1>21 DEF
       Next, Download, Persist, Promote

\* What a call has read stays with it, and a PDF once downloaded stays.
LEMMA KnownStep == TypeOK /\ Roles /\ Known /\ [Next]_vars => Known'
<1> SUFFICES ASSUME TypeOK /\ Roles /\ Known, [Next]_vars PROVE Known'
    OBVIOUS
<1> USE StoreAssumption DEF TypeOK, Roles, Known, Fetched, Hashed, Confirmed,
      Reviewed, Validated, Manifests, Sources, files, locals, world, Quiet, Goto,
      Check, Raise
<1>1. ASSUME NEW p \in Procs, Start(p) PROVE Known'
    BY <1>1, SMTT(30) DEF Start
<1>2. ASSUME NEW p \in Procs, Fetch(p) PROVE Known'
    BY <1>2, SMTT(30) DEF Fetch
<1>3. ASSUME NEW p \in Procs, Lock(p) PROVE Known'
    BY <1>3, SMTT(30) DEF Lock
<1>4. ASSUME NEW p \in Procs, Compare(p) PROVE Known'
    BY <1>4, SMTT(30) DEF Compare, Skips, ValidSource
<1>5. ASSUME NEW p \in Procs, ReplacePdf(p) PROVE Known'
    BY <1>5, SMTT(30) DEF ReplacePdf
<1>6. ASSUME NEW p \in Procs, ReplaceSidecar(p) PROVE Known'
    BY <1>6, SMTT(30) DEF ReplaceSidecar
<1>7. ASSUME NEW p \in Procs, Digest(p) PROVE Known'
    BY <1>7, SMTT(30) DEF Digest
<1>8. ASSUME NEW p \in Procs, Copy(p) PROVE Known'
    BY <1>8, SMTT(30) DEF Copy, ValidSource
<1>9. ASSUME NEW p \in Procs, LinkCopy(p) PROVE Known'
    BY <1>9, SMTT(30) DEF LinkCopy
<1>10. ASSUME NEW p \in Procs, Verify(p) PROVE Known'
    BY <1>10, SMTT(30) DEF Verify
<1>11. ASSUME NEW p \in Procs, Source(p) PROVE Known'
    BY <1>11, SMTT(30) DEF Source, ValidSource
<1>12. ASSUME NEW p \in Procs, LinkOrigin(p) PROVE Known'
    BY <1>12, SMTT(30) DEF LinkOrigin
<1>13. ASSUME NEW p \in Procs, CheckSnapshots(p) PROVE Known'
    BY <1>13, SMTT(30) DEF CheckSnapshots, ValidSource
<1>14. ASSUME NEW p \in Procs, LinkDraft(p) PROVE Known'
    BY <1>14, SMTT(30) DEF LinkDraft, Bound, Linked, IsAt
<1>15. ASSUME NEW p \in Procs, ReadDraft(p) PROVE Known'
    BY <1>15, SMTT(30) DEF ReadDraft, IsDraft
<1>16. ASSUME NEW p \in Procs, Validate(p) PROVE Known'
    BY <1>16, SMTT(30) DEF Validate, Backed
<1>17. ASSUME NEW p \in Procs, LinkCanon(p) PROVE Known'
    BY <1>17, SMTT(30) DEF LinkCanon, Linked, IsAt
<1>18. ASSUME NEW p \in Procs, Reread(p) PROVE Known'
    BY <1>18, SMTT(30) DEF Reread, Backed, IsDraft
<1>19. ASSUME NEW p \in Procs, Crash(p) PROVE Known'
    BY <1>19, SMTT(30) DEF Crash
<1>20. ASSUME NEW u \in Urls, ChangeOfficial(u) PROVE Known'
    BY <1>20, SMTT(30) DEF ChangeOfficial
<1>21. CASE EditDraft \/ UNCHANGED vars
    BY <1>21, SMTT(30) DEF EditDraft, vars
<1> QED
    BY <1>1, <1>2, <1>3, <1>4, <1>5, <1>6, <1>7, <1>8, <1>9, <1>10, <1>11,
       <1>12, <1>13, <1>14, <1>15, <1>16, <1>17, <1>18, <1>19, <1>20, <1>21 DEF
       Next, Download, Persist, Promote

\* Every variable keeps its type.
LEMMA TypeStep == TypeOK /\ Known /\ [Next]_vars => TypeOK'
<1> SUFFICES ASSUME TypeOK /\ Known, [Next]_vars PROVE TypeOK'
    OBVIOUS
<1> USE StoreAssumption DEF TypeOK, Known, Fetched, Hashed, Confirmed, Reviewed,
      Validated, Manifests, Sources, files, locals, world, Quiet, Goto, Check, Raise
<1>1. ASSUME NEW p \in Procs, Start(p) PROVE TypeOK'
    BY <1>1, SMTT(30) DEF Start
<1>2. ASSUME NEW p \in Procs, Fetch(p) PROVE TypeOK'
    BY <1>2, SMTT(30) DEF Fetch
<1>3. ASSUME NEW p \in Procs, Lock(p) PROVE TypeOK'
    BY <1>3, SMTT(30) DEF Lock
<1>4. ASSUME NEW p \in Procs, Compare(p) PROVE TypeOK'
    BY <1>4, SMTT(30) DEF Compare, Skips, ValidSource
<1>5. ASSUME NEW p \in Procs, ReplacePdf(p) PROVE TypeOK'
    BY <1>5, SMTT(30) DEF ReplacePdf
<1>6. ASSUME NEW p \in Procs, ReplaceSidecar(p) PROVE TypeOK'
    BY <1>6, SMTT(30) DEF ReplaceSidecar
<1>7. ASSUME NEW p \in Procs, Digest(p) PROVE TypeOK'
    BY <1>7, SMTT(30) DEF Digest
<1>8. ASSUME NEW p \in Procs, Copy(p) PROVE TypeOK'
    BY <1>8, SMTT(30) DEF Copy, ValidSource
<1>9. ASSUME NEW p \in Procs, LinkCopy(p) PROVE TypeOK'
    BY <1>9, SMTT(30) DEF LinkCopy
<1>10. ASSUME NEW p \in Procs, Verify(p) PROVE TypeOK'
    BY <1>10, SMTT(30) DEF Verify
<1>11. ASSUME NEW p \in Procs, Source(p) PROVE TypeOK'
    BY <1>11, SMTT(30) DEF Source, ValidSource
<1>12. ASSUME NEW p \in Procs, LinkOrigin(p) PROVE TypeOK'
    BY <1>12, SMTT(30) DEF LinkOrigin
<1>13. ASSUME NEW p \in Procs, CheckSnapshots(p) PROVE TypeOK'
    BY <1>13, SMTT(30) DEF CheckSnapshots, ValidSource
<1>14. ASSUME NEW p \in Procs, LinkDraft(p) PROVE TypeOK'
    <2>1. drafts' \in [first : Manifests \cup {None}, named : SUBSET Manifests]
        BY <1>14 DEF LinkDraft, Bound, Linked
    <2>2. reply' \in [Procs -> Manifests \cup {None}] /\ pc' \in {[pc EXCEPT ![p] = l] : l \in {"ok", "check_2"}}
        BY <1>14 DEF LinkDraft, Bound
    <2> QED
        BY <1>14, <2>1, <2>2 DEF LinkDraft
<1>15. ASSUME NEW p \in Procs, ReadDraft(p) PROVE TypeOK'
    BY <1>15, SMTT(30) DEF ReadDraft, IsDraft
<1>16. ASSUME NEW p \in Procs, Validate(p) PROVE TypeOK'
    BY <1>16, SMTT(30) DEF Validate, Backed
<1>17. ASSUME NEW p \in Procs, LinkCanon(p) PROVE TypeOK'
    <2>1. canon' \in [first : Manifests \cup {None}, named : SUBSET Manifests]
        BY <1>17 DEF LinkCanon, Linked
    <2>2. /\ reply' \in [Procs -> Manifests \cup {None}]
          /\ place' \in [Procs -> {"first", "named", None}]
          /\ pc' \in {[pc EXCEPT ![p] = l] : l \in {"ok", "reread", "valid_2"}}
        BY <1>17, ZenonT(60) DEF LinkCanon
    <2> QED
        BY <1>17, <2>1, <2>2, ZenonT(60) DEF LinkCanon
<1>18. ASSUME NEW p \in Procs, Reread(p) PROVE TypeOK'
    BY <1>18, SMTT(30) DEF Reread, Backed, IsDraft
<1>19. ASSUME NEW p \in Procs, Crash(p) PROVE TypeOK'
    BY <1>19, SMTT(30) DEF Crash
<1>20. ASSUME NEW u \in Urls, ChangeOfficial(u) PROVE TypeOK'
    BY <1>20, SMTT(30) DEF ChangeOfficial
<1>21. CASE EditDraft \/ UNCHANGED vars
    BY <1>21, SMTT(30) DEF EditDraft, vars
<1> QED
    BY <1>1, <1>2, <1>3, <1>4, <1>5, <1>6, <1>7, <1>8, <1>9, <1>10, <1>11,
       <1>12, <1>13, <1>14, <1>15, <1>16, <1>17, <1>18, <1>19, <1>20, <1>21 DEF
       Next, Download, Persist, Promote

\* What an address has served it has served for good.
LEMMA ServedStep == TypeOK /\ Roles /\ Known /\ Served /\ [Next]_vars => Served'
<1> SUFFICES ASSUME TypeOK /\ Roles /\ Known /\ Served, [Next]_vars PROVE Served'
    OBVIOUS
<1> USE StoreAssumption DEF TypeOK, Roles, Known, Served, Fetched, Hashed,
      Confirmed, Reviewed, Validated, Manifests, Sources, files, locals, world,
      Quiet, Goto, Check, Raise
<1>1. ASSUME NEW p \in Procs, Start(p) PROVE Served'
    BY <1>1, SMTT(30) DEF Start
<1>2. ASSUME NEW p \in Procs, Fetch(p) PROVE Served'
    BY <1>2, SMTT(30) DEF Fetch
<1>3. ASSUME NEW p \in Procs, Lock(p) PROVE Served'
    BY <1>3, SMTT(30) DEF Lock
<1>4. ASSUME NEW p \in Procs, Compare(p) PROVE Served'
    BY <1>4, SMTT(30) DEF Compare, Skips, ValidSource
<1>5. ASSUME NEW p \in Procs, ReplacePdf(p) PROVE Served'
    BY <1>5, SMTT(30) DEF ReplacePdf
<1>6. ASSUME NEW p \in Procs, ReplaceSidecar(p) PROVE Served'
    BY <1>6, SMTT(30) DEF ReplaceSidecar
<1>7. ASSUME NEW p \in Procs, Digest(p) PROVE Served'
    BY <1>7, SMTT(30) DEF Digest
<1>8. ASSUME NEW p \in Procs, Copy(p) PROVE Served'
    BY <1>8, SMTT(30) DEF Copy, ValidSource
<1>9. ASSUME NEW p \in Procs, LinkCopy(p) PROVE Served'
    BY <1>9, SMTT(30) DEF LinkCopy
<1>10. ASSUME NEW p \in Procs, Verify(p) PROVE Served'
    BY <1>10, SMTT(30) DEF Verify
<1>11. ASSUME NEW p \in Procs, Source(p) PROVE Served'
    BY <1>11, SMTT(30) DEF Source, ValidSource
<1>12. ASSUME NEW p \in Procs, LinkOrigin(p) PROVE Served'
    BY <1>12, SMTT(30) DEF LinkOrigin
<1>13. ASSUME NEW p \in Procs, CheckSnapshots(p) PROVE Served'
    BY <1>13, SMTT(30) DEF CheckSnapshots, ValidSource
<1>14. ASSUME NEW p \in Procs, LinkDraft(p) PROVE Served'
    <2>1. /\ UNCHANGED <<official, served, sidecar, origins, url, body>>
          /\ pc[p] \in Confirmed
          /\ \E l \in {"ok", "check_2"} : pc' = [pc EXCEPT ![p] = l]
          /\ reply' = reply \/ reply' = [reply EXCEPT ![p] = [url |-> url[p], body |-> body[p]]]
        BY <1>14 DEF LinkDraft, Bound
    <2>2. \A q \in Procs : pc'[q] \in Fetched \cup Confirmed => pc[q] \in Fetched \cup Confirmed
        BY <2>1
    <2>3. \A q \in Downloaders : reply'[q] # None => reply'[q].body \in served[reply'[q].url]
        BY <2>1 DEF Procs
    <2> QED
        BY <2>1, <2>2, <2>3
<1>15. ASSUME NEW p \in Procs, ReadDraft(p) PROVE Served'
    BY <1>15, SMTT(30) DEF ReadDraft, IsDraft
<1>16. ASSUME NEW p \in Procs, Validate(p) PROVE Served'
    BY <1>16, SMTT(30) DEF Validate, Backed
<1>17. ASSUME NEW p \in Procs, LinkCanon(p) PROVE Served'
    <2>1. /\ UNCHANGED <<official, served, sidecar, origins, url, body>>
          /\ p \notin Downloaders
          /\ \E l \in {"ok", "reread", "valid_2"} : pc' = [pc EXCEPT ![p] = l]
          /\ reply' = reply \/ reply' = [reply EXCEPT ![p] = draft[p]]
        BY <1>17 DEF LinkCanon
    <2>2. \A q \in Procs : pc'[q] \in Fetched \cup Confirmed => pc[q] \in Fetched \cup Confirmed
        BY <2>1
    <2>3. \A q \in Downloaders : reply'[q] # None => reply'[q].body \in served[reply'[q].url]
        BY <2>1 DEF Procs
    <2> QED
        BY <2>1, <2>2, <2>3
<1>18. ASSUME NEW p \in Procs, Reread(p) PROVE Served'
    <2>1. /\ UNCHANGED <<official, served, sidecar, origins, url, body>>
          /\ p \notin Downloaders
          /\ \E l \in {"ok", "failed"} : pc' = [pc EXCEPT ![p] = l]
          /\ reply' = reply \/ reply' = [reply EXCEPT ![p] = draft[p]]
        BY <1>18 DEF Reread
    <2>2. \A q \in Procs : pc'[q] \in Fetched \cup Confirmed => pc[q] \in Fetched \cup Confirmed
        BY <2>1
    <2>3. \A q \in Downloaders : reply'[q] # None => reply'[q].body \in served[reply'[q].url]
        BY <2>1 DEF Procs
    <2> QED
        BY <2>1, <2>2, <2>3
<1>19. ASSUME NEW p \in Procs, Crash(p) PROVE Served'
    BY <1>19, SMTT(30) DEF Crash
<1>20. ASSUME NEW u \in Urls, ChangeOfficial(u) PROVE Served'
    BY <1>20, SMTT(30) DEF ChangeOfficial
<1>21. CASE EditDraft \/ UNCHANGED vars
    BY <1>21, SMTT(30) DEF EditDraft, vars
<1> QED
    BY <1>1, <1>2, <1>3, <1>4, <1>5, <1>6, <1>7, <1>8, <1>9, <1>10, <1>11,
       <1>12, <1>13, <1>14, <1>15, <1>16, <1>17, <1>18, <1>19, <1>20, <1>21 DEF
       Next, Download, Persist, Promote

-----------------------------------------------------------------------------
\* The archive

\* A step puts at most one content under a name that was free.
ArchiveSame == UNCHANGED <<copies, origins>>
Copied(b)   == copies[b] = None /\ copies' = [copies EXCEPT ![b] = b] /\ UNCHANGED origins
Noted(b, u) == origins[b] = None /\ origins' = [origins EXCEPT ![b] = u] /\ UNCHANGED copies

LEMMA ArchiveStep ==
    ASSUME TypeOK, Known, [Next]_vars
    PROVE  ArchiveSame \/ (\E b \in Bodies : Copied(b)) \/ (\E b \in Bodies, u \in Urls : Noted(b, u))
<1> USE DEF files, locals, world, Quiet, Goto, Check, Raise, ArchiveSame
<1>1. ASSUME NEW p \in Procs, LinkCopy(p) PROVE ArchiveSame \/ \E b \in Bodies : Copied(b)
    <2>1. body[p] \in Bodies /\ UNCHANGED origins
          /\ copies' = [copies EXCEPT ![body[p]] = IF @ = None THEN body[p] ELSE @]
        BY <1>1 DEF LinkCopy, Known, Hashed
    <2>2. CASE copies[body[p]] = None
        BY <2>1, <2>2 DEF Copied
    <2>3. CASE copies[body[p]] # None
        BY <2>1, <2>3 DEF TypeOK
    <2> QED
        BY <2>2, <2>3
<1>2. ASSUME NEW p \in Procs, LinkOrigin(p)
      PROVE  ArchiveSame \/ \E b \in Bodies, u \in Urls : Noted(b, u)
    <2>1. body[p] \in Bodies /\ url[p] \in Urls /\ UNCHANGED copies
          /\ origins' = [origins EXCEPT ![body[p]] = IF @ = None THEN url[p] ELSE @]
        BY <1>2 DEF LinkOrigin, Known, Confirmed
    <2>2. CASE origins[body[p]] = None
        BY <2>1, <2>2 DEF Noted
    <2>3. CASE origins[body[p]] # None
        BY <2>1, <2>3 DEF TypeOK
    <2> QED
        BY <2>2, <2>3
<1>3. ASSUME NEW p \in Procs,
             \/ Download(p) \/ Promote(p) \/ Crash(p) \/ Digest(p) \/ Copy(p) \/ Verify(p)
             \/ Source(p) \/ CheckSnapshots(p) \/ LinkDraft(p)
      PROVE  ArchiveSame
    BY <1>3, SMTT(30) DEF Download, Promote, Start, Fetch, Lock, Compare,
       ReplacePdf, ReplaceSidecar,
       ReadDraft, Validate, LinkCanon, Reread, Crash, Digest, Copy, Verify, Source, CheckSnapshots,
       LinkDraft
<1>4. CASE EditDraft \/ UNCHANGED vars \/ \E u \in Urls : ChangeOfficial(u)
    BY <1>4 DEF EditDraft, ChangeOfficial, vars
<1> QED
    BY <1>1, <1>2, <1>3, <1>4 DEF Next, Persist

\* What the archive has backed it backs for good.
LEMMA BackedStays ==
    ASSUME TypeOK, Known, [Next]_vars, NEW m \in Manifests, Backed(m)
    PROVE  Backed(m)'
<1>1. m.body \in Bodies /\ m.url \in Urls
    BY DEF Manifests
<1>2. copies[m.body] # None /\ origins[m.body] # None
    BY <1>1, StoreAssumption DEF Backed
<1> QED
    BY <1>1, <1>2, ArchiveStep DEF ArchiveSame, Copied, Noted, Backed, TypeOK

\* Only a reviewer takes a draft away.
LEMMA DraftsStay ==
    ASSUME TypeOK, [Next]_vars, NEW m \in Manifests, NEW from, IsDraft(m, from)
    PROVE  IsDraft(m, from)' \/ edits' # 0
<1> USE StoreAssumption DEF files, locals, world, Quiet, Goto, Check, Raise, IsDraft
<1>1. ASSUME NEW p \in Procs, LinkDraft(p) PROVE IsDraft(m, from)'
    <2>1. drafts' \in {drafts, [drafts EXCEPT !.named = @ \cup {Bound(p)}]}
          \/ (drafts.first = None /\ drafts' = [drafts EXCEPT !.first = Bound(p)])
        BY <1>1 DEF LinkDraft, Linked
    <2> QED
        BY <2>1 DEF TypeOK
<1>2. ASSUME NEW p \in Procs,
             \/ Download(p) \/ Promote(p) \/ Crash(p) \/ Digest(p) \/ Copy(p) \/ Verify(p)
             \/ Source(p) \/ CheckSnapshots(p) \/ LinkCopy(p) \/ LinkOrigin(p)
      PROVE  drafts' = drafts
    BY <1>2, SMTT(30) DEF Download, Promote, Start, Fetch, Lock, Compare,
       ReplacePdf, ReplaceSidecar,
       ReadDraft, Validate, LinkCanon, Reread, Crash, Digest, Copy, Verify, Source, CheckSnapshots,
       LinkCopy, LinkOrigin
<1>3. CASE EditDraft
    BY <1>3 DEF EditDraft, TypeOK
<1>4. CASE UNCHANGED vars \/ \E u \in Urls : ChangeOfficial(u)
    BY <1>4 DEF ChangeOfficial, vars
<1> QED
    BY <1>1, <1>2, <1>3, <1>4 DEF Next, Persist

\* A promoter gets on only with a draft that is backed, and with the one it has.
Advanced ==
    \A q \in Procs :
        /\ pc'[q] \in Validated =>
              pc[q] \in Reviewed /\ draft'[q] = draft[q] /\ (pc[q] \in Validated \/ Backed(draft[q]))
        /\ pc'[q] \in Reviewed =>
              \/ pc[q] \in Reviewed /\ draft'[q] = draft[q] /\ slot'[q] = slot[q]
              \/ IsDraft(draft'[q], slot'[q]) /\ drafts' = drafts /\ draft'[q] \in Manifests

\* What a step makes of a promotion.
LEMMA PromotersAdvance == TypeOK /\ Roles /\ Known /\ [Next]_vars => Advanced
<1> SUFFICES ASSUME TypeOK /\ Roles /\ Known, [Next]_vars PROVE Advanced
    OBVIOUS
<1> USE StoreAssumption DEF TypeOK, Roles, Known, Advanced, Fetched, Hashed,
      Confirmed, Reviewed, Validated, files, locals, world, Quiet, Goto, Check,
      Raise
<1>1. ASSUME NEW p \in Procs, Start(p) PROVE Advanced
    BY <1>1, SMTT(30) DEF Start
<1>2. ASSUME NEW p \in Procs, Fetch(p) PROVE Advanced
    BY <1>2, SMTT(30) DEF Fetch
<1>3. ASSUME NEW p \in Procs, Lock(p) PROVE Advanced
    BY <1>3, SMTT(30) DEF Lock
<1>4. ASSUME NEW p \in Procs, Compare(p) PROVE Advanced
    BY <1>4, SMTT(30) DEF Compare, Skips, ValidSource
<1>5. ASSUME NEW p \in Procs, ReplacePdf(p) PROVE Advanced
    BY <1>5, SMTT(30) DEF ReplacePdf
<1>6. ASSUME NEW p \in Procs, ReplaceSidecar(p) PROVE Advanced
    BY <1>6, SMTT(30) DEF ReplaceSidecar
<1>7. ASSUME NEW p \in Procs, Digest(p) PROVE Advanced
    BY <1>7, SMTT(30) DEF Digest
<1>8. ASSUME NEW p \in Procs, Copy(p) PROVE Advanced
    BY <1>8, SMTT(30) DEF Copy, ValidSource
<1>9. ASSUME NEW p \in Procs, LinkCopy(p) PROVE Advanced
    BY <1>9, SMTT(30) DEF LinkCopy
<1>10. ASSUME NEW p \in Procs, Verify(p) PROVE Advanced
    BY <1>10, SMTT(30) DEF Verify
<1>11. ASSUME NEW p \in Procs, Source(p) PROVE Advanced
    BY <1>11, SMTT(30) DEF Source, ValidSource
<1>12. ASSUME NEW p \in Procs, LinkOrigin(p) PROVE Advanced
    BY <1>12, SMTT(30) DEF LinkOrigin
<1>13. ASSUME NEW p \in Procs, CheckSnapshots(p) PROVE Advanced
    BY <1>13, SMTT(30) DEF CheckSnapshots, ValidSource
<1>14. ASSUME NEW p \in Procs, LinkDraft(p) PROVE Advanced
    BY <1>14, SMTT(30) DEF LinkDraft, Bound, Linked, IsAt
<1>15. ASSUME NEW p \in Procs, ReadDraft(p) PROVE Advanced
    BY <1>15, SMTT(30) DEF ReadDraft, IsDraft
<1>16. ASSUME NEW p \in Procs, Validate(p) PROVE Advanced
    BY <1>16, SMTT(30) DEF Validate, Backed
<1>17. ASSUME NEW p \in Procs, LinkCanon(p) PROVE Advanced
    BY <1>17, SMTT(30) DEF LinkCanon, Linked, IsAt
<1>18. ASSUME NEW p \in Procs, Reread(p) PROVE Advanced
    BY <1>18, SMTT(30) DEF Reread, Backed, IsDraft
<1>19. ASSUME NEW p \in Procs, Crash(p) PROVE Advanced
    BY <1>19, SMTT(30) DEF Crash
<1>20. ASSUME NEW u \in Urls, ChangeOfficial(u) PROVE Advanced
    BY <1>20, SMTT(30) DEF ChangeOfficial
<1>21. CASE EditDraft \/ UNCHANGED vars
    BY <1>21, SMTT(30) DEF EditDraft, vars
<1> QED
    BY <1>1, <1>2, <1>3, <1>4, <1>5, <1>6, <1>7, <1>8, <1>9, <1>10, <1>11,
       <1>12, <1>13, <1>14, <1>15, <1>16, <1>17, <1>18, <1>19, <1>20, <1>21 DEF
       Next, Download, Persist, Promote

LEMMA EditsOnlyGrow == TypeOK /\ [Next]_vars /\ edits' = 0 => edits = 0
<1> SUFFICES ASSUME TypeOK, [Next]_vars, edits' = 0 PROVE edits = 0
    OBVIOUS
<1>1. ASSUME NEW p \in Procs, Download(p) \/ Promote(p) \/ Crash(p) PROVE edits' = edits
    BY <1>1 DEF Download, Promote, Start, Fetch, Lock, Compare, ReplacePdf,
       ReplaceSidecar,
       ReadDraft, Validate, LinkCanon, Reread, Crash, Quiet, world
<1>2. ASSUME NEW p \in Procs, Persist(p) PROVE edits' = edits
    BY <1>2 DEF Persist, Digest, Copy, Verify, Source, CheckSnapshots,
       LinkDraft, LinkCopy,
       LinkOrigin, Quiet, world
<1>3. CASE EditDraft \/ UNCHANGED vars \/ \E u \in Urls : ChangeOfficial(u)
    BY <1>3 DEF EditDraft, ChangeOfficial, vars, world, TypeOK
<1> QED
    BY <1>1, <1>2, <1>3 DEF Next

\* Only a promotion that has validated its draft adds to canon, and only one whose
\* draft is gone or no longer backed takes away.
LEMMA CanonChanges ==
    ASSUME TypeOK, [Next]_vars
    PROVE  \/ InCanon' = InCanon
           \/ \E p \in Procs : /\ pc[p] \in Validated
                                /\ InCanon' \subseteq InCanon \cup {draft[p]}
                                /\ \/ InCanon \subseteq InCanon'
                                   \/ pc[p] = "reread" /\ ~(Backed(draft[p]) /\ IsDraft(draft[p], slot[p]))
<1> USE StoreAssumption DEF files, locals, world, Quiet, Goto, Check, Raise, InCanon
<1>1. ASSUME NEW p \in Procs, LinkCanon(p)
      PROVE  pc[p] \in Validated /\ InCanon' \subseteq InCanon \cup {draft[p]} /\ InCanon \subseteq InCanon'
    <2>1. \/ canon' = canon
          \/ canon' = [canon EXCEPT !.named = @ \cup {draft[p]}]
          \/ canon.first = None /\ canon' = [canon EXCEPT !.first = draft[p]]
        BY <1>1 DEF LinkCanon, Linked
    <2>2. pc[p] \in Validated
        BY <1>1 DEF LinkCanon, Validated
    <2> QED
        BY <2>1, <2>2 DEF TypeOK
<1>2. ASSUME NEW p \in Procs, Reread(p)
      PROVE  \/ canon' = canon
             \/ /\ pc[p] = "reread" /\ ~(Backed(draft[p]) /\ IsDraft(draft[p], slot[p]))
                /\ InCanon' \subseteq InCanon
    <2>1. \/ canon' = canon
          \/ /\ pc[p] = "reread" /\ ~(Backed(draft[p]) /\ IsDraft(draft[p], slot[p]))
             /\ canon' \in {[canon EXCEPT !.first = None], [canon EXCEPT !.named = @ \ {draft[p]}]}
        BY <1>2 DEF Reread
    <2> QED
        BY <2>1 DEF TypeOK
<1>3. ASSUME NEW p \in Procs,
             Download(p) \/ Persist(p) \/ ReadDraft(p) \/ Validate(p) \/ Crash(p)
      PROVE  canon' = canon
    BY <1>3, SMTT(30) DEF Download, Persist, Start, Fetch, Lock, Compare,
       ReplacePdf, ReplaceSidecar,
       ReadDraft, Validate, Crash, Digest, Copy, Verify, Source, CheckSnapshots,
       LinkDraft, LinkCopy, LinkOrigin
<1>4. CASE EditDraft \/ UNCHANGED vars \/ \E u \in Urls : ChangeOfficial(u)
    BY <1>4 DEF EditDraft, ChangeOfficial, vars
<1> QED
    BY <1>1, <1>2, <1>3, <1>4 DEF Next, Promote, Validated

LEMMA PromotableStep == TypeOK /\ Roles /\ Known /\ Promotable /\ [Next]_vars => Promotable'
<1> SUFFICES ASSUME TypeOK, Roles, Known, Promotable, [Next]_vars, NEW q \in Procs
             PROVE  /\ pc'[q] \in Validated => Backed(draft[q])'
                    /\ pc'[q] \in Reviewed /\ edits' = 0 => IsDraft(draft[q], slot[q])'
    BY DEF Promotable
<1>1. Advanced
    BY PromotersAdvance
<1>2. pc[q] \in Reviewed => draft[q] \in Manifests
    BY DEF Known
<1>3. ASSUME pc'[q] \in Validated PROVE Backed(draft[q])'
    <2>1. pc[q] \in Reviewed /\ draft'[q] = draft[q] /\ Backed(draft[q])
        BY <1>1, <1>3 DEF Advanced, Promotable
    <2> QED
        BY <1>2, <2>1, BackedStays DEF Backed
<1>4. ASSUME pc'[q] \in Reviewed, edits' = 0 PROVE IsDraft(draft[q], slot[q])'
    <2>1. edits = 0
        BY <1>4, EditsOnlyGrow
    <2>2. CASE pc[q] \in Reviewed /\ draft'[q] = draft[q] /\ slot'[q] = slot[q]
        <3>1. IsDraft(draft[q], slot[q])
            BY <2>1, <2>2 DEF Promotable
        <3> QED
            BY <1>2, <1>4, <2>2, <3>1, DraftsStay DEF IsDraft
    <2>3. CASE IsDraft(draft'[q], slot'[q]) /\ drafts' = drafts
        BY <2>3 DEF IsDraft
    <2> QED
        BY <1>1, <1>4, <2>2, <2>3 DEF Advanced
<1> QED
    BY <1>3, <1>4

\* Nothing is put into canon that is not backed.
LEMMA CanonStep ==
    TypeOK /\ Known /\ Promotable /\ CanonIsBacked /\ [Next]_vars => CanonIsBacked'
<1> SUFFICES ASSUME TypeOK, Known, Promotable, CanonIsBacked, [Next]_vars PROVE CanonIsBacked'
    OBVIOUS
<1>1. \A m \in InCanon : m \in Manifests /\ Backed(m)
    BY DEF CanonIsBacked, InCanon, TypeOK, Backed
<1>2. InCanon' \subseteq InCanon \/ \E p \in Procs : pc[p] \in Validated /\ InCanon' \subseteq InCanon \cup {draft[p]}
    BY CanonChanges
<1>3. \A m \in InCanon' : m \in Manifests /\ Backed(m)
    BY <1>1, <1>2 DEF Promotable, Known, Reviewed, Validated
<1>4. \A m \in InCanon' : Backed(m)'
    BY <1>3, BackedStays
<1> QED
    BY <1>4 DEF CanonIsBacked, Backed

\* A promoter answers with what is in canon.
Answered ==
    \A q \in Promoters :
        /\ \/ reply'[q] = reply[q] \/ reply'[q] \in InCanon'
           \/ pc[q] = "reread" /\ InCanon' = InCanon /\ reply'[q] = draft[q]
        /\ pc'[q] = "reread" => (pc[q] = "reread" /\ draft'[q] = draft[q]) \/ draft'[q] \in InCanon'

LEMMA PromotersAnswer == TypeOK /\ Roles /\ Known /\ [Next]_vars => Answered
<1> SUFFICES ASSUME TypeOK, Roles, Known, [Next]_vars PROVE Answered
    OBVIOUS
<1> USE StoreAssumption DEF files, locals, world, Quiet, Goto, Check, Raise,
      Reviewed, Procs
<1>1. ASSUME NEW p \in Procs, Download(p) \/ Persist(p) \/ ReadDraft(p) \/ Validate(p) \/ Crash(p)
      PROVE  Answered
    <2>1. \A q \in Promoters : reply'[q] = reply[q] /\ (pc'[q] = "reread" => pc[q] = "reread" /\ draft'[q] = draft[q])
        <3>1. CASE Download(p)
            BY <3>1 DEF Download, Start, Fetch, Lock, Compare,
               ReplacePdf, ReplaceSidecar, TypeOK
        <3>2. CASE Digest(p) \/ Copy(p) \/ LinkCopy(p) \/ Verify(p) \/ Source(p) \/ LinkOrigin(p) \/ CheckSnapshots(p)
            BY <3>2 DEF Digest, Copy, LinkCopy, Verify, Source,
               LinkOrigin, CheckSnapshots, TypeOK
        <3>3. CASE LinkDraft(p)
            <4>1. p \notin Promoters
                BY <3>3 DEF LinkDraft, Roles, Confirmed
            <4>2. /\ \A q \in Promoters : pc'[q] = pc[q] /\ reply'[q] = reply[q]
                  /\ draft' = draft
                BY <3>3, <4>1 DEF LinkDraft, TypeOK
            <4> QED
                BY <4>2
        <3>4. CASE ReadDraft(p) \/ Validate(p) \/ Crash(p)
            BY <3>4 DEF ReadDraft, Validate, Crash, TypeOK
        <3> QED
            BY <1>1, <3>1, <3>2, <3>3, <3>4 DEF Persist
    <2> QED
        BY <2>1 DEF Answered
<1>2. ASSUME NEW p \in Procs, LinkCanon(p) PROVE Answered
    <2>1. draft[p] \in Manifests /\ draft[p] # None /\ draft' = draft
        BY <1>2 DEF LinkCanon, Known
    <2>2. \A q \in Promoters \ {p} : reply'[q] = reply[q] /\ pc'[q] = pc[q]
        BY <1>2 DEF LinkCanon, TypeOK
    <2>3. /\ reply'[p] = reply[p] \/ (reply'[p] = draft[p] /\ draft[p] \in InCanon')
          /\ pc'[p] = "reread" => draft[p] \in InCanon'
        <3>1. \/ IsAt(canon', draft[p], pc[p] = "promote_1")
              \/ reply' = reply /\ pc'[p] = "valid_2"
            BY <1>2 DEF LinkCanon, Linked, IsAt, TypeOK
        <3>2. IsAt(canon', draft[p], pc[p] = "promote_1") => draft[p] \in InCanon'
            BY <2>1 DEF IsAt, InCanon
        <3>3. reply'[p] = reply[p] \/ reply'[p] = draft[p]
            BY <1>2 DEF LinkCanon, TypeOK
        <3> QED
            BY <3>1, <3>2, <3>3
    <2> QED
        BY <2>1, <2>2, <2>3 DEF Answered
<1>3. ASSUME NEW p \in Procs, Reread(p) PROVE Answered
    <2>1. /\ pc[p] = "reread" /\ draft' = draft /\ pc'[p] # "reread"
          /\ \A q \in Promoters \ {p} : reply'[q] = reply[q] /\ pc'[q] = pc[q]
          /\ reply'[p] = reply[p] \/ (canon' = canon /\ reply'[p] = draft[p])
        BY <1>3 DEF Reread, TypeOK
    <2>2. canon' = canon => InCanon' = InCanon
        BY DEF InCanon
    <2> QED
        BY <2>1, <2>2 DEF Answered
<1>4. CASE EditDraft \/ UNCHANGED vars \/ \E u \in Urls : ChangeOfficial(u)
    BY <1>4 DEF EditDraft, ChangeOfficial, vars, Answered
<1> QED
    BY <1>1, <1>2, <1>3, <1>4 DEF Next, Promote

LEMMA PromotionsStep ==
    TypeOK /\ Roles /\ Known /\ Promotable /\ PromotionsHold /\ [Next]_vars => PromotionsHold'
<1> SUFFICES ASSUME TypeOK, Roles, Known, Promotable, PromotionsHold, [Next]_vars, edits' = 0
             PROVE  \A q \in Promoters : /\ pc'[q] = "reread" => draft'[q] \in InCanon'
                                         /\ reply'[q] # None => reply'[q] \in InCanon'
    BY DEF PromotionsHold
<1>1. edits = 0
    BY EditsOnlyGrow
<1>2. InCanon \subseteq InCanon'
    BY <1>1, CanonChanges DEF Promotable, Validated, Reviewed
<1> QED
    BY <1>1, <1>2, PromotersAnswer DEF Answered, PromotionsHold

-----------------------------------------------------------------------------
\* Theorems

LEMMA Inductive == IInv /\ [Next]_vars => IInv'
BY RolesStep, KnownStep, TypeStep, ServedStep, PromotableStep, CanonStep,
   PromotionsStep DEF IInv

\* Every variable keeps its type.
THEOREM TypeCorrect == Spec => []TypeOK
<1>1. IInv => TypeOK
    BY DEF IInv
<1> QED
    BY <1>1, Initially, Inductive, PTL DEF Spec

\* What a manifest says was so: the address has served that content, whoever else
\* has replaced the shared files and whoever has died on the way.
THEOREM ManifestsTellTheTruth == Spec => []ManifestsAreTrue
<1>1. IInv => ManifestsAreTrue
    <2> SUFFICES ASSUME IInv PROVE ManifestsAreTrue
        OBVIOUS
    <2>1. \A m \in InCanon \ {None} : m.body \in served[m.url]
        <3> SUFFICES ASSUME NEW m \in InCanon PROVE m.body \in served[m.url]
            OBVIOUS
        <3>1. m \in Manifests
            BY DEF IInv, InCanon, TypeOK
        <3>2. m.body \in Bodies /\ m.url \in Urls /\ origins[m.body] = m.url
            BY <3>1 DEF Manifests, IInv, CanonIsBacked
        <3> QED
            BY <3>2, StoreAssumption DEF IInv, Served
    <2>2. \A p \in Downloaders : reply[p] # None => reply[p].body \in served[reply[p].url]
        BY DEF IInv, Served
    <2> QED
        BY <2>1, <2>2 DEF ManifestsAreTrue
<1> QED
    BY <1>1, Initially, Inductive, PTL DEF Spec

\* Whatever is in canon is backed by an immutable copy and the note of its origin.
THEOREM CanonStaysBacked == Spec => []CanonIsBacked
<1>1. IInv => CanonIsBacked
    BY DEF IInv
<1> QED
    BY <1>1, Initially, Inductive, PTL DEF Spec

\* Nothing that was promoted is taken back unless a draft was rewritten meanwhile.
THEOREM NothingIsRetracted == Spec => []OnlyEditsRetract
<1>1. IInv => OnlyEditsRetract
    BY DEF IInv, PromotionsHold, OnlyEditsRetract, PromotionsStay
<1> QED
    BY <1>1, Initially, Inductive, PTL DEF Spec

\* The copies and the notes of their origins implement the archive.
THEOREM Refinement == Spec => ImplementsArchive
<1> DEFINE held == {<<<<"copy", b>>, copies[b]>> : b \in {c \in Bodies : copies[c] # None}} \cup
                   {<<<<"origin", b>>, origins[b]>> : b \in {c \in Bodies : origins[c] # None}}
<1>1. Init => Store!Init
    BY DEF Init, Store!Init
<1>2. TypeOK /\ Known /\ [Next]_vars => [Store!Next]_held
    <2> SUFFICES ASSUME TypeOK, Known, [Next]_vars PROVE Store!Next \/ held' = held
        OBVIOUS
    <2>1. ASSUME NEW b \in Bodies, Copied(b) PROVE Store!Next
        <3> DEFINE h == <<<<"copy", b>>, b>>
        <3>1. held' = held \cup {h}
            BY <2>1, StoreAssumption DEF Copied, TypeOK
        <3>2. \A other \in held : other[1] # h[1]
            BY <2>1 DEF Copied
        <3>3. h \in held' \ held
            BY <3>1, <3>2
        <3> QED
            BY <3>1, <3>2, <3>3 DEF Store!Next, Store!Add
    <2>2. ASSUME NEW b \in Bodies, NEW u \in Urls, Noted(b, u) PROVE Store!Next
        <3> DEFINE h == <<<<"origin", b>>, u>>
        <3>1. held' = held \cup {h}
            BY <2>2, StoreAssumption DEF Noted, TypeOK
        <3>2. \A other \in held : other[1] # h[1]
            BY <2>2 DEF Noted
        <3>3. h \in held' \ held
            BY <3>1, <3>2
        <3> QED
            BY <3>1, <3>2, <3>3 DEF Store!Next, Store!Add
    <2>3. CASE ArchiveSame
        BY <2>3 DEF ArchiveSame
    <2> QED
        BY <2>1, <2>2, <2>3, ArchiveStep
<1>3. IInv => TypeOK /\ Known
    BY DEF IInv
<1> QED
    BY <1>1, <1>2, <1>3, Initially, Inductive, PTL DEF Spec, ImplementsArchive,
       Store!Spec

-----------------------------------------------------------------------------
\* No promotion is turned down because of what others do

\* A promotion fails only when the draft at the first name was rewritten.
PromotionsSucceed ==
    \A p \in Promoters : pc[p] = "failed" => slot[p] = "first" /\ edits > 0

\* What a downloader that has confirmed its files is about to draft is backed.
DraftingInv ==
    \A p \in Procs :
        /\ pc[p] = "link_origin" => copies[body[p]] = body[p]
        /\ pc[p] \in {"check_1", "check_2", "link_1", "link_2"} => Backed(Bound(p))

\* Drafts are backed, those at the first name until one is rewritten.
DraftInv ==
    /\ \A m \in drafts.named : Backed(m)
    /\ edits = 0 /\ drafts.first # None => Backed(drafts.first)

\* A promoter whose draft cannot have been rewritten has a backed draft that is there.
PromoterInv ==
    \A p \in Promoters :
        /\ pc[p] \in Reviewed => slot[p] \in {"first", "named"}
        /\ pc[p] \in Reviewed /\ (slot[p] = "named" \/ edits = 0) =>
              Backed(draft[p]) /\ IsDraft(draft[p], slot[p])

\* The archive keeps what a step does not write.
LEMMA CopyStays ==
    ASSUME TypeOK, Known, [Next]_vars, NEW b \in Bodies, copies[b] = b
    PROVE  copies'[b] = b
<1>1. copies[b] # None
    BY StoreAssumption
<1> QED
    BY <1>1, ArchiveStep DEF ArchiveSame, Copied, Noted, TypeOK

\* What a step makes of a download that is about to draft.
Drafting ==
    \A q \in Procs :
        /\ pc'[q] = "link_origin" =>
              body'[q] = body[q] /\ body[q] \in Bodies /\ copies[body[q]] = body[q]
        /\ pc'[q] \in {"check_1", "check_2", "link_1", "link_2"} =>
              /\ body'[q] = body[q] /\ url'[q] = url[q]
              /\ \/ pc[q] \in {"check_1", "check_2", "link_1", "link_2"}
                 \/ /\ pc[q] = "link_origin" /\ copies' = copies
                    /\ origins'[body[q]] = url[q]

\* A downloader drafts what it has copied and whose origin it has noted.
LEMMA DraftersAdvance ==
    TypeOK /\ Roles /\ Known /\ DraftingInv /\ [Next]_vars => Drafting
<1> SUFFICES ASSUME TypeOK /\ Roles /\ Known /\ DraftingInv, [Next]_vars PROVE Drafting
    OBVIOUS
<1> USE StoreAssumption DEF TypeOK, Known, Drafting, DraftingInv, Hashed, Confirmed, Reviewed, Fetched,
      files, locals, world, Quiet, Goto, Check, Raise
<1>1. ASSUME NEW p \in Procs, Start(p) \/ Fetch(p) \/ Lock(p) \/ Compare(p) PROVE Drafting
    BY <1>1, SMTT(30) DEF Start, Fetch, Lock, Compare
<1>2. ASSUME NEW p \in Procs, ReplacePdf(p) \/ ReplaceSidecar(p) \/ Digest(p) PROVE Drafting
    BY <1>2, SMTT(30) DEF ReplacePdf, ReplaceSidecar, Digest
<1>3. ASSUME NEW p \in Procs, Copy(p) \/ LinkCopy(p) \/ Verify(p) PROVE Drafting
    BY <1>3, SMTT(30) DEF Copy, LinkCopy, Verify
<1>4. ASSUME NEW p \in Procs, Source(p) PROVE Drafting
    BY <1>4, SMTT(30) DEF Source
<1>5. ASSUME NEW p \in Procs, LinkOrigin(p) PROVE Drafting
    BY <1>5, SMTT(30) DEF LinkOrigin
<1>6. ASSUME NEW p \in Procs, CheckSnapshots(p) PROVE Drafting
    BY <1>6, SMTT(30) DEF CheckSnapshots
<1>7. ASSUME NEW p \in Procs, LinkDraft(p) PROVE Drafting
    BY <1>7, SMTT(30) DEF LinkDraft
<1>8. ASSUME NEW p \in Procs, ReadDraft(p) \/ Validate(p) PROVE Drafting
    BY <1>8, SMTT(30) DEF ReadDraft, Validate
<1>9. ASSUME NEW p \in Procs, LinkCanon(p) \/ Reread(p) \/ Crash(p) PROVE Drafting
    BY <1>9, SMTT(30) DEF LinkCanon, Reread, Crash
<1>10. CASE EditDraft \/ UNCHANGED vars \/ \E u \in Urls : ChangeOfficial(u)
    BY <1>10 DEF EditDraft, ChangeOfficial, vars
<1> QED
    BY <1>1, <1>2, <1>3, <1>4, <1>5, <1>6, <1>7, <1>8, <1>9, <1>10
       DEF Next, Download, Persist, Promote

\* The files a downloader has confirmed stay confirmed.
LEMMA DraftingStep ==
    TypeOK /\ Roles /\ Known /\ DraftingInv /\ [Next]_vars => DraftingInv'
<1> SUFFICES ASSUME TypeOK, Roles, Known, DraftingInv, [Next]_vars, NEW q \in Procs
             PROVE  /\ pc'[q] = "link_origin" => copies'[body'[q]] = body'[q]
                    /\ pc'[q] \in {"check_1", "check_2", "link_1", "link_2"}
                          => Backed(Bound(q))'
    BY DEF DraftingInv
<1>1. Drafting
    BY DraftersAdvance
<1>2. pc'[q] = "link_origin" => copies'[body'[q]] = body'[q]
    BY <1>1, CopyStays DEF Drafting
<1>3. CASE pc[q] \in {"check_1", "check_2", "link_1", "link_2"}
           /\ pc'[q] \in {"check_1", "check_2", "link_1", "link_2"}
    <2>1. Bound(q) \in Manifests /\ Backed(Bound(q))
        BY <1>3 DEF Known, Confirmed, Bound, Manifests, DraftingInv
    <2>2. body'[q] = body[q] /\ url'[q] = url[q]
        BY <1>1, <1>3 DEF Drafting
    <2>3. Backed(Bound(q))'
        BY <2>1, <2>2, BackedStays DEF Backed, Bound
    <2> QED
        BY <1>2, <1>3, <2>3
<1>4. CASE pc[q] = "link_origin" /\ copies' = copies /\ origins'[body[q]] = url[q]
           /\ body'[q] = body[q] /\ url'[q] = url[q]
    BY <1>2, <1>4 DEF DraftingInv, Backed, Bound
<1> QED
    BY <1>1, <1>2, <1>3, <1>4 DEF Drafting

\* A draft is drafted by a downloader that has confirmed its files, or rewritten.
LEMMA DraftStep ==
    TypeOK /\ Known /\ DraftingInv /\ DraftInv /\ [Next]_vars => DraftInv'
<1> SUFFICES ASSUME TypeOK, Known, DraftingInv, DraftInv, [Next]_vars PROVE DraftInv'
    OBVIOUS
<1>1. \A m \in Manifests : Backed(m) => Backed(m)'
    BY BackedStays
<1>2. CASE drafts' = drafts
    <2>1. edits' = 0 => edits = 0
        BY EditsOnlyGrow
    <2> QED
        BY <1>1, <1>2, <2>1 DEF DraftInv, TypeOK, Backed
<1>3. ASSUME NEW p \in Procs, LinkDraft(p) PROVE DraftInv'
    <2>1. Bound(p) \in Manifests /\ Backed(Bound(p)) /\ edits' = edits
        BY <1>3 DEF LinkDraft, Known, Confirmed, DraftingInv, Bound, Manifests, Quiet, world
    <2>2. drafts' \in {drafts, [drafts EXCEPT !.named = @ \cup {Bound(p)}],
                       [drafts EXCEPT !.first = Bound(p)]}
        BY <1>3 DEF LinkDraft, Linked
    <2>3. /\ \A m \in drafts'.named : m \in Manifests /\ Backed(m)
          /\ edits = 0 /\ drafts'.first # None => drafts'.first \in Manifests /\ Backed(drafts'.first)
        BY <2>1, <2>2 DEF DraftInv, TypeOK
    <2> QED
        BY <1>1, <2>1, <2>3 DEF DraftInv, Backed
<1>4. CASE EditDraft
    <2>1. edits' # 0 /\ drafts'.named = drafts.named
        BY <1>4, StoreAssumption DEF EditDraft, TypeOK
    <2> QED
        BY <1>1, <2>1 DEF DraftInv, TypeOK, Backed
<1>5. ASSUME NEW p \in Procs,
             \/ Download(p) \/ Promote(p) \/ Crash(p) \/ Digest(p) \/ Copy(p) \/ Verify(p)
             \/ Source(p) \/ CheckSnapshots(p) \/ LinkCopy(p) \/ LinkOrigin(p)
      PROVE  drafts' = drafts
    BY <1>5, SMTT(30) DEF Download, Promote, Start, Fetch, Lock, Compare, ReplacePdf,
       ReplaceSidecar, ReadDraft, Validate, LinkCanon, Reread, Crash, Digest, Copy,
       Verify, Source, CheckSnapshots, LinkCopy, LinkOrigin, files, locals, Quiet, Check, Raise
<1>6. CASE UNCHANGED vars \/ \E u \in Urls : ChangeOfficial(u)
    BY <1>2, <1>6 DEF ChangeOfficial, vars, files
<1>7. ASSUME NEW p \in Procs, Download(p) \/ Persist(p) \/ Promote(p) \/ Crash(p)
      PROVE  DraftInv'
    <2>1. CASE LinkDraft(p)
        BY <1>3, <2>1
    <2>2. CASE ~LinkDraft(p)
        BY <1>2, <1>5, <1>7, <2>2 DEF Persist
    <2> QED
        BY <2>1, <2>2
<1> QED
    BY <1>4, <1>6, <1>7 DEF Next

\* A draft that cannot have been rewritten stays where it is.
LEMMA OwnDraftStays ==
    ASSUME TypeOK, [Next]_vars, NEW m \in Manifests, IsDraft(m, "named")
    PROVE  IsDraft(m, "named")'
<1>1. drafts.named \subseteq drafts'.named
    <2>1. ASSUME NEW p \in Procs, LinkDraft(p) PROVE drafts.named \subseteq drafts'.named
        <3>1. drafts' \in {drafts, [drafts EXCEPT !.named = @ \cup {Bound(p)}],
                           [drafts EXCEPT !.first = Bound(p)]}
            BY <2>1 DEF LinkDraft, Linked
        <3> QED
            BY <3>1 DEF TypeOK
    <2>2. CASE EditDraft
        BY <2>2 DEF EditDraft, TypeOK
    <2>3. ASSUME NEW p \in Procs,
                 \/ Download(p) \/ Promote(p) \/ Crash(p) \/ Digest(p) \/ Copy(p) \/ Verify(p)
                 \/ Source(p) \/ CheckSnapshots(p) \/ LinkCopy(p) \/ LinkOrigin(p)
          PROVE  drafts' = drafts
        BY <2>3, SMTT(30) DEF Download, Promote, Start, Fetch, Lock, Compare, ReplacePdf,
           ReplaceSidecar, ReadDraft, Validate, LinkCanon, Reread, Crash, Digest, Copy,
           Verify, Source, CheckSnapshots, LinkCopy, LinkOrigin, files, locals, Quiet, Check, Raise
    <2>4. CASE UNCHANGED vars \/ \E u \in Urls : ChangeOfficial(u)
        BY <2>4 DEF ChangeOfficial, vars, files
    <2> QED
        BY <2>1, <2>2, <2>3, <2>4 DEF Next, Persist
<1> QED
    BY <1>1 DEF IsDraft

\* What a step makes of a promotion, or why it fails.
Judged ==
    \A q \in Promoters :
        /\ pc'[q] \in Reviewed =>
              \/ pc[q] \in Reviewed /\ draft'[q] = draft[q] /\ slot'[q] = slot[q]
              \/ /\ IsDraft(draft'[q], slot'[q]) /\ drafts' = drafts
                 /\ slot'[q] \in {"first", "named"} /\ draft'[q] \in Manifests
                 /\ UNCHANGED <<copies, origins, edits>>
        /\ pc'[q] = "failed" =>
              \/ pc[q] = "failed" /\ slot'[q] = slot[q]
              \/ /\ pc[q] \in Reviewed /\ slot'[q] = slot[q] /\ UNCHANGED edits
                 /\ ~Backed(draft[q]) \/ ~IsDraft(draft[q], slot[q])

\* A promotion keeps the draft it has read, and fails only on a draft that is gone or unbacked.
LEMMA PromotersAreJudged == TypeOK /\ Roles /\ Known /\ [Next]_vars => Judged
<1> SUFFICES ASSUME TypeOK /\ Roles /\ Known, [Next]_vars PROVE Judged
    OBVIOUS
<1> USE StoreAssumption DEF TypeOK, Roles, Judged, Fetched, Hashed, Confirmed, Reviewed,
      Validated, Procs, files, locals, world, Quiet, Goto, Check, Raise
<1>1. ASSUME NEW p \in Procs, Download(p) \/ Persist(p) PROVE Judged
    <2>1. p \notin Promoters
        BY <1>1 DEF Download, Persist, Start, Fetch, Lock, Compare, ReplacePdf,
           ReplaceSidecar, Digest, Copy, LinkCopy, Verify, Source, LinkOrigin,
           CheckSnapshots, LinkDraft
    <2>2. \A q \in Procs \ {p} : pc'[q] = pc[q] /\ draft'[q] = draft[q] /\ slot'[q] = slot[q]
        <3>1. CASE Download(p)
            BY <3>1 DEF Download, Start, Fetch, Lock, Compare, ReplacePdf, ReplaceSidecar
        <3>2. CASE Digest(p) \/ Copy(p) \/ LinkCopy(p) \/ Verify(p) \/ Source(p)
                   \/ LinkOrigin(p) \/ CheckSnapshots(p)
            BY <3>2 DEF Digest, Copy, LinkCopy, Verify, Source, LinkOrigin, CheckSnapshots
        <3>3. CASE LinkDraft(p)
            BY <3>3 DEF LinkDraft
        <3> QED
            BY <1>1, <3>1, <3>2, <3>3 DEF Persist
    <2> QED
        BY <2>1, <2>2
<1>2. ASSUME NEW p \in Procs, ReadDraft(p) PROVE Judged
    BY <1>2, SMTT(30) DEF ReadDraft, IsDraft
<1>3. ASSUME NEW p \in Procs, Validate(p) PROVE Judged
    BY <1>3, SMTT(30) DEF Validate
<1>4. ASSUME NEW p \in Procs, LinkCanon(p) PROVE Judged
    BY <1>4, SMTT(30) DEF LinkCanon
<1>5. ASSUME NEW p \in Procs, Reread(p) PROVE Judged
    BY <1>5, SMTT(30) DEF Reread
<1>6. ASSUME NEW p \in Procs, Crash(p) PROVE Judged
    BY <1>6, SMTT(30) DEF Crash
<1>7. CASE EditDraft \/ UNCHANGED vars \/ \E u \in Urls : ChangeOfficial(u)
    BY <1>7 DEF EditDraft, ChangeOfficial, vars
<1> QED
    BY <1>1, <1>2, <1>3, <1>4, <1>5, <1>6, <1>7 DEF Next, Promote

\* A promoter keeps a good draft.
LEMMA PromoterStep ==
    ASSUME TypeOK, Roles, Known, DraftInv, PromoterInv, [Next]_vars
    PROVE  PromoterInv'
<1> SUFFICES ASSUME NEW q \in Promoters, pc'[q] \in Reviewed
             PROVE  /\ slot'[q] \in {"first", "named"}
                    /\ slot'[q] = "named" \/ edits' = 0 =>
                          Backed(draft[q])' /\ IsDraft(draft[q], slot[q])'
    BY DEF PromoterInv
<1>1. Judged /\ q \in Procs
    BY PromotersAreJudged DEF Procs
<1>2. CASE pc[q] \in Reviewed /\ draft'[q] = draft[q] /\ slot'[q] = slot[q]
    <2>1. slot[q] \in {"first", "named"} /\ draft[q] \in Manifests
        BY <1>1, <1>2 DEF PromoterInv, Known
    <2>2. ASSUME slot'[q] = "named" \/ edits' = 0
          PROVE  Backed(draft[q])' /\ IsDraft(draft[q], slot[q])'
        <3>1. slot[q] = "named" \/ edits = 0
            BY <1>2, <2>2, EditsOnlyGrow
        <3>2. Backed(draft[q]) /\ IsDraft(draft[q], slot[q])
            BY <1>2, <3>1 DEF PromoterInv
        <3>3. Backed(draft[q])'
            BY <1>2, <2>1, <3>2, BackedStays DEF Backed
        <3>4. CASE slot[q] = "named"
            <4>1. \A m \in Manifests : m \in drafts.named => m \in drafts'.named
                BY OwnDraftStays DEF IsDraft
            <4>2. draft[q] \in drafts.named
                BY <3>2, <3>4 DEF IsDraft
            <4>3. draft'[q] \in drafts'.named /\ slot'[q] = "named"
                BY <1>2, <2>1, <3>4, <4>1, <4>2
            <4> QED
                BY <3>3, <4>3 DEF IsDraft
        <3>5. CASE edits' = 0 /\ slot[q] = "first"
            <4>1. \A m \in Manifests : drafts.first = m => drafts'.first = m
                BY <3>5, DraftsStay DEF IsDraft
            <4>2. drafts.first = draft[q]
                BY <3>2, <3>5 DEF IsDraft
            <4>3. draft'[q] = drafts'.first /\ slot'[q] = "first"
                BY <1>2, <2>1, <3>5, <4>1, <4>2
            <4> QED
                BY <3>3, <4>3 DEF IsDraft
        <3> QED
            BY <1>2, <2>1, <2>2, <3>3, <3>4, <3>5
    <2> QED
        BY <1>2, <2>1, <2>2
<1>3. CASE /\ IsDraft(draft'[q], slot'[q]) /\ drafts' = drafts
           /\ slot'[q] \in {"first", "named"} /\ draft'[q] \in Manifests
           /\ UNCHANGED <<copies, origins, edits>>
    <2>1. IsDraft(draft[q], slot[q])'
        BY <1>3 DEF IsDraft
    <2>2. slot'[q] = "named" \/ edits' = 0 => Backed(draft'[q])
        BY <1>3, StoreAssumption DEF IsDraft, DraftInv, Manifests
    <2>3. slot'[q] = "named" \/ edits' = 0 => Backed(draft[q])'
        BY <1>3, <2>2 DEF Backed
    <2> QED
        BY <1>3, <2>1, <2>3
<1> QED
    BY <1>1, <1>2, <1>3 DEF Judged

\* Who promotes a draft that nobody has rewritten succeeds unless it dies: neither the
\* files that other downloads replace, nor the drafts and canonical manifests that
\* others link, nor what the addresses serve by now turns it down.
THEOREM NoPromotionIsTurnedDown == Spec => []PromotionsSucceed
<1> DEFINE Base == TypeOK /\ Roles /\ Known
           Inv  == Base /\ DraftingInv /\ DraftInv /\ PromoterInv /\ PromotionsSucceed
<1>1. Init => Inv
    <2> SUFFICES ASSUME Init PROVE Inv
        OBVIOUS
    <2>1. Base
        BY Initially DEF IInv
    <2>2. DraftingInv /\ DraftInv /\ PromoterInv /\ PromotionsSucceed
        BY DEF Init, EmptyDir, DraftingInv, DraftInv, PromoterInv, PromotionsSucceed,
           Reviewed, Procs
    <2> QED
        BY <2>1, <2>2
<1>2. Inv /\ [Next]_vars => Inv'
    <2> SUFFICES ASSUME Inv, [Next]_vars PROVE Inv'
        OBVIOUS
    <2>1. Base'
        BY RolesStep, KnownStep, TypeStep
    <2>2. DraftingInv' /\ DraftInv'
        BY DraftingStep, DraftStep
    <2>3. PromoterInv'
        BY PromoterStep
    <2>4. ASSUME NEW q \in Promoters, pc'[q] = "failed"
          PROVE  slot'[q] = "first" /\ edits' > 0
        <3>1. Judged
            BY PromotersAreJudged
        <3>2. edits \in Nat /\ edits' \in Nat /\ (edits' = 0 => edits = 0)
            BY <2>1, EditsOnlyGrow, StoreAssumption DEF TypeOK
        <3>3. CASE pc[q] = "failed" /\ slot'[q] = slot[q]
            BY <3>2, <3>3 DEF PromotionsSucceed
        <3>4. CASE /\ pc[q] \in Reviewed /\ slot'[q] = slot[q] /\ UNCHANGED edits
                   /\ ~Backed(draft[q]) \/ ~IsDraft(draft[q], slot[q])
            BY <3>2, <3>4 DEF PromoterInv
        <3> QED
            BY <2>4, <3>1, <3>3, <3>4 DEF Judged
    <2>5. PromotionsSucceed'
        BY <2>4 DEF PromotionsSucceed
    <2> QED
        BY <2>1, <2>2, <2>3, <2>5
<1>3. Inv => PromotionsSucceed
    OBVIOUS
<1> QED
    BY <1>1, <1>2, <1>3, PTL DEF Spec

-----------------------------------------------------------------------------
\* The search

\* The order of a catalogue.

Catalogue(q) ==
    /\ DOMAIN q.cat \subseteq Ids
    /\ \A i \in DOMAIN q.cat :
          /\ q.cat[i].time \in Nat
          /\ q.cat[i].years = {} \/ \E y : q.cat[i].years = {y}
    /\ \A i, j \in DOMAIN q.cat : i <= j => q.cat[i].time <= q.cat[j].time

\* Of some numbers one is the least; of some ids one is the greatest.
LEMMA SomeNumberIsLeast ==
    ASSUME NEW S \in SUBSET Nat, S # {}
    PROVE  \E i \in S : \A j \in S : i <= j
<1>1. \E m \in S : \A n \in S : ~(<<n, m>> \in OpToRel(<, Nat))
    BY NatLessThanWellFounded, WFMin, Zenon
<1>2. \A m, n \in S : <<n, m>> \in OpToRel(<, Nat) <=> n < m
    BY DEF OpToRel
<1>3. PICK m \in S : \A n \in S : ~(n < m)
    BY <1>1, <1>2, Zenon
<1> QED
    BY <1>3

LEMMA SomeIdIsGreatest ==
    ASSUME NEW S \in SUBSET Ids, S # {}
    PROVE  \E i \in S : \A j \in S : j <= i
<1> DEFINE below == {MaxFilings - i : i \in S}
<1>1. \A i \in S : i \in Nat /\ MaxFilings - i \in Nat
    BY SearchAssumption DEF Ids
<1>2. below \in SUBSET Nat /\ below # {}
    BY <1>1
<1>3. PICK m \in below : \A n \in below : m <= n
    BY <1>2, SomeNumberIsLeast
<1>4. PICK i \in S : m = MaxFilings - i
    BY <1>3
<1>5. \A j \in S : MaxFilings - i <= MaxFilings - j
    BY <1>3, <1>4
<1> QED
    BY <1>1, <1>5, SearchAssumption

\* Announcements are numbered in the official order.
LEMMA NumberedInOrder ==
    ASSUME NEW q, Catalogue(q), NEW i \in DOMAIN q.cat, NEW j \in DOMAIN q.cat
    PROVE  Before(q, i, j) <=> i < j
<1>1. i \in Int /\ j \in Int /\ q.cat[i].time \in Nat /\ q.cat[j].time \in Nat
    BY DEF Catalogue, Ids
<1>2. /\ i <= j => q.cat[i].time <= q.cat[j].time
      /\ j <= i => q.cat[j].time <= q.cat[i].time
    BY DEF Catalogue
<1> QED
    BY <1>1, <1>2 DEF Before

LEMMA IdsAreNumbers == \A q : Catalogue(q) => \A i \in DOMAIN q.cat : i \in Int
BY DEF Catalogue, Ids

LEMMA NewestIs ==
    ASSUME NEW q, Catalogue(q), NEW S \in SUBSET DOMAIN q.cat, S # {}
    PROVE  Newest(q, S) \in S /\ \A j \in S : j <= Newest(q, S)
<1>1. PICK i \in S : \A j \in S : j <= i
    BY SomeIdIsGreatest DEF Catalogue
<1>2. \A j, k \in S : j \in Int /\ (Before(q, j, k) <=> j < k)
    BY NumberedInOrder, IdsAreNumbers
<1>3. \A j \in S \ {i} : Before(q, j, i)
    BY <1>1, <1>2
<1>4. \E k \in S : \A j \in S \ {k} : Before(q, j, k)
    BY <1>1, <1>3
<1>5. /\ Newest(q, S) \in S
      /\ \A j \in S \ {Newest(q, S)} : Before(q, j, Newest(q, S))
    BY ONLY <1>4, S # {}, Zenon DEF Newest
<1> QED
    BY <1>2, <1>5

\* A catalogue has no announcement NoId.
LEMMA NewestIsNone ==
    ASSUME NEW q, Catalogue(q), NEW S \in SUBSET DOMAIN q.cat
    PROVE  Newest(q, S) = NoId <=> S = {}
<1>1. NoId \notin S
    BY SearchAssumption DEF Catalogue
<1>2. CASE S = {}
    BY <1>2 DEF Newest
<1>3. CASE S # {}
    BY <1>1, <1>3, NewestIs
<1> QED
    BY <1>2, <1>3

-----------------------------------------------------------------------------
\* What is selected.

LEMMA LiveAre ==
    ASSUME NEW q, NEW y
    PROVE  /\ Live(q) \subseteq DOMAIN q.cat
           /\ Candidates(q, y) \subseteq Reports(q, y) /\ Reports(q, y) \subseteq Live(q)
           /\ \A kind : Notices(q, kind, y) \subseteq Live(q)
           /\ Replaceable(q, y) \subseteq Live(q)
BY DEF Live, Candidates, Reports, Notices, OfKind, Replaceable

LEMMA ChosenIs ==
    ASSUME NEW q, Catalogue(q), NEW y, Chosen(q, y) # NoId
    PROVE  /\ Chosen(q, y) \in Candidates(q, y) /\ Candidates(q, y) = Reports(q, y)
           /\ \A i \in Reports(q, y) : i <= Chosen(q, y)
<1>1. Candidates(q, y) # {} /\ Candidates(q, y) \subseteq DOMAIN q.cat
    BY LiveAre DEF Chosen, Newest
<1>2. Candidates(q, y) = Reports(q, y)
    BY <1>1 DEF Candidates
<1> QED
    BY <1>1, <1>2, NewestIs DEF Chosen

\* A notice that names no report, or the chosen one, takes it away, if it is later.
LEMMA LaterCancellations ==
    ASSUME NEW q, Catalogue(q), NEW y, Chosen(q, y) # NoId,
           NEW n \in Notices(q, "cancel", y), Before(q, Chosen(q, y), n),
           q.cat[n].target \in {Chosen(q, y), NoId}
    PROVE  Removes(q, n, y)
<1> DEFINE s == Chosen(q, y)
           before == {i \in Replaceable(q, y) : Before(q, i, n)}
<1>1. /\ s \in Reports(q, y) /\ \A i \in Reports(q, y) : i <= s
      /\ n \in DOMAIN q.cat /\ s \in DOMAIN q.cat /\ Reports(q, y) \subseteq DOMAIN q.cat
    BY ChosenIs, LiveAre
<1>2. CASE q.cat[n].target # NoId
    BY <1>2 DEF Removes, Target
<1>3. CASE q.cat[n].target = NoId
    <2>1. s \in before /\ before \subseteq DOMAIN q.cat
        BY <1>1, LiveAre DEF Replaceable
    <2>2. \A i \in before : i <= s
        <3> SUFFICES ASSUME NEW i \in before PROVE i <= s
            OBVIOUS
        <3>1. i \in Int /\ s \in Int
            BY <2>1, <1>1 DEF Catalogue, Ids
        <3>2. i \in Reports(q, y) \/ i = s \/ Before(q, i, s)
            BY <1>1 DEF Replaceable
        <3> QED
            BY <3>1, <3>2, <1>1, <2>1, NumberedInOrder
    <2>3. Newest(q, before) \in before /\ s <= Newest(q, before)
        BY <2>1, NewestIs
    <2>4. Newest(q, before) = s
        BY <2>1, <2>2, <2>3 DEF Catalogue, Ids
    <2> QED
        BY <1>3, <2>4 DEF Removes, Target
<1> QED
    BY <1>2, <1>3

\* The first that takes it away is heard.
LEMMA RemovedIsWithdrawn ==
    ASSUME NEW q, Catalogue(q), NEW y, Chosen(q, y) # NoId,
           NEW n \in Notices(q, "cancel", y), Removes(q, n, y)
    PROVE  Withdrawn(q, y)
<1> DEFINE removing == {m \in Notices(q, "cancel", y) : Removes(q, m, y)}
<1>1. removing \subseteq DOMAIN q.cat /\ removing \subseteq Ids /\ removing # {}
    BY LiveAre DEF Catalogue
<1>2. PICK m \in removing : \A k \in removing : m <= k
    BY <1>1, SomeNumberIsLeast, Ids \subseteq Nat DEF Ids
<1>3. \A k \in Notices(q, "cancel", y) : Before(q, k, m) => k < m /\ k \in Int /\ m \in Int
    <2>1. Notices(q, "cancel", y) \subseteq DOMAIN q.cat
        BY LiveAre
    <2> QED
        BY <2>1, NumberedInOrder, IdsAreNumbers
<1>4. m \in Heard(q, y)
    BY <1>2, <1>3 DEF Heard
<1> QED
    BY <1>2, <1>4 DEF Withdrawn

\* What SelectionIsSound says of one selected report and one later announcement.
LEMMA SelectedIsSound ==
    ASSUME NEW q, Catalogue(q), ~Refused(q), NEW s \in Selected(q),
           NEW i \in DOMAIN q.cat, q.cat[i].time <= q.cutoff,
           q.cat[i].years \cap q.cat[s].years # {}, Before(q, s, i)
    PROVE  /\ q.cat[i].kind \notin {"annual", "corrected"}
           /\ q.cat[i].kind = "cancel" => q.cat[i].target \notin {s, NoId}
           /\ q.cat[i].kind = "correction" =>
                 /\ q.cat[s].kind = "corrected" /\ i = s + 1
                 /\ q.cat[i].time - q.cat[s].time <= Batch
<1>1. PICK y \in YearsOf(q) : s = Kept(q, y) /\ Kept(q, y) # NoId
    BY DEF Selected, LatestYears, KeptYears
<1>2. s = Chosen(q, y) /\ ~Withdrawn(q, y) /\ Chosen(q, y) # NoId
    BY <1>1 DEF Kept
<1>3. s \in Candidates(q, y) /\ Candidates(q, y) = Reports(q, y)
      /\ \A j \in Reports(q, y) : j <= s
    BY <1>2, ChosenIs
<1>4. Live(q) \subseteq DOMAIN q.cat /\ s \in DOMAIN q.cat /\ Reports(q, y) \subseteq DOMAIN q.cat
    BY <1>3, LiveAre
<1>5. s \in Int /\ i \in Int /\ s < i
    BY <1>4, NumberedInOrder, IdsAreNumbers
<1>6. y \in q.cat[i].years
    <2>1. y \in q.cat[s].years
        BY <1>3 DEF Reports
    <2>2. q.cat[s].years = {y}
        BY <2>1, <1>4 DEF Catalogue
    <2> QED
        BY <2>2
<1>7. q.cat[i].kind # "malformed" /\ i \in Live(q)
    BY DEF Refused, Unreadable, Live
<1>8. q.cat[i].kind \notin {"annual", "corrected"}
    <2> SUFFICES ASSUME q.cat[i].kind \in {"annual", "corrected"} PROVE FALSE
        OBVIOUS
    <2>1. i \in Reports(q, y)
        BY <1>6, <1>7 DEF Reports, OfKind
    <2> QED
        BY <1>3, <1>5, <2>1
<1>9. ASSUME q.cat[i].kind = "cancel", q.cat[i].target \in {s, NoId} PROVE FALSE
    <2>1. i \in Notices(q, "cancel", y)
        BY <1>6, <1>7, <1>9 DEF Notices, OfKind
    <2> QED
        BY <1>2, <1>9, <2>1, LaterCancellations, RemovedIsWithdrawn
<1>10. ASSUME q.cat[i].kind = "correction"
       PROVE  /\ q.cat[s].kind = "corrected" /\ i = s + 1
              /\ q.cat[i].time - q.cat[s].time <= Batch
    <2> DEFINE notices == Notices(q, "correction", y)
    <2>1. i \in notices /\ notices \subseteq DOMAIN q.cat
        BY <1>6, <1>7, <1>10, LiveAre DEF Notices, OfKind
    <2>2. PICK n \in notices : n = Newest(q, notices) /\ i <= n /\ n # NoId
        <3>1. Newest(q, notices) \in notices /\ i <= Newest(q, notices)
            BY <2>1, NewestIs
        <3> QED
            BY <3>1, <2>1, NewestIsNone
    <2>3. Before(q, s, n) /\ n \in DOMAIN q.cat /\ n \in Int
        BY <1>4, <1>5, <2>1, <2>2, NumberedInOrder, IdsAreNumbers
    <2>4. PICK r \in Candidates(q, y) :
              q.cat[r].kind = "corrected" /\ (Before(q, n, r) \/ SameBatch(q, r, n))
        BY <1>1, <2>2, <2>3 DEF Refused, Uncorrected
    <2>5. r \in DOMAIN q.cat /\ r \in Int /\ r <= s
        BY <1>3, <1>4, <2>4 DEF Catalogue, Ids
    <2>6. ~Before(q, n, r)
        BY <1>5, <2>2, <2>3, <2>5, NumberedInOrder
    <2>7. n = r + 1 /\ q.cat[n].time - q.cat[r].time \in 0..Batch
        BY <2>4, <2>6 DEF SameBatch
    <2>8. r = s /\ i = n
        BY <1>5, <2>2, <2>3, <2>5, <2>7
    <2> QED
        BY <2>4, <2>7, <2>8, SearchAssumption
<1> QED
    BY <1>8, <1>9, <1>10

-----------------------------------------------------------------------------
\* Hindsight.  Two catalogues with the same live announcements are classified alike,
\* their cutoffs may differ.

Alike(q, r) ==
    /\ Catalogue(q) /\ Catalogue(r)
    /\ q.cutoff \in Int /\ r.cutoff \in Int /\ q.last = r.last /\ q.count = r.count
    /\ Live(q) = Live(r) /\ \A i \in Live(q) : q.cat[i] = r.cat[i]
    /\ (\E i \in DOMAIN q.cat : q.cat[i].kind = "malformed")
       <=> (\E i \in DOMAIN r.cat : r.cat[i].kind = "malformed")

LEMMA SameKinds ==
    ASSUME NEW q, NEW r, Alike(q, r)
    PROVE  /\ \A kinds : OfKind(q, kinds) = OfKind(r, kinds)
           /\ \A kind, y : Notices(q, kind, y) = Notices(r, kind, y)
           /\ \A y : Reports(q, y) = Reports(r, y) /\ Candidates(q, y) = Candidates(r, y)
           /\ YearsOf(q) = YearsOf(r) /\ (Unreadable(q) <=> Unreadable(r))
<1>1. \A kinds : OfKind(q, kinds) = OfKind(r, kinds) /\ OfKind(q, kinds) \subseteq Live(q)
    BY DEF Alike, OfKind
<1>2. \A kind, y : Notices(q, kind, y) = Notices(r, kind, y)
    <2> TAKE kind, y
    <2>1. PICK S : S = OfKind(q, {kind}) /\ S = OfKind(r, {kind}) /\ S \subseteq Live(q)
        BY <1>1
    <2>2. \A i \in S : q.cat[i].years = r.cat[i].years
        BY <2>1 DEF Alike
    <2>3. {i \in S : y \in q.cat[i].years} = {i \in S : y \in r.cat[i].years}
        BY <2>2
    <2> QED
        BY <2>1, <2>3 DEF Notices
<1>3. \A y : Reports(q, y) = Reports(r, y)
    BY <1>1 DEF Alike, Reports
<1>4. \A y : Candidates(q, y) = Candidates(r, y)
    BY <1>3 DEF Alike, Candidates
<1>5. YearsOf(q) = YearsOf(r)
    <2>1. {q.cat[i].years : i \in Live(q)} = {r.cat[i].years : i \in Live(r)}
        BY DEF Alike
    <2> QED
        BY <2>1 DEF YearsOf
<1>6. Unreadable(q) <=> Unreadable(r)
    <2>1. \A i \in OfKind(q, {"cancel", "correction"}) : q.cat[i].years = r.cat[i].years
        BY <1>1 DEF Alike
    <2> QED
        BY <1>1, <2>1 DEF Unreadable, Alike
<1> QED
    BY <1>1, <1>2, <1>3, <1>4, <1>5, <1>6

LEMMA SameOrder ==
    ASSUME NEW q, NEW r, Alike(q, r)
    PROVE  /\ Live(q) \subseteq Int
           /\ \A i, j \in Live(q) : (Before(q, i, j) <=> i < j) /\ (Before(r, i, j) <=> i < j)
           /\ \A S \in SUBSET Live(q) : Newest(q, S) = Newest(r, S)
<1>1. Live(q) \subseteq DOMAIN q.cat /\ Live(q) \subseteq DOMAIN r.cat /\ Catalogue(q) /\ Catalogue(r)
    BY DEF Alike, Live
<1>2. Live(q) \subseteq Int
    BY <1>1, IdsAreNumbers
<1>3. \A i, j \in Live(q) : (Before(q, i, j) <=> i < j) /\ (Before(r, i, j) <=> i < j)
    BY <1>1, NumberedInOrder
<1>4. ASSUME NEW S \in SUBSET Live(q) PROVE Newest(q, S) = Newest(r, S)
    <2>1. CASE S = {}
        BY <2>1 DEF Newest
    <2>2. CASE S # {}
        <3>1. PICK i \in S : i = Newest(q, S) /\ \A j \in S : j <= i
            BY <1>1, <2>2, NewestIs
        <3>2. PICK k \in S : k = Newest(r, S) /\ \A j \in S : j <= k
            BY <1>1, <2>2, NewestIs
        <3> QED
            BY <1>2, <3>1, <3>2
    <2> QED
        BY <2>1, <2>2
<1> QED
    BY <1>2, <1>3, <1>4

LEMMA SameTargets ==
    ASSUME NEW q, NEW r, Alike(q, r), NEW y
    PROVE  /\ Chosen(q, y) = Chosen(r, y)
           /\ \A n \in Live(q) : Target(q, n, y) = Target(r, n, y)
<1>1. /\ Candidates(q, y) = Candidates(r, y) /\ Reports(q, y) = Reports(r, y)
      /\ Notices(q, "cancel", y) = Notices(r, "cancel", y)
      /\ Candidates(q, y) \subseteq Live(q) /\ Reports(q, y) \subseteq Live(q)
      /\ Notices(q, "cancel", y) \subseteq Live(q)
    <2>1. Candidates(q, y) = Candidates(r, y) /\ Reports(q, y) = Reports(r, y)
        BY SameKinds
    <2>2. Notices(q, "cancel", y) = Notices(r, "cancel", y)
        BY SameKinds
    <2> QED
        BY <2>1, <2>2, LiveAre
<1>2. Chosen(q, y) = Chosen(r, y)
    BY <1>1, SameOrder DEF Chosen
<1>3. Replaceable(q, y) = Replaceable(r, y) /\ Replaceable(q, y) \subseteq Live(q)
    <2> DEFINE all == Reports(q, y) \cup Notices(q, "cancel", y)
    <2>1. all \subseteq Live(q) /\ all = Reports(r, y) \cup Notices(r, "cancel", y)
        BY <1>1
    <2>2. \A i, j \in all : Before(q, i, j) <=> Before(r, i, j)
        BY <2>1, SameOrder
    <2>3. {i \in all : \A j \in all \ {i} : Before(q, i, j)}
          = {i \in all : \A j \in all \ {i} : Before(r, i, j)}
        BY <2>2
    <2>4. /\ Replaceable(q, y) = Reports(q, y) \cup {i \in all : \A j \in all \ {i} : Before(q, i, j)}
          /\ Replaceable(r, y) = Reports(q, y) \cup {i \in all : \A j \in all \ {i} : Before(r, i, j)}
        BY <1>1 DEF Replaceable
    <2> QED
        BY <2>3, <2>4, LiveAre
<1>4. ASSUME NEW n \in Live(q) PROVE Target(q, n, y) = Target(r, n, y)
    <2>1. {i \in Replaceable(q, y) : Before(q, i, n)} = {i \in Replaceable(r, y) : Before(r, i, n)}
        BY <1>3, SameOrder
    <2>2. {i \in Replaceable(q, y) : Before(q, i, n)} \subseteq Live(q)
        BY <1>3
    <2>3. Newest(q, {i \in Replaceable(q, y) : Before(q, i, n)})
          = Newest(r, {i \in Replaceable(r, y) : Before(r, i, n)})
        BY <2>1, <2>2, SameOrder
    <2>4. q.cat[n].target = r.cat[n].target
        BY DEF Alike
    <2> QED
        BY <2>3, <2>4 DEF Target
<1> QED
    BY <1>2, <1>4

LEMMA SameCancellations ==
    ASSUME NEW q, NEW r, Alike(q, r), NEW y
    PROVE  /\ Heard(q, y) = Heard(r, y) /\ (Withdrawn(q, y) <=> Withdrawn(r, y))
           /\ Kept(q, y) = Kept(r, y) /\ Cancelled(q, y) = Cancelled(r, y)
           /\ TargetMissing(q, y) <=> TargetMissing(r, y)
<1> DEFINE notices == Notices(q, "cancel", y)
<1>1. notices = Notices(r, "cancel", y) /\ notices \subseteq Live(q)
    BY SameKinds, LiveAre
<1>2. Chosen(q, y) = Chosen(r, y) /\ \A n \in Live(q) : Target(q, n, y) = Target(r, n, y)
    BY SameTargets
<1>3. Candidates(q, y) = Candidates(r, y)
    BY SameKinds
<1>4. CASE Chosen(q, y) = NoId
    <2>1. Heard(q, y) = {} /\ Heard(r, y) = {}
        BY <1>2, <1>4 DEF Heard
    <2>2. ~Withdrawn(q, y) /\ ~Withdrawn(r, y)
        BY <2>1 DEF Withdrawn
    <2>3. Kept(q, y) = Kept(r, y)
        BY <1>2, <2>2 DEF Kept
    <2>4. Cancelled(q, y) = {} /\ Cancelled(r, y) = {}
        BY <2>1, <2>2 DEF Cancelled
    <2>5. ~TargetMissing(q, y) /\ ~TargetMissing(r, y)
        BY <2>1 DEF TargetMissing
    <2> QED
        BY <2>1, <2>2, <2>3, <2>4, <2>5
<1>5. CASE Chosen(q, y) # NoId
    <2>1. Chosen(q, y) \in Live(q)
        BY <1>5, ChosenIs, LiveAre DEF Alike
    <2>2. \A n \in notices : Removes(q, n, y) <=> Removes(r, n, y)
        BY <1>1, <1>2, <2>1, SameOrder DEF Removes
    <2>3. \A m, n \in notices : Before(q, m, n) <=> Before(r, m, n)
        BY <1>1, SameOrder
    <2>4. Heard(q, y) = Heard(r, y) /\ Heard(q, y) \subseteq notices
        <3>1. Heard(q, y) = {n \in notices : ~\E m \in notices : Before(q, m, n) /\ Removes(q, m, y)}
            BY <1>5 DEF Heard
        <3>2. Heard(r, y) = {n \in notices : ~\E m \in notices : Before(r, m, n) /\ Removes(r, m, y)}
            BY <1>1, <1>2, <1>5 DEF Heard
        <3> QED
            BY <2>2, <2>3, <3>1, <3>2
    <2>5. Withdrawn(q, y) <=> Withdrawn(r, y)
        BY <2>2, <2>4 DEF Withdrawn
    <2>6. Kept(q, y) = Kept(r, y)
        BY <1>2, <2>5 DEF Kept
    <2>7. \A n \in Heard(q, y) : Target(q, n, y) = Target(r, n, y)
        BY <1>1, <1>2, <2>4
    <2>8. Cancelled(q, y) = Cancelled(r, y)
        <3>1. {Target(q, n, y) : n \in Heard(q, y)} = {Target(r, n, y) : n \in Heard(r, y)}
            BY <2>4, <2>7
        <3> QED
            BY <1>2, <1>3, <2>5, <3>1 DEF Cancelled
    <2>9. TargetMissing(q, y) <=> TargetMissing(r, y)
        BY <1>3, <2>4, <2>7 DEF TargetMissing
    <2> QED
        BY <2>4, <2>5, <2>6, <2>8, <2>9
<1> QED
    BY <1>4, <1>5

LEMMA SameCorrections ==
    ASSUME NEW q, NEW r, Alike(q, r), NEW y
    PROVE  Uncorrected(q, y) <=> Uncorrected(r, y)
<1> DEFINE notices == Notices(q, "correction", y)
           n == Newest(q, notices)
<1>1. notices = Notices(r, "correction", y) /\ notices \subseteq Live(q)
    BY SameKinds, LiveAre
<1>2. n = Newest(r, notices) /\ (n # NoId => n \in Live(q))
    <2>1. n = Newest(r, notices)
        BY <1>1, SameOrder
    <2>2. n # NoId => n \in notices
        BY <1>1, NewestIs, LiveAre DEF Alike, Newest
    <2> QED
        BY <1>1, <2>1, <2>2
<1>3. Kept(q, y) = Kept(r, y) /\ (Kept(q, y) # NoId => Kept(q, y) \in Live(q))
    <2>1. Kept(q, y) # NoId => Kept(q, y) = Chosen(q, y)
        BY DEF Kept
    <2>2. Chosen(q, y) # NoId => Chosen(q, y) \in Live(q)
        BY ChosenIs, LiveAre DEF Alike
    <2> QED
        BY <2>1, <2>2, SameCancellations
<1>4. Candidates(q, y) = Candidates(r, y) /\ Candidates(q, y) \subseteq Live(q)
    BY SameKinds, LiveAre
<1>5. ASSUME n # NoId, Kept(q, y) # NoId PROVE Uncorrected(q, y) <=> Uncorrected(r, y)
    <2>1. Before(q, Kept(q, y), n) <=> Before(r, Kept(q, y), n)
        BY <1>2, <1>3, <1>5, SameOrder
    <2>2. \A c \in Candidates(q, y) : Before(q, n, c) <=> Before(r, n, c)
        BY <1>2, <1>4, <1>5, SameOrder
    <2>3. \A c \in Candidates(q, y) : q.cat[c] = r.cat[c] /\ q.cat[n] = r.cat[n]
        BY <1>2, <1>4, <1>5 DEF Alike
    <2>4. \A c \in Candidates(q, y) : SameBatch(q, c, n) <=> SameBatch(r, c, n)
        BY <2>3 DEF SameBatch
    <2> HIDE DEF n
    <2> QED
        BY <1>1, <1>2, <1>3, <1>4, <2>1, <2>2, <2>3, <2>4 DEF Uncorrected, n
<1>6. CASE n = NoId \/ Kept(q, y) = NoId
    <2>1. ~Uncorrected(q, y)
        BY <1>6 DEF Uncorrected
    <2>2. ~Uncorrected(r, y)
        BY <1>1, <1>2, <1>3, <1>6 DEF Uncorrected
    <2> QED
        BY <2>1, <2>2
<1> QED
    BY <1>5, <1>6

LEMMA SameOutcome ==
    ASSUME NEW q, NEW r, Alike(q, r)
    PROVE  /\ Outcome(q) = Outcome(r) /\ (Refused(q) <=> Refused(r)) /\ Selected(q) = Selected(r)
           /\ \A i \in Live(q) : Status(q, i) = Status(r, i)
<1>1. YearsOf(q) = YearsOf(r) /\ (Unreadable(q) <=> Unreadable(r))
    BY SameKinds
<1>2. \A y : /\ Kept(q, y) = Kept(r, y) /\ Cancelled(q, y) = Cancelled(r, y)
             /\ TargetMissing(q, y) <=> TargetMissing(r, y)
    BY SameCancellations
<1>3. Refused(q) <=> Refused(r)
    BY <1>1, <1>2, SameCorrections DEF Refused
<1>4. KeptYears(q) = KeptYears(r)
    BY <1>1, <1>2 DEF KeptYears
<1>5. LatestYears(q) = LatestYears(r)
    BY <1>4 DEF LatestYears, Alike
<1>6. Selected(q) = Selected(r)
    BY <1>2, <1>5 DEF Selected
<1>7. ASSUME NEW i \in Live(q) PROVE Status(q, i) = Status(r, i)
    <2>1. PICK a : a = q.cat[i] /\ a = r.cat[i] /\ q.last = r.last
        BY DEF Alike
    <2>2. ~(a.time > q.cutoff) /\ ~(a.time > r.cutoff)
        <3>1. i \in Live(q) /\ i \in Live(r)
            BY DEF Alike
        <3>2. a.time \in Int /\ a.time <= q.cutoff /\ a.time <= r.cutoff
            BY <2>1, <3>1 DEF Live, Alike, Catalogue
        <3> QED
            BY <3>2 DEF Alike
    <2>3. /\ i \in Selected(q) <=> i \in Selected(r)
          /\ (\E y \in a.years : i \in Cancelled(q, y)) <=> (\E y \in a.years : i \in Cancelled(r, y))
          /\ (\E y \in a.years : Kept(q, y) \notin {NoId, i})
             <=> (\E y \in a.years : Kept(r, y) \notin {NoId, i})
        BY <1>2, <1>6
    <2> QED
        BY ONLY <2>1, <2>2, <2>3 DEF Status
<1>8. Outcome(q) = Outcome(r)
    <2>1. [i \in Live(q) |-> Status(q, i)] = [i \in Live(r) |-> Status(r, i)]
        BY <1>7 DEF Alike
    <2> QED
        BY <1>3, <2>1 DEF Outcome
<1> QED
    BY <1>3, <1>6, <1>7, <1>8

-----------------------------------------------------------------------------
\* What is read.

\* An announcement is about one year at most: its own, or that of its title.
Rows == {a \in Announcements(Ids, Times, Years) :
            /\ a.years = {} \/ \E y : a.years = {y}
            /\ a.years = IF a.kind = "correction" /\ a.title # {} THEN a.title ELSE a.fiscal}

\* The announcements there are, in the order of their times.
InOrder(s) ==
    /\ s \in Seq(Rows) /\ Len(s) <= MaxFilings
    /\ \A i, j \in 1..Len(s) : i <= j => s[i].time <= s[j].time

Windows == [from : Int, to : Int]
Queries == Int \cup Windows
Answers == [query : Queries, made : Nat, total : Nat,
            rows : UNION {[S -> Rows] : S \in SUBSET Ids}]

\* An answer holds announcements of its moment; their times never change.  The total
\* of cninfo (x = "CN") counts those its window (win) lets through, the oldest ones;
\* rows of HKEX that are not cut off are all of their days.
Faithful(a, s, x, win) ==
    /\ a.made <= Len(s) /\ DOMAIN a.rows \subseteq 1..a.made
    /\ \A i \in DOMAIN a.rows : a.rows[i].time = s[i].time
    /\ x = "CN" =>
          /\ DOMAIN a.rows \subseteq 1..a.total
          /\ {i \in 1..a.made : win => s[i].time <= Cutoff} = 1..a.total
    /\ x = "HK" =>
          /\ a.query \in Windows
          /\ Cardinality(DOMAIN a.rows) < RowRange =>
                \A i \in 1..a.made :
                    s[i].time \in a.query.from..a.query.to => i \in DOMAIN a.rows

\* Answers that were given one after the other
Given(answers, s, x, win) ==
    /\ answers \in Seq(Answers)
    /\ \A k \in DOMAIN answers :
          Faithful(answers[k], s, x, win) /\ answers[1].made <= answers[k].made

ReadInv ==
    /\ InOrder(server) /\ exchange \in Exchanges
    /\ todo \in Seq(Queries) /\ (exchange = "HK" => todo \in Seq(Windows))
    /\ (exchange = "CN" => todo \in Seq(Int)) /\ (stage = "reading" => todo # <<>>)
    /\ Given(asked, server, exchange, windowed) /\ Given(again, server, exchange, windowed)
    /\ stage \notin {"recheck", "differs", "revalidated"} => again = <<>>
    /\ \A k \in DOMAIN again : k \in DOMAIN asked /\ again[k].query = asked[k].query

LEMMA ServerGrows ==
    ASSUME InOrder(server), [SearchNext]_searchVars
    PROVE  /\ InOrder(server')
           /\ Len(server) \in Nat /\ Len(server') \in Nat /\ Len(server) <= Len(server')
           /\ \A i \in 1..Len(server) : server'[i].time = server[i].time
<1>1. PICK n \in Nat : n = Len(server) /\ n <= MaxFilings
    BY DEF InOrder
<1> DEFINE Grows == /\ InOrder(server') /\ Len(server') \in Nat /\ n <= Len(server')
                    /\ \A i \in 1..n : server'[i].time = server[i].time
<1>2. ASSUME UNCHANGED server PROVE Grows
    BY <1>1, <1>2 DEF InOrder
<1>3. ASSUME File PROVE Grows
    <2>1. PICK a \in Publishable(n + 1) : server' = Append(server, a)
        BY <1>1, <1>3 DEF File
    <2>2. n < MaxFilings
        BY <1>1, <1>3 DEF File
    <2>3. /\ a \in Announcements(1..n, Times, Years) /\ (n >= 1 => server[n].time <= a.time)
          /\ Cardinality(a.title) <= 1 /\ Cardinality(a.fiscal) <= 1
          /\ a.years = IF a.kind = "correction" /\ a.title # {} THEN a.title ELSE a.fiscal
        BY <2>1 DEF Publishable, Consistent
    <2>4. a.years = {} \/ \E y : a.years = {y}
        <3>1. a.years \in SUBSET Years /\ Cardinality(a.years) <= 1
            BY <2>3 DEF Announcements
        <3>2. IsFiniteSet(a.years)
            BY <3>1, FS_Subset, SearchAssumption
        <3>3. Cardinality(a.years) \in Nat
            BY <3>2, FS_CardinalityType
        <3>4. Cardinality(a.years) = 0 \/ Cardinality(a.years) = 1
            BY <3>1, <3>3
        <3> QED
            BY <3>2, <3>4, FS_EmptySet, FS_Singleton
    <2>5. a \in Rows
        <3>1. 1..n \subseteq Ids
            BY <2>2, SearchAssumption DEF Ids
        <3>2. a \in Announcements(Ids, Times, Years)
            BY <2>3, <3>1 DEF Announcements
        <3> QED
            BY <2>3, <2>4, <3>2 DEF Rows
    <2>6. server' \in Seq(Rows) /\ Len(server') = n + 1
        BY <1>1, <2>1, <2>5 DEF InOrder
    <2>7. /\ \A i \in 1..n : server'[i] = server[i]
          /\ server'[n + 1] = a
        BY <1>1, <2>1 DEF InOrder
    <2>8. \A i \in 1..n : server[i].time \in Nat /\ server[i].time <= server[n].time
        <3>1. \A i \in 1..n : server[i] \in Rows
            BY <1>1 DEF InOrder
        <3> QED
            BY <1>1, <3>1 DEF InOrder, Rows, Announcements, Times
    <2>9. \A i, j \in 1..(n + 1) : i <= j => server'[i].time <= server'[j].time
        <3> SUFFICES ASSUME NEW i \in 1..(n + 1), NEW j \in 1..(n + 1), i <= j
                     PROVE  server'[i].time <= server'[j].time
            OBVIOUS
        <3>1. a.time \in Nat
            BY <2>3 DEF Announcements, Times
        <3>2. CASE j <= n
            BY <1>1, <2>7, <3>2 DEF InOrder
        <3>3. CASE i = n + 1
            BY <2>7, <3>1, <3>3
        <3>4. CASE i <= n /\ j = n + 1
            BY <2>3, <2>7, <2>8, <3>1, <3>4
        <3> QED
            BY <3>2, <3>3, <3>4
    <2> QED
        BY <1>1, <2>2, <2>6, <2>7, <2>9, SearchAssumption DEF InOrder
<1>4. ASSUME NEW i \in DOMAIN server, Withdraw(i) PROVE Grows
    <2>1. server' = [server EXCEPT ![i] = [server[i] EXCEPT !.kind = "cancel"]]
        BY <1>4 DEF Withdraw
    <2>2. server[i] \in Rows /\ server[i].kind = "annual"
        BY <1>4 DEF InOrder, Withdraw
    <2>3. PICK a \in Rows : a = [server[i] EXCEPT !.kind = "cancel"] /\ a.time = server[i].time
        <3> DEFINE c == [server[i] EXCEPT !.kind = "cancel"]
        <3>1. server[i] \in Announcements(Ids, Times, Years)
            BY <2>2 DEF Rows
        <3>2. /\ c \in Announcements(Ids, Times, Years) /\ c.kind = "cancel"
              /\ c.years = server[i].years /\ c.fiscal = server[i].fiscal
              /\ c.time = server[i].time
            BY <3>1 DEF Announcements, Kinds
        <3> HIDE DEF c
        <3>3. c \in Rows
            BY <2>2, <3>2 DEF Rows
        <3> QED
            BY <3>2, <3>3 DEF c
    <2>4. server' \in Seq(Rows) /\ Len(server') = n
        BY <1>1, <2>1, <2>3 DEF InOrder
    <2>5. \A j \in 1..n : server'[j].time = server[j].time
        BY <1>1, <2>1, <2>3 DEF InOrder
    <2> QED
        BY <1>1, <2>4, <2>5 DEF InOrder
<1>5. ASSUME \/ Begin \/ ReadPage \/ ReadWindow \/ Classify \/ Write \/ PromoteRows
             \/ BeginRevalidation \/ Reask \/ Revalidate \/ UNCHANGED searchVars
      PROVE  UNCHANGED server
    BY <1>5 DEF searchVars, Begin, ReadPage, ReadWindow, Classify, Write, PromoteRows,
                BeginRevalidation, Reask, Revalidate
<1> HIDE DEF Grows
<1>6. \/ File \/ (\E i \in DOMAIN server : Withdraw(i)) \/ UNCHANGED server
    BY <1>5, Zenon DEF SearchNext
<1>7. Grows
    BY <1>2, <1>3, <1>4, <1>6
<1> QED
    BY <1>1, <1>7 DEF Grows

\* The rows of a window whose answer is not cut off are all there are.
LEMMA NotFullIsWhole ==
    ASSUME InOrder(server), NEW w \in Windows, Cardinality(InWindow(w)) < RowRange,
           NEW i \in 1..Len(server), server[i].time \in w.from..w.to
    PROVE  i \in InWindow(w)
<1> DEFINE all == {k \in DOMAIN server : server[k].time \in w.from..w.to}
           newer(k) == {j \in all : j > k}
           missing == all \ InWindow(w)
<1>1. PICK n \in Nat : n = Len(server) /\ n <= MaxFilings /\ DOMAIN server = 1..n
    BY DEF InOrder
<1>2. all \subseteq 1..n /\ IsFiniteSet(all) /\ all \subseteq Ids
    <2>1. all \subseteq 1..n
        BY <1>1
    <2>2. IsFiniteSet(1..n)
        BY ONLY n \in Nat, FS_Interval
    <2> QED
        BY <1>1, <2>1, <2>2, FS_Subset, SearchAssumption DEF Ids
<1>3. InWindow(w) = {k \in all : Cardinality(newer(k)) < RowRange}
    BY DEF InWindow
<1> SUFFICES ASSUME i \notin InWindow(w) PROVE FALSE
    OBVIOUS
<1>5. i \in missing /\ missing \subseteq Ids
    BY <1>1, <1>2
<1> HIDE DEF missing
<1>6. PICK m \in missing : \A j \in missing : j <= m
    BY <1>5, SomeIdIsGreatest
<1>7. m \in all /\ m \notin InWindow(w)
    BY DEF missing
<1> HIDE DEF all
<1>8. newer(m) \subseteq InWindow(w)
    <2>1. \A j \in newer(m) : j \in all /\ j > m
        OBVIOUS
    <2>2. \A j \in all : j \in Int
        BY ONLY <1>2
    <2>3. m \in Int
        BY <1>7, <2>2
    <2>4. ASSUME NEW j \in newer(m) PROVE j \in InWindow(w)
        <3>1. j \in all /\ j \in Int /\ j > m
            BY <2>1, <2>2
        <3>2. j \notin missing
            BY ONLY <1>6, <2>3, <3>1
        <3> QED
            BY <3>1, <3>2 DEF missing
    <2> QED
        BY <2>4
<1>9. Cardinality(newer(m)) >= RowRange
    <2>1. IsFiniteSet(newer(m))
        BY <1>2, FS_Subset, newer(m) \subseteq all
    <2>2. Cardinality(newer(m)) \in Nat
        BY <2>1, FS_CardinalityType
    <2>3. ~(Cardinality(newer(m)) < RowRange)
        BY <1>3, <1>7
    <2> QED
        BY <2>2, <2>3, SearchAssumption
<1>10. Cardinality(newer(m)) <= Cardinality(InWindow(w)) /\ Cardinality(InWindow(w)) \in Nat
       /\ Cardinality(newer(m)) \in Nat
    <2>1. IsFiniteSet(InWindow(w))
        BY <1>2, <1>3, FS_Subset, InWindow(w) \subseteq all
    <2>2. IsFiniteSet(newer(m))
        BY <1>2, FS_Subset, newer(m) \subseteq all
    <2> HIDE DEF newer
    <2> QED
        BY <1>8, <2>1, <2>2, FS_Subset, FS_CardinalityType
<1> QED
    BY <1>9, <1>10, SearchAssumption

\* cninfo lists the oldest announcements, up to some.
LEMMA ListedAre ==
    ASSUME InOrder(server)
    PROVE  \E n \in 0..Len(server) : Listed = 1..n /\ Cardinality(Listed) = n
<1>1. PICK len \in Nat : len = Len(server) /\ len <= MaxFilings /\ DOMAIN server = 1..len
    BY DEF InOrder
<1>2. Listed \subseteq 1..len /\ Listed \subseteq Ids
    BY <1>1, SearchAssumption DEF Listed, Ids
<1>3. \A n \in 0..len : Listed = 1..n => Cardinality(Listed) = n
    <2> TAKE n \in 0..len
    <2>1. Cardinality(1..n) = IF 1 > n THEN 0 ELSE n - 1 + 1
        BY FS_Interval
    <2> QED
        BY <2>1
<1>4. CASE Listed = {}
    <2>1. Listed = 1..0 /\ 0 \in 0..len
        BY <1>4
    <2> QED
        BY <1>1, <1>3, <2>1
<1>5. CASE Listed # {}
    <2>1. PICK n \in Listed : \A j \in Listed : j <= n
        BY <1>2, <1>5, SomeIdIsGreatest
    <2>2. n \in 1..len /\ n \in 0..len
        BY <1>2, <2>1
    <2>3. ASSUME NEW i \in 1..n PROVE i \in Listed
        <3>1. i \in 1..len /\ server[i].time <= server[n].time
            BY <1>1, <2>2, <2>3 DEF InOrder
        <3>2. server[i].time \in Int /\ server[n].time \in Int
            <4>1. server[i] \in Rows /\ server[n] \in Rows
                BY <1>1, <2>2, <3>1 DEF InOrder
            <4> QED
                BY <4>1 DEF Rows, Announcements, Times
        <3>3. windowed => server[n].time <= Cutoff
            BY <2>1 DEF Listed
        <3>4. Cutoff \in Int
            BY SearchAssumption DEF Times
        <3> QED
            BY <1>1, <3>1, <3>2, <3>3, <3>4 DEF Listed
    <2>4. Listed \subseteq 1..n
        <3> SUFFICES ASSUME NEW j \in Listed PROVE j \in 1..n
            OBVIOUS
        <3>1. j \in 1..len /\ j <= n
            BY <1>2, <2>1
        <3> QED
            BY <2>2, <3>1
    <2>5. Listed = 1..n
        BY <2>3, <2>4, Zenon
    <2> QED
        BY <1>1, <1>3, <2>2, <2>5
<1> QED
    BY <1>4, <1>5

\* What the exchange answers.
LEMMA AnswerIs ==
    ASSUME InOrder(server), exchange \in Exchanges, NEW q \in Queries,
           exchange = "HK" => q \in Windows
    PROVE  /\ Answer(q) \in Answers /\ Answer(q).query = q /\ Answer(q).made = Len(server)
           /\ Faithful(Answer(q), server, exchange, windowed)
<1>1. PICK n \in Nat : n = Len(server) /\ n <= MaxFilings /\ DOMAIN server = 1..n
    BY DEF InOrder
<1>2. PICK listed \in 0..n : Listed = 1..listed /\ Cardinality(Listed) = listed
    BY <1>1, ListedAre
<1>3. PICK ids \in SUBSET (1..n) : ids = IF exchange = "CN" THEN OnPage(q) ELSE InWindow(q)
    BY <1>1 DEF OnPage, InWindow, Listed
<1>4. PICK total \in 0..n : total = IF exchange = "CN" THEN listed ELSE 0
    BY <1>2
<1>5. PICK rows : rows = [i \in ids |-> server[i]]
    OBVIOUS
<1>6. Answer(q) = [query |-> q, made |-> n, total |-> total, rows |-> rows]
    BY <1>1, <1>2, <1>3, <1>4, <1>5 DEF Answer
<1>7. ids \in SUBSET Ids
    BY <1>1, SearchAssumption DEF Ids
<1>8. rows \in [ids -> Rows]
    BY <1>1, <1>5 DEF InOrder
<1>9. Answer(q) \in Answers
    BY <1>6, <1>7, <1>8 DEF Answers
<1>10. PICK a : a = Answer(q)
    OBVIOUS
<1>11. a.query = q /\ a.made = n /\ a.total = total /\ a.rows = rows /\ DOMAIN rows = ids
    BY <1>5, <1>6, <1>10
<1>12. ASSUME exchange = "CN"
       PROVE  /\ ids \subseteq 1..total
              /\ {i \in 1..n : windowed => server[i].time <= Cutoff} = 1..total
    <2>1. ids \subseteq Listed /\ Listed = {i \in 1..n : windowed => server[i].time <= Cutoff}
        BY <1>1, <1>3, <1>12 DEF OnPage, Listed
    <2> QED
        BY <1>2, <1>4, <1>12, <2>1
<1>13. ASSUME exchange = "HK", Cardinality(ids) < RowRange
       PROVE  \A i \in 1..n : server[i].time \in q.from..q.to => i \in ids
    BY <1>1, <1>3, <1>13, NotFullIsWhole
<1>14. \A i \in DOMAIN rows : rows[i].time = server[i].time
    BY <1>5
<1>15. Faithful(a, server, exchange, windowed)
    BY <1>1, <1>11, <1>12, <1>13, <1>14 DEF Faithful
<1> QED
    BY <1>1, <1>9, <1>10, <1>11, <1>15

\* One more answer, and what there was before it.
LEMMA OneMoreAnswer ==
    ASSUME NEW s \in Seq(Answers), NEW a \in Answers
    PROVE  /\ Append(s, a) \in Seq(Answers) /\ DOMAIN s = 1..Len(s) /\ Len(s) \in Nat
           /\ DOMAIN Append(s, a) = DOMAIN s \cup {Len(s) + 1} /\ Len(s) + 1 \notin DOMAIN s
           /\ \A k \in DOMAIN s : Append(s, a)[k] = s[k]
           /\ Append(s, a)[Len(s) + 1] = a
<1>1. PICK n \in Nat : n = Len(s) /\ DOMAIN s = 1..n
    OBVIOUS
<1>2. Append(s, a) \in Seq(Answers) /\ Len(Append(s, a)) = n + 1
    BY <1>1
<1>3. \A k \in 1..n : Append(s, a)[k] = s[k]
    BY <1>1
<1>4. Append(s, a)[n + 1] = a
    BY <1>1
<1>5. 1..(n + 1) = 1..n \cup {n + 1} /\ n + 1 \notin 1..n
    OBVIOUS
<1> QED
    BY <1>1, <1>2, <1>3, <1>4, <1>5

LEMMA IdsGrow ==
    ASSUME NEW s \in Seq(Answers), NEW a \in Answers
    PROVE  IdsIn(Append(s, a)) = IdsIn(s) \cup (IF Full(a) THEN {} ELSE DOMAIN a.rows)
<1>1. PICK t, last : t = Append(s, a) /\ last = Len(s) + 1
    OBVIOUS
<1>2. /\ DOMAIN t = DOMAIN s \cup {last} /\ last \notin DOMAIN s
      /\ \A k \in DOMAIN s : t[k] = s[k]
      /\ t[last] = a
    BY <1>1, OneMoreAnswer
<1>3. Whole(t) = Whole(s) \cup (IF Full(a) THEN {} ELSE {last}) /\ Whole(s) \subseteq DOMAIN s
    BY <1>2 DEF Whole
<1>4. \A i : i \in IdsIn(t) <=> \E k \in Whole(t) : i \in DOMAIN t[k].rows
    BY DEF IdsIn
<1>5. \A i : i \in IdsIn(s) <=> \E k \in Whole(s) : i \in DOMAIN s[k].rows
    BY DEF IdsIn
<1>6. \A i : i \in IdsIn(t) <=> i \in IdsIn(s) \cup (IF Full(a) THEN {} ELSE DOMAIN a.rows)
    BY <1>2, <1>3, <1>4, <1>5
<1> QED
    BY <1>1, <1>6

\* A record is a row of one of the answers.
LEMMA RecordsAre ==
    ASSUME ReadInv, NEW i \in IdsIn(asked)
    PROVE  /\ i \in Ids /\ i \in 1..Len(server)
           /\ Records(asked)[i] \in Rows /\ Records(asked)[i].time = server[i].time
<1> DEFINE holding == {k \in Whole(asked) : i \in DOMAIN asked[k].rows}
<1>1. holding \in SUBSET Nat /\ holding # {} /\ holding \subseteq DOMAIN asked
    <2>1. Whole(asked) \subseteq DOMAIN asked /\ DOMAIN asked \subseteq Nat
        BY DEF Whole, ReadInv, Given
    <2> QED
        BY <2>1 DEF IdsIn
<1>2. PICK k \in holding : \A j \in holding : k <= j
    BY <1>1, SomeNumberIsLeast
<1> DEFINE first == CHOOSE c \in Whole(asked) :
                        /\ i \in DOMAIN asked[c].rows
                        /\ \A j \in Whole(asked) : i \in DOMAIN asked[j].rows => c <= j
<1>3. first \in holding
    <2>1. \E c \in Whole(asked) :
              /\ i \in DOMAIN asked[c].rows
              /\ \A j \in Whole(asked) : i \in DOMAIN asked[j].rows => c <= j
        BY <1>2
    <2> QED
        BY <2>1
<1>4. Records(asked)[i] = asked[first].rows[i]
    BY DEF Records
<1> HIDE DEF first
<1>5. /\ asked[first] \in Answers /\ Faithful(asked[first], server, exchange, windowed)
      /\ i \in DOMAIN asked[first].rows
    BY <1>1, <1>3 DEF ReadInv, Given
<1>6. Len(server) \in Nat /\ asked[first].made \in Nat /\ Len(server) <= MaxFilings
    BY <1>5 DEF ReadInv, InOrder, Answers
<1>7. asked[first].rows[i] \in Rows
    BY <1>5 DEF Answers
<1> QED
    BY <1>4, <1>5, <1>6, <1>7, SearchAssumption DEF Faithful, Ids

LEMMA QueryIsCatalogue ==
    ASSUME ReadInv
    PROVE  Catalogue(Query) /\ DOMAIN Records(asked) = IdsIn(asked)
<1>1. DOMAIN Records(asked) = IdsIn(asked)
    BY DEF Records
<1>2. PICK rows : rows = Records(asked) /\ DOMAIN rows = IdsIn(asked)
    BY <1>1
<1>3. Query.cat = rows
    BY <1>2 DEF Query
<1>4. \A i \in DOMAIN rows : /\ i \in Ids /\ i \in 1..Len(server)
                             /\ rows[i] \in Rows /\ rows[i].time = server[i].time
    BY <1>2, RecordsAre
<1>5. \A a \in Rows : a.time \in Nat /\ (a.years = {} \/ \E y : a.years = {y})
    <2>1. \A a \in Rows : /\ a \in Announcements(Ids, Times, Years)
                          /\ a.years = {} \/ \E y : a.years = {y}
        BY DEF Rows
    <2>2. \A a \in Announcements(Ids, Times, Years) : a.time \in Nat
        BY SearchAssumption DEF Announcements, Times
    <2> QED
        BY <2>1, <2>2
<1>6. \A i, j \in DOMAIN rows : i <= j => rows[i].time <= rows[j].time
    BY <1>4 DEF ReadInv, InOrder
<1> QED
    BY <1>1, <1>2, <1>3, <1>4, <1>5, <1>6 DEF Catalogue

\* Answers with the same bodies give the same records.
LEMMA SameBodies ==
    ASSUME NEW s \in Seq(Answers), NEW t \in Seq(Answers), BodiesOf(s) = BodiesOf(t)
    PROVE  /\ DOMAIN s = DOMAIN t /\ \A k \in DOMAIN s : s[k].total = t[k].total
           /\ Whole(s) = Whole(t) /\ IdsIn(s) = IdsIn(t) /\ Records(s) = Records(t)
<1>1. DOMAIN s = DOMAIN t
    <2>1. DOMAIN BodiesOf(s) = DOMAIN s /\ DOMAIN BodiesOf(t) = DOMAIN t
        BY DEF BodiesOf
    <2> QED
        BY <2>1
<1>2. \A k \in DOMAIN s : s[k].total = t[k].total /\ s[k].rows = t[k].rows
    <2> TAKE k \in DOMAIN s
    <2>1. /\ BodiesOf(s)[k] = [total |-> s[k].total, rows |-> s[k].rows]
          /\ BodiesOf(t)[k] = [total |-> t[k].total, rows |-> t[k].rows]
        BY <1>1 DEF BodiesOf
    <2>2. BodiesOf(s)[k] = BodiesOf(t)[k]
        OBVIOUS
    <2>3. [total |-> s[k].total, rows |-> s[k].rows] = [total |-> t[k].total, rows |-> t[k].rows]
        BY <2>1, <2>2
    <2> QED
        BY <2>3
<1>3. Whole(s) = Whole(t)
    BY <1>1, <1>2 DEF Whole, Full
<1>4. \A i : i \in IdsIn(s) <=> \E k \in Whole(s) : i \in DOMAIN s[k].rows
    BY DEF IdsIn
<1>5. \A i : i \in IdsIn(t) <=> \E k \in Whole(t) : i \in DOMAIN t[k].rows
    BY DEF IdsIn
<1>6. Whole(s) \subseteq DOMAIN s /\ DOMAIN s \subseteq Nat
    BY DEF Whole
<1>7. IdsIn(s) = IdsIn(t)
    <2>1. \A i : i \in IdsIn(s) <=> i \in IdsIn(t)
        BY <1>2, <1>3, <1>4, <1>5, <1>6
    <2> QED
        BY <2>1
<1>8. ASSUME NEW i \in IdsIn(s) PROVE Records(s)[i] = Records(t)[i]
    <2> DEFINE holding == {k \in Whole(s) : i \in DOMAIN s[k].rows}
               ones == CHOOSE c \in Whole(s) :
                           /\ i \in DOMAIN s[c].rows
                           /\ \A j \in Whole(s) : i \in DOMAIN s[j].rows => c <= j
               onet == CHOOSE c \in Whole(t) :
                           /\ i \in DOMAIN t[c].rows
                           /\ \A j \in Whole(t) : i \in DOMAIN t[j].rows => c <= j
    <2>1. holding \in SUBSET Nat /\ holding # {} /\ holding \subseteq DOMAIN s
        BY <1>4, <1>6
    <2>2. PICK k \in holding : \A j \in holding : k <= j
        BY <2>1, SomeNumberIsLeast
    <2>3. ones \in holding /\ \A j \in holding : ones <= j
        <3>1. \E c \in Whole(s) : /\ i \in DOMAIN s[c].rows
                                 /\ \A j \in Whole(s) : i \in DOMAIN s[j].rows => c <= j
            BY <2>2
        <3> QED
            BY <3>1
    <2>4. onet \in holding /\ \A j \in holding : onet <= j
        <3>1. \A j \in Whole(s) : i \in DOMAIN t[j].rows <=> i \in DOMAIN s[j].rows
            BY <1>2, <1>6
        <3>2. \E c \in Whole(t) : /\ i \in DOMAIN t[c].rows
                                 /\ \A j \in Whole(t) : i \in DOMAIN t[j].rows => c <= j
            BY <1>3, <2>2, <3>1
        <3>3. /\ onet \in Whole(t) /\ i \in DOMAIN t[onet].rows
              /\ \A j \in Whole(t) : i \in DOMAIN t[j].rows => onet <= j
            BY <3>2
        <3> HIDE DEF onet
        <3> QED
            BY <1>3, <3>1, <3>3
    <2>5. Records(s)[i] = s[ones].rows[i]
        BY DEF Records
    <2>6. Records(t)[i] = t[onet].rows[i]
        BY <1>7 DEF Records
    <2> HIDE DEF ones, onet
    <2>7. ones = onet /\ ones \in DOMAIN s
        BY <2>1, <2>3, <2>4
    <2> QED
        BY <1>2, <2>5, <2>6, <2>7
<1>9. Records(s) = Records(t)
    <2>1. Records(s) = [i \in IdsIn(s) |-> Records(s)[i]]
        BY DEF Records
    <2>2. Records(t) = [i \in IdsIn(s) |-> Records(t)[i]]
        BY <1>7 DEF Records
    <2>3. [i \in IdsIn(s) |-> Records(s)[i]] = [i \in IdsIn(s) |-> Records(t)[i]]
        BY <1>8
    <2> QED
        BY <2>1, <2>2, <2>3
<1> QED
    BY <1>1, <1>2, <1>3, <1>7, <1>9

\* What has been read is read the same in the next state.
LEMMA ReadAs ==
    ASSUME exchange' = exchange, NEW s
    PROVE  /\ asked' = s => IdsIn(asked)' = IdsIn(s) /\ Records(asked)' = Records(s)
           /\ again' = s => Records(again)' = Records(s)
<1>1. ASSUME asked' = s PROVE IdsIn(asked)' = IdsIn(s) /\ Records(asked)' = Records(s)
    BY <1>1 DEF IdsIn, Records, Whole, Full
<1>2. ASSUME again' = s PROVE Records(again)' = Records(s)
    BY <1>2 DEF IdsIn, Records, Whole, Full
<1> QED
    BY <1>1, <1>2

-----------------------------------------------------------------------------
LEMMA InitiallyNothingRead == SearchInit => ReadInv
<1> SUFFICES ASSUME SearchInit PROVE ReadInv
    OBVIOUS
<1>1. <<>> \in Seq(Rows) /\ Len(<<>>) = 0 /\ <<>> \in Seq(Queries) /\ <<>> \in Seq(Windows)
      /\ <<>> \in Seq(Int) /\ <<>> \in Seq(Answers) /\ DOMAIN <<>> = {}
    OBVIOUS
<1> QED
    BY <1>1, SearchAssumption DEF SearchInit, ReadInv, Given, InOrder

\* What a step of the search asks next.
LEMMA NextQueries ==
    ASSUME ReadInv, [SearchNext]_searchVars
    PROVE  /\ todo' \in Seq(Queries) /\ (exchange = "HK" => todo' \in Seq(Windows))
           /\ (exchange = "CN" => todo' \in Seq(Int)) /\ (stage' = "reading" => todo' # <<>>)
           /\ exchange' = exchange
<1> DEFINE Goal == /\ todo' \in Seq(Queries) /\ (exchange = "HK" => todo' \in Seq(Windows))
                   /\ (exchange = "CN" => todo' \in Seq(Int))
                   /\ (stage' = "reading" => todo' # <<>>) /\ exchange' = exchange
<1>1. ASSUME Begin PROVE Goal
    <2>1. Window \in Windows
        BY SearchAssumption DEF Window, Windows, Times
    <2>2. CASE exchange = "CN"
        <3>1. <<1>> \in Seq(Int) /\ <<1>> \in Seq(Queries) /\ <<1>> # <<>>
            BY DEF Queries
        <3> QED
            BY <1>1, <2>2, <3>1 DEF Begin
    <2>3. CASE exchange = "HK"
        <3>1. <<Window>> \in Seq(Windows) /\ <<Window>> \in Seq(Queries) /\ <<Window>> # <<>>
            BY <2>1 DEF Queries
        <3> QED
            BY <1>1, <2>3, <3>1 DEF Begin
    <2> QED
        BY <2>2, <2>3 DEF ReadInv, Exchanges
<1>2. ASSUME ReadPage PROVE Goal
    <2>1. /\ exchange = "CN" /\ todo \in Seq(Int) /\ todo # <<>> /\ exchange' = exchange
          /\ \/ todo' = <<>> /\ stage' # "reading"
             \/ todo' = <<Head(todo) + 1>>
        BY <1>2 DEF ReadPage, ReadInv
    <2>2. PICK n \in Int : n = Head(todo) + 1
        BY <2>1
    <2>3. /\ <<n>> \in Seq(Int) /\ <<n>> \in Seq(Queries) /\ <<n>> # <<>>
          /\ <<>> \in Seq(Int) /\ <<>> \in Seq(Queries)
        BY DEF Queries
    <2> QED
        BY <2>1, <2>2, <2>3
<1>3. ASSUME ReadWindow PROVE Goal
    <2> DEFINE w == Head(todo)
               halves == Halves(w) \o Tail(todo)
    <2>1. exchange = "HK" /\ todo \in Seq(Windows) /\ todo # <<>> /\ exchange' = exchange
        BY <1>3 DEF ReadWindow, ReadInv
    <2>2. w \in Windows /\ Tail(todo) \in Seq(Windows)
        BY <2>1
    <2>3. halves \in Seq(Windows)
        <3>1. PICK from \in Int, to \in Int : w.from = from /\ w.to = to
            BY <2>2 DEF Windows
        <3>2. PICK mid \in Int : mid = from + ((to - from) \div 2)
            OBVIOUS
        <3>3. PICK one \in Windows, two \in Windows : Halves(w) = <<one, two>>
            <4>1. /\ [from |-> from, to |-> mid] \in Windows
                  /\ [from |-> mid + 1, to |-> to] \in Windows
                BY DEF Windows
            <4>2. Halves(w) = <<[from |-> from, to |-> mid], [from |-> mid + 1, to |-> to]>>
                BY <3>1, <3>2 DEF Halves
            <4> QED
                BY <4>1, <4>2
        <3>4. <<one, two>> \in Seq(Windows)
            OBVIOUS
        <3> HIDE DEF w
        <3> QED
            BY <2>2, <3>3, <3>4
    <2>4. \/ todo' = <<>> /\ stage' # "reading"
          \/ todo' \in {halves, Tail(todo)} /\ (todo' = <<>> => stage' = "classify")
        BY <1>3 DEF ReadWindow
    <2> HIDE DEF halves, w
    <2>5. todo' \in Seq(Windows) /\ todo' \in Seq(Queries)
        <3>1. <<>> \in Seq(Windows) /\ Seq(Windows) \subseteq Seq(Queries)
            BY DEF Queries
        <3> QED
            BY <2>2, <2>3, <2>4, <3>1
    <2> QED
        BY <2>1, <2>4, <2>5
<1>4. ASSUME UNCHANGED <<todo, exchange>>, stage' = "reading" => stage = "reading" PROVE Goal
    BY <1>4 DEF ReadInv
<1>5. ASSUME \/ File \/ (\E i \in DOMAIN server : Withdraw(i)) \/ Classify \/ Write \/ PromoteRows
             \/ BeginRevalidation \/ Reask \/ Revalidate \/ UNCHANGED searchVars
      PROVE  UNCHANGED <<todo, exchange>> /\ (stage' = "reading" => stage = "reading")
    BY <1>5 DEF searchVars, File, Withdraw, Classify, Write, PromoteRows, BeginRevalidation,
                Reask, Revalidate
<1> HIDE DEF Goal
<1>6. Goal
    <2>1. \/ Begin \/ ReadPage \/ ReadWindow
          \/ UNCHANGED <<todo, exchange>> /\ (stage' = "reading" => stage = "reading")
        BY <1>5, Zenon DEF SearchNext
    <2> QED
        BY <1>1, <1>2, <1>3, <1>4, <2>1
<1> QED
    BY <1>6 DEF Goal

\* Answers stay what they are when the exchange goes on; one more may be added.
LEMMA StillGiven ==
    ASSUME ReadInv, [SearchNext]_searchVars,
           NEW s, Given(s, server, exchange, windowed)
    PROVE  Given(s, server', exchange', windowed')
<1>1. /\ Len(server) \in Nat /\ Len(server') \in Nat /\ Len(server) <= Len(server')
      /\ \A i \in 1..Len(server) : server'[i].time = server[i].time
    BY ServerGrows DEF ReadInv
<1>2. exchange' = exchange /\ windowed' = windowed
    BY DEF SearchNext, searchVars, File, Withdraw, Begin, ReadPage, ReadWindow, Classify, Write,
           PromoteRows, BeginRevalidation, Reask, Revalidate
<1>3. ASSUME NEW a \in Answers, Faithful(a, server, exchange, windowed)
      PROVE  Faithful(a, server', exchange, windowed)
    <2>1. a.made \in Nat /\ a.made <= Len(server) /\ DOMAIN a.rows \subseteq 1..a.made
        BY <1>3 DEF Faithful, Answers
    <2>2. \A i \in 1..a.made : server'[i].time = server[i].time
        BY <1>1, <2>1
    <2>3. {i \in 1..a.made : windowed => server'[i].time <= Cutoff}
          = {i \in 1..a.made : windowed => server[i].time <= Cutoff}
        BY <2>2
    <2> QED
        BY <1>1, <1>3, <2>1, <2>2, <2>3 DEF Faithful
<1> QED
    BY <1>2, <1>3 DEF Given

LEMMA OneMoreGiven ==
    ASSUME NEW s, NEW sv, NEW x, NEW win, Given(s, sv, x, win), Len(sv) \in Nat,
           NEW a \in Answers, Faithful(a, sv, x, win), a.made = Len(sv)
    PROVE  Given(Append(s, a), sv, x, win)
<1>1. s \in Seq(Answers)
    BY DEF Given
<1>2. PICK t, last : t = Append(s, a) /\ last = Len(s) + 1
    OBVIOUS
<1>3. /\ t \in Seq(Answers) /\ DOMAIN s = 1..Len(s) /\ Len(s) \in Nat
      /\ DOMAIN t = DOMAIN s \cup {last}
      /\ \A k \in DOMAIN s : t[k] = s[k]
      /\ t[last] = a
    BY <1>1, <1>2, OneMoreAnswer
<1>4. CASE s = <<>>
    <2>1. DOMAIN t = {1} /\ t[1] = a
        BY <1>2, <1>3, <1>4
    <2> QED
        BY <1>2, <1>3, <2>1 DEF Given, Answers
<1>5. CASE s # <<>>
    <2>1. 1 \in DOMAIN s /\ t[1] = s[1]
        BY <1>1, <1>3, <1>5
    <2>2. s[1].made <= a.made
        BY <2>1 DEF Given, Faithful
    <2>3. ASSUME NEW k \in DOMAIN t PROVE Faithful(t[k], sv, x, win) /\ t[1].made <= t[k].made
        <3>1. CASE k = last
            BY <1>3, <2>1, <2>2, <3>1
        <3>2. CASE k \in DOMAIN s
            BY <1>3, <2>1, <3>2 DEF Given
        <3> QED
            BY <1>3, <3>1, <3>2
    <2> QED
        BY <1>2, <1>3, <2>3 DEF Given
<1> QED
    BY <1>4, <1>5

LEMMA ReadStays == ReadInv /\ [SearchNext]_searchVars => ReadInv'
<1> SUFFICES ASSUME ReadInv, [SearchNext]_searchVars PROVE ReadInv'
    OBVIOUS
<1>1. InOrder(server') /\ exchange' \in Exchanges /\ Len(server) \in Nat
    BY ServerGrows, NextQueries DEF ReadInv
<1>2. /\ Given(asked, server', exchange', windowed') /\ Given(again, server', exchange', windowed')
      /\ asked \in Seq(Answers) /\ again \in Seq(Answers)
    BY StillGiven DEF ReadInv, Given
<1>3. ASSUME ReadPage \/ ReadWindow
      PROVE  /\ Given(asked, server, exchange, windowed)'
             /\ again = <<>> /\ again' = again
    <2>1. /\ stage = "reading" /\ asked' = Append(asked, Answer(Head(todo)))
          /\ UNCHANGED <<server, exchange, windowed, again>>
        BY <1>3 DEF ReadPage, ReadWindow
    <2>2. PICK q \in Queries : q = Head(todo) /\ (exchange = "HK" => q \in Windows)
        BY <2>1 DEF ReadInv
    <2>3. PICK a \in Answers :
              a = Answer(q) /\ Faithful(a, server, exchange, windowed) /\ a.made = Len(server)
        BY <2>2, AnswerIs DEF ReadInv
    <2>4. Given(Append(asked, a), server, exchange, windowed)
        BY <1>1, <2>3, OneMoreGiven DEF ReadInv
    <2> QED
        BY <2>1, <2>2, <2>3, <2>4 DEF ReadInv
<1>4. ASSUME Reask
      PROVE  /\ Given(again, server, exchange, windowed)' /\ asked' = asked /\ stage' = "recheck"
             /\ \A k \in DOMAIN again' : k \in DOMAIN asked /\ again'[k].query = asked[k].query
    <2> DEFINE last == Len(again) + 1
    <2>1. /\ stage = "recheck" /\ Len(again) < Len(asked)
          /\ again' = Append(again, Answer(asked[last].query))
          /\ UNCHANGED <<server, exchange, windowed, stage, asked>>
        BY <1>4 DEF Reask
    <2>2. last \in DOMAIN asked
        BY <1>2, <2>1
    <2>3. asked[last] \in Answers /\ Faithful(asked[last], server, exchange, windowed)
        BY <2>2 DEF ReadInv, Given
    <2> HIDE DEF last
    <2>4. PICK q \in Queries : q = asked[last].query /\ (exchange = "HK" => q \in Windows)
        BY <2>3 DEF Answers, Faithful
    <2>5. PICK a \in Answers : /\ a = Answer(q) /\ Faithful(a, server, exchange, windowed)
                               /\ a.made = Len(server) /\ a.query = q
        BY <2>4, AnswerIs DEF ReadInv
    <2>6. Given(Append(again, a), server, exchange, windowed)
        BY <1>1, <2>5, OneMoreGiven DEF ReadInv
    <2>7. /\ DOMAIN again' = DOMAIN again \cup {last}
          /\ \A k \in DOMAIN again : again'[k] = again[k]
          /\ again'[last] = a
        BY <1>2, <2>1, <2>4, <2>5, OneMoreAnswer DEF last
    <2> QED
        BY <2>1, <2>2, <2>4, <2>5, <2>6, <2>7 DEF ReadInv
<1>5. ASSUME UNCHANGED <<asked, again>>,
             stage' \notin {"recheck", "differs", "revalidated"} => again = <<>>
      PROVE  ReadInv'
    BY <1>1, <1>2, <1>5, NextQueries DEF ReadInv
<1>6. ASSUME \/ File \/ (\E i \in DOMAIN server : Withdraw(i)) \/ Begin \/ Classify \/ Write
             \/ PromoteRows \/ BeginRevalidation \/ Revalidate \/ UNCHANGED searchVars
      PROVE  /\ UNCHANGED <<asked, again>>
             /\ stage' \notin {"recheck", "differs", "revalidated"} => again = <<>>
    BY <1>6 DEF ReadInv, searchVars, File, Withdraw, Begin, Classify, Write, PromoteRows,
                BeginRevalidation, Revalidate
<1>7. CASE ReadPage \/ ReadWindow
    BY <1>1, <1>2, <1>3, <1>7, NextQueries DEF ReadInv
<1>8. CASE Reask
    BY <1>1, <1>2, <1>4, <1>8, NextQueries DEF ReadInv
<1> QED
    BY <1>5, <1>6, <1>7, <1>8, Zenon DEF SearchNext

-----------------------------------------------------------------------------
\* Nothing is missed.  The pages of one total that hold as many announcements as it
\* says hold all of them.  A day of HKEX is in a window whose answer was not cut off,
\* or in a window that is still to be asked for.

Done == {"classify", "selected", "written", "promoted", "rejected", "recheck", "differs",
         "revalidated"}

Waiting(windows, t) == \E k \in 1..Len(windows) : t \in windows[k].from..windows[k].to

Covered(answers, t) ==
    \E k \in Whole(answers) : t \in answers[k].query.from..answers[k].query.to

WholeInv ==
    /\ stage \in Done \cup {"new", "reading", "refused"}
    /\ (stage = "new" => asked = <<>>) /\ (stage \in Done => asked # <<>>)
    /\ exchange = "CN" /\ stage # "refused" =>
          /\ \A k \in DOMAIN asked : asked[k].total = asked[1].total
          /\ stage \in Done => Cardinality(IdsIn(asked)) = asked[1].total
    /\ exchange = "HK" /\ stage \in Done \cup {"reading"} =>
          /\ stage \in Done => todo = <<>>
          /\ \A t \in 1..Cutoff : Covered(asked, t) \/ Waiting(todo, t)

LEMMA FirstWaits ==
    ASSUME NEW s \in Seq(Windows), s # <<>>, NEW t, Waiting(s, t)
    PROVE  t \in Head(s).from..Head(s).to \/ Waiting(Tail(s), t)
<1>1. PICK n \in Nat : n = Len(s) /\ Len(Tail(s)) = n - 1 /\ n >= 1
    BY EmptySeq
<1>2. PICK k \in 1..n : t \in s[k].from..s[k].to
    BY <1>1 DEF Waiting
<1>3. CASE k = 1
    BY <1>2, <1>3
<1>4. CASE k # 1
    <2>1. k - 1 \in 1..(n - 1) /\ Tail(s)[k - 1] = s[k]
        BY <1>1, <1>4
    <2> QED
        BY <1>1, <1>2, <2>1 DEF Waiting
<1> QED
    BY <1>3, <1>4

LEMMA HalvesWait ==
    ASSUME NEW w \in Windows, w.from < w.to, NEW rest \in Seq(Windows), NEW t \in Int,
           t \in w.from..w.to \/ Waiting(rest, t)
    PROVE  Waiting(Halves(w) \o rest, t)
<1>1. PICK from \in Int, to \in Int : w.from = from /\ w.to = to
    BY DEF Windows
<1>2. PICK mid \in Int : mid = from + ((to - from) \div 2)
    OBVIOUS
<1>3. PICK one \in Windows, two \in Windows :
          /\ Halves(w) = <<one, two>>
          /\ one.from = from /\ one.to = mid /\ two.from = mid + 1 /\ two.to = to
    <2>1. /\ [from |-> from, to |-> mid] \in Windows
          /\ [from |-> mid + 1, to |-> to] \in Windows
        BY DEF Windows
    <2>2. Halves(w) = <<[from |-> from, to |-> mid], [from |-> mid + 1, to |-> to]>>
        BY <1>1, <1>2 DEF Halves
    <2> QED
        BY <2>1, <2>2
<1>4. PICK n \in Nat : n = Len(rest)
    OBVIOUS
<1>5. PICK s : s = <<one, two>> \o rest
    OBVIOUS
<1>6. /\ Len(s) = n + 2 /\ s[1] = one /\ s[2] = two
      /\ \A k \in 1..n : s[k + 2] = rest[k]
    BY <1>4, <1>5
<1>7. CASE t \in w.from..w.to
    <2>1. t \in one.from..one.to \/ t \in two.from..two.to
        BY <1>1, <1>3, <1>7
    <2>2. 1 \in 1..(n + 2) /\ 2 \in 1..(n + 2)
        OBVIOUS
    <2> QED
        BY <1>3, <1>5, <1>6, <2>1, <2>2 DEF Waiting
<1>8. CASE Waiting(rest, t)
    <2>1. PICK k \in 1..n : t \in rest[k].from..rest[k].to
        BY <1>4, <1>8 DEF Waiting
    <2>2. k + 2 \in 1..(n + 2)
        OBVIOUS
    <2> QED
        BY <1>3, <1>5, <1>6, <2>1, <2>2 DEF Waiting
<1> QED
    BY <1>7, <1>8

LEMMA IdsAreFinite ==
    ASSUME ReadInv
    PROVE  IsFiniteSet(IdsIn(asked)) /\ Cardinality(IdsIn(asked)) \in Nat
<1>1. IdsIn(asked) \subseteq Ids
    BY RecordsAre
<1>2. IsFiniteSet(Ids)
    BY FS_Interval, SearchAssumption DEF Ids
<1> QED
    BY <1>1, <1>2, FS_Subset, FS_CardinalityType

LEMMA PagesStayWhole ==
    ASSUME ReadInv, WholeInv, ReadPage
    PROVE  WholeInv'
<1>1. exchange = "CN" /\ exchange' = "CN" /\ stage = "reading" /\ todo # <<>>
    BY DEF ReadPage, ReadInv
<1>2. PICK a \in Answers : a = Answer(Head(todo))
    <2>1. Head(todo) \in Queries
        BY <1>1 DEF ReadInv
    <2> QED
        BY <1>1, <2>1, AnswerIs DEF ReadInv
<1>3. asked' = Append(asked, a) /\ asked \in Seq(Answers)
    BY <1>2 DEF ReadPage, ReadInv, Given
<1>4. CASE Faulty(a)
    BY <1>1, <1>2, <1>4, <1>3 DEF ReadPage, WholeInv, Done
<1>5. CASE ~Faulty(a)
    <2>1. asked # <<>> => a.total = asked[1].total
        BY <1>5 DEF Faulty
    <2>2. /\ DOMAIN asked' = DOMAIN asked \cup {Len(asked) + 1}
          /\ \A k \in DOMAIN asked : asked'[k] = asked[k]
          /\ asked'[Len(asked) + 1] = a /\ asked' # <<>>
        BY <1>3, OneMoreAnswer
    <2>3. asked'[1].total = a.total
        <3>1. CASE asked = <<>>
            BY <1>3, <3>1
        <3>2. CASE asked # <<>>
            <4>1. 1 \in DOMAIN asked
                BY <1>3, <3>2
            <4> QED
                BY <2>1, <2>2, <3>2, <4>1
        <3> QED
            BY <3>1, <3>2
    <2>4. \A k \in DOMAIN asked' : asked'[k].total = asked'[1].total
        <3> SUFFICES ASSUME NEW k \in DOMAIN asked' PROVE asked'[k].total = a.total
            BY <2>3
        <3>1. CASE k \in DOMAIN asked
            <4>1. asked # <<>> /\ asked[k].total = asked[1].total
                BY <1>1, <3>1 DEF WholeInv
            <4> QED
                BY <2>1, <2>2, <3>1, <4>1
        <3> QED
            BY <2>2, <3>1
    <2>5. Cardinality(IdsIn(asked)') = Cardinality(IdsIn(asked)) + Cardinality(DOMAIN a.rows)
        <3>1. IdsIn(asked)' = IdsIn(asked) \cup DOMAIN a.rows
            <4>1. ~Full(a)
                BY <1>1 DEF Full
            <4>2. IdsIn(asked)' = IdsIn(Append(asked, a))
                BY <1>1, <1>3, ReadAs
            <4> QED
                BY <1>3, <4>1, <4>2, IdsGrow
        <3>2. IdsIn(asked) \cap DOMAIN a.rows = {}
            BY <1>5 DEF Faulty
        <3>3. IsFiniteSet(IdsIn(asked)) /\ Cardinality(IdsIn(asked)) \in Nat
            BY IdsAreFinite
        <3>4. IsFiniteSet(DOMAIN a.rows) /\ Cardinality(DOMAIN a.rows) \in Nat
            <4>1. DOMAIN a.rows \subseteq Ids
                BY <1>2 DEF Answers
            <4>2. IsFiniteSet(Ids)
                BY FS_Interval, SearchAssumption DEF Ids
            <4> QED
                BY <4>1, <4>2, FS_Subset, FS_CardinalityType
        <3>5. Cardinality(IdsIn(asked) \cup DOMAIN a.rows)
              = Cardinality(IdsIn(asked)) + Cardinality(DOMAIN a.rows)
                - Cardinality(IdsIn(asked) \cap DOMAIN a.rows)
            BY <3>3, <3>4, FS_Union
        <3>6. Cardinality(IdsIn(asked) \cap DOMAIN a.rows) = 0
            BY <3>2, FS_EmptySet
        <3>7. PICK m \in Nat, n \in Nat :
                  m = Cardinality(IdsIn(asked)) /\ n = Cardinality(DOMAIN a.rows)
            BY <3>3, <3>4
        <3>8. Cardinality(IdsIn(asked) \cup DOMAIN a.rows) = m + n
            BY <3>5, <3>6, <3>7
        <3> QED
            BY <3>1, <3>7, <3>8
    <2>6. stage' \in {"reading", "classify"}
          /\ (stage' = "classify" =>
                Cardinality(IdsIn(asked)) + Cardinality(DOMAIN a.rows) = a.total)
        <3>1. \/ Faulty(a) /\ stage' = "refused"
              \/ /\ Cardinality(IdsIn(asked)) + Cardinality(DOMAIN a.rows) = a.total
                 /\ stage' = "classify"
              \/ stage' = stage
            BY <1>2, Zenon DEF ReadPage
        <3> QED
            BY <1>1, <1>5, <3>1
    <2>7. stage' = "classify" => Cardinality(IdsIn(asked)') = asked'[1].total
        BY <2>3, <2>5, <2>6
    <2> QED
        BY <1>1, <2>2, <2>4, <2>6, <2>7 DEF WholeInv, Done
<1> QED
    BY <1>4, <1>5

LEMMA WindowsStayWhole ==
    ASSUME ReadInv, WholeInv, ReadWindow
    PROVE  WholeInv'
<1>1. exchange = "HK" /\ exchange' = "HK" /\ stage = "reading" /\ todo # <<>>
      /\ todo \in Seq(Windows) /\ asked \in Seq(Answers)
    BY DEF ReadWindow, ReadInv, Given
<1>2. PICK w \in Windows, rest \in Seq(Windows) : w = Head(todo) /\ rest = Tail(todo)
    <2>1. Head(todo) \in Windows /\ Tail(todo) \in Seq(Windows)
        BY <1>1
    <2> QED
        BY <2>1, Zenon
<1>3. PICK a \in Answers : a = Answer(w) /\ a.query = w
    <2>1. w \in Queries
        BY DEF Queries
    <2> QED
        BY <1>1, <2>1, AnswerIs DEF ReadInv
<1>4. asked' = Append(asked, a)
    BY <1>2, <1>3 DEF ReadWindow
<1>5. /\ DOMAIN asked' = DOMAIN asked \cup {Len(asked) + 1}
      /\ \A k \in DOMAIN asked : asked'[k] = asked[k]
      /\ asked'[Len(asked) + 1] = a /\ asked' # <<>>
    BY <1>1, <1>4, OneMoreAnswer
<1>6. CASE Full(a) /\ w.from >= w.to
    <2>1. stage' = "refused"
        BY <1>2, <1>3, <1>6 DEF ReadWindow
    <2> QED
        BY <2>1, <1>5 DEF WholeInv, Done
<1>7. CASE ~(Full(a) /\ w.from >= w.to)
    <2>1. /\ todo' = IF Full(a) THEN Halves(w) \o rest ELSE rest
          /\ stage' = IF todo' = <<>> THEN "classify" ELSE "reading"
        BY <1>1, <1>2, <1>3, <1>7 DEF ReadWindow
    <2>2. \A k \in DOMAIN asked' : (k \in Whole(asked)') <=> ~Full(asked'[k])
        BY <1>1 DEF Whole, Full
    <2>3. ASSUME NEW t \in 1..Cutoff PROVE Covered(asked, t)' \/ Waiting(todo', t)
        <3>1. t \in Int
            BY SearchAssumption DEF Times
        <3>2. Covered(asked, t) \/ Waiting(todo, t)
            BY <1>1, <2>3 DEF WholeInv
        <3>3. CASE Covered(asked, t)
            <4>1. PICK k \in DOMAIN asked :
                      ~Full(asked[k]) /\ t \in asked[k].query.from..asked[k].query.to
                BY <3>3 DEF Covered, Whole
            <4>2. k \in DOMAIN asked' /\ asked'[k] = asked[k]
                BY <1>5, <4>1
            <4> QED
                BY <2>2, <4>1, <4>2 DEF Covered
        <3>4. CASE Waiting(todo, t)
            <4>1. t \in w.from..w.to \/ Waiting(rest, t)
                BY <1>1, <1>2, <3>4, FirstWaits
            <4>2. CASE Full(a)
                <5>1. w.from < w.to
                    BY <1>7, <4>2 DEF Windows
                <5> QED
                    BY <2>1, <3>1, <4>1, <4>2, <5>1, HalvesWait
            <4>3. CASE ~Full(a)
                <5>1. Len(asked) + 1 \in Whole(asked)'
                    BY <1>5, <2>2, <4>3
                <5>2. t \in w.from..w.to => Covered(asked, t)'
                    BY <1>3, <1>5, <5>1 DEF Covered
                <5> QED
                    BY <2>1, <4>1, <4>3, <5>2
            <4> QED
                BY <4>2, <4>3
        <3> QED
            BY <3>2, <3>3, <3>4
    <2> QED
        BY <1>1, <1>5, <2>1, <2>3 DEF WholeInv, Done
<1> QED
    BY <1>6, <1>7

LEMMA WholeStays == ReadInv /\ WholeInv /\ [SearchNext]_searchVars => WholeInv'
<1> SUFFICES ASSUME ReadInv, WholeInv, [SearchNext]_searchVars PROVE WholeInv'
    OBVIOUS
<1>1. CASE Begin
    <2>1. asked = <<>> /\ asked' = asked /\ exchange' = exchange /\ stage' = "reading"
        BY <1>1 DEF Begin, WholeInv
    <2>2. exchange = "HK" => todo' = <<Window>>
        BY <1>1 DEF Begin
    <2>3. \A t \in 1..Cutoff : Waiting(<<Window>>, t)
        BY DEF Waiting, Window
    <2> QED
        BY <2>1, <2>2, <2>3 DEF WholeInv, Done
<1>2. ASSUME UNCHANGED <<asked, todo, exchange>>,
             stage' \in {stage, "refused"} \/ (stage \in Done /\ stage' \in Done)
      PROVE  WholeInv'
    <2>1. IdsIn(asked)' = IdsIn(asked) /\ \A t : Covered(asked, t)' <=> Covered(asked, t)
        BY <1>2, ReadAs DEF Covered, Whole, Full
    <2> QED
        BY <1>2, <2>1 DEF WholeInv, Done
<1>3. ASSUME \/ File \/ (\E i \in DOMAIN server : Withdraw(i)) \/ Classify \/ Write \/ PromoteRows
             \/ BeginRevalidation \/ Reask \/ Revalidate \/ UNCHANGED searchVars
      PROVE  /\ UNCHANGED <<asked, todo, exchange>>
             /\ stage' \in {stage, "refused"} \/ (stage \in Done /\ stage' \in Done)
    BY <1>3 DEF searchVars, File, Withdraw, Classify, Write, PromoteRows, BeginRevalidation,
                Reask, Revalidate, Done
<1>4. \/ Begin \/ ReadPage \/ ReadWindow
      \/ /\ UNCHANGED <<asked, todo, exchange>>
         /\ stage' \in {stage, "refused"} \/ (stage \in Done /\ stage' \in Done)
    BY <1>3, Zenon DEF SearchNext
<1> QED
    BY <1>1, <1>2, <1>4, PagesStayWhole, WindowsStayWhole

LEMMA InitiallyWhole == SearchInit => WholeInv
<1>1. DOMAIN <<>> = {}
    OBVIOUS
<1> QED
    BY <1>1 DEF SearchInit, WholeInv, Done

\* Answers that cover all days hold every announcement made before the first of them.
LEMMA CoveredIsWhole ==
    ASSUME ReadInv, exchange = "HK", NEW s, Given(s, server, exchange, windowed),
           \A t \in 1..Cutoff : Covered(s, t), s # <<>>,
           NEW i \in 1..s[1].made, server[i].time <= Cutoff
    PROVE  i \in IdsIn(s)
<1>1. /\ 1 \in DOMAIN s
      /\ \A k \in DOMAIN s : /\ s[k] \in Answers /\ Faithful(s[k], server, exchange, windowed)
                            /\ s[1].made <= s[k].made
    BY DEF Given
<1>2. s[1].made \in Nat /\ s[1].made <= Len(server) /\ Len(server) \in Nat
    BY <1>1 DEF Answers, Faithful, ReadInv, InOrder
<1>3. server[i] \in Rows
    BY <1>2 DEF ReadInv, InOrder
<1>4. PICK t : t = server[i].time /\ t \in 1..Cutoff
    BY <1>3, SearchAssumption DEF Rows, Announcements, Times
<1>5. PICK k \in DOMAIN s : ~Full(s[k]) /\ t \in s[k].query.from..s[k].query.to
    BY <1>4 DEF Covered, Whole
<1>6. PICK a \in Answers : a = s[k] /\ Faithful(a, server, exchange, windowed) /\ s[1].made <= a.made
    BY <1>1
<1>7. i \in 1..a.made
    BY <1>2, <1>6 DEF Answers
<1>8. Cardinality(DOMAIN a.rows) < RowRange
    <2>1. IsFiniteSet(Ids)
        BY ONLY FS_Interval, SearchAssumption DEF Ids
    <2>2. DOMAIN a.rows \subseteq Ids
        BY DEF Answers
    <2>3. Cardinality(DOMAIN a.rows) \in Nat
        BY <2>1, <2>2, FS_Subset, FS_CardinalityType
    <2> QED
        BY <1>5, <1>6, <2>3, SearchAssumption DEF Full
<1>9. i \in DOMAIN a.rows
    BY <1>4, <1>5, <1>6, <1>7, <1>8 DEF Faithful
<1> QED
    BY <1>5, <1>6, <1>9 DEF IdsIn, Whole

\* What has been read when the search is over.
LEMMA WholeWhenDone ==
    ASSUME ReadInv, WholeInv, stage \in Done
    PROVE  /\ asked # <<>> /\ asked[1].made \in Nat
           /\ exchange = "CN" =>
                 /\ IdsIn(asked) = 1..asked[1].total
                 /\ IdsIn(asked) = {i \in 1..asked[1].made : windowed => server[i].time <= Cutoff}
           /\ exchange = "HK" =>
                 /\ \A t \in 1..Cutoff : Covered(asked, t)
                 /\ \A i \in 1..asked[1].made : server[i].time <= Cutoff => i \in IdsIn(asked)
<1>1. asked # <<>> /\ stage # "refused" /\ asked \in Seq(Answers)
    BY DEF WholeInv, Done, ReadInv, Given
<1>2. 1 \in DOMAIN asked
    BY <1>1
<1>3. PICK n \in Nat : n = asked[1].total /\ asked[1].made \in Nat
    <2>1. asked[1] \in Answers
        BY <1>1, <1>2
    <2> QED
        BY <2>1 DEF Answers
<1>4. ASSUME exchange = "CN"
      PROVE  /\ IdsIn(asked) = 1..n
             /\ 1..n = {i \in 1..asked[1].made : windowed => server[i].time <= Cutoff}
    <2>1. \A k \in DOMAIN asked : /\ asked[k].total = n
                                 /\ Faithful(asked[k], server, exchange, windowed)
        BY <1>1, <1>3, <1>4 DEF WholeInv, ReadInv, Given
    <2>2. \A k \in DOMAIN asked : DOMAIN asked[k].rows \subseteq 1..n
        BY <1>4, <2>1 DEF Faithful
    <2>3. IdsIn(asked) \subseteq 1..n
        BY <2>2 DEF IdsIn, Whole
    <2>4. Cardinality(IdsIn(asked)) = n
        BY <1>1, <1>3, <1>4 DEF WholeInv
    <2>5. IsFiniteSet(1..n) /\ Cardinality(1..n) = n
        <3>1. /\ IsFiniteSet(1..n)
              /\ Cardinality(1..n) = IF 1 > n THEN 0 ELSE n - 1 + 1
            BY FS_Interval
        <3> QED
            BY <3>1
    <2>6. IdsIn(asked) = 1..n
        BY <2>3, <2>4, <2>5, FS_Subset
    <2>7. 1..n = {i \in 1..asked[1].made : windowed => server[i].time <= Cutoff}
        BY <1>2, <1>4, <2>1 DEF Faithful
    <2> QED
        BY <2>6, <2>7
<1>5. ASSUME exchange = "HK" PROVE \A t \in 1..Cutoff : Covered(asked, t)
    <2> SUFFICES ASSUME NEW t \in 1..Cutoff PROVE Covered(asked, t)
        OBVIOUS
    <2>1. todo = <<>> /\ (Covered(asked, t) \/ Waiting(todo, t))
        BY <1>1, <1>5 DEF WholeInv
    <2>2. ~Waiting(<<>>, t)
        BY DEF Waiting
    <2> QED
        BY <2>1, <2>2
<1>6. ASSUME exchange = "HK", NEW i \in 1..asked[1].made, server[i].time <= Cutoff
      PROVE  i \in IdsIn(asked)
    BY <1>1, <1>5, <1>6, CoveredIsWhole DEF ReadInv
<1> QED
    BY <1>1, <1>3, <1>4, <1>5, <1>6

-----------------------------------------------------------------------------
\* The same catalogue without what came after the cutoff.
LEMMA WithoutTheLater ==
    ASSUME NEW q, NEW r, Catalogue(q), q.cutoff \in Int,
           r.cutoff = q.cutoff, r.last = q.last, r.count = q.count,
           r.cat = [i \in {j \in DOMAIN q.cat :
                              q.cat[j].kind = "malformed" \/ q.cat[j].time <= q.cutoff} |-> q.cat[i]]
    PROVE  Alike(q, r)
<1>1. PICK known :
          known = {j \in DOMAIN q.cat : q.cat[j].kind = "malformed" \/ q.cat[j].time <= q.cutoff}
    OBVIOUS
<1> HIDE DEF Catalogue
<1>2. DOMAIN r.cat = known /\ \A i \in known : r.cat[i] = q.cat[i]
    BY <1>1
<1>3. Catalogue(r)
    BY <1>1, <1>2, ZenonT(60) DEF Catalogue
<1>4. Live(q) = Live(r) /\ \A i \in Live(q) : q.cat[i] = r.cat[i]
    <2>1. \A i : i \in Live(q) <=> i \in known /\ q.cat[i].kind # "malformed"
                                            /\ q.cat[i].time <= q.cutoff
        BY <1>1 DEF Live
    <2>2. \A i : i \in Live(r) <=> i \in known /\ q.cat[i].kind # "malformed"
                                            /\ q.cat[i].time <= q.cutoff
        BY <1>2 DEF Live
    <2> QED
        BY <1>2, <2>1, <2>2
<1>5. (\E i \in DOMAIN q.cat : q.cat[i].kind = "malformed")
      <=> (\E i \in DOMAIN r.cat : r.cat[i].kind = "malformed")
    BY <1>1, <1>2
<1> QED
    BY <1>3, <1>4, <1>5 DEF Alike

\* Every selected report is the kept one of its only year.
LEMMA SelectedAre ==
    ASSUME NEW q, Catalogue(q), NEW s \in Selected(q)
    PROVE  /\ s \in Live(q) /\ s \in DOMAIN q.cat
           /\ q.cat[s].kind \in {"annual", "corrected"}
           /\ \E y : q.cat[s].years = {y} /\ s = Kept(q, y) /\ y <= q.last
<1>1. PICK y \in YearsOf(q) : s = Kept(q, y) /\ Kept(q, y) # NoId
    BY DEF Selected, LatestYears, KeptYears
<1>2. s = Chosen(q, y) /\ Chosen(q, y) # NoId
    BY <1>1 DEF Kept
<1>3. s \in Candidates(q, y) /\ s \in Reports(q, y)
    BY <1>2, ChosenIs
<1>4. s \in Live(q) /\ s \in DOMAIN q.cat
    BY <1>3, LiveAre
<1>5. y <= q.last
    BY <1>3 DEF Candidates
<1>6. q.cat[s].kind \in {"annual", "corrected"} /\ y \in q.cat[s].years
    BY <1>3 DEF Reports, OfKind
<1>7. q.cat[s].years = {y}
    BY <1>4, <1>6 DEF Catalogue
<1> QED
    BY <1>1, <1>4, <1>5, <1>6, <1>7

LEMMA SelectedHaveTheStatus ==
    ASSUME NEW q, Catalogue(q), NEW i \in DOMAIN q.cat, q.cutoff \in Int, q.last \in Int,
           q.cat[i].years \subseteq Int
    PROVE  Status(q, i) = "selected" <=> i \in Selected(q)
<1>1. PICK a : a = q.cat[i]
    OBVIOUS
<1>2. ASSUME Status(q, i) = "selected" PROVE i \in Selected(q)
    BY <1>2 DEF Status
<1>3. ASSUME i \in Selected(q) PROVE Status(q, i) = "selected"
    <2>1. PICK y : a.years = {y} /\ y <= q.last /\ a.kind \in {"annual", "corrected"}
        BY <1>1, <1>3, SelectedAre
    <2>2. y \in Int /\ ~(y > q.last)
        BY <1>1, <2>1
    <2>3. ~(a.time > q.cutoff)
        <3>1. i \in Live(q)
            BY <1>3, SelectedAre
        <3>2. a.time \in Int
            BY <1>1 DEF Catalogue
        <3> QED
            BY <1>1, <3>1, <3>2 DEF Live
    <2>4. /\ a.kind # "cancel" /\ a.kind # "correction" /\ a.kind # "other" /\ a.years # {}
          /\ ~\A z \in a.years : z > q.last
        BY <2>1, <2>2
    <2> QED
        BY ONLY <1>1, <1>3, <2>3, <2>4, SMT DEF Status
<1> QED
    BY <1>2, <1>3

\* What the query of a search is.
LEMMA QueryIs ==
    ASSUME ReadInv
    PROVE  /\ Catalogue(Query) /\ Query.cat = Records(asked) /\ DOMAIN Query.cat = IdsIn(asked)
           /\ Query.cutoff = Cutoff /\ Query.last = LastYear /\ Query.count = Count
           /\ Cutoff \in Int /\ LastYear \in Int
           /\ \A i \in DOMAIN Query.cat :
                 Query.cat[i].years \subseteq Int /\ Query.cat[i] \in Rows
<1>1. Catalogue(Query) /\ Query.cat = Records(asked) /\ DOMAIN Query.cat = IdsIn(asked)
    BY QueryIsCatalogue DEF Query
<1>2. ASSUME NEW i \in DOMAIN Query.cat
      PROVE  Query.cat[i].years \subseteq Int /\ Query.cat[i] \in Rows
    <2>1. PICK a \in Rows : a = Query.cat[i]
        BY <1>1, <1>2, RecordsAre
    <2>2. \A b \in Rows : b.years \subseteq Int
        <3>1. \A b \in Rows : b \in Announcements(Ids, Times, Years)
            BY DEF Rows
        <3>2. \A b \in Announcements(Ids, Times, Years) : b.years \subseteq Years
            BY DEF Announcements
        <3>3. Years \subseteq Int
            BY SearchAssumption
        <3> QED
            BY <3>1, <3>2, <3>3, Zenon
    <2> QED
        BY <2>1, <2>2
<1>3. Cutoff \in Int /\ LastYear \in Int
    BY SearchAssumption DEF Times
<1> QED
    BY <1>1, <1>2, <1>3 DEF Query

LEMMA QueryStays == asked' = asked /\ exchange' = exchange => Query' = Query
<1> SUFFICES ASSUME asked' = asked, exchange' = exchange PROVE Query' = Query
    OBVIOUS
<1>1. Records(asked)' = Records(asked)
    BY ReadAs
<1> QED
    BY <1>1 DEF Query

-----------------------------------------------------------------------------
\* The manifest is made of what the search has read and classified.

Written == {"written", "promoted", "rejected", "recheck", "differs", "revalidated"}

Stores(m, q) ==
    /\ m.rows = q.cat /\ m.status = [i \in DOMAIN q.cat |-> Status(q, i)]
    /\ m.as_of \in {Cutoff, Cutoff + 1}

Selective(q) == Selected(q) # {}

ManifestInv ==
    /\ stage \in Written \cup {"selected"} => ~Refused(Query)
    /\ stage \in Written => Stores(manifest, Query) /\ Selective(Query)
    /\ stage \in {"recheck", "revalidated"} => manifest.as_of = Cutoff
    /\ stage = "revalidated" => BodiesOf(asked) = BodiesOf(again)
    /\ WrittenIsPromotable

\* The evidence of a manifest that stores a sound classification is valid.
LEMMA EvidenceIsValid ==
    ASSUME NEW m, NEW q, Catalogue(q), q.cutoff \in Int, q.last \in Int,
           \A i \in DOMAIN q.cat : q.cat[i].years \subseteq Int /\ q.cat[i] \in Rows,
           Stores(m, q), Selective(q)
    PROVE  ValidEvidence(m)
<1> DEFINE chosen == {i \in DOMAIN m.rows : m.status[i] = "selected"}
<1>1. m.rows = q.cat /\ \A i \in DOMAIN q.cat : m.status[i] = Status(q, i)
    BY DEF Stores
<1>2. \A i \in DOMAIN q.cat : Status(q, i) = "selected" <=> i \in Selected(q)
    BY SelectedHaveTheStatus
<1>3. \A i \in Selected(q) : /\ i \in DOMAIN q.cat /\ q.cat[i].kind \in {"annual", "corrected"}
                             /\ \E y : q.cat[i].years = {y} /\ i = Kept(q, y)
    BY SelectedAre
<1>4. chosen = Selected(q)
    BY <1>1, <1>2, <1>3
<1>5. ASSUME NEW i \in Selected(q), NEW j \in Selected(q), q.cat[i].fiscal = q.cat[j].fiscal
      PROVE  i = j
    <2>0. q.cat[i].years = q.cat[i].fiscal /\ q.cat[j].years = q.cat[j].fiscal
        BY <1>3 DEF Rows
    <2>1. PICK y : q.cat[i].years = {y} /\ i = Kept(q, y)
        BY <1>3
    <2>2. PICK z : q.cat[j].years = {z} /\ j = Kept(q, z)
        BY <1>3
    <2>3. y = z
        BY <1>5, <2>0, <2>1, <2>2
    <2> QED
        BY <2>1, <2>2, <2>3
<1> HIDE DEF chosen
<1>6. /\ chosen # {}
      /\ \A i \in chosen : m.rows[i].kind \in {"annual", "corrected"}
      /\ \A i, j \in chosen : m.rows[i].fiscal = m.rows[j].fiscal => i = j
    BY <1>1, <1>3, <1>4, <1>5 DEF Selective
<1> QED
    BY <1>6 DEF ValidEvidence, chosen

LEMMA QueriesAgree ==
    ASSUME NEW m, Stores(m, Query), m.as_of = Cutoff
    PROVE  QueryOf(m, m.rows) = Query
<1>1. m.rows = Records(asked)
    BY DEF Stores, Query
<1> QED
    BY <1>1 DEF QueryOf, Query

\* What stands in the way of a manifest's promotion.
Unexplained(m) ==
    \E i \in DOMAIN m.rows :
        LET a == m.rows[i] IN
        \/ a.kind \in {"cancel", "correction"} /\ a.fiscal # a.title
        \/ Cutoff < a.time /\ a.time <= m.as_of

\* Its rows are classified alike on the date of the manifest, if that is later: no
\* row is of a day in between.
LEMMA LaterDateIsAlike ==
    ASSUME NEW q, Catalogue(q), q.cutoff \in Int, NEW m, m.rows = q.cat, m.as_of \in Int,
           q.cutoff = Cutoff, q.last = LastYear, q.count = Count, Cutoff <= m.as_of,
           ~Refused(q), ~Unexplained(m)
    PROVE  /\ ~Refused(QueryOf(m, m.rows))
           /\ \A i \in DOMAIN q.cat : Status(QueryOf(m, m.rows), i) = Status(q, i)
<1>1. PICK r : r = QueryOf(m, m.rows)
    OBVIOUS
<1>2. r.cat = q.cat /\ r.cutoff = m.as_of /\ r.last = q.last /\ r.count = q.count
    BY <1>1 DEF QueryOf
<1>3. \A i \in DOMAIN q.cat :
          /\ q.cat[i].time \in Int
          /\ q.cat[i].time <= q.cutoff <=> q.cat[i].time <= r.cutoff
    BY <1>2 DEF Catalogue, Unexplained
<1>4. Catalogue(r)
    BY <1>2, Zenon DEF Catalogue
<1>5. Live(r) = Live(q)
    BY <1>2, <1>3 DEF Live
<1>6. Alike(q, r)
    BY <1>2, <1>4, <1>5 DEF Alike
<1>7. ~Refused(r) /\ \A i \in Live(q) : Status(r, i) = Status(q, i)
    BY <1>6, SameOutcome
<1>8. ASSUME NEW i \in DOMAIN q.cat, i \notin Live(q) PROVE Status(r, i) = Status(q, i)
    <2>1. q.cat[i].kind # "malformed"
        BY DEF Refused, Unreadable
    <2>2. q.cat[i].time > q.cutoff /\ r.cat[i].time > r.cutoff
        <3>1. ~(q.cat[i].time <= q.cutoff)
            BY <1>8, <2>1 DEF Live
        <3> QED
            BY <1>2, <1>3, <3>1
    <2>3. Status(q, i) = "after_cutoff"
        BY ONLY <2>2, Zenon DEF Status
    <2>4. Status(r, i) = "after_cutoff"
        BY ONLY <2>2, Zenon DEF Status
    <2> QED
        BY <2>3, <2>4
<1> QED
    BY <1>1, <1>7, <1>8

\* So the manifest can be reconstructed from what it stores.
LEMMA RowsReconstruct ==
    ASSUME ReadInv, NEW m, Stores(m, Query), ~Refused(Query), ~Unexplained(m)
    PROVE  Reconstructs(m, RowsOf(m))
<1>1. PICK q : q = Query
    OBVIOUS
<1>2. /\ Catalogue(q) /\ q.cutoff = Cutoff /\ q.last = LastYear /\ q.count = Count
      /\ Cutoff \in Int /\ \A i \in DOMAIN q.cat : q.cat[i] \in Rows
    BY <1>1, QueryIs
<1>3. /\ m.rows = q.cat /\ \A i \in DOMAIN q.cat : m.status[i] = Status(q, i)
      /\ m.as_of \in Int /\ Cutoff <= m.as_of
    BY <1>1, <1>2 DEF Stores
<1>4. ASSUME NEW i \in DOMAIN m.rows PROVE Rebuilt(m.rows[i]) = m.rows[i]
    <2>1. PICK a \in Rows : a = m.rows[i]
        BY <1>2, <1>3
    <2>2. CASE a.kind \in {"cancel", "correction"}
        <3>1. a.fiscal = a.title
            BY <2>1, <2>2 DEF Unexplained
        <3>2. a.years = a.title
            BY <3>1 DEF Rows
        <3>3. [a EXCEPT !.fiscal = a.title, !.years = a.title] = a
            BY <3>1, <3>2 DEF Rows, Announcements
        <3> QED
            BY <2>1, <2>2, <3>3 DEF Rebuilt
    <2>3. CASE a.kind \notin {"cancel", "correction"}
        BY <2>1, <2>3 DEF Rebuilt
    <2> QED
        BY <2>2, <2>3
<1>5. RowsOf(m) = m.rows
    <2>1. m.rows = [i \in DOMAIN m.rows |-> m.rows[i]]
        BY <1>1, <1>3 DEF Query, Records
    <2> QED
        BY <1>4, <2>1 DEF RowsOf
<1>6. /\ ~Refused(QueryOf(m, m.rows))
      /\ \A i \in DOMAIN q.cat : Status(QueryOf(m, m.rows), i) = Status(q, i)
    BY <1>1, <1>2, <1>3, LaterDateIsAlike
<1> QED
    BY <1>3, <1>5, <1>6 DEF Reconstructs

LEMMA InitiallyNoManifest == SearchInit => ManifestInv
BY DEF SearchInit, ManifestInv, Written, WrittenIsPromotable

LEMMA ManifestStays == ReadInv /\ ManifestInv /\ [SearchNext]_searchVars => ManifestInv'
<1> SUFFICES ASSUME ReadInv, ManifestInv, [SearchNext]_searchVars PROVE ManifestInv'
    OBVIOUS
<1>1. ASSUME stage' \in {"new", "reading", "classify", "refused"} PROVE ManifestInv'
    BY <1>1 DEF ManifestInv, Written, WrittenIsPromotable
<1>2. ASSUME Begin \/ ReadPage \/ ReadWindow
      PROVE  stage' \in {"new", "reading", "classify", "refused"}
    BY <1>2 DEF Begin, ReadPage, ReadWindow
<1>3. PICK q : q = Query /\ (asked' = asked /\ exchange' = exchange => Query' = q)
    BY QueryStays
<1>4. ASSUME UNCHANGED <<exchange, stage, asked, manifest>>,
             again' = again \/ stage # "revalidated"
      PROVE  ManifestInv'
    BY <1>3, <1>4 DEF ManifestInv, WrittenIsPromotable, BodiesOf
<1>5. ASSUME File \/ (\E i \in DOMAIN server : Withdraw(i)) \/ Reask \/ UNCHANGED searchVars
      PROVE  /\ UNCHANGED <<exchange, stage, asked, manifest>>
             /\ again' = again \/ stage # "revalidated"
    BY <1>5 DEF searchVars, File, Withdraw, Reask
<1>6. ASSUME Classify PROVE ManifestInv'
    BY <1>3, <1>6 DEF Classify, ManifestInv, Written, WrittenIsPromotable
<1>7. ASSUME Write PROVE ManifestInv'
    <2>1. /\ Selective(q) /\ ~Refused(q) /\ Query' = q
          /\ stage' = "written"
        BY <1>3, <1>7 DEF Write, Selective, ManifestInv
    <2>2. Stores(manifest', q)
        <3>1. q.cat = Records(asked)
            BY <1>3 DEF Query
        <3> QED
            BY <1>3, <1>7, <3>1 DEF Write, Stores
    <2> QED
        BY <2>1, <2>2 DEF ManifestInv, Written, WrittenIsPromotable
<1>8. ASSUME PromoteRows PROVE ManifestInv'
    <2>1. /\ stage = "written" /\ UNCHANGED <<exchange, asked, manifest, again>>
          /\ stage' \in {"promoted", "rejected"}
          /\ (stage' = "rejected" =>
                ~(ValidEvidence(manifest) /\ Reconstructs(manifest, RowsOf(manifest))))
        BY <1>8 DEF PromoteRows
    <2>2. Stores(manifest, Query) /\ Selective(Query) /\ ~Refused(Query)
        BY <2>1 DEF ManifestInv, Written
    <2>3. ASSUME ~Unexplained(manifest) PROVE stage' # "rejected"
        <3>1. Reconstructs(manifest, RowsOf(manifest))
            BY <2>2, <2>3, RowsReconstruct
        <3>2. ValidEvidence(manifest)
            BY <2>2, QueryIs, EvidenceIsValid
        <3> QED
            BY <2>1, <3>1, <3>2
    <2>4. WrittenIsPromotable'
        BY <2>1, <2>3 DEF WrittenIsPromotable, Unexplained
    <2> QED
        BY <1>3, <2>1, <2>2, <2>4 DEF ManifestInv, Written
<1>9. ASSUME BeginRevalidation PROVE ManifestInv'
    BY <1>3, <1>9 DEF BeginRevalidation, ManifestInv, Written, WrittenIsPromotable
<1>10. ASSUME Revalidate PROVE ManifestInv'
    <2>1. /\ stage = "recheck" /\ UNCHANGED <<exchange, asked, manifest, again>>
          /\ stage' \in {"revalidated", "differs"}
          /\ (stage' = "revalidated" => Confirms(manifest, asked, again))
        BY <1>10 DEF Revalidate
    <2>2. stage' = "revalidated" => (BodiesOf(asked) = BodiesOf(again))'
        BY <2>1 DEF Confirms, BodiesOf
    <2> QED
        BY <1>3, <2>1, <2>2 DEF ManifestInv, Written, WrittenIsPromotable
<1>11. ManifestInv'
    BY <1>1, <1>2, <1>4, <1>5, <1>6, <1>7, <1>8, <1>9, <1>10, Zenon DEF SearchNext
<1> QED
    BY <1>11

-----------------------------------------------------------------------------
SearchInv == ReadInv /\ WholeInv /\ ManifestInv

LEMMA SearchInvHolds == SearchSpec => []SearchInv
<1>1. SearchInit => SearchInv
    BY InitiallyNothingRead, InitiallyWhole, InitiallyNoManifest DEF SearchInv
<1>2. SearchInv /\ [SearchNext]_searchVars => SearchInv'
    BY ReadStays, WholeStays, ManifestStays DEF SearchInv
<1> QED
    BY <1>1, <1>2, PTL DEF SearchSpec

\* No publication between two queries hides an announcement from a search that is
\* not refused, whatever the pages and windows: the cursor of
\* search_annual_reports and the halving of _fetch_hkex_complete_catalog.
THEOREM NothingIsOverlooked == SearchSpec => []SearchIsWhole
<1>1. SearchInv => SearchIsWhole
    <2> SUFFICES ASSUME SearchInv, stage \in {"classify", "selected"}
                 PROVE  LET known == 1..asked[1].made IN
                        /\ exchange = "CN" => IdsIn(asked) =
                              {i \in known : windowed => server[i].time <= Cutoff}
                        /\ exchange = "HK" =>
                              {i \in known : server[i].time <= Cutoff} \subseteq IdsIn(asked)
        BY DEF SearchIsWhole
    <2>1. stage \in Done
        BY DEF Done
    <2> QED
        BY <2>1, WholeWhenDone DEF SearchInv
<1> QED
    BY <1>1, SearchInvHolds, PTL

\* _classify_annual_catalog selects no report that a later announcement of its
\* year replaces, cancels or corrects.
THEOREM SelectionStands == SearchSpec => []SelectionIsSound
<1>1. SearchInv => SelectionIsSound
    <2> SUFFICES ASSUME SearchInv, stage = "selected" PROVE SelectionIsSound
        BY DEF SelectionIsSound
    <2>1. PICK q : q = Query
        OBVIOUS
    <2>2. Catalogue(q) /\ q.cat = Records(asked) /\ q.cutoff = Cutoff /\ ~Refused(q)
        BY <2>1, QueryIs DEF SearchInv, ManifestInv
    <2>3. ASSUME NEW s \in Selected(q), NEW i \in DOMAIN q.cat
          PROVE  LET r == q.cat[s]
                     a == q.cat[i]
                     later == /\ a.time <= Cutoff /\ a.years \cap r.years # {}
                              /\ a.time > r.time \/ (a.time = r.time /\ i > s)
                 IN
                 later =>
                     /\ a.kind \notin {"annual", "corrected"}
                     /\ a.kind = "cancel" => a.target \notin {s, NoId}
                     /\ a.kind = "correction" =>
                            r.kind = "corrected" /\ i = s + 1 /\ a.time - r.time <= Batch
        <3> SUFFICES ASSUME q.cat[i].time <= q.cutoff, q.cat[i].years \cap q.cat[s].years # {},
                            \/ q.cat[i].time > q.cat[s].time
                            \/ q.cat[i].time = q.cat[s].time /\ i > s
                     PROVE  /\ q.cat[i].kind \notin {"annual", "corrected"}
                            /\ q.cat[i].kind = "cancel" => q.cat[i].target \notin {s, NoId}
                            /\ q.cat[i].kind = "correction" =>
                                  /\ q.cat[s].kind = "corrected" /\ i = s + 1
                                  /\ q.cat[i].time - q.cat[s].time <= Batch
            BY <2>2
        <3>1. s \in DOMAIN q.cat
            BY <2>2, SelectedAre
        <3>2. /\ q.cat[i].time \in Int /\ q.cat[s].time \in Int
              /\ i \in Int /\ s \in Int
            BY <2>2, <3>1 DEF Catalogue, Ids
        <3>3. Before(q, s, i)
            BY <3>2 DEF Before
        <3> HIDE DEF Before
        <3> QED
            BY ONLY <2>2, <3>3, s \in Selected(q), i \in DOMAIN q.cat, q.cat[i].time <= q.cutoff,
                    q.cat[i].years \cap q.cat[s].years # {}, SelectedIsSound, Zenon
    <2>4. Query = q /\ Records(asked) = q.cat
        BY <2>1, <2>2
    <2> QED
        BY ONLY <2>3, <2>4 DEF SelectionIsSound
<1> QED
    BY <1>1, SearchInvHolds, PTL

\* The cutoff of --as-of is a barrier: _classify_annual_catalog gives the same
\* states without the announcements after it, in every catalogue a search can read.
THEOREM LaterNewsIsIgnored == SearchSpec => []NoLookAhead
<1>1. SearchInv => NoLookAhead
    <2> SUFFICES ASSUME SearchInv
                 PROVE  LET records == Records(asked)
                            known   == {i \in DOMAIN records :
                                \/ records[i].kind = "malformed"
                                \/ records[i].time <= Cutoff}
                        IN Outcome(Query)
                           = Outcome([Query EXCEPT !.cat = [i \in known |-> records[i]]])
        BY DEF NoLookAhead
    <2>1. PICK q : q = Query
        OBVIOUS
    <2>2. PICK known : known = {i \in DOMAIN q.cat :
                                   q.cat[i].kind = "malformed" \/ q.cat[i].time <= q.cutoff}
        OBVIOUS
    <2>3. PICK rows : rows = [i \in known |-> q.cat[i]]
        OBVIOUS
    <2>4. PICK r : r = [Query EXCEPT !.cat = rows]
        OBVIOUS
    <2>5. r.cat = rows /\ r.cutoff = q.cutoff /\ r.last = q.last /\ r.count = q.count
        BY <2>1, <2>4 DEF Query
    <2>6. Catalogue(q) /\ q.cutoff \in Int /\ q.cat = Records(asked) /\ q.cutoff = Cutoff
        BY <2>1, QueryIs DEF SearchInv
    <2>7. Alike(q, r)
        BY <2>2, <2>3, <2>5, <2>6, WithoutTheLater
    <2>8. Outcome(q) = Outcome(r)
        BY <2>7, SameOutcome
    <2> QED
        BY <2>1, <2>2, <2>3, <2>4, <2>6, <2>8
<1> QED
    BY <1>1, SearchInvHolds, PTL

\* promote_annual_manifest accepts every manifest of a search but two kinds: one with
\* a notice of HKEX whose year is that of the report period, which the row does not
\* keep; and one of a search over midnight with a row of the new day, since without
\* --as-of the day is taken from the clock a second time.
THEOREM ManifestsPromote == SearchSpec => []WrittenIsPromotable
<1>1. SearchInv => WrittenIsPromotable
    BY DEF SearchInv, ManifestInv
<1> QED
    BY <1>1, SearchInvHolds, PTL

\* What revalidate_annual_manifest confirms is what a search begun at that moment
\* would find, though its queries are the old ones and it puts them one by one.
THEOREM RevalidationStands == SearchSpec => []RevalidatedStands
<1>1. SearchInv => RevalidatedStands
    <2> SUFFICES ASSUME SearchInv, stage = "revalidated" PROVE RevalidatedStands
        BY DEF RevalidatedStands
    <2>1. /\ BodiesOf(asked) = BodiesOf(again) /\ manifest.as_of = Cutoff /\ Stores(manifest, Query)
          /\ Given(asked, server, exchange, windowed) /\ Given(again, server, exchange, windowed)
          /\ \A k \in DOMAIN again : again[k].query = asked[k].query
          /\ asked \in Seq(Answers) /\ again \in Seq(Answers)
        BY DEF SearchInv, ManifestInv, ReadInv, Given, Written
    <2>2. /\ DOMAIN asked = DOMAIN again /\ \A k \in DOMAIN asked : asked[k].total = again[k].total
          /\ Whole(asked) = Whole(again) /\ IdsIn(asked) = IdsIn(again)
          /\ Records(asked) = Records(again)
        BY <2>1, SameBodies
    <2>3. manifest.rows = Records(again) /\ QueryOf(manifest, manifest.rows) = Query
        BY <2>1, <2>2, QueriesAgree DEF Stores, Query
    <2>4. /\ DOMAIN manifest.rows = IdsIn(again)
          /\ \A i \in DOMAIN manifest.rows : manifest.status[i] = Status(Query, i)
        <3>1. manifest.rows = Query.cat /\ DOMAIN Query.cat = IdsIn(asked)
            BY <2>1, QueryIs DEF SearchInv, Stores
        <3> QED
            BY <2>1, <2>2, <3>1 DEF Stores
    <2>5. asked # <<>> /\ 1 \in DOMAIN again /\ again # <<>> /\ stage \in Done
        <3>1. stage \in Done /\ asked # <<>>
            BY DEF Done, SearchInv, WholeInv
        <3> QED
            BY <2>1, <2>2, <3>1
    <2>6. ASSUME NEW i \in 1..again[1].made, server[i].time <= manifest.as_of
          PROVE  i \in IdsIn(again)
        <3>1. CASE exchange = "CN"
            <4>1. {j \in 1..again[1].made : windowed => server[j].time <= Cutoff} = 1..again[1].total
                BY <2>1, <2>5, <3>1 DEF Given, Faithful
            <4>2. IdsIn(asked) = 1..asked[1].total
                BY <2>5, <3>1, WholeWhenDone DEF SearchInv
            <4> QED
                BY <2>1, <2>2, <2>5, <2>6, <4>1, <4>2
        <3>2. CASE exchange = "HK"
            <4>1. \A t \in 1..Cutoff : Covered(asked, t)
                BY <2>5, <3>2, WholeWhenDone DEF SearchInv
            <4>2. \A k \in Whole(again) : again[k].query = asked[k].query
                BY <2>1 DEF Whole
            <4>3. \A t \in 1..Cutoff : Covered(again, t)
                BY <2>2, <4>1, <4>2 DEF Covered
            <4> QED
                BY <2>1, <2>5, <2>6, <3>2, <4>3, CoveredIsWhole DEF SearchInv
        <3> QED
            BY <3>1, <3>2 DEF SearchInv, ReadInv, Exchanges
    <2> QED
        BY <2>3, <2>4, <2>6 DEF RevalidatedStands
<1> QED
    BY <1>1, SearchInvHolds, PTL
=============================================================================
