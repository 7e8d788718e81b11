--------------------------- MODULE RunStoreProofs ---------------------------
(***************************************************************************)
(* Machine-checked facts about RunStore, for any number of processes, runs,*)
(* crashes and inputs.                                                     *)
(***************************************************************************)
EXTENDS RunStore, FiniteSetTheorems, WellFoundedInduction, TLAPS

-----------------------------------------------------------------------------
(* The choice of the latest run is well defined.                            *)

\* A nonempty set of natural numbers has a smallest member.
LEMMA LeastNat ==
    ASSUME NEW T \in SUBSET Nat, T # {}
    PROVE  \E m \in T : \A n \in T : m <= n
<1>1. \E m \in T : \A n \in T : ~(<<n, m>> \in OpToRel(<, Nat))
    BY NatLessThanWellFounded, WFMin, Zenon
<1>2. \A m, n \in T : <<n, m>> \in OpToRel(<, Nat) <=> n < m
    BY DEF OpToRel
<1>3. \E m \in T : \A n \in T : ~(n < m)
    BY <1>1, <1>2, Zenon
<1>. QED BY <1>3

\* A nonempty set of bounded natural numbers has a largest member.
LEMMA GreatestNat ==
    ASSUME NEW b \in Nat, NEW T \in SUBSET (0..b), T # {}
    PROVE  \E m \in T : \A n \in T : n <= m
<1>. DEFINE U == {b - n : n \in T}
<1>a. \A n \in T : b - n \in Nat
    OBVIOUS
<1>1. U \in SUBSET Nat /\ U # {}
    BY <1>a
<1>2. PICK m \in U : \A n \in U : m <= n
    BY <1>1, LeastNat
<1>3. PICK k \in T : m = b - k
    BY <1>2
<1>4. \A n \in T : n <= k
    BY <1>2, <1>3
<1>. QED BY <1>3, <1>4

\* max(..., key=_run_sort_key) is a member of the runs it chooses from, and
\* none of them is newer.
LEMMA NewestExists ==
    ASSUME NEW at \in [RunIds -> 0..MaxClock], NEW S \in SUBSET RunIds, S # {}
    PROVE  /\ Newest(at, S) \in S
           /\ \A s \in S : NotNewer(at, s, Newest(at, S))
<1>. USE BoundsAssumption
<1>. DEFINE T == {at[s] : s \in S}
<1>1. T \in SUBSET (0..MaxClock) /\ T # {}
    OBVIOUS
<1>2. PICK m \in T : \A n \in T : n <= m
    BY <1>1, GreatestNat
<1>. DEFINE U == {s \in S : at[s] = m}
<1>3. PICK w \in S : at[w] = m
    OBVIOUS
<1>4. U \in SUBSET (0..MaxRuns)
    <2>1. RunIds \subseteq 0..MaxRuns
        BY DEF RunIds
    <2>. QED BY <2>1
<1>5. U # {}
    BY <1>3
<1>6. PICK r \in U : \A s \in U : s <= r
    BY <1>4, <1>5, GreatestNat
<1>7. r \in S /\ at[r] = m
    OBVIOUS
<1>8. ASSUME NEW s \in S PROVE NotNewer(at, s, r)
    <2>1. at[s] <= m
        BY <1>2
    <2>2. at[s] \in Nat /\ m \in Nat
        BY <1>1
    <2>3. CASE at[s] < m
        BY <2>3, <1>7 DEF NotNewer
    <2>4. CASE at[s] = m
        BY <2>4, <1>6, <1>7 DEF NotNewer
    <2>. QED BY <2>1, <2>2, <2>3, <2>4
<1>. QED BY <1>7, <1>8 DEF Newest
\* The same for max() over the records of an index.
LEMMA LatestExists ==
    ASSUME NEW ix \in [RunIds -> Records], NEW S \in SUBSET RunIds, S # {}
    PROVE  Latest(ix, S) \in S
<1>1. Created(ix) \in [RunIds -> 0..MaxClock]
    BY DEF Created, Records
<1>. QED BY <1>1, NewestExists DEF Latest

-----------------------------------------------------------------------------
(* The inductive invariant.  The properties checked by TLC are not         *)
(* inductive by themselves: that a run created under the lock is the right *)
(* one depends on what the holder has loaded (MemInv) and decided          *)
(* (PlanInv) still being what the disk says, which the lock guarantees.    *)

\* What index.json holds when it is up to date with the checkpoints ix.
Projection(ix) == [r \in RunIds |-> RecordFromCheckpoint(ix[r])]

LockInv == \A p \in Procs : pc[p] \in Busy <=> lock = p

DiskInv ==
    \A r \in RunIds :
        /\ cps[r].status = "absent" => cps[r] = NoRecord
        /\ cps[r].status # "absent" => r \in dirs
        /\ RecordFromCheckpoint(index[r]) = index[r]

CallInv ==
    \A p \in Procs :
        /\ pc[p] \in {"wait"} \cup Busy =>
              \/ call[p].op = "resolve" /\ call[p].fp \in Fingerprints
              \/ /\ call[p].op = "complete" /\ call[p].run \in RunIds
                 /\ call[p].artifact \in Artifacts
        /\ pc[p] = "decide" => call[p].op = "resolve"
        /\ pc[p] = "check"  => call[p].op = "complete"

MemInv ==
    \A p \in Procs :
        /\ pc[p] \in {"decide", "check", "planned"} => mem[p] = Projection(cps)
        /\ pc[p] = "saved" =>
              \A r \in RunIds : r # plan[p].run =>
                  mem[p][r] = RecordFromCheckpoint(cps[r])

PlannedRun(p) ==
    LET c == call[p] IN
    /\ plan[p].run \in dirs /\ cps[plan[p].run].status = "absent"
    /\ plan[p].ck = NewCheckpoint(cps, c.fp, c.clean, c.path, c.now)
    /\ c.clean \/ Unfinished(cps, c.fp) = {}

PlannedCompletion(p) ==
    /\ plan[p].run \in Known(cps)
    /\ \E x \in Paths :
          /\ cps[plan[p].run].path \in {None, x}
          /\ plan[p].ck = CompletedCheckpoint(cps[plan[p].run], x,
                                              call[p].artifact)

PlanInv ==
    \A p \in Procs :
        /\ pc[p] = "planned" /\ call[p].op = "resolve" => PlannedRun(p)
        /\ pc[p] = "planned" /\ call[p].op = "complete" => PlannedCompletion(p)
        /\ pc[p] = "saved" =>
              /\ plan[p].run \in Known(cps)
              /\ cps[plan[p].run] = plan[p].ck
              /\ call[p].op = "complete" => plan[p].ck.status = "completed"

IInv ==
    /\ TypeOK /\ LockInv /\ DiskInv /\ CallInv /\ MemInv /\ PlanInv
    /\ IndexNeverAhead /\ OneUnfinishedPerInput /\ RepliesAreDurable
-----------------------------------------------------------------------------
(* Lemmas about the records.                                                *)

\* An index entry has the checkpoint's fields, clean and invalidated apart.
LEMMA RecordFields ==
    ASSUME NEW c \in Records
    PROVE  LET d == RecordFromCheckpoint(c) IN
           /\ d \in Records
           /\ d.status = c.status /\ d.fp = c.fp /\ d.parent = c.parent
           /\ d.created = c.created /\ d.path = c.path
           /\ d.artifact = c.artifact /\ d.clean = FALSE /\ d.invalidated = {}
BY DEF Records, RecordFromCheckpoint

\* Two records with the same fields are the same record.
LEMMA SameFields ==
    ASSUME NEW a \in Records, NEW b \in Records,
           a.status = b.status, a.fp = b.fp, a.parent = b.parent,
           a.created = b.created, a.path = b.path, a.artifact = b.artifact,
           a.clean = b.clean, a.invalidated = b.invalidated
    PROVE  a = b
BY DEF Records

\* The absent record is a record, and projects to itself.
LEMMA NoRecordFacts ==
    /\ NoRecord \in Records /\ NoRecord.status = "absent"
    /\ RecordFromCheckpoint(NoRecord) = NoRecord
<1>1. 0 \in 0..MaxClock
    BY BoundsAssumption
<1>2. NoRecord \in Records
    BY <1>1 DEF Records, NoRecord
<1>3. NoRecord.status = "absent"
    BY DEF NoRecord
<1>4. RecordFromCheckpoint(NoRecord) = NoRecord
    BY <1>2, RecordFields, SameFields DEF NoRecord
<1>. QED BY <1>2, <1>3, <1>4

\* The index that is up to date has the runs of the checkpoints, in the same
\* state, so every choice made from it is the choice the checkpoints give.
LEMMA ProjectionFacts ==
    ASSUME NEW ix \in [RunIds -> Records]
    PROVE  /\ Projection(ix) \in [RunIds -> Records]
           /\ Known(Projection(ix)) = Known(ix)
           /\ Created(Projection(ix)) = Created(ix)
           /\ \A f : Matching(Projection(ix), f) = Matching(ix, f)
           /\ \A f : Unfinished(Projection(ix), f) = Unfinished(ix, f)
           /\ \A r \in RunIds : ResultPath(Projection(ix), r) = ResultPath(ix, r)
<1>. DEFINE P == Projection(ix)
<1>1. \A r \in RunIds : /\ P[r] \in Records /\ P[r].status = ix[r].status
                        /\ P[r].fp = ix[r].fp /\ P[r].created = ix[r].created
                        /\ P[r].path = ix[r].path
    BY RecordFields DEF Projection
<1>2. P \in [RunIds -> Records]
    BY <1>1 DEF Projection
<1>. HIDE DEF P
<1>3. Known(P) = Known(ix)
    BY <1>1 DEF Known
<1>4. Created(P) = Created(ix)
    BY <1>1 DEF Created
<1>5. \A f : Matching(P, f) = Matching(ix, f)
    BY <1>1, <1>3 DEF Matching, Known
<1>6. \A f : Unfinished(P, f) = Unfinished(ix, f)
    BY <1>1, <1>5 DEF Unfinished, Matching, Known
<1>7. \A r \in RunIds : ResultPath(P, r) = ResultPath(ix, r)
    BY <1>1 DEF ResultPath
<1>. QED BY <1>2, <1>3, <1>4, <1>5, <1>6, <1>7 DEF P

\* The parent of a new run is 0 or a run the index knows.
LEMMA ParentKnown ==
    ASSUME NEW ix \in [RunIds -> Records], NEW c \in BOOLEAN
    PROVE  ParentOf(ix, c) \in {0} \cup Known(ix)
<1>1. Created(ix) \in [RunIds -> 0..MaxClock]
    BY DEF Created, Records
<1>2. Known(ix) \in SUBSET RunIds
    BY DEF Known
<1>3. Known(ix) # {} => Latest(ix, Known(ix)) \in Known(ix)
    BY <1>1, <1>2, NewestExists DEF Latest
<1>. QED BY <1>3 DEF ParentOf

\* The initial checkpoint computed from the up-to-date index is the one the
\* checkpoints themselves give, and it is a record of an unfinished run.
LEMMA NewCheckpointFacts ==
    ASSUME NEW ix \in [RunIds -> Records], NEW f \in Fingerprints,
           NEW c \in BOOLEAN, NEW x \in ExtPaths \cup {None},
           NEW t \in 0..MaxClock
    PROVE  /\ NewCheckpoint(Projection(ix), f, c, x, t)
                 = NewCheckpoint(ix, f, c, x, t)
           /\ NewCheckpoint(ix, f, c, x, t) \in Records
           /\ NewCheckpoint(ix, f, c, x, t).status = "in_progress"
           /\ NewCheckpoint(ix, f, c, x, t).fp = f
           /\ NewCheckpoint(ix, f, c, x, t).clean = c
<1>. DEFINE par == ParentOf(ix, c)
<1>1. ParentOf(Projection(ix), c) = par
    BY ProjectionFacts DEF ParentOf, Latest
<1>2. par \in {0} \cup Known(ix)
    BY ParentKnown
<1>3. par \in {0} \cup RunIds
    BY <1>2 DEF Known
<1>. HIDE DEF par
<1>4. 0 \notin RunIds
    BY BoundsAssumption DEF RunIds
<1>5. Invalidates(Projection(ix), f, par) = Invalidates(ix, f, par)
    <2>1. CASE par = 0
        BY <2>1 DEF Invalidates
    <2>2. CASE par \in RunIds
        <3>1. Projection(ix)[par] = RecordFromCheckpoint(ix[par])
            BY <2>2 DEF Projection
        <3>2. /\ Projection(ix)[par].artifact = ix[par].artifact
              /\ Projection(ix)[par].fp = ix[par].fp
            BY <3>1, <2>2, RecordFields
        <3>. QED BY <3>2 DEF Invalidates
    <2>. QED BY <2>1, <2>2, <1>3
<1>6. Invalidates(ix, f, par) \in SUBSET Artifacts
    <2>1. par # 0 => ix[par].artifact \in Artifacts \cup {None}
        BY <1>3 DEF Records
    <2>. QED BY <2>1 DEF Invalidates
<1>7. NewCheckpoint(ix, f, c, x, t) \in Records
    BY <1>3, <1>6 DEF NewCheckpoint, Records, par, Paths
<1>. QED BY <1>1, <1>5, <1>7 DEF NewCheckpoint, par

\* Completing a run keeps its identity and binds its result path.
LEMMA CompletedFacts ==
    ASSUME NEW c \in Records, NEW x \in Paths, NEW a \in Artifacts
    PROVE  LET d == CompletedCheckpoint(c, x, a) IN
           /\ d \in Records /\ d.status = "completed" /\ d.path = x
           /\ d.fp = c.fp /\ d.parent = c.parent /\ d.created = c.created
           /\ d.clean = c.clean
BY DEF Records, CompletedCheckpoint
-----------------------------------------------------------------------------
(* Preservation, one lemma per action.                                      *)

LEMMA InitIInv == Init => IInv
<1>. SUFFICES ASSUME Init PROVE IInv
    OBVIOUS
<1>. USE DEF Init
<1>1. \A r \in RunIds : cps[r] = NoRecord /\ index[r] = NoRecord
    BY DEF NoIndex
<1>2. Known(cps) = {} /\ Known(index) = {}
    BY <1>1, NoRecordFacts DEF Known
<1>3. TypeOK
    BY BoundsAssumption, ProcsAssumption, NoRecordFacts
       DEF TypeOK, NoIndex, NoCall, NoPlan, NoReply, Calls, Actions
<1>4. LockInv
    BY ProcsAssumption DEF LockInv, Busy
<1>5. DiskInv
    BY <1>1, NoRecordFacts DEF DiskInv
<1>6. CallInv /\ MemInv /\ PlanInv
    BY DEF CallInv, MemInv, PlanInv, Busy
<1>7. IndexNeverAhead /\ OneUnfinishedPerInput
    BY <1>2 DEF IndexNeverAhead, OneUnfinishedPerInput
<1>8. RepliesAreDurable
    BY DEF RepliesAreDurable, NoReply
<1>. QED BY <1>3, <1>4, <1>5, <1>6, <1>7, <1>8 DEF IInv

\* A step that writes none of the files keeps what the invariant says of
\* them.
LEMMA FilesUnchanged ==
    ASSUME IInv, UNCHANGED disk
    PROVE  DiskInv' /\ IndexNeverAhead' /\ OneUnfinishedPerInput'
<1>1. DiskInv'
    BY DEF IInv, disk, DiskInv
<1>2. IndexNeverAhead'
    BY DEF IInv, disk, IndexNeverAhead, Known
<1>3. OneUnfinishedPerInput'
    BY DEF IInv, disk, OneUnfinishedPerInput, Known
<1>. QED BY <1>1, <1>2, <1>3

\* The holder of the lock is the only process in the critical section.
LEMMA OneHolder ==
    ASSUME IInv, NEW p \in Procs, NEW q \in Procs, pc[p] \in Busy,
           pc[q] \in Busy
    PROVE  p = q
BY DEF IInv, LockInv

\* Starting a call changes only the caller's own record.
LEMMA CallStep ==
    ASSUME IInv, NEW p \in Procs, CallResolve(p) \/ CallComplete(p)
    PROVE  IInv'
<1>. USE DEF IInv
<1>1. UNCHANGED <<disk, published, lock, mem, plan, clock, crashes>>
      /\ pc[p] = "idle"
      /\ pc' = [pc EXCEPT ![p] = "wait"]
      /\ reply' = [reply EXCEPT ![p] = NoReply]
    BY DEF CallResolve, CallComplete
<1>2. calls' \in 0..MaxRuns
    <2>1. calls \in 0..MaxRuns
        BY DEF TypeOK
    <2>2. (calls' = calls + 1 /\ calls < MaxRuns) \/ calls' = calls
        BY DEF CallResolve, CallComplete
    <2>. QED BY <2>1, <2>2, BoundsAssumption
<1>3. PICK c \in Calls :
        /\ call' = [call EXCEPT ![p] = c]
        /\ \/ c.op = "resolve" /\ c.fp \in Fingerprints
           \/ c.op = "complete" /\ c.run \in RunIds /\ c.artifact \in Artifacts
    <2>1. CASE CallResolve(p)
        <3>1. PICK f \in Fingerprints, k \in BOOLEAN, x \in ExtPaths \cup {None} :
                call' = [call EXCEPT ![p] = [NoCall EXCEPT
                      !.op = "resolve", !.fp = f, !.clean = k, !.path = x,
                      !.now = clock]]
            BY <2>1 DEF CallResolve
        <3>. DEFINE d == [NoCall EXCEPT !.op = "resolve", !.fp = f,
                             !.clean = k, !.path = x, !.now = clock]
        <3>2. clock \in 0..MaxClock
            BY DEF TypeOK
        <3>3. d \in Calls /\ d.op = "resolve" /\ d.fp = f
            BY <3>2 DEF NoCall, Calls
        <3>. QED BY <3>1, <3>3
    <2>2. CASE CallComplete(p)
        <3>1. PICK r \in dirs, x \in ExtPaths \cup {None}, a \in Artifacts :
                call' = [call EXCEPT ![p] = [NoCall EXCEPT
                      !.op = "complete", !.run = r, !.path = x,
                      !.artifact = a]]
            BY <2>2 DEF CallComplete
        <3>2. 0 \in 0..MaxClock /\ r \in RunIds
            BY <3>1, BoundsAssumption DEF TypeOK
        <3>. DEFINE d == [NoCall EXCEPT !.op = "complete", !.run = r,
                             !.path = x, !.artifact = a]
        <3>3. d \in Calls /\ d.op = "complete" /\ d.run = r /\ d.artifact = a
            BY <3>2 DEF NoCall, Calls
        <3>. QED BY <3>1, <3>2, <3>3
    <2>. QED BY <2>1, <2>2
<1>4. TypeOK'
    BY <1>1, <1>2, <1>3 DEF TypeOK, disk, NoReply, Actions
<1>5. LockInv'
    BY <1>1 DEF LockInv, Busy, TypeOK
<1>6. CallInv'
    BY <1>1, <1>3 DEF CallInv, Busy, TypeOK
<1>7. MemInv'
    BY <1>1 DEF MemInv, disk, TypeOK
<1>8. PlanInv'
    <2>1. \A q \in Procs : q # p => pc'[q] = pc[q] /\ call'[q] = call[q]
        BY <1>1, <1>3 DEF TypeOK
    <2>2. pc'[p] = "wait"
        BY <1>1 DEF TypeOK
    <2>. QED BY <1>1, <2>1, <2>2 DEF PlanInv, PlannedRun, PlannedCompletion, disk, Known
<1>9. RepliesAreDurable'
    BY <1>1 DEF RepliesAreDurable, NoReply, disk, Known, TypeOK
<1>. QED BY <1>1, <1>4, <1>5, <1>6, <1>7, <1>8, <1>9, FilesUnchanged DEF disk

LEMMA AcquireStep ==
    ASSUME IInv, NEW p \in Procs, Acquire(p)
    PROVE  IInv'
<1>. USE DEF IInv, Acquire
<1>1. TypeOK'
    BY DEF TypeOK, disk, Busy
<1>2. LockInv'
    BY ProcsAssumption DEF LockInv, Busy, TypeOK
<1>3. CallInv' /\ MemInv' /\ PlanInv'
    <2>1. \A q \in Procs : q # p => pc'[q] = pc[q]
        BY DEF TypeOK
    <2>2. pc'[p] = "locked" /\ pc[p] = "wait"
        BY DEF TypeOK
    <2>3. UNCHANGED <<disk, call, mem, plan>>
        OBVIOUS
    <2>4. CallInv'
        BY <2>1, <2>2, <2>3 DEF CallInv, Busy
    <2>5. MemInv'
        BY <2>1, <2>2, <2>3 DEF MemInv, disk
    <2>6. PlanInv'
        BY <2>1, <2>2, <2>3 DEF PlanInv, PlannedRun, PlannedCompletion, disk, Known
    <2>. QED BY <2>4, <2>5, <2>6
<1>4. RepliesAreDurable'
    BY DEF RepliesAreDurable, disk, Known
<1>. QED BY <1>1, <1>2, <1>3, <1>4, FilesUnchanged
\* An index entry is its own projection.
LEMMA IndexEntryFacts ==
    ASSUME NEW d \in Records, d.clean = FALSE, d.invalidated = {}
    PROVE  RecordFromCheckpoint(d) = d
<1>. DEFINE g == RecordFromCheckpoint(d)
<1>1. /\ g \in Records
      /\ g.status = d.status /\ g.fp = d.fp /\ g.parent = d.parent
      /\ g.created = d.created /\ g.path = d.path
      /\ g.artifact = d.artifact /\ g.clean = d.clean
      /\ g.invalidated = d.invalidated
    BY RecordFields
<1>. HIDE DEF g
<1>2. g = d
    BY <1>1, SameFields
<1>. QED BY <1>2 DEF g

\* A record refreshed from its checkpoint takes the mutable fields only.
LEMMA RefreshedFacts ==
    ASSUME NEW a \in Records, NEW b \in Records
    PROVE  LET d == [a EXCEPT !.status = b.status, !.path = b.path,
                              !.artifact = b.artifact] IN
           /\ d \in Records /\ d.status = b.status /\ d.fp = a.fp
           /\ d.parent = a.parent /\ d.created = a.created /\ d.path = b.path
           /\ d.artifact = b.artifact /\ d.clean = a.clean
           /\ d.invalidated = a.invalidated
BY DEF Records

\* Repairing an index that never ran ahead yields exactly the index the
\* checkpoints call for.
LEMMA ReconciledIsProjection ==
    ASSUME IInv
    PROVE  Reconciled(index) = Projection(cps)
<1>. USE DEF IInv
<1>1. index \in [RunIds -> Records] /\ cps \in [RunIds -> Records]
    BY DEF TypeOK
<1>. SUFFICES ASSUME NEW r \in RunIds
              PROVE  Reconciled(index)[r] = Projection(cps)[r]
    BY DEF Reconciled, Projection
<1>2. Projection(cps)[r] = RecordFromCheckpoint(cps[r])
    BY DEF Projection
<1>3. CASE r \notin Known(cps)
    <2>1. cps[r] = NoRecord
        BY <1>3 DEF DiskInv, Known
    <2>2. Reconciled(index)[r] = NoRecord
        BY <1>3 DEF Reconciled
    <2>. QED BY <2>1, <2>2, <1>2, NoRecordFacts
<1>4. CASE r \in Known(cps) /\ r \notin Known(index)
    BY <1>2, <1>4 DEF Reconciled
<1>5. CASE r \in Known(cps) /\ r \in Known(index)
    <2>. DEFINE d == [index[r] EXCEPT !.status = cps[r].status,
                                      !.path = cps[r].path,
                                      !.artifact = cps[r].artifact]
    <2>1. Reconciled(index)[r] = d
        BY <1>5 DEF Reconciled
    <2>0. index[r] \in Records /\ cps[r] \in Records
        BY <1>1
    <2>2. SameIdentity(index[r], cps[r])
        BY <1>5 DEF IndexNeverAhead
    <2>3. index[r].clean = FALSE /\ index[r].invalidated = {}
        <3>1. RecordFromCheckpoint(index[r]) = index[r] /\ index[r] \in Records
            BY <1>1 DEF DiskInv
        <3>. QED BY <3>1, RecordFields
    <2>4. /\ d \in Records
          /\ d.status = cps[r].status /\ d.fp = cps[r].fp
          /\ d.parent = cps[r].parent /\ d.created = cps[r].created
          /\ d.path = cps[r].path /\ d.artifact = cps[r].artifact
          /\ d.clean = FALSE /\ d.invalidated = {}
        BY <2>0, <2>2, <2>3, RefreshedFacts DEF SameIdentity
    <2>. HIDE DEF d
    <2>5. RecordFromCheckpoint(cps[r]) = d
        <3>. DEFINE g == RecordFromCheckpoint(cps[r])
        <3>1. /\ g \in Records
              /\ g.status = cps[r].status /\ g.fp = cps[r].fp
              /\ g.parent = cps[r].parent /\ g.created = cps[r].created
              /\ g.path = cps[r].path /\ g.artifact = cps[r].artifact
              /\ g.clean = FALSE /\ g.invalidated = {}
            BY <1>1, RecordFields
        <3>. HIDE DEF g
        <3>2. g = d
            BY <2>4, <3>1, SameFields
        <3>. QED BY <3>2 DEF g
    <2>. QED BY <2>1, <2>5, <1>2
<1>. QED BY <1>3, <1>4, <1>5

\* After any step that leaves the checkpoints alone and brings the index up
\* to date with them, the files are as the invariant requires.
LEMMA IndexUpToDate ==
    ASSUME IInv, UNCHANGED <<dirs, cps>>, index' = Projection(cps)
    PROVE  /\ DiskInv' /\ IndexNeverAhead' /\ OneUnfinishedPerInput'
           /\ index' \in [RunIds -> Records]
<1>. USE DEF IInv
<1>1. cps \in [RunIds -> Records]
    BY DEF TypeOK
<1>2. \A r \in RunIds :
        LET d == RecordFromCheckpoint(cps[r]) IN
        /\ index'[r] = d /\ d \in Records /\ d.status = cps[r].status
        /\ SameIdentity(d, cps[r]) /\ d.clean = FALSE /\ d.invalidated = {}
    BY <1>1, RecordFields DEF Projection, SameIdentity
<1>3. index' \in [RunIds -> Records]
    BY <1>1, ProjectionFacts
<1>4. ASSUME NEW r \in RunIds
      PROVE  RecordFromCheckpoint(index'[r]) = index'[r]
    <2>. DEFINE d == RecordFromCheckpoint(cps[r])
    <2>1. index'[r] = d /\ d \in Records /\ d.clean = FALSE /\ d.invalidated = {}
        BY <1>2
    <2>. HIDE DEF d
    <2>2. RecordFromCheckpoint(d) = d
        BY <2>1, IndexEntryFacts
    <2>. QED BY <2>1, <2>2
<1>5. DiskInv'
    BY <1>4 DEF DiskInv
<1>6. IndexNeverAhead'
    BY <1>2 DEF IndexNeverAhead, Known
<1>7. OneUnfinishedPerInput'
    BY DEF OneUnfinishedPerInput, Known
<1>. QED BY <1>3, <1>5, <1>6, <1>7

LEMMA ReconcileStep ==
    ASSUME IInv, NEW p \in Procs, Reconcile(p)
    PROVE  IInv'
<1>. USE DEF IInv
<1>1. /\ UNCHANGED <<dirs, cps, published, lock, call, plan, reply, clock,
                     calls, crashes>>
      /\ pc[p] = "locked"
      /\ mem' = [mem EXCEPT ![p] = Projection(cps)]
      /\ index' = Projection(cps)
    BY ReconciledIsProjection DEF Reconcile
<1>2. /\ call[p].op = "resolve" => pc' = [pc EXCEPT ![p] = "decide"]
      /\ call[p].op # "resolve" => pc' = [pc EXCEPT ![p] = "check"]
    BY DEF Reconcile
<1>3. pc'[p] \in {"decide", "check"} /\ pc' \in [Procs -> {"idle", "wait"} \cup Busy]
    BY <1>2 DEF TypeOK, Busy
<1>4. \A q \in Procs : q # p => pc'[q] = pc[q] /\ mem'[q] = mem[q]
    BY <1>1, <1>2 DEF TypeOK
<1>5. mem'[p] = Projection(cps)
    BY <1>1 DEF TypeOK
<1>6. TypeOK'
    BY <1>1, <1>3, <1>5, IndexUpToDate DEF TypeOK
<1>7. LockInv'
    BY <1>1, <1>3, <1>4 DEF LockInv, Busy
<1>8. CallInv'
    <2>1. pc[p] \in Busy
        BY <1>1 DEF Busy
    <2>2. call[p].op = "resolve" => pc'[p] = "decide"
        BY <1>2 DEF TypeOK
    <2>3. call[p].op # "resolve" => pc'[p] = "check"
        BY <1>2 DEF TypeOK
    <2>. QED BY <1>1, <1>3, <1>4, <2>1, <2>2, <2>3 DEF CallInv, Busy
<1>9. MemInv'
    BY <1>1, <1>3, <1>4, <1>5 DEF MemInv
<1>10. PlanInv'
    BY <1>1, <1>3, <1>4 DEF PlanInv, PlannedRun, PlannedCompletion, Known
<1>11. RepliesAreDurable'
    BY <1>1 DEF RepliesAreDurable, Known
<1>. QED BY <1>1, <1>6, <1>7, <1>8, <1>9, <1>10, <1>11, IndexUpToDate

\* A plan of a process that does not move stays what it was.
LEMMA PlanFrame ==
    ASSUME NEW q \in Procs, UNCHANGED <<dirs, cps>>, pc'[q] = pc[q],
           call'[q] = call[q], plan'[q] = plan[q]
    PROVE  /\ PlannedRun(q)' <=> PlannedRun(q)
           /\ PlannedCompletion(q)' <=> PlannedCompletion(q)
<1>1. PlannedRun(q)' <=> PlannedRun(q)
    BY DEF PlannedRun
<1>2. PlannedCompletion(q)' <=> PlannedCompletion(q)
    BY DEF PlannedCompletion, Known
<1>. QED BY <1>1, <1>2

\* The end of a call: whatever it answers must be backed by a checkpoint.
LEMMA ReturnStep ==
    ASSUME IInv, NEW p \in Procs, NEW answer, pc[p] \in Busy,
           Return(p, answer), UNCHANGED <<dirs, cps, published, clock, calls,
                                          crashes>>,
           index' \in [RunIds -> Records],
           answer \in [action : Actions, run : {0} \cup RunIds],
           answer.action \in {"created", "resumed", "reused", "completed"}
              => answer.run \in Known(cps),
           answer.action \in {"reused", "completed"}
              => cps[answer.run].status = "completed"
    PROVE  /\ TypeOK' /\ LockInv' /\ CallInv' /\ MemInv' /\ PlanInv'
           /\ RepliesAreDurable'
<1>. USE DEF IInv, Return
<1>1. NoCall \in Calls
    BY BoundsAssumption DEF NoCall, Calls
<1>2. NoIndex \in [RunIds -> Records] /\ NoPlan.ck \in Records
      /\ NoPlan \in [run : {0} \cup RunIds, ck : Records]
    BY NoRecordFacts DEF NoIndex, NoPlan
<1>3. TypeOK'
    BY <1>1, <1>2 DEF TypeOK
<1>4. pc'[p] = "idle" /\ \A q \in Procs : q # p =>
         /\ pc'[q] = pc[q] /\ call'[q] = call[q] /\ mem'[q] = mem[q]
         /\ plan'[q] = plan[q] /\ reply'[q] = reply[q]
    BY DEF TypeOK
<1>5. LockInv'
    <2>1. \A q \in Procs : q # p => pc[q] \notin Busy
        BY OneHolder
    <2>. QED BY <1>4, <2>1, ProcsAssumption DEF LockInv, Busy
<1>6. CallInv'
    BY <1>4 DEF CallInv, Busy
<1>7. MemInv'
    BY <1>4 DEF MemInv
<1>8. PlanInv'
    BY <1>4, PlanFrame DEF PlanInv, Known
<1>9. RepliesAreDurable'
    <2>1. reply'[p] = answer
        BY DEF TypeOK
    <2>. QED BY <1>4, <2>1 DEF RepliesAreDurable, Known
<1>. QED BY <1>3, <1>5, <1>6, <1>7, <1>8, <1>9

LEMMA AnswerStep ==
    ASSUME IInv, NEW p \in Procs, Resume(p) \/ Reuse(p) \/ Refuse(p)
    PROVE  IInv'
<1>. USE DEF IInv
<1>1. UNCHANGED <<disk, published, clock, calls, crashes>>
    BY DEF Resume, Reuse, Refuse
<1>2. pc[p] \in Busy
    BY DEF Resume, Reuse, Refuse, Busy
<1>3. PICK answer :
        /\ Return(p, answer)
        /\ answer \in [action : Actions, run : {0} \cup RunIds]
        /\ answer.action \in {"created", "resumed", "reused", "completed"}
              => answer.run \in Known(cps)
        /\ answer.action \in {"reused", "completed"}
              => cps[answer.run].status = "completed"
    <2>1. CASE Resume(p)
        <3>. DEFINE S == Unfinished(mem[p], call[p].fp)
                    r == Latest(mem[p], S)
        <3>1. S # {} /\ mem[p] = Projection(cps) /\ cps \in [RunIds -> Records]
            BY <2>1 DEF Resume, MemInv, TypeOK
        <3>a. S \in SUBSET RunIds
            BY DEF Unfinished, Matching, Known
        <3>b. mem[p] \in [RunIds -> Records]
            BY DEF TypeOK
        <3>2. r \in S
            <4>. HIDE DEF S
            <4>. QED BY <3>1, <3>a, <3>b, LatestExists
        <3>3. S = Unfinished(cps, call[p].fp)
            BY <3>1, ProjectionFacts
        <3>4. r \in Known(cps) /\ r \in RunIds
            BY <3>2, <3>3 DEF Unfinished, Matching, Known
        <3>5. Return(p, [action |-> "resumed", run |-> r])
            BY <2>1 DEF Resume
        <3>. HIDE DEF r, S
        <3>. QED BY <3>4, <3>5 DEF Actions
    <2>2. CASE Reuse(p)
        <3>. DEFINE S == Reusable(mem[p], call[p].fp, published)
                    r == Latest(mem[p], S)
        <3>1. S # {} /\ mem[p] = Projection(cps) /\ cps \in [RunIds -> Records]
            BY <2>2 DEF Reuse, MemInv, TypeOK
        <3>a. S \in SUBSET RunIds
            BY DEF Reusable, Matching, Known
        <3>b. mem[p] \in [RunIds -> Records]
            BY DEF TypeOK
        <3>2. r \in S
            <4>. HIDE DEF S
            <4>. QED BY <3>1, <3>a, <3>b, LatestExists
        <3>3. r \in RunIds /\ mem[p][r].status = "completed"
            BY <3>2 DEF Reusable, Matching, Known
        <3>4. mem[p][r] = RecordFromCheckpoint(cps[r])
            BY <3>1, <3>3 DEF Projection
        <3>5. cps[r].status = "completed"
            BY <3>1, <3>3, <3>4, RecordFields
        <3>6. Return(p, [action |-> "reused", run |-> r])
            BY <2>2 DEF Reuse
        <3>. HIDE DEF r, S
        <3>. QED BY <3>3, <3>5, <3>6 DEF Actions, Known
    <2>3. CASE Refuse(p)
        BY <2>3 DEF Refuse, Fail, Actions
    <2>. QED BY <2>1, <2>2, <2>3
<1>4. index' \in [RunIds -> Records]
    BY <1>1 DEF disk, TypeOK
<1>5. UNCHANGED <<dirs, cps>>
    BY <1>1 DEF disk
<1>. QED BY <1>1, <1>2, <1>3, <1>4, <1>5, ReturnStep, FilesUnchanged

LEMMA AllocateStep ==
    ASSUME IInv, NEW p \in Procs, Allocate(p)
    PROVE  IInv'
<1>. USE DEF IInv
<1>. DEFINE c == call[p]
            free == RunIds \ dirs
            r == CHOOSE v \in free : \A w \in free : v <= w
            k == NewCheckpoint(cps, c.fp, c.clean, c.path, c.now)
<1>1. /\ UNCHANGED <<cps, index, published, lock, call, mem, reply, clock,
                     calls, crashes>>
      /\ pc[p] = "decide" /\ free # {}
      /\ dirs' = dirs \cup {r}
      /\ pc' = [pc EXCEPT ![p] = "planned"]
    BY DEF Allocate
<1>2. mem[p] = Projection(cps) /\ cps \in [RunIds -> Records]
    BY <1>1 DEF MemInv, TypeOK
<1>3. /\ c.op = "resolve" /\ c.fp \in Fingerprints
      /\ c.clean \in BOOLEAN /\ c.path \in ExtPaths \cup {None}
      /\ c.now \in 0..MaxClock
    BY <1>1 DEF CallInv, Busy, TypeOK, Calls
<1>4. k = NewCheckpoint(mem[p], c.fp, c.clean, c.path, c.now) /\ k \in Records
    <2>1. ASSUME NEW f \in Fingerprints, NEW b \in BOOLEAN,
                 NEW x \in ExtPaths \cup {None}, NEW t \in 0..MaxClock
          PROVE  /\ NewCheckpoint(mem[p], f, b, x, t)
                       = NewCheckpoint(cps, f, b, x, t)
                 /\ NewCheckpoint(cps, f, b, x, t) \in Records
        BY <1>2, NewCheckpointFacts
    <2>. QED BY <1>3, <2>1
<1>5. plan' = [plan EXCEPT ![p] = [run |-> r, ck |-> k]]
    BY <1>4 DEF Allocate
<1>6. c.clean \/ Unfinished(cps, c.fp) = {}
    BY <1>2, ProjectionFacts DEF Allocate
<1>7. r \in free
    <2>1. free \in SUBSET Nat
        BY BoundsAssumption DEF RunIds
    <2>2. \E v \in free : \A w \in free : v <= w
        BY <1>1, <2>1, LeastNat
    <2>. QED BY <2>2
<1>8. r \in RunIds /\ r \notin dirs
    BY <1>7
<1>9. cps[r].status = "absent"
    BY <1>8 DEF DiskInv
<1>. HIDE DEF r, k, free
<1>10. TypeOK'
    BY <1>1, <1>4, <1>5, <1>8 DEF TypeOK, Busy
<1>11. pc'[p] = "planned" /\ plan'[p] = [run |-> r, ck |-> k]
       /\ \A q \in Procs : q # p => pc'[q] = pc[q] /\ plan'[q] = plan[q]
    BY <1>1, <1>5 DEF TypeOK
<1>12. LockInv'
    BY <1>1, <1>11 DEF LockInv, Busy
<1>13. CallInv'
    BY <1>1, <1>11 DEF CallInv, Busy
<1>14. MemInv'
    BY <1>1, <1>2, <1>11 DEF MemInv
<1>15. PlanInv'
    <2>1. PlannedRun(p)'
        BY <1>1, <1>3, <1>6, <1>9, <1>11 DEF PlannedRun, k
    <2>2. ASSUME NEW q \in Procs, q # p
          PROVE  pc'[q] \notin {"planned", "saved"}
        BY <1>1, <1>11, <2>2, OneHolder DEF Busy
    <2>. QED BY <1>1, <1>3, <1>11, <2>1, <2>2 DEF PlanInv
<1>16. DiskInv'
    BY <1>1 DEF DiskInv
<1>17. IndexNeverAhead' /\ OneUnfinishedPerInput' /\ RepliesAreDurable'
    BY <1>1 DEF IndexNeverAhead, OneUnfinishedPerInput, RepliesAreDurable, Known
<1>. QED BY <1>10, <1>12, <1>13, <1>14, <1>15, <1>16, <1>17

LEMMA ApproveStep ==
    ASSUME IInv, NEW p \in Procs, Approve(p)
    PROVE  IInv'
<1>. USE DEF IInv
<1>. DEFINE run == call[p].run
            x   == PathToPublish(p)
            k   == CompletedCheckpoint(cps[run], x, call[p].artifact)
<1>1. /\ UNCHANGED <<disk, published, lock, call, mem, reply, clock, calls,
                     crashes>>
      /\ pc[p] = "check" /\ MayComplete(p)
      /\ plan' = [plan EXCEPT ![p] = [run |-> run, ck |-> k]]
      /\ pc' = [pc EXCEPT ![p] = "planned"]
    BY DEF Approve
<1>2. mem[p] = Projection(cps) /\ cps \in [RunIds -> Records]
    BY <1>1 DEF MemInv, TypeOK
<1>3. call[p].op = "complete" /\ run \in RunIds /\ call[p].artifact \in Artifacts
    BY <1>1 DEF CallInv, Busy
<1>4. run \in Known(cps)
    BY <1>1, <1>2, ProjectionFacts DEF MayComplete
<1>5. x \in Paths
    BY <1>1 DEF MayComplete, TypeOK
<1>6. k \in Records
    <2>1. cps[run] \in Records
        BY <1>2, <1>3
    <2>. QED BY <2>1, <1>3, <1>5, CompletedFacts
<1>7. cps[run].path \in {None, x}
    <2>1. mem[p][run] = RecordFromCheckpoint(cps[run]) /\ cps[run] \in Records
        BY <1>2, <1>3 DEF Projection
    <2>2. mem[p][run].path = cps[run].path
        BY <2>1, RecordFields
    <2>3. call[p].path # None => cps[run].path \in {None, call[p].path}
        BY <1>1, <2>2 DEF MayComplete
    <2>4. call[p].path = None => x = ResultPath(cps, run)
        BY <1>2, <1>3, ProjectionFacts DEF PathToPublish
    <2>. QED BY <2>3, <2>4 DEF PathToPublish, ResultPath
<1>. HIDE DEF x, k, run
<1>8. TypeOK'
    BY <1>1, <1>3, <1>6 DEF TypeOK, Busy, disk
<1>9. pc'[p] = "planned" /\ plan'[p] = [run |-> run, ck |-> k]
      /\ \A q \in Procs : q # p => pc'[q] = pc[q] /\ plan'[q] = plan[q]
    BY <1>1 DEF TypeOK
<1>10. LockInv'
    BY <1>1, <1>9 DEF LockInv, Busy
<1>11. CallInv'
    BY <1>1, <1>9 DEF CallInv, Busy
<1>12. MemInv'
    BY <1>1, <1>2, <1>9 DEF MemInv, disk
<1>13. PlanInv'
    <2>1. PlannedCompletion(p)'
        BY <1>1, <1>4, <1>5, <1>7, <1>9 DEF PlannedCompletion, k, disk, Known
    <2>2. ASSUME NEW q \in Procs, q # p
          PROVE  pc'[q] \notin {"planned", "saved"}
        BY <1>1, <1>9, <2>2, OneHolder DEF Busy
    <2>. QED BY <1>1, <1>3, <1>9, <2>1, <2>2 DEF PlanInv
<1>14. RepliesAreDurable'
    BY <1>1 DEF RepliesAreDurable, Known, disk
<1>. QED BY <1>1, <1>8, <1>10, <1>11, <1>12, <1>13, <1>14, FilesUnchanged

\* What a process that is about to write a checkpoint is going to write.
LEMMA PlannedFacts ==
    ASSUME IInv, NEW p \in Procs, pc[p] = "planned"
    PROVE  LET run == plan[p].run
               k   == plan[p].ck
           IN  /\ run \in RunIds /\ run \in dirs /\ k \in Records
               /\ k.status # "absent"
               /\ cps[run].status # "absent" =>
                     /\ call[p].op = "complete" /\ k.status = "completed"
                     /\ SameIdentity(cps[run], k) /\ k.clean = cps[run].clean
               /\ k.status = "in_progress" =>
                     k.clean \/ Unfinished(cps, k.fp) = {}
               /\ call[p].op = "complete" => k.status = "completed"
               /\ call[p].op \in {"resolve", "complete"}
<1>. USE DEF IInv
<1>1. cps \in [RunIds -> Records] /\ dirs \in SUBSET RunIds
    BY DEF TypeOK
<1>2. call[p] \in Calls /\ plan[p].ck \in Records
    BY DEF TypeOK
<1>3. \/ call[p].op = "resolve" /\ call[p].fp \in Fingerprints
      \/ call[p].op = "complete" /\ call[p].artifact \in Artifacts
    BY DEF CallInv, Busy
<1>4. CASE call[p].op = "resolve"
    <2>1. PlannedRun(p)
        BY <1>4 DEF PlanInv
    <2>2. /\ call[p].fp \in Fingerprints /\ call[p].clean \in BOOLEAN
          /\ call[p].path \in ExtPaths \cup {None} /\ call[p].now \in 0..MaxClock
        BY <1>2, <1>3, <1>4 DEF Calls
    <2>3. ASSUME NEW f \in Fingerprints, NEW b \in BOOLEAN,
                 NEW x \in ExtPaths \cup {None}, NEW t \in 0..MaxClock
          PROVE  /\ NewCheckpoint(cps, f, b, x, t).status = "in_progress"
                 /\ NewCheckpoint(cps, f, b, x, t).fp = f
                 /\ NewCheckpoint(cps, f, b, x, t).clean = b
        BY <1>1, NewCheckpointFacts
    <2>4. /\ plan[p].ck.status = "in_progress"
          /\ plan[p].ck.fp = call[p].fp /\ plan[p].ck.clean = call[p].clean
        BY <2>1, <2>2, <2>3 DEF PlannedRun
    <2>. QED BY <1>1, <1>2, <1>4, <2>1, <2>4 DEF PlannedRun
<1>5. CASE call[p].op = "complete"
    <2>1. PlannedCompletion(p)
        BY <1>5 DEF PlanInv
    <2>2. PICK x \in Paths :
            plan[p].ck = CompletedCheckpoint(cps[plan[p].run], x,
                                             call[p].artifact)
        BY <2>1 DEF PlannedCompletion
    <2>3. plan[p].run \in RunIds /\ cps[plan[p].run].status # "absent"
        BY <2>1 DEF PlannedCompletion, Known
    <2>4. cps[plan[p].run] \in Records /\ call[p].artifact \in Artifacts
        BY <1>1, <1>3, <1>5, <2>3
    <2>5. /\ plan[p].ck.status = "completed"
          /\ SameIdentity(cps[plan[p].run], plan[p].ck)
          /\ plan[p].ck.clean = cps[plan[p].run].clean
        BY <2>2, <2>4, CompletedFacts DEF SameIdentity
    <2>6. plan[p].run \in dirs
        BY <2>3 DEF DiskInv
    <2>. QED BY <1>2, <1>5, <2>3, <2>5, <2>6
<1>. QED BY <1>3, <1>4, <1>5

LEMMA SaveCheckpointStep ==
    ASSUME IInv, NEW p \in Procs, SaveCheckpoint(p)
    PROVE  IInv'
<1>. USE DEF IInv
<1>. DEFINE run == plan[p].run
            k   == plan[p].ck
<1>1. /\ UNCHANGED <<dirs, index, published, lock, call, mem, plan, reply,
                     clock, calls, crashes>>
      /\ pc[p] = "planned"
      /\ cps' = [cps EXCEPT ![run] = k]
      /\ pc' = [pc EXCEPT ![p] = "saved"]
    BY DEF SaveCheckpoint
<1>2. /\ run \in RunIds /\ run \in dirs /\ k \in Records
      /\ k.status # "absent"
      /\ cps[run].status # "absent" =>
            /\ call[p].op = "complete" /\ k.status = "completed"
            /\ SameIdentity(cps[run], k) /\ k.clean = cps[run].clean
      /\ k.status = "in_progress" => k.clean \/ Unfinished(cps, k.fp) = {}
      /\ call[p].op = "complete" => k.status = "completed"
    BY <1>1, PlannedFacts
<1>. HIDE DEF run, k
<1>3. /\ cps \in [RunIds -> Records] /\ index \in [RunIds -> Records]
      /\ cps'[run] = k /\ \A r \in RunIds : r # run => cps'[r] = cps[r]
    BY <1>1, <1>2 DEF TypeOK
<1>4. TypeOK'
    BY <1>1, <1>2 DEF TypeOK, Busy
<1>5. pc'[p] = "saved" /\ \A q \in Procs : q # p => pc'[q] = pc[q]
    BY <1>1 DEF TypeOK
<1>6. \A q \in Procs : q # p => pc'[q] \notin Busy
    BY <1>1, <1>5, OneHolder DEF Busy
<1>7. LockInv' /\ CallInv'
    BY <1>1, <1>5 DEF LockInv, CallInv, Busy
<1>8. DiskInv'
    BY <1>1, <1>2, <1>3 DEF DiskInv
<1>9. IndexNeverAhead'
    BY <1>1, <1>2, <1>3 DEF IndexNeverAhead, Known, SameIdentity
<1>10. OneUnfinishedPerInput'
    <2>. SUFFICES ASSUME NEW r \in RunIds, NEW s \in RunIds, r # s,
                         cps'[r].fp = cps'[s].fp,
                         cps'[r].status = "in_progress",
                         cps'[s].status = "in_progress"
                  PROVE  cps'[r].clean \/ cps'[s].clean
        BY DEF OneUnfinishedPerInput, Known
    <2>1. CASE r # run /\ s # run
        BY <2>1, <1>3 DEF OneUnfinishedPerInput, Known
    <2>2. ASSUME NEW u \in RunIds, u # run, cps'[u].status = "in_progress",
                 cps'[u].fp = k.fp, k.status = "in_progress"
          PROVE  k.clean
        <3>1. cps[u].fp = k.fp /\ cps[u].status = "in_progress"
            BY <2>2, <1>3
        <3>2. u \in Unfinished(cps, k.fp)
            BY <3>1 DEF Unfinished, Matching, Known
        <3>. QED BY <3>2, <2>2, <1>2
    <2>3. CASE r = run
        BY <2>2, <2>3, <1>3
    <2>4. CASE s = run
        BY <2>2, <2>4, <1>3
    <2>. QED BY <2>1, <2>3, <2>4
<1>11. MemInv'
    <2>1. mem[p] = Projection(cps)
        BY <1>1 DEF MemInv
    <2>2. \A r \in RunIds : r # run => mem'[p][r] = RecordFromCheckpoint(cps'[r])
        BY <1>1, <1>3, <2>1 DEF Projection
    <2>3. plan'[p].run = run
        BY <1>1 DEF run
    <2>. QED BY <1>5, <1>6, <2>2, <2>3 DEF MemInv, Busy
<1>12. PlanInv'
    <2>1. plan'[p].run = run /\ plan'[p].ck = k /\ call' = call
        BY <1>1 DEF run, k
    <2>2. run \in Known(cps')
        BY <1>2, <1>3 DEF Known
    <2>. QED BY <1>2, <1>3, <1>5, <1>6, <2>1, <2>2 DEF PlanInv, Busy
<1>13. RepliesAreDurable'
    <2>1. \A r \in Known(cps) :
            /\ r \in Known(cps')
            /\ cps[r].status = "completed" => cps'[r].status = "completed"
        BY <1>2, <1>3 DEF Known
    <2>2. reply' = reply
        BY <1>1
    <2>. QED BY <2>1, <2>2 DEF RepliesAreDurable
<1>. QED BY <1>4, <1>7, <1>8, <1>9, <1>10, <1>11, <1>12, <1>13

LEMMA SaveIndexStep ==
    ASSUME IInv, NEW p \in Procs, SaveIndex(p)
    PROVE  IInv'
<1>. USE DEF IInv
<1>. DEFINE run == plan[p].run
            answer == [action |-> IF call[p].op = "resolve" THEN "created"
                                  ELSE "completed",
                       run |-> run]
<1>1. /\ UNCHANGED <<dirs, cps, published, clock, calls, crashes>>
      /\ pc[p] = "saved" /\ pc[p] \in Busy
      /\ index' = [mem[p] EXCEPT ![run] = RecordFromCheckpoint(plan[p].ck)]
      /\ Return(p, answer)
    BY DEF SaveIndex, Busy
<1>2. /\ run \in Known(cps) /\ cps[run] = plan[p].ck
      /\ call[p].op = "complete" => plan[p].ck.status = "completed"
    BY <1>1 DEF PlanInv
<1>3. run \in RunIds /\ call[p].op \in {"resolve", "complete"}
    BY <1>1, <1>2 DEF Known, CallInv
<1>4. mem[p] \in [RunIds -> Records]
    BY DEF TypeOK
<1>5. index' = Projection(cps)
    <2>1. \A r \in RunIds : r # run => mem[p][r] = RecordFromCheckpoint(cps[r])
        BY <1>1 DEF MemInv
    <2>. HIDE DEF run
    <2>. QED BY <1>1, <1>2, <1>3, <1>4, <2>1 DEF Projection
<1>6. DiskInv' /\ IndexNeverAhead' /\ OneUnfinishedPerInput'
      /\ index' \in [RunIds -> Records]
    BY <1>1, <1>5, IndexUpToDate
<1>7. /\ answer \in [action : Actions, run : {0} \cup RunIds]
      /\ answer.run \in Known(cps)
      /\ answer.action \in {"reused", "completed"}
            => cps[answer.run].status = "completed"
    BY <1>2, <1>3 DEF Actions
<1>. HIDE DEF answer
<1>. QED BY <1>1, <1>6, <1>7, ReturnStep

LEMMA CrashStep ==
    ASSUME IInv, NEW p \in Procs, Crash(p)
    PROVE  IInv'
<1>. USE DEF IInv, Crash
<1>1. NoCall \in Calls /\ NoIndex \in [RunIds -> Records]
      /\ NoPlan \in [run : {0} \cup RunIds, ck : Records]
    BY BoundsAssumption, NoRecordFacts DEF NoCall, Calls, NoIndex, NoPlan
<1>2. crashes' \in 0..MaxCrashes
    BY ProcsAssumption DEF TypeOK
<1>3. TypeOK'
    BY <1>1, <1>2 DEF TypeOK, disk
<1>4. pc'[p] = "idle" /\ \A q \in Procs : q # p =>
         /\ pc'[q] = pc[q] /\ call'[q] = call[q] /\ mem'[q] = mem[q]
         /\ plan'[q] = plan[q]
    BY DEF TypeOK
<1>5. LockInv'
    BY <1>4, ProcsAssumption DEF LockInv, Busy
<1>6. CallInv' /\ MemInv'
    BY <1>4 DEF CallInv, MemInv, Busy, disk
<1>7. PlanInv'
    <2>1. UNCHANGED <<dirs, cps>>
        BY DEF disk
    <2>. QED BY <1>4, <2>1, PlanFrame DEF PlanInv, Known
<1>8. RepliesAreDurable'
    BY DEF RepliesAreDurable, Known, disk
<1>. QED BY <1>3, <1>5, <1>6, <1>7, <1>8, FilesUnchanged

LEMMA EnvironmentStep ==
    ASSUME IInv, Tick \/ \E x \in Paths : Publish(x) \/ Unpublish(x)
    PROVE  IInv'
<1>. USE DEF IInv
<1>1. UNCHANGED <<disk, lock, local, calls, crashes>>
    BY DEF Tick, Publish, Unpublish
<1>2. published' \in SUBSET Paths
    BY DEF Tick, Publish, Unpublish, TypeOK
<1>3. clock' \in 0..MaxClock
    BY BoundsAssumption DEF Tick, Publish, Unpublish, TypeOK
<1>4. TypeOK'
    BY <1>1, <1>2, <1>3 DEF TypeOK, disk, local
<1>5. LockInv' /\ CallInv' /\ MemInv' /\ RepliesAreDurable'
    BY <1>1 DEF LockInv, CallInv, MemInv, RepliesAreDurable, disk, local, Known
<1>6. PlanInv'
    BY <1>1, PlanFrame DEF PlanInv, disk, local, Known
<1>. QED BY <1>1, <1>4, <1>5, <1>6, FilesUnchanged DEF disk

LEMMA StutterStep == IInv /\ UNCHANGED vars => IInv'
<1>. SUFFICES ASSUME IInv, UNCHANGED vars PROVE IInv'
    OBVIOUS
<1>1. UNCHANGED <<disk, published, lock, local, clock, calls, crashes>>
    BY DEF vars
<1>2. TypeOK'
    BY <1>1 DEF IInv, TypeOK, disk, local
<1>3. LockInv' /\ CallInv' /\ MemInv' /\ RepliesAreDurable'
    BY <1>1 DEF IInv, LockInv, CallInv, MemInv, RepliesAreDurable, disk,
                local, Known
<1>4. PlanInv'
    BY <1>1, PlanFrame DEF IInv, PlanInv, disk, local, Known
<1>. QED BY <1>1, <1>2, <1>3, <1>4, FilesUnchanged DEF IInv

LEMMA NextIInv == IInv /\ [Next]_vars => IInv'
<1>. SUFFICES ASSUME IInv, [Next]_vars PROVE IInv'
    OBVIOUS
<1>1. ASSUME NEW p \in Procs, CallResolve(p) \/ CallComplete(p)
      PROVE  IInv'
    BY <1>1, CallStep
<1>2. ASSUME NEW p \in Procs, Acquire(p) PROVE IInv'
    BY <1>2, AcquireStep
<1>3. ASSUME NEW p \in Procs, Step(p) PROVE IInv'
    BY <1>3, ReconcileStep, AnswerStep, AllocateStep, ApproveStep,
       SaveCheckpointStep, SaveIndexStep DEF Step
<1>4. ASSUME NEW p \in Procs, Crash(p) PROVE IInv'
    BY <1>4, CrashStep
<1>5. ASSUME Tick \/ \E x \in Paths : Publish(x) \/ Unpublish(x)
      PROVE  IInv'
    BY <1>5, EnvironmentStep
<1>. QED BY <1>1, <1>2, <1>3, <1>4, <1>5, StutterStep DEF Next

\* The inductive invariant holds in every reachable state, whatever the
\* number of processes, runs and crashes.
THEOREM Inductive == Spec => []IInv
BY InitIInv, NextIInv, PTL DEF Spec

\* Every variable keeps its type.
THEOREM TypeCorrect == Spec => []TypeOK
<1>1. IInv => TypeOK
    BY DEF IInv
<1>. QED BY <1>1, Inductive, PTL

\* A crash anywhere between the writes never leaves index.json ahead of the
\* checkpoints it is repaired from.
THEOREM IndexSafe == Spec => []IndexNeverAhead
<1>1. IInv => IndexNeverAhead
    BY DEF IInv
<1>. QED BY <1>1, Inductive, PTL

\* Callers that did not ask for a clean run never get a second unfinished run
\* for the same inputs.
THEOREM NoDuplicateRun == Spec => []OneUnfinishedPerInput
<1>1. IInv => OneUnfinishedPerInput
    BY DEF IInv
<1>. QED BY <1>1, Inductive, PTL

\* What a call answered is on disk.
THEOREM DurableReplies == Spec => []RepliesAreDurable
<1>1. IInv => RepliesAreDurable
    BY DEF IInv
<1>. QED BY <1>1, Inductive, PTL

-----------------------------------------------------------------------------
(* The store implements the abstract table of runs.                         *)

\* The table's own copy of the record operators is the store's.
LEMMA RegistryOperators ==
    /\ Registry!RunIds = RunIds /\ Registry!Paths = Paths
    /\ Registry!NoRecord = NoRecord
    /\ \A ix : Registry!Known(ix) = Known(ix)
    /\ \A ix, f : Registry!Unfinished(ix, f) = Unfinished(ix, f)
    /\ \A ix, f, c, x, t :
          Registry!NewCheckpoint(ix, f, c, x, t) = NewCheckpoint(ix, f, c, x, t)
    /\ \A c, x, a :
          Registry!CompletedCheckpoint(c, x, a) = CompletedCheckpoint(c, x, a)
<1>1. Registry!RunIds = RunIds /\ Registry!NoRecord = NoRecord
    BY DEF Registry!RunIds, RunIds, Registry!NoRecord, NoRecord
<1>2. Registry!Paths = Paths
    BY <1>1 DEF Registry!Paths, Paths
<1>3. \A ix : Registry!Known(ix) = Known(ix)
    BY <1>1 DEF Registry!Known, Known
<1>4. \A ix, f : Registry!Unfinished(ix, f) = Unfinished(ix, f)
    BY <1>3 DEF Registry!Unfinished, Unfinished, Registry!Matching, Matching
<1>5. \A ix, S : Registry!Latest(ix, S) = Latest(ix, S)
    BY <1>1 DEF Registry!Latest, Latest, Registry!Newest, Newest,
                Registry!NotNewer, NotNewer, Registry!Created, Created
<1>6. \A ix, c : Registry!ParentOf(ix, c) = ParentOf(ix, c)
    BY <1>3, <1>5 DEF Registry!ParentOf, ParentOf
<1>7. \A ix, f, par : Registry!Invalidates(ix, f, par) = Invalidates(ix, f, par)
    BY DEF Registry!Invalidates, Invalidates
<1>8. \A ix, f, c, x, t :
          Registry!NewCheckpoint(ix, f, c, x, t) = NewCheckpoint(ix, f, c, x, t)
    BY <1>6, <1>7 DEF Registry!NewCheckpoint, NewCheckpoint
<1>9. \A c, x, a :
          Registry!CompletedCheckpoint(c, x, a) = CompletedCheckpoint(c, x, a)
    BY DEF Registry!CompletedCheckpoint, CompletedCheckpoint
<1>. QED BY <1>1, <1>2, <1>3, <1>4, <1>8, <1>9

\* Writing a planned checkpoint is one Create or one Complete of the table.
LEMMA SaveCheckpointIsAtomic ==
    ASSUME IInv, NEW p \in Procs, SaveCheckpoint(p)
    PROVE  Registry!Next
<1>. USE DEF IInv
<1>. DEFINE run == plan[p].run
            c   == call[p]
<1>1. /\ cps' = [cps EXCEPT ![run] = plan[p].ck] /\ pc[p] = "planned"
    BY DEF SaveCheckpoint
<1>2. run \in RunIds /\ c.op \in {"resolve", "complete"}
    BY <1>1, PlannedFacts
<1>3. c \in Calls
    BY DEF TypeOK
<1>4. \/ c.op = "resolve" /\ c.fp \in Fingerprints
      \/ c.op = "complete" /\ c.artifact \in Artifacts
    BY <1>1 DEF CallInv, Busy
<1>5. CASE c.op = "resolve"
    <2>1. PlannedRun(p)
        BY <1>1, <1>5 DEF PlanInv
    <2>2. /\ c.fp \in Fingerprints /\ c.clean \in BOOLEAN
          /\ c.path \in ExtPaths \cup {None} /\ c.now \in 0..MaxClock
        BY <1>3, <1>4, <1>5 DEF Calls
    <2>3. Registry!Create(run, c.fp, c.clean, c.path, c.now)
        BY <1>1, <2>1, RegistryOperators DEF PlannedRun, Registry!Create
    <2>. QED BY <1>2, <2>2, <2>3, RegistryOperators DEF Registry!Next
<1>6. CASE c.op = "complete"
    <2>1. PICK x \in Paths :
            /\ run \in Known(cps) /\ cps[run].path \in {None, x}
            /\ plan[p].ck = CompletedCheckpoint(cps[run], x, c.artifact)
        BY <1>1, <1>6 DEF PlanInv, PlannedCompletion
    <2>2. Registry!Complete(run, x, c.artifact)
        BY <1>1, <2>1, RegistryOperators DEF Registry!Complete
    <2>. QED BY <1>2, <1>4, <1>6, <2>2, RegistryOperators DEF Registry!Next
<1>. QED BY <1>2, <1>5, <1>6

\* No other step touches a checkpoint.
LEMMA StepSimulation == IInv /\ [Next]_vars => [Registry!Next]_cps
<1>. SUFFICES ASSUME IInv, [Next]_vars PROVE Registry!Next \/ UNCHANGED cps
    OBVIOUS
<1>1. ASSUME NEW p \in Procs,
             \/ CallResolve(p) \/ CallComplete(p) \/ Acquire(p) \/ Crash(p)
             \/ Reconcile(p) \/ Resume(p) \/ Reuse(p) \/ Allocate(p)
             \/ Approve(p) \/ Refuse(p) \/ SaveIndex(p)
      PROVE  UNCHANGED cps
    BY <1>1 DEF CallResolve, CallComplete, Acquire, Crash, Reconcile, Resume,
                Reuse, Allocate, Approve, Refuse, SaveIndex, disk
<1>2. ASSUME NEW p \in Procs, SaveCheckpoint(p) PROVE Registry!Next
    BY <1>2, SaveCheckpointIsAtomic
<1>3. ASSUME Tick \/ \E x \in Paths : Publish(x) \/ Unpublish(x)
      PROVE  UNCHANGED cps
    BY <1>3 DEF Tick, Publish, Unpublish, disk
<1>4. UNCHANGED vars => UNCHANGED cps
    BY DEF vars, disk
<1>. QED BY <1>1, <1>2, <1>3, <1>4 DEF Next, Step

\* Seen through its checkpoints, the concurrent, crashing store is the atomic
\* table of runs: runs are created from the latest state, completed where
\* they are bound, and nothing already recorded is lost.
THEOREM Refinement == Spec => ImplementsRegistry
<1>1. Init => Registry!Init
    BY RegistryOperators DEF Init, NoIndex, Registry!Init
<1>2. IInv /\ [Next]_vars => [Registry!Next]_cps
    BY StepSimulation
<1>. QED BY <1>1, <1>2, Inductive, PTL DEF Spec, ImplementsRegistry, Registry!Spec

-----------------------------------------------------------------------------
(* What is recorded stays.                                                  *)

\* The table jx goes on from the table ix: every run of ix is in jx with the same
\* inputs, parent and creation time, completed if it was, and bound to the same
\* result path if it was bound to one.
GoesOn(ix, jx) ==
    \A r \in Known(ix) :
        /\ r \in Known(jx) /\ SameIdentity(jx[r], ix[r])
        /\ ix[r].status = "completed" => jx[r].status = "completed"
        /\ ix[r].path # None => jx[r].path = ix[r].path

\* No step takes a run, or what it was recorded with, out of the checkpoints or out
\* of the index.
RunsStay == [][GoesOn(cps, cps') /\ GoesOn(index, index')]_vars

\* The checkpoints go on from the index, also in the path a run is bound to.
PathInv == \A r \in Known(index) : index[r].path # None => cps[r].path = index[r].path

\* A table goes on from itself.
LEMMA GoesOnItself == ASSUME NEW ix PROVE GoesOn(ix, ix)
BY DEF GoesOn, SameIdentity

\* One Create or one Complete of the table goes on from the table.
LEMMA RegistryGoesOn ==
    ASSUME cps \in [RunIds -> Records], [Registry!Next]_cps
    PROVE  GoesOn(cps, cps')
<1>1. CASE UNCHANGED cps
    BY <1>1, GoesOnItself
<1>2. ASSUME NEW r \in RunIds, NEW f, NEW c, NEW x, NEW t,
             Registry!Create(r, f, c, x, t)
      PROVE  GoesOn(cps, cps')
    <2>1. r \notin Known(cps)
        BY <1>2 DEF Registry!Create, Known
    <2>2. \A s \in Known(cps) : cps'[s] = cps[s] /\ s \in RunIds
        BY <1>2, <2>1 DEF Registry!Create, Known
    <2>. QED BY <2>2 DEF GoesOn, SameIdentity, Known
<1>3. ASSUME NEW r \in RunIds, NEW x \in Paths, NEW a \in Artifacts,
             Registry!Complete(r, x, a)
      PROVE  GoesOn(cps, cps')
    <2>. DEFINE d == CompletedCheckpoint(cps[r], x, a)
    <2>1. /\ r \in Known(cps) /\ cps[r].path \in {None, x}
          /\ cps' = [cps EXCEPT ![r] = d]
        BY <1>3, RegistryOperators DEF Registry!Complete
    <2>2. /\ d.status = "completed" /\ d.path = x
          /\ d.fp = cps[r].fp /\ d.parent = cps[r].parent /\ d.created = cps[r].created
        BY CompletedFacts
    <2>. HIDE DEF d
    <2>3. cps'[r] = d /\ \A s \in RunIds : s # r => cps'[s] = cps[s]
        BY <2>1
    <2>. QED BY <2>1, <2>2, <2>3 DEF GoesOn, SameIdentity, Known
<1>. QED BY <1>1, <1>2, <1>3, RegistryOperators DEF Registry!Next

\* A step leaves the index as it is or brings it up to date with checkpoints that it
\* leaves as they are.
LEMMA IndexMoves ==
    ASSUME IInv, [Next]_vars
    PROVE  \/ index' = index
           \/ index' = Projection(cps) /\ cps' = cps
<1>1. ASSUME NEW p \in Procs,
             \/ CallResolve(p) \/ CallComplete(p) \/ Acquire(p) \/ Crash(p)
             \/ Resume(p) \/ Reuse(p) \/ Allocate(p) \/ Approve(p) \/ Refuse(p)
             \/ SaveCheckpoint(p)
      PROVE  index' = index
    BY <1>1 DEF CallResolve, CallComplete, Acquire, Crash, Resume, Reuse, Allocate,
                Approve, Refuse, SaveCheckpoint, disk
<1>2. ASSUME NEW p \in Procs, Reconcile(p) PROVE index' = Projection(cps) /\ cps' = cps
    BY <1>2, ReconciledIsProjection DEF Reconcile
<1>3. ASSUME NEW p \in Procs, SaveIndex(p) PROVE index' = Projection(cps) /\ cps' = cps
    <2>. DEFINE run == plan[p].run
    <2>1. /\ cps' = cps /\ pc[p] = "saved"
          /\ index' = [mem[p] EXCEPT ![run] = RecordFromCheckpoint(plan[p].ck)]
        BY <1>3 DEF SaveIndex
    <2>2. run \in RunIds /\ cps[run] = plan[p].ck
        BY <2>1 DEF IInv, PlanInv, Known
    <2>3. \A r \in RunIds : r # run => mem[p][r] = RecordFromCheckpoint(cps[r])
        BY <2>1 DEF IInv, MemInv
    <2>4. mem[p] \in [RunIds -> Records]
        BY DEF IInv, TypeOK
    <2>. HIDE DEF run
    <2>. QED BY <2>1, <2>2, <2>3, <2>4 DEF Projection
<1>4. ASSUME Tick \/ \E x \in Paths : Publish(x) \/ Unpublish(x)
      PROVE  index' = index
    BY <1>4 DEF Tick, Publish, Unpublish, disk
<1>5. UNCHANGED vars => index' = index
    BY DEF vars, disk
<1>. QED BY <1>1, <1>2, <1>3, <1>4, <1>5 DEF Next, Step

\* An index that is up to date goes on from any index the checkpoints go on from.
LEMMA ProjectionGoesOn ==
    ASSUME IInv, PathInv
    PROVE  GoesOn(index, Projection(cps))
<1>1. \A r \in RunIds :
        LET d == Projection(cps)[r] IN
        /\ d.status = cps[r].status /\ d.path = cps[r].path
        /\ SameIdentity(d, cps[r])
    BY RecordFields DEF Projection, SameIdentity, IInv, TypeOK
<1>2. \A r \in Known(index) :
        /\ r \in RunIds /\ r \in Known(cps)
        /\ SameIdentity(index[r], cps[r])
        /\ index[r].status = "completed" => cps[r].status = "completed"
        /\ index[r].path # None => cps[r].path = index[r].path
    BY DEF IInv, IndexNeverAhead, PathInv, Known
<1>. QED BY <1>1, <1>2 DEF GoesOn, SameIdentity, Known

\* The path of an indexed run stays the one of its checkpoint.
LEMMA PathStays ==
    ASSUME IInv, PathInv, [Next]_vars
    PROVE  PathInv'
<1>1. CASE index' = index
    <2>1. GoesOn(cps, cps')
        BY StepSimulation, RegistryGoesOn DEF IInv, TypeOK
    <2>2. \A r \in Known(index) : r \in Known(cps)
        BY DEF IInv, IndexNeverAhead
    <2>. QED BY <1>1, <2>1, <2>2 DEF PathInv, GoesOn
<1>2. CASE index' = Projection(cps) /\ cps' = cps
    <2>1. \A r \in RunIds : index'[r].path = cps[r].path
        BY <1>2, RecordFields DEF Projection, IInv, TypeOK
    <2>. QED BY <1>2, <2>1 DEF PathInv, Known
<1>. QED BY <1>1, <1>2, IndexMoves

\* Neither a crash nor a call that acts on an old copy takes a run back: a run that
\* is on record stays, with its identity, its completion and the path it is bound
\* to, in the checkpoints and in the index.
THEOREM RunsAreKept == Spec => RunsStay
<1>1. Init => PathInv
    BY NoRecordFacts DEF Init, NoIndex, PathInv, Known
<1>2. ASSUME IInv, PathInv, [Next]_vars
      PROVE  GoesOn(cps, cps') /\ GoesOn(index, index')
    <2>1. GoesOn(cps, cps')
        BY <1>2, StepSimulation, RegistryGoesOn DEF IInv, TypeOK
    <2>. QED BY <1>2, <2>1, IndexMoves, ProjectionGoesOn, GoesOnItself
<1>3. IInv /\ PathInv /\ [Next]_vars => [GoesOn(cps, cps') /\ GoesOn(index, index')]_vars
    BY <1>2
<1>4. IInv /\ PathInv /\ [Next]_vars => PathInv'
    BY PathStays
<1>. QED BY <1>1, <1>3, <1>4, Inductive, PTL DEF Spec, RunsStay

-----------------------------------------------------------------------------
(* The runs descend from one another.                                       *)

\* The directories there are have the first version numbers, and a planned run has a
\* number above those of all recorded runs.
NumberInv ==
    /\ \A r \in dirs : \A s \in RunIds : s <= r => s \in dirs
    /\ \A p \in Procs : pc[p] = "planned" /\ call[p].op = "resolve" =>
          \A s \in Known(cps) : s < plan[p].run

\* Every run is a first one or comes from a run on record with a smaller number.
Descent ==
    \A r \in Known(cps) :
        cps[r].parent # 0 => cps[r].parent \in Known(cps) /\ cps[r].parent < r

\* Only Allocate makes directories and plans a new run.
LEMMA NumbersStay ==
    ASSUME IInv, NumberInv, [Next]_vars
    PROVE  NumberInv'
<1>. USE DEF IInv
<1>1. ASSUME NEW p \in Procs, Allocate(p) PROVE NumberInv'
    <2>. DEFINE free == RunIds \ dirs
                v == CHOOSE u \in free : \A w \in free : u <= w
    <2>1. /\ free # {} /\ dirs' = dirs \cup {v} /\ pc[p] = "decide"
          /\ plan'[p].run = v /\ UNCHANGED <<cps, call>>
          /\ pc' = [pc EXCEPT ![p] = "planned"]
        BY <1>1 DEF Allocate, TypeOK
    <2>2. free \in SUBSET Nat /\ RunIds \in SUBSET Nat
        BY BoundsAssumption DEF RunIds
    <2>3. \E u \in free : \A w \in free : u <= w
        BY <2>1, <2>2, LeastNat
    <2>4. v \in free /\ \A w \in free : v <= w
        BY <2>3
    <2>. HIDE DEF v
    <2>5. v \in RunIds /\ v \notin dirs /\ dirs \in SUBSET RunIds
        BY <2>4 DEF TypeOK
    <2>6. \A s \in RunIds : s < v => s \in dirs
        BY <2>2, <2>4, <2>5
    <2>7. \A s \in dirs : s < v
        BY <2>2, <2>5 DEF NumberInv
    <2>8. \A s \in Known(cps) : s < v
        BY <2>7 DEF DiskInv, Known
    <2>9. \A q \in Procs : q # p => pc'[q] = pc[q] /\ pc[q] # "planned"
        BY <2>1, OneHolder DEF Busy, TypeOK
    <2>10. \A r \in dirs' : \A s \in RunIds : s <= r => s \in dirs'
        BY <2>1, <2>2, <2>5, <2>6 DEF NumberInv
    <2>. QED BY <2>1, <2>8, <2>9, <2>10 DEF NumberInv
<1>2. ASSUME NEW p \in Procs, SaveCheckpoint(p) PROVE NumberInv'
    <2>1. dirs' = dirs /\ pc[p] = "planned" /\ pc' = [pc EXCEPT ![p] = "saved"]
        BY <1>2 DEF SaveCheckpoint
    <2>2. \A q \in Procs : pc'[q] # "planned"
        BY <2>1, OneHolder DEF Busy, TypeOK
    <2>. QED BY <2>1, <2>2 DEF NumberInv
<1>3. ASSUME dirs' = dirs, cps' = cps,
             \A p \in Procs : pc'[p] = "planned" /\ call'[p].op = "resolve" =>
                 /\ pc[p] = "planned" /\ call[p].op = "resolve"
                 /\ plan'[p].run = plan[p].run
      PROVE  NumberInv'
    BY <1>3 DEF NumberInv
<1>4. ASSUME NEW p \in Procs, CallResolve(p) \/ CallComplete(p) \/ Acquire(p)
                              \/ Reconcile(p) \/ Approve(p)
      PROVE  NumberInv'
    <2>1. dirs' = dirs /\ cps' = cps
        BY <1>4 DEF CallResolve, CallComplete, Acquire, Reconcile, Approve, disk
    <2>2. \A q \in Procs : q # p => /\ pc'[q] = pc[q] /\ call'[q] = call[q]
                                    /\ plan'[q] = plan[q]
        BY <1>4 DEF CallResolve, CallComplete, Acquire, Reconcile, Approve, TypeOK
    <2>3. pc'[p] = "planned" => call'[p].op # "resolve"
        BY <1>4 DEF CallResolve, CallComplete, Acquire, Reconcile, Approve, TypeOK,
                    CallInv
    <2>. QED BY <1>3, <2>1, <2>2, <2>3
<1>5. ASSUME NEW p \in Procs, Resume(p) \/ Reuse(p) \/ Refuse(p) \/ SaveIndex(p)
                              \/ Crash(p)
      PROVE  NumberInv'
    <2>1. dirs' = dirs /\ cps' = cps
        BY <1>5 DEF Resume, Reuse, Refuse, SaveIndex, Crash, disk
    <2>2. /\ \A q \in Procs : q # p => /\ pc'[q] = pc[q] /\ call'[q] = call[q]
                                       /\ plan'[q] = plan[q]
          /\ pc'[p] = "idle"
        BY <1>5 DEF Resume, Reuse, Refuse, Fail, Return, SaveIndex, Crash, TypeOK
    <2>. QED BY <1>3, <2>1, <2>2
<1>6. ASSUME Tick \/ (\E x \in Paths : Publish(x) \/ Unpublish(x)) \/ UNCHANGED vars
      PROVE  NumberInv'
    BY <1>3, <1>6 DEF Tick, Publish, Unpublish, vars, disk, local
<1>. QED BY <1>1, <1>2, <1>4, <1>5, <1>6 DEF Next, Step

\* A new run descends from a run on record, and a completed one from the same run
\* as before.
LEMMA DescentStays ==
    ASSUME IInv, NumberInv, Descent, [Next]_vars
    PROVE  Descent'
<1>. USE DEF IInv
<1>0. cps \in [RunIds -> Records]
    BY DEF TypeOK
<1>1. ASSUME NEW p \in Procs, SaveCheckpoint(p) PROVE Descent'
    <2>. DEFINE run == plan[p].run
                k   == plan[p].ck
                c   == call[p]
    <2>1. pc[p] = "planned" /\ cps' = [cps EXCEPT ![run] = k]
        BY <1>1 DEF SaveCheckpoint
    <2>2. /\ run \in RunIds /\ k.status # "absent" /\ c.op \in {"resolve", "complete"}
          /\ cps[run].status # "absent" => SameIdentity(cps[run], k)
        BY <2>1, PlannedFacts
    <2>3. CASE cps[run].status # "absent"
        <3>1. k.parent = cps[run].parent /\ run \in Known(cps)
            BY <2>2, <2>3 DEF SameIdentity, Known
        <3>. HIDE DEF run, k
        <3>2. cps'[run] = k /\ \A r \in RunIds : r # run => cps'[r] = cps[r]
            BY <1>0, <2>1, <2>2
        <3>3. Known(cps') = Known(cps)
            BY <2>2, <2>3, <3>2 DEF Known
        <3>4. \A r \in Known(cps) : cps'[r].parent = cps[r].parent
            BY <3>1, <3>2 DEF Known
        <3>. QED BY <3>3, <3>4 DEF Descent
    <2>4. CASE cps[run].status = "absent"
        <3>1. c.op = "resolve"
            <4>1. c.op = "complete" => run \in Known(cps)
                BY <2>1 DEF PlanInv, PlannedCompletion
            <4>. QED BY <2>2, <2>4, <4>1 DEF Known
        <3>2. k.parent = ParentOf(cps, c.clean)
            <4>1. PlannedRun(p)
                BY <2>1, <3>1 DEF PlanInv
            <4>2. k = NewCheckpoint(cps, c.fp, c.clean, c.path, c.now)
                BY <4>1 DEF PlannedRun
            <4>. QED BY <4>2 DEF NewCheckpoint
        <3>3. c.clean \in BOOLEAN
            BY DEF TypeOK, Calls
        <3>4. k.parent \in {0} \cup Known(cps)
            BY <1>0, <3>2, <3>3, ParentKnown
        <3>5. \A s \in Known(cps) : s < run
            BY <2>1, <3>1 DEF NumberInv
        <3>. HIDE DEF run, k
        <3>6. cps'[run] = k /\ \A r \in RunIds : r # run => cps'[r] = cps[r]
            BY <1>0, <2>1, <2>2
        <3>7. /\ Known(cps') = Known(cps) \cup {run}
              /\ \A r \in Known(cps) : cps'[r].parent = cps[r].parent
            BY <2>2, <2>4, <3>6 DEF Known
        <3>. QED BY <3>4, <3>5, <3>6, <3>7 DEF Descent
    <2>. QED BY <2>3, <2>4
<1>2. ASSUME cps' = cps PROVE Descent'
    BY <1>2 DEF Descent
<1>3. ASSUME NEW p \in Procs,
             \/ CallResolve(p) \/ CallComplete(p) \/ Acquire(p) \/ Crash(p)
             \/ Reconcile(p) \/ Resume(p) \/ Reuse(p) \/ Allocate(p)
             \/ Approve(p) \/ Refuse(p) \/ SaveIndex(p)
      PROVE  cps' = cps
    BY <1>3 DEF CallResolve, CallComplete, Acquire, Crash, Reconcile, Resume,
                Reuse, Allocate, Approve, Refuse, SaveIndex, disk
<1>4. ASSUME Tick \/ (\E x \in Paths : Publish(x) \/ Unpublish(x)) \/ UNCHANGED vars
      PROVE  cps' = cps
    BY <1>4 DEF Tick, Publish, Unpublish, vars, disk
<1>. QED BY <1>1, <1>2, <1>3, <1>4 DEF Next, Step

\* The line of descent of a run ends: each of its runs is on record and older by
\* number, although the clock that picks the parent is read before the lock is
\* waited for, so that a run may be created before its parent.
THEOREM DescentIsOrdered == Spec => []Descent
<1>1. Init => NumberInv /\ Descent
    BY NoRecordFacts DEF Init, NoIndex, NumberInv, Descent, Known
<1>2. IInv /\ NumberInv /\ Descent /\ [Next]_vars => NumberInv' /\ Descent'
    BY NumbersStay, DescentStays
<1>. QED BY <1>1, <1>2, Inductive, PTL DEF Spec

-----------------------------------------------------------------------------
(* Nobody is stuck under the lock.                                          *)

\* The calls of resolve_run that have not yet made their directory.
Undecided ==
    {p \in Procs : call[p].op = "resolve" /\ pc[p] \in {"wait", "locked", "decide"}}

\* Each directory, and each call that may still make one, is of a call of its own.
RoomInv ==
    /\ IsFiniteSet(dirs) /\ IsFiniteSet(Undecided)
    /\ Cardinality(dirs) + Cardinality(Undecided) <= calls

\* Whoever holds the lock can take its next step: its index does not conflict with
\* the checkpoints, one of the answers of resolve_run or of complete_run applies,
\* and there is a version left for a new run.
HolderMoves ==
    \A p \in Procs : lock = p =>
        \/ pc[p] = "locked" /\ ~Conflict(index)
        \/ pc[p] = "decide" /\ RunIds \ dirs # {}
        \/ pc[p] \in {"check", "planned", "saved"}

\* A step that makes no call and no directory leaves the room there is.
LEMMA RoomLeft ==
    ASSUME TypeOK, RoomInv, dirs' = dirs, calls' = calls,
           Undecided' \subseteq Undecided
    PROVE  RoomInv'
<1>. DEFINE U == Undecided
            V == Undecided'
<1>1. IsFiniteSet(U) /\ IsFiniteSet(dirs) /\ V \subseteq U
    BY DEF RoomInv
<1>. HIDE DEF U, V
<1>2. /\ IsFiniteSet(V) /\ Cardinality(V) <= Cardinality(U)
      /\ Cardinality(V) \in Nat /\ Cardinality(U) \in Nat
      /\ Cardinality(dirs) \in Nat
    BY <1>1, FS_Subset, FS_CardinalityType
<1>3. Cardinality(dirs) + Cardinality(U) <= calls /\ calls \in Nat
    BY BoundsAssumption DEF RoomInv, TypeOK, U
<1>4. Cardinality(dirs) + Cardinality(V) <= calls
    BY <1>2, <1>3
<1>. QED BY <1>1, <1>2, <1>4 DEF RoomInv, V

\* A call of resolve_run brings the room for its directory with it.
LEMMA RoomMade ==
    ASSUME TypeOK, RoomInv, NEW p \in Procs, CallResolve(p)
    PROVE  RoomInv'
<1>. DEFINE U == Undecided
            V == Undecided'
<1>1. /\ dirs' = dirs /\ calls' = calls + 1 /\ pc[p] = "idle"
      /\ calls \in Nat /\ IsFiniteSet(U) /\ IsFiniteSet(dirs)
      /\ Cardinality(dirs) + Cardinality(U) <= calls
    BY BoundsAssumption DEF CallResolve, disk, RoomInv, TypeOK
<1>2. \A q \in Procs : q # p => pc'[q] = pc[q] /\ call'[q] = call[q]
    BY DEF CallResolve, TypeOK
<1>3. p \notin U /\ V \subseteq U \cup {p}
    BY <1>1, <1>2 DEF Undecided
<1>. HIDE DEF U, V
<1>4. /\ IsFiniteSet(U \cup {p}) /\ Cardinality(U \cup {p}) = Cardinality(U) + 1
      /\ Cardinality(U) \in Nat /\ Cardinality(dirs) \in Nat
    BY <1>1, <1>3, FS_AddElement, FS_CardinalityType
<1>5. IsFiniteSet(V) /\ Cardinality(V) <= Cardinality(U) + 1 /\ Cardinality(V) \in Nat
    BY <1>3, <1>4, FS_Subset, FS_CardinalityType
<1>6. Cardinality(dirs) + Cardinality(V) <= calls + 1
    BY <1>1, <1>4, <1>5
<1>. QED BY <1>1, <1>5, <1>6 DEF RoomInv, V

\* Its directory takes the place of the call.
LEMMA RoomTaken ==
    ASSUME IInv, RoomInv, NEW p \in Procs, Allocate(p)
    PROVE  RoomInv'
<1>. DEFINE U == Undecided
            V == Undecided'
            free == RunIds \ dirs
            r == CHOOSE v \in free : \A w \in free : v <= w
<1>1. /\ calls' = calls /\ dirs' = dirs \cup {r} /\ pc[p] = "decide" /\ call' = call
      /\ pc' = [pc EXCEPT ![p] = "planned"]
      /\ calls \in Nat /\ IsFiniteSet(U) /\ IsFiniteSet(dirs)
      /\ Cardinality(dirs) + Cardinality(U) <= calls
    BY BoundsAssumption DEF Allocate, RoomInv, IInv, TypeOK
<1>2. p \in U /\ V \subseteq U \ {p}
    <2>1. call[p].op = "resolve"
        BY <1>1 DEF IInv, CallInv
    <2>. QED BY <1>1, <2>1 DEF Undecided, IInv, TypeOK
<1>. HIDE DEF U, V, r
<1>3. /\ IsFiniteSet(U \ {p}) /\ Cardinality(U \ {p}) = Cardinality(U) - 1
      /\ Cardinality(U) \in Nat /\ Cardinality(dirs) \in Nat
    BY <1>1, <1>2, FS_RemoveElement, FS_CardinalityType
<1>4. IsFiniteSet(V) /\ Cardinality(V) <= Cardinality(U) - 1 /\ Cardinality(V) \in Nat
    BY <1>2, <1>3, FS_Subset, FS_CardinalityType
<1>5. /\ IsFiniteSet(dirs \cup {r})
      /\ Cardinality(dirs \cup {r}) \in {Cardinality(dirs), Cardinality(dirs) + 1}
    BY <1>1, FS_AddElement
<1>6. Cardinality(dirs') + Cardinality(V) <= calls
    BY <1>1, <1>3, <1>4, <1>5
<1>. QED BY <1>1, <1>4, <1>5, <1>6 DEF RoomInv, V

\* Every step leaves room for the calls that are under way.
LEMMA RoomStays ==
    ASSUME IInv, RoomInv, [Next]_vars
    PROVE  RoomInv'
<1>. USE DEF IInv
<1>1. ASSUME NEW p \in Procs, CallResolve(p) PROVE RoomInv'
    BY <1>1, RoomMade
<1>2. ASSUME NEW p \in Procs, Allocate(p) PROVE RoomInv'
    BY <1>2, RoomTaken
<1>3. ASSUME NEW p \in Procs,
             \/ CallComplete(p) \/ Acquire(p) \/ Reconcile(p) \/ Approve(p)
             \/ SaveCheckpoint(p)
      PROVE  RoomInv'
    <2>1. dirs' = dirs /\ calls' = calls
        BY <1>3 DEF CallComplete, Acquire, Reconcile, Approve, SaveCheckpoint, disk
    <2>2. \A q \in Procs : q # p => pc'[q] = pc[q] /\ call'[q] = call[q]
        BY <1>3 DEF CallComplete, Acquire, Reconcile, Approve, SaveCheckpoint, TypeOK
    <2>3. \/ call'[p].op = "complete"
          \/ call'[p] = call[p] /\ pc[p] \in {"wait", "locked"}
          \/ pc'[p] \in {"planned", "saved"}
        <3>1. CallComplete(p) => call'[p].op = "complete"
            BY DEF CallComplete, TypeOK
        <3>2. Acquire(p) \/ Reconcile(p) => call' = call /\ pc[p] \in {"wait", "locked"}
            BY DEF Acquire, Reconcile
        <3>3. Approve(p) \/ SaveCheckpoint(p) => pc'[p] \in {"planned", "saved"}
            BY DEF Approve, SaveCheckpoint, TypeOK
        <3>. QED BY <1>3, <3>1, <3>2, <3>3
    <2>4. Undecided' \subseteq Undecided
        BY <2>2, <2>3 DEF Undecided
    <2>. QED BY <2>1, <2>4, RoomLeft
<1>4. ASSUME NEW p \in Procs, Resume(p) \/ Reuse(p) \/ Refuse(p) \/ SaveIndex(p)
                              \/ Crash(p)
      PROVE  RoomInv'
    <2>1. dirs' = dirs /\ calls' = calls
        BY <1>4 DEF Resume, Reuse, Refuse, SaveIndex, Crash, disk
    <2>2. /\ \A q \in Procs : q # p => pc'[q] = pc[q] /\ call'[q] = call[q]
          /\ pc'[p] = "idle"
        BY <1>4 DEF Resume, Reuse, Refuse, Fail, Return, SaveIndex, Crash, TypeOK
    <2>. QED BY <2>1, <2>2, RoomLeft DEF Undecided
<1>5. ASSUME Tick \/ (\E x \in Paths : Publish(x) \/ Unpublish(x)) \/ UNCHANGED vars
      PROVE  RoomInv'
    <2>1. UNCHANGED <<dirs, calls, pc, call>>
        BY <1>5 DEF Tick, Publish, Unpublish, vars, disk, local
    <2>2. Undecided' = Undecided
        BY <2>1 DEF Undecided
    <2>. QED BY <2>1, <2>2, RoomLeft
<1>. QED BY <1>1, <1>2, <1>3, <1>4, <1>5 DEF Next, Step

\* With the room there is, a call that may make a directory finds a free version.
LEMMA RoomIsEnough ==
    ASSUME IInv, RoomInv, NEW p \in Procs, pc[p] = "decide"
    PROVE  RunIds \ dirs # {}
<1>1. p \in Undecided
    BY DEF IInv, CallInv, Undecided
<1>2. IsFiniteSet(Undecided) /\ Undecided # {} /\ IsFiniteSet(dirs)
    BY <1>1 DEF RoomInv
<1>3. /\ Cardinality(Undecided) \in Nat /\ Cardinality(Undecided) # 0
      /\ Cardinality(dirs) \in Nat
    BY <1>2, FS_CardinalityType, FS_EmptySet
<1>4. /\ Cardinality(dirs) + Cardinality(Undecided) <= calls
      /\ calls <= MaxRuns /\ calls \in Nat /\ MaxRuns \in Nat
    BY BoundsAssumption DEF RoomInv, IInv, TypeOK
<1>5. Cardinality(dirs) < MaxRuns
    BY <1>3, <1>4
<1>6. Cardinality(RunIds) = MaxRuns
    BY <1>4, FS_Interval DEF RunIds
<1>7. dirs # RunIds
    BY <1>3, <1>4, <1>5, <1>6
<1>. QED BY <1>7 DEF IInv, TypeOK

\* No state the store can reach, whatever crashed before, stops the process that
\* holds the lock: _reconcile_index never refuses the index, so the flock is given
\* back as long as its holder runs, and the bound MaxRuns is in nobody's way.
THEOREM HolderGoesOn == Spec => []HolderMoves
<1>1. Init => RoomInv
    <2>. SUFFICES ASSUME Init PROVE RoomInv
        OBVIOUS
    <2>1. dirs = {} /\ Undecided = {} /\ calls = 0
        BY DEF Init, Undecided
    <2>. QED BY <2>1, FS_EmptySet DEF RoomInv
<1>2. IInv /\ RoomInv /\ [Next]_vars => RoomInv'
    BY RoomStays
<1>3. IInv /\ RoomInv => HolderMoves
    <2>. SUFFICES ASSUME IInv, RoomInv, NEW p \in Procs, lock = p
                  PROVE  \/ pc[p] = "locked" /\ ~Conflict(index)
                         \/ pc[p] = "decide" /\ RunIds \ dirs # {}
                         \/ pc[p] \in {"check", "planned", "saved"}
        BY DEF HolderMoves
    <2>1. pc[p] \in Busy
        BY DEF IInv, LockInv
    <2>2. ~Conflict(index)
        BY DEF IInv, IndexNeverAhead, Conflict, SameIdentity
    <2>3. pc[p] = "decide" => RunIds \ dirs # {}
        BY RoomIsEnough
    <2>. QED BY <2>1, <2>2, <2>3 DEF Busy
<1>. QED BY <1>1, <1>2, <1>3, Inductive, PTL DEF Spec
=============================================================================
