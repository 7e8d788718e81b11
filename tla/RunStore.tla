------------------------------ MODULE RunStore ------------------------------
(***************************************************************************)
(* resolve_run and complete_run of scripts/financial_run_store.py as they   *)
(* run: concurrent processes take an exclusive flock, read and repair      *)
(* index.json from the checkpoints, and then write a run directory, its    *)
(* checkpoint and the index one after the other.  A process may die between*)
(* any two of those writes; the kernel then drops its flock and the files  *)
(* stay as they are.  Reports appear and disappear outside the lock.       *)
(***************************************************************************)
EXTENDS RunRecords

CONSTANTS Procs,       \* processes (or threads) calling the store
          MaxCrashes   \* bound: processes that die inside a call

ASSUME ProcsAssumption == None \notin Procs /\ MaxCrashes \in Nat

VARIABLES
    dirs,       \* run directories that exist
    cps,        \* checkpoint.json of every run
    index,      \* index.json
    published,  \* result paths that hold a nonempty report
    lock,       \* the process that holds .index.lock
    pc,         \* where each process is in its call
    call,       \* the arguments of the call
    mem,        \* the index as the process has loaded it
    plan,       \* the run it is about to write and the checkpoint to write
    reply,      \* what the last call returned
    clock, calls, crashes   \* wall clock; calls of resolve_run; crashes

disk  == <<dirs, cps, index>>
local == <<pc, call, mem, plan, reply>>
vars  == <<disk, published, lock, local, clock, calls, crashes>>

NoCall  == [op |-> "none", fp |-> None, clean |-> FALSE, path |-> None,
            now |-> 0, run |-> 0, artifact |-> None]
NoIndex == [r \in RunIds |-> NoRecord]
NoPlan  == [run |-> 0, ck |-> NoRecord]
NoReply == [action |-> "none", run |-> 0]

Init ==
    /\ dirs = {} /\ cps = NoIndex /\ index = NoIndex /\ published = {}
    /\ lock = None
    /\ pc    = [p \in Procs |-> "idle"]
    /\ call  = [p \in Procs |-> NoCall]
    /\ mem   = [p \in Procs |-> NoIndex]
    /\ plan  = [p \in Procs |-> NoPlan]
    /\ reply = [p \in Procs |-> NoReply]
    /\ clock = 0 /\ calls = 0 /\ crashes = 0

-----------------------------------------------------------------------------
\* Helpers

\* (mutant) returns without closing the lock file
ReturnLeaksLock(p, answer) ==
    /\ pc'    = [pc EXCEPT ![p] = "idle"]
    /\ reply' = [reply EXCEPT ![p] = answer]
    /\ UNCHANGED <<lock, call, mem, plan>>

\* os.close(lock_fd) in the finally clause, and the value returned.
Return(p, answer) ==
    /\ lock' = None
    /\ pc'    = [pc EXCEPT ![p] = "idle"]
    /\ call'  = [call EXCEPT ![p] = NoCall]
    /\ mem'   = [mem EXCEPT ![p] = NoIndex]
    /\ plan'  = [plan EXCEPT ![p] = NoPlan]
    /\ reply' = [reply EXCEPT ![p] = answer]

Fail(p) == Return(p, [action |-> "error", run |-> 0])

\* The immutable fields: a record and its checkpoint must agree on them.
SameIdentity(a, b) ==
    a.fp = b.fp /\ a.parent = b.parent /\ a.created = b.created

\* On a conflict _reconcile_index raises and no call gets past it.
Conflict(ix) ==
    \E r \in Known(ix) \cap Known(cps) : ~SameIdentity(ix[r], cps[r])

\* (mutant) a checkpoint the index does not list is not found again
ForgetsOrphans(ix) ==
    [r \in RunIds |->
        IF r \in Known(cps) \cap Known(ix) THEN RecordFromCheckpoint(cps[r])
        ELSE NoRecord]

\* A checkpoint the index lacks becomes a record, a record takes its
\* checkpoint's mutable fields, and one without a checkpoint is dropped.
Reconciled(ix) ==
    [r \in RunIds |->
        IF r \notin Known(cps) THEN NoRecord
        ELSE IF r \notin Known(ix) THEN RecordFromCheckpoint(cps[r])
        ELSE [ix[r] EXCEPT !.status = cps[r].status, !.path = cps[r].path,
                           !.artifact = cps[r].artifact]]

-----------------------------------------------------------------------------
\* The callers.  resolve_run reads the clock before it waits for the lock.

CallResolve(p) ==
    /\ pc[p] = "idle" /\ calls < MaxRuns
    /\ \E f \in Fingerprints, c \in BOOLEAN, x \in ExtPaths \cup {None} :
          call' = [call EXCEPT ![p] = [NoCall EXCEPT
                      !.op = "resolve", !.fp = f, !.clean = c, !.path = x,
                      !.now = clock]]
    /\ pc'    = [pc EXCEPT ![p] = "wait"]
    /\ reply' = [reply EXCEPT ![p] = NoReply]
    /\ calls' = calls + 1
    /\ UNCHANGED <<disk, published, lock, mem, plan, clock, crashes>>

CallComplete(p) ==
    /\ pc[p] = "idle"
    /\ \E r \in dirs, x \in ExtPaths \cup {None}, a \in Artifacts :
          call' = [call EXCEPT ![p] = [NoCall EXCEPT
                      !.op = "complete", !.run = r, !.path = x,
                      !.artifact = a]]
    /\ pc'    = [pc EXCEPT ![p] = "wait"]
    /\ reply' = [reply EXCEPT ![p] = NoReply]
    /\ UNCHANGED <<disk, published, lock, mem, plan, clock, calls, crashes>>

\* (mutant) an advisory lock nobody asks for
AcquireUnlocked(p) ==
    /\ pc[p] = "wait"
    /\ lock' = p
    /\ pc' = [pc EXCEPT ![p] = "locked"]
    /\ UNCHANGED <<disk, published, call, mem, plan, reply, clock, calls,
                   crashes>>

Acquire(p) ==
    /\ pc[p] = "wait" /\ lock = None
    /\ lock' = p
    /\ pc' = [pc EXCEPT ![p] = "locked"]
    /\ UNCHANGED <<disk, published, call, mem, plan, reply, clock, calls,
                   crashes>>

Reconcile(p) ==
    /\ pc[p] = "locked" /\ ~Conflict(index)
    /\ mem'   = [mem EXCEPT ![p] = Reconciled(index)]
    /\ index' = Reconciled(index)
    /\ pc' = [pc EXCEPT ![p] =
                 IF call[p].op = "resolve" THEN "decide" ELSE "check"]
    /\ UNCHANGED <<dirs, cps, published, lock, call, plan, reply, clock,
                   calls, crashes>>

-----------------------------------------------------------------------------
\* resolve_run under the lock

Resume(p) ==
    LET open == Unfinished(mem[p], call[p].fp) IN
    /\ pc[p] = "decide" /\ ~call[p].clean /\ open # {}
    /\ Return(p, [action |-> "resumed", run |-> Latest(mem[p], open)])
    /\ UNCHANGED <<disk, published, clock, calls, crashes>>

Reuse(p) ==
    LET done == Reusable(mem[p], call[p].fp, published) IN
    /\ pc[p] = "decide" /\ ~call[p].clean
    /\ Unfinished(mem[p], call[p].fp) = {} /\ done # {}
    /\ Return(p, [action |-> "reused", run |-> Latest(mem[p], done)])
    /\ UNCHANGED <<disk, published, clock, calls, crashes>>

\* mkdir of the first version that does not exist yet (one is left within
\* MaxRuns because no more than MaxRuns calls of resolve_run are made).
Allocate(p) ==
    LET c == call[p]
        r == CHOOSE v \in RunIds \ dirs : \A w \in RunIds \ dirs : v <= w
    IN  /\ pc[p] = "decide" /\ RunIds \ dirs # {}
        /\ \/ c.clean
           \/ /\ Unfinished(mem[p], c.fp) = {}
              /\ Reusable(mem[p], c.fp, published) = {}
        /\ dirs' = dirs \cup {r}
        /\ plan' = [plan EXCEPT ![p] =
              [run |-> r,
               ck  |-> NewCheckpoint(mem[p], c.fp, c.clean, c.path, c.now)]]
        /\ pc' = [pc EXCEPT ![p] = "planned"]
        /\ UNCHANGED <<cps, index, published, lock, call, mem, reply, clock,
                       calls, crashes>>

-----------------------------------------------------------------------------
\* complete_run under the lock

PathToPublish(p) ==
    IF call[p].path # None THEN call[p].path
    ELSE ResultPath(mem[p], call[p].run)

MayComplete(p) ==
    /\ call[p].run \in Known(mem[p])
    /\ \/ call[p].path = None
       \/ mem[p][call[p].run].path \in {None, call[p].path}
    /\ PathToPublish(p) \in published

Approve(p) ==
    /\ pc[p] = "check" /\ MayComplete(p)
    /\ plan' = [plan EXCEPT ![p] =
          [run |-> call[p].run,
           ck  |-> CompletedCheckpoint(cps[call[p].run], PathToPublish(p),
                                       call[p].artifact)]]
    /\ pc' = [pc EXCEPT ![p] = "planned"]
    /\ UNCHANGED <<disk, published, lock, call, mem, reply, clock, calls,
                   crashes>>

Refuse(p) ==
    /\ pc[p] = "check" /\ ~MayComplete(p)
    /\ Fail(p)
    /\ UNCHANGED <<disk, published, clock, calls, crashes>>

-----------------------------------------------------------------------------
\* The two durable writes both operations end with

\* (mutant) the index is written where the checkpoint should be
SavesIndexFirst(p) ==
    /\ pc[p] = "planned"
    /\ index' = [mem[p] EXCEPT ![plan[p].run] =
                    RecordFromCheckpoint(plan[p].ck)]
    /\ pc' = [pc EXCEPT ![p] = "saved"]
    /\ UNCHANGED <<dirs, cps, published, lock, call, mem, plan, reply,
                   clock, calls, crashes>>

SaveCheckpoint(p) ==
    /\ pc[p] = "planned"
    /\ cps' = [cps EXCEPT ![plan[p].run] = plan[p].ck]
    /\ pc' = [pc EXCEPT ![p] = "saved"]
    /\ UNCHANGED <<dirs, index, published, lock, call, mem, plan, reply,
                   clock, calls, crashes>>

SaveIndex(p) ==
    /\ pc[p] = "saved"
    /\ index' = [mem[p] EXCEPT ![plan[p].run] =
                    RecordFromCheckpoint(plan[p].ck)]
    /\ Return(p, [action |-> IF call[p].op = "resolve" THEN "created"
                             ELSE "completed",
                  run |-> plan[p].run])
    /\ UNCHANGED <<dirs, cps, published, clock, calls, crashes>>

-----------------------------------------------------------------------------
\* The environment

Crash(p) ==
    /\ pc[p] # "idle" /\ crashes < MaxCrashes
    /\ crashes' = crashes + 1
    /\ lock'  = IF lock = p THEN None ELSE lock
    /\ pc'    = [pc EXCEPT ![p] = "idle"]
    /\ call'  = [call EXCEPT ![p] = NoCall]
    /\ mem'   = [mem EXCEPT ![p] = NoIndex]
    /\ plan'  = [plan EXCEPT ![p] = NoPlan]
    /\ UNCHANGED <<disk, published, reply, clock, calls>>

\* A report is written to, or removed from, a path.
Publish(x) ==
    /\ x \notin published /\ (x \in ExtPaths \/ x \in dirs)
    /\ published' = published \cup {x}
    /\ UNCHANGED <<disk, lock, local, clock, calls, crashes>>

Unpublish(x) ==
    /\ x \in published
    /\ published' = published \ {x}
    /\ UNCHANGED <<disk, lock, local, clock, calls, crashes>>

Tick ==
    /\ clock < MaxClock
    /\ clock' = clock + 1
    /\ UNCHANGED <<disk, published, lock, local, calls, crashes>>

Step(p) ==
    \/ Reconcile(p)
    \/ Resume(p) \/ Reuse(p) \/ Allocate(p) \/ Approve(p) \/ Refuse(p)
    \/ SaveCheckpoint(p) \/ SaveIndex(p)

Next ==
    \/ \E p \in Procs : CallResolve(p) \/ CallComplete(p) \/ Acquire(p)
                        \/ Step(p) \/ Crash(p)
    \/ \E x \in Paths : Publish(x) \/ Unpublish(x)
    \/ Tick

Spec == Init /\ [][Next]_vars

\* A process that holds the lock runs on; a lock that is free again and again
\* is eventually granted to every process that waits for it.
Fairness == \A p \in Procs : WF_vars(Step(p)) /\ SF_vars(Acquire(p))

FairSpec == Spec /\ Fairness

-----------------------------------------------------------------------------
\* Correctness

Busy   == {"locked", "decide", "check", "planned", "saved"}
Calls  == [op : {"none", "resolve", "complete"}, fp : Fingerprints \cup {None},
           clean : BOOLEAN, path : ExtPaths \cup {None}, now : 0..MaxClock,
           run : {0} \cup RunIds, artifact : Artifacts \cup {None}]
Actions == {"none", "error", "resumed", "reused", "created", "completed"}

\* Every variable keeps its type.
TypeOK ==
    /\ dirs \in SUBSET RunIds /\ published \in SUBSET Paths
    /\ cps \in [RunIds -> Records] /\ index \in [RunIds -> Records]
    /\ lock \in Procs \cup {None}
    /\ pc \in [Procs -> {"idle", "wait"} \cup Busy]
    /\ call \in [Procs -> Calls]
    /\ mem \in [Procs -> [RunIds -> Records]]
    /\ plan \in [Procs -> [run : {0} \cup RunIds, ck : Records]]
    /\ reply \in [Procs -> [action : Actions, run : {0} \cup RunIds]]
    /\ clock \in 0..MaxClock /\ calls \in 0..MaxRuns
    /\ crashes \in 0..MaxCrashes

\* The index never runs ahead of the checkpoints, whatever process died
\* between the two writes: an indexed run has its checkpoint, with the same
\* identity, and a run the index calls completed is completed on disk.  It
\* is what makes "the checkpoint is the truth" a safe repair.
IndexNeverAhead ==
    \A r \in Known(index) :
        /\ r \in Known(cps)
        /\ SameIdentity(index[r], cps[r])
        /\ index[r].status = "completed" => cps[r].status = "completed"

\* resolve_run resumes rather than duplicates: two unfinished runs with the
\* same inputs exist only when a caller asked for a clean one, even when the
\* index lost the first of them in a crash.
OneUnfinishedPerInput ==
    \A r, s \in Known(cps) :
        /\ r # s /\ cps[r].fp = cps[s].fp
        /\ cps[r].status = "in_progress" /\ cps[s].status = "in_progress"
        => cps[r].clean \/ cps[s].clean

\* A caller is never handed a run that a crash, its own or another process's,
\* could have taken away: the run it was told to work in has a checkpoint
\* on disk, and one reported reused or completed is completed there.
RepliesAreDurable ==
    \A p \in Procs :
        /\ reply[p].action \in {"created", "resumed"}
              => reply[p].run \in Known(cps)
        /\ reply[p].action \in {"reused", "completed"}
              => /\ reply[p].run \in Known(cps)
                 /\ cps[reply[p].run].status = "completed"

\* The detailed store implements the abstract table of runs: every write of
\* a checkpoint is one Create or one Complete, everything else is invisible.
Registry == INSTANCE RunRegistry WITH runs <- cps
ImplementsRegistry == Registry!Spec

\* Every call that is not cut short by a crash is answered.
EveryCallEnds == \A p \in Procs : pc[p] = "wait" ~> pc[p] = "idle"
=============================================================================
