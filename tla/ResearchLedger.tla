--------------------------- MODULE ResearchLedger ---------------------------
(***************************************************************************)
(* The research ledger of one value-profile run: bind_research_ledger and  *)
(* load_research_ledger of scripts/financial_run_store.py, beside          *)
(* complete_run, which rewrites the same checkpoint.json.  All three hold  *)
(* the index flock; the ledger file and the checkpoint that names its      *)
(* SHA-256 are two files, written one after the other, and a process may   *)
(* die between the two.  (What complete_run does to the index is RunStore.)*)
(*                                                                         *)
(* A ledger stands for its canonical JSON, its SHA-256 and its artifact id.*)
(***************************************************************************)
EXTENDS Naturals

CONSTANTS Procs, Ledgers,
          None,         \* no value; as an expected prior, CREATE_ONLY_SENTINEL
          MaxCrashes    \* bound: processes that die inside a call

ASSUME LedgerAssumption ==
    None \notin Procs \cup Ledgers /\ MaxCrashes \in Nat

VARIABLES
    checkpoint, \* status and research_ledger of checkpoint.json
    file,       \* logs/research-ledger.json
    lock,       \* the process that holds .index.lock
    pc,
    call,       \* the operation and its arguments
    mem,        \* the checkpoint as the process has read it
    reply,      \* "none" before the call ends
    crashes

disk  == <<checkpoint, file>>
local == <<pc, call, mem, reply>>
vars  == <<disk, lock, local, crashes>>

Checkpoints == [status : {"in_progress", "completed"}, bound : Ledgers \cup {None}]
Calls == [op : {"none", "bind", "load", "complete"}, ledger : Ledgers \cup {None},
          prior : Ledgers \cup {None}]

NoCall  == [op |-> "none", ledger |-> None, prior |-> None]
Created == [status |-> "in_progress", bound |-> None]

Init ==
    /\ checkpoint = Created /\ file = None /\ lock = None
    /\ pc    = [p \in Procs |-> "idle"]
    /\ call  = [p \in Procs |-> NoCall]
    /\ mem   = [p \in Procs |-> Created]
    /\ reply = [p \in Procs |-> "none"]
    /\ crashes = 0

-----------------------------------------------------------------------------
\* The binding can be followed: the file is there with the bound SHA-256.
Loadable(c) == c.bound # None /\ file = c.bound

\* (mutant) a create-only call overwrites
MayOverwrite(c, prior) == prior = None \/ (prior = c.bound /\ Loadable(c))

\* The compare of bind_research_ledger: a binding that is there must load and
\* be the one the caller expects; none may be there for a create-only call.
MayBind(c, prior) == prior = c.bound /\ (c.bound # None => Loadable(c))

Goto(p, label) == pc' = [pc EXCEPT ![p] = label]

\* os.close(lock_fd) in the finally clause, and the answer.
Return(p, answer) ==
    /\ Goto(p, "idle")
    /\ lock'  = None
    /\ call'  = [call EXCEPT ![p] = NoCall]
    /\ mem'   = [mem EXCEPT ![p] = Created]
    /\ reply' = [reply EXCEPT ![p] = answer]

Call(p) ==
    /\ pc[p] = "idle"
    /\ \E op \in {"bind", "load", "complete"}, w \in Ledgers,
          prior \in Ledgers \cup {None} :
          call' = [call EXCEPT ![p] =
                      [op     |-> op,
                       ledger |-> IF op = "bind" THEN w ELSE None,
                       prior  |-> IF op = "bind" THEN prior ELSE None]]
    /\ Goto(p, "wait")
    /\ reply' = [reply EXCEPT ![p] = "none"]
    /\ UNCHANGED <<disk, lock, mem, crashes>>

\* (mutant) the lock file is opened and never locked
AcquireUnlocked(p) ==
    /\ pc[p] = "wait"
    /\ lock' = p
    /\ Goto(p, "read")
    /\ UNCHANGED <<disk, call, mem, reply, crashes>>

Acquire(p) ==
    /\ pc[p] = "wait" /\ lock = None
    /\ lock' = p
    /\ Goto(p, "read")
    /\ UNCHANGED <<disk, call, mem, reply, crashes>>

ReadCheckpoint(p) ==
    /\ pc[p] = "read"
    /\ mem' = [mem EXCEPT ![p] = checkpoint]
    /\ Goto(p, call[p].op)
    /\ UNCHANGED <<disk, lock, call, reply, crashes>>

Load(p) ==
    /\ pc[p] = "load"
    /\ Return(p, IF Loadable(mem[p]) THEN "ok" ELSE "error")
    /\ UNCHANGED <<disk, crashes>>

\* complete_run: its checks of the index and of the report are RunStore's.
Complete(p) ==
    /\ pc[p] = "complete"
    /\ checkpoint' = [mem[p] EXCEPT !.status = "completed"]
    /\ Return(p, "ok")
    /\ UNCHANGED <<file, crashes>>

WriteLedger(p) ==
    /\ pc[p] = "bind" /\ MayBind(mem[p], call[p].prior)
    /\ file' = call[p].ledger
    /\ Goto(p, "written")
    /\ UNCHANGED <<checkpoint, lock, call, mem, reply, crashes>>

Refuse(p) ==
    /\ pc[p] = "bind" /\ ~MayBind(mem[p], call[p].prior)
    /\ Return(p, "error")
    /\ UNCHANGED <<disk, crashes>>

BindCheckpoint(p) ==
    /\ pc[p] = "written"
    /\ checkpoint' = [mem[p] EXCEPT !.bound = call[p].ledger]
    /\ Return(p, "ok")
    /\ UNCHANGED <<file, crashes>>

Crash(p) ==
    /\ pc[p] # "idle" /\ crashes < MaxCrashes
    /\ crashes' = crashes + 1
    /\ lock' = IF lock = p THEN None ELSE lock
    /\ Goto(p, "idle")
    /\ call' = [call EXCEPT ![p] = NoCall]
    /\ mem'  = [mem EXCEPT ![p] = Created]
    /\ UNCHANGED <<disk, reply>>

Next ==
    \E p \in Procs :
        \/ Call(p) \/ Acquire(p) \/ ReadCheckpoint(p) \/ Load(p) \/ Complete(p)
        \/ WriteLedger(p) \/ Refuse(p) \/ BindCheckpoint(p) \/ Crash(p)

Spec == Init /\ [][Next]_vars

-----------------------------------------------------------------------------
\* Correctness

Labels == {"read", "bind", "load", "complete", "written"}

\* Every variable keeps its type.
TypeOK ==
    /\ checkpoint \in Checkpoints /\ file \in Ledgers \cup {None}
    /\ lock \in Procs \cup {None}
    /\ pc \in [Procs -> Labels \cup {"idle", "wait"}]
    /\ call \in [Procs -> Calls] /\ mem \in [Procs -> Checkpoints]
    /\ reply \in [Procs -> {"none", "ok", "error"}]
    /\ crashes \in 0..MaxCrashes

\* A checkpoint is never written from a stale copy: when a binding is
\* replaced, the one that is replaced is the one its caller expected, and
\* neither a binding nor the completion of the run is ever undone by the
\* read-modify-write of another call.
NoLostUpdate ==
    [][/\ checkpoint'.bound # checkpoint.bound =>
             \E p \in Procs : /\ pc[p] = "written"
                              /\ call[p].prior = checkpoint.bound
                              /\ call[p].ledger = checkpoint'.bound
       /\ checkpoint.status = "completed" => checkpoint'.status = "completed"
      ]_vars

\* bind_research_ledger is documented to bind atomically
\* (financial_run_store.py:670): whenever no call is under way the bound
\* ledger can be loaded.  A crash between the two writes of a call that
\* replaces a binding breaks it for good.
BindingLoads ==
    lock = None => checkpoint.bound = None \/ Loadable(checkpoint)

\* Nothing but such a crash does: no order of binds, loads and completions
\* leaves a binding that does not load.
OnlyCrashesTear == crashes = 0 => BindingLoads
=============================================================================
