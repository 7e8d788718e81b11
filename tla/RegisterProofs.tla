---------------------------- MODULE RegisterProofs ----------------------------
(***************************************************************************)
(* Two components that share no state, the ledgers of the research and the *)
(* official registers of a company.                                        *)
(*                                                                         *)
(* First ResearchLedger, for any number of processes, ledgers and crashes; *)
(* and what the checks of the contents (RunArtifacts) amount to, whatever  *)
(* the contracts of requests and ledgers say.                              *)
(*                                                                         *)
(* Then EventRegister, for any registers, sources and listings and any     *)
(* course of events.  What a manifest says is computed by recursive        *)
(* functions, so the proofs begin with what such a function is: a walk from *)
(* a first value by steps that stay in a set (Walk), about which facts are *)
(* shown step by step (Climb).  The registers themselves only go on: those *)
(* of any earlier day differ from those of today by what came after that   *)
(* day (Turned, Grown), and what came after is what the checks of a        *)
(* manifest turn down.                                                     *)
(***************************************************************************)
EXTENDS ResearchLedger, RunArtifacts, EventRegister,
        FiniteSetTheorems, WellFoundedInduction, TLAPS

\* A process inside its call holds the flock.
LockInv == \A p \in Procs : pc[p] \in Labels <=> lock = p

\* Under the flock the copy of the checkpoint stays current, and a ledger is
\* written only over the binding the caller expects.
CopyInv ==
    \A p \in Procs :
        /\ pc[p] \in Labels \ {"read"} => mem[p] = checkpoint
        /\ pc[p] = "written" => /\ call[p].prior = checkpoint.bound
                                /\ file = call[p].ledger
        /\ pc[p] # "idle" => call[p].op # "none"
        /\ pc[p] \in {"bind", "written"} => call[p].op = "bind"
        /\ call[p].op = "bind" => call[p].ledger # None

\* Without a crash, the file and the binding part only inside a call.
FileInv ==
    crashes = 0 /\ (\A p \in Procs : pc[p] # "written") =>
        checkpoint.bound = None \/ Loadable(checkpoint)

IInv == TypeOK /\ LockInv /\ CopyInv /\ FileInv

-----------------------------------------------------------------------------
\* A call arrives.
LEMMA CallStep ==
    ASSUME IInv, NEW p \in Procs, Call(p)
    PROVE  IInv'
<1>. USE LedgerAssumption DEF IInv, TypeOK, Checkpoints, Calls, Labels,
             Call, Goto, disk
<1>1. TypeOK'
    OBVIOUS
<1>2. LockInv'
    BY DEF LockInv
<1>3. CopyInv'
    BY DEF LockInv, CopyInv
<1>4. FileInv'
    BY DEF LockInv, CopyInv, FileInv, Loadable
<1>. QED BY <1>1, <1>2, <1>3, <1>4

\* The flock is taken.
LEMMA AcquireStep ==
    ASSUME IInv, NEW p \in Procs, Acquire(p)
    PROVE  IInv'
<1>. USE LedgerAssumption DEF IInv, TypeOK, Checkpoints, Calls, Labels,
             Acquire, Goto, disk
<1>1. TypeOK'
    OBVIOUS
<1>2. LockInv'
    BY DEF LockInv
<1>3. CopyInv'
    BY DEF LockInv, CopyInv
<1>4. FileInv'
    BY DEF LockInv, CopyInv, FileInv, Loadable
<1>. QED BY <1>1, <1>2, <1>3, <1>4

\* The checkpoint is read.
LEMMA ReadCheckpointStep ==
    ASSUME IInv, NEW p \in Procs, ReadCheckpoint(p)
    PROVE  IInv'
<1>. USE LedgerAssumption DEF IInv, TypeOK, Checkpoints, Calls, Labels,
             ReadCheckpoint, Goto, disk
<1>1. call[p].op \in {"bind", "load", "complete"}
    BY DEF CopyInv
<1>2. pc[p] = "read" /\ lock = p
    BY DEF LockInv
<1>3. mem'[p] = checkpoint /\ pc'[p] = call[p].op
    OBVIOUS
<1>4. ASSUME NEW q \in Procs, q # p
      PROVE  pc'[q] = pc[q] /\ pc[q] \notin Labels /\ mem'[q] = mem[q]
    BY <1>2, <1>4 DEF LockInv
<1>5. TypeOK'
    BY <1>1
<1>6. LockInv'
    BY <1>1, <1>2, <1>3, <1>4 DEF LockInv
<1>7. CopyInv'
    BY <1>1, <1>3, <1>4 DEF CopyInv
<1>8. FileInv'
    BY <1>1, <1>2, <1>3, <1>4 DEF FileInv, Loadable
<1>. QED BY <1>5, <1>6, <1>7, <1>8

\* A load is answered.
LEMMA LoadStep ==
    ASSUME IInv, NEW p \in Procs, Load(p)
    PROVE  IInv'
<1>. USE LedgerAssumption DEF IInv, TypeOK, Checkpoints, Calls, Labels,
             Load, Goto, Return, NoCall, Created, disk
<1>1. TypeOK'
    OBVIOUS
<1>2. LockInv'
    BY DEF LockInv
<1>3. CopyInv'
    BY DEF LockInv, CopyInv
<1>4. FileInv'
    BY DEF LockInv, CopyInv, FileInv, Loadable
<1>. QED BY <1>1, <1>2, <1>3, <1>4

\* The run is completed.
LEMMA CompleteStep ==
    ASSUME IInv, NEW p \in Procs, Complete(p)
    PROVE  IInv'
<1>. USE LedgerAssumption DEF IInv, TypeOK, Checkpoints, Calls, Labels,
             Complete, Goto, Return, NoCall, Created, disk
<1>1. TypeOK'
    OBVIOUS
<1>2. LockInv'
    BY DEF LockInv
<1>3. CopyInv'
    BY DEF LockInv, CopyInv
<1>4. FileInv'
    BY DEF LockInv, CopyInv, FileInv, Loadable
<1>. QED BY <1>1, <1>2, <1>3, <1>4

\* The ledger file is written.
LEMMA WriteLedgerStep ==
    ASSUME IInv, NEW p \in Procs, WriteLedger(p)
    PROVE  IInv'
<1>. USE LedgerAssumption DEF IInv, TypeOK, Checkpoints, Calls, Labels,
             WriteLedger, Goto, MayBind, disk
<1>1. TypeOK'
    OBVIOUS
<1>2. LockInv'
    BY DEF LockInv
<1>3. CopyInv'
    BY DEF LockInv, CopyInv
<1>4. FileInv'
    BY DEF LockInv, CopyInv, FileInv, Loadable
<1>. QED BY <1>1, <1>2, <1>3, <1>4

\* A bind is refused.
LEMMA RefuseStep ==
    ASSUME IInv, NEW p \in Procs, Refuse(p)
    PROVE  IInv'
<1>. USE LedgerAssumption DEF IInv, TypeOK, Checkpoints, Calls, Labels,
             Refuse, Goto, Return, NoCall, Created, disk
<1>1. TypeOK'
    OBVIOUS
<1>2. LockInv'
    BY DEF LockInv
<1>3. CopyInv'
    BY DEF LockInv, CopyInv
<1>4. FileInv'
    BY DEF LockInv, CopyInv, FileInv, Loadable
<1>. QED BY <1>1, <1>2, <1>3, <1>4

\* The binding is written.
LEMMA BindCheckpointStep ==
    ASSUME IInv, NEW p \in Procs, BindCheckpoint(p)
    PROVE  IInv'
<1>. USE LedgerAssumption DEF IInv, TypeOK, Checkpoints, Calls, Labels,
             BindCheckpoint, Goto, Return, NoCall, Created, disk
<1>1. TypeOK'
    OBVIOUS
<1>2. LockInv'
    BY DEF LockInv
<1>3. CopyInv'
    BY DEF LockInv, CopyInv
<1>4. FileInv'
    BY DEF LockInv, CopyInv, FileInv, Loadable
<1>. QED BY <1>1, <1>2, <1>3, <1>4

\* A process dies.
LEMMA CrashStep ==
    ASSUME IInv, NEW p \in Procs, Crash(p)
    PROVE  IInv'
<1>. USE LedgerAssumption DEF IInv, TypeOK, Checkpoints, Calls, Labels,
             Crash, Goto, NoCall, Created, disk
<1>1. TypeOK'
    OBVIOUS
<1>2. LockInv'
    BY DEF LockInv
<1>3. CopyInv'
    BY DEF LockInv, CopyInv
<1>4. FileInv'
    BY DEF LockInv, CopyInv, FileInv, Loadable
<1>. QED BY <1>1, <1>2, <1>3, <1>4

\* The invariant holds at first.
LEMMA InitIInv == Init => IInv
<1>. SUFFICES ASSUME Init PROVE IInv
    OBVIOUS
<1>. USE LedgerAssumption DEF Init, Created, NoCall
<1>1. TypeOK
    BY DEF TypeOK, Checkpoints, Calls
<1>2. LockInv /\ CopyInv /\ FileInv
    BY DEF LockInv, CopyInv, FileInv, Labels
<1>. QED BY <1>1, <1>2 DEF IInv

\* Nothing changes, and the invariant stays.
LEMMA StutterStep ==
    ASSUME IInv, UNCHANGED vars
    PROVE  IInv'
<1>. USE DEF IInv, vars, disk, local
<1>1. TypeOK' /\ LockInv'
    BY DEF TypeOK, LockInv
<1>2. CopyInv' /\ FileInv'
    BY DEF CopyInv, FileInv, Loadable
<1>. QED BY <1>1, <1>2

\* Every step of a call, and every crash, preserves the invariant.
LEMMA NextIInv ==
    ASSUME IInv, [Next]_vars
    PROVE  IInv'
<1>1. CASE Next
    BY <1>1, CallStep, AcquireStep, ReadCheckpointStep, LoadStep,
       CompleteStep, WriteLedgerStep, RefuseStep, BindCheckpointStep,
       CrashStep DEF Next
<1>2. CASE UNCHANGED vars
    BY <1>2, StutterStep
<1>. QED BY <1>1, <1>2

\* The flock makes every read-modify-write of the checkpoint act on a current
\* copy.
THEOREM Inductive == Spec => []IInv
<1>. QED BY InitIInv, NextIInv, PTL DEF Spec

\* Every variable of the ledger model keeps its type.
THEOREM TypeCorrect == Spec => []TypeOK
<1>1. IInv => TypeOK
    BY DEF IInv
<1>. QED BY <1>1, Inductive, PTL

\* No call undoes what another has written to the checkpoint: bindings are
\* replaced only by a caller that expected them, and completion stays.
THEOREM NothingIsLost == Spec => NoLostUpdate
<1>. DEFINE Kept ==
        /\ checkpoint'.bound # checkpoint.bound =>
              \E p \in Procs : /\ pc[p] = "written"
                               /\ call[p].prior = checkpoint.bound
                               /\ call[p].ledger = checkpoint'.bound
        /\ checkpoint.status = "completed" => checkpoint'.status = "completed"
<1>1. ASSUME IInv, [Next]_vars PROVE [Kept]_vars
    <2>1. CASE UNCHANGED checkpoint
        BY <2>1
    <2>2. ASSUME NEW p \in Procs, Complete(p) PROVE Kept
        <3>1. mem[p] = checkpoint /\ checkpoint \in Checkpoints
            BY <1>1, <2>2 DEF IInv, CopyInv, TypeOK, Complete, Labels
        <3>. QED BY <2>2, <3>1 DEF Complete, Checkpoints
    <2>3. ASSUME NEW p \in Procs, BindCheckpoint(p) PROVE Kept
        <3>1. /\ mem[p] = checkpoint /\ checkpoint \in Checkpoints
              /\ pc[p] = "written" /\ call[p].prior = checkpoint.bound
            BY <1>1, <2>3 DEF IInv, CopyInv, TypeOK, BindCheckpoint, Labels
        <3>2. checkpoint' = [checkpoint EXCEPT !.bound = call[p].ledger]
            BY <2>3, <3>1 DEF BindCheckpoint
        <3>. QED BY <3>1, <3>2 DEF Checkpoints
    <2>4. CASE Next
        BY <2>1, <2>2, <2>3, <2>4 DEF Next, Call, Acquire, ReadCheckpoint,
           Load, WriteLedger, Refuse, Crash, disk
    <2>. QED BY <1>1, <2>1, <2>4 DEF vars, disk
<1>. QED BY <1>1, Inductive, PTL DEF Spec, NoLostUpdate

\* As long as no process has died inside a call, whoever gets the flock finds
\* a binding that loads: a crash is the only cause of a torn binding.
THEOREM LoadsWithoutCrash == Spec => []OnlyCrashesTear
<1>1. IInv => OnlyCrashesTear
    <2>. SUFFICES ASSUME IInv, crashes = 0, lock = None
                  PROVE  checkpoint.bound = None \/ Loadable(checkpoint)
        BY DEF OnlyCrashesTear, BindingLoads
    <2>1. \A p \in Procs : pc[p] # "written"
        BY LedgerAssumption DEF IInv, LockInv, Labels
    <2>. QED BY <2>1 DEF IInv, FileInv
<1>. QED BY <1>1, Inductive, PTL

-----------------------------------------------------------------------------
(* How a binding is torn, and that nothing mends it.                         *)

\* The binding can be followed, or a call is on its way to a new one: between its
\* two writes the file is ahead of the checkpoint.
Followed ==
    (\A p \in Procs : pc[p] # "written") =>
        checkpoint.bound = None \/ Loadable(checkpoint)

\* A step from a binding that can be followed to one that cannot is the crash of a
\* call that was replacing one binding by another, between its two writes.
TornByReplacement ==
    [][Followed /\ ~Followed' =>
         \E p \in Procs : Crash(p) /\ pc[p] = "written" /\ call[p].prior # None]_vars

\* A binding that cannot be followed stays as it is, the file and the checkpoint
\* both, and every bind and every load that still ends is refused.
TornStaysTorn ==
    [][~Followed =>
         /\ ~Followed'
         /\ checkpoint'.bound = checkpoint.bound /\ file' = file
         /\ \A p \in Procs : reply'[p] = "ok" /\ reply[p] # "ok"
                                 => pc[p] = "complete"]_vars

\* What the disk and the program counters say is all that Followed reads.
LEMMA FollowedStays ==
    ASSUME Followed, checkpoint'.bound = checkpoint.bound, file' = file,
           \A p \in Procs : pc[p] = "written" => pc'[p] = "written"
    PROVE  Followed'
BY DEF Followed, Loadable

\* A create-only call cannot tear anything: whatever is interrupted while there is
\* no binding leaves none, and only a call that replaces a binding leaves one that
\* cannot be loaded, by dying between its two writes.
THEOREM OnlyReplacementsTear == Spec => TornByReplacement
<1>. DEFINE Cause == \E p \in Procs : Crash(p) /\ pc[p] = "written" /\ call[p].prior # None
<1>1. ASSUME IInv, [Next]_vars, Followed PROVE Followed' \/ Cause
    <2>. USE <1>1
    <2>1. CASE UNCHANGED vars
        BY <2>1, FollowedStays DEF vars, disk, local
    <2>2. ASSUME NEW p \in Procs,
                 Call(p) \/ Acquire(p) \/ ReadCheckpoint(p) \/ Load(p) \/ Refuse(p)
          PROVE  Followed'
        <3>1. /\ UNCHANGED disk /\ pc[p] # "written"
              /\ pc \in [Procs -> Labels \cup {"idle", "wait"}]
              /\ \A q \in Procs : q # p => pc'[q] = pc[q]
            BY <2>2 DEF Call, Acquire, ReadCheckpoint, Load, Refuse, Goto, Return,
                        IInv, TypeOK, disk
        <3>. QED BY <3>1, FollowedStays DEF disk
    <2>3. ASSUME NEW p \in Procs, Complete(p) PROVE Followed'
        <3>1. /\ pc[p] = "complete" /\ file' = file /\ checkpoint \in Checkpoints
              /\ checkpoint' = [checkpoint EXCEPT !.status = "completed"]
            BY <2>3 DEF Complete, IInv, CopyInv, TypeOK, Labels
        <3>2. /\ checkpoint'.bound = checkpoint.bound
              /\ \A q \in Procs : q # p => pc'[q] = pc[q]
            BY <2>3, <3>1 DEF Complete, Return, Goto, Checkpoints, IInv, TypeOK
        <3>. QED BY <3>1, <3>2, FollowedStays
    <2>4. ASSUME NEW p \in Procs, WriteLedger(p) PROVE Followed'
        <3>1. pc'[p] = "written"
            BY <2>4 DEF WriteLedger, Goto, IInv, TypeOK
        <3>. QED BY <3>1 DEF Followed
    <2>5. ASSUME NEW p \in Procs, BindCheckpoint(p) PROVE Followed'
        <3>1. /\ file' = call[p].ledger /\ mem[p] \in Checkpoints
              /\ checkpoint' = [mem[p] EXCEPT !.bound = call[p].ledger]
            BY <2>5 DEF BindCheckpoint, IInv, CopyInv, TypeOK
        <3>. QED BY <3>1 DEF Followed, Loadable, Checkpoints
    <2>6. ASSUME NEW p \in Procs, Crash(p) PROVE Followed' \/ Cause
        <3>1. /\ UNCHANGED disk
              /\ \A q \in Procs : q # p => pc'[q] = pc[q]
            BY <2>6 DEF Crash, Goto, IInv, TypeOK
        <3>2. CASE pc[p] # "written"
            BY <3>1, <3>2, FollowedStays DEF disk
        <3>3. CASE pc[p] = "written" /\ call[p].prior = None
            <4>1. checkpoint.bound = None
                BY <3>3 DEF IInv, CopyInv
            <4>. QED BY <3>1, <4>1 DEF Followed, disk
        <3>. QED BY <2>6, <3>2, <3>3
    <2>. QED BY <2>1, <2>2, <2>3, <2>4, <2>5, <2>6 DEF Next
<1>2. IInv /\ [Next]_vars => [Followed /\ ~Followed' => Cause]_vars
    BY <1>1
<1>. QED BY <1>2, Inductive, PTL DEF Spec, TornByReplacement

\* A torn binding is not healed by the store: no bind, create-only or not, replaces
\* it and no load returns it, ever again, while the run can still be completed
\* around it.  Only an operator who repairs the files gets past it.
THEOREM TornForGood == Spec => TornStaysTorn
<1>. DEFINE Kept == /\ ~Followed'
                    /\ checkpoint'.bound = checkpoint.bound /\ file' = file
                    /\ \A p \in Procs : reply'[p] = "ok" /\ reply[p] # "ok"
                                            => pc[p] = "complete"
<1>1. ASSUME IInv, Next, ~Followed PROVE Kept
    <2>. USE <1>1
    <2>1. /\ \A p \in Procs : pc[p] # "written"
          /\ checkpoint.bound # None /\ ~Loadable(checkpoint)
        BY DEF Followed
    <2>2. ASSUME \A p \in Procs : pc'[p] # "written",
                 checkpoint'.bound = checkpoint.bound, file' = file
          PROVE  ~Followed'
        BY <2>1, <2>2 DEF Followed, Loadable
    <2>3. ASSUME NEW p \in Procs, Call(p) \/ Acquire(p) \/ Crash(p) \/ Refuse(p)
          PROVE  Kept
        <3>1. UNCHANGED disk
            BY <2>3 DEF Call, Acquire, Crash, Refuse
        <3>2. \A q \in Procs : pc'[q] # "written" /\ (reply'[q] = "ok" => reply[q] = "ok")
            BY <2>1, <2>3 DEF Call, Acquire, Crash, Refuse, Goto, Return, IInv, TypeOK
        <3>. QED BY <2>2, <3>1, <3>2 DEF disk
    <2>4. ASSUME NEW p \in Procs, ReadCheckpoint(p) PROVE Kept
        <3>1. call[p].op # "written"
            BY DEF IInv, TypeOK, Calls
        <3>2. UNCHANGED <<disk, reply>> /\ \A q \in Procs : pc'[q] # "written"
            BY <2>1, <2>4, <3>1 DEF ReadCheckpoint, Goto, IInv, TypeOK
        <3>. QED BY <2>2, <3>2 DEF disk
    <2>5. ASSUME NEW p \in Procs, Load(p) PROVE Kept
        <3>1. mem[p] = checkpoint
            BY <2>5 DEF Load, IInv, CopyInv, Labels
        <3>2. UNCHANGED disk /\ Return(p, "error")
            BY <2>1, <2>5, <3>1 DEF Load
        <3>3. \A q \in Procs : pc'[q] # "written" /\ (reply'[q] = "ok" => reply[q] = "ok")
            BY <2>1, <3>2 DEF Return, Goto, IInv, TypeOK
        <3>. QED BY <2>2, <3>2, <3>3 DEF disk
    <2>6. ASSUME NEW p \in Procs, Complete(p) PROVE Kept
        <3>1. /\ pc[p] = "complete" /\ mem[p] = checkpoint /\ checkpoint \in Checkpoints
            BY <2>6 DEF Complete, IInv, CopyInv, TypeOK, Labels
        <3>2. checkpoint'.bound = checkpoint.bound /\ file' = file
            BY <2>6, <3>1 DEF Complete, Checkpoints
        <3>3. \A q \in Procs : pc'[q] # "written" /\ (q # p => reply'[q] = reply[q])
            BY <2>1, <2>6 DEF Complete, Return, Goto, IInv, TypeOK
        <3>. QED BY <2>2, <3>1, <3>2, <3>3
    <2>7. ASSUME NEW p \in Procs, WriteLedger(p) PROVE FALSE
        <3>1. mem[p] = checkpoint
            BY <2>7 DEF WriteLedger, IInv, CopyInv, Labels
        <3>2. MayBind(checkpoint, call[p].prior)
            BY <2>7, <3>1 DEF WriteLedger
        <3>. QED BY <2>1, <3>2 DEF MayBind
    <2>8. ASSUME NEW p \in Procs, BindCheckpoint(p) PROVE FALSE
        BY <2>1, <2>8 DEF BindCheckpoint
    <2>. QED BY <2>3, <2>4, <2>5, <2>6, <2>7, <2>8 DEF Next
<1>2. IInv /\ [Next]_vars => [~Followed => Kept]_vars
    BY <1>1
<1>. QED BY <1>2, Inductive, PTL DEF Spec, TornStaysTorn

-----------------------------------------------------------------------------
(* The contents that ledgers and shared artifacts are accepted with.        *)

\* Two contents have one hash only if they are the same.
LEMMA ShaIsInjective == ASSUME NEW x, NEW y, Sha(x) = Sha(y) PROVE x = y
  BY DEF Sha

\* A receipt is of one request of one claim: two valid entries, of whatever runs,
\* whose planner had the same inputs are for the same claim and the same request.
\* So a request cannot be changed under a receipt, nor an entry be given the
\* receipt of another claim, in however small a detail.
THEOREM ReceiptFixesRequest ==
    ASSUME NEW a, NEW b, NEW e, NEW f, ValidEntry(a, e), ValidEntry(b, f),
           e.receipt.planner_input_fingerprint = f.receipt.planner_input_fingerprint
    PROVE  a = b /\ e.request = f.request
  <1> DEFINE i == e.receipt.planner_inputs
             j == f.receipt.planner_inputs
  <1>1. i = j
    <2>1. Sha(i) = Sha(j)
      BY DEF ValidEntry, ValidReceipt
    <2> HIDE DEF i, j
    <2> QED BY <2>1, ShaIsInjective
  <1>2. i.request_identity.claim_id = a /\ j.request_identity.claim_id = b
    BY DEF ValidEntry, ValidReceipt
  <1>3. /\ i.request_identity.request_content_sha256 = Sha(e.request)
        /\ j.request_identity.request_content_sha256 = Sha(f.request)
    BY DEF ValidEntry, ValidReceipt
  <1> HIDE DEF i, j
  <1> QED BY <1>1, <1>2, <1>3, ShaIsInjective

\* A candidate is used for what it was accepted for: two valid entries that hand over
\* the same candidate are for the same claim in the same scope, the scope of the
\* request of each, and the ledgers of both accepted that document, with that
\* content and lineage.
THEOREM CandidateStaysWithItsClaim ==
    ASSUME NEW a, NEW b, NEW e, NEW f, ValidEntry(a, e), ValidEntry(b, f),
           e.accepted_candidate # NoCandidate, e.accepted_candidate = f.accepted_candidate
    PROVE  /\ a = b
           /\ RequestScope(e.request) = RequestScope(f.request)
           /\ e.ledger.status = "accepted" /\ f.ledger.status = "accepted"
           /\ LET x == e.ledger.accepted_evidence
                  y == f.ledger.accepted_evidence
              IN /\ x.candidate_document_id = y.candidate_document_id
                 /\ x.artifact_identity = y.artifact_identity
                 /\ x.lineage_id = y.lineage_id
  <1>1. /\ ValidHandoff(a, e.ledger, e.accepted_candidate)
        /\ ValidHandoff(b, f.ledger, f.accepted_candidate)
    BY DEF ValidEntry
  <1>2. e.ledger.status = "accepted" /\ f.ledger.status = "accepted"
    BY <1>1 DEF ValidHandoff
  <1>3. /\ e.ledger.request_scope_fingerprint = RequestScope(e.request)
        /\ f.ledger.request_scope_fingerprint = RequestScope(f.request)
    BY DEF ValidEntry
  <1> QED BY <1>1, <1>2, <1>3 DEF ValidHandoff

\* Files of shared artifacts are as they were promoted.
Promoted(shared) == \A it \in shared : \E a : it.path = PathOf(a) /\ it.body = a.body

\* A shared artifact never changes and is never refused for its name: where every
\* file is one that was promoted, no promotion meets another content under its name
\* (promote_artifact's "artifact ID collision" is for files somebody has edited),
\* every file stays, and the one asked for is there afterwards.
THEOREM PromotionNeverCollides ==
    ASSUME NEW shared, NEW a, Promoted(shared)
    PROVE  /\ ~Collision(shared, a)
           /\ shared \subseteq WithArtifact(shared, a)
           /\ \E it \in WithArtifact(shared, a) : it.path = PathOf(a) /\ it.body = a.body
           /\ Promoted(WithArtifact(shared, a))
  <1>1. ASSUME NEW b, PathOf(b) = PathOf(a) PROVE b.body = a.body
    <2> DEFINE idOf(x) == ArtifactId(x.kind, x.schema, x.inputs,
                                     [content |-> Sha(x.body), parameters |-> x.parameters])
               from(x) == <<x.kind, x.schema, x.inputs,
                            [content |-> Sha(x.body), parameters |-> x.parameters]>>
    <2>1. idOf(a) = idOf(b)
      BY <1>1 DEF PathOf
    <2>2. idOf(a) = Sha(from(a)) /\ idOf(b) = Sha(from(b))
      BY DEF ArtifactId
    <2> HIDE DEF idOf
    <2>3. from(a) = from(b)
      <3> HIDE DEF from
      <3> QED BY <2>1, <2>2, ShaIsInjective
    <2>4. [content |-> Sha(a.body), parameters |-> a.parameters]
             = [content |-> Sha(b.body), parameters |-> b.parameters]
      BY <2>3
    <2>5. Sha(a.body) = Sha(b.body)
      BY <2>4
    <2> QED BY <2>5, ShaIsInjective
  <1>2. ~Collision(shared, a)
    BY <1>1 DEF Collision, Promoted
  <1>3. CASE Occupied(shared, a)
    <2>1. WithArtifact(shared, a) = shared
      BY <1>3 DEF WithArtifact
    <2>2. PICK it \in shared : it.path = PathOf(a)
      BY <1>3 DEF Occupied
    <2>3. it.body = a.body
      BY <1>2, <2>2 DEF Collision
    <2> QED BY <1>2, <2>1, <2>2, <2>3
  <1>4. CASE ~Occupied(shared, a)
    <2> DEFINE new == [path |-> PathOf(a), body |-> a.body]
    <2>1. WithArtifact(shared, a) = shared \cup {new}
      BY <1>4 DEF WithArtifact
    <2>2. new.path = PathOf(a) /\ new.body = a.body
      OBVIOUS
    <2> HIDE DEF new
    <2>3. Promoted(shared \cup {new})
      BY <2>2 DEF Promoted
    <2> QED BY <1>2, <2>1, <2>2, <2>3
  <1> QED BY <1>3, <1>4

-----------------------------------------------------------------------------
\* Walks: what a recursive definition over the numbers up to a bound computes

\* A set of numbers that is not empty has a least one.
LEMMA LeastNat ==
    ASSUME NEW T \in SUBSET Nat, T # {}
    PROVE  \E m \in T : \A n \in T : m <= n
<1>1. \E m \in T : \A n \in T : ~(<<n, m>> \in OpToRel(<, Nat))
    BY NatLessThanWellFounded, WFMin, Zenon
<1>2. \A m, n \in T : <<n, m>> \in OpToRel(<, Nat) <=> n < m
    BY DEF OpToRel
<1>3. \E m \in T : \A n \in T : ~(n < m)
    BY <1>1, <1>2, Zenon
<1>. QED BY <1>3

\* What holds at the beginning and from each step to the next holds throughout.
LEMMA Climb ==
    ASSUME NEW n \in Nat, NEW G, 0 \in G, \A k \in 1..n : k - 1 \in G => k \in G
    PROVE  \A k \in 0..n : k \in G
<1>. DEFINE U == {k \in 0..n : k \notin G}
<1>1. SUFFICES ASSUME U # {} PROVE FALSE
    OBVIOUS
<1>a. U \in SUBSET Nat
    OBVIOUS
<1>2. PICK m \in U : \A k \in U : m <= k
    <2>. HIDE DEF U
    <2>. QED BY <1>1, <1>a, LeastNat
<1>3. m \in 1..n /\ m - 1 \in 0..n
    BY <1>2
<1>4. m - 1 \in G
    BY <1>2, <1>3
<1>. QED
    BY <1>2, <1>3, <1>4

\* f walks n steps of F from a, in S.
Walkable(S, a, n, F) == a \in S /\ n \in Nat /\ F \in [1..n -> [S -> S]]
Walked(S, a, n, F, f) ==
    f \in [0..n -> S] /\ f[0] = a /\ \A k \in 1..n : f[k] = F[k][f[k - 1]]

\* Steps that stay in a set can be taken one after the other.
LEMMA Walk ==
    ASSUME NEW S, NEW a, NEW n, NEW F, Walkable(S, a, n, F)
    PROVE  \E f : Walked(S, a, n, F, f)
<1>. USE DEF Walkable
<1>. DEFINE W(m, f) == f \in [0..m -> S] /\ f[0] = a
                       /\ \A k \in 1..m : f[k] = F[k][f[k - 1]]
            G == {m \in 0..n : \E f : W(m, f)}
<1>1. 0 \in G
    <2>. DEFINE g == [k \in 0..0 |-> a]
    <2>0. g \in [0..0 -> S] /\ g[0] = a /\ 1..0 = {}
        OBVIOUS
    <2>1. W(0, g)
        <3>. HIDE DEF g
        <3>. QED BY <2>0
    <2>. QED
        <3>. HIDE DEF g, W
        <3>. QED BY <2>1
<1>2. ASSUME NEW m \in 1..n, m - 1 \in G PROVE m \in G
    <2>1. PICK f : W(m - 1, f)
        BY <1>2
    <2>. DEFINE g == [k \in 0..m |-> IF k = m THEN F[m][f[m - 1]] ELSE f[k]]
    <2>2. \A k \in 0..m - 1 : g[k] = f[k]
        OBVIOUS
    <2>3. F[m][f[m - 1]] \in S
        BY <2>1
    <2>4. g \in [0..m -> S]
        BY <2>1, <2>3
    <2>5. g[0] = a
        BY <2>1, <2>2
    <2>6. ASSUME NEW k \in 1..m PROVE g[k] = F[k][g[k - 1]]
        <3>1. CASE k = m
            <4>1. g[m] = F[m][f[m - 1]] /\ g[m - 1] = f[m - 1]
                OBVIOUS
            <4>. QED BY <3>1, <4>1
        <3>2. CASE k # m
            <4>1. k \in 1..m - 1 /\ k - 1 \in 0..m - 1
                BY <3>2
            <4>. HIDE DEF g
            <4>. QED BY <2>1, <2>2, <4>1
        <3>. QED BY <3>1, <3>2
    <2>7. W(m, g)
        <3>. HIDE DEF g
        <3>. QED BY <2>4, <2>5, <2>6
    <2>. QED
        <3>. HIDE DEF g, W
        <3>. QED BY <2>7
<1>3. \A k \in 0..n : k \in G
    <2>. HIDE DEF G
    <2>. QED BY <1>1, <1>2, Climb
<1>. QED BY <1>3 DEF Walked

\* A bounded set of numbers that is not empty has a greatest one.
LEMMA GreatestNat ==
    ASSUME NEW b \in Nat, NEW T \in SUBSET (0..b), T # {}
    PROVE  \E m \in T : \A n \in T : n <= m
<1>. DEFINE U == {b - n : n \in T}
<1>a. \A n \in T : b - n \in Nat
    OBVIOUS
<1>1. U \in SUBSET Nat /\ U # {}
    BY <1>a
<1>2. PICK m \in U : \A n \in U : m <= n
    BY <1>1, LeastNat
<1>3. PICK k \in T : m = b - k
    BY <1>2
<1>4. \A n \in T : n <= k
    BY <1>2, <1>3
<1>. QED BY <1>4

-----------------------------------------------------------------------------
\* Lists of events

\* The events of a manifest.
EventSet == [text : Texts, day : Days, status : Statuses, tenure : Nat,
             provenance : SUBSET (Sources \X Nat)]

\* What events say, record by record; it does not depend on how they are joined.
Facts(e)       == {<<from, Key(e)>> : from \in e.provenance}
FactsOf(list)  == UNION {Facts(list[k]) : k \in DOMAIN list}
\* No record is in two events of a list, or of two lists.
Apart(list)    == \A j, k \in DOMAIN list :
                      j # k => list[j].provenance \cap list[k].provenance = {}
Strange(list, other) ==
    \A j \in DOMAIN list, k \in DOMAIN other : list[j].provenance \cap other[k].provenance = {}

\* Whether lists share a record can be told from what they say.
LEMMA StrangeByFacts ==
    ASSUME NEW list, NEW other
    PROVE  Strange(list, other) <=>
               \A x \in FactsOf(list), y \in FactsOf(other) : x[1] # y[1]
<1>1. ASSUME NEW x, NEW y, x \in FactsOf(list), y \in FactsOf(other), x[1] = y[1]
      PROVE  ~Strange(list, other)
    BY <1>1 DEF Strange, FactsOf, Facts
<1>2. ASSUME NEW j \in DOMAIN list, NEW k \in DOMAIN other,
             list[j].provenance \cap other[k].provenance # {}
      PROVE  \E x \in FactsOf(list), y \in FactsOf(other) : x[1] = y[1]
    <2>1. PICK from : from \in list[j].provenance /\ from \in other[k].provenance
        BY <1>2
    <2>2. /\ <<from, Key(list[j])>> \in FactsOf(list)
          /\ <<from, Key(other[k])>> \in FactsOf(other)
        BY <2>1 DEF FactsOf, Facts
    <2>. QED BY <2>2
<1>. QED BY <1>1, <1>2 DEF Strange

\* Merging an event into a list adds what it says, and nothing else, and keeps
\* the events of the list apart.
LEMMA OneMerged ==
    ASSUME NEW list \in Seq(EventSet), NEW e \in EventSet
    PROVE  /\ MergeOne(list, e) \in Seq(EventSet)
           /\ FactsOf(MergeOne(list, e)) = FactsOf(list) \cup Facts(e)
           /\ Apart(list) /\ Strange(list, <<e>>) => Apart(MergeOne(list, e))
<1>. DEFINE same == {k \in DOMAIN list : Key(list[k]) = Key(e)}
            M    == MergeOne(list, e)
<1>0. DOMAIN list = 1..Len(list) /\ Len(list) \in Nat /\ \A k \in DOMAIN list : list[k] \in EventSet
    OBVIOUS
<1>1. CASE same = {}
    <2>1. M = Append(list, e)
        BY <1>1 DEF MergeOne
    <2>2. /\ DOMAIN M = 1..Len(list) + 1 /\ M[Len(list) + 1] = e
          /\ \A k \in DOMAIN list : M[k] = list[k]
        BY <2>1
    <2>3. FactsOf(M) = FactsOf(list) \cup Facts(e)
        <3>1. DOMAIN M = DOMAIN list \cup {Len(list) + 1}
            BY <1>0, <2>2
        <3>. HIDE DEF M
        <3>. QED BY <2>2, <3>1, Zenon DEF FactsOf
    <2>4. Apart(list) /\ Strange(list, <<e>>) => Apart(M)
        <3>. SUFFICES ASSUME Apart(list), Strange(list, <<e>>),
                             NEW j \in DOMAIN M, NEW k \in DOMAIN M, j # k
                      PROVE  M[j].provenance \cap M[k].provenance = {}
            BY DEF Apart
        <3>1. \A i \in DOMAIN list : list[i].provenance \cap e.provenance = {}
            BY DEF Strange
        <3>. HIDE DEF M
        <3>2. (j \in DOMAIN list \/ j = Len(list) + 1) /\ (k \in DOMAIN list \/ k = Len(list) + 1)
            BY <1>0, <2>2
        <3>. QED BY <2>2, <3>1, <3>2, Zenon DEF Apart
    <2>. QED BY <2>1, <2>3, <2>4
<1>2. CASE same # {}
    <2>. DEFINE m == Max(same)
    <2>1. m \in same
        <3>1. same \in SUBSET (0..Len(list))
            BY <1>0
        <3>2. PICK g \in same : \A k \in same : k <= g
            <4>. HIDE DEF same
            <4>. QED BY <1>0, <1>2, <3>1, GreatestNat
        <3>3. \A k \in same : g >= k
            BY <1>0, <3>1, <3>2
        <3>. HIDE DEF same
        <3>. QED BY <3>2, <3>3, Zenon DEF Max
    <2>. DEFINE joined == [list[m] EXCEPT !.provenance = list[m].provenance \cup e.provenance]
    <2>2. M = [k \in DOMAIN list |-> IF k = m THEN joined ELSE list[k]]
        BY <1>2 DEF MergeOne
    <2>3. joined \in EventSet /\ joined.provenance = list[m].provenance \cup e.provenance
          /\ Key(joined) = Key(list[m]) /\ Key(list[m]) = Key(e)
        BY <1>0, <2>1 DEF EventSet, Key
    <2>. HIDE DEF m, joined
    <2>4. M \in Seq(EventSet)
        BY <1>0, <2>2, <2>3
    <2>5. FactsOf(M) = FactsOf(list) \cup Facts(e)
        <3>1. /\ DOMAIN M = DOMAIN list /\ M[m] = joined
              /\ \A k \in DOMAIN list : k # m => M[k] = list[k]
            BY <2>1, <2>2
        <3>2. Facts(joined) = Facts(list[m]) \cup Facts(e)
            BY <2>3 DEF Facts
        <3>. HIDE DEF M, same
        <3>3. m \in DOMAIN list
            BY <2>1 DEF same
        <3>4. \A x : x \in FactsOf(M) => x \in FactsOf(list) \cup Facts(e)
            BY <3>1, <3>2, <3>3 DEF FactsOf
        <3>5. \A x : x \in FactsOf(list) \cup Facts(e) => x \in FactsOf(M)
            BY <3>1, <3>2, <3>3 DEF FactsOf
        <3>. QED BY <3>4, <3>5
    <2>6. Apart(list) /\ Strange(list, <<e>>) => Apart(M)
        <3>. SUFFICES ASSUME Apart(list), Strange(list, <<e>>),
                             NEW j \in DOMAIN list, NEW k \in DOMAIN list, j # k
                      PROVE  M[j].provenance \cap M[k].provenance = {}
            BY <2>2 DEF Apart
        <3>1. \A i \in DOMAIN list : list[i].provenance \cap e.provenance = {}
            BY DEF Strange
        <3>2. \A i \in DOMAIN list : M[i] = IF i = m THEN joined ELSE list[i]
            BY <2>2
        <3>. HIDE DEF M, same
        <3>. QED BY <2>3, <3>1, <3>2 DEF Apart
    <2>. QED BY <2>4, <2>5, <2>6
<1>. QED BY <1>1, <1>2

\* A recursive definition takes the steps it says it takes.
MergeWalked(list, events, m) ==
    /\ m[0] = list
    /\ \A k \in 1..Len(events) : m[k] = MergeOne(m[k - 1], events[k])
    /\ Merge(list, events) = m[Len(events)]

\* Merging a list is merging its events one after the other.
LEMMA MergeWalks ==
    ASSUME NEW list \in Seq(EventSet), NEW events \in Seq(EventSet)
    PROVE  \E m : MergeWalked(list, events, m)
<1>. DEFINE n == Len(events)
            S == Seq(EventSet)
            F == [k \in 1..n |-> [x \in S |-> MergeOne(x, events[k])]]
<1>1. Walkable(S, list, n, F)
    <2>1. ASSUME NEW k \in 1..n, NEW x \in S PROVE MergeOne(x, events[k]) \in S
        <3>1. x \in Seq(EventSet) /\ events[k] \in EventSet
            OBVIOUS
        <3>. QED BY <3>1, OneMerged
    <2>2. F \in [1..n -> [S -> S]]
        <3>. HIDE DEF S, n
        <3>. QED BY <2>1
    <2>. QED BY <2>2 DEF Walkable
<1>2. PICK f : Walked(S, list, n, F, f)
    <2>. HIDE DEF F, S, n
    <2>. QED BY <1>1, Walk, Zenon
<1>3. f[0] = list /\ \A k \in 1..n : f[k] = MergeOne(f[k - 1], events[k])
    <2>1. \A k \in 1..n : k - 1 \in 0..n
        OBVIOUS
    <2>2. \A k \in 1..n, x \in S : F[k][x] = MergeOne(x, events[k])
        <3>. HIDE DEF S, n
        <3>. QED OBVIOUS
    <2>. HIDE DEF F, S, n
    <2>. QED BY <1>2, <2>1, <2>2 DEF Walked
<1>. DEFINE IsMerged(g) ==
                g = [k \in 0..n |-> IF k = 0 THEN list ELSE MergeOne(g[k - 1], events[k])]
            m == CHOOSE g : IsMerged(g)
<1>4. IsMerged(f)
    <2>. HIDE DEF F, S
    <2>1. n \in Nat
        OBVIOUS
    <2>. HIDE DEF n
    <2>2. \A k \in 0..n : f[k] = IF k = 0 THEN list ELSE MergeOne(f[k - 1], events[k])
        BY <1>3, <2>1
    <2>. QED BY <1>2, <2>2 DEF Walked
<1>5. IsMerged(m)
    <2>. HIDE DEF IsMerged
    <2>. QED BY <1>4, Zenon
<1>6. m[0] = list /\ \A k \in 1..n : m[k] = MergeOne(m[k - 1], events[k])
    <2>1. n \in Nat
        OBVIOUS
    <2>. HIDE DEF m, n, S, F
    <2>. QED BY <1>5, <2>1
<1>7. Merge(list, events) = m[n]
    BY Zenon DEF Merge
<1>8. MergeWalked(list, events, m)
    <2>. HIDE DEF m
    <2>. QED BY <1>6, <1>7 DEF MergeWalked
<1>. QED
    <2>. HIDE DEF m
    <2>. QED BY <1>8

\* Merging a list adds what it says and keeps the events apart.
LEMMA Merged ==
    ASSUME NEW list \in Seq(EventSet), NEW events \in Seq(EventSet)
    PROVE  /\ Merge(list, events) \in Seq(EventSet)
           /\ FactsOf(Merge(list, events)) = FactsOf(list) \cup FactsOf(events)
           /\ Apart(list) /\ Apart(events) /\ Strange(list, events) => Apart(Merge(list, events))
<1>. DEFINE n == Len(events)
            Done(k) == UNION {Facts(events[j]) : j \in 1..k}
            Fresh == Apart(list) /\ Apart(events) /\ Strange(list, events)
<1>1. PICK m : /\ m[0] = list
               /\ \A k \in 1..n : m[k] = MergeOne(m[k - 1], events[k])
               /\ Merge(list, events) = m[n]
    BY MergeWalks, Zenon DEF MergeWalked
<1>. DEFINE Fine(k) == /\ m[k] \in Seq(EventSet)
                       /\ FactsOf(m[k]) = FactsOf(list) \cup Done(k)
                       /\ Fresh => Apart(m[k])
            G == {k \in 0..n : Fine(k)}
<1>2. n \in Nat /\ DOMAIN events = 1..n /\ \A k \in 1..n : events[k] \in EventSet
    OBVIOUS
<1>3. 0 \in G
    <2>1. Done(0) = {}
        OBVIOUS
    <2>. QED BY <1>1, <1>2, <2>1
<1>4. ASSUME NEW k \in 1..n, k - 1 \in G PROVE k \in G
    <2>1. Fine(k - 1)
        BY <1>4
    <2>2. Done(k) = Done(k - 1) \cup Facts(events[k])
        <3>1. 1..k = (1..k - 1) \cup {k}
            BY <1>2
        <3>. QED BY <3>1
    <2>3. Fresh => Strange(m[k - 1], <<events[k]>>)
        <3>. SUFFICES ASSUME Fresh, NEW x \in FactsOf(m[k - 1]), NEW y \in FactsOf(<<events[k]>>)
                      PROVE  x[1] # y[1]
            BY StrangeByFacts
        <3>1. y \in Facts(events[k])
            BY DEF FactsOf
        <3>2. CASE x \in FactsOf(list)
            <4>1. y \in FactsOf(events)
                BY <1>2, <3>1 DEF FactsOf
            <4>. QED BY <3>2, <4>1, StrangeByFacts
        <3>3. CASE x \in Done(k - 1)
            <4>1. PICK j \in 1..k - 1 : x \in Facts(events[j])
                BY <3>3
            <4>2. j \in DOMAIN events /\ k \in DOMAIN events /\ j # k
                BY <1>2
            <4>. QED BY <3>1, <4>1, <4>2 DEF Facts, Apart
        <3>. QED BY <2>1, <3>2, <3>3
    <2>4. m[k] = MergeOne(m[k - 1], events[k])
        BY <1>1
    <2>5. Fine(k)
        <3>. HIDE DEF Done, Fresh
        <3>1. Fresh => Apart(m[k - 1]) /\ Strange(m[k - 1], <<events[k]>>)
            BY <2>1, <2>3
        <3>2. m[k - 1] \in Seq(EventSet) /\ FactsOf(m[k - 1]) = FactsOf(list) \cup Done(k - 1)
            BY <2>1
        <3>3. /\ m[k] \in Seq(EventSet)
              /\ FactsOf(m[k]) = FactsOf(m[k - 1]) \cup Facts(events[k])
              /\ Fresh => Apart(m[k])
            BY <1>2, <2>4, <3>1, <3>2, OneMerged
        <3>. QED BY <2>2, <3>2, <3>3
    <2>. QED
        <3>. HIDE DEF Fine
        <3>. QED BY <1>2, <2>5
<1>5. Fine(n)
    <2>1. \A k \in 0..n : k \in G
        <3>. HIDE DEF G
        <3>. QED BY <1>2, <1>3, <1>4, Climb
    <2>. HIDE DEF Fine
    <2>. QED BY <1>2, <2>1
<1>6. Done(n) = FactsOf(events)
    BY <1>2 DEF FactsOf
<1>. QED
    BY <1>1, <1>5, <1>6

\* A recursive definition takes the steps it says it takes.
MergeAllWalked(list, answers, m) ==
    /\ m[0] = list
    /\ \A k \in 1..Len(answers) : m[k] = Merge(m[k - 1], answers[k])
    /\ MergeAll(list, answers) = m[Len(answers)]

\* Merging the lists of all sources is merging one after the other.
LEMMA MergeAllWalks ==
    ASSUME NEW list \in Seq(EventSet), NEW answers \in Seq(Seq(EventSet))
    PROVE  \E m : MergeAllWalked(list, answers, m)
<1>. DEFINE n == Len(answers)
            S == Seq(EventSet)
            F == [k \in 1..n |-> [x \in S |-> Merge(x, answers[k])]]
<1>1. Walkable(S, list, n, F)
    <2>1. ASSUME NEW k \in 1..n, NEW x \in S PROVE Merge(x, answers[k]) \in S
        <3>1. x \in Seq(EventSet) /\ answers[k] \in Seq(EventSet)
            OBVIOUS
        <3>. QED BY <3>1, Merged
    <2>2. F \in [1..n -> [S -> S]]
        <3>. HIDE DEF S, n
        <3>. QED BY <2>1
    <2>. QED BY <2>2 DEF Walkable
<1>2. PICK f : Walked(S, list, n, F, f)
    <2>. HIDE DEF F, S, n
    <2>. QED BY <1>1, Walk, Zenon
<1>3. f[0] = list /\ \A k \in 1..n : f[k] = Merge(f[k - 1], answers[k])
    <2>1. \A k \in 1..n : k - 1 \in 0..n
        OBVIOUS
    <2>2. \A k \in 1..n, x \in S : F[k][x] = Merge(x, answers[k])
        <3>. HIDE DEF S, n
        <3>. QED OBVIOUS
    <2>. HIDE DEF F, S, n
    <2>. QED BY <1>2, <2>1, <2>2 DEF Walked
<1>. DEFINE IsMerged(g) ==
                g = [k \in 0..n |-> IF k = 0 THEN list ELSE Merge(g[k - 1], answers[k])]
            m == CHOOSE g : IsMerged(g)
<1>4. IsMerged(f)
    <2>. HIDE DEF F, S
    <2>1. n \in Nat
        OBVIOUS
    <2>. HIDE DEF n
    <2>2. \A k \in 0..n : f[k] = IF k = 0 THEN list ELSE Merge(f[k - 1], answers[k])
        BY <1>3, <2>1
    <2>. QED BY <1>2, <2>2 DEF Walked
<1>5. IsMerged(m)
    <2>. HIDE DEF IsMerged
    <2>. QED BY <1>4, Zenon
<1>6. m[0] = list /\ \A k \in 1..n : m[k] = Merge(m[k - 1], answers[k])
    <2>1. n \in Nat
        OBVIOUS
    <2>. HIDE DEF m, n, S, F
    <2>. QED BY <1>5, <2>1
<1>7. MergeAll(list, answers) = m[n]
    BY Zenon DEF MergeAll
<1>8. MergeAllWalked(list, answers, m)
    <2>. HIDE DEF m
    <2>. QED BY <1>6, <1>7 DEF MergeAllWalked
<1>. QED
    <2>. HIDE DEF m
    <2>. QED BY <1>8

\* The events of all answers are about different records.
AllStrange(list, answers) ==
    /\ Apart(list) /\ \A k \in DOMAIN answers : Apart(answers[k]) /\ Strange(list, answers[k])
    /\ \A j, k \in DOMAIN answers : j # k => Strange(answers[j], answers[k])

\* Merging all lists adds what they say and keeps the events apart.
LEMMA AllMerged ==
    ASSUME NEW list \in Seq(EventSet), NEW answers \in Seq(Seq(EventSet))
    PROVE  /\ MergeAll(list, answers) \in Seq(EventSet)
           /\ FactsOf(MergeAll(list, answers))
                 = FactsOf(list) \cup UNION {FactsOf(answers[k]) : k \in DOMAIN answers}
           /\ AllStrange(list, answers) => Apart(MergeAll(list, answers))
<1>. DEFINE n == Len(answers)
            Done(k) == UNION {FactsOf(answers[j]) : j \in 1..k}
            Fresh == AllStrange(list, answers)
<1>1. PICK m : /\ m[0] = list
               /\ \A k \in 1..n : m[k] = Merge(m[k - 1], answers[k])
               /\ MergeAll(list, answers) = m[n]
    BY MergeAllWalks, Zenon DEF MergeAllWalked
<1>. DEFINE Fine(k) == /\ m[k] \in Seq(EventSet)
                       /\ FactsOf(m[k]) = FactsOf(list) \cup Done(k)
                       /\ Fresh => Apart(m[k])
            G == {k \in 0..n : Fine(k)}
<1>2. n \in Nat /\ DOMAIN answers = 1..n /\ \A k \in 1..n : answers[k] \in Seq(EventSet)
    OBVIOUS
<1>3. 0 \in G
    <2>1. Done(0) = {}
        OBVIOUS
    <2>. QED BY <1>1, <1>2, <2>1 DEF AllStrange
<1>4. ASSUME NEW k \in 1..n, k - 1 \in G PROVE k \in G
    <2>1. Fine(k - 1)
        BY <1>4
    <2>2. Done(k) = Done(k - 1) \cup FactsOf(answers[k])
        <3>1. 1..k = (1..k - 1) \cup {k}
            BY <1>2
        <3>. QED BY <3>1
    <2>3. Fresh => Strange(m[k - 1], answers[k])
        <3>. SUFFICES ASSUME Fresh, NEW x \in FactsOf(m[k - 1]), NEW y \in FactsOf(answers[k])
                      PROVE  x[1] # y[1]
            BY StrangeByFacts
        <3>1. CASE x \in FactsOf(list)
            BY <1>2, <3>1, StrangeByFacts DEF AllStrange
        <3>2. CASE x \in Done(k - 1)
            <4>1. PICK j \in 1..k - 1 : x \in FactsOf(answers[j])
                BY <3>2
            <4>2. j \in DOMAIN answers /\ k \in DOMAIN answers /\ j # k
                BY <1>2
            <4>. QED BY <4>1, <4>2, StrangeByFacts DEF AllStrange
        <3>. QED BY <2>1, <3>1, <3>2
    <2>4. m[k] = Merge(m[k - 1], answers[k])
        BY <1>1
    <2>5. Fine(k)
        <3>1. Fresh => Apart(m[k - 1]) /\ Strange(m[k - 1], answers[k]) /\ Apart(answers[k])
            BY <1>2, <2>1, <2>3 DEF AllStrange
        <3>. HIDE DEF Done, Fresh
        <3>2. m[k - 1] \in Seq(EventSet) /\ FactsOf(m[k - 1]) = FactsOf(list) \cup Done(k - 1)
            BY <2>1
        <3>3. /\ m[k] \in Seq(EventSet)
              /\ FactsOf(m[k]) = FactsOf(m[k - 1]) \cup FactsOf(answers[k])
              /\ Fresh => Apart(m[k])
            BY <1>2, <2>4, <3>1, <3>2, Merged
        <3>. QED BY <2>2, <3>2, <3>3
    <2>. QED
        <3>. HIDE DEF Fine
        <3>. QED BY <1>2, <2>5
<1>5. Fine(n)
    <2>1. \A k \in 0..n : k \in G
        <3>. HIDE DEF G
        <3>. QED BY <1>2, <1>3, <1>4, Climb
    <2>. HIDE DEF Fine
    <2>. QED BY <1>2, <2>1
<1>. QED
    BY <1>1, <1>2, <1>5

\* The list that build_manifest makes of the answers of at least one source.
LEMMA Aggregated ==
    ASSUME NEW answers \in Seq(Seq(EventSet)), answers # <<>>,
           \A k \in DOMAIN answers : Apart(answers[k]),
           \A j, k \in DOMAIN answers : j # k => Strange(answers[j], answers[k])
    PROVE  /\ Aggregate(answers) \in Seq(EventSet)
           /\ FactsOf(Aggregate(answers)) = UNION {FactsOf(answers[k]) : k \in DOMAIN answers}
           /\ Apart(Aggregate(answers))
<1>. DEFINE head == Head(answers)
            tail == Tail(answers)
<1>1. /\ head \in Seq(EventSet) /\ tail \in Seq(Seq(EventSet))
      /\ head = answers[1] /\ 1 \in DOMAIN answers
      /\ \A k \in DOMAIN tail : k + 1 \in DOMAIN answers /\ tail[k] = answers[k + 1] /\ k # 0
      /\ \A k \in DOMAIN answers : k = 1 \/ (k - 1 \in DOMAIN tail /\ answers[k] = tail[k - 1])
    OBVIOUS
<1>2. Aggregate(answers) = MergeAll(head, tail)
    BY DEF Aggregate
<1>. HIDE DEF head, tail
<1>3. AllStrange(head, tail)
    <2>1. \A k \in DOMAIN tail : k \in Int
        BY <1>1
    <2>2. \A j, k \in Int : j # k => j + 1 # k + 1
        OBVIOUS
    <2>3. \A k \in Int : k # 0 => 1 # k + 1
        OBVIOUS
    <2>4. \A k \in DOMAIN tail : Apart(tail[k]) /\ Strange(head, tail[k])
        BY <1>1, <2>1, <2>3
    <2>5. \A j, k \in DOMAIN tail : j # k => Strange(tail[j], tail[k])
        BY <1>1, <2>1, <2>2
    <2>. QED BY <1>1, <2>4, <2>5 DEF AllStrange
<1>4. FactsOf(head) \cup UNION {FactsOf(tail[k]) : k \in DOMAIN tail}
          = UNION {FactsOf(answers[k]) : k \in DOMAIN answers}
    BY <1>1
<1>. QED BY <1>1, <1>2, <1>3, <1>4, AllMerged

\* build_manifest begins with the events of the first source, revalidate_manifest
\* with nothing: both lists say the same of every record, though like events of the
\* first source are joined only by the second.
THEOREM RevalidationSaysTheSame ==
    ASSUME NEW answers \in Seq(Seq(EventSet)), answers # <<>>
    PROVE  FactsOf(Aggregate(answers)) = FactsOf(AggregateAgain(answers))
<1>. DEFINE head == Head(answers)
            tail == Tail(answers)
            All(lists) == UNION {FactsOf(lists[k]) : k \in DOMAIN lists}
<1>1. /\ head \in Seq(EventSet) /\ tail \in Seq(Seq(EventSet)) /\ <<>> \in Seq(EventSet)
      /\ head = answers[1] /\ 1 \in DOMAIN answers
      /\ \A k \in DOMAIN tail : k + 1 \in DOMAIN answers /\ tail[k] = answers[k + 1]
      /\ \A k \in DOMAIN answers : k = 1 \/ (k - 1 \in DOMAIN tail /\ answers[k] = tail[k - 1])
    OBVIOUS
<1>2. Aggregate(answers) = MergeAll(head, tail) /\ AggregateAgain(answers) = MergeAll(<<>>, answers)
    BY DEF Aggregate, AggregateAgain
<1>. HIDE DEF head, tail
<1>3. FactsOf(MergeAll(head, tail)) = FactsOf(head) \cup All(tail)
    BY <1>1, AllMerged
<1>4. FactsOf(MergeAll(<<>>, answers)) = FactsOf(<<>>) \cup All(answers)
    BY <1>1, AllMerged
<1>5. FactsOf(<<>>) = {}
    BY DEF FactsOf
<1>6. FactsOf(head) \cup All(tail) = All(answers)
    <2>1. ASSUME NEW k \in DOMAIN tail PROVE FactsOf(tail[k]) \subseteq All(answers)
        <3>1. k + 1 \in DOMAIN answers /\ tail[k] = answers[k + 1]
            BY <1>1
        <3>. QED BY <3>1
    <2>2. ASSUME NEW k \in DOMAIN answers
          PROVE  FactsOf(answers[k]) \subseteq FactsOf(head) \cup All(tail)
        <3>1. CASE k = 1
            BY <1>1, <3>1
        <3>2. CASE k - 1 \in DOMAIN tail /\ answers[k] = tail[k - 1]
            BY <3>2
        <3>. QED BY <1>1, <3>1, <3>2
    <2>. QED BY <1>1, <2>1, <2>2
<1>. HIDE DEF All
<1>. QED BY <1>2, <1>3, <1>4, <1>5, <1>6

-----------------------------------------------------------------------------
\* Answers

\* What a source publishes.
Records == [record : Nat, category : Categories, subject : Persons \cup Nat, role : Roles,
            connection : Connections, day : Days, published : Days, status : Statuses,
            effective : Days, text : Texts]

\* A page has no record twice.
Distinct(page) == \A j, k \in DOMAIN page : j # k => page[j].record # page[k].record

\* A recursive definition takes the steps it says it takes.
PickWalked(page, source, category, start, as_of, m) ==
    /\ m[0] = <<>>
    /\ \A k \in 1..Len(page) :
          m[k] = IF Wanted(source, category, page[k], start, as_of)
                 THEN Append(m[k - 1], page[k]) ELSE m[k - 1]
    /\ AnswerTo(page, source, category, start, as_of) = m[Len(page)]

\* Answering a query is going through the page once.
LEMMA PickWalks ==
    ASSUME NEW page \in Seq(Records), NEW source, NEW category, NEW start, NEW as_of
    PROVE  \E m : PickWalked(page, source, category, start, as_of, m)
<1>. DEFINE n == Len(page)
            S == Seq(Records)
            Asked(k) == Wanted(source, category, page[k], start, as_of)
            After(k, x) == IF Asked(k) THEN Append(x, page[k]) ELSE x
            F == [k \in 1..n |-> [x \in S |-> After(k, x)]]
<1>1. Walkable(S, <<>>, n, F)
    <2>1. ASSUME NEW k \in 1..n, NEW x \in S PROVE After(k, x) \in S
        <3>1. x \in Seq(Records) /\ page[k] \in Records
            OBVIOUS
        <3>. QED BY <3>1
    <2>2. F \in [1..n -> [S -> S]]
        <3>. HIDE DEF S, n, After
        <3>. QED BY <2>1
    <2>3. n \in Nat /\ <<>> \in S
        OBVIOUS
    <2>. QED BY <2>2, <2>3 DEF Walkable
<1>2. PICK f : Walked(S, <<>>, n, F, f)
    <2>. HIDE DEF F, S, n
    <2>. QED BY <1>1, Walk, Zenon
<1>3. f[0] = <<>> /\ \A k \in 1..n : f[k] = After(k, f[k - 1])
    <2>1. \A k \in 1..n : k - 1 \in 0..n
        OBVIOUS
    <2>2. \A k \in 1..n, x \in S : F[k][x] = After(k, x)
        <3>. HIDE DEF S, n, After
        <3>. QED OBVIOUS
    <2>. HIDE DEF F, S, n, After
    <2>. QED BY <1>2, <2>1, <2>2 DEF Walked
<1>. DEFINE IsPicked(g) ==
                g = [k \in 0..n |->
                        IF k = 0 THEN <<>>
                        ELSE IF Asked(k) THEN Append(g[k - 1], page[k]) ELSE g[k - 1]]
            m == CHOOSE g : IsPicked(g)
<1>4. IsPicked(f)
    <2>. HIDE DEF F, S
    <2>1. n \in Nat
        OBVIOUS
    <2>. HIDE DEF n, Asked
    <2>2. \A k \in 0..n : f[k] = IF k = 0 THEN <<>>
                                 ELSE IF Asked(k) THEN Append(f[k - 1], page[k]) ELSE f[k - 1]
        BY <1>3, <2>1
    <2>. QED BY <1>2, <2>2 DEF Walked
<1>5. IsPicked(m)
    <2>. HIDE DEF IsPicked
    <2>. QED BY <1>4, Zenon
<1>6. m[0] = <<>> /\ \A k \in 1..n : m[k] = IF Asked(k) THEN Append(m[k - 1], page[k]) ELSE m[k - 1]
    <2>. DEFINE Value(k) == IF k = 0 THEN <<>>
                            ELSE IF Asked(k) THEN Append(m[k - 1], page[k]) ELSE m[k - 1]
    <2>1. n \in Nat
        OBVIOUS
    <2>. HIDE DEF m, n, S, F, Asked, After
    <2>2. m = [k \in 0..n |-> Value(k)]
        BY <1>5
    <2>3. \A k \in 0..n : m[k] = Value(k)
        <3>. HIDE DEF Value
        <3>. QED BY <2>2
    <2>. HIDE DEF IsPicked
    <2>4. 0 \in 0..n /\ \A k \in 1..n : k \in 0..n /\ k # 0
        BY <2>1
    <2>. QED BY <2>3, <2>4, Zenon
<1>7. AnswerTo(page, source, category, start, as_of) = m[n]
    BY Zenon DEF AnswerTo
<1>8. PickWalked(page, source, category, start, as_of, m)
    <2>. HIDE DEF m
    <2>. QED BY <1>6, <1>7 DEF PickWalked
<1>. QED
    <2>. HIDE DEF m
    <2>. QED BY <1>8

\* An answer has exactly the records that the query wants.
LEMMA Picked ==
    ASSUME NEW page \in Seq(Records), NEW source, NEW category, NEW start, NEW as_of,
           NEW answer, answer = AnswerTo(page, source, category, start, as_of)
    PROVE  /\ answer \in Seq(Records)
           /\ \A i \in DOMAIN answer : \E j \in DOMAIN page :
                 answer[i] = page[j] /\ Wanted(source, category, page[j], start, as_of)
           /\ \A j \in DOMAIN page : Wanted(source, category, page[j], start, as_of) =>
                 \E i \in DOMAIN answer : answer[i] = page[j]
           /\ Distinct(page) => Distinct(answer)
<1>. DEFINE n == Len(page)
            Asked(k) == Wanted(source, category, page[k], start, as_of)
<1>0. PICK m : PickWalked(page, source, category, start, as_of, m)
    BY PickWalks, Zenon
<1>1. /\ m[0] = <<>>
      /\ \A k \in 1..n : m[k] = IF Asked(k) THEN Append(m[k - 1], page[k]) ELSE m[k - 1]
      /\ answer = m[n]
    BY <1>0 DEF PickWalked
<1>. HIDE DEF Asked
<1>. DEFINE Fine(k) == /\ m[k] \in Seq(Records)
                       /\ \A i \in DOMAIN m[k] : \E j \in 1..k : m[k][i] = page[j] /\ Asked(j)
                       /\ \A j \in 1..k : Asked(j) => \E i \in DOMAIN m[k] : m[k][i] = page[j]
                       /\ Distinct(page) => Distinct(m[k])
            G == {k \in 0..n : Fine(k)}
<1>2. n \in Nat /\ DOMAIN page = 1..n /\ \A k \in 1..n : page[k] \in Records
    OBVIOUS
<1>3. 0 \in G
    <2>1. m[0] \in Seq(Records) /\ DOMAIN m[0] = {} /\ 1..0 = {}
        BY <1>1
    <2>2. Fine(0)
        BY <2>1 DEF Distinct
    <2>. HIDE DEF Fine
    <2>. QED BY <1>2, <2>2
<1>4. ASSUME NEW k \in 1..n, k - 1 \in G PROVE k \in G
    <2>1. Fine(k - 1)
        BY <1>4
    <2>2. k \in 0..n /\ 1..k = (1..k - 1) \cup {k} /\ k \notin 1..k - 1
        BY <1>2
    <2>3. CASE ~Asked(k)
        <3>1. m[k] = m[k - 1]
            BY <1>1, <2>3
        <3>. QED BY <2>1, <2>2, <2>3, <3>1
    <2>4. CASE Asked(k)
        <3>. DEFINE old == m[k - 1]
                    new == m[k]
                    l == Len(old)
        <3>1. new = Append(old, page[k]) /\ page[k] \in Records /\ old \in Seq(Records)
            BY <1>1, <1>2, <2>1, <2>4
        <3>2. /\ new \in Seq(Records) /\ DOMAIN new = DOMAIN old \cup {l + 1}
              /\ new[l + 1] = page[k] /\ \A i \in DOMAIN old : new[i] = old[i]
            <4>. HIDE DEF old, new
            <4>. QED BY <3>1
        <3>3. /\ \A i \in DOMAIN old : \E j \in 1..k - 1 : old[i] = page[j] /\ Asked(j)
              /\ \A j \in 1..k - 1 : Asked(j) => \E i \in DOMAIN old : old[i] = page[j]
              /\ Distinct(page) => Distinct(old)
            BY <2>1
        <3>. HIDE DEF old, new, l
        <3>4. \A i \in DOMAIN new : \E j \in 1..k : new[i] = page[j] /\ Asked(j)
            BY <2>2, <2>4, <3>2, <3>3
        <3>5. \A j \in 1..k : Asked(j) => \E i \in DOMAIN new : new[i] = page[j]
            BY <2>2, <3>2, <3>3
        <3>6. Distinct(page) => Distinct(new)
            <4>. SUFFICES ASSUME Distinct(page) PROVE Distinct(new)
                OBVIOUS
            <4>1. \A i \in DOMAIN old : old[i].record # page[k].record
                <5>. SUFFICES ASSUME NEW i \in DOMAIN old PROVE old[i].record # page[k].record
                    OBVIOUS
                <5>1. PICK j \in 1..k - 1 : old[i] = page[j]
                    BY <3>3
                <5>2. j \in 1..n /\ j # k
                    BY <1>2
                <5>. QED BY <1>2, <5>1, <5>2 DEF Distinct
            <4>. QED BY <3>2, <3>3, <4>1 DEF Distinct
        <3>7. Fine(k)
            BY <3>2, <3>4, <3>5, <3>6 DEF new
        <3>. HIDE DEF Fine
        <3>. QED BY <2>2, <3>7
    <2>. QED BY <2>3, <2>4
<1>5. Fine(n)
    <2>1. \A k \in 0..n : k \in G
        <3>. HIDE DEF G
        <3>. QED BY <1>2, <1>3, <1>4, Climb
    <2>. HIDE DEF Fine
    <2>. QED BY <1>2, <2>1
<1>6. /\ answer \in Seq(Records)
      /\ \A i \in DOMAIN answer : \E j \in DOMAIN page : answer[i] = page[j] /\ Asked(j)
      /\ \A j \in DOMAIN page : Asked(j) => \E i \in DOMAIN answer : answer[i] = page[j]
      /\ Distinct(page) => Distinct(answer)
    <2>. HIDE DEF n
    <2>. QED BY <1>1, <1>2, <1>5
<1>. QED
    BY <1>6 DEF Asked

\* The event a valid record becomes, and the tenure it is about.
Fits(e, source, r, subjects) ==
    /\ e \in EventSet
    /\ e.provenance = {<<source, r.record>>} /\ e.status = r.status /\ e.day = r.day
    /\ \E t \in subjects : t.id = e.tenure /\ t.role = r.role /\ r.subject \in {t.person, t.id}

\* An event says what its record says, of the one tenure the record is about.
LEMMA EventFits ==
    ASSUME NEW subjects \in SUBSET Tenures, NEW source \in Sources, NEW category,
           NEW r \in Records, NEW start, NEW as_of,
           ValidRecord(source, category, r, subjects, start, as_of)
    PROVE  Fits(Event(source, r, subjects), source, r, subjects)
<1>. DEFINE e == Event(source, r, subjects)
            meant == Meant(source, r, subjects)
            t == CHOOSE u \in meant : TRUE
<1>1. meant # {}
    BY FS_EmptySet DEF ValidRecord
<1>2. t \in meant
    <2>. HIDE DEF meant
    <2>. QED BY <1>1
<1>. HIDE DEF t
<1>3. t \in subjects /\ r.subject \in {t.person, t.id}
    BY <1>2 DEF Meant
<1>4. t.role = r.role
    BY <1>2 DEF ValidRecord, ValidConnection
<1>5. e = [text |-> r.text, day |-> r.day, status |-> r.status, tenure |-> t.id,
           provenance |-> {<<source, r.record>>}]
    BY DEF Event, t
<1>6. /\ t.id \in Nat /\ r.text \in Texts /\ r.day \in Days
      /\ r.status \in Statuses /\ r.record \in Nat
    BY <1>3 DEF Records, Tenures
<1>7. e \in EventSet
    BY <1>5, <1>6 DEF EventSet
<1>. HIDE DEF e
<1>8. Fits(e, source, r, subjects)
    BY <1>3, <1>4, <1>5, <1>7 DEF Fits
<1>. QED BY <1>8 DEF e

\* What the event of a record says.
Told(source, r, subjects) == <<<<source, r.record>>, Key(Event(source, r, subjects))>>

\* What one source contributes.
LEMMA OneAnswer ==
    ASSUME NEW subjects \in SUBSET Tenures, NEW source \in Sources, NEW category,
           NEW page \in Seq(Records), Distinct(page), NEW start, NEW as_of,
           NEW answer, answer = AnswerTo(page, source, category, start, as_of),
           \A k \in DOMAIN answer :
               ValidRecord(source, category, answer[k], subjects, start, as_of),
           NEW events, events = Events(source, answer, subjects)
    PROVE  /\ events \in Seq(EventSet) /\ Apart(events)
           /\ \A x \in FactsOf(events) : \E j \in DOMAIN page :
                 /\ ValidRecord(source, category, page[j], subjects, start, as_of)
                 /\ x = Told(source, page[j], subjects)
           /\ \A j \in DOMAIN page : Wanted(source, category, page[j], start, as_of) =>
                 /\ ValidRecord(source, category, page[j], subjects, start, as_of)
                 /\ Told(source, page[j], subjects) \in FactsOf(events)
<1>1. /\ answer \in Seq(Records)
      /\ \A i \in DOMAIN answer : \E j \in DOMAIN page : answer[i] = page[j]
      /\ \A j \in DOMAIN page : Wanted(source, category, page[j], start, as_of) =>
            \E i \in DOMAIN answer : answer[i] = page[j]
      /\ Distinct(answer)
    BY Picked
<1>2. \A i \in DOMAIN answer : answer[i] \in Records
    BY <1>1
<1>3. /\ DOMAIN events = DOMAIN answer
      /\ \A i \in DOMAIN answer : events[i] = Event(source, answer[i], subjects)
    BY DEF Events
<1>4. \A i \in DOMAIN answer :
          events[i] \in EventSet /\ events[i].provenance = {<<source, answer[i].record>>}
    <2>. SUFFICES ASSUME NEW i \in DOMAIN answer
                  PROVE  /\ events[i] \in EventSet
                         /\ events[i].provenance = {<<source, answer[i].record>>}
        OBVIOUS
    <2>1. /\ answer[i] \in Records /\ events[i] = Event(source, answer[i], subjects)
          /\ ValidRecord(source, category, answer[i], subjects, start, as_of)
        BY <1>2, <1>3
    <2>2. Fits(Event(source, answer[i], subjects), source, answer[i], subjects)
        BY <2>1, EventFits, Zenon
    <2>. QED BY <2>1, <2>2 DEF Fits
<1>5. events \in Seq(EventSet)
    <2>1. DOMAIN events = 1..Len(answer) /\ Len(answer) \in Nat
        BY <1>1, <1>3
    <2>2. events = [i \in 1..Len(answer) |-> events[i]]
        BY <1>1 DEF Events
    <2>. QED BY <1>3, <1>4, <2>1, <2>2
<1>6. Apart(events)
    <2>. SUFFICES ASSUME NEW j \in DOMAIN answer, NEW k \in DOMAIN answer, j # k
                  PROVE  events[j].provenance \cap events[k].provenance = {}
        BY <1>3 DEF Apart
    <2>1. answer[j].record # answer[k].record
        BY <1>1 DEF Distinct
    <2>2. /\ events[j].provenance = {<<source, answer[j].record>>}
          /\ events[k].provenance = {<<source, answer[k].record>>}
        BY <1>4
    <2>. QED BY <2>1, <2>2
<1>7. \A i \in DOMAIN answer : Facts(events[i]) = {Told(source, answer[i], subjects)}
    BY <1>3, <1>4 DEF Facts, Told
<1>8. FactsOf(events) = {Told(source, answer[i], subjects) : i \in DOMAIN answer}
    BY <1>3, <1>7 DEF FactsOf
<1>9. \A x \in FactsOf(events) : \E j \in DOMAIN page :
          /\ ValidRecord(source, category, page[j], subjects, start, as_of)
          /\ x = Told(source, page[j], subjects)
    <2>. SUFFICES ASSUME NEW x \in FactsOf(events)
                  PROVE  \E j \in DOMAIN page :
                            /\ ValidRecord(source, category, page[j], subjects, start, as_of)
                            /\ x = Told(source, page[j], subjects)
        OBVIOUS
    <2>1. PICK i \in DOMAIN answer : x = Told(source, answer[i], subjects)
        BY <1>8
    <2>2. PICK j \in DOMAIN page : answer[i] = page[j]
        BY <1>1
    <2>. QED BY <2>1, <2>2
<1>10. ASSUME NEW j \in DOMAIN page, Wanted(source, category, page[j], start, as_of)
       PROVE  /\ ValidRecord(source, category, page[j], subjects, start, as_of)
              /\ Told(source, page[j], subjects) \in FactsOf(events)
    <2>1. PICK i \in DOMAIN answer : answer[i] = page[j]
        BY <1>1, <1>10
    <2>. QED BY <1>8, <2>1
<1>. QED BY <1>5, <1>6, <1>9, <1>10

\* A set is put into an order in which each of its elements stands once.
LEMMA InSomeOrder ==
    ASSUME NEW S, IsFiniteSet(S), NEW order, order = SetToSeq(S)
    PROVE  /\ order \in Seq(S) /\ \A x \in S : \E k \in DOMAIN order : order[k] = x
           /\ \A j, k \in DOMAIN order : j # k => order[j] # order[k]
<1>. DEFINE n == Cardinality(S)
<1>1. n \in Nat /\ ExistsBijection(1..n, S)
    BY FS_CardinalityType
<1>2. PICK f \in [1..n -> S] : IsInjective(f)
    BY <1>1 DEF ExistsBijection, Bijection, Injection
<1>3. order \in [1..n -> S] /\ IsInjective(order)
    <2>1. order = CHOOSE g \in [1..n -> S] : IsInjective(g)
        BY DEF SetToSeq
    <2>. QED BY <1>2, <2>1, Zenon
<1>4. order \in Injection(1..n, S)
    BY <1>3 DEF Injection
<1>5. IsFiniteSet(1..n) /\ Cardinality(1..n) = n
    BY <1>1, FS_Interval
<1>6. order \in Surjection(1..n, S)
    <2>. HIDE DEF n
    <2>1. Cardinality(1..n) = Cardinality(S)
        BY <1>5 DEF n
    <2>. QED BY <1>4, <2>1, FS_Injection
<1>7. \A x \in S : \E k \in 1..n : order[k] = x
    BY <1>6 DEF Surjection
<1>8. DOMAIN order = 1..n /\ order \in Seq(S)
    BY <1>1, <1>3
<1>. QED BY <1>3, <1>7, <1>8 DEF IsInjective

\* What the list of a category says and what it leaves out.
Whole(list, category, sources, start, as_of, subjects) ==
    /\ Apart(list)
    /\ \A k \in DOMAIN list : \A from \in list[k].provenance :
          \E s \in sources : \E j \in DOMAIN pages[s] :
              LET r == pages[s][j] IN
              /\ ValidRecord(s, category, r, subjects, start, as_of)
              /\ from = <<s, r.record>> /\ Key(list[k]) = Key(Event(s, r, subjects))
    /\ \A s \in sources : \A j \in DOMAIN pages[s] :
          LET r == pages[s][j] IN
          Wanted(s, category, r, start, as_of) =>
              /\ ValidRecord(s, category, r, subjects, start, as_of)
              /\ \E k \in DOMAIN list : /\ <<s, r.record>> \in list[k].provenance
                                        /\ Key(list[k]) = Key(Event(s, r, subjects))

\* The pages of all sources.
PagesFit == pages \in [Sources -> Seq(Records)] /\ \A s \in Sources : Distinct(pages[s])

\* The list of a category, made of the answers to a valid query, says what the
\* wanted records say, each of them in one event.
LEMMA WholeList ==
    ASSUME NEW subjects \in SUBSET Tenures, NEW sources \in SUBSET Sources, sources # {},
           PagesFit, NEW category, NEW start, NEW as_of,
           ValidQuery(category, sources, start, as_of, subjects),
           NEW list, list = Aggregate(EventsOf(category, sources, start, as_of, subjects))
    PROVE  Whole(list, category, sources, start, as_of, subjects)
<1>. DEFINE order == SetToSeq(sources)
            all   == EventsOf(category, sources, start, as_of, subjects)
            Ask(s) == AnswerTo(pages[s], s, category, start, as_of)
            Of(s)  == Events(s, Ask(s), subjects)
            Valid(s, j) == ValidRecord(s, category, pages[s][j], subjects, start, as_of)
            Says(s, j)  == Told(s, pages[s][j], subjects)
<1>1. IsFiniteSet(sources)
    BY RegisterAssumption, FS_Subset
<1>2. /\ order \in Seq(sources) /\ \A s \in sources : \E k \in DOMAIN order : order[k] = s
      /\ \A j, k \in DOMAIN order : j # k => order[j] # order[k]
    <2>. HIDE DEF order
    <2>. QED BY <1>1, InSomeOrder DEF order
<1>3. DOMAIN all = DOMAIN order /\ \A k \in DOMAIN order : all[k] = Of(order[k])
    <2>1. all = [k \in DOMAIN order |->
                    Events(order[k], Answers(category, sources, start, as_of)[k], subjects)]
        BY Zenon DEF EventsOf
    <2>2. Answers(category, sources, start, as_of) = [k \in DOMAIN order |-> Ask(order[k])]
        BY Zenon DEF Answers
    <2>. HIDE DEF order, Ask, all
    <2>. QED BY <2>1, <2>2
<1>4. ASSUME NEW s \in sources
      PROVE  /\ Of(s) \in Seq(EventSet) /\ Apart(Of(s))
             /\ \A x \in FactsOf(Of(s)) : \E j \in DOMAIN pages[s] : Valid(s, j) /\ x = Says(s, j)
             /\ \A j \in DOMAIN pages[s] : Wanted(s, category, pages[s][j], start, as_of) =>
                   Valid(s, j) /\ Says(s, j) \in FactsOf(Of(s))
    <2>1. pages[s] \in Seq(Records) /\ Distinct(pages[s]) /\ s \in Sources
        BY DEF PagesFit
    <2>2. \A k \in DOMAIN Ask(s) : ValidRecord(s, category, Ask(s)[k], subjects, start, as_of)
        BY DEF ValidQuery
    <2>. HIDE DEF Ask
    <2>. QED BY <2>1, <2>2, OneAnswer DEF Ask
<1>. HIDE DEF order, all, Of, Valid, Says
<1>5. \A k \in DOMAIN order : order[k] \in sources
    BY <1>2
<1>6. all \in Seq(Seq(EventSet)) /\ all # <<>>
    <2>1. DOMAIN order = 1..Len(order) /\ Len(order) \in Nat
        BY <1>2
    <2>2. all = [k \in DOMAIN order |-> all[k]]
        BY <1>3 DEF all, EventsOf, order
    <2>3. \A k \in 1..Len(order) : all[k] \in Seq(EventSet)
        BY <1>3, <1>4, <1>5, <2>1
    <2>4. all \in [1..Len(order) -> Seq(EventSet)]
        BY <2>1, <2>2, <2>3, Zenon
    <2>5. DOMAIN order # {}
        BY <1>2
    <2>. QED BY <1>3, <2>1, <2>4, <2>5
<1>7. \A k \in DOMAIN all : Apart(all[k])
    BY <1>3, <1>4, <1>5
<1>8. ASSUME NEW j \in DOMAIN all, NEW k \in DOMAIN all, j # k PROVE Strange(all[j], all[k])
    <2>1. order[j] # order[k] /\ order[j] \in sources /\ order[k] \in sources
        BY <1>2, <1>3, <1>5, <1>8
    <2>2. \A x \in FactsOf(all[j]) : x[1][1] = order[j]
        BY <1>3, <1>4, <2>1 DEF Told, Says
    <2>3. \A x \in FactsOf(all[k]) : x[1][1] = order[k]
        BY <1>3, <1>4, <2>1 DEF Told, Says
    <2>. QED BY <2>1, <2>2, <2>3, StrangeByFacts
<1>9. /\ list \in Seq(EventSet) /\ Apart(list)
      /\ FactsOf(list) = UNION {FactsOf(all[k]) : k \in DOMAIN all}
    BY <1>6, <1>7, <1>8, Aggregated DEF all
<1>10. ASSUME NEW k \in DOMAIN list, NEW from \in list[k].provenance
       PROVE  \E s \in sources : \E j \in DOMAIN pages[s] :
                  /\ Valid(s, j) /\ from = <<s, pages[s][j].record>>
                  /\ Key(list[k]) = Key(Event(s, pages[s][j], subjects))
    <2>1. <<from, Key(list[k])>> \in FactsOf(list)
        BY DEF FactsOf, Facts
    <2>2. PICK i \in DOMAIN all : <<from, Key(list[k])>> \in FactsOf(all[i])
        BY <1>9, <2>1
    <2>3. order[i] \in sources /\ all[i] = Of(order[i])
        BY <1>3, <1>5
    <2>4. PICK j \in DOMAIN pages[order[i]] :
              Valid(order[i], j) /\ <<from, Key(list[k])>> = Says(order[i], j)
        BY <1>4, <2>2, <2>3
    <2>. QED BY <2>3, <2>4 DEF Says, Told
<1>11. ASSUME NEW s \in sources, NEW j \in DOMAIN pages[s],
              Wanted(s, category, pages[s][j], start, as_of)
       PROVE  /\ Valid(s, j)
              /\ \E k \in DOMAIN list : /\ <<s, pages[s][j].record>> \in list[k].provenance
                                        /\ Key(list[k]) = Key(Event(s, pages[s][j], subjects))
    <2>1. Valid(s, j) /\ Says(s, j) \in FactsOf(Of(s))
        BY <1>4, <1>11
    <2>2. PICK i \in DOMAIN order : order[i] = s
        BY <1>2
    <2>3. Says(s, j) \in FactsOf(list)
        BY <1>3, <1>9, <2>1, <2>2
    <2>4. PICK k \in DOMAIN list : Says(s, j) \in Facts(list[k])
        BY <2>3 DEF FactsOf
    <2>. QED BY <2>1, <2>4 DEF Facts, Says, Told
<1>. QED BY <1>9, <1>10, <1>11 DEF Whole, Valid

-----------------------------------------------------------------------------
\* The walk along the tenures of a role

\* Tenures of a role, whose periods can be compared.
LEMMA SoonerOrders ==
    ASSUME NEW as_of \in Int, NEW t \in Tenures, NEW u \in Tenures, NEW v \in Tenures
    PROVE  /\ UpTo(t.to, as_of) \in Int
           /\ Sooner(t, u, as_of) \/ Sooner(u, t, as_of)
           /\ Sooner(t, u, as_of) /\ Sooner(u, v, as_of) => Sooner(t, v, as_of)
<1>1. \A w \in Tenures : w.from \in Int /\ UpTo(w.to, as_of) \in Int
    BY RegisterAssumption DEF Tenures, Days, UpTo
<1>. QED BY <1>1 DEF Sooner

\* Of some tenures one stands last.
LEMMA LastOfSome ==
    ASSUME NEW as_of \in Int, NEW T \in SUBSET Tenures, IsFiniteSet(T)
    PROVE  \A U \in SUBSET T : U # {} => \E last \in U : \A u \in U : Sooner(u, last, as_of)
<1>. DEFINE N == Cardinality(T)
            Has(U) == \E last \in U : \A u \in U : Sooner(u, last, as_of)
            G == {n \in 0..N : \A U \in SUBSET T : Cardinality(U) = n /\ U # {} => Has(U)}
<1>1. N \in Nat /\ \A U \in SUBSET T : IsFiniteSet(U) /\ Cardinality(U) \in 0..N
    BY FS_CardinalityType, FS_Subset
<1>. HIDE DEF N
<1>2. 0 \in G
    <2>1. \A U \in SUBSET T : Cardinality(U) = 0 => U = {}
        BY <1>1, FS_EmptySet
    <2>. QED BY <1>1, <2>1
<1>3. ASSUME NEW n \in 1..N, n - 1 \in G PROVE n \in G
    <2>. SUFFICES ASSUME NEW U \in SUBSET T, Cardinality(U) = n, U # {} PROVE Has(U)
        BY <1>1
    <2>1. PICK u \in U : TRUE
        OBVIOUS
    <2>2. U \ {u} \in SUBSET T /\ Cardinality(U \ {u}) = n - 1
        BY <1>1, <2>1, FS_RemoveElement
    <2>3. CASE U \ {u} = {}
        <3>1. U = {u} /\ Sooner(u, u, as_of)
            BY <2>3, SoonerOrders
        <3>. QED BY <3>1
    <2>4. CASE U \ {u} # {}
        <3>1. Has(U \ {u})
            <4>. HIDE DEF Has
            <4>. QED BY <1>3, <2>2, <2>4
        <3>2. PICK last \in U \ {u} : \A v \in U \ {u} : Sooner(v, last, as_of)
            BY <3>1
        <3>3. CASE Sooner(u, last, as_of)
            BY <3>2, <3>3
        <3>4. CASE Sooner(last, u, as_of)
            <4>1. \A v \in U : Sooner(v, u, as_of)
                BY <3>2, <3>4, SoonerOrders
            <4>. QED BY <2>1, <4>1
        <3>. QED BY <2>1, <3>3, <3>4, SoonerOrders
    <2>. QED BY <2>3, <2>4
<1>4. \A n \in 0..N : n \in G
    <2>. HIDE DEF G
    <2>. QED BY <1>1, <1>2, <1>3, Climb
<1>. QED BY <1>1, <1>4

\* An order of tenures.
InOrder(p, U, as_of) ==
    /\ p \in [1..Cardinality(U) -> U]
    /\ \A j, k \in DOMAIN p : j < k => p[j] # p[k] /\ Sooner(p[j], p[k], as_of)

\* There is an order of any finite set of tenures.
LEMMA OrderExists ==
    ASSUME NEW as_of \in Int, NEW T \in SUBSET Tenures, IsFiniteSet(T)
    PROVE  \E p : InOrder(p, T, as_of)
<1>. DEFINE N == Cardinality(T)
            Has(U) == \E p : InOrder(p, U, as_of)
            G == {n \in 0..N : \A U \in SUBSET T : Cardinality(U) = n => Has(U)}
<1>1. N \in Nat /\ \A U \in SUBSET T : IsFiniteSet(U) /\ Cardinality(U) \in 0..N
    BY FS_CardinalityType, FS_Subset
<1>. HIDE DEF N
<1>2. 0 \in G
    <2>. SUFFICES ASSUME NEW U \in SUBSET T, Cardinality(U) = 0 PROVE Has(U)
        BY <1>1
    <2>1. InOrder(<<>>, U, as_of)
        BY DEF InOrder
    <2>. QED BY <2>1
<1>3. ASSUME NEW n \in 1..N, n - 1 \in G PROVE n \in G
    <2>. SUFFICES ASSUME NEW U \in SUBSET T, Cardinality(U) = n PROVE Has(U)
        BY <1>1
    <2>1. U # {} /\ n \in Nat
        BY <1>1, FS_EmptySet
    <2>2. PICK last \in U : \A u \in U : Sooner(u, last, as_of)
        BY <2>1, LastOfSome
    <2>. DEFINE rest == U \ {last}
    <2>3. rest \in SUBSET T /\ Cardinality(rest) = n - 1
        BY <1>1, FS_RemoveElement
    <2>4. Has(rest)
        <3>. HIDE DEF Has
        <3>. QED BY <1>3, <2>3
    <2>5. PICK p : InOrder(p, rest, as_of)
        BY <2>4
    <2>. DEFINE q == [k \in 1..n |-> IF k = n THEN last ELSE p[k]]
    <2>6. p \in [1..n - 1 -> rest]
          /\ \A j, k \in 1..n - 1 : j < k => p[j] # p[k] /\ Sooner(p[j], p[k], as_of)
        BY <2>3, <2>5 DEF InOrder
    <2>7. /\ q \in [1..n -> U] /\ q[n] = last
          /\ \A k \in 1..n : k = n \/ (k \in 1..n - 1 /\ q[k] = p[k])
        BY <2>1, <2>6
    <2>8. ASSUME NEW j \in 1..n, NEW k \in 1..n, j < k
          PROVE  q[j] # q[k] /\ Sooner(q[j], q[k], as_of)
        <3>1. j \in 1..n - 1 /\ q[j] = p[j] /\ p[j] \in rest
            BY <2>1, <2>6, <2>7, <2>8
        <3>2. CASE k = n
            BY <2>2, <2>7, <3>1, <3>2
        <3>3. CASE k # n
            <4>1. k \in 1..n - 1 /\ q[k] = p[k]
                BY <2>7, <3>3
            <4>. QED BY <2>6, <2>8, <3>1, <4>1
        <3>. QED BY <3>2, <3>3
    <2>9. InOrder(q, U, as_of)
        <3>. HIDE DEF q
        <3>. QED BY <2>7, <2>8 DEF InOrder
    <2>. QED
        <3>. HIDE DEF q
        <3>. QED BY <2>9
<1>4. \A n \in 0..N : n \in G
    <2>. HIDE DEF G
    <2>. QED BY <1>1, <1>2, <1>3, Climb
<1>. QED BY <1>1, <1>4

\* The sorted tenures are an order of them.
LEMMA InSortedOrder ==
    ASSUME NEW as_of \in Int, NEW T \in SUBSET Tenures, IsFiniteSet(T),
           NEW p, p = Sorted(T, as_of)
    PROVE  /\ p \in Seq(T) /\ \A t \in T : \E k \in DOMAIN p : p[k] = t
           /\ \A j, k \in DOMAIN p : j < k => Sooner(p[j], p[k], as_of)
<1>. DEFINE n == Cardinality(T)
<1>1. n \in Nat
    BY FS_CardinalityType
<1>2. InOrder(p, T, as_of)
    <2>1. p = CHOOSE q \in [1..n -> T] :
                  \A j, k \in DOMAIN q : j < k => q[j] # q[k] /\ Sooner(q[j], q[k], as_of)
        BY DEF Sorted
    <2>2. \E q \in [1..n -> T] :
                  \A j, k \in DOMAIN q : j < k => q[j] # q[k] /\ Sooner(q[j], q[k], as_of)
        BY OrderExists DEF InOrder
    <2>. QED BY <2>1, <2>2, Zenon DEF InOrder
<1>. HIDE DEF n
<1>3. p \in [1..n -> T] /\ \A j, k \in 1..n : j < k => p[j] # p[k] /\ Sooner(p[j], p[k], as_of)
    BY <1>2 DEF InOrder, n
<1>4. p \in Injection(1..n, T)
    <2>1. \A j, k \in 1..n : p[j] = p[k] => j = k
        <3>. SUFFICES ASSUME NEW j \in 1..n, NEW k \in 1..n, j # k PROVE p[j] # p[k]
            OBVIOUS
        <3>1. j < k \/ k < j
            BY <1>1
        <3>. QED BY <1>3, <3>1
    <2>. QED BY <1>3, <2>1 DEF Injection, IsInjective
<1>5. IsFiniteSet(1..n) /\ Cardinality(1..n) = Cardinality(T)
    BY <1>1, FS_Interval DEF n
<1>6. p \in Surjection(1..n, T)
    BY <1>4, <1>5, FS_Injection
<1>7. \A t \in T : \E k \in 1..n : p[k] = t
    BY <1>6 DEF Surjection
<1>. QED BY <1>1, <1>3, <1>7

\* Where the walk along the tenures of a role is.
Cursors == [day : Int, stopped : BOOLEAN]

\* A recursive definition takes the steps it says it takes.
CursorWalked(tenures, role, start, as_of, periods, c) ==
    /\ periods = Sorted({t \in tenures : t.role = role}, as_of)
    /\ c[0] = [day |-> start, stopped |-> FALSE]
    /\ \A k \in 1..Len(periods) : c[k] = Steps(start, as_of, c[k - 1], periods[k])
    /\ Continuous(tenures, role, start, as_of) <=> c[Len(periods)].day > as_of

\* A step of the walk.
LEMMA OneStep ==
    ASSUME NEW as_of \in Int, NEW start \in Int, NEW t \in Tenures, NEW c \in Cursors
    PROVE  Steps(start, as_of, c, t) \in Cursors
<1>1. UpTo(t.to, as_of) \in Int
    BY SoonerOrders
<1>. DEFINE next == UpTo(t.to, as_of) + 1
<1>2. next \in Int /\ (IF next > c.day THEN next ELSE c.day) \in Int /\ (next > as_of) \in BOOLEAN
    BY <1>1 DEF Cursors
<1>. HIDE DEF next
<1>3. [c EXCEPT !.stopped = TRUE] \in Cursors
    BY DEF Cursors
<1>4. [day |-> IF next > c.day THEN next ELSE c.day, stopped |-> next > as_of] \in Cursors
    BY <1>2, Zenon DEF Cursors
<1>. QED BY <1>3, <1>4, Zenon DEF Steps, next

\* The walk goes along the sorted tenures of the role, one after the other.
LEMMA CursorWalks ==
    ASSUME NEW as_of \in Int, NEW start \in Int, NEW role,
           NEW tenures \in SUBSET Tenures, IsFiniteSet(tenures)
    PROVE  \E c, periods : CursorWalked(tenures, role, start, as_of, periods, c)
<1>. DEFINE T == {t \in tenures : t.role = role}
            periods == Sorted(T, as_of)
            n == Len(periods)
            S == Cursors
            a == [day |-> start, stopped |-> FALSE]
            F == [k \in 1..n |-> [x \in S |-> Steps(start, as_of, x, periods[k])]]
<1>0. IsFiniteSet(T) /\ T \in SUBSET Tenures
    BY FS_Subset
<1>a. periods \in Seq(Tenures)
    <2>. HIDE DEF T
    <2>1. periods \in Seq(T)
        BY <1>0, InSortedOrder
    <2>. HIDE DEF periods
    <2>. QED BY <1>0, <2>1
<1>. HIDE DEF periods
<1>1. Walkable(S, a, n, F)
    <2>1. ASSUME NEW k \in 1..n, NEW x \in S PROVE Steps(start, as_of, x, periods[k]) \in S
        <3>1. periods[k] \in Tenures
            BY <1>a
        <3>. QED BY <3>1, OneStep
    <2>2. F \in [1..n -> [S -> S]]
        <3>. HIDE DEF S, n
        <3>. QED BY <2>1
    <2>3. n \in Nat /\ a \in S
        BY <1>a DEF Cursors
    <2>. QED BY <2>2, <2>3 DEF Walkable
<1>2. PICK f : Walked(S, a, n, F, f)
    <2>. HIDE DEF F, S, n, a
    <2>. QED BY <1>1, Walk, Zenon
<1>3. f[0] = a /\ \A k \in 1..n : f[k] = Steps(start, as_of, f[k - 1], periods[k])
    <2>0. n \in Nat
        BY <1>a
    <2>. HIDE DEF n
    <2>1. \A k \in 1..n : k - 1 \in 0..n
        BY <2>0
    <2>2. \A k \in 1..n, x \in S : F[k][x] = Steps(start, as_of, x, periods[k])
        <3>. HIDE DEF S, n
        <3>. QED OBVIOUS
    <2>. HIDE DEF F, S, n, a
    <2>. QED BY <1>2, <2>1, <2>2 DEF Walked
<1>. DEFINE IsWalk(g) == g = [k \in 0..n |-> IF k = 0 THEN [day |-> start, stopped |-> FALSE]
                                             ELSE Steps(start, as_of, g[k - 1], periods[k])]
            c == CHOOSE g : IsWalk(g)
<1>4. IsWalk(f)
    <2>1. n \in Nat
        BY <1>a
    <2>. HIDE DEF F, S
    <2>. HIDE DEF n
    <2>2. \A k \in 0..n : f[k] = IF k = 0 THEN [day |-> start, stopped |-> FALSE]
                                 ELSE Steps(start, as_of, f[k - 1], periods[k])
        BY <1>3, <2>1
    <2>. QED BY <1>2, <2>2 DEF Walked
<1>5. IsWalk(c)
    <2>. HIDE DEF IsWalk
    <2>. QED BY <1>4, Zenon
<1>6. c[0] = a /\ \A k \in 1..n : c[k] = Steps(start, as_of, c[k - 1], periods[k])
    <2>1. n \in Nat
        BY <1>a
    <2>. DEFINE Value(k) == IF k = 0 THEN [day |-> start, stopped |-> FALSE]
                            ELSE Steps(start, as_of, c[k - 1], periods[k])
    <2>. HIDE DEF c, n, S, F
    <2>2. c = [k \in 0..n |-> Value(k)]
        BY <1>5
    <2>3. \A k \in 0..n : c[k] = Value(k)
        <3>. HIDE DEF Value
        <3>. QED BY <2>2
    <2>. HIDE DEF IsWalk
    <2>4. 0 \in 0..n /\ \A k \in 1..n : k \in 0..n /\ k # 0
        BY <2>1
    <2>. QED BY <2>3, <2>4, Zenon
<1>7. Continuous(tenures, role, start, as_of) <=> c[n].day > as_of
    BY Zenon DEF Continuous, periods
<1>8. CursorWalked(tenures, role, start, as_of, periods, c)
    <2>. HIDE DEF c
    <2>. QED BY <1>6, <1>7 DEF CursorWalked, periods
<1>. QED
    <2>. HIDE DEF c
    <2>. QED BY <1>8

\* The walk gets past the last day exactly if each day is covered: the days before
\* the cursor are, and the day of a cursor that stopped is not.
LEMMA WalkIsWhole ==
    ASSUME NEW as_of \in Days, NEW start \in Days, NEW role,
           NEW tenures \in SUBSET Tenures, IsFiniteSet(tenures)
    PROVE  Continuous(tenures, role, start, as_of)
               <=> \A day \in start..as_of : \E t \in tenures : t.role = role /\ Covers(t, day)
<1>0. as_of \in Int /\ start \in Int /\ Serving \notin Days
    BY RegisterAssumption DEF Days
<1>. DEFINE T == {t \in tenures : t.role = role}
<1>1. \E c, periods : CursorWalked(tenures, role, start, as_of, periods, c)
    BY <1>0, CursorWalks, Zenon
<1>2. PICK c, periods : CursorWalked(tenures, role, start, as_of, periods, c)
    BY <1>1, Zenon
<1>. DEFINE n == Len(periods)
            End(k) == UpTo(periods[k].to, as_of)
            From(k) == periods[k].from
            Holds(k, day) == From(k) <= day /\ day <= End(k)
<1>3. /\ periods \in Seq(T) /\ \A t \in T : \E k \in DOMAIN periods : periods[k] = t
      /\ \A j, k \in DOMAIN periods : j < k => Sooner(periods[j], periods[k], as_of)
    <2>1. IsFiniteSet(T) /\ T \in SUBSET Tenures
        BY FS_Subset
    <2>2. periods = Sorted(T, as_of)
        BY <1>2 DEF CursorWalked
    <2>. HIDE DEF T
    <2>. QED BY <1>0, <2>1, <2>2, InSortedOrder
<1>4. n \in Nat /\ DOMAIN periods = 1..n /\ \A k \in 1..n : periods[k] \in T
    BY <1>3
<1>5. \A k \in 1..n : From(k) \in Int /\ End(k) \in Int
    BY <1>0, <1>4, SoonerOrders DEF Tenures, Days
<1>6. ASSUME NEW j \in 1..n, NEW k \in 1..n, j < k PROVE From(j) <= From(k)
    <2>1. Sooner(periods[j], periods[k], as_of)
        BY <1>3, <1>4, <1>6
    <2>2. From(j) \in Int /\ From(k) \in Int
        BY <1>5
    <2>. HIDE DEF n, T
    <2>. QED BY <2>1, <2>2 DEF Sooner
<1>7. \A k \in 1..n, day \in start..as_of : Covers(periods[k], day) <=> Holds(k, day)
    <2>1. \A k \in 1..n : periods[k].to = Serving \/ periods[k].to \in Int
        BY <1>4 DEF Tenures, Days
    <2>. QED BY <1>0, <1>5, <2>1 DEF Covers, UpTo
<1>8. /\ c[0] = [day |-> start, stopped |-> FALSE]
      /\ \A k \in 1..n :
            c[k] = IF c[k - 1].stopped \/ From(k) > c[k - 1].day
                   THEN [c[k - 1] EXCEPT !.stopped = TRUE]
                   ELSE [day |-> IF End(k) + 1 > c[k - 1].day THEN End(k) + 1 ELSE c[k - 1].day,
                         stopped |-> End(k) + 1 > as_of]
    BY <1>2 DEF CursorWalked, Steps
<1>9. Continuous(tenures, role, start, as_of) <=> c[n].day > as_of
    BY <1>2 DEF CursorWalked
<1>. HIDE DEF n, End, From, T
<1>. DEFINE Fine(k) ==
               /\ c[k] \in Cursors /\ start <= c[k].day
               /\ \A day \in start..as_of : day < c[k].day => \E j \in 1..k : Holds(j, day)
               /\ c[k].stopped /\ c[k].day <= as_of => \A j \in 1..n : ~Holds(j, c[k].day)
               /\ ~c[k].stopped => \A j \in 1..k : End(j) < c[k].day
            G == {k \in 0..n : Fine(k)}
<1>10. 0 \in G
    <2>1. /\ c[0].day = start /\ c[0].stopped = FALSE /\ c[0] \in Cursors
          /\ 1..0 = {} /\ start <= start
        BY <1>0, <1>8 DEF Cursors
    <2>2. \A day \in start..as_of : ~(day < start)
        BY <1>0
    <2>3. Fine(0)
        <3>. HIDE DEF Holds
        <3>. QED BY <2>1, <2>2
    <2>. HIDE DEF Fine
    <2>. QED BY <1>4, <2>3
<1>11. ASSUME NEW k \in 1..n, k - 1 \in G PROVE k \in G
    <2>. DEFINE b == c[k - 1]
                d == c[k]
    <2>1. Fine(k - 1)
        BY <1>11
    <2>2. k \in 0..n /\ 1..k = (1..k - 1) \cup {k} /\ From(k) \in Int /\ End(k) \in Int
        BY <1>4, <1>5
    <2>3. \A j \in 1..n : j \in Int /\ From(j) \in Int /\ End(j) \in Int
        BY <1>4, <1>5
    <2>4. d = IF b.stopped \/ From(k) > b.day THEN [b EXCEPT !.stopped = TRUE]
              ELSE [day |-> IF End(k) + 1 > b.day THEN End(k) + 1 ELSE b.day,
                    stopped |-> End(k) + 1 > as_of]
        BY <1>8
    <2>5. /\ b \in Cursors /\ start <= b.day
          /\ \A day \in start..as_of : day < b.day => \E j \in 1..k - 1 : Holds(j, day)
          /\ b.stopped /\ b.day <= as_of => \A j \in 1..n : ~Holds(j, b.day)
          /\ ~b.stopped => \A j \in 1..k - 1 : End(j) < b.day
        BY <2>1
    <2>6. b.day \in Int /\ b.stopped \in BOOLEAN
        BY <2>5 DEF Cursors
    <2>. HIDE DEF b, d, G
    <2>7. CASE b.stopped \/ From(k) > b.day
        <3>1. d.day = b.day /\ d.stopped /\ d \in Cursors
            BY <2>4, <2>5, <2>7 DEF Cursors
        <3>2. b.day <= as_of => \A j \in 1..n : ~Holds(j, b.day)
            <4>1. CASE b.stopped
                BY <2>5, <4>1
            <4>2. CASE ~b.stopped
                <5>. SUFFICES ASSUME NEW j \in 1..n PROVE ~Holds(j, b.day)
                    OBVIOUS
                <5>1. CASE j \in 1..k - 1
                    BY <2>3, <2>5, <2>6, <4>2, <5>1
                <5>2. CASE j \notin 1..k - 1
                    <6>1. From(k) <= From(j)
                        BY <1>4, <1>6, <2>3, <5>2
                    <6>. QED BY <2>3, <2>6, <2>7, <4>2, <6>1
                <5>. QED BY <5>1, <5>2
            <4>. QED BY <4>1, <4>2
        <3>3. Fine(k)
            BY <2>2, <2>5, <3>1, <3>2 DEF d
        <3>. HIDE DEF Fine
        <3>. QED BY <2>2, <3>3 DEF G
    <2>8. CASE ~b.stopped /\ From(k) <= b.day
        <3>1. /\ d.day = (IF End(k) + 1 > b.day THEN End(k) + 1 ELSE b.day)
              /\ d.stopped => End(k) + 1 > as_of
              /\ d \in Cursors
            <4>1. ~(b.stopped \/ From(k) > b.day)
                BY <2>2, <2>6, <2>8
            <4>2. d = [day |-> IF End(k) + 1 > b.day THEN End(k) + 1 ELSE b.day,
                       stopped |-> End(k) + 1 > as_of]
                BY <2>4, <4>1
            <4>3. d \in Cursors
                <5>1. (IF End(k) + 1 > b.day THEN End(k) + 1 ELSE b.day) \in Int
                      /\ (End(k) + 1 > as_of) \in BOOLEAN
                    BY <2>2, <2>6
                <5>. QED BY <4>2, <5>1, Zenon DEF Cursors
            <4>4. /\ d.day = (IF End(k) + 1 > b.day THEN End(k) + 1 ELSE b.day)
                  /\ d.stopped = (End(k) + 1 > as_of)
                BY <4>2, Zenon
            <4>. QED BY <4>3, <4>4, Zenon
        <3>2. start <= d.day
            BY <1>0, <2>2, <2>5, <2>6, <3>1
        <3>3. ASSUME NEW day \in start..as_of, day < d.day PROVE \E j \in 1..k : Holds(j, day)
            <4>1. CASE day < b.day
                BY <2>2, <2>5, <4>1
            <4>2. CASE ~(day < b.day)
                <5>1. Holds(k, day)
                    BY <1>0, <2>2, <2>6, <2>8, <3>1, <3>3, <4>2
                <5>. QED BY <2>2, <5>1
            <4>. QED BY <4>1, <4>2
        <3>4. d.stopped => ~(d.day <= as_of)
            BY <1>0, <2>2, <2>6, <3>1
        <3>5. \A j \in 1..k : End(j) < d.day
            <4>. SUFFICES ASSUME NEW j \in 1..k PROVE End(j) < d.day
                OBVIOUS
            <4>1. CASE j = k
                BY <2>2, <2>6, <3>1, <4>1
            <4>2. CASE j \in 1..k - 1
                <5>1. End(j) < b.day /\ End(j) \in Int
                    BY <2>2, <2>3, <2>5, <2>8, <4>2, <1>4
                <5>. QED BY <2>2, <2>6, <3>1, <5>1
            <4>. QED BY <2>2, <4>1, <4>2
        <3>6. Fine(k)
            BY <3>1, <3>2, <3>3, <3>4, <3>5 DEF d
        <3>. HIDE DEF Fine
        <3>. QED BY <2>2, <3>6 DEF G
    <2>. QED BY <2>2, <2>6, <2>7, <2>8
<1>12. Fine(n)
    <2>1. \A k \in 0..n : k \in G
        <3>. HIDE DEF G
        <3>. QED BY <1>4, <1>10, <1>11, Climb
    <2>. HIDE DEF Fine
    <2>. QED BY <1>4, <2>1
<1>13. \A day \in start..as_of :
          (\E t \in tenures : t.role = role /\ Covers(t, day)) <=> \E k \in 1..n : Holds(k, day)
    <2>. SUFFICES ASSUME NEW day \in start..as_of
                  PROVE  (\E t \in tenures : t.role = role /\ Covers(t, day))
                             <=> \E k \in 1..n : Holds(k, day)
        OBVIOUS
    <2>1. \A t \in T : \E k \in 1..n : periods[k] = t
        BY <1>3, <1>4
    <2>2. \A k \in 1..n : Covers(periods[k], day) <=> Holds(k, day)
        BY <1>7
    <2>. HIDE DEF Holds
    <2>. QED BY <1>4, <2>1, <2>2 DEF T
<1>14. c[n].day \in Int /\ start <= c[n].day
    BY <1>12 DEF Cursors
<1>15. CASE c[n].day > as_of
    <2>1. \A day \in start..as_of : day < c[n].day
        BY <1>0, <1>14, <1>15
    <2>2. \A day \in start..as_of : \E k \in 1..n : Holds(k, day)
        BY <1>12, <2>1
    <2>. HIDE DEF Holds, Fine
    <2>. QED BY <1>9, <1>13, <1>15, <2>2
<1>16. CASE c[n].day <= as_of
    <2>1. c[n].day \in start..as_of /\ ~(c[n].day > as_of)
        BY <1>0, <1>14, <1>16
    <2>2. \A k \in 1..n : ~Holds(k, c[n].day)
        <3>1. CASE c[n].stopped
            BY <1>12, <1>16, <3>1
        <3>2. CASE ~c[n].stopped
            BY <1>5, <1>12, <1>14, <3>2
        <3>. QED BY <3>1, <3>2
    <2>. HIDE DEF Holds, Fine
    <2>. QED BY <1>9, <1>13, <2>1, <2>2
<1>. QED BY <1>0, <1>14, <1>15, <1>16

-----------------------------------------------------------------------------
\* The registers go on

\* The registers at the end of a day.
Registers == [roster : SUBSET Tenures, pages : [Sources -> Seq(Records)]]

\* What is known of a tenure only after a day.
Late(t, day) == t.from > day \/ (t.to # Serving /\ t.to > day)

\* One roster follows another, of which the day is long over.
Turned(before, after, day) ==
    /\ \A t \in after : t \in before \/ Late(t, day)
    /\ \A t \in before : t \in after \/ \E u \in after : Late(u, day)

\* One record is a later state of another.
Later(r, s, day) ==
    /\ s.record = r.record /\ s.category = r.category /\ s.subject = r.subject
    /\ s.role = r.role /\ s.day = r.day /\ s.published = r.published
    /\ \/ s.status = r.status /\ s.effective = r.effective
       \/ r.status = "pending" /\ s.status # "pending" /\ s.effective > day

\* One page follows another, of which the day is long over.
Grown(before, after, day) ==
    /\ DOMAIN before \subseteq DOMAIN after
    /\ \A j \in DOMAIN before : Later(before[j], after[j], day)
    /\ \A j \in DOMAIN after \ DOMAIN before : after[j].published > day

\* What follows what follows, follows.
LEMMA TurnedOn ==
    ASSUME NEW a, NEW b, NEW c, NEW day, Turned(a, b, day), Turned(b, c, day)
    PROVE  Turned(a, c, day)
BY DEF Turned

\* What follows what follows, follows.
LEMMA GrownOn ==
    ASSUME NEW a, NEW b, NEW c, NEW day, Grown(a, b, day), Grown(b, c, day)
    PROVE  Grown(a, c, day)
<1>1. ASSUME NEW j \in DOMAIN a PROVE j \in DOMAIN b /\ j \in DOMAIN c /\ Later(a[j], c[j], day)
    <2>1. /\ j \in DOMAIN b /\ j \in DOMAIN c /\ Later(a[j], b[j], day)
          /\ Later(b[j], c[j], day)
        BY DEF Grown
    <2>. QED BY <2>1 DEF Later
<1>2. ASSUME NEW j \in DOMAIN c \ DOMAIN a PROVE c[j].published > day
    <2>1. CASE j \in DOMAIN b
        BY <1>2, <2>1 DEF Grown, Later
    <2>2. CASE j \notin DOMAIN b
        BY <1>2, <2>2 DEF Grown
    <2>. QED BY <2>1, <2>2
<1>. QED BY <1>1, <1>2 DEF Grown

\* The registers of today are those of every earlier day, gone on.
Past(day) ==
    /\ past[day] \in Registers
    /\ Turned(past[day].roster, roster, day)
    /\ \A s \in Sources :
          /\ Grown(past[day].pages[s], pages[s], day)
          /\ \A j \in DOMAIN past[day].pages[s] : past[day].pages[s][j].published <= day

\* What is published has happened.
InTime(page) ==
    \A j \in DOMAIN page : page[j].day <= page[j].published /\ page[j].published <= today

\* The records are numbered in the order of their publication.
Numbered == IsFiniteSet(Published) /\ Published = 1..Cardinality(Published)

\* The inductive invariant of the registers.
RegisterInv ==
    /\ today \in Days /\ listing \in Listings
    /\ roster \in SUBSET Tenures /\ IsFiniteSet(roster)
    /\ PagesFit /\ Numbered
    /\ \A s \in Sources : InTime(pages[s])
    /\ DOMAIN past = 1..today - 1 /\ past \in Seq(Registers)
    /\ \A day \in 1..today - 1 : Past(day)

\* It holds at first.
LEMMA RegisterStarts ==
    ASSUME RegisterInit PROVE RegisterInv
<1>. USE DEF RegisterInit
<1>1. today \in Days /\ DOMAIN past = {} /\ 1..today - 1 = {} /\ past \in Seq(Registers)
    BY RegisterAssumption DEF Days
<1>2. roster \in SUBSET Tenures /\ IsFiniteSet(roster)
    BY RegisterAssumption
<1>3. \A s \in Sources : pages[s] = <<>> /\ DOMAIN pages[s] = {}
    OBVIOUS
<1>4. PagesFit /\ \A s \in Sources : InTime(pages[s])
    BY <1>3 DEF PagesFit, Distinct, InTime
<1>5. Numbered
    <2>1. Published = {}
        BY <1>3 DEF Published
    <2>2. IsFiniteSet({}) /\ Cardinality({}) = 0 /\ 1..0 = {}
        BY FS_EmptySet
    <2>. QED BY <2>1, <2>2 DEF Numbered
<1>. QED BY <1>1, <1>2, <1>4, <1>5 DEF RegisterInv

\* What an action may do to the registers of a day.
LEMMA GoesOn ==
    ASSUME RegisterInv, UNCHANGED <<today, past>>,
           \A day \in 1..today - 1 : Turned(roster, roster', day),
           \A day \in 1..today - 1 : \A s \in Sources : Grown(pages[s], pages'[s], day)
    PROVE  \A day \in 1..today' - 1 : Past(day)'
<1>. SUFFICES ASSUME NEW day \in 1..today - 1 PROVE Past(day)'
    OBVIOUS
<1>1. Past(day)
    BY DEF RegisterInv
<1>2. Turned(past[day].roster, roster', day)
    BY <1>1, TurnedOn DEF Past
<1>3. \A s \in Sources : Grown(past[day].pages[s], pages'[s], day)
    BY <1>1, GrownOn DEF Past
<1>. QED BY <1>1, <1>2, <1>3 DEF Past

\* An action that leaves the pages alone.
LEMMA SamePages ==
    ASSUME UNCHANGED <<pages, today>>, RegisterInv
    PROVE  /\ PagesFit' /\ Numbered' /\ \A s \in Sources : InTime(pages[s])'
           /\ \A day \in 1..today - 1 : \A s \in Sources : Grown(pages[s], pages'[s], day)
<1>1. pages' = pages /\ today' = today
    OBVIOUS
<1>2. PagesFit' /\ Numbered' /\ \A s \in Sources : InTime(pages[s])'
    <2>1. Published' = Published
        BY <1>1 DEF Published
    <2>2. Numbered'
        BY <2>1 DEF RegisterInv, Numbered
    <2>. QED BY <1>1, <2>2 DEF RegisterInv, PagesFit, InTime
<1>3. \A day \in 1..today - 1 : \A s \in Sources : Grown(pages[s], pages[s], day)
    BY DEF Grown, Later
<1>. QED BY <1>1, <1>2, <1>3

\* Who takes office today was not in the registers of an earlier day.
LEMMA AppointKeeps ==
    ASSUME NEW person \in People, NEW role \in Offices, Appoint(person, role), RegisterInv
    PROVE  RegisterInv'
<1>. DEFINE t == [id |-> Cardinality(roster) + 1, person |-> person,
                  role |-> role, from |-> today, to |-> Serving]
<1>1. t \in Tenures /\ t.from = today
    <2>1. Cardinality(roster) \in Nat
        BY FS_CardinalityType DEF RegisterInv
    <2>2. role \in Roles /\ person \in Persons /\ today \in Days
        BY RegisterAssumption DEF Persons, RegisterInv
    <2>. QED BY <2>1, <2>2 DEF Tenures
<1>2. roster' = roster \cup {t} /\ UNCHANGED <<today, listing, pages, past>>
    BY DEF Appoint
<1>. HIDE DEF t
<1>3. roster' \in SUBSET Tenures /\ IsFiniteSet(roster')
    BY <1>1, <1>2, FS_AddElement DEF RegisterInv
<1>4. \A day \in 1..today - 1 : Turned(roster, roster', day)
    <2>1. \A day \in 1..today - 1 : today > day
        BY DEF RegisterInv, Days
    <2>. QED BY <1>1, <1>2, <2>1 DEF Turned, Late
<1>. QED BY <1>2, <1>3, <1>4, SamePages, GoesOn DEF RegisterInv

\* Who leaves today was serving in the registers of an earlier day.
LEMMA DepartKeeps ==
    ASSUME NEW t \in roster, Depart(t), RegisterInv
    PROVE  RegisterInv'
<1>. DEFINE u == [t EXCEPT !.to = today]
<1>1. u \in Tenures /\ u.to = today /\ today # Serving
    <2>1. t \in Tenures /\ today \in Days
        BY DEF RegisterInv
    <2>. QED BY <2>1, RegisterAssumption DEF Tenures
<1>2. roster' = (roster \ {t}) \cup {u} /\ UNCHANGED <<today, listing, pages, past>>
    BY DEF Depart
<1>. HIDE DEF u
<1>3. roster' \in SUBSET Tenures /\ IsFiniteSet(roster')
    <2>1. IsFiniteSet(roster \ {t})
        BY FS_Subset DEF RegisterInv
    <2>. QED BY <1>1, <1>2, <2>1, FS_AddElement DEF RegisterInv
<1>4. \A day \in 1..today - 1 : Turned(roster, roster', day)
    <2>1. \A day \in 1..today - 1 : today > day
        BY DEF RegisterInv, Days
    <2>2. \A day \in 1..today - 1 : Late(u, day)
        BY <1>1, <2>1 DEF Late
    <2>. QED BY <1>2, <2>2 DEF Turned
<1>. QED BY <1>2, <1>3, <1>4, SamePages, GoesOn DEF RegisterInv

\* At the end of a day its registers are put aside.
LEMMA NextDayKeeps ==
    ASSUME NextDay, RegisterInv
    PROVE  RegisterInv'
<1>1. /\ today' = today + 1 /\ today < LastDay /\ past' = Append(past, Known)
      /\ UNCHANGED <<listing, roster, pages>>
    BY DEF NextDay
<1>2. today \in Int /\ 1 <= today /\ today' \in Days
    BY <1>1, RegisterAssumption DEF RegisterInv, Days
<1>3. Known \in Registers
    BY DEF Known, Registers, RegisterInv, PagesFit
<1>4. /\ past' \in Seq(Registers) /\ DOMAIN past' = 1..today' - 1
      /\ past'[today] = Known /\ \A day \in 1..today - 1 : past'[day] = past[day]
    <2>1. past \in Seq(Registers) /\ DOMAIN past = 1..today - 1
        BY DEF RegisterInv
    <2>2. Len(past) = today - 1
        BY <1>2, <2>1
    <2>. QED BY <1>1, <1>2, <1>3, <2>1, <2>2
<1>5. \A s \in Sources : InTime(pages[s])'
    <2>. SUFFICES ASSUME NEW s \in Sources, NEW j \in DOMAIN pages[s]
                  PROVE  pages[s][j].day <= pages[s][j].published /\ pages[s][j].published <= today'
        BY <1>1 DEF InTime
    <2>1. pages[s][j] \in Records
        BY DEF RegisterInv, PagesFit
    <2>2. pages[s][j].day <= pages[s][j].published /\ pages[s][j].published <= today
        BY DEF RegisterInv, InTime
    <2>. QED BY <1>1, <1>2, <2>1, <2>2 DEF Records, Days
<1>6. PagesFit' /\ Numbered'
    <2>1. Published' = Published
        BY <1>1 DEF Published
    <2>2. Numbered'
        BY <2>1 DEF RegisterInv, Numbered
    <2>. QED BY <1>1, <2>2 DEF RegisterInv, PagesFit
<1>7. ASSUME NEW day \in 1..today' - 1 PROVE Past(day)'
    <2>1. CASE day = today
        <3>1. past'[day].roster = roster' /\ past'[day].pages = pages'
            BY <1>1, <1>4, <2>1 DEF Known
        <3>2. Turned(past'[day].roster, roster', day)
            BY <3>1 DEF Turned
        <3>3. \A s \in Sources : Grown(past'[day].pages[s], pages'[s], day)
            BY <3>1 DEF Grown, Later
        <3>4. \A s \in Sources : \A j \in DOMAIN pages[s] : pages[s][j].published <= day
            BY <2>1 DEF RegisterInv, InTime
        <3>. QED BY <1>1, <1>3, <1>4, <2>1, <3>1, <3>2, <3>3, <3>4 DEF Past
    <2>2. CASE day # today
        <3>1. day \in 1..today - 1
            BY <1>1, <1>2, <2>2
        <3>2. Past(day) /\ past'[day] = past[day]
            BY <1>4, <3>1 DEF RegisterInv
        <3>. QED BY <1>1, <3>2 DEF Past
    <2>. QED BY <2>1, <2>2
<1>. QED BY <1>1, <1>2, <1>4, <1>5, <1>6, <1>7 DEF RegisterInv

\* The numbers of the records of a page.
Numbers(page) == {page[k].record : k \in DOMAIN page}

\* A page that gets another record.
LEMMA PageAppended ==
    ASSUME NEW page \in Seq(Records), Distinct(page), InTime(page), NEW r \in Records,
           \A j \in DOMAIN page : page[j].record # r.record,
           r.day <= r.published, r.published = today,
           NEW new, new = Append(page, r)
    PROVE  /\ new \in Seq(Records) /\ Distinct(new) /\ InTime(new)
           /\ \A day \in 1..today - 1 : Grown(page, new, day)
           /\ Numbers(new) = Numbers(page) \cup {r.record}
<1>. DEFINE n == Len(page)
<1>1. /\ n \in Nat /\ DOMAIN page = 1..n /\ DOMAIN new = DOMAIN page \cup {n + 1}
      /\ new[n + 1] = r /\ \A j \in DOMAIN page : new[j] = page[j]
      /\ n + 1 \notin DOMAIN page
    OBVIOUS
<1>2. new \in Seq(Records)
    OBVIOUS
<1>. HIDE DEF n
<1>3. Distinct(new)
    BY <1>1 DEF Distinct
<1>4. InTime(new)
    <2>1. r.published <= today
        BY DEF Records, Days
    <2>. QED BY <1>1, <2>1 DEF InTime
<1>5. \A day \in 1..today - 1 : Grown(page, new, day)
    <2>. SUFFICES ASSUME NEW day \in 1..today - 1 PROVE Grown(page, new, day)
        OBVIOUS
    <2>1. r.published > day
        BY DEF Records, Days
    <2>. QED BY <1>1, <2>1 DEF Grown, Later
<1>6. Numbers(new) = Numbers(page) \cup {r.record}
    BY <1>1 DEF Numbers
<1>. QED BY <1>2, <1>3, <1>4, <1>5, <1>6

\* What is published today is not in the pages of an earlier day.
LEMMA PublishKeeps ==
    ASSUME NEW where \in (SUBSET Sources) \ {{}}, Publish(where), RegisterInv
    PROVE  RegisterInv'
<1>1. PICK n \in Nat : Published = 1..n /\ Cardinality(Published) = n
    BY FS_CardinalityType DEF RegisterInv, Numbered
<1>3. PICK category \in Categories, t \in {u \in roster : u.role \in Offices},
           day \in 1..today, status \in Statuses, text \in Texts,
           connection \in Connections \ {"issuer"} :
          pages' = [s \in Sources |->
              IF s \notin where THEN pages[s]
              ELSE Append(pages[s],
                  [record |-> n + 1, category |-> category,
                   subject |-> IF s \in Native THEN t.person ELSE t.id,
                   role |-> t.role, connection |-> connection, day |-> day,
                   published |-> today, status |-> status, effective |-> today,
                   text |-> text])]
    BY <1>1 DEF Publish
<1>. DEFINE r(s) == [record |-> n + 1, category |-> category,
                     subject |-> IF s \in Native THEN t.person ELSE t.id,
                     role |-> t.role, connection |-> connection, day |-> day,
                     published |-> today, status |-> status, effective |-> today,
                     text |-> text]
<1>4. \A s \in Sources : r(s) \in Records /\ r(s).record = n + 1 /\ r(s).day <= r(s).published
                         /\ r(s).published = today
    <2>1. t \in Tenures /\ today \in Days /\ day \in Days /\ day <= today
        BY RegisterAssumption DEF RegisterInv, Days
    <2>2. \A s \in Sources : (IF s \in Native THEN t.person ELSE t.id) \in Persons \cup Nat
                            /\ t.role \in Roles /\ n + 1 \in Nat
        BY <2>1 DEF Tenures
    <2>. HIDE DEF r
    <2>. QED BY <2>1, <2>2 DEF Records, r
<1>5. \A s \in Sources : pages'[s] = IF s \in where THEN Append(pages[s], r(s)) ELSE pages[s]
    <2>. HIDE DEF r
    <2>. QED BY <1>3 DEF r
<1>6. UNCHANGED <<today, listing, roster, past>>
    BY DEF Publish
<1>. HIDE DEF r
<1>7. ASSUME NEW s \in Sources
      PROVE  /\ pages'[s] \in Seq(Records) /\ Distinct(pages'[s]) /\ InTime(pages'[s])
             /\ \A d \in 1..today - 1 : Grown(pages[s], pages'[s], d)
             /\ Numbers(pages'[s]) = Numbers(pages[s]) \cup (IF s \in where THEN {n + 1} ELSE {})
    <2>1. pages[s] \in Seq(Records) /\ Distinct(pages[s]) /\ InTime(pages[s])
        BY DEF RegisterInv, PagesFit
    <2>2. CASE s \in where
        <3>1. \A j \in DOMAIN pages[s] : pages[s][j].record # n + 1
            <4>1. \A j \in DOMAIN pages[s] : pages[s][j].record \in Published
                BY DEF Published
            <4>. QED BY <1>1, <4>1
        <3>2. pages'[s] = Append(pages[s], r(s)) /\ r(s) \in Records /\ r(s).record = n + 1
              /\ r(s).day <= r(s).published /\ r(s).published = today
            BY <1>4, <1>5, <2>2
        <3>3. /\ pages'[s] \in Seq(Records) /\ Distinct(pages'[s]) /\ InTime(pages'[s])
              /\ \A d \in 1..today - 1 : Grown(pages[s], pages'[s], d)
              /\ Numbers(pages'[s]) = Numbers(pages[s]) \cup {n + 1}
            BY <2>1, <3>1, <3>2, PageAppended
        <3>. QED BY <2>2, <3>3
    <2>3. CASE s \notin where
        <3>1. \A d \in 1..today - 1 : Grown(pages[s], pages[s], d)
            BY DEF Grown, Later
        <3>. QED BY <1>5, <2>1, <2>3, <3>1
    <2>. QED BY <2>2, <2>3
<1>8. PagesFit' /\ \A s \in Sources : InTime(pages[s])'
    <2>1. pages' = [s \in Sources |-> pages'[s]]
        BY <1>3
    <2>. QED BY <1>6, <1>7, <2>1 DEF PagesFit, InTime
<1>9. Numbered'
    <2>1. Published = UNION {Numbers(pages[s]) : s \in Sources}
          /\ Published' = UNION {Numbers(pages'[s]) : s \in Sources}
        BY DEF Published, Numbers
    <2>2. PICK w \in where : w \in Sources
        OBVIOUS
    <2>3. n + 1 \in Published'
        BY <1>7, <2>1, <2>2
    <2>4. \A x : x \in Published => x \in Published'
        BY <1>7, <2>1
    <2>5. \A x : x \in Published' => x \in Published \cup {n + 1}
        BY <1>7, <2>1
    <2>6. Published' = 1..n + 1
        <3>1. Published' = (1..n) \cup {n + 1}
            BY <1>1, <2>3, <2>4, <2>5
        <3>. QED BY <3>1
    <2>7. IsFiniteSet(1..n + 1) /\ Cardinality(1..n + 1) = n + 1
        BY FS_Interval
    <2>. QED BY <2>6, <2>7 DEF Numbered
<1>10. \A d \in 1..today - 1 : Turned(roster, roster', d)
    BY <1>6 DEF Turned
<1>. QED BY <1>6, <1>7, <1>8, <1>9, <1>10, GoesOn DEF RegisterInv

\* A record that becomes final today stays where it is.
LEMMA ConcludeKeeps ==
    ASSUME NEW source \in Sources, NEW k \in DOMAIN pages[source], Conclude(source, k), RegisterInv
    PROVE  RegisterInv'
<1>. DEFINE r == pages[source][k]
            c == [r EXCEPT !.status = "final", !.effective = today]
            page == [pages[source] EXCEPT ![k] = c]
<1>1. pages' = [pages EXCEPT ![source] = page]
    BY DEF Conclude
<1>2. UNCHANGED <<today, listing, roster, past>> /\ r.status = "pending"
    BY DEF Conclude
<1>3. pages \in [Sources -> Seq(Records)] /\ \A s \in Sources : Distinct(pages[s])
    BY DEF RegisterInv, PagesFit
<1>4. r \in Records /\ today \in Days
    BY <1>3 DEF RegisterInv
<1>5. /\ c \in Records /\ c.record = r.record /\ c.day = r.day /\ c.published = r.published
      /\ \A day \in 1..today - 1 : Later(r, c, day)
    <2>1. c \in Records /\ c.status = "final" /\ c.effective = today
        BY <1>4 DEF Records, Statuses
    <2>2. /\ c.record = r.record /\ c.category = r.category /\ c.subject = r.subject
          /\ c.role = r.role /\ c.day = r.day /\ c.published = r.published
        OBVIOUS
    <2>3. \A day \in 1..today - 1 : today > day
        BY <1>4 DEF Days
    <2>. HIDE DEF c, r
    <2>. QED BY <1>2, <2>1, <2>2, <2>3 DEF Later
<1>6. /\ page \in Seq(Records) /\ DOMAIN page = DOMAIN pages[source] /\ page[k] = c
      /\ \A j \in DOMAIN pages[source] : j # k => page[j] = pages[source][j]
    <2>. HIDE DEF c
    <2>. QED BY <1>3, <1>5
<1>7. pages' \in [Sources -> Seq(Records)] /\ pages'[source] = page
      /\ \A s \in Sources : s # source => pages'[s] = pages[s]
    BY <1>1, <1>3, <1>6
<1>. HIDE DEF page, c
<1>8. Distinct(page) /\ InTime(page)
    <2>1. InTime(pages[source]) /\ Distinct(pages[source])
        BY DEF RegisterInv, PagesFit
    <2>. QED BY <1>5, <1>6, <2>1 DEF Distinct, InTime
<1>9. \A day \in 1..today - 1 : \A s \in Sources : Grown(pages[s], pages'[s], day)
    <2>1. \A day \in 1..today - 1 : Grown(pages[source], page, day)
        BY <1>5, <1>6 DEF Grown, Later
    <2>2. \A day \in 1..today - 1 : \A s \in Sources : Grown(pages[s], pages[s], day)
        BY DEF Grown, Later
    <2>. QED BY <1>7, <2>1, <2>2
<1>10. PagesFit' /\ \A s \in Sources : InTime(pages[s])'
    <2>1. \A s \in Sources : Distinct(pages'[s]) /\ InTime(pages'[s])
        BY <1>3, <1>7, <1>8 DEF RegisterInv
    <2>. QED BY <1>2, <1>7, <2>1 DEF PagesFit, InTime
<1>11. Numbered'
    <2>1. Numbers(page) = Numbers(pages[source])
        <3>1. \A j \in DOMAIN page : page[j].record = pages[source][j].record
            BY <1>5, <1>6
        <3>. QED BY <1>6, <3>1 DEF Numbers
    <2>2. Published = UNION {Numbers(pages[s]) : s \in Sources}
          /\ Published' = UNION {Numbers(pages'[s]) : s \in Sources}
        BY DEF Published, Numbers
    <2>3. \A s \in Sources : Numbers(pages'[s]) = Numbers(pages[s])
        BY <1>7, <2>1
    <2>4. Published' = Published
        BY <2>2, <2>3
    <2>. QED BY <2>4 DEF RegisterInv, Numbered
<1>12. \A day \in 1..today - 1 : Turned(roster, roster', day)
    BY <1>2 DEF Turned
<1>. QED BY <1>2, <1>9, <1>10, <1>11, <1>12, GoesOn DEF RegisterInv

\* An action that leaves the registers alone.
LEMMA RegistersStay ==
    ASSUME RegisterInv, UNCHANGED <<today, listing, roster, pages, past>>
    PROVE  RegisterInv'
<1>1. \A day \in 1..today - 1 : Turned(roster, roster', day)
    BY DEF Turned
<1>. QED BY <1>1, SamePages, GoesOn DEF RegisterInv

\* The invariant is inductive.
LEMMA RegisterGoesOn ==
    ASSUME RegisterInv, [RegisterNext]_registerVars
    PROVE  RegisterInv'
<1>1. CASE UNCHANGED registerVars
    BY <1>1, RegistersStay DEF registerVars
<1>2. ASSUME NEW as_of \in 1..today, BuildManifest(as_of) PROVE RegisterInv'
    BY <1>2, RegistersStay DEF BuildManifest
<1>3. CASE Revalidate
    BY <1>3, RegistersStay DEF Revalidate
<1>. QED BY <1>1, <1>2, <1>3, NextDayKeeps, AppointKeeps, DepartKeeps, PublishKeeps, ConcludeKeeps
         DEF RegisterNext

\* The registers of any day, gone on until today, are those of today.
THEOREM RegistersGoOn == RegisterSpec => []RegisterInv
<1>1. RegisterInit => RegisterInv
    BY RegisterStarts
<1>2. RegisterInv /\ [RegisterNext]_registerVars => RegisterInv'
    BY RegisterGoesOn
<1>. QED BY <1>1, <1>2, PTL DEF RegisterSpec

\* The walk is right about every roster the register can have.
LEMMA HistoryOfTheRegister ==
    ASSUME RegisterInv PROVE HistoryIsWhole
<1>. SUFFICES ASSUME NEW role \in Continual, NEW start \in Days, NEW as_of \in start..today
              PROVE  Continuous(roster, role, start, as_of)
                        <=> \A day \in start..as_of :
                                \E t \in roster : t.role = role /\ Covers(t, day)
    BY DEF HistoryIsWhole
<1>1. as_of \in Days
    BY RegisterAssumption DEF RegisterInv, Days
<1>. QED BY <1>1, WalkIsWhole DEF RegisterInv

\* require_continuous_role_history accepts a role exactly if it was filled on every
\* day, for any number of tenures, nested, touching, overlapping or apart.
THEOREM HistoryStands == RegisterSpec => []HistoryIsWhole
BY RegistersGoOn, HistoryOfTheRegister, PTL

-----------------------------------------------------------------------------
\* The manifest

\* Nobody can be left out or taken as still serving.
LEMMA DeclaredIsOfficial ==
    ASSUME roster \in SUBSET Tenures, IsFiniteSet(roster), NEW subjects \in Declarations,
           Recognised(roster, subjects)
    PROVE  subjects = roster
<1>1. ASSUME NEW t \in roster, NEW u \in roster, NEW d \in subjects,
             SameTenure(t, d), SameTenure(u, d)
      PROVE  t = u
    <2>. DEFINE same == {v \in roster : SameTenure(v, d)}
    <2>1. IsFiniteSet(same) /\ Cardinality(same) = 1
        BY FS_Subset DEF Recognised
    <2>. HIDE DEF same
    <2>2. PICK x : same = {x}
        BY <2>1, FS_Singleton
    <2>3. t \in same /\ u \in same
        BY <1>1 DEF same
    <2>. QED BY <2>2, <2>3
<1>2. ASSUME NEW t \in roster PROVE \E d \in subjects : SameTenure(t, d)
    <2>. DEFINE same == {d \in subjects : SameTenure(t, d)}
    <2>1. Cardinality(same) = 1
        BY DEF Recognised
    <2>2. same # {}
        <3>. HIDE DEF same
        <3>. QED BY <2>1, FS_EmptySet
    <2>. QED BY <2>2
<1>3. ASSUME NEW t \in roster, \A d \in subjects : SameTenure(t, d) => d \in roster
      PROVE  t \in subjects
    <2>1. PICK d \in subjects : SameTenure(t, d)
        BY <1>2
    <2>2. d \in roster /\ SameTenure(d, d)
        BY <1>3, <2>1 DEF SameTenure
    <2>. QED BY <1>1, <2>1, <2>2
<1>4. CASE \E t \in roster : subjects = roster \ {t}
    BY <1>3, <1>4
<1>5. ASSUME NEW t \in roster, subjects = (roster \ {t}) \cup {[t EXCEPT !.to = Serving]},
             t \notin subjects
      PROVE  FALSE
    <2>. DEFINE taken == [t EXCEPT !.to = Serving]
    <2>1. PICK d \in subjects : SameTenure(t, d) /\ d \notin roster
        BY <1>3, <1>5
    <2>2. d = taken /\ t.to = d.to
        BY <1>5, <2>1 DEF SameTenure
    <2>3. taken.to = Serving /\ (t.to = Serving => taken = t)
        BY DEF Tenures
    <2>. QED BY <1>5, <2>1, <2>2, <2>3
<1>6. CASE \E t \in roster : subjects = (roster \ {t}) \cup {[t EXCEPT !.to = Serving]}
    <2>1. PICK t \in roster : subjects = (roster \ {t}) \cup {[t EXCEPT !.to = Serving]}
        BY <1>6
    <2>. QED BY <1>5, <2>1
<1>. QED BY <1>4, <1>6 DEF Declarations

\* The tenures that are valid at a day are those registered by its end.
LEMMA RosterOfTheDay ==
    ASSUME RegisterInv, NEW as_of \in 1..today, \A t \in roster : ValidPeriod(t, as_of)
    PROVE  roster = KnownOn(as_of).roster
<1>1. CASE as_of = today
    BY <1>1 DEF KnownOn, Known
<1>2. CASE as_of # today
    <2>1. as_of \in 1..today - 1
        BY <1>2 DEF RegisterInv, Days
    <2>2. Turned(past[as_of].roster, roster, as_of)
        BY <2>1 DEF RegisterInv, Past
    <2>3. \A t \in roster : ~Late(t, as_of)
        <3>1. \A t \in roster : t.from \in Int /\ (t.to = Serving \/ t.to \in Int)
            BY DEF RegisterInv, Tenures, Days
        <3>. QED BY <2>1, <3>1 DEF ValidPeriod, Late
    <2>. QED BY <1>2, <2>2, <2>3 DEF Turned, KnownOn
<1>. QED BY <1>1, <1>2

\* What was published by a day, and what became of it.
LEMMA PageOfTheDay ==
    ASSUME RegisterInv, NEW as_of \in 1..today, NEW s \in Sources
    PROVE  /\ Grown(KnownOn(as_of).pages[s], pages[s], as_of)
           /\ \A j \in DOMAIN KnownOn(as_of).pages[s] :
                 KnownOn(as_of).pages[s][j].published <= as_of
<1>1. CASE as_of = today
    <2>1. KnownOn(as_of).pages = pages
        BY <1>1 DEF KnownOn, Known
    <2>2. Grown(pages[s], pages[s], as_of)
        BY DEF Grown, Later
    <2>. QED BY <1>1, <2>1, <2>2 DEF RegisterInv, InTime
<1>2. CASE as_of # today
    <2>1. as_of \in 1..today - 1
        BY <1>2 DEF RegisterInv, Days
    <2>. QED BY <1>2, <2>1 DEF RegisterInv, Past, KnownOn
<1>. QED BY <1>1, <1>2

\* What a manifest is when it has been built.
Built(as_of, m) ==
    /\ m.as_of = as_of /\ m.roster = roster /\ m.sources \in SUBSET Sources /\ m.sources # {}
    /\ m.start \in [Categories -> 1..as_of]
    /\ \A t \in roster : ValidPeriod(t, as_of)
    /\ \A c \in Categories :
          /\ ValidQuery(c, m.sources, m.start[c], as_of, roster)
          /\ Whole(m.list[c], c, m.sources, m.start[c], as_of, roster)

\* What build_manifest makes sure of.
LEMMA ManifestBuilt ==
    ASSUME RegisterInv, NEW as_of \in 1..today, BuildManifest(as_of)
    PROVE  Built(as_of, manifest')
<1>1. PICK subjects \in {d \in Declarations : Recognised(roster, d)} :
          /\ ValidSubjects(subjects, as_of)
          /\ \E sources \in SUBSET Sources, start \in [Categories -> 1..as_of] :
                LET events(c) == EventsOf(c, sources, start[c], as_of, subjects) IN
                /\ \A c \in Categories : ValidQuery(c, sources, start[c], as_of, subjects)
                /\ manifest' =
                      [as_of |-> as_of, start |-> start, sources |-> sources, roster |-> subjects,
                       events |-> [c \in Categories |-> events(c)],
                       list |-> [c \in Categories |-> Aggregate(events(c))]]
    BY Zenon DEF BuildManifest
<1>2. subjects = roster
    BY DeclaredIsOfficial DEF RegisterInv
<1>3. PICK sources \in SUBSET Sources, start \in [Categories -> 1..as_of] :
          /\ \A c \in Categories : ValidQuery(c, sources, start[c], as_of, roster)
          /\ manifest' =
                [as_of |-> as_of, start |-> start, sources |-> sources, roster |-> roster,
                 events |-> [c \in Categories |-> EventsOf(c, sources, start[c], as_of, roster)],
                 list |-> [c \in Categories |->
                              Aggregate(EventsOf(c, sources, start[c], as_of, roster))]]
    BY <1>1, <1>2, Zenon
<1>4. sources # {}
    <2>1. PICK x \in DOMAIN listing : listing[x].from <= as_of
        BY <1>1 DEF ValidSubjects, ActiveAt, ListedBy
    <2>2. Required["late_filings"][x] # {} /\ "late_filings" \in Categories
        BY ListingAssumption DEF RegisterInv, Categories
    <2>3. Required["late_filings"][x] \subseteq RequiredSources("late_filings", listing, as_of)
        BY <2>1 DEF RequiredSources, ListedBy
    <2>4. RequiredSources("late_filings", listing, as_of) \subseteq sources
        BY <1>3, <2>2 DEF ValidQuery
    <2>. QED BY <2>2, <2>3, <2>4
<1>5. /\ manifest'.as_of = as_of /\ manifest'.roster = roster /\ manifest'.sources = sources
      /\ manifest'.start = start
      /\ manifest'.list =
            [c \in Categories |-> Aggregate(EventsOf(c, sources, start[c], as_of, roster))]
    BY <1>3, Zenon
<1>6. ASSUME NEW c \in Categories
      PROVE  Whole(manifest'.list[c], c, sources, start[c], as_of, roster)
    <2>1. manifest'.list[c] = Aggregate(EventsOf(c, sources, start[c], as_of, roster))
        BY <1>5
    <2>2. roster \in SUBSET Tenures /\ PagesFit
        BY DEF RegisterInv
    <2>3. ValidQuery(c, sources, start[c], as_of, roster)
        BY <1>3
    <2>. QED BY <1>4, <2>1, <2>2, <2>3, WholeList
<1>7. \A t \in roster : ValidPeriod(t, as_of)
    BY <1>1, <1>2 DEF ValidSubjects, ValidRoster
<1>. QED BY <1>3, <1>4, <1>5, <1>6, <1>7 DEF Built

\* The two properties are about the manifest and what was known, which stay.
LEMMA NoHindsightAtFirst ==
    ASSUME RegisterInv, NEW as_of \in 1..today, BuildManifest(as_of)
    PROVE  NoHindsight'
<1>. DEFINE m == manifest'
            before == KnownOn(as_of)
<1>1. known'.before = before
    BY DEF BuildManifest
<1>2. Built(as_of, m)
    BY ManifestBuilt
<1>3. m.roster = before.roster
    BY <1>2, RosterOfTheDay DEF Built
<1>. HIDE DEF m, before
<1>4. ASSUME NEW c \in Categories, NEW k \in DOMAIN m.list[c], NEW from \in m.list[c][k].provenance
      PROVE  \E j \in DOMAIN before.pages[from[1]] :
                LET r == before.pages[from[1]][j] IN
                r.record = from[2] /\ r.status = m.list[c][k].status /\ r.day = m.list[c][k].day
    <2>1. /\ Whole(m.list[c], c, m.sources, m.start[c], as_of, roster)
          /\ m.sources \in SUBSET Sources
        BY <1>2 DEF Built
    <2>2. PICK s \in m.sources : \E j \in DOMAIN pages[s] :
              /\ ValidRecord(s, c, pages[s][j], roster, m.start[c], as_of)
              /\ from = <<s, pages[s][j].record>>
              /\ Key(m.list[c][k]) = Key(Event(s, pages[s][j], roster))
        BY <2>1 DEF Whole
    <2>3. PICK j \in DOMAIN pages[s] :
              /\ ValidRecord(s, c, pages[s][j], roster, m.start[c], as_of)
              /\ from = <<s, pages[s][j].record>>
              /\ Key(m.list[c][k]) = Key(Event(s, pages[s][j], roster))
        BY <2>2
    <2>. DEFINE r == pages[s][j]
    <2>4. s \in Sources /\ r \in Records
        BY <2>1 DEF RegisterInv, PagesFit
    <2>5. ValidTimes(r, as_of) /\ r.status = m.list[c][k].status /\ r.day = m.list[c][k].day
        BY <2>3 DEF ValidRecord, Key, Event
    <2>6. r.published <= as_of /\ r.effective <= as_of /\ r.published \in Int /\ r.effective \in Int
        BY <2>4, <2>5 DEF ValidTimes, Records, Days
    <2>7. Grown(before.pages[s], pages[s], as_of) /\ as_of \in Int
        BY <2>4, PageOfTheDay DEF before
    <2>8. j \in DOMAIN before.pages[s] /\ Later(before.pages[s][j], r, as_of)
        BY <2>6, <2>7 DEF Grown
    <2>. HIDE DEF r
    <2>9. /\ before.pages[s][j].record = r.record /\ before.pages[s][j].status = r.status
          /\ before.pages[s][j].day = r.day
        BY <2>6, <2>7, <2>8 DEF Later
    <2>. QED BY <2>3, <2>5, <2>8, <2>9 DEF r
<1>. QED BY <1>1, <1>3, <1>4 DEF NoHindsight, m

\* What was to be in the list is asked for.
LEMMA DueIsWanted ==
    ASSUME RegisterInv, NEW as_of \in 1..today, NEW c \in Categories, NEW s \in Sources,
           NEW sources, NEW start \in 1..as_of, ValidQuery(c, sources, start, as_of, roster),
           NEW j \in DOMAIN pages[s], pages[s][j].category = c, pages[s][j].published <= as_of,
           \E x \in DOMAIN listing : listing[x].from <= as_of /\ s \in Required[c][x],
           IF c \in Historical THEN pages[s][j].day >= listing[HomeOf[s]].from
           ELSE pages[s][j].day >= as_of - Prior \/ pages[s][j].status = "pending"
    PROVE  s \in sources /\ Wanted(s, c, pages[s][j], start, as_of)
<1>. DEFINE r == pages[s][j]
<1>1. s \in sources
    <2>1. s \in RequiredSources(c, listing, as_of)
        BY DEF RequiredSources, ListedBy
    <2>. QED BY <2>1 DEF ValidQuery
<1>2. r \in Records /\ r.day <= r.published
    BY DEF RegisterInv, PagesFit, InTime
<1>3. HomeOf[s] \in DOMAIN listing /\ ReachesBack(c, s, start, listing, as_of)
    BY <1>1 DEF ValidQuery, ListedBy
<1>4. listing[HomeOf[s]].from \in Int
    BY <1>3, ListingAssumption DEF RegisterInv
<1>5. r.day \in Int /\ r.published \in Int /\ start \in Int /\ Prior \in Int /\ as_of \in Int
    BY <1>2, RegisterAssumption DEF Records, Days
<1>6. CASE c \in Historical
    <2>1. start <= listing[HomeOf[s]].from /\ listing[HomeOf[s]].from <= r.day
        BY <1>3, <1>4, <1>5, <1>6 DEF ReachesBack
    <2>. HIDE DEF r
    <2>2. r.day >= start /\ r.published >= start
        BY <1>2, <1>4, <1>5, <2>1
    <2>. QED BY <1>1, <2>2 DEF Wanted, Inside, r
<1>7. CASE c \notin Historical
    <2>1. start <= as_of - Prior
        BY <1>3, <1>7 DEF ReachesBack
    <2>2. CASE r.status = "pending"
        BY <1>1, <1>7, <2>2 DEF Wanted, Inside
    <2>3. CASE r.day >= as_of - Prior
        <3>. HIDE DEF r
        <3>1. r.day >= start /\ r.published >= start
            BY <1>2, <1>5, <2>1, <2>3
        <3>. QED BY <1>1, <3>1 DEF Wanted, Inside, r
    <2>. QED BY <1>7, <2>2, <2>3
<1>. QED BY <1>6, <1>7

\* It is in the list once, as an event of the tenure the source means.
LEMMA NothingIsLeftOutAtFirst ==
    ASSUME RegisterInv, NEW as_of \in 1..today, BuildManifest(as_of)
    PROVE  NothingIsLeftOut'
<1>. DEFINE m == manifest'
            before == KnownOn(as_of)
            Due(c, s, j) ==
                LET r == before.pages[s][j] IN
                /\ r.category = c
                /\ \E x \in DOMAIN listing : listing[x].from <= as_of /\ s \in Required[c][x]
                /\ IF c \in Historical THEN r.day >= listing[HomeOf[s]].from
                   ELSE r.day >= as_of - Prior \/ pages[s][j].status = "pending"
<1>1. known'.before = before /\ known'.now.pages = pages /\ listing' = listing
    BY DEF BuildManifest, Known
<1>2. Built(as_of, m)
    BY ManifestBuilt
<1>3. ASSUME NEW c \in Categories, NEW s \in Sources, NEW j \in DOMAIN before.pages[s],
             Due(c, s, j),
             NEW held, held = {k \in DOMAIN m.list[c] :
                                  <<s, before.pages[s][j].record>> \in m.list[c][k].provenance}
      PROVE  \E k \in held :
                /\ held = {k}
                /\ \E t \in m.roster :
                      /\ t.id = m.list[c][k].tenure /\ t.role = before.pages[s][j].role
                      /\ before.pages[s][j].subject \in {t.person, t.id}
    <2>. DEFINE r == pages[s][j]
    <2>1. Grown(before.pages[s], pages[s], as_of) /\ before.pages[s][j].published <= as_of
        BY PageOfTheDay
    <2>2. /\ j \in DOMAIN pages[s]
          /\ r.record = before.pages[s][j].record /\ r.category = before.pages[s][j].category
          /\ r.role = before.pages[s][j].role /\ r.subject = before.pages[s][j].subject
          /\ r.day = before.pages[s][j].day /\ r.published = before.pages[s][j].published
        BY <2>1 DEF Grown, Later
    <2>3. /\ Whole(m.list[c], c, m.sources, m.start[c], as_of, roster)
          /\ ValidQuery(c, m.sources, m.start[c], as_of, roster)
          /\ m.start[c] \in 1..as_of /\ m.roster = roster
        BY <1>2 DEF Built
    <2>4. s \in m.sources /\ Wanted(s, c, r, m.start[c], as_of)
        <3>1. /\ r.category = c /\ r.published <= as_of
              /\ \E x \in DOMAIN listing : listing[x].from <= as_of /\ s \in Required[c][x]
              /\ IF c \in Historical THEN r.day >= listing[HomeOf[s]].from
                 ELSE r.day >= as_of - Prior \/ r.status = "pending"
            BY <1>3, <2>1, <2>2
        <3>. QED BY <2>2, <2>3, <3>1, DueIsWanted
    <2>5. /\ ValidRecord(s, c, r, roster, m.start[c], as_of) /\ Apart(m.list[c])
          /\ \E k \in DOMAIN m.list[c] : /\ <<s, r.record>> \in m.list[c][k].provenance
                                         /\ Key(m.list[c][k]) = Key(Event(s, r, roster))
        BY <2>2, <2>3, <2>4 DEF Whole
    <2>6. PICK k \in DOMAIN m.list[c] : /\ <<s, r.record>> \in m.list[c][k].provenance
                                        /\ Key(m.list[c][k]) = Key(Event(s, r, roster))
        BY <2>5
    <2>7. k \in held /\ \A i \in held : i = k
        BY <1>3, <2>2, <2>5, <2>6 DEF Apart
    <2>8. r \in Records /\ roster \in SUBSET Tenures
        BY <2>2 DEF RegisterInv, PagesFit
    <2>9. Fits(Event(s, r, roster), s, r, roster)
        BY <2>5, <2>8, EventFits
    <2>10. PICK t \in roster : /\ t.id = Event(s, r, roster).tenure /\ t.role = r.role
                               /\ r.subject \in {t.person, t.id}
        BY <2>9 DEF Fits
    <2>11. Event(s, r, roster).tenure = m.list[c][k].tenure
        BY <2>6 DEF Key
    <2>. QED BY <2>2, <2>3, <2>7, <2>10, <2>11
<1>4. manifest'.as_of = as_of
    BY <1>2 DEF Built
<1>5. ASSUME NEW c \in Categories, NEW s \in Sources, NEW j \in DOMAIN known'.before.pages[s]
      PROVE  LET r == known'.before.pages[s][j]
                 held == {k \in DOMAIN manifest'.list[c] :
                             <<s, r.record>> \in manifest'.list[c][k].provenance}
             IN
             /\ r.category = c
             /\ \E x \in DOMAIN listing' :
                   listing'[x].from <= manifest'.as_of /\ s \in Required[c][x]
             /\ IF c \in Historical THEN r.day >= listing'[HomeOf[s]].from
                ELSE r.day >= manifest'.as_of - Prior \/ known'.now.pages[s][j].status = "pending"
             => \E k \in held :
                    /\ held = {k}
                    /\ \E t \in manifest'.roster :
                          /\ t.id = manifest'.list[c][k].tenure /\ t.role = r.role
                          /\ r.subject \in {t.person, t.id}
    <2>. DEFINE held == {k \in DOMAIN m.list[c] :
                            <<s, before.pages[s][j].record>> \in m.list[c][k].provenance}
    <2>1. j \in DOMAIN before.pages[s]
        BY <1>1
    <2>2. Due(c, s, j) =>
              \E k \in held :
                /\ held = {k}
                /\ \E t \in m.roster :
                      /\ t.id = m.list[c][k].tenure /\ t.role = before.pages[s][j].role
                      /\ before.pages[s][j].subject \in {t.person, t.id}
        <3>1. held = {k \in DOMAIN m.list[c] :
                         <<s, before.pages[s][j].record>> \in m.list[c][k].provenance}
            OBVIOUS
        <3>. HIDE DEF held, Due, m, before
        <3>. QED BY <1>3, <2>1, <3>1
    <2>. HIDE DEF before
    <2>. QED BY <1>1, <1>4, <2>2, Zenon
<1>. HIDE DEF before
<1>. QED BY <1>5, Zenon DEF NothingIsLeftOut

\* A manifest is built once; what it is about stays.
LEMMA ManifestStays ==
    ASSUME RegisterInv, [RegisterNext]_registerVars
    PROVE  \/ UNCHANGED <<listing, manifest, known>>
           \/ \E as_of \in 1..today : BuildManifest(as_of)
BY DEF RegisterNext, registerVars, NextDay, Appoint, Depart, Publish, Conclude, Revalidate

\* A manifest for an earlier day holds what was known on that day and in the state
\* it was known in, for any registers, whenever the manifest is built.
THEOREM HindsightIsExcluded == RegisterSpec => []NoHindsight
<1>1. RegisterInit => NoHindsight
    BY DEF RegisterInit, NoHindsight
<1>2. RegisterInv /\ NoHindsight /\ [RegisterNext]_registerVars => NoHindsight'
    <2>. SUFFICES ASSUME RegisterInv, NoHindsight, [RegisterNext]_registerVars PROVE NoHindsight'
        OBVIOUS
    <2>1. CASE UNCHANGED <<listing, manifest, known>>
        BY <2>1 DEF NoHindsight
    <2>. QED BY <2>1, ManifestStays, NoHindsightAtFirst
<1>. QED BY <1>1, <1>2, RegistersGoOn, PTL DEF RegisterSpec

\* No event that a required source had published by the date is left out of the
\* list, stands in it twice or is somebody else's, for any registers, sources and
\* listings.
THEOREM TheRegisterIsWhole == RegisterSpec => []NothingIsLeftOut
<1>1. RegisterInit => NothingIsLeftOut
    BY DEF RegisterInit, NothingIsLeftOut
<1>2. RegisterInv /\ NothingIsLeftOut /\ [RegisterNext]_registerVars => NothingIsLeftOut'
    <2>. SUFFICES ASSUME RegisterInv, NothingIsLeftOut, [RegisterNext]_registerVars
                  PROVE  NothingIsLeftOut'
        OBVIOUS
    <2>1. CASE UNCHANGED <<listing, manifest, known>>
        BY <2>1 DEF NothingIsLeftOut
    <2>. QED BY <2>1, ManifestStays, NothingIsLeftOutAtFirst
<1>. QED BY <1>1, <1>2, RegistersGoOn, PTL DEF RegisterSpec
=============================================================================
