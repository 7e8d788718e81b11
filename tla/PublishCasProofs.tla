-------------------------- MODULE PublishCasProofs --------------------------
(***************************************************************************)
(* Machine-checked facts about PublishCas, for any number of publishers,   *)
(* edits, deletions, guard changes and crashes.                            *)
(***************************************************************************)
EXTENDS PublishCas, TLAPS

-----------------------------------------------------------------------------
(* The inductive invariant: where each content can be at each label.       *)

\* A publisher between its first and its last call holds the flock.
LockInv == \A p \in Publishers : pc[p] \in Labels <=> lock = p

\* Edits are numbered as they are made.
EditInv ==
    /\ \A e \in Edits : target = e => e <= edits
    /\ \A p \in Publishers, e \in Edits :
          temp[p] = e \/ original[p] = e => e <= edits

\* No content is in two places.
UniqueInv ==
    /\ \A p \in Publishers : temp[p] # Absent => temp[p] # target
    /\ \A p, q \in Publishers :
          p # q /\ temp[p] # Absent => temp[p] # temp[q]

\* What a publisher's .partial file holds at each label.
StageInv ==
    \A p \in Publishers :
        /\ pc[p] \in {"start", "guards1", "baseline", "stage"}
              => temp[p] = Absent
        /\ pc[p] \in {"guards2", "swap"} => temp[p] = p
        /\ pc[p] \in {"compare", "restore", "undo"}
              => temp[p] # Absent /\ temp[p] # p
        /\ pc[p] = "settle" => temp[p] # Absent
        /\ pc[p] \in {"compare", "restore", "settle", "undo"}
              => original[p] # Absent
        /\ pc[p] \in {"guards3", "final"} /\ original[p] # Absent
              => temp[p] = original[p] /\ temp[p] # p
        /\ pc[p] \in {"guards3", "final"} /\ original[p] = Absent
              => temp[p] = Absent
        /\ pc[p] \in {"reread", "unlink"} => temp[p] = Absent
        /\ reply[p] # "none" => temp[p] = Absent

\* Where a publisher's own body can be: nowhere before its exchange, and
\* nowhere after it has failed.
BodyInv ==
    \A p \in Publishers :
        /\ pc[p] \in {"start", "guards1", "baseline", "stage", "guards2", "swap",
                      "settle", "undo"} => target # p
        /\ pc[p] \in Labels \cup {"start"} =>
              \A q \in Publishers : q # p => temp[q] # p
        /\ reply[p] = "error" =>
              target # p /\ \A q \in Publishers : temp[q] # p
        /\ reply[p] # "none" => pc[p] = "done"

\* The baseline a publisher read is the one its caller named.
BaselineInv ==
    \A p \in Publishers :
        /\ expected[p] # p
        /\ pc[p] \in Labels \ {"guards1", "baseline"} \/ reply[p] = "ok"
              => original[p] = expected[p]

\* The baseline of a publisher that succeeded is gone for good.
GoneInv ==
    \A p \in Publishers :
        reply[p] = "ok" /\ expected[p] # Absent =>
            /\ target # expected[p]
            /\ \A q \in Publishers : temp[q] # expected[p]
            /\ \A e \in Edits : expected[p] = e => e <= edits
            /\ \A q \in Publishers : expected[p] = q => pc[q] = "done"

IInv ==
    /\ TypeOK /\ LockInv /\ EditInv /\ UniqueInv /\ StageInv /\ BodyInv
    /\ BaselineInv /\ GoneInv /\ OneWinnerPerBaseline

-----------------------------------------------------------------------------
\* Start preserves the invariant.
LEMMA StartStep ==
    ASSUME IInv, NEW p \in Publishers, Start(p)
    PROVE  IInv'
<1>. USE ContentsAssumption, BoundsAssumption DEF Labels, Contents, Edits
<1>1. TypeOK'
    BY SMTT(20) DEF IInv, TypeOK,
           Start, args, counts, files
<1>2. LockInv'
    BY SMTT(20) DEF IInv, TypeOK, LockInv,
           Start, args, counts, files
<1>3. EditInv'
    BY SMTT(20) DEF IInv, TypeOK, EditInv,
           Start, args, counts, files
<1>4. UniqueInv'
    BY SMTT(20) DEF IInv, TypeOK, LockInv, EditInv, UniqueInv, StageInv, BodyInv,
           Start, args, counts, files
<1>5. StageInv'
    BY SMTT(20) DEF IInv, TypeOK, UniqueInv, StageInv, BodyInv, LockInv,
           Start, args, counts, files
<1>6. BodyInv'
    BY SMTT(20) DEF IInv, TypeOK, LockInv, StageInv, BodyInv, UniqueInv,
           Start, args, counts, files
<1>7. BaselineInv'
    BY SMTT(20) DEF IInv, TypeOK, LockInv, BaselineInv, BodyInv,
           Start, args, counts, files
<1>8. GoneInv'
    BY SMTT(20) DEF IInv, TypeOK, LockInv, EditInv, UniqueInv, StageInv, BodyInv, BaselineInv, GoneInv,
           Start, args, counts, files
<1>9. OneWinnerPerBaseline'
    BY SMTT(20) DEF IInv, TypeOK, LockInv, BodyInv, StageInv, BaselineInv, GoneInv, OneWinnerPerBaseline,
           Start, args, counts, files
<1>. QED BY <1>1, <1>2, <1>3, <1>4, <1>5, <1>6, <1>7, <1>8, <1>9 DEF IInv
\* Guards1 preserves the invariant.
LEMMA Guards1Step ==
    ASSUME IInv, NEW p \in Publishers, Guards1(p)
    PROVE  IInv'
<1>. USE ContentsAssumption, BoundsAssumption DEF Labels, Contents, Edits
<1>1. TypeOK'
    BY SMTT(20) DEF IInv, TypeOK,
           Guards1, CheckGuards, Goto, RaiseError, Return, args, counts, files
<1>2. LockInv'
    BY SMTT(20) DEF IInv, TypeOK, LockInv,
           Guards1, CheckGuards, Goto, RaiseError, Return, args, counts, files
<1>3. EditInv'
    BY SMTT(20) DEF IInv, TypeOK, EditInv,
           Guards1, CheckGuards, Goto, RaiseError, Return, args, counts, files
<1>4. UniqueInv'
    BY SMTT(20) DEF IInv, TypeOK, LockInv, EditInv, UniqueInv, StageInv, BodyInv,
           Guards1, CheckGuards, Goto, RaiseError, Return, args, counts, files
<1>5. StageInv'
    BY SMTT(20) DEF IInv, TypeOK, UniqueInv, StageInv, BodyInv, LockInv,
           Guards1, CheckGuards, Goto, RaiseError, Return, args, counts, files
<1>6. BodyInv'
    BY SMTT(20) DEF IInv, TypeOK, LockInv, StageInv, BodyInv, UniqueInv,
           Guards1, CheckGuards, Goto, RaiseError, Return, args, counts, files
<1>7. BaselineInv'
    BY SMTT(20) DEF IInv, TypeOK, LockInv, BaselineInv, BodyInv,
           Guards1, CheckGuards, Goto, RaiseError, Return, args, counts, files
<1>8. GoneInv'
    BY SMTT(20) DEF IInv, TypeOK, LockInv, EditInv, UniqueInv, StageInv, BodyInv, BaselineInv, GoneInv,
           Guards1, CheckGuards, Goto, RaiseError, Return, args, counts, files
<1>9. OneWinnerPerBaseline'
    BY SMTT(20) DEF IInv, TypeOK, LockInv, BodyInv, StageInv, BaselineInv, GoneInv, OneWinnerPerBaseline,
           Guards1, CheckGuards, Goto, RaiseError, Return, args, counts, files
<1>. QED BY <1>1, <1>2, <1>3, <1>4, <1>5, <1>6, <1>7, <1>8, <1>9 DEF IInv
\* ReadBaseline preserves the invariant.
LEMMA ReadBaselineStep ==
    ASSUME IInv, NEW p \in Publishers, ReadBaseline(p)
    PROVE  IInv'
<1>. USE ContentsAssumption, BoundsAssumption DEF Labels, Contents, Edits
<1>1. TypeOK'
    BY SMTT(20) DEF IInv, TypeOK,
           ReadBaseline, Goto, RaiseError, Return, args, counts, files
<1>2. LockInv'
    BY SMTT(20) DEF IInv, TypeOK, LockInv,
           ReadBaseline, Goto, RaiseError, Return, args, counts, files
<1>3. EditInv'
    BY SMTT(20) DEF IInv, TypeOK, EditInv,
           ReadBaseline, Goto, RaiseError, Return, args, counts, files
<1>4. UniqueInv'
    BY SMTT(20) DEF IInv, TypeOK, LockInv, EditInv, UniqueInv, StageInv, BodyInv,
           ReadBaseline, Goto, RaiseError, Return, args, counts, files
<1>5. StageInv'
    BY SMTT(20) DEF IInv, TypeOK, UniqueInv, StageInv, BodyInv, LockInv,
           ReadBaseline, Goto, RaiseError, Return, args, counts, files
<1>6. BodyInv'
    BY SMTT(20) DEF IInv, TypeOK, LockInv, StageInv, BodyInv, UniqueInv,
           ReadBaseline, Goto, RaiseError, Return, args, counts, files
<1>7. BaselineInv'
    BY SMTT(20) DEF IInv, TypeOK, LockInv, BaselineInv, BodyInv,
           ReadBaseline, Goto, RaiseError, Return, args, counts, files
<1>8. GoneInv'
    BY SMTT(20) DEF IInv, TypeOK, LockInv, EditInv, UniqueInv, StageInv, BodyInv, BaselineInv, GoneInv,
           ReadBaseline, Goto, RaiseError, Return, args, counts, files
<1>9. OneWinnerPerBaseline'
    BY SMTT(20) DEF IInv, TypeOK, LockInv, BodyInv, StageInv, BaselineInv, GoneInv, OneWinnerPerBaseline,
           ReadBaseline, Goto, RaiseError, Return, args, counts, files
<1>. QED BY <1>1, <1>2, <1>3, <1>4, <1>5, <1>6, <1>7, <1>8, <1>9 DEF IInv
\* Stage preserves the invariant.
LEMMA StageStep ==
    ASSUME IInv, NEW p \in Publishers, Stage(p)
    PROVE  IInv'
<1>. USE ContentsAssumption, BoundsAssumption DEF Labels, Contents, Edits
<1>1. TypeOK'
    BY SMTT(20) DEF IInv, TypeOK,
           Stage, Goto, args, counts, files
<1>2. LockInv'
    BY SMTT(20) DEF IInv, TypeOK, LockInv,
           Stage, Goto, args, counts, files
<1>3. EditInv'
    BY SMTT(20) DEF IInv, TypeOK, EditInv,
           Stage, Goto, args, counts, files
<1>4. UniqueInv'
    BY SMTT(20) DEF IInv, TypeOK, LockInv, EditInv, UniqueInv, StageInv, BodyInv,
           Stage, Goto, args, counts, files
<1>5. StageInv'
    BY SMTT(20) DEF IInv, TypeOK, UniqueInv, StageInv, BodyInv, LockInv,
           Stage, Goto, args, counts, files
<1>6. BodyInv'
    BY SMTT(20) DEF IInv, TypeOK, LockInv, StageInv, BodyInv, UniqueInv,
           Stage, Goto, args, counts, files
<1>7. BaselineInv'
    BY SMTT(20) DEF IInv, TypeOK, LockInv, BaselineInv, BodyInv,
           Stage, Goto, args, counts, files
<1>8. GoneInv'
    BY SMTT(20) DEF IInv, TypeOK, LockInv, EditInv, UniqueInv, StageInv, BodyInv, BaselineInv, GoneInv,
           Stage, Goto, args, counts, files
<1>9. OneWinnerPerBaseline'
    BY SMTT(20) DEF IInv, TypeOK, LockInv, BodyInv, StageInv, BaselineInv, GoneInv, OneWinnerPerBaseline,
           Stage, Goto, args, counts, files
<1>. QED BY <1>1, <1>2, <1>3, <1>4, <1>5, <1>6, <1>7, <1>8, <1>9 DEF IInv
\* Guards2 preserves the invariant.
LEMMA Guards2Step ==
    ASSUME IInv, NEW p \in Publishers, Guards2(p)
    PROVE  IInv'
<1>. USE ContentsAssumption, BoundsAssumption DEF Labels, Contents, Edits
<1>1. TypeOK'
    BY SMTT(20) DEF IInv, TypeOK,
           Guards2, CheckGuards, Goto, RaiseError, Return, args, counts, files
<1>2. LockInv'
    BY SMTT(20) DEF IInv, TypeOK, LockInv,
           Guards2, CheckGuards, Goto, RaiseError, Return, args, counts, files
<1>3. EditInv'
    BY SMTT(20) DEF IInv, TypeOK, EditInv,
           Guards2, CheckGuards, Goto, RaiseError, Return, args, counts, files
<1>4. UniqueInv'
    BY SMTT(20) DEF IInv, TypeOK, LockInv, EditInv, UniqueInv, StageInv, BodyInv,
           Guards2, CheckGuards, Goto, RaiseError, Return, args, counts, files
<1>5. StageInv'
    BY SMTT(20) DEF IInv, TypeOK, UniqueInv, StageInv, BodyInv, LockInv,
           Guards2, CheckGuards, Goto, RaiseError, Return, args, counts, files
<1>6. BodyInv'
    BY SMTT(20) DEF IInv, TypeOK, LockInv, StageInv, BodyInv, UniqueInv,
           Guards2, CheckGuards, Goto, RaiseError, Return, args, counts, files
<1>7. BaselineInv'
    BY SMTT(20) DEF IInv, TypeOK, LockInv, BaselineInv, BodyInv,
           Guards2, CheckGuards, Goto, RaiseError, Return, args, counts, files
<1>8. GoneInv'
    BY SMTT(20) DEF IInv, TypeOK, LockInv, EditInv, UniqueInv, StageInv, BodyInv, BaselineInv, GoneInv,
           Guards2, CheckGuards, Goto, RaiseError, Return, args, counts, files
<1>9. OneWinnerPerBaseline'
    BY SMTT(20) DEF IInv, TypeOK, LockInv, BodyInv, StageInv, BaselineInv, GoneInv, OneWinnerPerBaseline,
           Guards2, CheckGuards, Goto, RaiseError, Return, args, counts, files
<1>. QED BY <1>1, <1>2, <1>3, <1>4, <1>5, <1>6, <1>7, <1>8, <1>9 DEF IInv
\* Swap preserves the invariant.
LEMMA SwapStep ==
    ASSUME IInv, NEW p \in Publishers, Swap(p)
    PROVE  IInv'
<1>. USE ContentsAssumption, BoundsAssumption DEF Labels, Contents, Edits
<1>1. TypeOK'
    BY SMTT(20) DEF IInv, TypeOK,
           Swap, Exchange, Goto, RaiseError, Return, args, counts, files
<1>2. LockInv'
    BY SMTT(20) DEF IInv, TypeOK, LockInv,
           Swap, Exchange, Goto, RaiseError, Return, args, counts, files
<1>3. EditInv'
    BY SMTT(20) DEF IInv, TypeOK, EditInv,
           Swap, Exchange, Goto, RaiseError, Return, args, counts, files
<1>4. UniqueInv'
    BY SMTT(20) DEF IInv, TypeOK, LockInv, EditInv, UniqueInv, StageInv, BodyInv,
           Swap, Exchange, Goto, RaiseError, Return, args, counts, files
<1>5. StageInv'
    BY SMTT(20) DEF IInv, TypeOK, UniqueInv, StageInv, BodyInv, LockInv,
           Swap, Exchange, Goto, RaiseError, Return, args, counts, files
<1>6. BodyInv'
    BY SMTT(20) DEF IInv, TypeOK, LockInv, StageInv, BodyInv, UniqueInv,
           Swap, Exchange, Goto, RaiseError, Return, args, counts, files
<1>7. BaselineInv'
    BY SMTT(20) DEF IInv, TypeOK, LockInv, BaselineInv, BodyInv,
           Swap, Exchange, Goto, RaiseError, Return, args, counts, files
<1>8. GoneInv'
    BY SMTT(20) DEF IInv, TypeOK, LockInv, EditInv, UniqueInv, StageInv, BodyInv, BaselineInv, GoneInv,
           Swap, Exchange, Goto, RaiseError, Return, args, counts, files
<1>9. OneWinnerPerBaseline'
    BY SMTT(20) DEF IInv, TypeOK, LockInv, BodyInv, StageInv, BaselineInv, GoneInv, OneWinnerPerBaseline,
           Swap, Exchange, Goto, RaiseError, Return, args, counts, files
<1>. QED BY <1>1, <1>2, <1>3, <1>4, <1>5, <1>6, <1>7, <1>8, <1>9 DEF IInv
\* Compare preserves the invariant.
LEMMA CompareStep ==
    ASSUME IInv, NEW p \in Publishers, Compare(p)
    PROVE  IInv'
<1>. USE ContentsAssumption, BoundsAssumption DEF Labels, Contents, Edits
<1>1. TypeOK'
    BY SMTT(20) DEF IInv, TypeOK, StageInv,
           Compare, Goto, args, counts, files
<1>2. LockInv'
    BY SMTT(20) DEF IInv, TypeOK, LockInv,
           Compare, Goto, args, counts, files
<1>3. EditInv'
    BY SMTT(20) DEF IInv, TypeOK, EditInv,
           Compare, Goto, args, counts, files
<1>4. UniqueInv'
    BY SMTT(20) DEF IInv, TypeOK, LockInv, EditInv, UniqueInv, StageInv, BodyInv,
           Compare, Goto, args, counts, files
<1>5. StageInv'
    BY SMTT(20) DEF IInv, TypeOK, UniqueInv, StageInv, BodyInv, LockInv,
           Compare, Goto, args, counts, files
<1>6. BodyInv'
    BY SMTT(20) DEF IInv, TypeOK, LockInv, StageInv, BodyInv, UniqueInv,
           Compare, Goto, args, counts, files
<1>7. BaselineInv'
    BY SMTT(20) DEF IInv, TypeOK, LockInv, BaselineInv, BodyInv,
           Compare, Goto, args, counts, files
<1>8. GoneInv'
    BY SMTT(20) DEF IInv, TypeOK, LockInv, EditInv, UniqueInv, StageInv, BodyInv, BaselineInv, GoneInv,
           Compare, Goto, args, counts, files
<1>9. OneWinnerPerBaseline'
    BY SMTT(20) DEF IInv, TypeOK, LockInv, BodyInv, StageInv, BaselineInv, GoneInv, OneWinnerPerBaseline,
           Compare, Goto, args, counts, files
<1>. QED BY <1>1, <1>2, <1>3, <1>4, <1>5, <1>6, <1>7, <1>8, <1>9 DEF IInv
\* Guards3 preserves the invariant.
LEMMA Guards3Step ==
    ASSUME IInv, NEW p \in Publishers, Guards3(p)
    PROVE  IInv'
<1>. USE ContentsAssumption, BoundsAssumption DEF Labels, Contents, Edits
<1>1. TypeOK'
    BY SMTT(20) DEF IInv, TypeOK,
           Guards3, CheckGuards, Goto, args, counts, files
<1>2. LockInv'
    BY SMTT(20) DEF IInv, TypeOK, LockInv,
           Guards3, CheckGuards, Goto, args, counts, files
<1>3. EditInv'
    BY SMTT(20) DEF IInv, TypeOK, EditInv,
           Guards3, CheckGuards, Goto, args, counts, files
<1>4. UniqueInv'
    BY SMTT(20) DEF IInv, TypeOK, LockInv, EditInv, UniqueInv, StageInv, BodyInv,
           Guards3, CheckGuards, Goto, args, counts, files
<1>5. StageInv'
    BY SMTT(20) DEF IInv, TypeOK, UniqueInv, StageInv, BodyInv, LockInv,
           Guards3, CheckGuards, Goto, args, counts, files
<1>6. BodyInv'
    BY SMTT(20) DEF IInv, TypeOK, LockInv, StageInv, BodyInv, UniqueInv,
           Guards3, CheckGuards, Goto, args, counts, files
<1>7. BaselineInv'
    BY SMTT(20) DEF IInv, TypeOK, LockInv, BaselineInv, BodyInv,
           Guards3, CheckGuards, Goto, args, counts, files
<1>8. GoneInv'
    BY SMTT(20) DEF IInv, TypeOK, LockInv, EditInv, UniqueInv, StageInv, BodyInv, BaselineInv, GoneInv,
           Guards3, CheckGuards, Goto, args, counts, files
<1>9. OneWinnerPerBaseline'
    BY SMTT(20) DEF IInv, TypeOK, LockInv, BodyInv, StageInv, BaselineInv, GoneInv, OneWinnerPerBaseline,
           Guards3, CheckGuards, Goto, args, counts, files
<1>. QED BY <1>1, <1>2, <1>3, <1>4, <1>5, <1>6, <1>7, <1>8, <1>9 DEF IInv
\* Reread preserves the invariant.
LEMMA RereadStep ==
    ASSUME IInv, NEW p \in Publishers, Reread(p)
    PROVE  IInv'
<1>. USE ContentsAssumption, BoundsAssumption DEF Labels, Contents, Edits
<1>1. TypeOK'
    BY SMTT(20) DEF IInv, TypeOK,
           Reread, Goto, RaiseError, Return, args, counts, files
<1>2. LockInv'
    BY SMTT(20) DEF IInv, TypeOK, LockInv,
           Reread, Goto, RaiseError, Return, args, counts, files
<1>3. EditInv'
    BY SMTT(20) DEF IInv, TypeOK, EditInv,
           Reread, Goto, RaiseError, Return, args, counts, files
<1>4. UniqueInv'
    BY SMTT(20) DEF IInv, TypeOK, LockInv, EditInv, UniqueInv, StageInv, BodyInv,
           Reread, Goto, RaiseError, Return, args, counts, files
<1>5. StageInv'
    BY SMTT(20) DEF IInv, TypeOK, UniqueInv, StageInv, BodyInv, LockInv,
           Reread, Goto, RaiseError, Return, args, counts, files
<1>6. BodyInv'
    BY SMTT(20) DEF IInv, TypeOK, LockInv, StageInv, BodyInv, UniqueInv,
           Reread, Goto, RaiseError, Return, args, counts, files
<1>7. BaselineInv'
    BY SMTT(20) DEF IInv, TypeOK, LockInv, BaselineInv, BodyInv,
           Reread, Goto, RaiseError, Return, args, counts, files
<1>8. GoneInv'
    BY SMTT(20) DEF IInv, TypeOK, LockInv, EditInv, UniqueInv, StageInv, BodyInv, BaselineInv, GoneInv,
           Reread, Goto, RaiseError, Return, args, counts, files
<1>9. OneWinnerPerBaseline'
    BY SMTT(20) DEF IInv, TypeOK, LockInv, BodyInv, StageInv, BaselineInv, GoneInv, OneWinnerPerBaseline,
           Reread, Goto, RaiseError, Return, args, counts, files
<1>. QED BY <1>1, <1>2, <1>3, <1>4, <1>5, <1>6, <1>7, <1>8, <1>9 DEF IInv
\* Unlink preserves the invariant.
LEMMA UnlinkStep ==
    ASSUME IInv, NEW p \in Publishers, Unlink(p)
    PROVE  IInv'
<1>. USE ContentsAssumption, BoundsAssumption DEF Labels, Contents, Edits
<1>1. TypeOK'
    BY SMTT(20) DEF IInv, TypeOK,
           Unlink, Return, args, counts, files
<1>2. LockInv'
    BY SMTT(20) DEF IInv, TypeOK, LockInv,
           Unlink, Return, args, counts, files
<1>3. EditInv'
    BY SMTT(20) DEF IInv, TypeOK, EditInv,
           Unlink, Return, args, counts, files
<1>4. UniqueInv'
    BY SMTT(20) DEF IInv, TypeOK, LockInv, EditInv, UniqueInv, StageInv, BodyInv,
           Unlink, Return, args, counts, files
<1>5. StageInv'
    BY SMTT(20) DEF IInv, TypeOK, UniqueInv, StageInv, BodyInv, LockInv,
           Unlink, Return, args, counts, files
<1>6. BodyInv'
    BY SMTT(20) DEF IInv, TypeOK, LockInv, StageInv, BodyInv, UniqueInv,
           Unlink, Return, args, counts, files
<1>7. BaselineInv'
    BY SMTT(20) DEF IInv, TypeOK, LockInv, BaselineInv, BodyInv,
           Unlink, Return, args, counts, files
<1>8. GoneInv'
    BY SMTT(20) DEF IInv, TypeOK, LockInv, EditInv, UniqueInv, StageInv, BodyInv, BaselineInv, GoneInv,
           Unlink, Return, args, counts, files
<1>9. OneWinnerPerBaseline'
    BY SMTT(20) DEF IInv, TypeOK, LockInv, BodyInv, StageInv, BaselineInv, GoneInv, OneWinnerPerBaseline,
           Unlink, Return, args, counts, files
<1>. QED BY <1>1, <1>2, <1>3, <1>4, <1>5, <1>6, <1>7, <1>8, <1>9 DEF IInv
\* Restore preserves the invariant.
LEMMA RestoreStep ==
    ASSUME IInv, NEW p \in Publishers, Restore(p)
    PROVE  IInv'
<1>. USE ContentsAssumption, BoundsAssumption DEF Labels, Contents, Edits
<1>1. TypeOK'
    BY SMTT(20) DEF IInv, TypeOK,
           Restore, Exchange, Goto, RaiseError, Return, args, counts, files
<1>2. LockInv'
    BY SMTT(20) DEF IInv, TypeOK, LockInv,
           Restore, Exchange, Goto, RaiseError, Return, args, counts, files
<1>3. EditInv'
    BY SMTT(20) DEF IInv, TypeOK, EditInv,
           Restore, Exchange, Goto, RaiseError, Return, args, counts, files
<1>4. UniqueInv'
    BY SMTT(20) DEF IInv, TypeOK, LockInv, EditInv, UniqueInv, StageInv, BodyInv,
           Restore, Exchange, Goto, RaiseError, Return, args, counts, files
<1>5. StageInv'
    BY SMTT(20) DEF IInv, TypeOK, UniqueInv, StageInv, BodyInv, LockInv,
           Restore, Exchange, Goto, RaiseError, Return, args, counts, files
<1>6. BodyInv'
    BY SMTT(20) DEF IInv, TypeOK, LockInv, StageInv, BodyInv, UniqueInv,
           Restore, Exchange, Goto, RaiseError, Return, args, counts, files
<1>7. BaselineInv'
    BY SMTT(20) DEF IInv, TypeOK, LockInv, BaselineInv, BodyInv,
           Restore, Exchange, Goto, RaiseError, Return, args, counts, files
<1>8. GoneInv'
    BY SMTT(20) DEF IInv, TypeOK, LockInv, EditInv, UniqueInv, StageInv, BodyInv, BaselineInv, GoneInv,
           Restore, Exchange, Goto, RaiseError, Return, args, counts, files
<1>9. OneWinnerPerBaseline'
    BY SMTT(20) DEF IInv, TypeOK, LockInv, BodyInv, StageInv, BaselineInv, GoneInv, OneWinnerPerBaseline,
           Restore, Exchange, Goto, RaiseError, Return, args, counts, files
<1>. QED BY <1>1, <1>2, <1>3, <1>4, <1>5, <1>6, <1>7, <1>8, <1>9 DEF IInv
\* Final preserves the invariant.
LEMMA FinalStep ==
    ASSUME IInv, NEW p \in Publishers, Final(p)
    PROVE  IInv'
<1>. USE ContentsAssumption, BoundsAssumption DEF Labels, Contents, Edits
<1>1. TypeOK'
    BY SMTT(20) DEF IInv, TypeOK,
           Final, RaiseError, Return, args, counts, files
<1>2. LockInv'
    BY SMTT(20) DEF IInv, TypeOK, LockInv,
           Final, RaiseError, Return, args, counts, files
<1>3. EditInv'
    BY SMTT(20) DEF IInv, TypeOK, EditInv,
           Final, RaiseError, Return, args, counts, files
<1>4. UniqueInv'
    BY SMTT(20) DEF IInv, TypeOK, LockInv, EditInv, UniqueInv, StageInv, BodyInv,
           Final, RaiseError, Return, args, counts, files
<1>5. StageInv'
    BY SMTT(20) DEF IInv, TypeOK, UniqueInv, StageInv, BodyInv, LockInv,
           Final, RaiseError, Return, args, counts, files
<1>6. BodyInv'
    BY SMTT(20) DEF IInv, TypeOK, LockInv, StageInv, BodyInv, UniqueInv,
           Final, RaiseError, Return, args, counts, files
<1>7. BaselineInv'
    BY SMTT(20) DEF IInv, TypeOK, LockInv, BaselineInv, BodyInv,
           Final, RaiseError, Return, args, counts, files
<1>8. GoneInv'
    BY SMTT(20) DEF IInv, TypeOK, LockInv, EditInv, UniqueInv, StageInv, BodyInv, BaselineInv, GoneInv,
           Final, RaiseError, Return, args, counts, files
<1>9. OneWinnerPerBaseline'
    BY SMTT(20) DEF IInv, TypeOK, LockInv, BodyInv, StageInv, BaselineInv, GoneInv, OneWinnerPerBaseline,
           Final, RaiseError, Return, args, counts, files
<1>. QED BY <1>1, <1>2, <1>3, <1>4, <1>5, <1>6, <1>7, <1>8, <1>9 DEF IInv
\* Crash preserves the invariant.
LEMMA CrashStep ==
    ASSUME IInv, NEW p \in Publishers, Crash(p)
    PROVE  IInv'
<1>. USE ContentsAssumption, BoundsAssumption DEF Labels, Contents, Edits
<1>1. TypeOK'
    BY SMTT(20) DEF IInv, TypeOK,
           Crash, args, counts, files
<1>2. LockInv'
    BY SMTT(20) DEF IInv, TypeOK, LockInv,
           Crash, args, counts, files
<1>3. EditInv'
    BY SMTT(20) DEF IInv, TypeOK, EditInv,
           Crash, args, counts, files
<1>4. UniqueInv'
    BY SMTT(20) DEF IInv, TypeOK, LockInv, EditInv, UniqueInv, StageInv, BodyInv,
           Crash, args, counts, files
<1>5. StageInv'
    BY SMTT(20) DEF IInv, TypeOK, UniqueInv, StageInv, BodyInv, LockInv,
           Crash, args, counts, files
<1>6. BodyInv'
    BY SMTT(20) DEF IInv, TypeOK, LockInv, StageInv, BodyInv, UniqueInv,
           Crash, args, counts, files
<1>7. BaselineInv'
    BY SMTT(20) DEF IInv, TypeOK, LockInv, BaselineInv, BodyInv,
           Crash, args, counts, files
<1>8. GoneInv'
    BY SMTT(20) DEF IInv, TypeOK, LockInv, EditInv, UniqueInv, StageInv, BodyInv, BaselineInv, GoneInv,
           Crash, args, counts, files
<1>9. OneWinnerPerBaseline'
    BY SMTT(20) DEF IInv, TypeOK, LockInv, BodyInv, StageInv, BaselineInv, GoneInv, OneWinnerPerBaseline,
           Crash, args, counts, files
<1>. QED BY <1>1, <1>2, <1>3, <1>4, <1>5, <1>6, <1>7, <1>8, <1>9 DEF IInv
\* Edit preserves the invariant.
LEMMA EditStep ==
    ASSUME IInv, Edit
    PROVE  IInv'
<1>. USE ContentsAssumption, BoundsAssumption DEF Labels, Contents, Edits
<1>1. TypeOK'
    BY SMTT(20) DEF IInv, TypeOK,
           Edit, args, counts, files
<1>2. LockInv'
    BY SMTT(20) DEF IInv, TypeOK, LockInv,
           Edit, args, counts, files
<1>3. EditInv'
    BY SMTT(20) DEF IInv, TypeOK, EditInv,
           Edit, args, counts, files
<1>4. UniqueInv'
    BY SMTT(20) DEF IInv, TypeOK, LockInv, EditInv, UniqueInv, StageInv, BodyInv,
           Edit, args, counts, files
<1>5. StageInv'
    BY SMTT(20) DEF IInv, TypeOK, UniqueInv, StageInv, BodyInv, LockInv,
           Edit, args, counts, files
<1>6. BodyInv'
    BY SMTT(20) DEF IInv, TypeOK, LockInv, StageInv, BodyInv, UniqueInv,
           Edit, args, counts, files
<1>7. BaselineInv'
    BY SMTT(20) DEF IInv, TypeOK, LockInv, BaselineInv, BodyInv,
           Edit, args, counts, files
<1>8. GoneInv'
    BY SMTT(20) DEF IInv, TypeOK, LockInv, EditInv, UniqueInv, StageInv, BodyInv, BaselineInv, GoneInv,
           Edit, args, counts, files
<1>9. OneWinnerPerBaseline'
    BY SMTT(20) DEF IInv, TypeOK, LockInv, BodyInv, StageInv, BaselineInv, GoneInv, OneWinnerPerBaseline,
           Edit, args, counts, files
<1>. QED BY <1>1, <1>2, <1>3, <1>4, <1>5, <1>6, <1>7, <1>8, <1>9 DEF IInv
\* Delete preserves the invariant.
LEMMA DeleteStep ==
    ASSUME IInv, Delete
    PROVE  IInv'
<1>. USE ContentsAssumption, BoundsAssumption DEF Labels, Contents, Edits
<1>1. TypeOK'
    BY SMTT(20) DEF IInv, TypeOK,
           Delete, args, counts, files
<1>2. LockInv'
    BY SMTT(20) DEF IInv, TypeOK, LockInv,
           Delete, args, counts, files
<1>3. EditInv'
    BY SMTT(20) DEF IInv, TypeOK, EditInv,
           Delete, args, counts, files
<1>4. UniqueInv'
    BY SMTT(20) DEF IInv, TypeOK, LockInv, EditInv, UniqueInv, StageInv, BodyInv,
           Delete, args, counts, files
<1>5. StageInv'
    BY SMTT(20) DEF IInv, TypeOK, UniqueInv, StageInv, BodyInv, LockInv,
           Delete, args, counts, files
<1>6. BodyInv'
    BY SMTT(20) DEF IInv, TypeOK, LockInv, StageInv, BodyInv, UniqueInv,
           Delete, args, counts, files
<1>7. BaselineInv'
    BY SMTT(20) DEF IInv, TypeOK, LockInv, BaselineInv, BodyInv,
           Delete, args, counts, files
<1>8. GoneInv'
    BY SMTT(20) DEF IInv, TypeOK, LockInv, EditInv, UniqueInv, StageInv, BodyInv, BaselineInv, GoneInv,
           Delete, args, counts, files
<1>9. OneWinnerPerBaseline'
    BY SMTT(20) DEF IInv, TypeOK, LockInv, BodyInv, StageInv, BaselineInv, GoneInv, OneWinnerPerBaseline,
           Delete, args, counts, files
<1>. QED BY <1>1, <1>2, <1>3, <1>4, <1>5, <1>6, <1>7, <1>8, <1>9 DEF IInv
\* FlipGuard preserves the invariant.
LEMMA FlipGuardStep ==
    ASSUME IInv, FlipGuard
    PROVE  IInv'
<1>. USE ContentsAssumption, BoundsAssumption DEF Labels, Contents, Edits
<1>1. TypeOK'
    BY SMTT(20) DEF IInv, TypeOK,
           FlipGuard, args, counts, files
<1>2. LockInv'
    BY SMTT(20) DEF IInv, TypeOK, LockInv,
           FlipGuard, args, counts, files
<1>3. EditInv'
    BY SMTT(20) DEF IInv, TypeOK, EditInv,
           FlipGuard, args, counts, files
<1>4. UniqueInv'
    BY SMTT(20) DEF IInv, TypeOK, LockInv, EditInv, UniqueInv, StageInv, BodyInv,
           FlipGuard, args, counts, files
<1>5. StageInv'
    BY SMTT(20) DEF IInv, TypeOK, UniqueInv, StageInv, BodyInv, LockInv,
           FlipGuard, args, counts, files
<1>6. BodyInv'
    BY SMTT(20) DEF IInv, TypeOK, LockInv, StageInv, BodyInv, UniqueInv,
           FlipGuard, args, counts, files
<1>7. BaselineInv'
    BY SMTT(20) DEF IInv, TypeOK, LockInv, BaselineInv, BodyInv,
           FlipGuard, args, counts, files
<1>8. GoneInv'
    BY SMTT(20) DEF IInv, TypeOK, LockInv, EditInv, UniqueInv, StageInv, BodyInv, BaselineInv, GoneInv,
           FlipGuard, args, counts, files
<1>9. OneWinnerPerBaseline'
    BY SMTT(20) DEF IInv, TypeOK, LockInv, BodyInv, StageInv, BaselineInv, GoneInv, OneWinnerPerBaseline,
           FlipGuard, args, counts, files
<1>. QED BY <1>1, <1>2, <1>3, <1>4, <1>5, <1>6, <1>7, <1>8, <1>9 DEF IInv
-----------------------------------------------------------------------------
(* The theorems.                                                            *)

\* The invariant holds at first.
LEMMA InitIInv == Init => IInv
<1>. SUFFICES ASSUME Init PROVE IInv
    OBVIOUS
<1>. USE ContentsAssumption, BoundsAssumption DEF Init, Contents, Labels
<1>1. TypeOK
    BY DEF TypeOK
<1>2. LockInv /\ EditInv /\ UniqueInv
    BY DEF LockInv, EditInv, UniqueInv, Edits
<1>3. StageInv /\ BodyInv /\ BaselineInv
    BY DEF StageInv, BodyInv, BaselineInv
<1>4. GoneInv /\ OneWinnerPerBaseline
    BY DEF GoneInv, OneWinnerPerBaseline
<1>. QED BY <1>1, <1>2, <1>3, <1>4 DEF IInv

\* Nothing changes, and the invariant stays.
LEMMA StutterStep ==
    ASSUME IInv, UNCHANGED vars
    PROVE  IInv'
<1>. USE DEF IInv, vars, files, args, counts
<1>1. TypeOK'
    BY DEF TypeOK
<1>2. LockInv' /\ EditInv' /\ UniqueInv'
    BY DEF LockInv, EditInv, UniqueInv
<1>3. StageInv' /\ BodyInv' /\ BaselineInv'
    BY DEF StageInv, BodyInv, BaselineInv
<1>4. GoneInv' /\ OneWinnerPerBaseline'
    BY DEF GoneInv, OneWinnerPerBaseline
<1>. QED BY <1>1, <1>2, <1>3, <1>4

\* Every step of a publisher, and every edit, deletion, guard change and
\* crash, preserves the inductive invariant of publish_text.
THEOREM Inductive == Spec => []IInv
<1>1. ASSUME IInv, [Next]_vars PROVE IInv'
    <2>1. ASSUME NEW p \in Publishers, Publish(p) PROVE IInv'
        BY <1>1, <2>1, StartStep, Guards1Step, ReadBaselineStep, StageStep,
           Guards2Step, SwapStep, CompareStep, Guards3Step, RereadStep,
           UnlinkStep, RestoreStep, FinalStep DEF Publish
    <2>2. ASSUME NEW p \in Publishers, Crash(p) PROVE IInv'
        BY <1>1, <2>2, CrashStep
    <2>3. ASSUME Edit \/ Delete \/ FlipGuard PROVE IInv'
        BY <1>1, <2>3, EditStep, DeleteStep, FlipGuardStep
    <2>4. CASE UNCHANGED vars
        BY <1>1, <2>4, StutterStep
    <2>. QED BY <1>1, <2>1, <2>2, <2>3, <2>4 DEF Next
<1>. QED BY InitIInv, <1>1, PTL DEF Spec

\* Every variable of the publisher model keeps its type.
THEOREM TypeCorrect == Spec => []TypeOK
<1>1. IInv => TypeOK
    BY DEF IInv
<1>. QED BY <1>1, Inductive, PTL

\* publish_text never leaves the body of a publisher that raised
\* PublishError at the target, whatever editors, guards, crashes and other
\* publishers do.
THEOREM FailureIsClean == Spec => []FailureLeavesNothing
<1>1. IInv => FailureLeavesNothing
    BY DEF IInv, BodyInv, FailureLeavesNothing
<1>. QED BY <1>1, Inductive, PTL

\* Two publishers that expect the same existing baseline never both succeed.
THEOREM SingleWinner == Spec => []OneWinnerPerBaseline
<1>1. IInv => OneWinnerPerBaseline
    BY DEF IInv
<1>. QED BY <1>1, Inductive, PTL

-----------------------------------------------------------------------------
(* A lone edit of an existing file.                                         *)

\* As long as nobody deletes the file and at most one edit is made, the file is
\* there; from the exchange to the end of a rollback what is at the target, and
\* after the exchange back what came out of it, is the publisher's own body or
\* that edit; and a baseline is only dropped once it counts as superseded.
Lone == InitialTarget # Absent /\ deletes = 0 /\ edits <= 1

LoneAt(p) ==
    /\ pc[p] \notin {"reread", "unlink"}
    /\ pc[p] \in Labels \ {"guards1", "baseline"} => original[p] # Absent
    /\ pc[p] \in {"compare", "guards3", "final", "restore"}
          => target = p \/ target \in 1..edits
    /\ pc[p] \in {"guards3", "final"} => original[p] \in superseded
    /\ pc[p] = "settle" => temp[p] = p \/ temp[p] \in 1..edits
    /\ pc[p] = "undo" => temp[p] \in 1..edits

LoneInv ==
    Lone => /\ target # Absent
            /\ NoEditLost
            /\ \A p \in Publishers : LoneAt(p)

\* Only the publisher that runs has anything to show.
LEMMA OthersWait ==
    ASSUME IInv, NEW p \in Publishers, Publish(p), NEW q \in Publishers, q # p
    PROVE  pc'[q] = pc[q] /\ (pc[q] \in Labels => pc[p] = "start") /\ temp'[q] = temp[q]
           /\ original'[q] = original[q]
BY ContentsAssumption
   DEF IInv, TypeOK, LockInv, Publish, Start, Guards1, ReadBaseline, Stage, Guards2, Swap, Compare,
       Guards3, Reread, Unlink, Restore, Final, CheckGuards, Exchange, RaiseError, Return,
       Goto, Labels, files, args

\* A step of a publisher keeps the file, the edit, and what is known of both.
LEMMA LonePublish ==
    ASSUME IInv, LoneInv, NEW p \in Publishers, Publish(p)
    PROVE  LoneInv'
<1>. SUFFICES ASSUME Lone' PROVE target' # Absent /\ NoEditLost' /\ \A q \in Publishers : LoneAt(q)'
    BY DEF LoneInv
<1>. USE ContentsAssumption, BoundsAssumption DEF Labels, Contents, Edits
<1>1. edits' = edits /\ deletes' = deletes /\ Lone
    BY DEF Lone, Publish, Start, Guards1, ReadBaseline, Stage, Guards2, Swap, Compare, Guards3,
       Reread, Unlink, Restore, Final, CheckGuards, RaiseError, counts
<1>2. target # Absent /\ NoEditLost /\ \A q \in Publishers : LoneAt(q)
    BY <1>1 DEF LoneInv
<1>3. CASE Start(p)
    BY <1>1, <1>2, <1>3, OthersWait
       DEF IInv, TypeOK, LockInv, EditInv, UniqueInv, StageInv, BodyInv, LoneAt, NoEditLost,
           Start, Goto, RaiseError, Return, args, counts, files
<1>4. CASE Guards1(p)
    BY <1>1, <1>2, <1>4, OthersWait
       DEF IInv, TypeOK, LockInv, EditInv, UniqueInv, StageInv, BodyInv, LoneAt, NoEditLost,
           Guards1, CheckGuards, Goto, RaiseError, Return, args, counts, files
<1>5. CASE ReadBaseline(p)
    BY <1>1, <1>2, <1>5, OthersWait
       DEF IInv, TypeOK, LockInv, EditInv, UniqueInv, StageInv, BodyInv, LoneAt, NoEditLost,
           ReadBaseline, Goto, RaiseError, Return, args, counts, files
<1>6. CASE Stage(p)
    BY <1>1, <1>2, <1>6, OthersWait
       DEF IInv, TypeOK, LockInv, EditInv, UniqueInv, StageInv, BodyInv, LoneAt, NoEditLost,
           Stage, Goto, RaiseError, Return, args, counts, files
<1>7. CASE Guards2(p)
    BY <1>1, <1>2, <1>7, OthersWait
       DEF IInv, TypeOK, LockInv, EditInv, UniqueInv, StageInv, BodyInv, LoneAt, NoEditLost,
           Guards2, CheckGuards, Goto, RaiseError, Return, args, counts, files
<1>8. CASE Swap(p)
    BY <1>1, <1>2, <1>8, OthersWait
       DEF IInv, TypeOK, LockInv, EditInv, UniqueInv, StageInv, BodyInv, LoneAt, NoEditLost,
           Swap, Exchange, Goto, RaiseError, Return, args, counts, files
<1>9. CASE Compare(p)
    BY <1>1, <1>2, <1>9, OthersWait
       DEF IInv, TypeOK, LockInv, EditInv, UniqueInv, StageInv, BodyInv, LoneAt, NoEditLost,
           Compare, Goto, RaiseError, Return, args, counts, files
<1>10. CASE Guards3(p)
    BY <1>1, <1>2, <1>10, OthersWait
       DEF IInv, TypeOK, LockInv, EditInv, UniqueInv, StageInv, BodyInv, LoneAt, NoEditLost,
           Guards3, CheckGuards, Goto, RaiseError, Return, args, counts, files
<1>11. CASE Reread(p)
    BY <1>1, <1>2, <1>11, OthersWait
       DEF IInv, TypeOK, LockInv, EditInv, UniqueInv, StageInv, BodyInv, LoneAt, NoEditLost,
           Reread, Goto, RaiseError, Return, args, counts, files
<1>12. CASE Unlink(p)
    BY <1>1, <1>2, <1>12, OthersWait
       DEF IInv, TypeOK, LockInv, EditInv, UniqueInv, StageInv, BodyInv, LoneAt, NoEditLost,
           Unlink, Goto, RaiseError, Return, args, counts, files
<1>13. CASE Restore(p)
    <2>1. CASE pc[p] = "restore"
        <3>1. target' # Absent /\ NoEditLost'
            BY <1>1, <1>2, <1>13, <2>1
               DEF IInv, TypeOK, StageInv, LoneAt, NoEditLost, Restore, Exchange, Goto, RaiseError,
                   Return, args, counts, files
        <3>2. LoneAt(p)'
            BY <1>1, <1>2, <1>13, <2>1
               DEF IInv, TypeOK, StageInv, LoneAt, Restore, Exchange, Goto, RaiseError,
                   Return, args, counts, files
        <3>3. ASSUME NEW q \in Publishers, q # p PROVE LoneAt(q)'
            BY <1>2, <2>1, <3>3, OthersWait DEF LoneAt, Publish
        <3>. QED BY <3>1, <3>2, <3>3
    <2>2. CASE pc[p] = "settle"
        <3>1. target' # Absent /\ NoEditLost'
            BY <1>1, <1>2, <1>13, <2>2
               DEF IInv, TypeOK, StageInv, LoneAt, NoEditLost, Restore, Exchange, Goto, RaiseError,
                   Return, args, counts, files
        <3>2. LoneAt(p)'
            BY <1>1, <1>2, <1>13, <2>2
               DEF IInv, TypeOK, StageInv, LoneAt, Restore, Exchange, Goto, RaiseError,
                   Return, args, counts, files
        <3>3. ASSUME NEW q \in Publishers, q # p PROVE LoneAt(q)'
            BY <1>2, <2>2, <3>3, OthersWait DEF LoneAt, Publish
        <3>. QED BY <3>1, <3>2, <3>3
    <2>3. CASE pc[p] = "undo"
        <3>1. target' # Absent /\ NoEditLost'
            <4>1. target' = temp[p] /\ temp[p] \in 1..edits
                BY <1>2, <1>13, <2>3 DEF LoneAt, Restore
            <4>2. edits \in Nat /\ edits <= 1
                BY <1>1 DEF IInv, TypeOK, Lone
            <4>3. edits' = 1 /\ target' = 1
                BY <1>1, <4>1, <4>2
            <4>4. target' # Absent
                BY <4>1, <4>2, <1>1 DEF IInv, TypeOK
            <4>. QED BY <4>3, <4>4 DEF NoEditLost
        <3>2. LoneAt(p)'
            BY <1>1, <1>2, <1>13, <2>3
               DEF IInv, TypeOK, StageInv, LoneAt, Restore, Exchange, Goto, RaiseError,
                   Return, args, counts, files
        <3>3. ASSUME NEW q \in Publishers, q # p PROVE LoneAt(q)'
            BY <1>2, <2>3, <3>3, OthersWait DEF LoneAt, Publish
        <3>. QED BY <3>1, <3>2, <3>3
    <2>. QED BY <1>13, <2>1, <2>2, <2>3 DEF Restore
<1>14. CASE Final(p)
    BY <1>1, <1>2, <1>14, OthersWait
       DEF IInv, TypeOK, LockInv, EditInv, UniqueInv, StageInv, BodyInv, LoneAt, NoEditLost,
           Final, Goto, RaiseError, Return, args, counts, files
<1>. QED BY <1>3, <1>4, <1>5, <1>6, <1>7, <1>8, <1>9, <1>10, <1>11, <1>12, <1>13, <1>14 DEF Publish

\* An edit comes, the file is deleted, a guard changes, or a publisher dies.
LEMMA LoneWorld ==
    ASSUME IInv, LoneInv, Edit \/ Delete \/ FlipGuard \/ \E p \in Publishers : Crash(p)
    PROVE  LoneInv'
<1>. SUFFICES ASSUME Lone' PROVE target' # Absent /\ NoEditLost' /\ \A q \in Publishers : LoneAt(q)'
    BY DEF LoneInv
<1>. USE ContentsAssumption, BoundsAssumption DEF Labels, Contents, Edits
<1>1. edits \in Nat /\ deletes \in Nat
    BY DEF IInv, TypeOK
<1>2. ~Delete /\ Lone
    BY <1>1 DEF Lone, Edit, Delete, FlipGuard, Crash
<1>3. target # Absent /\ NoEditLost /\ \A q \in Publishers : LoneAt(q)
    BY <1>2 DEF LoneInv
<1>4. CASE Edit
    <2>1. edits' = 1 /\ target' = 1 /\ edits = 0 /\ 1 \in 1..MaxEdits
        BY <1>1, <1>4 DEF Edit, Lone
    <2>2. pc' = pc /\ original' = original /\ temp' = temp /\ superseded \subseteq superseded'
        BY <1>4 DEF Edit, args
    <2>3. target' # Absent /\ NoEditLost'
        BY <2>1 DEF NoEditLost
    <2>4. \A q \in Publishers : LoneAt(q)'
        BY <1>3, <2>1, <2>2 DEF LoneAt
    <2>. QED BY <2>3, <2>4
<1>5. CASE FlipGuard
    BY <1>3, <1>5 DEF FlipGuard, LoneAt, NoEditLost, files, args
<1>6. ASSUME NEW p \in Publishers, Crash(p)
      PROVE  target' # Absent /\ NoEditLost' /\ \A q \in Publishers : LoneAt(q)'
    BY <1>3, <1>6 DEF Crash, LoneAt, NoEditLost, IInv, TypeOK, files, args
<1>. QED BY <1>2, <1>4, <1>5, <1>6

\* A single edit of a file that is there survives every publish: whenever it comes,
\* and whichever publishers fail, roll back or die around it, it is at the target,
\* in a partial file, or gone by another editor's or a named caller's wish.
THEOREM LoneEditIsSafe == Spec => []LoneEditSurvives
<1>1. Init => LoneInv
    BY ContentsAssumption DEF Init, LoneInv, Lone, LoneAt, NoEditLost, Labels
<1>2. IInv /\ LoneInv /\ [Next]_vars => LoneInv'
    <2>1. IInv /\ LoneInv /\ Next => LoneInv'
        BY LonePublish, LoneWorld DEF Next
    <2>2. LoneInv /\ UNCHANGED vars => LoneInv'
        BY DEF LoneInv, Lone, LoneAt, NoEditLost, vars, files, args, counts
    <2>. QED BY <2>1, <2>2
<1>3. IInv /\ LoneInv => LoneEditSurvives
    <2>1. IInv => edits \in Nat /\ deletes \in Nat
        BY BoundsAssumption DEF IInv, TypeOK
    <2>2. edits = 0 => NoEditLost
        BY DEF NoEditLost
    <2>3. edits \in Nat /\ deletes \in Nat /\ edits + deletes = 1
             => edits = 0 \/ (edits <= 1 /\ deletes = 0)
        OBVIOUS
    <2>. QED BY <2>1, <2>2, <2>3 DEF LoneInv, Lone, LoneEditSurvives
<1>. QED BY Inductive, <1>1, <1>2, <1>3, PTL DEF Spec

-----------------------------------------------------------------------------
(* Where an edit can be lost.                                               *)

\* The edit e is at the target or in a .partial file, or was replaced knowingly.
Survives(e) ==
    e = target \/ e \in superseded \/ \E p \in Publishers : temp[p] = e

\* A rollback destroys e: the unlink of a created file, when e was written since the
\* file was read; the second exchange back, when e had come back with the first one
\* and another edit came out of it; and an exchange back that fails because the
\* target was deleted, which drops the .partial file e is in.
RollbackDestroys(p, e) ==
    \/ Unlink(p) /\ target = e
    \/ Restore(p) /\ pc[p] = "undo" /\ target = e
    \/ Restore(p) /\ pc[p] \in {"restore", "undo"} /\ target = Absent /\ temp[p] = e

\* Only such a rollback makes an edit disappear that nobody replaced knowingly.
LossesAreRollbacks ==
    [][\A e \in 1..edits : Survives(e) /\ ~Survives(e)' =>
          \E p \in Publishers : RollbackDestroys(p, e)]_vars

\* What came out of the exchange and was found to be the baseline is accounted for.
TakenInv ==
    \A p \in Publishers :
        pc[p] \in {"guards3", "final"} /\ original[p] # Absent => original[p] \in superseded

LEMMA TakenStays ==
    ASSUME IInv, TakenInv, [Next]_vars
    PROVE  TakenInv'
<1>. USE DEF IInv, TypeOK
<1>1. superseded \subseteq superseded'
    BY DEF Next, Publish, Start, Guards1, CheckGuards, ReadBaseline, Stage, Guards2,
           Swap, Compare, Guards3, Reread, Unlink, Restore, Final, RaiseError, Crash,
           Edit, Delete, FlipGuard, vars, args, counts, files
<1>2. ASSUME NEW p \in Publishers, Compare(p) PROVE TakenInv'
    BY <1>1, <1>2 DEF Compare, Goto, TakenInv, args
<1>3. ASSUME NEW p \in Publishers, Swap(p) PROVE TakenInv'
    BY <1>1, <1>3 DEF Swap, Exchange, Goto, RaiseError, Return, TakenInv, args
<1>4. ASSUME NEW p \in Publishers, ReadBaseline(p) PROVE TakenInv'
    BY <1>1, <1>4 DEF ReadBaseline, Goto, RaiseError, Return, TakenInv, args
<1>5. ASSUME NEW p \in Publishers,
             Start(p) \/ Guards1(p) \/ Stage(p) \/ Guards2(p)
      PROVE  TakenInv'
    BY <1>1, <1>5 DEF Start, Guards1, CheckGuards, Stage, Guards2, Goto, RaiseError,
       Return, TakenInv, args
<1>6. ASSUME NEW p \in Publishers,
             Guards3(p) \/ Reread(p) \/ Unlink(p) \/ Restore(p) \/ Final(p) \/ Crash(p)
      PROVE  TakenInv'
    BY <1>1, <1>6 DEF Guards3, CheckGuards, Reread, Unlink, Restore, Final, Goto,
       RaiseError, Return, Crash, TakenInv, args
<1>7. CASE Edit \/ Delete \/ FlipGuard \/ UNCHANGED vars
    BY <1>1, <1>7 DEF Edit, Delete, FlipGuard, vars, TakenInv, args
<1>. QED BY <1>2, <1>3, <1>4, <1>5, <1>6, <1>7 DEF Next, Publish

\* A publisher's step that only drops its .partial file loses what was in it.
LEMMA DropLoses ==
    ASSUME IInv, NEW p \in Publishers, NEW e, Survives(e), ~Survives(e)',
           target' = target, superseded \subseteq superseded',
           temp' = temp \/ temp' = [temp EXCEPT ![p] = Absent]
    PROVE  temp[p] = e
BY DEF IInv, TypeOK, Survives

\* Every exchange, link and clean-up of a publisher, and every edit and deletion of
\* others, keeps each edit or takes it out knowingly, apart from the three places in
\* the rollbacks.
THEOREM OnlyRollbacksLose == Spec => LossesAreRollbacks
<1>1. Init => TakenInv
    BY DEF Init, TakenInv
<1>2. ASSUME IInv, TakenInv, Next, NEW e \in 1..edits, Survives(e), ~Survives(e)'
      PROVE  \E p \in Publishers : RollbackDestroys(p, e)
    <2>. USE <1>2 DEF IInv, TypeOK
    <2>1. /\ e \in Edits /\ e # Absent /\ \A p \in Publishers : e # p
        BY ContentsAssumption, BoundsAssumption DEF Contents, Edits
    <2>2. ASSUME NEW p \in Publishers, Start(p) \/ Reread(p) \/ Guards1(p)
                    \/ ReadBaseline(p) \/ Guards2(p)
          PROVE  FALSE
        <3>1. /\ target' = target /\ superseded' = superseded
              /\ temp' = temp \/ temp' = [temp EXCEPT ![p] = Absent]
            BY <2>2 DEF Start, Reread, Guards1, CheckGuards, ReadBaseline, Guards2,
                        RaiseError, files
        <3>2. temp[p] \in {Absent, p}
            BY <2>2 DEF Start, Reread, Guards1, CheckGuards, ReadBaseline, Guards2,
                        StageInv
        <3>. QED BY <2>1, <3>1, <3>2, DropLoses
    <2>3. ASSUME NEW p \in Publishers, Stage(p) PROVE FALSE
        <3>1. /\ target' = target /\ superseded' = superseded /\ temp[p] = Absent
              /\ temp' = [temp EXCEPT ![p] = p]
            BY <2>3 DEF Stage, StageInv
        <3>. QED BY <2>1, <3>1 DEF Survives
    <2>4. ASSUME NEW p \in Publishers, Swap(p) PROVE FALSE
        <3>1. temp[p] = p /\ superseded' = superseded
            BY <2>4 DEF Swap, StageInv, RaiseError
        <3>2. \/ target = Absent /\ target' = p /\ temp' = [temp EXCEPT ![p] = Absent]
              \/ temp' = [temp EXCEPT ![p] = target]
              \/ target' = target /\ temp' = [temp EXCEPT ![p] = Absent]
            BY <2>4 DEF Swap, Exchange, RaiseError
        <3>3. \A q \in Publishers : temp[q] = e => q # p /\ temp'[q] = e
            BY <2>1, <3>1, <3>2
        <3>4. target = e => temp'[p] = e \/ target' = e
            BY <2>1, <3>2
        <3>. QED BY <3>1, <3>3, <3>4 DEF Survives
    <2>5. ASSUME NEW p \in Publishers, Compare(p) \/ Guards3(p) PROVE FALSE
        <3>1. target' = target /\ temp' = temp /\ superseded \subseteq superseded'
            BY <2>5 DEF Compare, Guards3, CheckGuards, files
        <3>. QED BY <3>1 DEF Survives
    <2>6. ASSUME NEW p \in Publishers, Unlink(p) PROVE RollbackDestroys(p, e)
        <3>1. target' = Absent /\ temp' = temp /\ superseded' = superseded
            BY <2>6 DEF Unlink
        <3>. QED BY <2>6, <3>1 DEF Survives, RollbackDestroys
    <2>7. ASSUME NEW p \in Publishers, Restore(p) PROVE RollbackDestroys(p, e)
        <3>1. CASE pc[p] = "settle"
            <4>1. /\ target' = target /\ superseded' = superseded
                  /\ \/ temp' = temp
                     \/ temp[p] = p /\ temp' = [temp EXCEPT ![p] = Absent]
                BY <2>7, <3>1 DEF Restore, RaiseError, files
            <4>2. temp' # temp
                BY <4>1 DEF Survives
            <4>3. temp[p] = e
                BY <4>1, <4>2, DropLoses
            <4>. QED BY <2>1, <4>1, <4>2, <4>3
        <3>2. CASE pc[p] = "restore"
            <4>1. CASE target = Absent
                <5>1. /\ target' = target /\ superseded' = superseded
                      /\ temp' = [temp EXCEPT ![p] = Absent]
                    BY <2>7, <3>2, <4>1 DEF Restore, Exchange, RaiseError
                <5>2. temp[p] = e
                    BY <5>1, DropLoses
                <5>. QED BY <2>7, <3>2, <4>1, <5>2 DEF RollbackDestroys
            <4>2. CASE target # Absent
                <5>1. /\ target' = temp[p] /\ superseded' = superseded
                      /\ temp' = [temp EXCEPT ![p] = target]
                    BY <2>7, <3>2, <4>2 DEF Restore, Exchange, RaiseError
                <5>. QED BY <5>1 DEF Survives
            <4>. QED BY <4>1, <4>2
        <3>3. CASE pc[p] = "undo"
            <4>1. CASE target = Absent
                <5>1. /\ target' = target /\ superseded' = superseded
                      /\ temp' = [temp EXCEPT ![p] = Absent]
                    BY <2>7, <3>3, <4>1 DEF Restore, Exchange, RaiseError
                <5>2. temp[p] = e
                    BY <5>1, DropLoses
                <5>. QED BY <2>7, <3>3, <4>1, <5>2 DEF RollbackDestroys
            <4>2. CASE target # Absent
                <5>1. /\ target' = temp[p] /\ superseded' = superseded
                      /\ temp' = [temp EXCEPT ![p] = Absent]
                    BY <2>7, <3>3, <4>2 DEF Restore, Exchange, RaiseError
                <5>2. target = e
                    BY <5>1 DEF Survives
                <5>. QED BY <2>7, <3>3, <5>2 DEF RollbackDestroys
            <4>. QED BY <4>1, <4>2
        <3>. QED BY <2>7, <3>1, <3>2, <3>3 DEF Restore
    <2>8. ASSUME NEW p \in Publishers, Final(p) PROVE FALSE
        <3>1. /\ target' = target /\ superseded' = superseded
              /\ temp' = [temp EXCEPT ![p] = Absent] /\ pc[p] = "final"
            BY <2>8 DEF Final, RaiseError
        <3>2. temp[p] = Absent \/ temp[p] \in superseded
            BY <3>1 DEF StageInv, TakenInv
        <3>3. temp[p] = e
            BY <3>1, DropLoses
        <3>. QED BY <2>1, <3>1, <3>2, <3>3 DEF Survives
    <2>9. ASSUME NEW p \in Publishers, Crash(p) PROVE FALSE
        BY <2>9 DEF Crash, files, Survives
    <2>10. CASE Edit \/ Delete \/ FlipGuard
        <3>1. /\ temp' = temp /\ superseded \subseteq superseded'
              /\ target' = target \/ target = Absent \/ target \in superseded'
            BY <2>10 DEF Edit, Delete, FlipGuard, files
        <3>. QED BY <2>1, <3>1 DEF Survives
    <2>. QED BY <2>2, <2>3, <2>4, <2>5, <2>6, <2>7, <2>8, <2>9, <2>10
             DEF Next, Publish
<1>3. IInv /\ TakenInv /\ [Next]_vars =>
        [\A e \in 1..edits : Survives(e) /\ ~Survives(e)' =>
            \E p \in Publishers : RollbackDestroys(p, e)]_vars
    BY <1>2
<1>4. IInv /\ TakenInv /\ [Next]_vars => TakenInv'
    BY TakenStays
<1>. QED BY <1>1, <1>3, <1>4, Inductive, PTL DEF Spec, LossesAreRollbacks
=============================================================================
