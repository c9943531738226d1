------------------------ MODULE DocumentSessionProofs ------------------------
(***************************************************************************)
(* Type correctness of DocumentSession, for every set of edits, of external*)
(* writes and of structure mutations and for every bound.                  *)
(* Edits save or fail loudly, and flush() keeps its promise: for every set *)
(* of edits, of external writes and of structure mutations without the     *)
(* teardown of the vault, and for every number of failures.  Losses are    *)
(* announced, live sessions are watched and moves leave no copy: for every *)
(* set of mutations, the teardown included.  An acknowledged edit is       *)
(* accounted for, wherever the connection is lost (module SaveAck).        *)
(***************************************************************************)
EXTENDS SaveAck, TLAPS

------------------------------------------------------------------------------
(* Texts, and the values of the operators the actions are built from.      *)

\* Texts are closed under what the actions do to them.
LEMMA TextClosed ==
    /\ {} \in Text
    /\ \A e \in Edit : {e} \in Text
    /\ \A x \in Ext : {x} \in Text
    /\ \A s, t \in Text : s \cup t \in Text /\ s \ t \in Text
BY DEF Text, Token

\* The idle records of the three coroutines are of their types.
LEMMA IdleTypes == LoopIdle \in LoopType /\ CheckIdle \in CheckType /\ NoOp \in OpType
BY TextClosed DEF LoopIdle, LoopType, CheckIdle, CheckType, NoOp, OpType, Path

\* materialize() begins with a record of the loop's type.
LEMMA BeginType ==
    ASSUME NEW failure \in BOOLEAN, NEW t \in Text, NEW p \in Path,
           NEW transition \in BOOLEAN
    PROVE  BeginMaterialize(failure, t, p, transition) \in LoopType
BY TextClosed DEF BeginMaterialize, LoopType

\* Whether a path transition is pending.
LEMMA PendingType == TransitionPending \in BOOLEAN
BY DEF TransitionPending

\* Every flush() call is in a legal state after the persist promise settled.
LEMMA SettledType ==
    ASSUME TypeOK, NEW failure \in BOOLEAN, NEW stillFailed \in BOOLEAN
    PROVE  Settled(failure, stillFailed) \in FlushType
BY DEF TypeOK, Settled, FlushType, Waiting

\* The end of an iteration of persistLoop.
LEMMA IterationEndsType ==
    ASSUME TypeOK, NEW failure \in BOOLEAN, NEW stillFailed \in BOOLEAN,
           NEW gone \in BOOLEAN, NEW t \in Text, NEW p \in Path,
           NEW transition \in BOOLEAN,
           IterationEnds(failure, stillFailed, gone, t, p, transition)
    PROVE  loop' \in LoopType /\ persistRequested' \in BOOLEAN /\ flush' \in FlushType
<1> DEFINE settled == Settled(failure, stillFailed /\ Runs(gone, transition))
<1>1. settled \in FlushType
  <2>1. (stillFailed /\ Runs(gone, transition)) \in BOOLEAN
    BY DEF Runs
  <2> QED
    BY <2>1, SettledType
<1>2. BeginMaterialize(failure, t, p, transition) \in LoopType
      /\ BeginMaterialize(FALSE, t, p, transition) \in LoopType
  BY BeginType
<1> QED
  BY <1>1, <1>2, IdleTypes DEF IterationEnds, TypeOK

\* A call of flush().
LEMMA CallFlushType ==
    ASSUME TypeOK, NEW w \in Waiter, NEW t \in Text, CallFlush(w, t)
    PROVE  /\ loop' \in LoopType /\ flush' \in FlushType
           /\ persistRequested' \in BOOLEAN /\ persistFailed' \in BOOLEAN
<1>1. BeginMaterialize(FALSE, t, path, TransitionPending) \in LoopType
  BY PendingType, BeginType DEF TypeOK
<1> QED
  BY <1>1 DEF CallFlush, TypeOK, FlushType

\* The state of a structure mutation after its flush().
LEMMA AfterFlushType ==
    ASSUME NEW k \in OpKind \cup {"none"}, NEW r \in {"none", "first", "retry", "ok", "failed"},
           NEW gone \in BOOLEAN
    PROVE  AfterFlush(k, r, gone) \in OpType
BY TextClosed, IdleTypes DEF AfterFlush, OpType, NoOp, OpKind

\* A structure mutation that resumes, or does not.
LEMMA OpResumesType ==
    ASSUME TypeOK, flush' \in FlushType, NEW gone \in BOOLEAN, NEW watch \in BOOLEAN,
           OpResumes(gone, watch)
    PROVE  op' \in OpType /\ subscribed' \in BOOLEAN /\ watching' \in BOOLEAN
<1>1. flush'["op"] \in {"none", "first", "retry", "ok", "failed"}
  BY DEF FlushType, Waiter
<1>2. CASE op.pc = "flush" /\ flush'["op"] \in {"ok", "failed"}
  <2>1. op' \in OpType
    <3>1. op.kind \in OpKind \cup {"none"}
      BY DEF TypeOK, OpType
    <3> QED
      BY <1>1, <1>2, <3>1, AfterFlushType DEF OpResumes
  <2>2. subscribed' \in BOOLEAN /\ watching' \in BOOLEAN
    BY <1>2 DEF OpResumes, AfterFlushWatch, TypeOK
  <2> QED
    BY <2>1, <2>2
<1>3. CASE ~(op.pc = "flush" /\ flush'["op"] \in {"ok", "failed"})
  BY <1>3 DEF OpResumes, TypeOK
<1> QED
  BY <1>2, <1>3

\* The flush() call of a structure mutation.
LEMMA OpFlushType ==
    ASSUME TypeOK, NEW k \in OpKind \cup {"none"}, NEW watch \in BOOLEAN, OpFlush(k, watch)
    PROVE  /\ loop' \in LoopType /\ flush' \in FlushType /\ op' \in OpType
           /\ persistRequested' \in BOOLEAN /\ persistFailed' \in BOOLEAN
           /\ subscribed' \in BOOLEAN /\ watching' \in BOOLEAN
<1>1. "op" \in Waiter /\ text \in Text
  BY DEF Waiter, TypeOK
<1>2. /\ loop' \in LoopType /\ flush' \in FlushType
      /\ persistRequested' \in BOOLEAN /\ persistFailed' \in BOOLEAN
  BY <1>1, CallFlushType DEF OpFlush
<1>3. flush'["op"] \in {"none", "first", "retry", "ok", "failed"}
  BY <1>1, <1>2 DEF FlushType
<1>4. op' \in OpType
  BY <1>3, AfterFlushType DEF OpFlush
<1>5. subscribed' \in BOOLEAN /\ watching' \in BOOLEAN
  BY DEF OpFlush, AfterFlushWatch, TypeOK
<1> QED
  BY <1>2, <1>4, <1>5

\* What a step emits and what the history of losses becomes.
LEMMA EmitType ==
    ASSUME TypeOK, NEW events \in SUBSET EventKind, Emit(events)
    PROVE  emitted' \in SUBSET EventKind /\ unannounced' \in Text
BY TextClosed DEF TypeOK, Emit

\* The same of a step that emits nothing.
LEMMA QuietType ==
    ASSUME TypeOK, Quiet
    PROVE  emitted' \in SUBSET EventKind /\ unannounced' \in Text
BY DEF TypeOK, Quiet

\* A failure is counted.
LEMMA FailsType ==
    ASSUME TypeOK, NEW max \in Nat, NEW kind \in {"write", "snap"}, Fails(kind, max)
    PROVE  used' \in UsedType
BY DEF TypeOK, UsedType, Fails

\* A write, or a removal, at a path.
LEMMA WriteDiskType ==
    ASSUME TypeOK, NEW p \in Path, NEW c \in {Missing} \cup Text, WriteDisk(p, c)
    PROVE  disk' \in [Path -> {Missing} \cup Text] /\ durable' \in Text
BY TextClosed DEF TypeOK, WriteDisk

\* The document takes the content of the file.
LEMMA TakeContentType ==
    ASSUME TypeOK, NEW c \in Text, TakeContent(c)
    PROVE  /\ text' \in Text /\ lastWritten' \in {None} \cup Text
           /\ discarded' \in Text /\ unannounced' \in Text
           /\ emitted' \in SUBSET EventKind
           /\ ReconcileEvent(c) \in ReconcileKind \cup {"none"}
BY TextClosed DEF TypeOK, TakeContent, ReconcileEvent, ReconcileKind

\* The session is marked deleted.
LEMMA MarkDeletedType ==
    ASSUME TypeOK, MarkDeleted
    PROVE  /\ deleted' \in BOOLEAN /\ discarded' \in Text
           /\ emitted' \in SUBSET EventKind /\ unannounced' \in Text
BY TextClosed, EmitType, QuietType DEF TypeOK, MarkDeleted, EventKind

\* A path transition that settles well.
LEMMA TransitionSucceedsType ==
    ASSUME TypeOK, NEW gone \in BOOLEAN, NEW p \in Path, TransitionSucceeds(gone, p)
    PROVE  /\ loop' \in LoopType /\ flush' \in FlushType
           /\ persistRequested' \in BOOLEAN /\ persistFailed' \in BOOLEAN
<1>1. CASE loop.pc # "transition"
  BY <1>1 DEF TransitionSucceeds, persistVars, TypeOK
<1>2. CASE loop.pc = "transition" /\ gone
  <2>1. IterationEnds(loop.failure, persistFailed, TRUE, text, p, FALSE)
    BY <1>2 DEF TransitionSucceeds
  <2>2. loop.failure \in BOOLEAN /\ persistFailed \in BOOLEAN /\ text \in Text
    BY DEF TypeOK, LoopType
  <2>3. loop' \in LoopType /\ flush' \in FlushType /\ persistRequested' \in BOOLEAN
    BY <2>1, <2>2, IterationEndsType
  <2> QED
    BY <1>2, <2>2, <2>3 DEF TransitionSucceeds
<1>3. CASE loop.pc = "transition" /\ ~gone
  <2>1. loop.failure \in BOOLEAN /\ text \in Text
    BY DEF TypeOK, LoopType
  <2>2. BeginMaterialize(loop.failure, text, p, FALSE) \in LoopType
    BY <2>1, BeginType
  <2> QED
    BY <1>3, <2>2 DEF TransitionSucceeds, TypeOK
<1> QED
  BY <1>1, <1>2, <1>3

\* The same of one that settles badly.
LEMMA TransitionFailsType ==
    ASSUME TypeOK, TransitionFails
    PROVE  /\ loop' \in LoopType /\ flush' \in FlushType
           /\ persistRequested' \in BOOLEAN /\ persistFailed' \in BOOLEAN
           /\ emitted' \in SUBSET EventKind /\ unannounced' \in Text
<1>1. CASE loop.pc # "transition"
  BY <1>1, QuietType DEF TransitionFails, persistVars, TypeOK
<1>2. CASE loop.pc = "transition"
  <2>1. IterationEnds(TRUE, TRUE, deleted, text, path, FALSE)
    BY <1>2 DEF TransitionFails
  <2>2. deleted \in BOOLEAN /\ path \in Path /\ text \in Text
    BY DEF TypeOK
  <2>3. loop' \in LoopType /\ flush' \in FlushType /\ persistRequested' \in BOOLEAN
    BY <2>1, <2>2, IterationEndsType
  <2>4. emitted' \in SUBSET EventKind /\ unannounced' \in Text
    BY <1>2, EmitType DEF TransitionFails, EventKind
  <2> QED
    BY <1>2, <2>3, <2>4 DEF TransitionFails
<1> QED
  BY <1>1, <1>2

------------------------------------------------------------------------------
(* Type correctness. *)

\* A coroutine that resumes from a read of the file has its result, which may
\* be that there is no file.
Latched ==
    /\ loop.pc = "got" => loop.disk # None
    /\ check.pc = "got" => check.disk # None

\* Every step of the session keeps every variable in its type.
LEMMA TypeStep == TypeOK /\ Latched /\ [Next]_vars => TypeOK'
<1> SUFFICES ASSUME TypeOK, Latched, [Next]_vars PROVE TypeOK'
  OBVIOUS
<1> USE DEF fileVars, openVars, docVars, persistVars
<1>1. CASE OpenSession
  BY <1>1, QuietType DEF OpenSession, TypeOK
<1>2. CASE LoadFile
  BY <1>2, QuietType DEF LoadFile, TypeOK
<1>3. CASE LoadMissing
  BY <1>3, QuietType DEF LoadMissing, TypeOK
<1>4. CASE CreateMissing
  BY <1>4, QuietType, TextClosed, WriteDiskType DEF CreateMissing, TypeOK
<1>5. CASE LoadSnapshot
  BY <1>5, QuietType, ConstantsAssumption, FailsType DEF LoadSnapshot, TypeOK
<1>6. CASE \E e \in Edit : ApplyEdit(e)
  <2> PICK e \in Edit : ApplyEdit(e)
    BY <1>6
  <2>1. text' \in Text
    BY TextClosed DEF ApplyEdit, TypeOK
  <2>2. loop' \in LoopType /\ flush' \in FlushType
        /\ persistRequested' \in BOOLEAN /\ persistFailed' \in BOOLEAN
    <3>1. CASE subscribed
      <4>1. BeginMaterialize(FALSE, text', path, TransitionPending) \in LoopType
        BY <2>1, BeginType, PendingType DEF TypeOK
      <4> QED
        BY <3>1, <4>1 DEF ApplyEdit, RequestPersist, TypeOK, FlushType
    <3>2. CASE ~subscribed
      BY <2>1, <3>2, CallFlushType DEF ApplyEdit, Waiter
    <3> QED
      BY <3>1, <3>2
  <2> QED
    BY <2>1, <2>2, QuietType DEF ApplyEdit, TypeOK
<1>7. CASE FlushDirty
  <2>1. "svc" \in Waiter /\ text \in Text
    BY DEF Waiter, TypeOK
  <2> QED
    BY <1>7, <2>1, CallFlushType, QuietType DEF FlushDirty, TypeOK
<1>8. CASE Detach
  <2>1. "svc" \in Waiter /\ text \in Text
    BY DEF Waiter, TypeOK
  <2> QED
    BY <1>8, <2>1, CallFlushType, QuietType DEF Detach, TypeOK
<1>9. CASE \E x \in Ext : ExternalWrite(x)
  <2> PICK x \in Ext : ExternalWrite(x)
    BY <1>9
  <2>1. \A c \in {{x}, {}, Missing} \cup
                  (IF disk[path] = Missing THEN {} ELSE {disk[path] \cup {x}}) :
           c \in {Missing} \cup Text
    <3>1. disk[path] \in {Missing} \cup Text /\ {x} \in Text
      BY TextClosed DEF TypeOK
    <3>2. disk[path] # Missing => disk[path] \cup {x} \in Text
      BY <3>1, TextClosed
    <3> QED
      BY <3>1, <3>2, TextClosed
  <2>2. disk' \in [Path -> {Missing} \cup Text] /\ durable' \in Text
    BY <2>1, WriteDiskType DEF ExternalWrite, TypeOK
  <2>3. used' \in UsedType
    BY DEF ExternalWrite, TypeOK, UsedType
  <2> QED
    BY <2>2, <2>3, QuietType DEF ExternalWrite, TypeOK
<1>10. CASE LoopReadDisk
  <2>1. disk[loop.path] \in {Missing, None} \cup Text
    BY DEF TypeOK, LoopType
  <2>2. loop' \in LoopType
    BY <1>10, <2>1 DEF LoopReadDisk, TypeOK, LoopType
  <2> QED
    BY <1>10, <2>2, QuietType DEF LoopReadDisk, TypeOK
<1>11. CASE LoopStartsWrite
  <2>1. loop' \in LoopType /\ pendingWrite' \in {None} \cup Text
    BY <1>11 DEF LoopStartsWrite, TypeOK, LoopType
  <2> QED
    BY <1>11, <2>1, QuietType DEF LoopStartsWrite, TypeOK
<1>12. CASE LoopReconciles
  <2>1. loop.disk \in Text
    BY <1>12 DEF LoopReconciles, TypeOK, LoopType, Latched
  <2>2. loop' \in LoopType
    BY <1>12, <2>1, TakeContentType DEF LoopReconciles, TypeOK, LoopType
  <2> QED
    BY <1>12, <2>1, <2>2, TakeContentType DEF LoopReconciles, TypeOK
<1>13. CASE LoopFindsMissing
  <2>1. loop.failure \in BOOLEAN /\ persistFailed \in BOOLEAN /\ deleted \in BOOLEAN
        /\ text \in Text /\ path \in Path /\ watching \in BOOLEAN
    BY DEF TypeOK, LoopType
  <2>2. loop' \in LoopType /\ persistRequested' \in BOOLEAN /\ flush' \in FlushType
    BY <1>13, <2>1, PendingType, IterationEndsType, ZenonT(40) DEF LoopFindsMissing
  <2>3. op' \in OpType /\ subscribed' \in BOOLEAN /\ watching' \in BOOLEAN
    BY <1>13, <2>1, <2>2, OpResumesType DEF LoopFindsMissing
  <2>4. deleted' \in BOOLEAN /\ discarded' \in Text
        /\ emitted' \in SUBSET EventKind /\ unannounced' \in Text
    BY <1>13, MarkDeletedType DEF LoopFindsMissing
  <2> QED
    BY <1>13, <2>2, <2>3, <2>4 DEF LoopFindsMissing, TypeOK
<1>14. CASE LoopRenames
  <2>1. loop.path \in Path /\ loop.content \in {Missing} \cup Text
    BY DEF TypeOK, LoopType
  <2>2. loop' \in LoopType
    BY <1>14 DEF LoopRenames, TypeOK, LoopType
  <2> QED
    BY <1>14, <2>1, <2>2, WriteDiskType, QuietType DEF LoopRenames, TypeOK
<1>15. CASE LoopPersisted
  <2>1. loop.failure \in BOOLEAN /\ persistFailed \in BOOLEAN /\ deleted \in BOOLEAN
        /\ text \in Text /\ path \in Path /\ watching \in BOOLEAN
    BY DEF TypeOK, LoopType
  <2>2. loop' \in LoopType /\ persistRequested' \in BOOLEAN /\ flush' \in FlushType
    BY <1>15, <2>1, PendingType, IterationEndsType, ZenonT(40) DEF LoopPersisted
  <2>3. op' \in OpType /\ subscribed' \in BOOLEAN /\ watching' \in BOOLEAN
    BY <1>15, <2>1, <2>2, OpResumesType DEF LoopPersisted
  <2>4. /\ emitted' \in SUBSET EventKind /\ unannounced' \in Text
        /\ lastWritten' \in {None} \cup Text /\ pendingWrite' \in {None} \cup Text
    BY <1>15, EmitType DEF LoopPersisted, EventKind, TypeOK, LoopType
  <2> QED
    BY <1>15, <2>2, <2>3, <2>4 DEF LoopPersisted, TypeOK
<1>16. CASE LoopReconciled
  <2>1. loop.failure \in BOOLEAN /\ persistFailed \in BOOLEAN /\ deleted \in BOOLEAN
        /\ text \in Text /\ path \in Path /\ watching \in BOOLEAN
    BY DEF TypeOK, LoopType
  <2>2. loop' \in LoopType /\ persistRequested' \in BOOLEAN /\ flush' \in FlushType
    BY <1>16, <2>1, PendingType, IterationEndsType DEF LoopReconciled
  <2>3. op' \in OpType /\ subscribed' \in BOOLEAN /\ watching' \in BOOLEAN
    BY <1>16, <2>1, <2>2, OpResumesType DEF LoopReconciled
  <2>4. emitted' \in SUBSET EventKind /\ unannounced' \in Text
    <3>1. {loop.event} \ {"none"} \in SUBSET EventKind
      BY DEF TypeOK, LoopType, EventKind, ReconcileKind
    <3> QED
      BY <1>16, <3>1, EmitType DEF LoopReconciled
  <2> QED
    BY <1>16, <2>2, <2>3, <2>4 DEF LoopReconciled, TypeOK
<1>17. CASE LoopFails
  <2>1. loop.failure \in BOOLEAN /\ persistFailed \in BOOLEAN /\ deleted \in BOOLEAN
        /\ text \in Text /\ path \in Path /\ watching \in BOOLEAN
    BY DEF TypeOK, LoopType
  <2>2. loop' \in LoopType /\ persistRequested' \in BOOLEAN /\ flush' \in FlushType
    BY <1>17, <2>1, PendingType, IterationEndsType DEF LoopFails
  <2>3. op' \in OpType /\ subscribed' \in BOOLEAN /\ watching' \in BOOLEAN
    BY <1>17, <2>1, <2>2, OpResumesType DEF LoopFails
  <2>4. /\ emitted' \in SUBSET EventKind /\ unannounced' \in Text
        /\ pendingWrite' \in {None} \cup Text /\ used' \in UsedType
    <3>1. used' \in UsedType
      BY <1>17, ConstantsAssumption, FailsType DEF LoopFails
    <3> QED
      BY <1>17, <3>1, EmitType DEF LoopFails, EventKind, TypeOK
  <2> QED
    BY <1>17, <2>2, <2>3, <2>4 DEF LoopFails, TypeOK
<1>18. CASE StartCheck
  <2>1. check' \in CheckType
    BY <1>18, IdleTypes DEF StartCheck, CheckType
  <2> QED
    BY <1>18, <2>1, QuietType DEF StartCheck, TypeOK
<1>19. CASE CheckReadDisk
  <2>1. disk[path] \in {Missing, None} \cup Text
    BY DEF TypeOK
  <2>2. check' \in CheckType
    BY <1>19, <2>1 DEF CheckReadDisk, TypeOK, CheckType
  <2> QED
    BY <1>19, <2>2, QuietType DEF CheckReadDisk, TypeOK
<1>20. CASE CheckIgnores
  BY <1>20, IdleTypes, QuietType DEF CheckIgnores, TypeOK
<1>21. CASE CheckFindsMissing
  BY <1>21, IdleTypes, MarkDeletedType DEF CheckFindsMissing, TypeOK
<1>22. CASE CheckReconciles
  <2>1. check.disk \in Text
    BY <1>22 DEF CheckReconciles, TypeOK, CheckType, Latched
  <2>2. check' \in CheckType
    BY <1>22, <2>1, TakeContentType DEF CheckReconciles, TypeOK, CheckType
  <2> QED
    BY <1>22, <2>1, <2>2, TakeContentType DEF CheckReconciles, TypeOK
<1>23. CASE CheckReconciled
  <2>1. {check.event} \ {"none"} \in SUBSET EventKind
    BY DEF TypeOK, CheckType, EventKind, ReconcileKind
  <2> QED
    BY <1>23, <2>1, IdleTypes, EmitType DEF CheckReconciled, TypeOK
<1>24. CASE CheckFails
  <2>1. used' \in UsedType
    BY <1>24, ConstantsAssumption, FailsType DEF CheckFails
  <2> QED
    BY <1>24, <2>1, IdleTypes, QuietType, ZenonT(40) DEF CheckFails, TypeOK
<1>25. CASE \E k \in Ops : StartOp(k)
  <2> PICK k \in Ops : StartOp(k)
    BY <1>25
  <2>1. k \in OpKind /\ "op" \in Waiter /\ text \in Text /\ watching \in BOOLEAN
    BY ConstantsAssumption DEF Waiter, TypeOK
  <2>2. used' \in UsedType
    BY DEF StartOp, TypeOK, UsedType
  <2>3. CASE ~IsClose(k) /\ check.pc # "idle"
    <3>1. op' \in OpType
      BY <2>1, <2>3, TextClosed DEF StartOp, OpType
    <3> QED
      BY <2>2, <2>3, <3>1, QuietType DEF StartOp, TypeOK
  <2>4. CASE ~(~IsClose(k) /\ check.pc # "idle")
    <3>1. OpFlush(k, IsClose(k) /\ watching)
      BY <2>4 DEF StartOp
    <3>2. (IsClose(k) /\ watching) \in BOOLEAN
      BY DEF IsClose
    <3>3. /\ loop' \in LoopType /\ flush' \in FlushType /\ op' \in OpType
          /\ persistRequested' \in BOOLEAN /\ persistFailed' \in BOOLEAN
          /\ subscribed' \in BOOLEAN /\ watching' \in BOOLEAN
      BY <2>1, <3>1, <3>2, OpFlushType
    <3> QED
      BY <2>2, <3>3, QuietType DEF StartOp, TypeOK
  <2> QED
    BY <2>3, <2>4
<1>26. CASE OpAfterCheck
  <2>1. CASE deleted
    BY <1>26, <2>1, IdleTypes, QuietType DEF OpAfterCheck, TypeOK
  <2>2. CASE ~deleted
    <3>1. op.kind \in OpKind \cup {"none"} /\ watching \in BOOLEAN
      BY DEF TypeOK, OpType
    <3>2. /\ loop' \in LoopType /\ flush' \in FlushType /\ op' \in OpType
          /\ persistRequested' \in BOOLEAN /\ persistFailed' \in BOOLEAN
          /\ subscribed' \in BOOLEAN /\ watching' \in BOOLEAN
      BY <1>26, <2>2, <3>1, OpFlushType DEF OpAfterCheck
    <3> QED
      BY <1>26, <3>2, QuietType DEF OpAfterCheck, TypeOK
  <2> QED
    BY <2>1, <2>2
<1>27. CASE SubtreePrepared
  <2>1. op' \in OpType
    BY <1>27, IdleTypes DEF SubtreePrepared, TypeOK, OpType
  <2> QED
    BY <1>27, <2>1, QuietType DEF SubtreePrepared, TypeOK
<1>28. CASE OpMovesDisk
  <2>1. Other(path) \in Path /\ path \in Path
    BY DEF TypeOK, Other, Path
  <2>2. disk' \in [Path -> {Missing} \cup Text]
    BY <1>28, <2>1 DEF OpMovesDisk, TypeOK
  <2>3. CASE deleted
    BY <1>28, <2>2, <2>3, IdleTypes, TransitionFailsType DEF OpMovesDisk, TypeOK
  <2>4. CASE ~deleted
    <3>1. op' \in OpType
      BY <1>28, <2>4 DEF OpMovesDisk, TypeOK, OpType
    <3> QED
      BY <1>28, <2>1, <2>2, <2>4, <3>1, QuietType DEF OpMovesDisk, TypeOK
  <2> QED
    BY <2>3, <2>4
<1>29. CASE OpWritesMoved
  <2>1. op.text \in {Missing} \cup Text /\ op' \in OpType
    BY <1>29 DEF OpWritesMoved, TypeOK, OpType
  <2> QED
    BY <1>29, <2>1, WriteDiskType, QuietType DEF OpWritesMoved, TypeOK
<1>30. CASE OpMoved
  <2>1. lastWritten' \in {None} \cup Text
    BY <1>30 DEF OpMoved, TypeOK, OpType
  <2>2. emitted' \in SUBSET EventKind /\ unannounced' \in Text
    BY <1>30, EmitType DEF OpMoved, EventKind
  <2>3. /\ loop' \in LoopType /\ flush' \in FlushType
        /\ persistRequested' \in BOOLEAN /\ persistFailed' \in BOOLEAN
    BY <1>30, TransitionSucceedsType DEF OpMoved, TypeOK
  <2> QED
    BY <1>30, <2>1, <2>2, <2>3, IdleTypes DEF OpMoved, TypeOK
<1>31. CASE OpDeletesDisk
  <2>1. op' \in OpType
    BY <1>31 DEF OpDeletesDisk, TypeOK, OpType
  <2> QED
    BY <1>31, <2>1, WriteDiskType, QuietType DEF OpDeletesDisk, TypeOK
<1>32. CASE OpDeleted
  <2>1. /\ loop' \in LoopType /\ flush' \in FlushType
        /\ persistRequested' \in BOOLEAN /\ persistFailed' \in BOOLEAN
    BY <1>32, TransitionSucceedsType DEF OpDeleted, TypeOK
  <2> QED
    BY <1>32, <2>1, IdleTypes, MarkDeletedType DEF OpDeleted, TypeOK
<1>33. CASE OpFails
  <2>1. used' \in UsedType
    BY <1>33, ConstantsAssumption, FailsType DEF OpFails, TypeOK
  <2>2. watching' \in BOOLEAN
    BY <1>33 DEF OpFails, TypeOK
  <2> QED
    BY <1>33, <2>1, <2>2, IdleTypes, TransitionFailsType DEF OpFails, TypeOK
<1>34. CASE ResumeAfterCloseFailure
  BY <1>34, IdleTypes, QuietType DEF ResumeAfterCloseFailure, TypeOK
<1>35. CASE SubtreeAbandoned
  <2>1. used' \in UsedType
    BY <1>35, ConstantsAssumption, FailsType DEF SubtreeAbandoned
  <2> QED
    BY <1>35, <2>1, IdleTypes, QuietType DEF SubtreeAbandoned, TypeOK
<1>36. CASE UNCHANGED vars
  BY <1>36 DEF vars, TypeOK
<1> QED
  BY <1>1, <1>2, <1>3, <1>4, <1>5, <1>6, <1>7, <1>8, <1>9, <1>10, <1>11, <1>12,
     <1>13, <1>14, <1>15, <1>16, <1>17, <1>18, <1>19, <1>20, <1>21, <1>22, <1>23,
     <1>24, <1>25, <1>26, <1>27, <1>28, <1>29, <1>30, <1>31, <1>32, <1>33, <1>34,
     <1>35, <1>36 DEF Next, OpenStep, LoopStep, CheckStep, OpStep, Environment

\* Where the loop stands when materialize() begins.
LEMMA BeginPc ==
    ASSUME NEW f \in BOOLEAN, NEW t \in Text, NEW p \in Path, NEW transition \in BOOLEAN
    PROVE  BeginMaterialize(f, t, p, transition).pc \in {"transition", "read"}
BY DEF BeginMaterialize

\* The end of an iteration.
LEMMA IterationEndsPc ==
    ASSUME NEW failure \in BOOLEAN, NEW stillFailed \in BOOLEAN, NEW gone \in BOOLEAN,
           NEW t \in Text, NEW p \in Path, NEW transition \in BOOLEAN,
           IterationEnds(failure, stillFailed, gone, t, p, transition)
    PROVE  loop'.pc \in {"idle", "transition", "read"}
<1>1. \/ loop' = LoopIdle
      \/ loop' = BeginMaterialize(failure, t, p, transition)
      \/ loop' = BeginMaterialize(FALSE, t, p, transition)
  BY DEF IterationEnds
<1> QED
  BY <1>1 DEF LoopIdle, BeginMaterialize

\* A call of flush().
LEMMA CallFlushPc ==
    ASSUME TypeOK, NEW w \in Waiter, NEW t \in Text, CallFlush(w, t)
    PROVE  loop' = loop \/ loop'.pc \in {"transition", "read"}
<1>1. path \in Path
  BY DEF TypeOK
<1>2. loop' = loop \/ loop' = BeginMaterialize(FALSE, t, path, TransitionPending)
  BY DEF CallFlush
<1> QED
  BY <1>1, <1>2, BeginPc, PendingType

\* A settled path transition.
LEMMA TransitionPc ==
    ASSUME TypeOK, NEW gone \in BOOLEAN, NEW p \in Path,
           TransitionSucceeds(gone, p) \/ TransitionFails
    PROVE  loop' = loop \/ loop'.pc \in {"idle", "transition", "read"}
<1>1. /\ loop.failure \in BOOLEAN /\ persistFailed \in BOOLEAN /\ deleted \in BOOLEAN
      /\ text \in Text /\ path \in Path
  BY DEF TypeOK, LoopType
<1>2. CASE TransitionSucceeds(gone, p)
  <2>1. \/ loop' = loop
        \/ IterationEnds(loop.failure, persistFailed, TRUE, text, p, FALSE)
        \/ loop' = BeginMaterialize(loop.failure, text, p, FALSE)
    BY <1>2 DEF TransitionSucceeds, persistVars
  <2>2. BeginMaterialize(loop.failure, text, p, FALSE).pc = "read"
    BY DEF BeginMaterialize
  <2> QED
    BY <1>1, <2>1, <2>2, IterationEndsPc
<1>3. CASE TransitionFails
  BY <1>1, <1>3, IterationEndsPc DEF TransitionFails, persistVars
<1> QED
  BY <1>2, <1>3

\* Every step keeps the results of reads where they are used.
LEMMA LatchedStep == TypeOK /\ Latched /\ [Next]_vars => Latched'
<1> SUFFICES ASSUME TypeOK, Latched, [Next]_vars PROVE Latched'
  OBVIOUS
<1> USE DEF fileVars, openVars, docVars, persistVars
<1>1. CASE OpenStep
  BY <1>1 DEF OpenStep, OpenSession, LoadFile, LoadMissing, CreateMissing,
              LoadSnapshot, Latched
<1>2. CASE \E e \in Edit : ApplyEdit(e)
  <2> PICK e \in Edit : ApplyEdit(e)
    BY <1>2
  <2>1. text' \in Text /\ path \in Path /\ e \in Waiter
    BY TextClosed DEF ApplyEdit, TypeOK, Waiter
  <2>2. BeginMaterialize(FALSE, text', path, TransitionPending).pc \in {"transition", "read"}
    BY <2>1, BeginPc, PendingType
  <2>3. loop' = loop \/ loop'.pc \in {"transition", "read"}
    BY <2>1, <2>2, CallFlushPc DEF ApplyEdit, RequestPersist
  <2> QED
    BY <2>3 DEF ApplyEdit, Latched
<1>3. CASE FlushDirty \/ Detach
  <2>1. "svc" \in Waiter /\ text \in Text
    BY DEF Waiter, TypeOK
  <2>2. loop' = loop \/ loop'.pc \in {"transition", "read"}
    BY <1>3, <2>1, CallFlushPc DEF FlushDirty, Detach
  <2> QED
    BY <1>3, <2>2 DEF FlushDirty, Detach, Latched
<1>4. CASE (\E x \in Ext : ExternalWrite(x)) \/ ResumeAfterCloseFailure
  BY <1>4 DEF ExternalWrite, ResumeAfterCloseFailure, Latched
<1>5. CASE LoopReadDisk
  <2>1. disk[loop.path] # None
    BY ConstantsAssumption DEF TypeOK, LoopType
  <2> QED
    BY <1>5, <2>1 DEF LoopReadDisk, Latched, TypeOK, LoopType
<1>6. CASE LoopStartsWrite \/ LoopReconciles \/ LoopRenames
  BY <1>6 DEF LoopStartsWrite, LoopReconciles, LoopRenames, Latched, TypeOK, LoopType
<1>7. CASE LoopFindsMissing \/ LoopPersisted \/ LoopReconciled \/ LoopFails
  <2>1. loop'.pc \in {"idle", "transition", "read"}
    <3>1. /\ loop.failure \in BOOLEAN /\ persistFailed \in BOOLEAN /\ deleted \in BOOLEAN
          /\ text \in Text /\ path \in Path
      BY DEF TypeOK, LoopType
    <3> QED
      BY <1>7, <3>1, PendingType, IterationEndsPc, ZenonT(40)
         DEF LoopFindsMissing, LoopPersisted, LoopReconciled, LoopFails
  <2> QED
    BY <1>7, <2>1 DEF LoopFindsMissing, LoopPersisted, LoopReconciled, LoopFails, Latched
<1>8. CASE CheckReadDisk
  <2>1. disk[path] # None
    BY ConstantsAssumption DEF TypeOK
  <2> QED
    BY <1>8, <2>1 DEF CheckReadDisk, Latched, TypeOK, CheckType
<1>9. CASE CheckIgnores \/ CheckFindsMissing \/ CheckReconciled \/ CheckFails
  BY <1>9 DEF CheckIgnores, CheckFindsMissing, CheckReconciled, CheckFails,
              CheckIdle, Latched
<1>10. CASE StartCheck \/ CheckReconciles
  BY <1>10 DEF StartCheck, CheckReconciles, CheckIdle, Latched, TypeOK, CheckType
<1>11. CASE \E k \in Ops : StartOp(k)
  <2>1. "op" \in Waiter /\ text \in Text
    BY DEF Waiter, TypeOK
  <2>2. loop' = loop \/ loop'.pc \in {"transition", "read"}
    BY <1>11, <2>1, CallFlushPc DEF StartOp, OpFlush
  <2> QED
    BY <1>11, <2>2 DEF StartOp, OpFlush, Latched
<1>12. CASE OpAfterCheck
  <2>1. "op" \in Waiter /\ text \in Text
    BY DEF Waiter, TypeOK
  <2>2. loop' = loop \/ loop'.pc \in {"transition", "read"}
    BY <1>12, <2>1, CallFlushPc DEF OpAfterCheck, OpFlush
  <2> QED
    BY <1>12, <2>2 DEF OpAfterCheck, OpFlush, Latched
<1>13. CASE SubtreePrepared \/ SubtreeAbandoned \/ OpWritesMoved \/ OpDeletesDisk
  BY <1>13 DEF SubtreePrepared, SubtreeAbandoned, OpWritesMoved, OpDeletesDisk, Latched
<1>14. CASE OpMovesDisk \/ OpMoved \/ OpDeleted \/ OpFails
  <2>1. check' = check
    BY <1>14 DEF OpMovesDisk, OpMoved, OpDeleted, OpFails
  <2>2. loop' = loop \/ loop'.pc \in {"idle", "transition", "read"}
    BY <1>14, TransitionPc DEF OpMovesDisk, OpMoved, OpDeleted, OpFails, TypeOK
  <2> QED
    BY <2>1, <2>2 DEF Latched
<1>15. CASE UNCHANGED vars
  BY <1>15 DEF vars, Latched
<1> QED
  BY <1>1, <1>2, <1>3, <1>4, <1>5, <1>6, <1>7, <1>8, <1>9, <1>10, <1>11, <1>12,
     <1>13, <1>14, <1>15 DEF Next, LoopStep, CheckStep, OpStep, Environment

\* The initial state is of the right types.
LEMMA TypeInit == Init => TypeOK /\ Latched
<1> SUFFICES ASSUME Init PROVE TypeOK /\ Latched
  OBVIOUS
<1>1. disk \in [Path -> {Missing} \cup Text] /\ path \in Path
  BY TextClosed DEF Init, Path
<1>2. flush \in FlushType /\ used \in UsedType
  BY DEF Init, FlushType, UsedType
<1>3. Latched
  BY DEF Init, Latched, LoopIdle, CheckIdle
<1> QED
  BY <1>1, <1>2, <1>3, TextClosed, IdleTypes DEF Init, TypeOK

\* In every behaviour of the session every variable has a value of its type: the
\* loop and the check never take an undefined hash for the content of a file.
THEOREM TypeCorrect == Spec => [](TypeOK /\ Latched)
<1>1. Init => TypeOK /\ Latched
  BY TypeInit
<1>2. TypeOK /\ Latched /\ [Next]_vars => (TypeOK /\ Latched)'
  BY TypeStep, LatchedStep
<1> QED
  BY <1>1, <1>2, PTL DEF Spec

------------------------------------------------------------------------------
(* The inductive invariant. *)

\* Everything in the file, and everything a coroutine has read from it, has
\* been in the file.
FileIsDurable ==
    /\ \A p \in Path : disk[p] # Missing => disk[p] \subseteq durable
    /\ loop.pc = "got" /\ loop.disk # Missing => loop.disk \subseteq durable
    /\ check.pc = "got" /\ check.disk # Missing => check.disk \subseteq durable

\* What the iteration under way brings into the file: nothing if it found
\* content it takes into the document instead.
Coming == IF loop.pc = "rsnap" THEN {} ELSE loop.content

\* The text of the document is in the file, or an iteration that will write it
\* is under way or requested, or the failure is shown.
TextIsCovered ==
    /\ loop.pc = "snap" => loop.content \subseteq durable
    /\ ~deleted /\ ~Busy => text \subseteq durable \/ persistFailed
    /\ ~deleted /\ Busy => \/ persistRequested \/ loop.pc = "transition"
                           \/ text \subseteq durable \cup Coming

\* The document loses an edit only to a reconcile or to the removal of its file.
EditsAreKept ==
    /\ \A e \in Edit : flush[e] # "none" => e \in text \cup discarded
    /\ deleted => text \subseteq durable \cup discarded

\* A session a client can still edit is subscribed to its document.
BoundIsSubscribed ==
    /\ phase = "open" /\ attached => subscribed
    /\ op.kind = "idleClose" => ~attached
    /\ op.kind # "teardown"

\* Nobody edits a session that is not open.
NoEditBeforeOpen == phase # "open" => \A e \in Edit : flush[e] = "none"

Covered == TextIsCovered /\ EditsAreKept /\ FlushedIsAccountedFor

SaveInv == FileIsDurable /\ Covered /\ BoundIsSubscribed /\ NoEditBeforeOpen

------------------------------------------------------------------------------
(* Clients are bound only to sessions that save their edits. *)

\* A structure mutation stays what it is, or ends.
LEMMA AfterFlushKind ==
    ASSUME NEW k \in OpKind \cup {"none"}, k # "teardown",
           NEW r \in {"none", "first", "retry", "ok", "failed"}, NEW gone \in BOOLEAN
    PROVE  AfterFlush(k, r, gone).kind \in {k, "none"}
BY DEF AfterFlush, NoOp, OpKind

\* Every step keeps a session that a client can edit subscribed.
LEMMA BoundStep ==
    ASSUME "teardown" \notin Ops, TypeOK, TypeOK', BoundIsSubscribed, [Next]_vars
    PROVE  BoundIsSubscribed'
<1> USE DEF fileVars, openVars, docVars, persistVars
<1>0. /\ op.kind \in OpKind \cup {"none"} /\ deleted \in BOOLEAN /\ watching \in BOOLEAN
      /\ flush'["op"] \in {"none", "first", "retry", "ok", "failed"}
  BY DEF TypeOK, OpType, FlushType, Waiter
<1>1. CASE OpenStep
  BY <1>1 DEF OpenStep, OpenSession, LoadFile, LoadMissing, CreateMissing,
              LoadSnapshot, BoundIsSubscribed
<1>2. CASE (\E e \in Edit : ApplyEdit(e)) \/ FlushDirty \/ Detach
             \/ \E x \in Ext : ExternalWrite(x)
  BY <1>2 DEF ApplyEdit, FlushDirty, Detach, ExternalWrite, BoundIsSubscribed
<1>3. CASE LoopReadDisk \/ LoopStartsWrite \/ LoopReconciles \/ LoopRenames
  BY <1>3 DEF LoopReadDisk, LoopStartsWrite, LoopReconciles, LoopRenames, BoundIsSubscribed
<1>4. CASE LoopFindsMissing \/ LoopPersisted \/ LoopReconciled \/ LoopFails
  <2>1. PICK gone, watch \in BOOLEAN : OpResumes(gone, watch)
    BY <1>0, <1>4 DEF LoopFindsMissing, LoopPersisted, LoopReconciled, LoopFails
  <2>2. phase' = phase /\ attached' = attached
    BY <1>4 DEF LoopFindsMissing, LoopPersisted, LoopReconciled, LoopFails
  <2>3. CASE op' = op /\ subscribed' = subscribed
    BY <2>2, <2>3 DEF BoundIsSubscribed
  <2>4. CASE /\ op' = AfterFlush(op.kind, flush'["op"], gone)
             /\ AfterFlushWatch(op.kind, flush'["op"], gone, watch)
    <3>1. op.kind # "teardown"
      BY DEF BoundIsSubscribed
    <3>2. op'.kind \in {op.kind, "none"}
      BY <1>0, <2>4, <3>1, AfterFlushKind
    <3>3. subscribed' = subscribed \/ op.kind = "idleClose"
      BY <2>4, <3>1 DEF AfterFlushWatch, TypeOK
    <3> QED
      BY <2>2, <3>1, <3>2, <3>3 DEF BoundIsSubscribed
  <2> QED
    BY <2>1, <2>3, <2>4 DEF OpResumes
<1>5. CASE CheckStep \/ StartCheck
  BY <1>5 DEF CheckStep, StartCheck, CheckReadDisk, CheckIgnores, CheckFindsMissing,
              CheckReconciles, CheckReconciled, CheckFails, NoOp, BoundIsSubscribed
<1>6. CASE \E k \in Ops : StartOp(k)
  <2> PICK k \in Ops : StartOp(k)
    BY <1>6
  <2>1. k \in OpKind \cup {"none"} /\ k # "teardown"
    BY ConstantsAssumption
  <2>2. phase' = phase /\ attached' = attached /\ (k = "idleClose" => ~attached)
    BY DEF StartOp
  <2>3. CASE ~IsClose(k) /\ check.pc # "idle"
    BY <2>1, <2>2, <2>3 DEF StartOp, BoundIsSubscribed
  <2>4. CASE ~(~IsClose(k) /\ check.pc # "idle")
    <3>1. /\ op' = AfterFlush(k, flush'["op"], FALSE)
          /\ AfterFlushWatch(k, flush'["op"], FALSE, IsClose(k) /\ watching)
      BY <2>4 DEF StartOp, OpFlush
    <3>2. op'.kind \in {k, "none"}
      BY <1>0, <2>1, <3>1, AfterFlushKind
    <3>3. subscribed' = subscribed \/ k = "idleClose"
      BY <2>1, <3>1 DEF AfterFlushWatch, TypeOK
    <3> QED
      BY <2>1, <2>2, <3>2, <3>3 DEF BoundIsSubscribed
  <2> QED
    BY <2>3, <2>4
<1>7. CASE OpAfterCheck
  <2>1. phase' = phase /\ attached' = attached /\ op.kind # "teardown"
    BY <1>7 DEF OpAfterCheck, BoundIsSubscribed
  <2>2. CASE deleted
    BY <1>7, <2>1, <2>2 DEF OpAfterCheck, BoundIsSubscribed, NoOp
  <2>3. CASE ~deleted
    <3>1. /\ op' = AfterFlush(op.kind, flush'["op"], FALSE)
          /\ AfterFlushWatch(op.kind, flush'["op"], FALSE, watching)
      BY <1>7, <2>3 DEF OpAfterCheck, OpFlush
    <3>2. op'.kind \in {op.kind, "none"}
      BY <1>0, <2>1, <3>1, AfterFlushKind
    <3>3. subscribed' = subscribed \/ op.kind = "idleClose"
      BY <2>1, <3>1 DEF AfterFlushWatch, TypeOK
    <3> QED
      BY <2>1, <3>2, <3>3 DEF BoundIsSubscribed
  <2> QED
    BY <2>2, <2>3
<1>8. CASE SubtreePrepared \/ SubtreeAbandoned \/ OpMovesDisk \/ OpWritesMoved
             \/ OpMoved \/ OpDeletesDisk \/ OpDeleted \/ OpFails
  <2>1. phase' = phase /\ attached' = attached /\ subscribed' = subscribed
    BY <1>8 DEF SubtreePrepared, SubtreeAbandoned, OpMovesDisk, OpWritesMoved, OpMoved, OpDeletesDisk,
                OpDeleted, OpFails
  <2>2. op'.kind \in {op.kind, "none"}
    <3>0. op = [kind |-> op.kind, pc |-> op.pc, text |-> op.text]
      BY DEF TypeOK, OpType
    <3>1. CASE SubtreePrepared
      BY <3>0, <3>1 DEF SubtreePrepared, NoOp
    <3>2. CASE OpMovesDisk
      <4>1. op' = NoOp \/ op' = [op EXCEPT !.pc = "write", !.text = text]
        BY <3>2 DEF OpMovesDisk
      <4>2. op \in OpType => [op EXCEPT !.pc = "write", !.text = text].kind = op.kind
        BY DEF OpType
      <4>3. NoOp.kind = "none" /\ op \in OpType
        BY DEF NoOp, TypeOK
      <4> QED
        BY <4>1, <4>2, <4>3
    <3>4. CASE OpWritesMoved
      BY <3>0, <3>4 DEF OpWritesMoved
    <3>5. CASE OpDeletesDisk
      BY <3>0, <3>5 DEF OpDeletesDisk
    <3>3. CASE SubtreeAbandoned \/ OpMoved \/ OpDeleted \/ OpFails
      <4>1. op' = NoOp
        BY <3>3 DEF SubtreeAbandoned, OpMoved, OpDeleted, OpFails
      <4> QED
        BY <4>1 DEF NoOp
    <3> QED
      BY <1>8, <3>1, <3>2, <3>3, <3>4, <3>5
  <2> QED
    BY <2>1, <2>2 DEF BoundIsSubscribed
<1>9. CASE ResumeAfterCloseFailure \/ UNCHANGED vars
  BY <1>9 DEF ResumeAfterCloseFailure, vars, BoundIsSubscribed
<1> QED
  BY <1>1, <1>2, <1>3, <1>4, <1>5, <1>6, <1>7, <1>8, <1>9
     DEF Next, LoopStep, OpStep, Environment

------------------------------------------------------------------------------
(* What is read from the file has been in the file. *)

\* A write makes what it writes durable.
LEMMA WriteIsDurable ==
    ASSUME TypeOK, FileIsDurable, NEW p \in Path, NEW c \in {Missing} \cup Text,
           WriteDisk(p, c)
    PROVE  /\ durable \subseteq durable'
           /\ \A q \in Path : disk'[q] # Missing => disk'[q] \subseteq durable'
BY DEF WriteDisk, FileIsDurable, TypeOK

\* What was read before is still durable after a step that keeps it.
LEMMA ReadsAreKept ==
    ASSUME FileIsDurable, durable \subseteq durable',
           \A q \in Path : disk'[q] # Missing => disk'[q] \subseteq durable',
           loop' = loop \/ loop'.pc # "got", check' = check \/ check'.pc # "got"
    PROVE  FileIsDurable'
BY DEF FileIsDurable

\* Every step keeps the file, and what was read from it, durable, and nothing
\* that was durable is forgotten.
LEMMA FileStep ==
    ASSUME TypeOK, FileIsDurable, [Next]_vars
    PROVE  FileIsDurable' /\ durable \subseteq durable'
<1> USE DEF fileVars, openVars, docVars, persistVars
<1>1. CASE OpenSession \/ LoadFile \/ LoadMissing \/ LoadSnapshot
  BY <1>1, ReadsAreKept DEF OpenSession, LoadFile, LoadMissing, LoadSnapshot, FileIsDurable
<1>2. CASE CreateMissing
  <2>1. path \in Path /\ {} \in {Missing} \cup Text
    BY TextClosed DEF TypeOK
  <2>2. /\ durable \subseteq durable'
        /\ \A q \in Path : disk'[q] # Missing => disk'[q] \subseteq durable'
    BY <1>2, <2>1, WriteIsDurable DEF CreateMissing
  <2> QED
    BY <1>2, <2>2, ReadsAreKept DEF CreateMissing
<1>3. CASE \E x \in Ext : ExternalWrite(x)
  <2> PICK x \in Ext : ExternalWrite(x)
    BY <1>3
  <2>1. PICK c \in {{x}, {}, Missing} \cup
                  (IF disk[path] = Missing THEN {} ELSE {disk[path] \cup {x}}) :
           WriteDisk(path, c)
    BY DEF ExternalWrite
  <2>2. path \in Path /\ disk[path] \in {Missing} \cup Text /\ {x} \in Text
    BY TextClosed DEF TypeOK
  <2>3. disk[path] # Missing => disk[path] \cup {x} \in Text
    BY <2>2, TextClosed
  <2>4. c \in {Missing} \cup Text
    BY <2>2, <2>3, TextClosed
  <2>5. /\ durable \subseteq durable'
        /\ \A q \in Path : disk'[q] # Missing => disk'[q] \subseteq durable'
    BY <2>1, <2>2, <2>4, WriteIsDurable
  <2> QED
    BY <2>5, ReadsAreKept DEF ExternalWrite
<1>4. CASE LoopReadDisk
  <2>1. loop.path \in Path /\ loop'.disk = disk[loop.path]
    BY <1>4 DEF LoopReadDisk, TypeOK, LoopType
  <2> QED
    BY <1>4, <2>1 DEF LoopReadDisk, FileIsDurable
<1>5. CASE LoopRenames
  <2>1. loop.path \in Path /\ loop.content \in {Missing} \cup Text /\ loop'.pc = "snap"
    BY <1>5 DEF LoopRenames, TypeOK, LoopType
  <2>2. /\ durable \subseteq durable'
        /\ \A q \in Path : disk'[q] # Missing => disk'[q] \subseteq durable'
    BY <1>5, <2>1, WriteIsDurable DEF LoopRenames
  <2> QED
    BY <1>5, <2>1, <2>2, ReadsAreKept DEF LoopRenames
<1>6. CASE CheckReadDisk
  <2>1. path \in Path /\ check'.disk = disk[path]
    BY <1>6 DEF CheckReadDisk, TypeOK, CheckType
  <2> QED
    BY <1>6, <2>1 DEF CheckReadDisk, FileIsDurable
<1>7. CASE OpMovesDisk
  <2>1. Other(path) \in Path /\ path \in Path
    BY DEF TypeOK, Other, Path
  <2>2. \A q \in Path : disk'[q] # Missing => disk'[q] \subseteq durable
    BY <1>7, <2>1 DEF OpMovesDisk, TypeOK, FileIsDurable
  <2>3. loop' = loop \/ loop'.pc \in {"idle", "transition", "read"}
    BY <1>7, TransitionPc DEF OpMovesDisk, TypeOK
  <2> QED
    BY <1>7, <2>2, <2>3, ReadsAreKept DEF OpMovesDisk
<1>8. CASE OpWritesMoved
  <2>1. op.text \in {Missing} \cup Text /\ path \in Path
    BY DEF TypeOK, OpType
  <2>2. /\ durable \subseteq durable'
        /\ \A q \in Path : disk'[q] # Missing => disk'[q] \subseteq durable'
    BY <1>8, <2>1, WriteIsDurable DEF OpWritesMoved
  <2> QED
    BY <1>8, <2>2, ReadsAreKept DEF OpWritesMoved
<1>9. CASE OpDeletesDisk
  <2>1. path \in Path
    BY DEF TypeOK
  <2>2. /\ durable \subseteq durable'
        /\ \A q \in Path : disk'[q] # Missing => disk'[q] \subseteq durable'
    BY <1>9, <2>1, WriteIsDurable DEF OpDeletesDisk
  <2> QED
    BY <1>9, <2>2, ReadsAreKept DEF OpDeletesDisk
<1>10. CASE (\E e \in Edit : ApplyEdit(e)) \/ FlushDirty \/ Detach
              \/ (\E k \in Ops : StartOp(k)) \/ OpAfterCheck
  <2>1. loop' = loop \/ loop'.pc # "got"
    <3>1. \/ \E w \in Waiter, t \in Text : CallFlush(w, t)
          \/ \E t \in Text : RequestPersist(t)
          \/ UNCHANGED loop
      <4>1. \A e \in Edit : text \cup {e} \in Text
        BY TextClosed DEF TypeOK
      <4>2. \A e \in Edit : ApplyEdit(e) => \/ CallFlush(e, text \cup {e})
                                           \/ RequestPersist(text \cup {e})
        BY DEF ApplyEdit
      <4>3. "svc" \in Waiter /\ "op" \in Waiter /\ Edit \subseteq Waiter /\ text \in Text
        BY DEF Waiter, TypeOK
      <4> QED
        BY <1>10, <4>1, <4>2, <4>3 DEF FlushDirty, Detach, StartOp, OpAfterCheck, OpFlush
    <3>2. \A t \in Text : RequestPersist(t) => loop' = loop \/ loop'.pc # "got"
      BY DEF RequestPersist, BeginMaterialize
    <3> QED
      BY <3>1, <3>2, CallFlushPc
  <2>2. UNCHANGED <<disk, durable, check>>
    BY <1>10 DEF ApplyEdit, FlushDirty, Detach, StartOp, OpAfterCheck
  <2> QED
    BY <2>1, <2>2, ReadsAreKept DEF FileIsDurable
<1>11. CASE LoopStartsWrite \/ LoopReconciles
  <2>1. loop'.pc # "got"
    BY <1>11 DEF LoopStartsWrite, LoopReconciles, TypeOK, LoopType
  <2> QED
    BY <1>11, <2>1, ReadsAreKept DEF LoopStartsWrite, LoopReconciles, FileIsDurable
<1>12. CASE LoopFindsMissing \/ LoopPersisted \/ LoopReconciled \/ LoopFails
  <2>1. loop'.pc # "got"
    <3>1. /\ loop.failure \in BOOLEAN /\ persistFailed \in BOOLEAN /\ deleted \in BOOLEAN
          /\ text \in Text /\ path \in Path
      BY DEF TypeOK, LoopType
    <3>2. loop'.pc \in {"idle", "transition", "read"}
      BY <1>12, <3>1, PendingType, IterationEndsPc, ZenonT(40)
         DEF LoopFindsMissing, LoopPersisted, LoopReconciled, LoopFails
    <3> QED
      BY <3>2
  <2>2. UNCHANGED <<disk, durable, check>>
    BY <1>12 DEF LoopFindsMissing, LoopPersisted, LoopReconciled, LoopFails
  <2> QED
    BY <2>1, <2>2, ReadsAreKept DEF FileIsDurable
<1>13. CASE CheckIgnores \/ CheckFindsMissing \/ CheckReconciles
              \/ CheckReconciled \/ CheckFails \/ StartCheck
  <2>1. check'.pc # "got"
    <3>1. check = [pc |-> check.pc, disk |-> check.disk, event |-> check.event]
      BY DEF TypeOK, CheckType
    <3>2. CASE CheckReconciles
      BY <3>1, <3>2 DEF CheckReconciles
    <3>3. CASE StartCheck
      BY <3>3 DEF StartCheck, CheckIdle
    <3>4. CASE CheckIgnores \/ CheckFindsMissing \/ CheckReconciled \/ CheckFails
      BY <3>4 DEF CheckIgnores, CheckFindsMissing, CheckReconciled, CheckFails, CheckIdle
    <3> QED
      BY <1>13, <3>2, <3>3, <3>4
  <2>2. UNCHANGED <<disk, durable, loop>>
    BY <1>13 DEF CheckIgnores, CheckFindsMissing, CheckReconciles, CheckReconciled,
                 CheckFails, StartCheck
  <2> QED
    BY <2>1, <2>2, ReadsAreKept DEF FileIsDurable
<1>14. CASE OpMoved \/ OpDeleted \/ OpFails
  <2>1. loop' = loop \/ loop'.pc \in {"idle", "transition", "read"}
    BY <1>14, TransitionPc DEF OpMoved, OpDeleted, OpFails, TypeOK
  <2>2. UNCHANGED <<disk, durable, check>>
    BY <1>14 DEF OpMoved, OpDeleted, OpFails
  <2> QED
    BY <2>1, <2>2, ReadsAreKept DEF FileIsDurable
<1>15. CASE SubtreePrepared \/ SubtreeAbandoned \/ ResumeAfterCloseFailure \/ UNCHANGED vars
  BY <1>15 DEF SubtreePrepared, SubtreeAbandoned, ResumeAfterCloseFailure, vars, FileIsDurable
<1> QED
  BY <1>1, <1>2, <1>3, <1>4, <1>5, <1>6, <1>7, <1>8, <1>9, <1>10, <1>11, <1>12,
     <1>13, <1>14, <1>15 DEF Next, OpenStep, LoopStep, CheckStep, OpStep, Environment
------------------------------------------------------------------------------
(* Only an edit of a user of an open session changes the state of its flush. *)

\* When the persist promise settles, no edit appears.
LEMMA SettledKeepsNone ==
    ASSUME TypeOK, NEW failure, NEW stillFailed, NEW gone, NEW t, NEW p, NEW transition,
           IterationEnds(failure, stillFailed, gone, t, p, transition),
           NEW e \in Edit, flush[e] = "none"
    PROVE  flush'[e] = "none"
<1>1. \/ flush' = flush
      \/ flush' = Settled(failure, stillFailed /\ Runs(gone, transition))
  BY DEF IterationEnds
<1>2. e \in Waiter
  BY DEF Waiter
<1> QED
  BY <1>1, <1>2 DEF Settled, Waiting

\* flush() of a path transition or of the service is not the one of an edit.
LEMMA CallFlushKeepsNone ==
    ASSUME TypeOK, NEW w \in {"svc", "op"}, NEW t, CallFlush(w, t),
           NEW e \in Edit
    PROVE  flush'[e] = flush[e]
<1>1. e # w /\ e \in Waiter /\ w \in Waiter
  BY ConstantsAssumption DEF Waiter
<1> QED
  BY <1>1 DEF CallFlush, TypeOK, FlushType

\* Before the session is open, and after a failed open, no edit appears.
LEMMA NoEditStep ==
    ASSUME TypeOK, NoEditBeforeOpen, [Next]_vars
    PROVE  NoEditBeforeOpen'
<1> USE DEF fileVars, openVars, docVars, persistVars
<1>1. phase = "open" => phase' = "open"
  BY DEF Next, OpenStep, LoopStep, CheckStep, OpStep, Environment, OpenSession, LoadFile,
         LoadMissing, CreateMissing, LoadSnapshot, ApplyEdit, ExternalWrite, StartOp,
         FlushDirty, Detach, ResumeAfterCloseFailure, StartCheck, LoopReadDisk,
         LoopStartsWrite, LoopReconciles, LoopFindsMissing, LoopRenames, LoopPersisted,
         LoopReconciled, LoopFails, CheckReadDisk, CheckIgnores, CheckFindsMissing,
         CheckReconciles, CheckReconciled, CheckFails, OpAfterCheck, SubtreePrepared,
         SubtreeAbandoned, OpMovesDisk, OpWritesMoved, OpMoved, OpDeletesDisk, OpDeleted, OpFails, vars
<1>2. SUFFICES ASSUME phase # "open", NEW e \in Edit, flush[e] = "none"
               PROVE  flush'[e] = "none"
  BY <1>1 DEF NoEditBeforeOpen
<1>3. CASE OpenStep \/ StartCheck \/ CheckStep
  BY <1>2, <1>3 DEF OpenStep, OpenSession, LoadFile, LoadMissing, CreateMissing, LoadSnapshot,
              StartCheck, CheckStep, CheckReadDisk, CheckIgnores, CheckFindsMissing,
              CheckReconciles, CheckReconciled, CheckFails
<1>4. CASE LoopReadDisk \/ LoopStartsWrite \/ LoopReconciles \/ LoopRenames
  BY <1>2, <1>4 DEF LoopReadDisk, LoopStartsWrite, LoopReconciles, LoopRenames
<1>5. CASE LoopFindsMissing \/ LoopPersisted \/ LoopReconciled \/ LoopFails
  BY <1>2, <1>5, SettledKeepsNone
     DEF LoopFindsMissing, LoopPersisted, LoopReconciled, LoopFails
<1>6. CASE OpAfterCheck
  BY <1>2, <1>6, CallFlushKeepsNone DEF OpAfterCheck, OpFlush
<1>7. CASE SubtreePrepared \/ SubtreeAbandoned \/ OpWritesMoved \/ OpDeletesDisk
             \/ ResumeAfterCloseFailure
  BY <1>2, <1>7 DEF SubtreePrepared, SubtreeAbandoned, OpWritesMoved, OpDeletesDisk,
         ResumeAfterCloseFailure
<1>8. CASE OpMovesDisk \/ OpMoved \/ OpDeleted \/ OpFails
  <2>1. \/ flush' = flush
        \/ \E failure, stillFailed, gone, t, p, transition :
              IterationEnds(failure, stillFailed, gone, t, p, transition)
    BY <1>8 DEF OpMovesDisk, OpMoved, OpDeleted, OpFails, TransitionSucceeds, TransitionFails
  <2> QED
    BY <1>2, <2>1, SettledKeepsNone
<1>9. CASE Environment \/ UNCHANGED vars
  BY <1>2, <1>9 DEF Environment, ApplyEdit, ExternalWrite, StartOp, FlushDirty, Detach,
                    ResumeAfterCloseFailure, vars
<1> QED
  BY <1>3, <1>4, <1>5, <1>6, <1>7, <1>8, <1>9 DEF Next, LoopStep, OpStep

------------------------------------------------------------------------------
(* What the persist loop owes the text of the document. *)

\* An iteration that begins is going to write the document as it is.
LEMMA BeginCovers ==
    ASSUME NEW failure, NEW t, NEW p, NEW transition \in BOOLEAN,
           loop' = BeginMaterialize(failure, t, p, transition)
    PROVE  /\ loop'.pc \notin {"idle", "snap", "rsnap"}
           /\ loop'.pc = "transition" \/ loop'.content = t
BY DEF BeginMaterialize

\* A step that leaves the document and the loop alone.
LEMMA CoveredKept ==
    ASSUME Covered, durable \subseteq durable', discarded \subseteq discarded',
           UNCHANGED <<persistRequested, persistFailed, loop, flush, text, deleted>>
    PROVE  Covered'
<1>1. TextIsCovered'
  BY DEF Covered, TextIsCovered, Busy, Coming
<1>2. EditsAreKept' /\ FlushedIsAccountedFor'
  BY DEF Covered, EditsAreKept, FlushedIsAccountedFor
<1> QED
  BY <1>1, <1>2 DEF Covered

\* An edit whose flush() resolves when the promise settles did not fail.
LEMMA SettledOk ==
    ASSUME TypeOK, NEW failure, NEW stillFailed, NEW e \in Edit,
           Settled(failure, stillFailed)[e] = "ok"
    PROVE  flush[e] = "ok" \/ (flush[e] # "none" /\ ~failure)
<1>1. e \in Waiter
  BY DEF Waiter
<1> QED
  BY <1>1 DEF Settled, Waiting

\* The end of an iteration: the next one writes the document as it is, or the
\* promise settles on a document that is saved, gone or shown to have failed.
LEMMA IterationEndsCovers ==
    ASSUME TypeOK, Covered, NEW failure \in BOOLEAN, NEW stillFailed \in BOOLEAN,
           NEW gone \in BOOLEAN, NEW p \in Path, NEW transition \in BOOLEAN,
           IterationEnds(failure, stillFailed, gone, text, p, transition),
           text' = text, deleted' = gone,
           durable \subseteq durable', discarded \subseteq discarded',
           ~gone /\ ~persistRequested => text \subseteq durable' \/ (failure /\ persistFailed'),
           gone => text \subseteq durable' \cup discarded'
    PROVE  Covered'
<1> DEFINE settled == Settled(failure, stillFailed /\ Runs(gone, transition))
<1>1. CASE persistRequested /\ Runs(gone, transition)
  <2>1. loop' = BeginMaterialize(failure, text, p, transition) /\ flush' = flush
    BY <1>1 DEF IterationEnds
  <2>2. TextIsCovered'
    BY <2>1, BeginCovers DEF TextIsCovered, Busy, Coming
  <2>3. EditsAreKept' /\ FlushedIsAccountedFor'
    BY <2>1 DEF Covered, EditsAreKept, FlushedIsAccountedFor
  <2> QED
    BY <2>2, <2>3 DEF Covered
<1>2. CASE ~(persistRequested /\ Runs(gone, transition))
  <2>1. /\ flush' = settled
        /\ loop' = LoopIdle \/ loop' = BeginMaterialize(FALSE, text, p, transition)
    BY <1>2 DEF IterationEnds
  <2>2. ~gone => text \subseteq durable' \/ (failure /\ persistFailed')
    BY <1>2 DEF Runs
  <2>3. TextIsCovered'
    <3>1. CASE loop' = LoopIdle
      BY <2>2, <3>1 DEF TextIsCovered, Busy, LoopIdle
    <3>2. CASE loop' = BeginMaterialize(FALSE, text, p, transition)
      BY <3>2, BeginCovers DEF TextIsCovered, Busy, Coming
    <3> QED
      BY <2>1, <3>1, <3>2
  <2>4. EditsAreKept'
    <3>1. ASSUME NEW e \in Edit, flush'[e] # "none" PROVE flush[e] # "none"
      BY <3>1, SettledKeepsNone
    <3> QED
      BY <3>1 DEF Covered, EditsAreKept
  <2>5. FlushedIsAccountedFor'
    <3>1. SUFFICES ASSUME NEW e \in Edit, flush'[e] = "ok"
                   PROVE  e \in durable' \cup discarded'
      BY DEF FlushedIsAccountedFor
    <3>2. flush[e] = "ok" \/ (flush[e] # "none" /\ ~failure)
      BY <2>1, <3>1, SettledOk
    <3>3. CASE flush[e] = "ok"
      BY <3>3 DEF Covered, FlushedIsAccountedFor
    <3>4. CASE flush[e] # "none" /\ ~failure
      BY <2>2, <3>4 DEF Covered, EditsAreKept
    <3> QED
      BY <3>2, <3>3, <3>4
  <2> QED
    BY <2>3, <2>4, <2>5 DEF Covered
<1> QED
  BY <1>1, <1>2

\* flush() called by the service or by a structure mutation.
LEMMA CallFlushCovers ==
    ASSUME TypeOK, Covered, NEW w \in {"svc", "op"}, CallFlush(w, text),
           UNCHANGED <<text, deleted, durable, discarded>>
    PROVE  Covered'
<1>1. \A e \in Edit : flush'[e] = flush[e]
  BY CallFlushKeepsNone
<1>2. EditsAreKept' /\ FlushedIsAccountedFor'
  BY <1>1 DEF Covered, EditsAreKept, FlushedIsAccountedFor
<1>3. /\ UNCHANGED <<persistRequested, persistFailed>>
      /\ loop' = loop \/ loop' = BeginMaterialize(FALSE, text, path, TransitionPending)
  BY DEF CallFlush
<1>4. TextIsCovered'
  <2>1. CASE loop' = loop
    BY <1>3, <2>1 DEF Covered, TextIsCovered, Busy, Coming
  <2>2. CASE loop' = BeginMaterialize(FALSE, text, path, TransitionPending)
    BY <2>2, BeginCovers, PendingType DEF TextIsCovered, Busy, Coming
  <2> QED
    BY <1>3, <2>1, <2>2
<1> QED
  BY <1>2, <1>4 DEF Covered

\* A path transition that settles well, or by an error that is shown.
LEMMA TransitionCovers ==
    ASSUME TypeOK, Covered, NEW p \in Path, text' = text,
           \/ TransitionSucceeds(deleted', p) /\ deleted' \in BOOLEAN
           \/ TransitionFails /\ deleted' = deleted,
           durable \subseteq durable', discarded \subseteq discarded',
           deleted' => text \subseteq durable' \cup discarded',
           deleted => deleted'
    PROVE  Covered'
<1>0. /\ loop.failure \in BOOLEAN /\ persistFailed \in BOOLEAN /\ deleted \in BOOLEAN
      /\ path \in Path
  BY DEF TypeOK, LoopType
<1>1. CASE loop.pc # "transition"
  <2>1. UNCHANGED <<persistRequested, persistFailed, loop, flush>>
    BY <1>1 DEF TransitionSucceeds, TransitionFails, persistVars
  <2>2. TextIsCovered'
    BY <2>1 DEF Covered, TextIsCovered, Busy, Coming
  <2>3. EditsAreKept' /\ FlushedIsAccountedFor'
    BY <2>1 DEF Covered, EditsAreKept, FlushedIsAccountedFor
  <2> QED
    BY <2>2, <2>3 DEF Covered
<1>2. CASE loop.pc = "transition" /\ TransitionFails /\ deleted' = deleted
  <2>1. persistFailed' /\ IterationEnds(TRUE, TRUE, deleted, text, path, FALSE)
    BY <1>2 DEF TransitionFails
  <2> QED
    BY <1>0, <1>2, <2>1, IterationEndsCovers
<1>3. CASE loop.pc = "transition" /\ TransitionSucceeds(deleted', p) /\ deleted'
  <2>1. IterationEnds(loop.failure, persistFailed, TRUE, text, p, FALSE)
    BY <1>3 DEF TransitionSucceeds
  <2> QED
    BY <1>0, <1>3, <2>1, IterationEndsCovers
<1>4. CASE loop.pc = "transition" /\ TransitionSucceeds(deleted', p) /\ ~deleted'
  <2>1. loop' = BeginMaterialize(loop.failure, text, p, FALSE) /\ flush' = flush
    BY <1>4 DEF TransitionSucceeds
  <2>2. TextIsCovered'
    BY <2>1, BeginCovers DEF TextIsCovered, Busy, Coming
  <2>3. EditsAreKept' /\ FlushedIsAccountedFor'
    BY <2>1 DEF Covered, EditsAreKept, FlushedIsAccountedFor
  <2> QED
    BY <2>2, <2>3 DEF Covered
<1> QED
  BY <1>1, <1>2, <1>3, <1>4

\* Every step keeps the promise.
LEMMA CoverStep ==
    ASSUME TypeOK, Latched, SaveInv, [Next]_vars
    PROVE  Covered'
<1> USE DEF fileVars, openVars, docVars, persistVars
<1>0. /\ loop.failure \in BOOLEAN /\ persistFailed \in BOOLEAN /\ deleted \in BOOLEAN
      /\ path \in Path /\ Covered /\ durable \subseteq durable'
  BY FileStep DEF TypeOK, LoopType, SaveInv
<1>1. CASE OpenSession \/ LoadMissing \/ LoadSnapshot \/ \E x \in Ext : ExternalWrite(x)
  BY <1>0, <1>1, CoveredKept DEF OpenSession, LoadMissing, LoadSnapshot, ExternalWrite
<1>2. CASE LoadFile \/ CreateMissing
  <2>1. \A e \in Edit : flush'[e] = "none"
    BY <1>2 DEF LoadFile, CreateMissing, SaveInv, NoEditBeforeOpen
  <2>2. /\ UNCHANGED <<loop, persistRequested, persistFailed, deleted, discarded>>
        /\ text' \subseteq durable'
    BY <1>2 DEF LoadFile, CreateMissing, SaveInv, FileIsDurable, TypeOK
  <2>3. TextIsCovered'
    BY <1>0, <2>2 DEF Covered, TextIsCovered, Busy, Coming
  <2>4. EditsAreKept' /\ FlushedIsAccountedFor'
    BY <2>1, <2>2 DEF EditsAreKept, FlushedIsAccountedFor
  <2> QED
    BY <2>3, <2>4 DEF Covered
<1>3. CASE \E e \in Edit : ApplyEdit(e)
  <2> PICK e \in Edit : ApplyEdit(e)
    BY <1>3
  <2>1. /\ text' = text \cup {e} /\ RequestPersist(text')
        /\ flush' = [flush EXCEPT ![e] = "first"]
        /\ UNCHANGED <<persistFailed, deleted, durable, discarded>> /\ ~deleted
    BY DEF ApplyEdit, SaveInv, BoundIsSubscribed
  <2>2. TextIsCovered'
    <3>1. CASE Busy
      BY <1>0, <2>1, <3>1 DEF RequestPersist, Covered, TextIsCovered, Busy
    <3>2. CASE ~Busy
      <4>1. loop' = BeginMaterialize(FALSE, text', path, TransitionPending)
        BY <2>1, <3>2 DEF RequestPersist
      <4> QED
        BY <4>1, BeginCovers, PendingType DEF TextIsCovered, Busy, Coming
    <3> QED
      BY <3>1, <3>2
  <2>3. EditsAreKept' /\ FlushedIsAccountedFor'
    BY <1>0, <2>1 DEF Covered, EditsAreKept, FlushedIsAccountedFor, TypeOK, FlushType, Waiter
  <2> QED
    BY <2>2, <2>3 DEF Covered
<1>4. CASE FlushDirty \/ Detach
  BY <1>0, <1>4, CallFlushCovers DEF FlushDirty, Detach
<1>5. CASE \E k \in Ops : StartOp(k)
  <2> PICK k \in Ops : StartOp(k)
    BY <1>5
  <2>1. UNCHANGED <<text, deleted, durable, discarded>>
    BY DEF StartOp
  <2>2. CASE ~IsClose(k) /\ check.pc # "idle"
    BY <1>0, <2>1, <2>2, CoveredKept DEF StartOp
  <2>3. CASE ~(~IsClose(k) /\ check.pc # "idle")
    BY <1>0, <2>1, <2>3, CallFlushCovers DEF StartOp, OpFlush
  <2> QED
    BY <2>2, <2>3
<1>6. CASE OpAfterCheck
  <2>1. UNCHANGED <<text, deleted, durable, discarded>>
    BY <1>6 DEF OpAfterCheck
  <2>2. CASE deleted
    BY <1>0, <1>6, <2>1, <2>2, CoveredKept DEF OpAfterCheck
  <2>3. CASE ~deleted
    BY <1>0, <1>6, <2>1, <2>3, CallFlushCovers DEF OpAfterCheck, OpFlush
  <2> QED
    BY <2>2, <2>3
<1>7. CASE LoopReadDisk \/ LoopStartsWrite
  <2>1. /\ UNCHANGED <<persistRequested, persistFailed, flush, text, deleted, durable, discarded>>
        /\ loop'.content = loop.content /\ loop.pc \in {"read", "got"}
        /\ loop'.pc \in {"got", "write"}
    BY <1>7 DEF LoopReadDisk, LoopStartsWrite, TypeOK, LoopType
  <2>2. TextIsCovered'
    BY <1>0, <2>1 DEF Covered, TextIsCovered, Busy, Coming
  <2>3. EditsAreKept' /\ FlushedIsAccountedFor'
    BY <1>0, <2>1 DEF Covered, EditsAreKept, FlushedIsAccountedFor
  <2> QED
    BY <2>2, <2>3 DEF Covered
<1>8. CASE LoopReconciles
  <2>1. /\ UNCHANGED <<persistRequested, persistFailed, flush, deleted, durable>>
        /\ loop'.pc = "rsnap" /\ text' = loop.disk
        /\ discarded' = discarded \cup (text \ loop.disk)
    BY <1>8 DEF LoopReconciles, TakeContent, TypeOK, LoopType
  <2>2. text' \subseteq durable
    BY <1>8, <2>1 DEF LoopReconciles, SaveInv, FileIsDurable
  <2>3. TextIsCovered'
    BY <2>1, <2>2 DEF TextIsCovered, Busy, Coming
  <2>4. EditsAreKept' /\ FlushedIsAccountedFor'
    BY <1>0, <2>1, <2>2 DEF Covered, EditsAreKept, FlushedIsAccountedFor
  <2> QED
    BY <2>3, <2>4 DEF Covered
<1>9. CASE LoopRenames
  <2>1. /\ UNCHANGED <<persistRequested, persistFailed, flush, text, deleted, discarded>>
        /\ loop'.pc = "snap" /\ loop'.content = loop.content /\ loop.pc = "write"
    BY <1>9 DEF LoopRenames, TypeOK, LoopType
  <2>2. loop.content # Missing
    BY ConstantsAssumption DEF TypeOK, LoopType
  <2>3. loop.content \subseteq durable'
    BY <1>9, <2>2 DEF LoopRenames, WriteDisk
  <2>4. TextIsCovered'
    BY <1>0, <2>1, <2>3 DEF Covered, TextIsCovered, Busy, Coming
  <2>5. EditsAreKept' /\ FlushedIsAccountedFor'
    BY <1>0, <2>1 DEF Covered, EditsAreKept, FlushedIsAccountedFor
  <2> QED
    BY <2>4, <2>5 DEF Covered
<1>10. CASE LoopFindsMissing
  <2>1. /\ IterationEnds(loop.failure, persistFailed, TRUE, text, path, TransitionPending)
        /\ text' = text /\ deleted' = TRUE /\ discarded' = discarded \cup text
    BY <1>10 DEF LoopFindsMissing, MarkDeleted
  <2> QED
    BY <1>0, <2>1, PendingType, IterationEndsCovers
<1>11. CASE LoopPersisted
  <2>1. /\ IterationEnds(loop.failure, FALSE, deleted, text, path, TransitionPending)
        /\ UNCHANGED <<text, deleted, durable, discarded>> /\ loop.pc = "snap"
    BY <1>11 DEF LoopPersisted
  <2>2. ~deleted /\ ~persistRequested => text \subseteq durable
    BY <1>0, <2>1 DEF Covered, TextIsCovered, Busy, Coming
  <2>3. deleted => text \subseteq durable \cup discarded
    BY <1>0 DEF Covered, EditsAreKept
  <2> QED
    BY <1>0, <2>1, <2>2, <2>3, PendingType, IterationEndsCovers
<1>12. CASE LoopReconciled
  <2>1. /\ IterationEnds(loop.failure, persistFailed, deleted, text, path, TransitionPending)
        /\ UNCHANGED <<text, deleted, durable, discarded>> /\ loop.pc = "rsnap"
    BY <1>12 DEF LoopReconciled
  <2>2. ~deleted /\ ~persistRequested => text \subseteq durable
    BY <1>0, <2>1 DEF Covered, TextIsCovered, Busy, Coming
  <2>3. deleted => text \subseteq durable \cup discarded
    BY <1>0 DEF Covered, EditsAreKept
  <2> QED
    BY <1>0, <2>1, <2>2, <2>3, PendingType, IterationEndsCovers
<1>13. CASE LoopFails
  <2>1. /\ IterationEnds(TRUE, TRUE, deleted, text, path, TransitionPending)
        /\ UNCHANGED <<text, deleted, durable, discarded>> /\ persistFailed' = TRUE
    BY <1>13 DEF LoopFails
  <2>2. deleted => text \subseteq durable \cup discarded
    BY <1>0 DEF Covered, EditsAreKept
  <2> QED
    BY <1>0, <2>1, <2>2, PendingType, IterationEndsCovers
<1>14. CASE StartCheck \/ CheckReadDisk \/ CheckIgnores \/ CheckReconciled \/ CheckFails
  BY <1>0, <1>14, CoveredKept
     DEF StartCheck, CheckReadDisk, CheckIgnores, CheckReconciled, CheckFails
<1>15. CASE CheckFindsMissing
  <2>1. /\ deleted' = TRUE /\ discarded' = discarded \cup text
        /\ UNCHANGED <<loop, flush, text, durable>>
    BY <1>15 DEF CheckFindsMissing, MarkDeleted
  <2>2. TextIsCovered' /\ EditsAreKept' /\ FlushedIsAccountedFor'
    BY <1>0, <2>1 DEF Covered, TextIsCovered, EditsAreKept, FlushedIsAccountedFor
  <2> QED
    BY <2>2 DEF Covered
<1>16. CASE CheckReconciles
  <2>1. /\ UNCHANGED <<persistRequested, persistFailed, loop, flush, deleted, durable>>
        /\ text' = check.disk /\ discarded' = discarded \cup (text \ check.disk)
    BY <1>16 DEF CheckReconciles, TakeContent
  <2>2. text' \subseteq durable
    BY <1>16, <2>1 DEF CheckReconciles, SaveInv, FileIsDurable
  <2>3. TextIsCovered'
    BY <1>0, <2>1, <2>2 DEF Covered, TextIsCovered, Busy, Coming
  <2>4. EditsAreKept' /\ FlushedIsAccountedFor'
    BY <1>0, <2>1, <2>2 DEF Covered, EditsAreKept, FlushedIsAccountedFor
  <2> QED
    BY <2>3, <2>4 DEF Covered
<1>17. CASE SubtreePrepared \/ SubtreeAbandoned \/ OpWritesMoved \/ OpDeletesDisk
             \/ ResumeAfterCloseFailure
  BY <1>0, <1>17, CoveredKept
     DEF SubtreePrepared, SubtreeAbandoned, OpWritesMoved, OpDeletesDisk,
         ResumeAfterCloseFailure
<1>18. CASE OpMovesDisk
  <2>1. UNCHANGED <<text, deleted, durable, discarded>>
    BY <1>18 DEF OpMovesDisk
  <2>2. CASE deleted
    <3>1. text \subseteq durable \cup discarded
      BY <1>0, <2>2 DEF Covered, EditsAreKept
    <3> QED
      BY <1>0, <1>18, <2>1, <2>2, <3>1, TransitionCovers DEF OpMovesDisk
  <2>3. CASE ~deleted
    BY <1>0, <1>18, <2>1, <2>3, CoveredKept DEF OpMovesDisk
  <2> QED
    BY <2>2, <2>3
<1>19. CASE OpMoved \/ OpFails
  <2>1. /\ UNCHANGED <<text, deleted, durable, discarded>>
        /\ TransitionSucceeds(deleted, path) \/ TransitionFails
    BY <1>19 DEF OpMoved, OpFails
  <2>2. deleted => text \subseteq durable \cup discarded
    BY <1>0 DEF Covered, EditsAreKept
  <2> QED
    BY <1>0, <2>1, <2>2, TransitionCovers
<1>20. CASE OpDeleted
  <2>1. /\ text' = text /\ durable' = durable /\ discarded' = discarded \cup text
        /\ deleted' = TRUE /\ TransitionSucceeds(TRUE, path)
    BY <1>20 DEF OpDeleted, MarkDeleted
  <2> QED
    BY <1>0, <2>1, TransitionCovers
<1>21. CASE UNCHANGED vars
  BY <1>0, <1>21, CoveredKept DEF vars
<1> QED
  BY <1>1, <1>2, <1>3, <1>4, <1>5, <1>6, <1>7, <1>8, <1>9, <1>10, <1>11, <1>12, <1>13,
     <1>14, <1>15, <1>16, <1>17, <1>18, <1>19, <1>20, <1>21
     DEF Next, OpenStep, LoopStep, CheckStep, OpStep, Environment

------------------------------------------------------------------------------
\* The invariant holds before the session is opened.
LEMMA SaveInvInit == Init => SaveInv
<1> SUFFICES ASSUME Init PROVE SaveInv
  OBVIOUS
<1>1. FileIsDurable
  BY DEF Init, FileIsDurable, LoopIdle, CheckIdle
<1>2. TextIsCovered /\ EditsAreKept /\ FlushedIsAccountedFor /\ NoEditBeforeOpen
  BY DEF Init, TextIsCovered, EditsAreKept, FlushedIsAccountedFor, NoEditBeforeOpen,
         LoopIdle, Busy, Waiter
<1>3. BoundIsSubscribed
  BY DEF Init, BoundIsSubscribed, NoOp
<1> QED
  BY <1>1, <1>2, <1>3 DEF SaveInv, Covered

\* Every step of a session whose vault is not torn down keeps the invariant.
LEMMA SaveInvStep ==
    ASSUME "teardown" \notin Ops, TypeOK, TypeOK', Latched, SaveInv, [Next]_vars
    PROVE  SaveInv'
<1>1. FileIsDurable'
  BY FileStep DEF SaveInv
<1>2. BoundIsSubscribed'
  BY BoundStep DEF SaveInv
<1>3. NoEditBeforeOpen'
  BY NoEditStep DEF SaveInv
<1>4. Covered'
  BY CoverStep
<1> QED
  BY <1>1, <1>2, <1>3, <1>4 DEF SaveInv

\* The invariant gives the two properties.
LEMMA SaveInvSuffices == SaveInv => UnsavedIsVisible /\ FlushedIsAccountedFor
<1> SUFFICES ASSUME SaveInv PROVE UnsavedIsVisible
  BY DEF SaveInv, Covered
<1> QED
  BY DEF SaveInv, Covered, TextIsCovered, UnsavedIsVisible, Busy, Coming

\* Edits save or fail loudly, and a flush() that resolves has put the edit into
\* the file or lost it to the file: in every behaviour of a session that is not
\* torn down, for any number of edits, of external writes and of failures of
\* reads, writes and snapshots.
THEOREM SavesOrFailsLoudly ==
    ASSUME "teardown" \notin Ops
    PROVE  Spec => [](UnsavedIsVisible /\ FlushedIsAccountedFor)
<1>1. Init => SaveInv
  BY SaveInvInit
<1>2. TypeOK /\ TypeOK' /\ Latched /\ SaveInv /\ [Next]_vars => SaveInv'
  BY SaveInvStep
<1>3. SaveInv => UnsavedIsVisible /\ FlushedIsAccountedFor
  BY SaveInvSuffices
<1> QED
  BY <1>1, <1>2, <1>3, TypeCorrect, PTL DEF Spec

\* The promise of flush() by itself: an edit whose flush() resolved has been in
\* the file, or was taken away by the file's content or removal.
THEOREM FlushIsTrue ==
    ASSUME "teardown" \notin Ops
    PROVE  Spec => []FlushedIsAccountedFor
BY SavesOrFailsLoudly, PTL

------------------------------------------------------------------------------
(* Losses are announced. *)

\* What the session has written, or believes to be in the file, has been there.
WrittenIsDurable ==
    /\ lastWritten # None => lastWritten \subseteq durable
    /\ loop.pc = "snap" => loop.content \subseteq durable
    /\ op.pc = "snap" => op.text \subseteq durable

LossInv == FileIsDurable /\ WrittenIsDurable /\ LossIsAnnounced

\* The bounds that are used up are never given back.
LEMMA UsedGrows ==
    ASSUME TypeOK, [Next]_vars
    PROVE  /\ used'.snap = 0 => used.snap = 0
           /\ used'.write = 0 => used.write = 0
           /\ used.ops \subseteq used'.ops
           /\ used.ext \subseteq used'.ext
<1>0. /\ used \in [ext : SUBSET Ext, ops : SUBSET Ops, write : Nat, snap : Nat]
      /\ used.snap \in Nat /\ used.write \in Nat
  BY DEF TypeOK, UsedType
<1>1. \A m : Fails("snap", m) => /\ used'.snap = used.snap + 1 /\ used'.write = used.write
                                 /\ used'.ops = used.ops /\ used'.ext = used.ext
  BY <1>0 DEF Fails
<1>2. \A m : Fails("write", m) => /\ used'.write = used.write + 1 /\ used'.snap = used.snap
                                  /\ used'.ops = used.ops /\ used'.ext = used.ext
  BY <1>0 DEF Fails
<1>3. CASE \E k \in Ops : StartOp(k)
  BY <1>0, <1>3 DEF StartOp
<1>4. CASE \E x \in Ext : ExternalWrite(x)
  BY <1>0, <1>4 DEF ExternalWrite
<1>5. CASE LoadSnapshot \/ LoopFails \/ CheckFails \/ SubtreeAbandoned \/ OpFails
  <2>1. \/ used' = used
        \/ Fails("snap", MaxSnapFail) \/ Fails("write", MaxWriteFail)
    BY <1>5 DEF LoadSnapshot, LoopFails, CheckFails, SubtreeAbandoned, OpFails
  <2> QED
    BY <1>0, <1>1, <1>2, <2>1
<1>6. CASE used' = used
  BY <1>6
<1>7. OpenSession \/ LoadFile \/ LoadMissing \/ CreateMissing => used' = used
  BY DEF OpenSession, LoadFile, LoadMissing, CreateMissing
<1>8. (\E e \in Edit : ApplyEdit(e)) \/ FlushDirty \/ Detach \/ ResumeAfterCloseFailure
        => used' = used
  BY DEF ApplyEdit, FlushDirty, Detach, ResumeAfterCloseFailure
<1>9. LoopReadDisk \/ LoopStartsWrite \/ LoopReconciles \/ LoopFindsMissing
        \/ LoopRenames \/ LoopPersisted \/ LoopReconciled => used' = used
  BY DEF LoopReadDisk, LoopStartsWrite, LoopReconciles, LoopFindsMissing,
         LoopRenames, LoopPersisted, LoopReconciled
<1>10. StartCheck \/ CheckReadDisk \/ CheckIgnores \/ CheckFindsMissing
         \/ CheckReconciles \/ CheckReconciled => used' = used
  BY DEF StartCheck, CheckReadDisk, CheckIgnores, CheckFindsMissing,
         CheckReconciles, CheckReconciled
<1>11. OpAfterCheck \/ SubtreePrepared \/ OpMovesDisk \/ OpWritesMoved \/ OpMoved
         \/ OpDeletesDisk \/ OpDeleted \/ UNCHANGED vars => used' = used
  BY DEF OpAfterCheck, SubtreePrepared, OpMovesDisk, OpWritesMoved, OpMoved,
         OpDeletesDisk, OpDeleted, vars
<1> QED
  BY <1>3, <1>4, <1>5, <1>6, <1>7, <1>8, <1>9, <1>10, <1>11
     DEF Next, OpenStep, LoopStep, CheckStep, OpStep, Environment

\* A call of flush() or a request to persist starts the loop only if it is idle.
LEMMA LoopBusyKept ==
    ASSUME TypeOK,
           \/ \E e \in Edit : ApplyEdit(e)
           \/ FlushDirty \/ Detach \/ OpAfterCheck
           \/ \E k \in Ops : StartOp(k)
    PROVE  loop' = loop \/ (~Busy /\ loop'.pc \in {"read", "transition"})
<1>1. \A w, t : CallFlush(w, t) => loop' = loop \/ ~Busy
  BY DEF CallFlush
<1>2. \A t : RequestPersist(t) => loop' = loop \/ ~Busy
  BY DEF RequestPersist
<1>3. \A w, t : CallFlush(w, t) => loop' = loop \/ loop'.pc \in {"read", "transition"}
  BY DEF CallFlush, BeginMaterialize
<1>4. \A t : RequestPersist(t) => loop' = loop \/ loop'.pc \in {"read", "transition"}
  BY DEF RequestPersist, BeginMaterialize
<1>5. \/ \E w, t : CallFlush(w, t)
      \/ \E t : RequestPersist(t)
      \/ UNCHANGED loop
  BY DEF ApplyEdit, FlushDirty, Detach, StartOp, OpAfterCheck, OpFlush, persistVars
<1> QED
  BY <1>1, <1>2, <1>3, <1>4, <1>5

\* A mutation is never between a write and its snapshot when its flush() returns.
LEMMA OpPc ==
    ASSUME NEW k, NEW r, NEW gone
    PROVE  AfterFlush(k, r, gone).pc \in {"idle", "disk", "hold", "flush"}
BY DEF AfterFlush, NoOp

\* The same of a mutation that resumes in a step of the loop.
LEMMA OpResumesPc ==
    ASSUME NEW gone, NEW watch, OpResumes(gone, watch)
    PROVE  op' = op \/ op'.pc \in {"idle", "disk", "hold", "flush"}
BY OpPc DEF OpResumes

\* Every step keeps what was written durable.
LEMMA WrittenStep ==
    ASSUME TypeOK, FileIsDurable, WrittenIsDurable, [Next]_vars
    PROVE  WrittenIsDurable'
<1> USE DEF fileVars, openVars, docVars, persistVars
<1>0. /\ durable \subseteq durable'
      /\ loop \in LoopType /\ op \in OpType /\ path \in Path /\ loop.path \in Path
      /\ loop.failure \in BOOLEAN /\ persistFailed \in BOOLEAN /\ deleted \in BOOLEAN
      /\ text \in Text /\ loop.content \in Text /\ op.text \in Text
      /\ \A t \in Text : t # Missing /\ t # None
  BY FileStep, ConstantsAssumption DEF TypeOK, LoopType, OpType
<1>k. ASSUME lastWritten' = lastWritten,
             loop' = loop \/ loop'.pc # "snap", op' = op \/ op'.pc # "snap"
      PROVE  WrittenIsDurable'
  BY <1>0, <1>k DEF WrittenIsDurable
<1>1. CASE LoadFile \/ CreateMissing
  <2>1. /\ \/ lastWritten' = disk[path] /\ disk[path] # Missing
           \/ lastWritten' = {}
        /\ loop' = loop /\ op' = op
    BY <1>1 DEF LoadFile, CreateMissing
  <2> QED
    BY <1>0, <2>1 DEF WrittenIsDurable, FileIsDurable
<1>2. CASE LoopReconciles
  <2>1. lastWritten' = loop.disk /\ loop.pc = "got" /\ loop.disk # Missing /\ op' = op
    BY <1>2 DEF LoopReconciles, TakeContent
  <2>2. loop'.pc = "rsnap"
    BY <1>0, <1>2 DEF LoopReconciles, LoopType
  <2> QED
    BY <1>0, <2>1, <2>2 DEF WrittenIsDurable, FileIsDurable
<1>3. CASE CheckReconciles
  <2>1. /\ lastWritten' = check.disk /\ check.pc = "got" /\ check.disk # Missing
        /\ op' = op /\ loop' = loop
    BY <1>3 DEF CheckReconciles, TakeContent
  <2> QED
    BY <1>0, <2>1 DEF WrittenIsDurable, FileIsDurable
<1>4. CASE LoopRenames
  <2>1. loop'.content = loop.content /\ lastWritten' = lastWritten /\ op' = op
    BY <1>0, <1>4 DEF LoopRenames, LoopType
  <2>2. loop.content \subseteq durable'
    BY <1>0, <1>4 DEF LoopRenames, WriteDisk
  <2> QED
    BY <1>0, <2>1, <2>2 DEF WrittenIsDurable
<1>5. CASE OpWritesMoved
  <2>1. op'.text = op.text /\ lastWritten' = lastWritten /\ loop' = loop
    BY <1>0, <1>5 DEF OpWritesMoved, OpType
  <2>2. op.text \subseteq durable'
    BY <1>0, <1>5 DEF OpWritesMoved, WriteDisk
  <2> QED
    BY <1>0, <2>1, <2>2 DEF WrittenIsDurable
<1>6. CASE LoopFindsMissing \/ LoopPersisted \/ LoopReconciled \/ LoopFails
  <2>1. loop'.pc # "snap"
    <3>1. loop'.pc \in {"idle", "transition", "read"}
      BY <1>0, <1>6, PendingType, IterationEndsPc, ZenonT(40)
         DEF LoopFindsMissing, LoopPersisted, LoopReconciled, LoopFails
    <3> QED
      BY <3>1
  <2>2. \E gone, watch : OpResumes(gone, watch)
    BY <1>6 DEF LoopFindsMissing, LoopPersisted, LoopReconciled, LoopFails
  <2>3. op' = op \/ op'.pc # "snap"
    BY <2>2, OpResumesPc
  <2>4. \/ lastWritten' = lastWritten
        \/ lastWritten' = loop.content /\ loop.pc = "snap"
    BY <1>6 DEF LoopFindsMissing, LoopPersisted, LoopReconciled, LoopFails
  <2> QED
    BY <1>0, <2>1, <2>3, <2>4 DEF WrittenIsDurable
<1>7. CASE OpMoved \/ OpDeleted \/ OpFails \/ OpMovesDisk
  <2>1. loop' = loop \/ loop'.pc \in {"idle", "transition", "read"}
    BY <1>7, TransitionPc DEF OpMoved, OpDeleted, OpFails, OpMovesDisk, TypeOK
  <2>2. op'.pc # "snap"
    <3>1. op' = NoOp \/ op' = [op EXCEPT !.pc = "write", !.text = text]
      BY <1>7 DEF OpMoved, OpDeleted, OpFails, OpMovesDisk
    <3>2. [op EXCEPT !.pc = "write", !.text = text].pc = "write"
      BY <1>0 DEF OpType
    <3>3. NoOp.pc = "idle"
      BY DEF NoOp
    <3> QED
      BY <3>1, <3>2, <3>3
  <2>3. lastWritten' = lastWritten \/ (lastWritten' = op.text /\ op.pc = "snap")
    BY <1>7 DEF OpMoved, OpDeleted, OpFails, OpMovesDisk
  <2> QED
    BY <1>0, <2>1, <2>2, <2>3 DEF WrittenIsDurable
<1>8. CASE (\E e \in Edit : ApplyEdit(e)) \/ FlushDirty \/ Detach \/ OpAfterCheck
             \/ \E k \in Ops : StartOp(k)
  <2>1. loop' = loop \/ loop'.pc # "snap"
    BY <1>8, LoopBusyKept
  <2>2. op' = op \/ op'.pc # "snap"
    <3>1. \/ op' = op \/ op' = NoOp
          \/ \E k, r : op' = AfterFlush(k, r, FALSE)
          \/ \E k : op' = [kind |-> k, pc |-> "check", text |-> {}]
      BY <1>8 DEF ApplyEdit, FlushDirty, Detach, OpAfterCheck, StartOp, OpFlush
    <3>2. NoOp.pc = "idle"
      BY DEF NoOp
    <3>3. \A k, r : AfterFlush(k, r, FALSE).pc \in {"idle", "disk", "hold", "flush"}
      BY OpPc
    <3>4. \A k : [kind |-> k, pc |-> "check", text |-> {}].pc = "check"
      OBVIOUS
    <3> QED
      BY <3>1, <3>2, <3>3, <3>4
  <2>3. lastWritten' = lastWritten
    BY <1>8 DEF ApplyEdit, FlushDirty, Detach, OpAfterCheck, StartOp
  <2> QED
    BY <1>k, <2>1, <2>2, <2>3
<1>9. CASE LoopReadDisk \/ LoopStartsWrite
  <2>1. loop'.pc # "snap" /\ lastWritten' = lastWritten /\ op' = op
    BY <1>0, <1>9 DEF LoopReadDisk, LoopStartsWrite, LoopType
  <2> QED
    BY <1>k, <2>1
<1>10. CASE SubtreePrepared \/ SubtreeAbandoned \/ OpDeletesDisk \/ CheckFails
              \/ ResumeAfterCloseFailure
  <2>1. loop' = loop /\ lastWritten' = lastWritten
    BY <1>10 DEF SubtreePrepared, SubtreeAbandoned, OpDeletesDisk, CheckFails,
                 ResumeAfterCloseFailure
  <2>2. op' \in {op, NoOp, [op EXCEPT !.pc = "disk"], [op EXCEPT !.pc = "rm"]}
    BY <1>10 DEF SubtreePrepared, SubtreeAbandoned, OpDeletesDisk, CheckFails,
                 ResumeAfterCloseFailure
  <2>3. /\ [op EXCEPT !.pc = "disk"].pc = "disk" /\ [op EXCEPT !.pc = "rm"].pc = "rm"
        /\ NoOp.pc = "idle"
    BY <1>0 DEF OpType, NoOp
  <2> QED
    BY <1>k, <2>1, <2>2, <2>3
<1>11. CASE OpenSession \/ LoadMissing \/ LoadSnapshot \/ (\E x \in Ext : ExternalWrite(x))
              \/ StartCheck \/ CheckReadDisk \/ CheckIgnores \/ CheckFindsMissing
              \/ CheckReconciled \/ UNCHANGED vars
  <2>1. loop' = loop /\ lastWritten' = lastWritten /\ op' = op
    BY <1>11 DEF OpenSession, LoadMissing, LoadSnapshot, ExternalWrite, StartCheck,
                 CheckReadDisk, CheckIgnores, CheckFindsMissing, CheckReconciled, vars
  <2> QED
    BY <1>k, <2>1
<1> QED
  BY <1>1, <1>2, <1>3, <1>4, <1>5, <1>6, <1>7, <1>8, <1>9, <1>10, <1>11
     DEF Next, OpenStep, LoopStep, CheckStep, OpStep, Environment

\* A reconcile that is not announced as a change takes nothing away that was
\* never in the file.
LEMMA HarmlessMerge ==
    ASSUME TypeOK, WrittenIsDurable, NEW content,
           ReconcileEvent(content) # "external-change"
    PROVE  (text \ content) \ durable = {}
<1>1. text \in Text /\ text # None
  BY ConstantsAssumption DEF TypeOK
<1>2. text = content \/ text = lastWritten
  BY DEF ReconcileEvent
<1> QED
  BY <1>1, <1>2 DEF WrittenIsDurable

\* Every step keeps a loss in the hands of the reconcile that will announce it.
LEMMA LossStep ==
    ASSUME TypeOK, LossInv, [Next]_vars
    PROVE  LossIsAnnounced'
<1> USE DEF fileVars, openVars, docVars, persistVars
<1> DEFINE LoopTells == loop.pc = "rsnap" /\ loop.event = "external-change"
           CheckTells == check.pc = "rsnap" /\ check.event = "external-change"
<1>0. /\ loop \in LoopType /\ check \in CheckType
      /\ LossIsAnnounced /\ WrittenIsDurable
      /\ used'.snap = 0 => used.snap = 0
  BY UsedGrows DEF TypeOK, LossInv
<1>k. ASSUME unannounced' \in {unannounced, {}},
             LoopTells => loop' = loop \/ unannounced' = {},
             CheckTells => check' = check \/ unannounced' = {} \/ used'.snap # 0
      PROVE  LossIsAnnounced'
  BY <1>0, <1>k DEF LossIsAnnounced
<1>1. CASE LoopReconciles
  <2>1. /\ unannounced' = unannounced \cup ((text \ loop.disk) \ durable)
        /\ check' = check /\ used' = used /\ loop.pc = "got"
    BY <1>1 DEF LoopReconciles, TakeContent
  <2>2. loop'.pc = "rsnap" /\ loop'.event = ReconcileEvent(loop.disk)
    BY <1>0, <1>1 DEF LoopReconciles, LoopType
  <2>3. CASE ReconcileEvent(loop.disk) = "external-change"
    BY <2>2, <2>3 DEF LossIsAnnounced
  <2>4. CASE ReconcileEvent(loop.disk) # "external-change"
    <3>1. (text \ loop.disk) \ durable = {}
      BY <1>0, <2>4, HarmlessMerge
    <3> QED
      BY <1>0, <2>1, <3>1 DEF LossIsAnnounced
  <2> QED
    BY <2>3, <2>4
<1>2. CASE CheckReconciles
  <2>1. /\ unannounced' = unannounced \cup ((text \ check.disk) \ durable)
        /\ loop' = loop /\ used' = used /\ check.pc = "got"
    BY <1>2 DEF CheckReconciles, TakeContent
  <2>2. check'.pc = "rsnap" /\ check'.event = ReconcileEvent(check.disk)
    BY <1>0, <1>2 DEF CheckReconciles, CheckType
  <2>3. CASE ReconcileEvent(check.disk) = "external-change"
    BY <2>2, <2>3 DEF LossIsAnnounced
  <2>4. CASE ReconcileEvent(check.disk) # "external-change"
    <3>1. (text \ check.disk) \ durable = {}
      BY <1>0, <2>4, HarmlessMerge
    <3> QED
      BY <1>0, <2>1, <3>1 DEF LossIsAnnounced
  <2> QED
    BY <2>3, <2>4
<1>e. \A events : Emit(events) => unannounced' \in {unannounced, {}}
  BY DEF Emit
<1>q. Quiet => unannounced' = unannounced
  BY DEF Quiet
<1>3. CASE LoopReconciled
  <2>1. /\ Emit({loop.event} \ {"none"}) /\ check' = check
    BY <1>3 DEF LoopReconciled
  <2>2. LoopTells => unannounced' = {}
    BY <2>1 DEF Emit, Loud
  <2> QED
    BY <1>k, <1>e, <2>1, <2>2
<1>4. CASE CheckReconciled
  <2>1. /\ Emit({check.event} \ {"none"}) /\ loop' = loop
    BY <1>4 DEF CheckReconciled
  <2>2. CheckTells => unannounced' = {}
    BY <2>1 DEF Emit, Loud
  <2> QED
    BY <1>k, <1>e, <2>1, <2>2
<1>5. CASE LoopFails
  <2>1. Emit({"persist-failure"}) /\ check' = check
    BY <1>5 DEF LoopFails
  <2>2. unannounced' = {}
    BY <2>1 DEF Emit, Loud
  <2> QED
    BY <2>2 DEF LossIsAnnounced
<1>6. CASE CheckFails
  <2>1. loop' = loop /\ unannounced' = unannounced
    BY <1>6, <1>q DEF CheckFails
  <2>2. CheckTells => used'.snap # 0
    <3>1. CheckTells => Fails("snap", MaxSnapFail)
      BY <1>6 DEF CheckFails
    <3>2. used \in UsedType
      BY DEF TypeOK
    <3>3. Fails("snap", MaxSnapFail) => used'.snap = used.snap + 1 /\ used.snap \in Nat
      BY <3>2 DEF Fails, UsedType
    <3> QED
      BY <3>1, <3>3
  <2> QED
    BY <1>k, <2>1, <2>2
<1>7. CASE LoopReadDisk \/ LoopStartsWrite \/ LoopFindsMissing \/ LoopRenames \/ LoopPersisted
  <2>1. ~LoopTells /\ check' = check
    BY <1>7 DEF LoopReadDisk, LoopStartsWrite, LoopFindsMissing, LoopRenames, LoopPersisted
  <2>2. unannounced' \in {unannounced, {}}
    BY <1>7, <1>e, <1>q DEF LoopReadDisk, LoopStartsWrite, LoopFindsMissing, LoopRenames,
                            LoopPersisted, MarkDeleted
  <2> QED
    BY <1>k, <2>1, <2>2
<1>8. CASE StartCheck \/ CheckReadDisk \/ CheckIgnores \/ CheckFindsMissing
  <2>1. ~CheckTells /\ loop' = loop
    BY <1>8 DEF StartCheck, CheckReadDisk, CheckIgnores, CheckFindsMissing
  <2>2. unannounced' \in {unannounced, {}}
    BY <1>8, <1>e, <1>q DEF StartCheck, CheckReadDisk, CheckIgnores, CheckFindsMissing,
                            MarkDeleted
  <2> QED
    BY <1>k, <2>1, <2>2
<1>9. CASE (\E e \in Edit : ApplyEdit(e)) \/ FlushDirty \/ Detach \/ OpAfterCheck
             \/ \E k \in Ops : StartOp(k)
  <2>1. LoopTells => loop' = loop
    BY <1>9, LoopBusyKept DEF Busy
  <2>2. unannounced' = unannounced /\ check' = check
    BY <1>9, <1>q DEF ApplyEdit, FlushDirty, Detach, OpAfterCheck, StartOp
  <2> QED
    BY <1>k, <2>1, <2>2
<1>10. CASE OpMovesDisk \/ OpMoved \/ OpDeleted \/ OpFails
  <2>1. LoopTells => loop' = loop
    BY <1>10 DEF OpMovesDisk, OpMoved, OpDeleted, OpFails, TransitionSucceeds, TransitionFails
  <2>2. TransitionFails => unannounced' \in {unannounced, {}}
    BY <1>e, <1>q DEF TransitionFails
  <2>3. check' = check /\ unannounced' \in {unannounced, {}}
    BY <1>10, <1>e, <1>q, <2>2 DEF OpMovesDisk, OpMoved, OpDeleted, OpFails, MarkDeleted
  <2> QED
    BY <1>k, <2>1, <2>3
<1>11. CASE \/ OpenSession \/ LoadFile \/ LoadMissing \/ CreateMissing \/ LoadSnapshot
            \/ \E x \in Ext : ExternalWrite(x)
            \/ SubtreePrepared \/ SubtreeAbandoned \/ OpWritesMoved \/ OpDeletesDisk
            \/ ResumeAfterCloseFailure \/ UNCHANGED vars
  <2>1. loop' = loop /\ check' = check /\ unannounced' = unannounced
    BY <1>11, <1>q DEF OpenSession, LoadFile, LoadMissing, CreateMissing, LoadSnapshot,
          ExternalWrite, SubtreePrepared, SubtreeAbandoned, OpWritesMoved, OpDeletesDisk,
          ResumeAfterCloseFailure, vars
  <2> QED
    BY <1>k, <2>1
<1> QED
  BY <1>1, <1>2, <1>3, <1>4, <1>5, <1>6, <1>7, <1>8, <1>9, <1>10, <1>11
     DEF Next, OpenStep, LoopStep, CheckStep, OpStep, Environment

\* What a reconcile takes out of a document although it never was in the file is
\* announced to the clients as a change, for any number of edits, external
\* writes, mutations and failing reads and writes, as long as no write of a
\* state snapshot fails.
THEOREM LossesAreAnnounced == Spec => []LossIsAnnounced
<1>1. Init => LossInv
  <2> SUFFICES ASSUME Init PROVE LossInv
    OBVIOUS
  <2>1. FileIsDurable
    BY DEF Init, FileIsDurable, LoopIdle, CheckIdle
  <2>2. WrittenIsDurable /\ LossIsAnnounced
    BY DEF Init, WrittenIsDurable, LossIsAnnounced, LoopIdle, NoOp
  <2> QED
    BY <2>1, <2>2 DEF LossInv
<1>2. TypeOK /\ LossInv /\ [Next]_vars => LossInv'
  BY FileStep, WrittenStep, LossStep DEF LossInv
<1>3. LossInv => LossIsAnnounced
  BY DEF LossInv
<1> QED
  BY <1>1, <1>2, <1>3, TypeCorrect, PTL DEF Spec

------------------------------------------------------------------------------
(* Live sessions are watched. *)

\* The mutation that runs is one of those started, and only the move of the
\* file or of a folder above it holds, writes and snapshots the session.
OpIsCounted ==
    /\ op.pc # "idle" => op.kind \in used.ops
    /\ op.pc = "hold" => op.kind = "subtree"
    /\ op.pc \in {"write", "snap"} => op.kind \in {"move", "subtree"}
    /\ op.pc = "disk" => op.kind \in {"move", "subtree", "delete"}
    /\ op.pc = "rm" => op.kind = "delete"

\* A close, unlike the other mutations, goes on watching until its flush() has
\* succeeded.
WatchedUntilClosed ==
    /\ subscribed /\ ~deleted /\ (op.pc = "idle" \/ IsClose(op.kind))
    /\ NothingFailed \/ used.ops \cap {"move", "subtree"} = {}
    => watching

WatchInv == OpIsCounted /\ WatchedUntilClosed

\* What a mutation is after its flush() returned.
LEMMA AfterFlushCases ==
    ASSUME NEW k \in OpKind, NEW r \in {"none", "first", "retry", "ok", "failed"},
           NEW gone \in BOOLEAN
    PROVE  LET o == AfterFlush(k, r, gone)
           IN  /\ o.pc # "idle" => o.kind = k
               /\ o.pc \in {"idle", "disk", "hold", "flush"}
               /\ o.pc = "hold" => k = "subtree"
               /\ o.pc = "disk" => k \in {"move", "delete"}
               /\ o.pc = "idle" /\ ~gone /\ r # "failed" => r = "ok" /\ IsClose(k)
               /\ o.pc # "flush" => r \in {"ok", "failed"}
               /\ r = "failed" \/ (r = "ok" /\ IsClose(k)) => o.pc = "idle"
               /\ r = "ok" => o.pc # "flush"
BY DEF AfterFlush, NoOp, OpKind, IsClose

\* Every step keeps the mutation one of those started.
LEMMA OpCountedStep ==
    ASSUME TypeOK, TypeOK', OpIsCounted, [Next]_vars
    PROVE  OpIsCounted'
<1> USE DEF fileVars, openVars, docVars, persistVars
<1>0. /\ op \in OpType /\ used \in UsedType /\ deleted \in BOOLEAN
      /\ flush'["op"] \in {"none", "first", "retry", "ok", "failed"}
      /\ Ops \subseteq OpKind /\ used.ops \subseteq Ops
      /\ used.ops \subseteq used'.ops
      /\ NoOp.pc = "idle"
  BY UsedGrows, ConstantsAssumption DEF TypeOK, OpType, UsedType, FlushType, Waiter, NoOp
<1>k. CASE op' = op \/ op'.pc = "idle"
  BY <1>0, <1>k DEF OpIsCounted
<1>a. ASSUME NEW k \in OpKind, NEW gone \in BOOLEAN, k \in used'.ops,
             op' = AfterFlush(k, flush'["op"], gone)
      PROVE  OpIsCounted'
  <2>1. /\ op'.pc # "idle" => op'.kind = k
        /\ op'.pc \in {"idle", "disk", "hold", "flush"}
        /\ op'.pc = "hold" => k = "subtree"
        /\ op'.pc = "disk" => k \in {"move", "delete"}
    BY <1>0, <1>a, AfterFlushCases
  <2> QED
    BY <1>a, <2>1 DEF OpIsCounted
<1>1. CASE LoopFindsMissing \/ LoopPersisted \/ LoopReconciled \/ LoopFails
  <2>1. PICK gone \in BOOLEAN : \E watch : OpResumes(gone, watch)
    BY <1>0, <1>1 DEF LoopFindsMissing, LoopPersisted, LoopReconciled, LoopFails
  <2>2. CASE op' = op
    BY <1>k, <2>2
  <2>3. CASE op.pc = "flush" /\ op' = AfterFlush(op.kind, flush'["op"], gone)
    <3>1. op.kind \in used.ops
      BY <2>3 DEF OpIsCounted
    <3> QED
      BY <1>0, <1>a, <2>3, <3>1
  <2> QED
    BY <2>1, <2>2, <2>3 DEF OpResumes
<1>2. CASE \E k \in Ops : StartOp(k)
  <2> PICK k \in Ops : StartOp(k)
    BY <1>2
  <2>1. used'.ops = used.ops \cup {k}
    BY <1>0 DEF StartOp, UsedType
  <2>2. CASE op' = [kind |-> k, pc |-> "check", text |-> {}]
    BY <2>1, <2>2 DEF OpIsCounted
  <2>3. CASE op' = AfterFlush(k, flush'["op"], FALSE)
    BY <1>0, <1>a, <2>1, <2>3
  <2> QED
    BY <2>2, <2>3 DEF StartOp, OpFlush
<1>3. CASE OpAfterCheck
  <2>1. op' = NoOp \/ op' = AfterFlush(op.kind, flush'["op"], FALSE)
    BY <1>3 DEF OpAfterCheck, OpFlush
  <2>2. op.kind \in used.ops
    BY <1>3 DEF OpAfterCheck, OpIsCounted
  <2> QED
    BY <1>0, <1>a, <1>k, <2>1, <2>2
<1>4. CASE SubtreePrepared \/ OpMovesDisk \/ OpWritesMoved \/ OpDeletesDisk
  <2>1. op.pc \in {"hold", "disk", "write"} /\ op.kind \in used.ops
    BY <1>4 DEF SubtreePrepared, OpMovesDisk, OpWritesMoved, OpDeletesDisk, OpIsCounted
  <2>2. CASE SubtreePrepared
    <3>1. op' = NoOp \/ (op'.pc = "disk" /\ op'.kind = op.kind)
      BY <1>0, <2>2 DEF SubtreePrepared, OpType
    <3> QED
      BY <1>0, <1>k, <2>1, <2>2, <3>1 DEF SubtreePrepared, OpIsCounted
  <2>3. CASE OpMovesDisk
    <3>1. op' = NoOp \/ (op' = [op EXCEPT !.pc = "write", !.text = text])
      BY <2>3 DEF OpMovesDisk
    <3>2. LET o == [op EXCEPT !.pc = "write", !.text = text]
          IN  o.pc = "write" /\ o.kind = op.kind
      BY <1>0 DEF OpType
    <3> QED
      BY <1>0, <1>k, <2>1, <2>3, <3>1, <3>2 DEF OpMovesDisk, OpIsCounted
  <2>4. CASE OpWritesMoved
    <3>1. op'.pc = "snap" /\ op'.kind = op.kind
      BY <1>0, <2>4 DEF OpWritesMoved, OpType
    <3> QED
      BY <1>0, <2>1, <2>4, <3>1 DEF OpWritesMoved, OpIsCounted
  <2>5. CASE OpDeletesDisk
    <3>1. op'.pc = "rm" /\ op'.kind = op.kind
      BY <1>0, <2>5 DEF OpDeletesDisk, OpType
    <3> QED
      BY <1>0, <2>1, <2>5, <3>1 DEF OpDeletesDisk, OpIsCounted
  <2> QED
    BY <1>4, <2>2, <2>3, <2>4, <2>5
<1>5. CASE SubtreeAbandoned \/ OpMoved \/ OpDeleted \/ OpFails \/ ResumeAfterCloseFailure
             \/ CheckFails
  <2>1. op' = NoOp \/ op' = op
    BY <1>5 DEF SubtreeAbandoned, OpMoved, OpDeleted, OpFails, ResumeAfterCloseFailure,
                CheckFails
  <2> QED
    BY <1>0, <1>k, <2>1
<1>6. OpenStep => op' = op
  BY DEF OpenStep, OpenSession, LoadFile, LoadMissing, CreateMissing, LoadSnapshot
<1>7. LoopReadDisk \/ LoopStartsWrite \/ LoopReconciles \/ LoopRenames => op' = op
  BY DEF LoopReadDisk, LoopStartsWrite, LoopReconciles, LoopRenames
<1>8. StartCheck \/ CheckReadDisk \/ CheckIgnores \/ CheckFindsMissing
         \/ CheckReconciles \/ CheckReconciled => op' = op
  BY DEF StartCheck, CheckReadDisk, CheckIgnores, CheckFindsMissing,
         CheckReconciles, CheckReconciled
<1>9. (\E e \in Edit : ApplyEdit(e)) \/ FlushDirty \/ Detach
         \/ (\E x \in Ext : ExternalWrite(x)) \/ UNCHANGED vars => op' = op
  BY DEF ApplyEdit, FlushDirty, Detach, ExternalWrite, vars
<1> QED
  BY <1>k, <1>1, <1>2, <1>3, <1>4, <1>5, <1>6, <1>7, <1>8, <1>9
     DEF Next, LoopStep, CheckStep, OpStep, Environment

\* Every step keeps an unclosed session watched.
LEMMA WatchedStep ==
    ASSUME TypeOK, TypeOK', WatchInv, [Next]_vars
    PROVE  WatchedUntilClosed'
<1> USE DEF fileVars, openVars, docVars, persistVars
<1> DEFINE MoveIsClean == NothingFailed \/ used.ops \cap {"move", "subtree"} = {}
<1>0. /\ op \in OpType /\ used \in UsedType
      /\ deleted \in BOOLEAN /\ watching \in BOOLEAN /\ subscribed \in BOOLEAN
      /\ deleted' \in BOOLEAN /\ watching' \in BOOLEAN /\ subscribed' \in BOOLEAN
      /\ flush'["op"] \in {"none", "first", "retry", "ok", "failed"}
      /\ Ops \subseteq OpKind /\ used.ops \subseteq Ops
      /\ NoOp.pc = "idle" /\ ~IsClose(NoOp.kind)
      /\ OpIsCounted /\ WatchedUntilClosed
  BY ConstantsAssumption
     DEF TypeOK, OpType, UsedType, FlushType, Waiter, NoOp, IsClose, WatchInv
<1>g. MoveIsClean' => MoveIsClean
  BY UsedGrows DEF NothingFailed
<1>w. CASE watching' \/ deleted' \/ ~subscribed'
  BY <1>0, <1>w DEF WatchedUntilClosed
<1>k. CASE op' = op /\ watching' = watching /\ subscribed' = subscribed /\ deleted' = deleted
  BY <1>0, <1>g, <1>k DEF WatchedUntilClosed
<1>f. ASSUME NEW k \in OpKind, NEW gone \in BOOLEAN, NEW watch \in BOOLEAN,
             deleted' = gone, gone \/ ~IsClose(k) \/ ~subscribed \/ ~MoveIsClean' \/ watch,
             op' = AfterFlush(k, flush'["op"], gone),
             AfterFlushWatch(k, flush'["op"], gone, watch)
      PROVE  WatchedUntilClosed'
  <2>1. SUFFICES ASSUME ~gone, subscribed', op'.pc = "idle" \/ IsClose(op'.kind), MoveIsClean'
                 PROVE  watching'
    BY <1>f DEF WatchedUntilClosed
  <2> DEFINE r == flush'["op"]
  <2>2. /\ op'.pc # "idle" => op'.kind = k
        /\ op'.pc = "idle" /\ ~gone /\ r # "failed" => r = "ok" /\ IsClose(k)
        /\ op'.pc # "flush" => r \in {"ok", "failed"}
    BY <1>0, <1>f, AfterFlushCases
  <2>3. /\ subscribed /\ ~(r = "ok" /\ IsClose(k))
        /\ watching' = IF r = "failed" /\ k \in {"move", "subtree", "delete"} THEN ~gone ELSE watch
    BY <1>f, <2>1 DEF AfterFlushWatch, IsClose
  <2>4. CASE r = "failed" /\ k \in {"move", "subtree", "delete"}
    BY <2>1, <2>3, <2>4
  <2>5. CASE ~(r = "failed" /\ k \in {"move", "subtree", "delete"})
    <3>1. IsClose(k)
      BY <2>1, <2>2, <2>3, <2>5 DEF OpKind, IsClose
    <3> QED
      BY <1>f, <2>1, <2>3, <2>5, <3>1
  <2> QED
    BY <2>4, <2>5
<1>1. CASE LoopFindsMissing
  BY <1>1, <1>w DEF LoopFindsMissing, MarkDeleted
<1>2. CASE LoopPersisted \/ LoopReconciled \/ LoopFails
  <2>1. OpResumes(deleted, watching) /\ deleted' = deleted
    BY <1>2 DEF LoopPersisted, LoopReconciled, LoopFails
  <2>2. CASE watching' = watching /\ op' = op /\ subscribed' = subscribed
    BY <1>k, <2>1, <2>2
  <2>3. CASE /\ op.pc = "flush" /\ op' = AfterFlush(op.kind, flush'["op"], deleted)
             /\ AfterFlushWatch(op.kind, flush'["op"], deleted, watching)
    <3>1. op.kind \in OpKind
      BY <1>0, <2>3 DEF OpIsCounted
    <3>2. deleted \/ ~IsClose(op.kind) \/ ~subscribed \/ ~MoveIsClean' \/ watching
      BY <1>0, <1>g DEF WatchedUntilClosed
    <3> QED
      BY <1>0, <1>f, <2>1, <2>3, <3>1, <3>2
  <2> QED
    BY <2>1, <2>2, <2>3 DEF OpResumes
<1>3. CASE \E k \in Ops : StartOp(k)
  <2> PICK k \in Ops : StartOp(k)
    BY <1>3
  <2>1. k \in OpKind /\ ~deleted /\ subscribed /\ op.pc = "idle" /\ deleted' = deleted
    BY <1>0 DEF StartOp
  <2>2. CASE op' = [kind |-> k, pc |-> "check", text |-> {}] /\ ~IsClose(k)
    BY <2>2 DEF WatchedUntilClosed
  <2>3. CASE OpFlush(k, IsClose(k) /\ watching)
    <3>1. PICK b \in BOOLEAN : b = (IsClose(k) /\ watching)
      OBVIOUS
    <3>2. ~IsClose(k) \/ ~MoveIsClean' \/ b
      BY <1>0, <1>g, <2>1, <3>1 DEF WatchedUntilClosed
    <3>3. op' = AfterFlush(k, flush'["op"], FALSE) /\ AfterFlushWatch(k, flush'["op"], FALSE, b)
      BY <2>3, <3>1 DEF OpFlush
    <3>4. deleted' = FALSE
      BY <1>0, <2>1
    <3> QED
      BY <1>f, <2>1, <3>2, <3>3, <3>4
  <2> QED
    BY <2>2, <2>3 DEF StartOp
<1>4. CASE OpAfterCheck
  <2>1. CASE deleted
    BY <1>4, <1>w, <2>1 DEF OpAfterCheck
  <2>2. CASE ~deleted
    <3>1. /\ op' = AfterFlush(op.kind, flush'["op"], FALSE)
          /\ AfterFlushWatch(op.kind, flush'["op"], FALSE, watching)
          /\ deleted' = FALSE /\ op.pc = "check"
      BY <1>0, <1>4, <2>2 DEF OpAfterCheck, OpFlush
    <3>2. op.kind \in OpKind
      BY <1>0, <3>1 DEF OpIsCounted
    <3>3. ~IsClose(op.kind) \/ ~subscribed \/ ~MoveIsClean' \/ watching
      BY <1>0, <1>g, <2>2 DEF WatchedUntilClosed
    <3> QED
      BY <1>0, <1>f, <3>1, <3>2, <3>3
  <2> QED
    BY <2>1, <2>2
<1>5. CASE CheckFails
  <2>1. CASE op.pc = "check"
    BY <1>0, <1>5, <1>w, <2>1 DEF CheckFails
  <2>2. CASE op.pc # "check"
    BY <1>5, <1>k, <2>2 DEF CheckFails
  <2> QED
    BY <2>1, <2>2
<1>6. CASE SubtreePrepared \/ OpMovesDisk \/ OpWritesMoved \/ OpDeletesDisk
  <2>1. /\ watching' = watching /\ subscribed' = subscribed /\ deleted' = deleted
        /\ op.pc \in {"hold", "disk", "write"}
    BY <1>6 DEF SubtreePrepared, OpMovesDisk, OpWritesMoved, OpDeletesDisk
  <2>2. deleted \/ (op'.pc # "idle" /\ op'.kind = op.kind)
    <3>1. CASE SubtreePrepared
      BY <1>0, <3>1 DEF SubtreePrepared, OpType
    <3>2. CASE OpMovesDisk
      BY <1>0, <3>2 DEF OpMovesDisk, OpType
    <3>3. CASE OpWritesMoved
      BY <1>0, <3>3 DEF OpWritesMoved, OpType
    <3>4. CASE OpDeletesDisk
      BY <1>0, <3>4 DEF OpDeletesDisk, OpType
    <3> QED
      BY <1>6, <3>1, <3>2, <3>3, <3>4
  <2>3. ~IsClose(op.kind)
    BY <1>0, <2>1 DEF OpIsCounted, IsClose
  <2> QED
    BY <2>1, <2>2, <2>3 DEF WatchedUntilClosed
<1>7. CASE SubtreeAbandoned \/ OpFails
  <2>1. CASE op.pc \in {"disk", "rm"}
    BY <1>0, <1>7, <1>w, <2>1 DEF SubtreeAbandoned, OpFails
  <2>2. CASE op.pc \notin {"disk", "rm"}
    <3>1. op.pc \in {"hold", "write", "snap"}
      BY <1>7, <2>2 DEF SubtreeAbandoned, OpFails
    <3>2. op.kind \in {"move", "subtree"} /\ op.kind \in used.ops /\ used.ops \subseteq used'.ops
      BY <1>0, <3>1, UsedGrows DEF OpIsCounted
    <3>3. Fails("write", MaxWriteFail) \/ Fails("snap", MaxSnapFail)
      BY <1>7, <2>2 DEF SubtreeAbandoned, OpFails
    <3>4. used'.write # 0 \/ used'.snap # 0
      BY <1>0, <3>3 DEF Fails, UsedType
    <3>5. ~MoveIsClean'
      BY <3>2, <3>4 DEF NothingFailed
    <3> QED
      BY <3>5 DEF WatchedUntilClosed
  <2> QED
    BY <2>1, <2>2
<1>8. OpMoved \/ ResumeAfterCloseFailure => watching'
  BY DEF OpMoved, ResumeAfterCloseFailure
<1>9. OpDeleted \/ CheckFindsMissing => deleted'
  BY DEF OpDeleted, CheckFindsMissing, MarkDeleted
<1>10. CASE LoadFile \/ LoadSnapshot
  <2>1. op' = op /\ deleted' = deleted
    BY <1>10 DEF LoadFile, LoadSnapshot
  <2>2. \/ watching' = TRUE
        \/ watching' = watching /\ subscribed' = subscribed
    BY <1>10 DEF LoadFile, LoadSnapshot
  <2> QED
    BY <1>k, <1>w, <2>1, <2>2
<1>11. OpenSession \/ LoadMissing \/ CreateMissing
         => op' = op /\ watching' = watching /\ subscribed' = subscribed /\ deleted' = deleted
  BY DEF OpenSession, LoadMissing, CreateMissing
<1>12. LoopReadDisk \/ LoopStartsWrite \/ LoopReconciles \/ LoopRenames
         => op' = op /\ watching' = watching /\ subscribed' = subscribed /\ deleted' = deleted
  BY DEF LoopReadDisk, LoopStartsWrite, LoopReconciles, LoopRenames
<1>13. StartCheck \/ CheckReadDisk \/ CheckIgnores \/ CheckReconciles \/ CheckReconciled
         => op' = op /\ watching' = watching /\ subscribed' = subscribed /\ deleted' = deleted
  BY DEF StartCheck, CheckReadDisk, CheckIgnores, CheckReconciles, CheckReconciled
<1>14. (\E e \in Edit : ApplyEdit(e)) \/ FlushDirty \/ Detach
         \/ (\E x \in Ext : ExternalWrite(x)) \/ UNCHANGED vars
         => op' = op /\ watching' = watching /\ subscribed' = subscribed /\ deleted' = deleted
  BY DEF ApplyEdit, FlushDirty, Detach, ExternalWrite, vars
<1> QED
  BY <1>k, <1>w, <1>1, <1>2, <1>3, <1>4, <1>5, <1>6, <1>7, <1>8, <1>9, <1>10, <1>11, <1>12,
     <1>13, <1>14 DEF Next, OpenStep, LoopStep, CheckStep, OpStep, Environment

\* An open session that is not gone has its watcher and its poll timer running
\* whenever no structure mutation runs, for any number of edits, external writes,
\* mutations and failures, unless a move failed half way.
THEOREM LiveIsWatched == Spec => []LiveSessionIsWatched
<1>1. Init => WatchInv
  BY DEF Init, WatchInv, OpIsCounted, WatchedUntilClosed, NoOp
<1>2. TypeOK /\ TypeOK' /\ WatchInv /\ [Next]_vars => WatchInv'
  BY OpCountedStep, WatchedStep DEF WatchInv
<1>3. WatchInv => LiveSessionIsWatched
  BY DEF WatchInv, WatchedUntilClosed, LiveSessionIsWatched
<1> QED
  BY <1>1, <1>2, <1>3, TypeCorrect, PTL DEF Spec

------------------------------------------------------------------------------
(* A move leaves no copy. *)

\* Nobody else writes, nothing has failed and no folder is moved.
Undisturbed == used.ext = {} /\ NothingFailed /\ "subtree" \notin used.ops

\* The file is where the session believes it to be, and nowhere else.
FileIsHere ==
    /\ disk[Other(path)] = Missing
    /\ phase \in {"restoring", "open"} /\ ~deleted /\ op.pc # "rm" => disk[path] # Missing
    /\ loop.pc \in {"read", "write"} => loop.path = path
    /\ loop.pc = "got" => loop.disk # Missing
    /\ check.pc = "got" => check.disk # Missing

\* The mutation has the file for itself: while it changes paths the loop waits,
\* and no check runs or can start.
OpIsAlone ==
    /\ ~persistFailed
    /\ TransitionPending => loop.pc \in {"idle", "transition"}
    /\ loop.pc = "transition" => TransitionPending
    /\ TransitionPending \/ (op.pc = "flush" /\ ~IsClose(op.kind))
         => check.pc = "idle" /\ ~watching
    /\ op.pc = "check" => ~watching /\ ~IsClose(op.kind)
    /\ op.pc = "flush" => Waiting("op")

\* A session that is not open yet, or gone, does nothing.
RestIsQuiet ==
    /\ phase # "open" => loop.pc = "idle" /\ check.pc = "idle" /\ op.pc = "idle" /\ ~deleted
    /\ deleted => loop.pc = "idle" /\ check.pc = "idle" /\ op.pc = "idle" /\ ~watching

MoveInv == OpIsCounted /\ (Undisturbed => FileIsHere /\ OpIsAlone /\ RestIsQuiet)

\* When no failure is shown, the end of an iteration starts the next one with
\* the flush() calls still waiting, or settles them all.
LEMMA EndsWhenNothingFailed ==
    ASSUME TypeOK, NEW failure \in BOOLEAN, NEW stillFailed \in BOOLEAN, ~stillFailed,
           NEW gone \in BOOLEAN, NEW transition \in BOOLEAN, ~transition,
           IterationEnds(failure, stillFailed, gone, text, path, transition)
    PROVE  \/ /\ loop'.pc = "read" /\ loop'.path = path /\ ~gone
              /\ flush' = flush
           \/ /\ loop'.pc = "idle"
              /\ Waiting("op") => flush'["op"] \in {"ok", "failed"}
              /\ ~Waiting("op") => flush'["op"] = flush["op"]
<1> DEFINE settled == Settled(failure, stillFailed /\ Runs(gone, transition))
           again == {w \in Waiter : settled[w] = "retry"}
<1>1. CASE persistRequested /\ Runs(gone, transition)
  <2>1. loop' = BeginMaterialize(failure, text, path, transition) /\ flush' = flush
    BY <1>1 DEF IterationEnds
  <2> QED
    BY <1>1, <2>1 DEF BeginMaterialize, Runs
<1>2. CASE ~(persistRequested /\ Runs(gone, transition))
  <2>1. /\ flush' = settled
        /\ loop' = IF again = {} THEN LoopIdle
                   ELSE BeginMaterialize(FALSE, text, path, transition)
    BY <1>2 DEF IterationEnds
  <2>2. \A w \in Waiter : /\ Waiting(w) => settled[w] \in {"ok", "failed"}
                          /\ ~Waiting(w) => settled[w] = flush[w]
    BY DEF Settled
  <2>3. \A w \in Waiter : settled[w] # "retry"
    BY <2>2 DEF Waiting
  <2>4. loop'.pc = "idle"
    BY <2>1, <2>3 DEF LoopIdle
  <2>5. "op" \in Waiter
    BY DEF Waiter
  <2> QED
    BY <2>1, <2>2, <2>4, <2>5
<1> QED
  BY <1>1, <1>2

\* A call of flush() when no failure is shown.
LEMMA FlushWhenNothingFailed ==
    ASSUME TypeOK, ~persistFailed, NEW w \in Waiter, NEW t, CallFlush(w, t)
    PROVE  /\ loop' = loop /\ persistFailed' = persistFailed
           /\ flush' = [flush EXCEPT ![w] = IF Busy THEN "first" ELSE "ok"]
BY DEF CallFlush

\* Every step keeps an undisturbed file in one place.
LEMMA MoveStep ==
    ASSUME TypeOK, TypeOK', MoveInv, [Next]_vars, Undisturbed'
    PROVE  (FileIsHere /\ OpIsAlone /\ RestIsQuiet)'
<1> USE DEF fileVars, openVars, docVars, persistVars
<1>0. /\ loop \in LoopType /\ check \in CheckType /\ op \in OpType /\ used \in UsedType
      /\ disk \in [Path -> {Missing} \cup Text] /\ path \in Path /\ text \in Text
      /\ loop.failure \in BOOLEAN /\ persistFailed \in BOOLEAN /\ deleted \in BOOLEAN
      /\ watching \in BOOLEAN /\ loop.content \in Text /\ op.text \in Text
      /\ flush \in FlushType /\ "op" \in Waiter /\ "svc" \in Waiter /\ Edit \subseteq Waiter
      /\ flush'["op"] \in {"none", "first", "retry", "ok", "failed"}
      /\ \A t \in Text : t # Missing /\ t # None
      /\ {} \in Text
      /\ Ops \subseteq OpKind /\ used.ops \subseteq Ops
  BY ConstantsAssumption, TextClosed DEF TypeOK, LoopType, OpType, FlushType, UsedType, Waiter
<1>p. Other(path) \in Path /\ Other(path) # path /\ Other(Other(path)) = path
  BY <1>0 DEF Other, Path
<1>u. Undisturbed /\ FileIsHere /\ OpIsAlone /\ RestIsQuiet /\ OpIsCounted
  BY UsedGrows DEF MoveInv, Undisturbed, NothingFailed
<1>n. ~Fails("write", MaxWriteFail) /\ ~Fails("snap", MaxSnapFail)
  BY <1>0 DEF Fails, UsedType, Undisturbed, NothingFailed
<1>c. ~persistFailed
  BY <1>u DEF OpIsAlone
<1>1. CASE OpenSession \/ LoadFile \/ LoadMissing \/ LoadSnapshot
  <2>1. /\ UNCHANGED <<disk, path, loop, check, op, flush, persistFailed, deleted>>
        /\ watching' = watching \/ phase' = "open"
        /\ phase \in {"new", "loading", "restoring"}
        /\ phase' \in {"restoring", "open"} => phase = "restoring" \/ disk[path] # Missing
    BY <1>1, <1>n DEF OpenSession, LoadFile, LoadMissing, LoadSnapshot
  <2>2. loop.pc = "idle" /\ check.pc = "idle" /\ op.pc = "idle" /\ ~deleted
    BY <1>u, <2>1 DEF RestIsQuiet
  <2>3. FileIsHere'
    BY <1>u, <2>1, <2>2 DEF FileIsHere
  <2>4. OpIsAlone'
    BY <1>u, <2>1, <2>2 DEF OpIsAlone, TransitionPending
  <2>5. RestIsQuiet'
    BY <2>1, <2>2 DEF RestIsQuiet
  <2> QED
    BY <2>3, <2>4, <2>5
<1>2. CASE CreateMissing
  <2>1. /\ UNCHANGED <<path, loop, check, op, flush, persistFailed, deleted, watching>>
        /\ disk' = [disk EXCEPT ![path] = {}] /\ phase = "creating"
    BY <1>2 DEF CreateMissing, WriteDisk
  <2>2. loop.pc = "idle" /\ check.pc = "idle" /\ op.pc = "idle" /\ ~deleted
    BY <1>u, <2>1 DEF RestIsQuiet
  <2>3. FileIsHere'
    BY <1>0, <1>p, <1>u, <2>1, <2>2 DEF FileIsHere
  <2>4. OpIsAlone'
    BY <1>u, <2>1, <2>2 DEF OpIsAlone, TransitionPending, Waiting
  <2>5. RestIsQuiet'
    BY <2>1, <2>2 DEF RestIsQuiet
  <2> QED
    BY <2>3, <2>4, <2>5
<1>3. CASE \E x \in Ext : ExternalWrite(x)
  <2>1. used'.ext # {}
    BY <1>0, <1>3 DEF ExternalWrite, UsedType
  <2> QED
    BY <2>1 DEF Undisturbed
<1>4. CASE (\E e \in Edit : ApplyEdit(e)) \/ FlushDirty \/ Detach
  <2>1. /\ UNCHANGED <<disk, path, phase, check, op, persistFailed, deleted, watching>>
        /\ flush'["op"] = flush["op"] /\ phase = "open"
        /\ \/ loop' = loop
           \/ /\ ~deleted /\ loop.pc = "idle"
              /\ loop' = BeginMaterialize(FALSE, text', path, TransitionPending)
    <3>1. CASE FlushDirty \/ Detach
      <4>1. CallFlush("svc", text)
        BY <1>4, <3>1 DEF FlushDirty, Detach
      <4>2. /\ loop' = loop /\ persistFailed' = persistFailed
            /\ flush' = [flush EXCEPT !["svc"] = IF Busy THEN "first" ELSE "ok"]
        BY <1>0, <1>c, <4>1, FlushWhenNothingFailed
      <4> QED
        BY <1>0, <3>1, <4>2 DEF FlushDirty, Detach, FlushType
    <3>2. CASE \E e \in Edit : ApplyEdit(e)
      <4> PICK e \in Edit : ApplyEdit(e)
        BY <3>2
      <4>1. e # "op" /\ e \in Waiter
        BY <1>0, ConstantsAssumption
      <4>2. CASE subscribed
        <5>1. /\ RequestPersist(text') /\ flush' = [flush EXCEPT ![e] = "first"]
              /\ UNCHANGED persistFailed
          BY <4>2 DEF ApplyEdit
        <5> QED
          BY <1>0, <4>1, <5>1 DEF ApplyEdit, RequestPersist, Busy, FlushType
      <4>3. CASE ~subscribed
        <5>1. CallFlush(e, text')
          BY <4>3 DEF ApplyEdit
        <5>2. /\ loop' = loop /\ persistFailed' = persistFailed
              /\ flush' = [flush EXCEPT ![e] = IF Busy THEN "first" ELSE "ok"]
          BY <1>0, <1>c, <4>1, <5>1, FlushWhenNothingFailed
        <5> QED
          BY <1>0, <4>1, <5>2 DEF ApplyEdit, FlushType
      <4> QED
        BY <4>2, <4>3
    <3> QED
      BY <1>4, <3>1, <3>2
  <2>2. \/ loop' = loop
        \/ /\ ~deleted /\ loop.pc = "idle" /\ loop'.path = path
           /\ loop'.pc = IF TransitionPending THEN "transition" ELSE "read"
    BY <2>1 DEF BeginMaterialize
  <2>3. FileIsHere'
    BY <1>u, <2>1, <2>2 DEF FileIsHere
  <2>4. OpIsAlone'
    BY <1>u, <2>1, <2>2 DEF OpIsAlone, TransitionPending, Waiting
  <2>5. RestIsQuiet'
    BY <1>u, <2>1, <2>2 DEF RestIsQuiet
  <2> QED
    BY <2>3, <2>4, <2>5
<1>5. CASE LoopReadDisk
  <2>1. /\ UNCHANGED <<disk, path, phase, check, op, flush, persistFailed, deleted, watching>>
        /\ loop.pc = "read" /\ loop'.pc = "got" /\ loop'.disk = disk[loop.path]
    BY <1>0, <1>5 DEF LoopReadDisk, LoopType
  <2>2. phase = "open" /\ ~deleted /\ ~TransitionPending /\ loop.path = path
    BY <1>u, <2>1 DEF RestIsQuiet, OpIsAlone, FileIsHere
  <2>3. FileIsHere'
    BY <1>u, <2>1, <2>2 DEF FileIsHere, TransitionPending
  <2>4. OpIsAlone'
    BY <1>u, <2>1, <2>2 DEF OpIsAlone, TransitionPending, Waiting
  <2>5. RestIsQuiet'
    BY <1>u, <2>1, <2>2 DEF RestIsQuiet
  <2> QED
    BY <2>3, <2>4, <2>5
<1>6. CASE LoopStartsWrite \/ LoopReconciles \/ LoopRenames
  <2>1. /\ UNCHANGED <<path, phase, check, op, flush, persistFailed, deleted, watching>>
        /\ loop.pc \in {"got", "write"}
    BY <1>6 DEF LoopStartsWrite, LoopReconciles, LoopRenames
  <2>2. phase = "open" /\ ~deleted /\ ~TransitionPending
    BY <1>u, <2>1 DEF RestIsQuiet, OpIsAlone
  <2>3. loop'.pc \in {"write", "rsnap", "snap"} /\ (loop'.pc = "write" => loop'.path = path)
    BY <1>0, <1>6 DEF LoopStartsWrite, LoopReconciles, LoopRenames, LoopType
  <2>4. disk' = disk \/ disk' = [disk EXCEPT ![path] = loop.content]
    BY <1>6, <1>u DEF LoopStartsWrite, LoopReconciles, LoopRenames, WriteDisk, FileIsHere
  <2>5. FileIsHere'
    BY <1>0, <1>p, <1>u, <2>1, <2>2, <2>3, <2>4 DEF FileIsHere
  <2>6. OpIsAlone'
    BY <1>u, <2>1, <2>2, <2>3 DEF OpIsAlone, TransitionPending, Waiting
  <2>7. RestIsQuiet'
    BY <1>u, <2>1, <2>2, <2>3 DEF RestIsQuiet
  <2> QED
    BY <2>5, <2>6, <2>7
<1>7. CASE LoopFindsMissing \/ CheckFindsMissing \/ LoopFails \/ CheckFails
  BY <1>7, <1>n, <1>u DEF LoopFindsMissing, CheckFindsMissing, LoopFails, CheckFails, FileIsHere
<1>8. CASE LoopPersisted \/ LoopReconciled
  <2>1. /\ UNCHANGED <<disk, path, phase, check, deleted>> /\ ~persistFailed'
        /\ loop.pc \in {"snap", "rsnap"}
    <3>1. CASE LoopPersisted
      BY <3>1 DEF LoopPersisted
    <3>2. CASE LoopReconciled
      BY <1>c, <3>2 DEF LoopReconciled
    <3> QED
      BY <1>8, <3>1, <3>2
  <2>2. phase = "open" /\ ~deleted /\ ~TransitionPending
    BY <1>u, <2>1 DEF RestIsQuiet, OpIsAlone
  <2>3. OpResumes(deleted, watching)
    BY <1>8 DEF LoopPersisted, LoopReconciled
  <2>4. \/ /\ loop'.pc = "read" /\ loop'.path = path /\ flush' = flush
        \/ /\ loop'.pc = "idle"
           /\ Waiting("op") => flush'["op"] \in {"ok", "failed"}
           /\ ~Waiting("op") => flush'["op"] = flush["op"]
    <3>1. PICK still \in BOOLEAN, tr \in BOOLEAN :
             /\ ~still /\ ~tr
             /\ IterationEnds(loop.failure, still, deleted, text, path, tr)
      BY <1>8, <1>0, <1>c, <2>2, PendingType DEF LoopPersisted, LoopReconciled
    <3> QED
      BY <1>0, <3>1, EndsWhenNothingFailed
  <2>5. \/ op' = op /\ watching' = watching /\ ~(op.pc = "flush" /\ loop'.pc = "idle")
        \/ /\ op.pc = "flush" /\ loop'.pc = "idle"
           /\ op' = AfterFlush(op.kind, flush'["op"], deleted)
           /\ AfterFlushWatch(op.kind, flush'["op"], deleted, watching)
    BY <1>u, <2>3, <2>4 DEF OpResumes, OpIsAlone, Waiting
  <2>6. CASE op' = op /\ watching' = watching /\ ~(op.pc = "flush" /\ loop'.pc = "idle")
    <3>1. FileIsHere'
      BY <1>u, <2>1, <2>2, <2>4, <2>6 DEF FileIsHere
    <3>2. OpIsAlone'
      BY <1>u, <2>1, <2>2, <2>4, <2>6 DEF OpIsAlone, TransitionPending, Waiting
    <3>3. RestIsQuiet'
      BY <1>u, <2>1, <2>2, <2>4, <2>6 DEF RestIsQuiet
    <3> QED
      BY <3>1, <3>2, <3>3
  <2>7. CASE /\ op.pc = "flush" /\ loop'.pc = "idle"
             /\ op' = AfterFlush(op.kind, flush'["op"], deleted)
             /\ AfterFlushWatch(op.kind, flush'["op"], deleted, watching)
    <3>1. op.kind \in OpKind /\ flush'["op"] \in {"ok", "failed"}
      BY <1>0, <1>u, <2>4, <2>7 DEF OpIsCounted, OpIsAlone
    <3>2. /\ op'.pc \in {"idle", "disk", "hold"}
          /\ op'.pc = "disk" => op.kind \in {"move", "delete"} /\ flush'["op"] = "ok"
      BY <1>0, <2>7, <3>1, AfterFlushCases
    <3>3. op'.pc = "disk" => check.pc = "idle" /\ ~watching /\ watching' = watching
      BY <1>u, <2>7, <3>2 DEF AfterFlushWatch, OpIsAlone, IsClose
    <3>4. FileIsHere'
      BY <1>u, <2>1, <2>2, <2>7, <3>2 DEF FileIsHere
    <3>5. OpIsAlone'
      BY <1>u, <2>1, <2>2, <2>7, <3>2, <3>3 DEF OpIsAlone, TransitionPending
    <3>6. RestIsQuiet'
      BY <1>u, <2>1, <2>2, <2>7 DEF RestIsQuiet
    <3> QED
      BY <3>4, <3>5, <3>6
  <2> QED
    BY <2>5, <2>6, <2>7
<1>9. CASE StartCheck \/ CheckReadDisk \/ CheckIgnores \/ CheckReconciles \/ CheckReconciled
  <2>1. UNCHANGED <<disk, path, phase, loop, op, flush, persistFailed, deleted, watching>>
    BY <1>9 DEF StartCheck, CheckReadDisk, CheckIgnores, CheckReconciles, CheckReconciled
  <2>2. phase = "open" /\ ~deleted /\ ~TransitionPending
        /\ ~(op.pc = "flush" /\ ~IsClose(op.kind))
    BY <1>9, <1>u DEF StartCheck, CheckReadDisk, CheckIgnores, CheckReconciles,
                      CheckReconciled, RestIsQuiet, OpIsAlone
  <2>3. check'.pc = "got" => check'.disk = disk[path]
    <3>1. CheckIdle.pc = "idle" /\ [CheckIdle EXCEPT !.pc = "read"].pc = "read"
      BY DEF CheckIdle
    <3>2. CASE CheckReadDisk
      BY <1>0, <3>2 DEF CheckReadDisk, CheckType
    <3>3. CASE CheckReconciles
      BY <1>0, <3>3 DEF CheckReconciles, CheckType
    <3>4. CASE StartCheck \/ CheckIgnores \/ CheckReconciled
      BY <3>1, <3>4 DEF StartCheck, CheckIgnores, CheckReconciled
    <3> QED
      BY <1>9, <3>2, <3>3, <3>4
  <2>4. FileIsHere'
    BY <1>u, <2>1, <2>2, <2>3 DEF FileIsHere, TransitionPending
  <2>5. OpIsAlone'
    BY <1>u, <2>1, <2>2 DEF OpIsAlone, TransitionPending, Waiting, IsClose
  <2>6. RestIsQuiet'
    BY <1>u, <2>1, <2>2 DEF RestIsQuiet
  <2> QED
    BY <2>4, <2>5, <2>6
<1>f. ASSUME NEW k \in OpKind, k # "subtree", OpFlush(k, IsClose(k) /\ watching),
             UNCHANGED <<disk, path, phase, check, deleted>>,
             phase = "open", ~deleted, ~TransitionPending, IsClose(k) \/ check.pc = "idle"
      PROVE  (FileIsHere /\ OpIsAlone /\ RestIsQuiet)'
  <2>1. /\ loop' = loop /\ persistFailed' = persistFailed
        /\ flush'["op"] = IF Busy THEN "first" ELSE "ok"
    <3>1. CallFlush("op", text)
      BY <1>f DEF OpFlush
    <3>2. /\ loop' = loop /\ persistFailed' = persistFailed
          /\ flush' = [flush EXCEPT !["op"] = IF Busy THEN "first" ELSE "ok"]
      BY <1>0, <1>c, <3>1, FlushWhenNothingFailed
    <3> QED
      BY <1>0, <3>2 DEF FlushType
  <2>2. op' = AfterFlush(k, flush'["op"], FALSE)
    BY <1>f DEF OpFlush
  <2>3. /\ op'.pc # "idle" => op'.kind = k
        /\ op'.pc \in {"idle", "disk", "hold", "flush"}
        /\ op'.pc = "hold" => k = "subtree"
        /\ op'.pc = "disk" => k \in {"move", "delete"}
        /\ op'.pc # "flush" => flush'["op"] \in {"ok", "failed"}
        /\ flush'["op"] = "ok" => op'.pc # "flush"
    <3>1. k \in OpKind /\ flush'["op"] \in {"none", "first", "retry", "ok", "failed"}
      BY <1>0, <1>f
    <3>2. PICK r \in {"none", "first", "retry", "ok", "failed"} : r = flush'["op"]
      BY <3>1
    <3>3. PICK g \in BOOLEAN : op' = AfterFlush(k, r, g)
      BY <2>2, <3>2
    <3> QED
      BY <3>1, <3>2, <3>3, AfterFlushCases
  <2>4. op'.pc \in {"disk", "flush"} /\ ~IsClose(k) => ~watching'
    <3>1. AfterFlushWatch(k, flush'["op"], FALSE, IsClose(k) /\ watching)
      BY <1>f DEF OpFlush
    <3>2. ~IsClose(k) /\ flush'["op"] # "failed" => watching' = (IsClose(k) /\ watching)
      BY <3>1 DEF AfterFlushWatch, IsClose
    <3> QED
      BY <2>1, <3>2
  <2>5. op'.pc = "disk" => loop.pc = "idle"
    BY <2>1, <2>3 DEF Busy
  <2>6. loop.pc # "transition"
    BY <1>f, <1>u DEF OpIsAlone
  <2>7. FileIsHere'
    BY <1>f, <1>u, <2>1, <2>3 DEF FileIsHere, TransitionPending
  <2>8. OpIsAlone'
    <3>1. Waiting("op")' \/ op'.pc # "flush"
      BY <2>1, <2>3 DEF Waiting
    <3>2. TransitionPending' => op'.pc = "disk"
      BY <2>3 DEF TransitionPending
    <3>3. k \in {"move", "delete"} => ~IsClose(k)
      BY DEF IsClose
    <3> QED
      BY <1>c, <1>f, <2>1, <2>3, <2>4, <2>5, <2>6, <3>1, <3>2, <3>3 DEF OpIsAlone
  <2>9. RestIsQuiet'
    BY <1>f, <2>1 DEF RestIsQuiet
  <2> QED
    BY <2>7, <2>8, <2>9
<1>10. CASE \E k \in Ops : StartOp(k)
  <2> PICK k \in Ops : StartOp(k)
    BY <1>10
  <2>1. /\ UNCHANGED <<disk, path, phase, check, deleted>>
        /\ phase = "open" /\ ~deleted /\ op.pc = "idle" /\ k \in OpKind
    BY <1>0 DEF StartOp
  <2>2. k # "subtree"
    <3>1. k \in used'.ops
      BY <1>0 DEF StartOp, UsedType
    <3> QED
      BY <3>1 DEF Undisturbed
  <2>3. ~TransitionPending
    BY <2>1 DEF TransitionPending
  <2>4. CASE ~IsClose(k) /\ check.pc # "idle"
    <3>1. /\ op' = [kind |-> k, pc |-> "check", text |-> {}] /\ watching' = FALSE
          /\ UNCHANGED <<loop, flush, persistFailed>>
      BY <2>4 DEF StartOp
    <3>2. op'.pc = "check" /\ op'.kind = k
      BY <3>1
    <3>3. FileIsHere'
      BY <1>u, <2>1, <3>1, <3>2 DEF FileIsHere
    <3>4. OpIsAlone'
      BY <1>u, <2>1, <2>3, <2>4, <3>1, <3>2 DEF OpIsAlone, TransitionPending
    <3>5. RestIsQuiet'
      BY <2>1 DEF RestIsQuiet
    <3> QED
      BY <3>3, <3>4, <3>5
  <2>5. CASE ~(~IsClose(k) /\ check.pc # "idle")
    <3>1. OpFlush(k, IsClose(k) /\ watching)
      BY <2>5 DEF StartOp
    <3> QED
      BY <1>f, <2>1, <2>2, <2>3, <2>5, <3>1
  <2> QED
    BY <2>4, <2>5
<1>11. CASE OpAfterCheck
  <2>1. /\ UNCHANGED <<disk, path, phase, check, deleted>>
        /\ op.pc = "check" /\ check.pc = "idle"
    BY <1>11 DEF OpAfterCheck
  <2>2. phase = "open" /\ ~deleted /\ ~watching /\ ~TransitionPending
    BY <1>u, <2>1 DEF RestIsQuiet, OpIsAlone, TransitionPending
  <2>3. op.kind \in OpKind /\ op.kind # "subtree"
    BY <1>0, <1>u, <2>1 DEF OpIsCounted, Undisturbed
  <2>4. watching = (IsClose(op.kind) /\ watching)
    BY <1>0, <2>2
  <2>5. OpFlush(op.kind, IsClose(op.kind) /\ watching)
    <3>1. OpFlush(op.kind, watching)
      BY <1>11, <2>2 DEF OpAfterCheck
    <3> QED
      BY <2>4, <3>1
  <2> QED
    BY <1>f, <2>1, <2>2, <2>3, <2>5
<1>12. CASE SubtreePrepared \/ SubtreeAbandoned
  BY <1>0, <1>12, <1>u DEF SubtreePrepared, SubtreeAbandoned, OpIsCounted, Undisturbed
<1>t. TransitionPending => /\ phase = "open" /\ ~deleted /\ ~watching /\ check.pc = "idle"
                           /\ loop.pc \in {"idle", "transition"}
                           /\ op.kind \in {"move", "delete"}
  BY <1>u DEF TransitionPending, RestIsQuiet, OpIsAlone, OpIsCounted, Undisturbed
<1>13. CASE OpMovesDisk
  <2>1. TransitionPending /\ op.pc = "disk" /\ op.kind = "move"
    BY <1>13, <1>t DEF OpMovesDisk, TransitionPending
  <2>2. ~deleted /\ ~watching /\ check.pc = "idle" /\ phase = "open"
        /\ loop.pc \in {"idle", "transition"}
    BY <1>t, <2>1
  <2>3. /\ disk' = [disk EXCEPT ![Other(path)] = disk[path], ![path] = Missing]
        /\ path' = Other(path) /\ disk[path] # Missing
        /\ op' = [op EXCEPT !.pc = "write", !.text = text]
        /\ UNCHANGED <<phase, loop, check, flush, persistFailed, deleted, watching>>
    BY <1>13, <2>1, <2>2 DEF OpMovesDisk, CanMove
  <2>4. op'.pc = "write" /\ op'.kind = op.kind
    BY <1>0, <2>3 DEF OpType
  <2>5. disk'[Other(path)] = disk[path] /\ disk'[path] = Missing
    BY <1>0, <1>p, <2>3
  <2>6. FileIsHere'
    BY <1>p, <2>2, <2>3, <2>5 DEF FileIsHere
  <2>7. OpIsAlone'
    BY <1>c, <2>2, <2>3, <2>4 DEF OpIsAlone, TransitionPending
  <2>8. RestIsQuiet'
    BY <2>2, <2>3 DEF RestIsQuiet
  <2> QED
    BY <2>6, <2>7, <2>8
<1>14. CASE OpWritesMoved \/ OpDeletesDisk
  <2>1. /\ TransitionPending
        /\ UNCHANGED <<path, phase, loop, check, flush, persistFailed, deleted, watching>>
    BY <1>14 DEF OpWritesMoved, OpDeletesDisk, TransitionPending
  <2>2. /\ op'.pc \in {"snap", "rm"}
        /\ \/ disk' = [disk EXCEPT ![path] = op.text]
           \/ disk' = [disk EXCEPT ![path] = Missing] /\ op'.pc = "rm"
    BY <1>0, <1>14 DEF OpWritesMoved, OpDeletesDisk, WriteDisk, OpType
  <2>3. FileIsHere'
    BY <1>0, <1>p, <1>t, <1>u, <2>1, <2>2 DEF FileIsHere
  <2>4. OpIsAlone'
    BY <1>c, <1>t, <2>1, <2>2 DEF OpIsAlone, TransitionPending
  <2>5. RestIsQuiet'
    BY <1>t, <2>1 DEF RestIsQuiet
  <2> QED
    BY <2>3, <2>4, <2>5
<1>15. CASE OpMoved \/ OpDeleted
  <2>1. /\ TransitionPending /\ op' = NoOp
        /\ UNCHANGED <<disk, path, phase, check, persistFailed>>
        /\ \/ deleted' = deleted
           \/ deleted' = TRUE /\ watching' = (watching /\ deleted)
    BY <1>15 DEF OpMoved, OpDeleted, TransitionPending, MarkDeleted, TransitionSucceeds
  <2>2. op'.pc = "idle"
    BY <2>1 DEF NoOp
  <2>3. \/ loop'.pc = "idle"
        \/ loop'.pc = "read" /\ loop'.path = path /\ deleted' = deleted
    <3>1. CASE loop.pc # "transition"
      BY <1>15, <1>t, <2>1, <3>1 DEF OpMoved, OpDeleted, TransitionSucceeds
    <3>2. CASE loop.pc = "transition" /\ OpMoved
      <4>1. loop' = BeginMaterialize(loop.failure, text, path, FALSE) /\ deleted' = deleted
        BY <1>t, <2>1, <3>2 DEF OpMoved, TransitionSucceeds
      <4> QED
        BY <4>1 DEF BeginMaterialize
    <3>3. CASE loop.pc = "transition" /\ OpDeleted
      <4>1. IterationEnds(loop.failure, persistFailed, TRUE, text, path, FALSE)
        BY <3>3 DEF OpDeleted, TransitionSucceeds
      <4> QED
        BY <1>0, <1>c, <4>1, EndsWhenNothingFailed
    <3> QED
      BY <1>15, <3>1, <3>2, <3>3
  <2>4. OpDeleted \/ op.pc # "rm"
    BY <1>15 DEF OpMoved
  <2>5. FileIsHere'
    BY <1>15, <1>t, <1>u, <2>1, <2>2, <2>3 DEF FileIsHere, OpMoved, OpDeleted, MarkDeleted
  <2>6. OpIsAlone'
    BY <1>c, <2>1, <2>2, <2>3 DEF OpIsAlone, TransitionPending
  <2>7. RestIsQuiet'
    BY <1>t, <2>1, <2>2, <2>3 DEF RestIsQuiet
  <2> QED
    BY <2>5, <2>6, <2>7
<1>16. CASE OpFails
  <2>1. /\ op.pc = "disk"
        /\ IF op.kind = "delete" THEN disk[path] = Missing ELSE ~CanMove
    BY <1>16, <1>n DEF OpFails
  <2>2. /\ op.kind \in {"move", "delete"} /\ phase = "open" /\ ~deleted
        /\ disk[Other(path)] = Missing /\ disk[path] # Missing
    BY <1>t, <1>u, <2>1 DEF TransitionPending, FileIsHere
  <2> QED
    BY <2>1, <2>2 DEF CanMove
<1>17. CASE ResumeAfterCloseFailure
  <2>1. /\ op.pc = "idle" /\ op'.pc = "idle" /\ ~deleted
        /\ UNCHANGED <<disk, path, phase, loop, check, flush, persistFailed, deleted>>
    BY <1>17 DEF ResumeAfterCloseFailure, NoOp
  <2>2. FileIsHere'
    BY <1>u, <2>1 DEF FileIsHere
  <2>3. OpIsAlone'
    BY <1>u, <2>1 DEF OpIsAlone, TransitionPending
  <2>4. RestIsQuiet'
    BY <1>u, <2>1 DEF RestIsQuiet
  <2> QED
    BY <2>2, <2>3, <2>4
<1>18. CASE UNCHANGED vars
  BY <1>18, <1>u DEF vars, FileIsHere, OpIsAlone, RestIsQuiet, TransitionPending, Waiting
<1> QED
  BY <1>1, <1>2, <1>3, <1>4, <1>5, <1>6, <1>7, <1>8, <1>9, <1>10, <1>11, <1>12, <1>13, <1>14,
     <1>15, <1>16, <1>17, <1>18 DEF Next, OpenStep, LoopStep, CheckStep, OpStep, Environment

\* In every behaviour in which nobody else writes and nothing fails, a moved
\* file is at its new path only, whatever is edited during the move.
THEOREM MovesLeaveNoCopy == Spec => []MoveLeavesNoCopy
<1>1. Init => MoveInv
  <2> SUFFICES ASSUME Init PROVE MoveInv
    OBVIOUS
  <2>1. FileIsHere
    BY DEF Init, FileIsHere, LoopIdle, CheckIdle, Other, Path
  <2>2. OpIsAlone /\ RestIsQuiet /\ OpIsCounted
    BY DEF Init, OpIsAlone, RestIsQuiet, OpIsCounted, LoopIdle, CheckIdle, NoOp,
           TransitionPending
  <2> QED
    BY <2>1, <2>2 DEF MoveInv
<1>2. TypeOK /\ TypeOK' /\ MoveInv /\ [Next]_vars => MoveInv'
  BY OpCountedStep, MoveStep DEF MoveInv
<1>3. MoveInv => MoveLeavesNoCopy
  BY DEF MoveInv, MoveLeavesNoCopy, Undisturbed, FileIsHere
<1> QED
  BY <1>1, <1>2, <1>3, TypeCorrect, PTL DEF Spec
------------------------------------------------------------------------------
(* Acknowledgements.  The argument rests on the invariant of the session    *)
(* (SaveInv) and on what an ack that is held back waits for.                *)

\* An ack is held back only for a flush() that failed, and an iteration that is
\* about to report content-persisted has captured the edit, or the edit is
\* accounted for already.
DeferredIsComing ==
    \A e \in deferred :
      /\ flush[e] = "failed"
      /\ loop.pc \in {"read", "got", "write", "snap"} =>
           e \in loop.content \cup durable \cup discarded

AckInv ==
    SaveTypeOK /\ Latched /\ SaveInv /\ DeferredIsComing /\ AckedIsAccountedFor

------------------------------------------------------------------------------
(* Steps of the session, seen from the binding. *)

\* What was lost stays lost.
LEMMA DiscardedGrows ==
    ASSUME [Next]_vars PROVE discarded \subseteq discarded'
BY DEF Next, OpenStep, LoopStep, CheckStep, OpStep, Environment, OpenSession, LoadFile,
       LoadMissing, CreateMissing, LoadSnapshot, ApplyEdit, ExternalWrite, StartOp,
       FlushDirty, Detach, ResumeAfterCloseFailure, StartCheck, LoopReadDisk,
       LoopStartsWrite, LoopReconciles, LoopFindsMissing, LoopRenames, LoopPersisted,
       LoopReconciled, LoopFails, CheckReadDisk, CheckIgnores, CheckFindsMissing,
       CheckReconciles, CheckReconciled, CheckFails, OpAfterCheck, SubtreePrepared,
       SubtreeAbandoned,
       OpMovesDisk, OpWritesMoved, OpMoved, OpDeletesDisk, OpDeleted, OpFails, vars,
       docVars, TakeContent, MarkDeleted

\* No flush() of an edit fails in this step.
NoNewFailure == \A e \in Edit : flush'[e] = "failed" => flush[e] = "failed"

\* How a step may change the loop: the iteration ends, or one begins with the
\* text of the document, or it goes on with the content it captured and then no
\* flush() fails.
Captures ==
    \/ loop'.pc \in {"idle", "transition", "rsnap"}
    \/ loop'.content = text'
    \/ /\ NoNewFailure
       /\ \/ loop' = loop
          \/ loop'.content = loop.content /\ loop.pc \in {"read", "got", "write"}

\* A flush() that failed stays failed.
FailedStays == \A e \in Edit : flush[e] = "failed" => flush'[e] = "failed"

\* What materialize() captures.
LEMMA BeginCaptures ==
    ASSUME NEW failure, NEW p, NEW transition \in BOOLEAN,
           loop' = BeginMaterialize(failure, text', p, transition)
    PROVE  Captures
BY DEF BeginMaterialize, Captures

\* The end of an iteration.
LEMMA IterationEndsCaptures ==
    ASSUME TypeOK, NEW failure, NEW stillFailed, NEW gone, NEW p,
           NEW transition \in BOOLEAN, text' = text,
           IterationEnds(failure, stillFailed, gone, text, p, transition)
    PROVE  Captures /\ FailedStays
<1>1. Captures
  <2>1. \/ loop' = LoopIdle
        \/ \E f : loop' = BeginMaterialize(f, text', p, transition)
    BY DEF IterationEnds
  <2>2. LoopIdle.pc = "idle"
    BY DEF LoopIdle
  <2> QED
    BY <2>1, <2>2, BeginCaptures DEF Captures
<1>2. FailedStays
  <2>1. \/ flush' = flush
        \/ flush' = Settled(failure, stillFailed /\ Runs(gone, transition))
    BY DEF IterationEnds
  <2> QED
    BY <2>1 DEF FailedStays, Settled, Waiting, Waiter
<1> QED
  BY <1>1, <1>2

\* flush() called by the service or by a structure mutation.
LEMMA CallFlushCaptures ==
    ASSUME TypeOK, NEW w \in {"svc", "op"}, CallFlush(w, text), text' = text
    PROVE  Captures /\ FailedStays
<1>1. loop' = loop \/ loop' = BeginMaterialize(FALSE, text', path, TransitionPending)
  BY DEF CallFlush
<1>2. FailedStays /\ NoNewFailure
  BY CallFlushKeepsNone DEF FailedStays, NoNewFailure
<1>3. Captures
  BY <1>1, <1>2, BeginCaptures, PendingType DEF Captures
<1> QED
  BY <1>2, <1>3

\* A path transition that settles.
LEMMA TransitionCaptures ==
    ASSUME TypeOK, NEW gone, NEW p, TransitionSucceeds(gone, p) \/ TransitionFails,
           text' = text
    PROVE  Captures /\ FailedStays
<1>1. CASE UNCHANGED persistVars
  BY <1>1 DEF persistVars, Captures, FailedStays, NoNewFailure
<1>2. CASE \E f, s, g, q : IterationEnds(f, s, g, text, q, FALSE)
  BY <1>2, IterationEndsCaptures
<1>3. CASE loop' = BeginMaterialize(loop.failure, text, p, FALSE) /\ flush' = flush
  BY <1>3, BeginCaptures DEF FailedStays
<1> QED
  BY <1>1, <1>2, <1>3 DEF TransitionSucceeds, TransitionFails

\* Every step of the session.
LEMMA SessionCaptures ==
    ASSUME TypeOK, [Next]_vars
    PROVE  Captures /\ FailedStays
<1> USE DEF fileVars, openVars, docVars, persistVars
<1>1. CASE loop' = loop /\ flush' = flush
  BY <1>1 DEF Captures, FailedStays, NoNewFailure
<1>2. CASE \E e \in Edit : ApplyEdit(e)
  <2> PICK e \in Edit : ApplyEdit(e)
    BY <1>2
  <2>1. flush[e] = "none" /\ \E r : flush' = [flush EXCEPT ![e] = r] /\ r # "failed"
    BY DEF ApplyEdit, CallFlush
  <2>2. FailedStays /\ NoNewFailure
    BY <2>1 DEF FailedStays, NoNewFailure, TypeOK, FlushType, Waiter
  <2>3. loop' = loop \/ loop' = BeginMaterialize(FALSE, text', path, TransitionPending)
    BY DEF ApplyEdit, CallFlush, RequestPersist
  <2> QED
    BY <2>2, <2>3, BeginCaptures, PendingType DEF Captures
<1>3. CASE FlushDirty \/ Detach \/ (\E k \in Ops : StartOp(k)) \/ OpAfterCheck
  <2>1. text' = text
    BY <1>3 DEF FlushDirty, Detach, StartOp, OpAfterCheck
  <2>2. CallFlush("svc", text) \/ CallFlush("op", text) \/ (loop' = loop /\ flush' = flush)
    BY <1>3 DEF FlushDirty, Detach, StartOp, OpAfterCheck, OpFlush
  <2> QED
    BY <1>1, <2>1, <2>2, CallFlushCaptures
<1>4. CASE LoopReadDisk \/ LoopStartsWrite \/ LoopReconciles \/ LoopRenames
  <2>1. flush' = flush /\ loop.pc \in {"read", "got", "write"}
    BY <1>4 DEF LoopReadDisk, LoopStartsWrite, LoopReconciles, LoopRenames
  <2>2. loop'.content = loop.content
    BY <1>4 DEF LoopReadDisk, LoopStartsWrite, LoopReconciles, LoopRenames, TypeOK, LoopType
  <2> QED
    BY <2>1, <2>2 DEF Captures, FailedStays, NoNewFailure
<1>5. CASE LoopFindsMissing \/ LoopPersisted \/ LoopReconciled \/ LoopFails
  <2>1. text' = text
    BY <1>5 DEF LoopFindsMissing, LoopPersisted, LoopReconciled, LoopFails
  <2>2. \E f, s, g : IterationEnds(f, s, g, text, path, TransitionPending)
    BY <1>5 DEF LoopFindsMissing, LoopPersisted, LoopReconciled, LoopFails
  <2> QED
    BY <2>1, <2>2, PendingType, IterationEndsCaptures
<1>6. CASE OpMovesDisk \/ OpMoved \/ OpDeleted \/ OpFails
  <2>1. text' = text
    BY <1>6 DEF OpMovesDisk, OpMoved, OpDeleted, OpFails
  <2>2. \/ \E g : TransitionSucceeds(g, path)
        \/ TransitionFails \/ (loop' = loop /\ flush' = flush)
    BY <1>6 DEF OpMovesDisk, OpMoved, OpDeleted, OpFails
  <2> QED
    BY <1>1, <2>1, <2>2, TransitionCaptures
<1>7. CASE OpenStep \/ (\E x \in Ext : ExternalWrite(x)) \/ StartCheck \/ CheckStep
             \/ SubtreePrepared \/ SubtreeAbandoned \/ OpWritesMoved \/ OpDeletesDisk
             \/ ResumeAfterCloseFailure \/ UNCHANGED vars
  BY <1>1, <1>7 DEF OpenStep, OpenSession, LoadFile, LoadMissing, CreateMissing,
     LoadSnapshot, ExternalWrite, StartCheck, CheckStep, CheckReadDisk, CheckIgnores,
     CheckFindsMissing, CheckReconciles, CheckReconciled, CheckFails, SubtreePrepared,
       SubtreeAbandoned,
     OpWritesMoved, OpDeletesDisk, ResumeAfterCloseFailure, vars
<1> QED
  BY <1>2, <1>3, <1>4, <1>5, <1>6, <1>7 DEF Next, LoopStep, OpStep, Environment

\* content-persisted is reported only by the end of an iteration that wrote.
LEMMA PersistedAfterSnap ==
    ASSUME TypeOK, Next, "content-persisted" \in emitted'
    PROVE  loop.pc = "snap"
<1> USE DEF Quiet
<1>1. CASE OpenStep \/ Environment
  BY <1>1 DEF OpenStep, Environment, OpenSession, LoadFile, LoadMissing, CreateMissing,
     LoadSnapshot, ApplyEdit, ExternalWrite, StartOp, FlushDirty, Detach,
     ResumeAfterCloseFailure
<1>2. CASE LoopReadDisk \/ LoopStartsWrite \/ LoopReconciles \/ LoopRenames \/ LoopPersisted
  BY <1>2 DEF LoopReadDisk, LoopStartsWrite, LoopReconciles, LoopRenames, LoopPersisted,
     TakeContent
<1>3. CASE LoopFindsMissing \/ LoopFails
  <2>1. emitted' \in {{}, {"doc-deleted"}, {"persist-failure"}}
    BY <1>3 DEF LoopFindsMissing, LoopFails, MarkDeleted, Emit
  <2> QED
    BY <2>1
<1>4. CASE LoopReconciled \/ CheckReconciled
  <2>1. loop.event # "content-persisted" /\ check.event # "content-persisted"
    BY DEF TypeOK, LoopType, CheckType, ReconcileKind
  <2> QED
    BY <1>4, <2>1 DEF LoopReconciled, CheckReconciled, Emit
<1>5. CASE StartCheck \/ CheckReadDisk \/ CheckIgnores \/ CheckFindsMissing
             \/ CheckReconciles \/ CheckFails
  BY <1>5 DEF StartCheck, CheckReadDisk, CheckIgnores, CheckFindsMissing, CheckReconciles,
     CheckFails, MarkDeleted, TakeContent, Emit
<1>6. CASE OpAfterCheck \/ SubtreePrepared \/ SubtreeAbandoned \/ OpWritesMoved \/ OpDeletesDisk
  BY <1>6 DEF OpAfterCheck, SubtreePrepared, SubtreeAbandoned, OpWritesMoved, OpDeletesDisk
<1>7. CASE OpMovesDisk \/ OpMoved \/ OpDeleted \/ OpFails
  <2>1. emitted' \in {{}, {"doc-deleted"}, {"doc-moved"}, {"persist-failure"}}
    BY <1>7 DEF OpMovesDisk, OpMoved, OpDeleted, OpFails, TransitionFails, MarkDeleted, Emit
  <2> QED
    BY <2>1
<1> QED
  BY <1>1, <1>2, <1>3, <1>4, <1>5, <1>6, <1>7 DEF Next, LoopStep, CheckStep, OpStep

------------------------------------------------------------------------------
(* The binding. *)

\* An ack held back stays covered by the loop, and one that is held back from
\* now on is.
LEMMA DeferredStep ==
    ASSUME SaveTypeOK, TypeOK, SaveInv, SaveInv', DeferredIsComing, [Next]_vars,
           deferred' \subseteq deferred \cup Reaching("failed")
    PROVE  DeferredIsComing'
<1>1. Captures /\ FailedStays
  BY SessionCaptures
<1>2. durable \subseteq durable' /\ discarded \subseteq discarded'
  BY FileStep, DiscardedGrows DEF SaveInv
<1> SUFFICES ASSUME NEW e \in deferred'
             PROVE  /\ flush'[e] = "failed"
                    /\ loop'.pc \in {"read", "got", "write", "snap"} =>
                         e \in loop'.content \cup durable' \cup discarded'
  BY DEF DeferredIsComing
<1>3. e \in Edit
  BY DEF SaveTypeOK, Reaching
<1>4. flush'[e] = "failed"
  BY <1>1, <1>3 DEF FailedStays, DeferredIsComing, Reaching
<1>5. e \in text' \cup discarded'
  BY <1>3, <1>4 DEF SaveInv, Covered, EditsAreKept
<1>6. ASSUME loop'.pc \in {"read", "got", "write", "snap"}
      PROVE  e \in loop'.content \cup durable' \cup discarded'
  <2>1. CASE loop'.content = text'
    BY <1>5, <2>1
  <2>2. CASE /\ loop'.content = loop.content /\ NoNewFailure
             /\ loop.pc \in {"read", "got", "write", "snap"}
    <3>1. CASE e \in deferred
      BY <1>2, <2>2, <3>1 DEF DeferredIsComing
    <3>2. CASE e \in Reaching("failed")
      BY <1>3, <1>4, <2>2, <3>2 DEF Reaching, NoNewFailure
    <3> QED
      BY <3>1, <3>2
  <2> QED
    BY <1>1, <1>6, <2>1, <2>2 DEF Captures
<1> QED
  BY <1>4, <1>6

\* The acks the binding sends when a step of the session settles flush() calls
\* or reports content-persisted.
LEMMA ReactStep ==
    ASSUME SaveTypeOK, SaveInv, SaveInv', DeferredIsComing, AckedIsAccountedFor,
           Next, React, client' = client
    PROVE  AckedIsAccountedFor'
<1>1. durable \subseteq durable' /\ discarded \subseteq discarded'
  BY FileStep, DiscardedGrows DEF SaveInv, SaveTypeOK
<1>2. \A e \in Reaching("ok") : e \in durable' \cup discarded'
  BY DEF Reaching, SaveInv, Covered, FlushedIsAccountedFor
<1>3. "content-persisted" \in emitted' => \A e \in deferred : e \in durable' \cup discarded'
  <2>1. "content-persisted" \in emitted' => loop.pc = "snap"
    BY PersistedAfterSnap DEF SaveTypeOK
  <2>2. loop.pc = "snap" => loop.content \subseteq durable
    BY DEF SaveInv, Covered, TextIsCovered
  <2> QED
    BY <1>1, <2>1, <2>2 DEF DeferredIsComing
<1>4. \A e \in wire' : e \in wire \/ e \in Reaching("ok")
                        \/ ("content-persisted" \in emitted' /\ e \in deferred)
  BY DEF React
<1> QED
  BY <1>1, <1>2, <1>3, <1>4 DEF AckedIsAccountedFor

\* A session step with the binding's reaction keeps the binding's variables in
\* their types, and holds back no other acks than those of failed flush() calls.
LEMMA ReactType ==
    ASSUME SaveTypeOK, React
    PROVE  /\ wire' \in SUBSET Edit /\ socket' \in BOOLEAN /\ deferred' \in SUBSET Edit
           /\ deferred' \subseteq deferred \cup Reaching("failed")
<1>1. /\ wire' \subseteq wire \cup deferred \cup Reaching("ok")
      /\ deferred' \subseteq deferred \cup Reaching("failed")
      /\ socket' \in BOOLEAN
  BY DEF React
<1> QED
  BY <1>1 DEF SaveTypeOK, Reaching

\* Every step of the client, the binding and the session.
LEMMA AckStep ==
    ASSUME "teardown" \notin Ops, AckInv, [SaveNext]_saveVars
    PROVE  AckInv'
<1> USE DEF saveVars, clientVars, AckInv
<1>0. SaveTypeOK /\ TypeOK /\ Latched /\ SaveInv /\ DeferredIsComing /\ AckedIsAccountedFor
  BY DEF SaveTypeOK
<1>1. uplink # <<>> => Head(uplink) \in Edit /\ Tail(uplink) \in Seq(Edit)
  BY <1>0 DEF SaveTypeOK
<1>2. [Next]_vars
  <2>1. SessionStep => Next
    BY DEF SessionStep, Next, Environment
  <2>2. ReceiveUpdate => [Next]_vars
    BY <1>1 DEF ReceiveUpdate, Next, Environment
  <2>3. Disconnect => Next
    BY DEF Disconnect, Next, Environment
  <2> QED
    BY <2>1, <2>2, <2>3 DEF SaveNext, TypeEdit, AckArrives, AckTimesOut
<1>3. TypeOK' /\ Latched' /\ SaveInv'
  BY <1>0, <1>2, TypeStep, LatchedStep, SaveInvStep
<1>4. CASE SessionStep
  <2>1. Next /\ React /\ client' = client /\ uplink' = uplink
    BY <1>4 DEF SessionStep, Next, Environment
  <2>2. SaveTypeOK' /\ deferred' \subseteq deferred \cup Reaching("failed")
    BY <1>0, <1>3, <2>1, ReactType DEF SaveTypeOK
  <2> QED
    BY <1>0, <1>2, <1>3, <2>1, <2>2, DeferredStep, ReactStep
<1>5. CASE ReceiveUpdate
  <2>1. client' = client /\ uplink' \in Seq(Edit)
    BY <1>1, <1>5 DEF ReceiveUpdate
  <2>2. CASE deleted
    <3>1. UNCHANGED <<vars, wire, deferred>> /\ socket' = FALSE
      BY <1>5, <2>2 DEF ReceiveUpdate
    <3>2. SaveTypeOK' /\ AckedIsAccountedFor'
      BY <1>0, <1>3, <2>1, <3>1 DEF SaveTypeOK, AckedIsAccountedFor, vars
    <3> QED
      BY <1>0, <1>2, <1>3, <3>1, <3>2, DeferredStep
  <2>3. CASE ~deleted
    <3>1. Next /\ React
      BY <1>1, <1>5, <2>3 DEF ReceiveUpdate, Next, Environment
    <3>2. SaveTypeOK' /\ deferred' \subseteq deferred \cup Reaching("failed")
      BY <1>0, <1>3, <2>1, <3>1, ReactType DEF SaveTypeOK
    <3> QED
      BY <1>0, <1>2, <1>3, <2>1, <3>1, <3>2, DeferredStep, ReactStep
  <2> QED
    BY <2>2, <2>3
<1>6. CASE Disconnect
  <2>1. client' = client /\ uplink' = <<>> /\ wire' = {} /\ deferred' = {} /\ socket' = FALSE
    BY <1>6 DEF Disconnect
  <2>2. durable \subseteq durable' /\ discarded \subseteq discarded'
    BY <1>0, <1>2, FileStep, DiscardedGrows DEF SaveInv
  <2>3. SaveTypeOK'
    <3>1. uplink' \in Seq(Edit) /\ wire' \in SUBSET Edit /\ deferred' \in SUBSET Edit
      BY <2>1
    <3> QED
      BY <1>0, <1>3, <2>1, <3>1 DEF SaveTypeOK
  <2>4. AckedIsAccountedFor' /\ DeferredIsComing'
    BY <1>0, <2>1, <2>2 DEF AckedIsAccountedFor, DeferredIsComing
  <2> QED
    BY <1>3, <2>3, <2>4
<1>7. CASE \E e \in Edit : TypeEdit(e) \/ AckArrives(e) \/ AckTimesOut(e)
  <2> PICK e \in Edit : TypeEdit(e) \/ AckArrives(e) \/ AckTimesOut(e)
    BY <1>7
  <2>1. UNCHANGED <<vars, socket, deferred>> /\ wire' \subseteq wire
    BY DEF TypeEdit, AckArrives, AckTimesOut
  <2>2. /\ uplink' = uplink \/ uplink' = Append(uplink, e)
        /\ \E s \in {"unsent", "waiting", "timedOut", "saved"} :
             /\ client' = [client EXCEPT ![e] = s]
             /\ s = "saved" => e \in wire
    BY DEF TypeEdit, AckArrives, AckTimesOut
  <2>3. uplink' \in Seq(Edit)
    BY <1>0, <2>2 DEF SaveTypeOK
  <2>4. SaveTypeOK'
    BY <1>0, <1>3, <2>1, <2>2, <2>3 DEF SaveTypeOK
  <2>5. AckedIsAccountedFor'
    BY <1>0, <2>1, <2>2 DEF AckedIsAccountedFor, SaveTypeOK, vars
  <2> QED
    BY <1>0, <1>2, <1>3, <2>1, <2>4, <2>5, DeferredStep
<1>8. CASE UNCHANGED saveVars
  <2>1. SaveTypeOK' /\ AckedIsAccountedFor'
    BY <1>0, <1>3, <1>8 DEF SaveTypeOK, AckedIsAccountedFor, vars
  <2> QED
    BY <1>0, <1>2, <1>3, <1>8, <2>1, DeferredStep
<1> QED
  BY <1>4, <1>5, <1>6, <1>7, <1>8 DEF SaveNext

\* Before the client connects nothing is acknowledged.
LEMMA AckInit == SaveInit => AckInv
<1> SUFFICES ASSUME SaveInit PROVE AckInv
  OBVIOUS
<1>1. TypeOK /\ Latched /\ SaveInv
  BY TypeInit, SaveInvInit DEF SaveInit
<1>2. <<>> \in Seq(Edit)
  OBVIOUS
<1> QED
  BY <1>1, <1>2 DEF SaveInit, AckInv, SaveTypeOK, DeferredIsComing, AckedIsAccountedFor

\* An ack never says more than is true: in every behaviour of a client with a
\* session that is not torn down, an acknowledged edit has been in the file or
\* was taken away by the file's own content or removal, also when its first
\* flush() failed and its ack was held back.
THEOREM AcksAreTrue ==
    ASSUME "teardown" \notin Ops
    PROVE  SaveSpec => []AckedIsAccountedFor
<1>1. SaveInit => AckInv
  BY AckInit
<1>2. AckInv /\ [SaveNext]_saveVars => AckInv'
  BY AckStep
<1>3. AckInv => AckedIsAccountedFor
  BY DEF AckInv
<1> QED
  BY <1>1, <1>2, <1>3, PTL DEF SaveSpec
==============================================================================
