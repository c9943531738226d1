--------------------------- MODULE DocumentSession ---------------------------
(***************************************************************************)
(* One document session of the KB-1 daemon: the Y.Doc of one markdown file *)
(* and the three coroutines that share it with the file                    *)
(* (packages/doc-session/src/session.ts, OneFileDocumentSession).          *)
(*                                                                         *)
(*   loop   persistLoop and materialize: writes the document to the file;  *)
(*   check  runExternalChangeCheck: the watcher or the poll found that the *)
(*          file may have changed, and takes its content into the document;*)
(*   op     the structure mutation the manager runs on the session: a move *)
(*          of the file, of a folder above it, a delete, or a close.       *)
(*                                                                         *)
(* The daemon is one Node.js process: code runs without interruption from  *)
(* one I/O completion to the next await of I/O, and promise continuations  *)
(* run before the next completion is taken.  One action is one such run.   *)
(* A file read is two actions, one that takes the bytes and one that       *)
(* resumes the code, because anything can happen in between.               *)
(*                                                                         *)
(* A text is abstracted to the set of edits it contains: an edit of a user *)
(* adds its token, a writer outside the daemon adds, replaces or truncates.*)
(* A content hash is the content itself (SHA-256 taken as injective).      *)
(***************************************************************************)
EXTENDS Naturals, FiniteSets

CONSTANTS
    Edit,          \* the edits users make through the daemon
    Ext,           \* the writes other programs make to the file
    Missing,       \* no file at a path
    None,          \* an undefined hash
    Ops,           \* the structure mutations the environment may ask for
    MaxOps,        \* bound: structure mutations
    MaxWriteFail,  \* bound: failing reads and writes of the markdown file
    MaxSnapFail    \* bound: failing writes of the Yjs state snapshot

OpKind == {"move", "subtree", "delete", "idleClose", "teardown"}
Token == Edit \cup Ext
Text == SUBSET Token
Path == {"from", "to"}
Waiter == Edit \cup {"svc", "op"}
EventKind == {"content-persisted", "persist-failure", "persist-recovered",
              "external-merge", "external-change", "doc-deleted", "doc-moved"}
ReconcileKind == {"external-merge", "external-change"}

ASSUME ConstantsAssumption ==
    /\ \A t \in Text : t # Missing /\ t # None
    /\ Missing # None
    /\ Ops \subseteq OpKind
    /\ MaxOps \in Nat /\ MaxWriteFail \in Nat /\ MaxSnapFail \in Nat
    /\ Edit \cap {"svc", "op"} = {} /\ Edit \cap Ext = {}

VARIABLES
    disk,             \* the file at each path
    path,             \* filePath: where the session believes its file is
    phase,            \* how far open() has come
    subscribed,       \* handleDocumentUpdate is attached to the document
    watching,         \* the file watcher and the poll timer run
    deleted,          \* markDeleted has run
    attached,         \* a client is bound to the session
    text,             \* the text of the Y.Doc
    lastWritten,      \* lastWrittenHash and lastWrittenContent
    pendingWrite,     \* pendingWriteHash
    persistRequested,
    persistFailed,    \* persistFailed and persistFailureError
    loop,             \* the persist loop
    check,            \* the external change check
    op,               \* the structure mutation
    flush,            \* for each caller of flush(), how far its call has come
    emitted,          \* the session events emitted by the last step
    durable,          \* history: edits that have been in the file
    discarded,        \* history: edits a reconcile or a delete took away
    unannounced,      \* history: unsaved edits taken away, no event sent yet
    used              \* how much of each bound is used

persistVars == <<persistRequested, persistFailed, loop, flush>>
openVars == <<phase, attached>>
fileVars == <<disk, durable>>
docVars == <<text, lastWritten, discarded>>
vars == <<disk, path, phase, subscribed, watching, deleted, attached, text,
          lastWritten, pendingWrite, persistRequested, persistFailed, loop,
          check, op, flush, emitted, durable, discarded, unannounced, used>>

LoopIdle == [pc |-> "idle", path |-> "from", disk |-> None, content |-> {},
             failure |-> FALSE, event |-> "none"]
CheckIdle == [pc |-> "idle", disk |-> None, event |-> "none"]
NoOp == [kind |-> "none", pc |-> "idle", text |-> {}]

Init ==
    /\ disk \in {[p \in Path |-> IF p = "from" THEN c ELSE Missing] :
                   c \in {{}, Missing}}
    /\ path = "from"
    /\ phase = "new" /\ subscribed = FALSE /\ watching = FALSE
    /\ deleted = FALSE /\ attached = TRUE
    /\ text = {} /\ lastWritten = None /\ pendingWrite = None
    /\ persistRequested = FALSE /\ persistFailed = FALSE
    /\ loop = LoopIdle /\ check = CheckIdle /\ op = NoOp
    /\ flush = [w \in Waiter |-> "none"]
    /\ emitted = {}
    /\ durable = {} /\ discarded = {} /\ unannounced = {}
    /\ used = [ext |-> {}, ops |-> {}, write |-> 0, snap |-> 0]

------------------------------------------------------------------------------
(* Helpers of several actions. *)

Busy == loop.pc # "idle"                                   \* persistPromise
NeverInTransition == FALSE               \* Mutant: persists ignore transitions
TransitionPending == op.pc \in {"disk", "write", "snap", "rm"}
Waiting(w) == flush[w] \in {"first", "retry"}

WriteDisk(p, c) ==
    /\ disk' = [disk EXCEPT ![p] = c]
    /\ durable' = IF c = Missing THEN durable ELSE durable \cup c

Fails(kind, max) ==
    /\ used[kind] < max
    /\ used' = [used EXCEPT ![kind] = @ + 1]

Loud == {"external-change", "doc-deleted", "persist-failure"}

Emit(events) ==
    /\ emitted' = events
    /\ unannounced' = IF events \cap Loud # {} THEN {} ELSE unannounced

Quiet == emitted' = {} /\ UNCHANGED unannounced

------------------------------------------------------------------------------
(* Persist requests, and the end of an iteration of persistLoop.           *)

\* materialize() returns at once when the session is deleted and no path
\* transition is pending.
Runs(gone, transition) == ~gone \/ transition

\* materialize() up to its first await.
BeginMaterialize(failure, t, p, transition) ==
    [pc |-> IF transition THEN "transition" ELSE "read", path |-> p,
     disk |-> None, content |-> IF transition THEN {} ELSE t,
     failure |-> failure, event |-> "none"]

\* requestPersist() while the document is t.
RequestPersist(t) ==
    IF Busy
    THEN persistRequested' = TRUE /\ UNCHANGED loop
    ELSE /\ loop' = BeginMaterialize(FALSE, t, path, TransitionPending)
         /\ UNCHANGED persistRequested

\* flush() called by w, when nothing else of the step requests a persist.
CallFlush(w, t) ==
    LET result == IF Busy THEN "first"
                  ELSE IF persistFailed /\ Runs(deleted, TransitionPending)
                       THEN "retry" ELSE "ok"
    IN  /\ flush' = [flush EXCEPT ![w] = result]
        /\ loop' = IF result = "retry"
                   THEN BeginMaterialize(FALSE, t, path, TransitionPending)
                   ELSE loop
        /\ UNCHANGED <<persistRequested, persistFailed>>

\* Mutant: the loop swallows its failure.
SettledIgnoringFailure(failure, stillFailed) ==
    [w \in Waiter |-> IF Waiting(w) THEN "ok" ELSE flush[w]]

\* What the settled persist promise makes of every pending flush() call.
Settled(failure, stillFailed) ==
    [w \in Waiter |->
       IF ~Waiting(w) THEN flush[w]
       ELSE IF failure THEN "failed"
       ELSE IF flush[w] = "first" /\ stillFailed THEN "retry" ELSE "ok"]

\* Mutant: flush() waits for a persist that it does not request.
IterationEndsForgetting(failure, stillFailed, gone, t, p, transition) ==
    IF persistRequested
    THEN /\ loop' = BeginMaterialize(failure, t, p, transition)
         /\ persistRequested' = FALSE
         /\ UNCHANGED flush
    ELSE /\ flush' = Settled(failure, stillFailed)
         /\ loop' = LoopIdle
         /\ UNCHANGED persistRequested

\* persistLoop after an iteration: another one if it was requested, else the
\* promise settles and the flush() calls resume.
IterationEnds(failure, stillFailed, gone, t, p, transition) ==
    LET settled == Settled(failure, stillFailed /\ Runs(gone, transition))
        again == {w \in Waiter : settled[w] = "retry"}
    IN  IF persistRequested /\ Runs(gone, transition)
        THEN /\ loop' = BeginMaterialize(failure, t, p, transition)
             /\ persistRequested' = FALSE
             /\ UNCHANGED flush
        ELSE /\ flush' = settled
             /\ persistRequested' = \E v, w \in again : v # w
             /\ loop' = IF again = {} THEN LoopIdle
                        ELSE BeginMaterialize(FALSE, t, p, transition)

\* The structure mutation k after its flush() returned r.
AfterFlush(k, r, gone) ==
    CASE r = "failed" -> NoOp
      [] r = "ok" /\ k = "idleClose" -> NoOp
      [] r = "ok" /\ k = "teardown" -> [NoOp EXCEPT !.kind = "teardown"]
      [] r = "ok" /\ k = "move" /\ gone -> NoOp
      [] r = "ok" /\ k \in {"move", "delete"} -> [kind |-> k, pc |-> "disk", text |-> {}]
      [] r = "ok" /\ k = "subtree" -> [kind |-> k, pc |-> "hold", text |-> {}]
      [] OTHER -> [kind |-> k, pc |-> "flush", text |-> {}]

\* close() detaches the session once its flush() succeeded; a mutation whose
\* flush() failed starts watching again.
AfterFlushWatch(k, r, gone, watch) ==
    /\ subscribed' = (subscribed /\ ~(r = "ok" /\ k \in {"idleClose", "teardown"}))
    /\ watching' = CASE r = "ok" /\ k \in {"idleClose", "teardown"} -> FALSE
                     [] r = "failed" /\ k \in {"move", "subtree", "delete"} -> ~gone
                     [] OTHER -> watch

\* The part of a loop step in which a structure mutation waiting in flush()
\* resumes, if its call settled.
OpResumes(gone, watch) ==
    IF op.pc = "flush" /\ flush'["op"] \in {"ok", "failed"}
    THEN /\ op' = AfterFlush(op.kind, flush'["op"], gone)
         /\ AfterFlushWatch(op.kind, flush'["op"], gone, watch)
    ELSE watching' = watch /\ UNCHANGED <<op, subscribed>>

------------------------------------------------------------------------------
(* open(): loadFromFile. *)

OpenSession ==
    /\ phase = "new"
    /\ phase' = "loading"
    /\ Quiet
    /\ UNCHANGED <<fileVars, docVars, persistVars, path, subscribed, watching,
                   deleted, attached, pendingWrite, check, op, used>>

\* The file is read and the document holds its content: either restored from
\* a valid state snapshot, or inserted (or repaired), with a new snapshot to
\* be written before the session is open.
LoadFile ==
    /\ phase = "loading" /\ disk[path] # Missing
    /\ text' = disk[path] /\ lastWritten' = disk[path]
    /\ \/ phase' = "restoring" /\ UNCHANGED <<subscribed, watching>>
       \/ phase' = "open" /\ subscribed' = TRUE /\ watching' = TRUE
    /\ Quiet
    /\ UNCHANGED <<fileVars, persistVars, path, deleted, attached, discarded,
                   pendingWrite, check, op, used>>

\* The file is missing: NotFound, or createIfMissing goes on to write it.
LoadMissing ==
    /\ phase = "loading" /\ disk[path] = Missing
    /\ phase' \in {"failed", "creating"}
    /\ Quiet
    /\ UNCHANGED <<fileVars, docVars, persistVars, path, subscribed, watching,
                   deleted, attached, pendingWrite, check, op, used>>

CreateMissing ==
    /\ phase = "creating"
    /\ phase' = "restoring"
    /\ WriteDisk(path, {})
    /\ text' = {} /\ lastWritten' = {}
    /\ Quiet
    /\ UNCHANGED <<persistVars, path, subscribed, watching, deleted, attached,
                   discarded, pendingWrite, check, op, used>>

\* The snapshot of a fresh document is written, or it is not and the open
\* fails; the manager then drops the session (scheduleIdleClose).
LoadSnapshot ==
    /\ phase = "restoring"
    /\ \/ /\ phase' = "open" /\ subscribed' = TRUE /\ watching' = TRUE
          /\ UNCHANGED used
       \/ /\ Fails("snap", MaxSnapFail)
          /\ phase' = "failed" /\ UNCHANGED <<subscribed, watching>>
    /\ Quiet
    /\ UNCHANGED <<fileVars, docVars, persistVars, path, deleted, attached,
                   pendingWrite, check, op>>

------------------------------------------------------------------------------
(* Users and other programs. *)

\* An edit reaches the document (an acked update of a client, applyContent,
\* applyContentEdit, reset): the update handler requests a persist and the
\* caller awaits flush().
ApplyEdit(e) ==
    /\ phase = "open" /\ attached /\ ~deleted /\ flush[e] = "none"
    /\ text' = text \cup {e}
    /\ IF subscribed
       THEN /\ RequestPersist(text')
            /\ flush' = [flush EXCEPT ![e] = "first"]
            /\ UNCHANGED persistFailed
       ELSE CallFlush(e, text')
    /\ Quiet
    /\ UNCHANGED <<fileVars, openVars, path, subscribed, watching, deleted,
                   lastWritten, discarded, pendingWrite, check, op, used>>

\* flushDirtySessions().
FlushDirty ==
    /\ phase = "open" /\ ~Waiting("svc")
    /\ Busy \/ persistFailed
    /\ CallFlush("svc", text)
    /\ Quiet
    /\ UNCHANGED <<fileVars, openVars, docVars, path, subscribed, watching,
                   deleted, pendingWrite, check, op, used>>

\* The client's socket closes: its binding flushes and releases its lease.
Detach ==
    /\ phase = "open" /\ attached /\ ~Waiting("svc")
    /\ attached' = FALSE
    /\ CallFlush("svc", text)
    /\ Quiet
    /\ UNCHANGED <<fileVars, docVars, phase, path, subscribed, watching,
                   deleted, pendingWrite, check, op, used>>

\* Another program writes, truncates or removes the file.
ExternalWrite(x) ==
    /\ x \in Ext \ used.ext
    /\ \E c \in {{x}, {}, Missing} \cup
                (IF disk[path] = Missing THEN {} ELSE {disk[path] \cup {x}}) :
          c # disk[path] /\ WriteDisk(path, c)
    /\ used' = [used EXCEPT !.ext = @ \cup {x}]
    /\ Quiet
    /\ UNCHANGED <<openVars, docVars, persistVars, path, subscribed, watching,
                   deleted, pendingWrite, check, op>>

------------------------------------------------------------------------------
(* reconcileExternalContent, used by the loop and by the check.            *)

\* Mutant: only a truncation counts as a conflict.
ReconcileEventBySize(content) ==
    IF text = content THEN "none"
    ELSE IF text # {} /\ content = {} THEN "external-change" ELSE "external-merge"

\* The event that tells clients about it; "none" if nothing changes for them.
ReconcileEvent(content) ==
    IF text = content THEN "none"
    ELSE IF ~(text # {} /\ content = {}) /\ text = lastWritten
         THEN "external-merge" ELSE "external-change"

\* Mutant: only the hash is updated.
TakeContentHashOnly(content) ==
    /\ lastWritten' = content
    /\ UNCHANGED <<text, discarded>>
    /\ Quiet

\* The document takes the content of the file, without requesting a persist.
TakeContent(content) ==
    /\ text' = content /\ lastWritten' = content
    /\ discarded' = discarded \cup (text \ content)
    /\ unannounced' = unannounced \cup ((text \ content) \ durable)
    /\ emitted' = {}

\* markDeleted(), except for watching.
MarkDeleted ==
    /\ deleted' = TRUE
    /\ discarded' = discarded \cup text
    /\ IF deleted THEN Quiet ELSE Emit({"doc-deleted"})

------------------------------------------------------------------------------
(* The persist loop. *)

\* The bytes of the file are taken; materialize has not resumed yet.
LoopReadDisk ==
    /\ loop.pc = "read"
    /\ loop' = [loop EXCEPT !.pc = "got", !.disk = disk[loop.path]]
    /\ Quiet
    /\ UNCHANGED <<fileVars, openVars, docVars, persistRequested,
                   persistFailed, flush, path, subscribed, watching, deleted,
                   pendingWrite, check, op, used>>

\* The file is what the session wrote last: write the captured document.
LoopStartsWrite ==
    /\ loop.pc = "got" /\ loop.disk = lastWritten
    /\ loop' = [loop EXCEPT !.pc = "write", !.path = path]
    /\ pendingWrite' = loop.content
    /\ Quiet
    /\ UNCHANGED <<fileVars, openVars, docVars, persistRequested,
                   persistFailed, flush, path, subscribed, watching, deleted,
                   check, op, used>>

\* It is not: the file wins over the document.
LoopReconciles ==
    /\ loop.pc = "got" /\ loop.disk # lastWritten /\ loop.disk # Missing
    /\ TakeContent(loop.disk)
    /\ loop' = [loop EXCEPT !.pc = "rsnap", !.event = ReconcileEvent(loop.disk)]
    /\ UNCHANGED <<fileVars, openVars, persistRequested, persistFailed, flush,
                   path, subscribed, watching, deleted, pendingWrite, check,
                   op, used>>

LoopFindsMissing ==
    /\ loop.pc = "got" /\ loop.disk # lastWritten /\ loop.disk = Missing
    /\ MarkDeleted
    /\ IterationEnds(loop.failure, persistFailed, TRUE, text, path, TransitionPending)
    /\ OpResumes(TRUE, watching /\ deleted)
    /\ UNCHANGED <<fileVars, openVars, text, lastWritten, persistFailed, path,
                   pendingWrite, check, used>>

\* The rename of atomicWriteFile: the file has the captured content.
LoopRenames ==
    /\ loop.pc = "write"
    /\ WriteDisk(loop.path, loop.content)
    /\ loop' = [loop EXCEPT !.pc = "snap"]
    /\ Quiet
    /\ UNCHANGED <<openVars, docVars, persistRequested, persistFailed, flush,
                   path, subscribed, watching, deleted, pendingWrite, check,
                   op, used>>

\* The snapshot is written too: the content is persisted.
LoopPersisted ==
    /\ loop.pc = "snap"
    /\ lastWritten' = loop.content /\ pendingWrite' = None
    /\ persistFailed' = FALSE
    /\ Emit({"content-persisted"} \cup
            (IF persistFailed THEN {"persist-recovered"} ELSE {}))
    /\ IterationEnds(loop.failure, FALSE, deleted, text, path, TransitionPending)
    /\ OpResumes(deleted, watching)
    /\ UNCHANGED <<fileVars, openVars, text, discarded, path, deleted, check, used>>

\* Mutant: an event is sent even if nothing changed for the clients.
LoopReconciledAlwaysEmits ==
    /\ loop.pc = "rsnap"
    /\ Emit({loop.event})
    /\ IterationEnds(loop.failure, persistFailed, deleted, text, path, TransitionPending)
    /\ OpResumes(deleted, watching)
    /\ UNCHANGED <<fileVars, openVars, docVars, persistFailed, path, deleted,
                   pendingWrite, check, used>>

\* The snapshot after a reconcile is written: now clients are told.
LoopReconciled ==
    /\ loop.pc = "rsnap"
    /\ Emit({loop.event} \ {"none"})
    /\ IterationEnds(loop.failure, persistFailed, deleted, text, path, TransitionPending)
    /\ OpResumes(deleted, watching)
    /\ UNCHANGED <<fileVars, openVars, docVars, persistFailed, path, deleted,
                   pendingWrite, check, used>>

\* A read or a write of materialize throws: markPersistFailed.
LoopFails ==
    /\ \/ loop.pc \in {"read", "write"} /\ Fails("write", MaxWriteFail)
       \/ loop.pc \in {"snap", "rsnap"} /\ Fails("snap", MaxSnapFail)
    /\ pendingWrite' = IF loop.pc \in {"write", "snap"} THEN None ELSE pendingWrite
    /\ persistFailed' = TRUE
    /\ Emit({"persist-failure"})
    /\ IterationEnds(TRUE, TRUE, deleted, text, path, TransitionPending)
    /\ OpResumes(deleted, watching)
    /\ UNCHANGED <<fileVars, openVars, docVars, path, deleted, check>>

LoopStep ==
    \/ LoopReadDisk \/ LoopStartsWrite \/ LoopReconciles \/ LoopFindsMissing
    \/ LoopRenames \/ LoopPersisted \/ LoopReconciled \/ LoopFails

------------------------------------------------------------------------------
(* The external change check. *)

\* The poll timer or the debounced watcher event starts a check, unless one
\* is under way.
StartCheck ==
    /\ phase = "open" /\ watching /\ check.pc = "idle"
    /\ check' = [CheckIdle EXCEPT !.pc = "read"]
    /\ Quiet
    /\ UNCHANGED <<fileVars, openVars, docVars, persistVars, path, subscribed,
                   watching, deleted, pendingWrite, op, used>>

CheckReadDisk ==
    /\ check.pc = "read"
    /\ check' = [check EXCEPT !.pc = "got", !.disk = disk[path]]
    /\ Quiet
    /\ UNCHANGED <<fileVars, openVars, docVars, persistVars, path, subscribed,
                   watching, deleted, pendingWrite, op, used>>

\* Content that is the session's own write, finished or under way.
OwnContent(c) == c \in {lastWritten, pendingWrite}

CheckIgnores ==
    /\ check.pc = "got" /\ check.disk # Missing /\ OwnContent(check.disk)
    /\ check' = CheckIdle
    /\ Quiet
    /\ UNCHANGED <<fileVars, openVars, docVars, persistVars, path, subscribed,
                   watching, deleted, pendingWrite, op, used>>

CheckFindsMissing ==
    /\ check.pc = "got" /\ check.disk = Missing
    /\ MarkDeleted
    /\ watching' = (watching /\ deleted)
    /\ check' = CheckIdle
    /\ UNCHANGED <<fileVars, openVars, persistVars, text, lastWritten, path,
                   subscribed, pendingWrite, op, used>>

CheckReconciles ==
    /\ check.pc = "got" /\ check.disk # Missing /\ ~OwnContent(check.disk)
    /\ TakeContent(check.disk)
    /\ check' = [check EXCEPT !.pc = "rsnap", !.event = ReconcileEvent(check.disk)]
    /\ UNCHANGED <<fileVars, openVars, persistVars, path, subscribed, watching,
                   deleted, pendingWrite, op, used>>

CheckReconciled ==
    /\ check.pc = "rsnap"
    /\ Emit({check.event} \ {"none"})
    /\ check' = CheckIdle
    /\ UNCHANGED <<fileVars, openVars, docVars, persistVars, path, subscribed,
                   watching, deleted, pendingWrite, op, used>>

\* A read or the snapshot fails: a warning in the log; a structure mutation
\* that waits for the check fails with it.
CheckFails ==
    /\ \/ check.pc = "read" /\ Fails("write", MaxWriteFail)
       \/ check.pc = "rsnap" /\ Fails("snap", MaxSnapFail)
    /\ check' = CheckIdle
    /\ IF op.pc = "check"
       THEN op' = NoOp /\ watching' = ~deleted
       ELSE UNCHANGED <<op, watching>>
    /\ Quiet
    /\ UNCHANGED <<fileVars, openVars, docVars, persistVars, path, subscribed,
                   deleted, pendingWrite>>

CheckStep ==
    \/ CheckReadDisk \/ CheckIgnores \/ CheckFindsMissing \/ CheckReconciles
    \/ CheckReconciled \/ CheckFails

------------------------------------------------------------------------------
(* Structure mutations, which the manager runs one at a time. *)

IsClose(k) == k \in {"idleClose", "teardown"}

\* flush() of prepareForPathTransition or of close().
OpFlush(k, watch) ==
    /\ CallFlush("op", text)
    /\ op' = AfterFlush(k, flush'["op"], FALSE)
    /\ AfterFlushWatch(k, flush'["op"], FALSE, watch)

\* The manager starts a mutation of a session it has in its map.  An idle
\* close is refused while a client is bound or content is not durable; the
\* close of a vault's teardown is not.
StartOp(k) ==
    /\ k \in Ops \ used.ops /\ Cardinality(used.ops) < MaxOps
    /\ phase = "open" /\ ~deleted /\ subscribed /\ op.pc = "idle"
    /\ k = "idleClose" => ~attached /\ ~persistFailed
    /\ used' = [used EXCEPT !.ops = @ \cup {k}]
    /\ IF ~IsClose(k) /\ check.pc # "idle"
       THEN /\ op' = [kind |-> k, pc |-> "check", text |-> {}]
            /\ watching' = FALSE
            /\ UNCHANGED <<persistVars, subscribed>>
       ELSE OpFlush(k, IsClose(k) /\ watching)
    /\ Quiet
    /\ UNCHANGED <<fileVars, openVars, docVars, path, deleted, pendingWrite,
                   check>>

\* Mutant: the deletion the check found is not considered.
OpAfterCheckStuck ==
    /\ op.pc = "check" /\ check.pc = "idle" /\ ~deleted
    /\ OpFlush(op.kind, watching)
    /\ Quiet
    /\ UNCHANGED <<fileVars, openVars, docVars, path, deleted, pendingWrite,
                   check, used>>

\* prepareForPathTransition after the check it waited for.
OpAfterCheck ==
    /\ op.pc = "check" /\ check.pc = "idle"
    /\ IF deleted
       THEN op' = NoOp /\ UNCHANGED <<persistVars, subscribed, watching>>
       ELSE OpFlush(op.kind, watching)
    /\ Quiet
    /\ UNCHANGED <<fileVars, openVars, docVars, path, deleted, pendingWrite,
                   check, used>>

\* moveSessionSubtree: every session of the folder is prepared, the shared
\* disk move starts.
SubtreePrepared ==
    /\ op.pc = "hold"
    /\ op' = IF deleted THEN NoOp ELSE [op EXCEPT !.pc = "disk"]
    /\ Quiet
    /\ UNCHANGED <<fileVars, openVars, docVars, persistVars, path, subscribed,
                   watching, deleted, pendingWrite, check, used>>

\* The preparation of another session of the folder throws: the folder is not
\* moved, and nothing starts the watcher of this session again.
SubtreeAbandoned ==
    /\ op.pc = "hold" /\ Fails("write", MaxWriteFail)
    /\ op' = NoOp
    /\ Quiet
    /\ UNCHANGED <<fileVars, openVars, docVars, persistVars, path, subscribed,
                   watching, deleted, pendingWrite, check>>

\* A materialize that waits for the transition resumes when it settles well.
TransitionSucceeds(gone, p) ==
    IF loop.pc # "transition" THEN UNCHANGED persistVars
    ELSE /\ UNCHANGED persistFailed
         /\ IF gone
            THEN IterationEnds(loop.failure, persistFailed, TRUE, text, p, FALSE)
            ELSE /\ loop' = BeginMaterialize(loop.failure, text, p, FALSE)
                 /\ UNCHANGED <<persistRequested, flush>>

\* Mutant: the persist that waited is given up without a failure.
TransitionFailsQuietly ==
    IF loop.pc # "transition" THEN UNCHANGED persistVars /\ Quiet
    ELSE /\ UNCHANGED persistFailed
         /\ Quiet
         /\ IterationEnds(FALSE, persistFailed, deleted, text, path, FALSE)

\* It throws the transition's error when that fails.
TransitionFails ==
    IF loop.pc # "transition" THEN UNCHANGED persistVars /\ Quiet
    ELSE /\ persistFailed' = TRUE
         /\ Emit({"persist-failure"})
         /\ IterationEnds(TRUE, TRUE, deleted, text, path, FALSE)

Other(p) == IF p = "from" THEN "to" ELSE "from"

\* moveOnDisk can succeed: the destination is free and, for a move of the
\* file itself, the source is there.
CanMove == disk[Other(path)] = Missing /\ (op.kind = "subtree" \/ disk[path] # Missing)

\* moveOnDisk: the session is bound to the new path and captures its text.
OpMovesDisk ==
    /\ op.pc = "disk" /\ op.kind \in {"move", "subtree"} /\ CanMove
    /\ disk' = [disk EXCEPT ![Other(path)] = disk[path], ![path] = Missing]
    /\ IF deleted
       THEN op' = NoOp /\ TransitionFails /\ UNCHANGED path
       ELSE /\ op' = [op EXCEPT !.pc = "write", !.text = text]
            /\ path' = Other(path)
            /\ Quiet
            /\ UNCHANGED persistVars
    /\ UNCHANGED <<openVars, docVars, durable, subscribed, watching, deleted,
                   pendingWrite, check, used>>

OpWritesMoved ==
    /\ op.pc = "write"
    /\ WriteDisk(path, op.text)
    /\ op' = [op EXCEPT !.pc = "snap"]
    /\ Quiet
    /\ UNCHANGED <<openVars, docVars, persistVars, path, subscribed, watching,
                   deleted, pendingWrite, check, used>>

\* Mutant: a moved session is not watched again.
OpMovedUnwatched ==
    /\ op.pc = "snap"
    /\ lastWritten' = op.text /\ pendingWrite' = None
    /\ Emit({"doc-moved"})
    /\ op' = NoOp
    /\ TransitionSucceeds(deleted, path)
    /\ UNCHANGED <<fileVars, openVars, text, discarded, path, subscribed,
                   watching, deleted, check, used>>

\* The rest of completeMoveAfterTransition, once the snapshot is written.
OpMoved ==
    /\ op.pc = "snap"
    /\ lastWritten' = op.text /\ pendingWrite' = None /\ watching' = TRUE
    /\ Emit({"doc-moved"})
    /\ op' = NoOp
    /\ TransitionSucceeds(deleted, path)
    /\ UNCHANGED <<fileVars, openVars, text, discarded, path, subscribed,
                   deleted, check, used>>

\* deleteOnDisk, then the removal of the state snapshot.
OpDeletesDisk ==
    /\ op.pc = "disk" /\ op.kind = "delete" /\ disk[path] # Missing
    /\ WriteDisk(path, Missing)
    /\ op' = [op EXCEPT !.pc = "rm"]
    /\ Quiet
    /\ UNCHANGED <<openVars, docVars, persistVars, path, subscribed, watching,
                   deleted, pendingWrite, check, used>>

OpDeleted ==
    /\ op.pc = "rm"
    /\ MarkDeleted
    /\ watching' = (watching /\ deleted)
    /\ op' = NoOp
    /\ TransitionSucceeds(TRUE, path)
    /\ UNCHANGED <<fileVars, openVars, text, lastWritten, path, subscribed,
                   pendingWrite, check, used>>

\* A step of the mutation throws.  Watching starts again only if the file has
\* not been moved.
OpFails ==
    /\ \/ op.pc \in {"disk", "write"} /\ Fails("write", MaxWriteFail)
       \/ op.pc \in {"snap", "rm"} /\ Fails("snap", MaxSnapFail)
       \/ /\ op.pc = "disk" /\ UNCHANGED used
          /\ IF op.kind = "delete" THEN disk[path] = Missing ELSE ~CanMove
    /\ watching' = (watching \/ (op.pc \in {"disk", "rm"} /\ ~deleted))
    /\ op' = NoOp
    /\ TransitionFails
    /\ UNCHANGED <<fileVars, openVars, docVars, path, subscribed, deleted,
                   pendingWrite, check>>

\* close() of the vault's manager failed for another session: the sessions it
\* closed already are resumed.
ResumeAfterCloseFailure ==
    /\ op.kind = "teardown" /\ op.pc = "idle" /\ ~deleted
    /\ subscribed' = TRUE /\ watching' = TRUE /\ op' = NoOp
    /\ Quiet
    /\ UNCHANGED <<fileVars, openVars, docVars, persistVars, path, deleted,
                   pendingWrite, check, used>>

OpStep ==
    \/ OpAfterCheck \/ SubtreePrepared \/ SubtreeAbandoned \/ OpMovesDisk
    \/ OpWritesMoved \/ OpMoved \/ OpDeletesDisk \/ OpDeleted \/ OpFails

------------------------------------------------------------------------------
OpenStep == OpenSession \/ LoadFile \/ LoadMissing \/ CreateMissing \/ LoadSnapshot

Environment ==
    \/ \E e \in Edit : ApplyEdit(e)
    \/ \E x \in Ext : ExternalWrite(x)
    \/ \E k \in Ops : StartOp(k)
    \/ FlushDirty \/ Detach \/ ResumeAfterCloseFailure

Next == OpenStep \/ LoopStep \/ CheckStep \/ StartCheck \/ OpStep \/ Environment

\* Node.js completes every file operation it was asked for, and the poll timer
\* of a watched session keeps firing.  Users, other programs and the manager
\* owe nothing.
Fairness ==
    /\ WF_vars(OpenStep) /\ WF_vars(LoopStep) /\ WF_vars(CheckStep)
    /\ WF_vars(OpStep) /\ WF_vars(StartCheck)

Spec == Init /\ [][Next]_vars /\ Fairness

------------------------------------------------------------------------------
(* Properties. *)

\* The values of the three coroutines and of the calls of flush().
LoopType ==
    [pc : {"idle", "transition", "read", "got", "write", "snap", "rsnap"},
     path : Path, disk : {Missing, None} \cup Text, content : Text,
     failure : BOOLEAN, event : ReconcileKind \cup {"none"}]
CheckType ==
    [pc : {"idle", "read", "got", "rsnap"}, disk : {Missing, None} \cup Text,
     event : ReconcileKind \cup {"none"}]
OpType ==
    [kind : OpKind \cup {"none"},
     pc : {"idle", "check", "flush", "hold", "disk", "write", "snap", "rm"},
     text : Text]
FlushType == [Waiter -> {"none", "first", "retry", "ok", "failed"}]
UsedType == [ext : SUBSET Ext, ops : SUBSET Ops, write : Nat, snap : Nat]

\* Every variable has a value of its type: in particular only content that was
\* read or written is taken for the document or for what is in the file, and
\* clients are sent only events of the protocol.
TypeOK ==
    /\ disk \in [Path -> {Missing} \cup Text] /\ path \in Path
    /\ phase \in {"new", "loading", "creating", "restoring", "open", "failed"}
    /\ subscribed \in BOOLEAN /\ watching \in BOOLEAN /\ deleted \in BOOLEAN
    /\ attached \in BOOLEAN
    /\ text \in Text
    /\ lastWritten \in {None} \cup Text /\ pendingWrite \in {None} \cup Text
    /\ persistRequested \in BOOLEAN /\ persistFailed \in BOOLEAN
    /\ loop \in LoopType /\ check \in CheckType /\ op \in OpType
    /\ flush \in FlushType
    /\ emitted \in SUBSET EventKind
    /\ durable \in Text /\ discarded \in Text /\ unannounced \in Text
    /\ used \in UsedType

\* A flush() that resolves keeps its promise: the edit its caller made has been
\* in the file, unless the content of the file or its removal took it away.
FlushedIsAccountedFor ==
    \A e \in Edit : flush[e] = "ok" => e \in durable \cup discarded

\* Edits save or fail loudly: an edit on the screen that has never been in the
\* file is on its way there, or the failure is being shown, or the document is
\* gone.
UnsavedIsVisible ==
    phase = "open" =>
      \/ text \subseteq durable
      \/ persistFailed \/ deleted
      \/ Busy /\ (persistRequested \/ loop.pc = "transition"
                    \/ text \subseteq durable \cup loop.content)

\* Losing an unsaved edit to the file is tolerable only when the user is told:
\* what a reconcile takes away is announced as external-change, never as a
\* harmless external-merge, as soon as the reconcile ends.  Only a failing
\* write of the state snapshot, which ends a check with a line in the log, can
\* keep it from them.
LossIsAnnounced ==
    used.snap = 0 /\ unannounced # {} =>
      \/ loop.pc = "rsnap" /\ loop.event = "external-change"
      \/ check.pc = "rsnap" /\ check.event = "external-change"

\* No file operation has failed: a read, a write, a move, a snapshot.
NothingFailed == used.write = 0 /\ used.snap = 0

\* A live session notices changes of its file: outside a structure mutation
\* its watcher and its poll timer run, after failures too, unless a move has
\* failed half way.
LiveSessionIsWatched ==
    /\ phase = "open" /\ subscribed /\ ~deleted /\ op.pc = "idle"
    /\ NothingFailed \/ used.ops \cap {"move", "subtree"} = {}
    => watching

\* After a move of the file the session leaves nothing at the old path: with no
\* other program writing and no operation failing, the file is at the path the
\* session is bound to and nowhere else, edits made during the move included.
MoveLeavesNoCopy ==
    used.ext = {} /\ NothingFailed /\ "subtree" \notin used.ops /\ op.pc = "idle"
      => disk[Other(path)] = Missing

\* The same of a move of a folder above the file.
FolderMoveLeavesNoCopy ==
    used.ext = {} /\ used.ops = {"subtree"} /\ op.pc = "idle"
      => disk[Other(path)] = Missing

\* No silent divergence between screen and disk: when nothing is under way, no
\* failure is shown and the file is what the session believes it to be (so that
\* no later check will find a difference), the document is what the file holds.
NoHiddenDivergence ==
    phase = "open" /\ ~Busy /\ check.pc = "idle" /\ op.pc = "idle"
      /\ ~persistFailed /\ ~deleted /\ disk[path] = lastWritten => text = lastWritten

\* Edits are lost only to an out-of-band conflict: when no other program writes
\* the file, no unsaved edit is taken out of a document that is still there.
OnlyConflictsLoseEdits ==
    used.ext = {} /\ ~deleted => discarded \subseteq durable

\* Every flush() call settles.
FlushSettles == \A w \in Waiter : Waiting(w) ~> ~Waiting(w)

\* Every structure mutation ends: the mutation waits for the loop and the loop
\* for the path transition, never both at once.
MutationEnds == op.pc # "idle" ~> op.pc = "idle"

\* A session nobody edits converges to its file, whatever other programs write
\* and whichever reads fail.  Folder moves are left out: one that is abandoned
\* leaves its sessions unwatched.
ConvergesToFile ==
    []((\A e \in Edit : flush[e] = "none") /\ "subtree" \notin used.ops)
      => <>[](phase = "failed" \/ deleted \/ text = disk[path])
==============================================================================
