------------------------------ MODULE Snapshots -----------------------------
(***************************************************************************)
(* The data snapshots of a daemon: GET /api/ops/snapshot.zip in            *)
(* apps/daemon/src/app.ts, VaultRegistry.createSnapshotArchive and         *)
(* snapshot-archive.ts.  While users go on editing, the live documents are *)
(* flushed, the vaults are planned, copied to a private spool, validated,  *)
(* and only then packed and delivered; the client may leave, stall or ask  *)
(* twice, the daemon may shut down.                                        *)
(*                                                                         *)
(* A note's content is its version, a number that only grows; 0 is absent. *)
(* One folder stands for the vaults, its version for its mtime and ctime.  *)
(***************************************************************************)
EXTENDS Naturals, FiniteSets

CONSTANTS Notes,      \* names of notes
          SnapshotRequests,   \* requests for a snapshot
          MaxEdits    \* bound: edits and removals

ASSUME SnapshotsBounds == MaxEdits \in Nat

VARIABLES
    live,       \* version of each open document
    noteDisk,       \* version of each file
    entries,    \* version of the folder that holds the files
    clock,      \* versions given so far
    snapRequest,    \* per request: where it stands
    inProgress, \* snapshotInProgress
    spool,      \* requests whose run directory is in the spool
    left,       \* requests whose client left or that the shutdown aborts
    valid       \* history: the disk when a request began to validate

snapVars == <<live, noteDisk, entries, clock, snapRequest, inProgress, spool, left, valid>>

NoNote == [n \in Notes |-> 0]
NewRequest == [at |-> "idle", todo |-> {}, owed |-> NoNote, folder |-> 0,
               plan |-> NoNote, captured |-> NoNote]

SnapshotsInit ==
    /\ noteDisk \in [Notes -> 0..1]
    /\ live = noteDisk
    /\ entries = 0
    /\ clock = 1
    /\ snapRequest = [r \in SnapshotRequests |-> NewRequest]
    /\ inProgress = FALSE
    /\ spool = {}
    /\ left = {}
    /\ valid = [r \in SnapshotRequests |-> NoNote]

-----------------------------------------------------------------------------
(* What users do meanwhile.                                                *)

EditNote(n) ==
    /\ clock <= MaxEdits
    /\ clock' = clock + 1
    /\ live' = [live EXCEPT ![n] = clock']
    /\ UNCHANGED <<noteDisk, entries, snapRequest, inProgress, spool, left, valid>>

WriteFile(n) ==
    /\ live[n] # 0
    /\ noteDisk' = [noteDisk EXCEPT ![n] = live[n]]
    /\ entries' = IF noteDisk[n] = 0 THEN entries + 1 ELSE entries

Save(n) ==
    /\ live[n] # noteDisk[n]
    /\ WriteFile(n)
    /\ UNCHANGED <<live, clock, snapRequest, inProgress, spool, left, valid>>

(* What a user removes is no longer owed to a snapshot under way.          *)
RemoveNote(n) ==
    /\ clock <= MaxEdits
    /\ noteDisk[n] # 0
    /\ clock' = clock + 1
    /\ noteDisk' = [noteDisk EXCEPT ![n] = 0]
    /\ live' = [live EXCEPT ![n] = 0]
    /\ entries' = entries + 1
    /\ snapRequest' = [r \in SnapshotRequests |-> [snapRequest[r] EXCEPT !.owed[n] = 0]]
    /\ UNCHANGED <<inProgress, spool, left, valid>>

ClientLeaves(r) ==
    /\ snapRequest[r].at \notin {"idle", "ended"}
    /\ left' = left \cup {r}
    /\ UNCHANGED <<live, noteDisk, entries, clock, snapRequest, inProgress, spool, valid>>

-----------------------------------------------------------------------------
(* A request.                                                              *)

At(r, step) == snapRequest[r].at = step
RequestGoes(r, step) == snapRequest' = [snapRequest EXCEPT ![r].at = step]
RequestEnds(r) ==
    /\ snapRequest' = [snapRequest EXCEPT ![r] = [NewRequest EXCEPT !.at = "ended"]]
    /\ valid' = [valid EXCEPT ![r] = NoNote]
    /\ left' = left \ {r}
Same == UNCHANGED <<live, noteDisk, entries, clock, inProgress, spool, left, valid>>

(* One snapshot at a time: another is told that one is in progress.        *)
AskAgain(r) ==
    /\ At(r, "idle")
    /\ inProgress' = TRUE
    /\ RequestGoes(r, "prepare")
    /\ UNCHANGED <<live, noteDisk, entries, clock, spool, left, valid>>

Ask(r) ==
    /\ At(r, "idle")
    /\ ~inProgress
    /\ inProgress' = TRUE
    /\ RequestGoes(r, "prepare")
    /\ UNCHANGED <<live, noteDisk, entries, clock, spool, left, valid>>

(* prepareSnapshotSpoolHome empties the spool of every leftover, then the  *)
(* run gets its directory and the time it will be durable as of.           *)
Prepare(r) ==
    /\ At(r, "prepare")
    /\ spool' = {r}
    /\ snapRequest' = [snapRequest EXCEPT ![r] = [@ EXCEPT !.at = "flush", !.owed = live,
                                                           !.todo = {n \in Notes : live[n] # 0}]]
    /\ UNCHANGED <<live, noteDisk, entries, clock, inProgress, left, valid>>

(* Every live document is flushed before anything is read.                 *)
PlanUnflushed(r) ==
    /\ At(r, "flush")
    /\ snapRequest' = [snapRequest EXCEPT ![r].at = "plan"]
    /\ Same

FlushDirtySession(r) ==
    /\ At(r, "flush")
    /\ \E n \in snapRequest[r].todo :
        /\ snapRequest' = [snapRequest EXCEPT ![r].todo = @ \ {n}]
        /\ IF live[n] # 0 THEN WriteFile(n) ELSE UNCHANGED <<noteDisk, entries>>
    /\ UNCHANGED <<live, clock, inProgress, spool, left, valid>>

FlushedAll(r) ==
    /\ At(r, "flush")
    /\ snapRequest[r].todo = {}
    /\ RequestGoes(r, "plan")
    /\ Same

(* planSnapshot: lstat of the folder, then its listing, then lstat of each *)
(* file that is listed.                                                    *)
PlanFolder(r) ==
    /\ At(r, "plan")
    /\ snapRequest' = [snapRequest EXCEPT ![r] = [@ EXCEPT !.at = "list", !.folder = entries]]
    /\ Same

ListFolder(r) ==
    /\ At(r, "list")
    /\ snapRequest' = [snapRequest EXCEPT ![r] = [@ EXCEPT !.at = "stat", !.todo = {n \in Notes : noteDisk[n] # 0}]]
    /\ Same

StatFile(r) ==
    /\ At(r, "stat")
    /\ \E n \in snapRequest[r].todo :
        /\ noteDisk[n] # 0
        /\ snapRequest' = [snapRequest EXCEPT ![r].todo = @ \ {n}, ![r].plan[n] = noteDisk[n]]
    /\ Same

Planned(r) == {n \in Notes : snapRequest[r].plan[n] # 0}

StartCapture(r) ==
    /\ At(r, "stat")
    /\ snapRequest[r].todo = {}
    /\ snapRequest' = [snapRequest EXCEPT ![r] = [@ EXCEPT !.at = "copy", !.todo = Planned(r)]]
    /\ Same

(* captureSnapshotFiles: copy every planned file to the spool, then check  *)
(* that nothing of the plan has changed.                                   *)
CopyFile(r) ==
    /\ At(r, "copy")
    /\ r \in spool
    /\ \E n \in snapRequest[r].todo :
        /\ noteDisk[n] # 0
        /\ snapRequest' = [snapRequest EXCEPT ![r].todo = @ \ {n}, ![r].captured[n] = noteDisk[n]]
    /\ Same

StartValidation(r) ==
    /\ At(r, "copy")
    /\ snapRequest[r].todo = {}
    /\ RequestGoes(r, "folder")
    /\ valid' = [valid EXCEPT ![r] = noteDisk]
    /\ UNCHANGED <<live, noteDisk, entries, clock, inProgress, spool, left>>

FolderUnchecked(r) ==
    /\ At(r, "folder")
    /\ snapRequest' = [snapRequest EXCEPT ![r] = [@ EXCEPT !.at = "files", !.todo = Planned(r)]]
    /\ Same

ValidateFolder(r) ==
    /\ At(r, "folder")
    /\ entries = snapRequest[r].folder
    /\ snapRequest' = [snapRequest EXCEPT ![r] = [@ EXCEPT !.at = "files", !.todo = Planned(r)]]
    /\ Same

ValidateFile(r) ==
    /\ At(r, "files")
    /\ \E n \in snapRequest[r].todo :
        /\ noteDisk[n] = snapRequest[r].plan[n]
        /\ snapRequest' = [snapRequest EXCEPT ![r].todo = @ \ {n}]
    /\ Same

(* Hash, pack and spool the captured files; later edits do not reach them. *)
Pack(r) ==
    /\ At(r, "files")
    /\ snapRequest[r].todo = {}
    /\ r \in spool
    /\ r \notin left
    /\ RequestGoes(r, "deliver")
    /\ Same

(* The catch of the handler: whatever was missing or changed, or a client  *)
(* that left, releases the snapshot and removes the run directory.         *)
Stuck(r) ==
    \/ r \in left
    \/ /\ snapRequest[r].at \in {"stat", "copy"}
       /\ \E n \in snapRequest[r].todo : noteDisk[n] = 0
    \/ At(r, "folder") /\ entries # snapRequest[r].folder
    \/ /\ At(r, "files")
       /\ \E n \in snapRequest[r].todo : noteDisk[n] # snapRequest[r].plan[n]
    \/ snapRequest[r].at \in {"copy", "files"} /\ r \notin spool

SnapshotFails(r) ==
    /\ snapRequest[r].at \notin {"idle", "prepare", "deliver", "ended"}
    /\ \/ Stuck(r)
       \/ At(r, "flush") /\ snapRequest[r].todo # {}
    /\ inProgress' = FALSE
    /\ spool' = spool \ {r}
    /\ RequestEnds(r)
    /\ UNCHANGED <<live, noteDisk, entries, clock>>

(* Delivery ends with the last byte, with the abort of a client that left  *)
(* or of a shutdown, or with the idle timeout; each closes the source,     *)
(* whose close handler cleans up.                                          *)
Cleanup(r) ==
    /\ inProgress' = FALSE
    /\ spool' = spool \ {r}
    /\ RequestEnds(r)
    /\ UNCHANGED <<live, noteDisk, entries, clock>>

Delivered(r) == At(r, "deliver") /\ Cleanup(r)
DeliveryAborted(r) == At(r, "deliver") /\ r \in left /\ Cleanup(r)
NoIdleTimeout(r) == At(r, "deliver") /\ r \in left /\ Cleanup(r)
DeliveryTimesOut(r) == At(r, "deliver") /\ Cleanup(r)

SnapshotSteps(r) ==
    \/ Prepare(r) \/ FlushDirtySession(r) \/ FlushedAll(r) \/ PlanFolder(r) \/ ListFolder(r)
    \/ StatFile(r) \/ StartCapture(r) \/ CopyFile(r) \/ StartValidation(r) \/ ValidateFolder(r)
    \/ ValidateFile(r) \/ Pack(r) \/ SnapshotFails(r) \/ DeliveryAborted(r) \/ DeliveryTimesOut(r)

SnapshotsNext ==
    \/ \E n \in Notes : EditNote(n) \/ Save(n) \/ RemoveNote(n)
    \/ \E r \in SnapshotRequests : Ask(r) \/ ClientLeaves(r) \/ SnapshotSteps(r) \/ Delivered(r)

(* The handler's own steps go on and its timer fires; nothing is assumed   *)
(* of the users or of the client that reads the answer.                    *)
SnapshotsFairness == \A r \in SnapshotRequests : WF_snapVars(SnapshotSteps(r))

SnapshotsSpec == SnapshotsInit /\ [][SnapshotsNext]_snapVars /\ SnapshotsFairness

-----------------------------------------------------------------------------
(* Properties.                                                             *)

(* "Changes during capture fail closed": what is delivered is the vault as *)
(* it was at one instant, not a mix of files from before and after edits   *)
(* that went on while they were copied.                                    *)
SnapshotIsOneInstant ==
    \A r \in SnapshotRequests : At(r, "deliver") => snapRequest[r].captured = valid[r]

(* durableAsOf: a delivered snapshot holds every edit made before the time *)
(* it says, saved or not, unless the note was removed since.               *)
SnapshotIsDurable ==
    \A r \in SnapshotRequests : At(r, "deliver") =>
        \A n \in Notes : snapRequest[r].captured[n] >= snapRequest[r].owed[n]

(* The run directory of a snapshot under way is never emptied by another   *)
(* request's preflight.                                                    *)
SpoolIsOwn ==
    \A r \in SnapshotRequests : snapRequest[r].at \notin {"idle", "prepare", "ended"} => r \in spool

(* A client that stalls or leaves does not keep every later snapshot out.  *)
SnapshotsAreReleased == inProgress ~> ~inProgress

(* A snapshot is one state of the vault, with everything edited before it, *)
(* packed in a directory of its own.                                       *)
SnapshotIsWhole == SnapshotIsOneInstant /\ SnapshotIsDurable /\ SpoolIsOwn
=============================================================================
