--------------------------- MODULE SnapshotsProofs --------------------------
(***************************************************************************)
(* Proofs about snapshots, for any notes, requests, edits and entries.     *)
(*                                                                         *)
(* A snapshot that is delivered is one state of the vault and holds every  *)
(* edit made before it was asked for (module Snapshots).                   *)
(*                                                                         *)
(* What is packed can be unpacked anywhere and restored to the tree it was *)
(* taken of, or leaves nothing behind (module SnapshotRestore): names that *)
(* would meet are encoded, and the folder that a restore fills is its own  *)
(* and holds exactly the files written so far (RestoreInv).                *)
(***************************************************************************)
EXTENDS Snapshots, SnapshotRestore, FiniteSetTheorems, WellFoundedInduction, TLAPS

----------------------------------------------------------------------------
(* The inductive invariant. *)

SnapshotStep == {"idle", "prepare", "flush", "plan", "list", "stat", "copy", "folder",
                 "files", "deliver", "ended"}

Version == [Notes -> Nat]

RequestType == [at : SnapshotStep, todo : SUBSET Notes, owed : Version, folder : Nat,
                plan : Version, captured : Version]

\* The types of what the invariant speaks of.
SnapTypeOK ==
    /\ live \in Version /\ noteDisk \in Version
    /\ entries \in Nat /\ clock \in Nat
    /\ snapRequest \in [SnapshotRequests -> RequestType]
    /\ valid \in [SnapshotRequests -> Version]

\* A file is never newer than its document, nor a document than the clock.
VersionsOK == \A n \in Notes : noteDisk[n] <= live[n] /\ live[n] <= clock

\* Only one request is under way, and snapshotInProgress says so.
Busy(r) == snapRequest[r].at \notin {"idle", "ended"}
OneAtATime ==
    /\ \A r, s \in SnapshotRequests : Busy(r) /\ Busy(s) => r = s
    /\ \A r \in SnapshotRequests : Busy(r) => inProgress

\* A file that had version v has v or a newer one, or was removed and can only
\* come back newer; Past: it does not have v any more.
Since(n, v) == IF noteDisk[n] = 0 THEN live[n] = 0 \/ live[n] > v ELSE noteDisk[n] >= v
Past(n, v) == IF noteDisk[n] = 0 THEN live[n] = 0 \/ live[n] > v ELSE noteDisk[n] > v

\* What a request owes is in the documents, on the disk once they are flushed,
\* and in the state the validation starts from.  Here and below q is the
\* request and v that state.
OwedOK(q, v) ==
    \A n \in Notes :
      /\ q.owed[n] <= live[n]
      /\ q.at = "flush" /\ n \notin q.todo => q.owed[n] <= noteDisk[n]
      /\ q.at \in {"plan", "list", "stat", "copy"} => q.owed[n] <= noteDisk[n]
      /\ q.at \in {"folder", "files", "deliver"} => q.owed[n] <= v[n]

\* A planned version was on the disk, and while the folder is as it was every
\* file that is there is planned or still to be.
PlanOK(q) ==
    /\ q.folder <= entries
    /\ \A n \in Notes :
         /\ q.plan[n] # 0 => q.plan[n] <= clock /\ Since(n, q.plan[n])
         /\ q.at = "stat" /\ entries = q.folder /\ noteDisk[n] # 0 => n \in q.todo \/ q.plan[n] # 0
         /\ q.at = "copy" /\ entries = q.folder /\ noteDisk[n] # 0 => q.plan[n] # 0

\* A copied file was planned, and is not older than its plan.
CapturedOK(q) ==
    /\ q.at \in {"copy", "files"} => \A n \in q.todo : q.plan[n] # 0
    /\ \A n \in Notes :
         /\ q.at \notin {"copy", "folder", "files", "deliver"} => q.captured[n] = 0
         /\ q.captured[n] # 0 => /\ q.plan[n] # 0 /\ q.captured[n] >= q.plan[n]
                                 /\ q.captured[n] <= clock /\ Since(n, q.captured[n])
         /\ q.at = "copy" /\ n \notin q.todo /\ q.plan[n] # 0 => q.captured[n] # 0
         /\ q.at \in {"folder", "files"} /\ q.plan[n] # 0 => q.captured[n] # 0

\* The state at the start of the validation: a file that had another version
\* than planned can no longer pass, and what passed was copied as it was.
ValidOK(q, v) ==
    \A n \in Notes :
      /\ q.at \in {"folder", "files"} => v[n] <= clock
      /\ q.at \in {"folder", "files"} /\ q.plan[n] # 0 =>
           IF v[n] = 0 THEN Past(n, q.plan[n]) ELSE v[n] >= q.plan[n] /\ Since(n, v[n])
      /\ q.at = "folder" /\ entries = q.folder /\ v[n] # 0 => q.plan[n] # 0
      /\ q.at = "files" /\ v[n] # 0 => q.plan[n] # 0
      /\ q.at = "files" /\ n \notin q.todo /\ q.plan[n] # 0 => q.captured[n] = v[n]
      /\ q.at = "deliver" => q.captured[n] = v[n]

RequestOK(q, v) == OwedOK(q, v) /\ PlanOK(q) /\ CapturedOK(q) /\ ValidOK(q, v)

SnapInv ==
    /\ SnapTypeOK /\ VersionsOK /\ OneAtATime /\ SpoolIsOwn
    /\ \A r \in SnapshotRequests : RequestOK(snapRequest[r], valid[r])
----------------------------------------------------------------------------
(* What users and writes do to a note. *)

\* The clock and the version of the folder only grow.
ClocksMove == clock' \in Nat /\ clock' >= clock /\ entries' \in Nat /\ entries' >= entries

\* What one step may do to one note: nothing, an edit, a write, a removal; a
\* file that appears or goes changes the folder.
NoteMoves(n) ==
    /\ live'[n] \in Nat /\ noteDisk'[n] \in Nat
    /\ \/ live'[n] = live[n] /\ noteDisk'[n] = noteDisk[n]
       \/ live'[n] > clock /\ live'[n] <= clock' /\ noteDisk'[n] = noteDisk[n]
       \/ live'[n] = live[n] /\ live[n] # 0 /\ noteDisk'[n] = live[n]
       \/ live'[n] = 0 /\ noteDisk'[n] = 0
    /\ entries' = entries /\ noteDisk'[n] # 0 => noteDisk[n] # 0

\* A version that is over stays over.
LEMMA VersionsMove ==
    ASSUME SnapTypeOK, VersionsOK, ClocksMove, NEW n \in Notes, NoteMoves(n)
    PROVE  /\ noteDisk'[n] <= live'[n] /\ live'[n] <= clock'
           /\ \A v \in Nat : v <= clock => /\ v <= clock' /\ (Since(n, v) => Since(n, v)')
                                           /\ (Past(n, v) => Past(n, v)')
<1>1. /\ live[n] \in Nat /\ noteDisk[n] \in Nat /\ clock \in Nat /\ entries \in Nat
      /\ noteDisk[n] <= live[n] /\ live[n] <= clock
  BY DEF SnapTypeOK, Version, VersionsOK
<1>2. noteDisk'[n] <= live'[n] /\ live'[n] <= clock'
  BY <1>1 DEF NoteMoves, ClocksMove
<1> SUFFICES ASSUME NEW v \in Nat, v <= clock
             PROVE  v <= clock' /\ (Since(n, v) => Since(n, v)') /\ (Past(n, v) => Past(n, v)')
  BY <1>2
<1>3. v <= clock'
  BY <1>1 DEF NoteMoves, ClocksMove
<1>4. ASSUME Since(n, v) PROVE Since(n, v)'
  BY <1>1, <1>4 DEF NoteMoves, ClocksMove, Since
<1>5. ASSUME Past(n, v) PROVE Past(n, v)'
  BY <1>1, <1>5 DEF NoteMoves, ClocksMove, Past
<1> QED
  BY <1>3, <1>4, <1>5

\* A request keeps its plan, its copies and its validation while notes move.
LEMMA RequestSurvives ==
    ASSUME SnapTypeOK, VersionsOK, ClocksMove, \A n \in Notes : NoteMoves(n),
           NEW q \in RequestType, NEW q2 \in RequestType, NEW v \in Version, RequestOK(q, v),
           q2.at = q.at, q2.folder = q.folder, q2.plan = q.plan, q2.captured = q.captured,
           q.at # "flush" => q2.todo = q.todo
    PROVE  PlanOK(q2)' /\ CapturedOK(q2)' /\ ValidOK(q2, v)'
<1>0. PlanOK(q) /\ CapturedOK(q) /\ ValidOK(q, v)
  BY DEF RequestOK
<1>1. /\ q.folder \in Nat /\ q.todo \in SUBSET Notes /\ entries \in Nat /\ clock \in Nat
      /\ \A n \in Notes : q.plan[n] \in Nat /\ q.captured[n] \in Nat /\ v[n] \in Nat
  BY DEF RequestType, Version, SnapTypeOK
<1>2. \A n \in Notes : \A w \in Nat : w <= clock => /\ w <= clock' /\ (Since(n, w) => Since(n, w)')
                                                    /\ (Past(n, w) => Past(n, w)')
  BY VersionsMove
<1>3. /\ q.folder <= entries' /\ (entries' = q.folder => entries = q.folder /\ entries' = entries)
      /\ \A n \in Notes : entries' = entries /\ noteDisk'[n] # 0 => noteDisk[n] # 0
  BY <1>0, <1>1 DEF NoteMoves, ClocksMove, PlanOK
<1>4. PlanOK(q2)'
  BY <1>0, <1>1, <1>2, <1>3 DEF PlanOK
<1>5. CapturedOK(q2)'
  BY <1>0, <1>1, <1>2 DEF CapturedOK
<1>6. ValidOK(q2, v)'
  <2> SUFFICES ASSUME NEW n \in Notes
               PROVE  /\ q.at \in {"folder", "files"} => v[n] <= clock'
                      /\ q.at \in {"folder", "files"} /\ q.plan[n] # 0 =>
                           IF v[n] = 0 THEN Past(n, q.plan[n])' ELSE v[n] >= q.plan[n] /\ Since(n, v[n])'
                      /\ q.at = "folder" /\ entries' = q.folder /\ v[n] # 0 => q.plan[n] # 0
                      /\ q.at = "files" /\ v[n] # 0 => q.plan[n] # 0
                      /\ q.at = "files" /\ n \notin q.todo /\ q.plan[n] # 0 => q.captured[n] = v[n]
                      /\ q.at = "deliver" => q.captured[n] = v[n]
    BY DEF ValidOK
  <2>1. q.at \in {"folder", "files"} => v[n] <= clock'
    BY <1>0, <1>1, <1>2 DEF ValidOK
  <2>2. q.at \in {"folder", "files"} /\ q.plan[n] # 0 =>
          IF v[n] = 0 THEN Past(n, q.plan[n])' ELSE v[n] >= q.plan[n] /\ Since(n, v[n])'
    <3>1. q.plan[n] # 0 => q.plan[n] <= clock
      BY <1>0 DEF PlanOK
    <3>2. q.at \in {"folder", "files"} => v[n] <= clock
      BY <1>0 DEF ValidOK
    <3> QED
      BY <1>0, <1>1, <1>2, <3>1, <3>2 DEF ValidOK
  <2> QED
    BY <1>0, <1>3, <2>1, <2>2 DEF ValidOK
<1> QED
  BY <1>4, <1>5, <1>6
----------------------------------------------------------------------------
(* The users' steps, and the writes of a flush. *)

\* While notes move, requests keep what they have: only what they owe, and what
\* a flush has still to do, may change.
LEMMA NotesStep ==
    ASSUME SnapInv, SnapTypeOK', ClocksMove, \A n \in Notes : NoteMoves(n),
           UNCHANGED <<inProgress, spool, valid>>,
           \A r \in SnapshotRequests :
             /\ snapRequest'[r].at = snapRequest[r].at /\ snapRequest'[r].folder = snapRequest[r].folder
             /\ snapRequest'[r].plan = snapRequest[r].plan
             /\ snapRequest'[r].captured = snapRequest[r].captured
             /\ snapRequest[r].at # "flush" => snapRequest'[r].todo = snapRequest[r].todo,
           \A r \in SnapshotRequests : OwedOK(snapRequest[r], valid[r])'
    PROVE  SnapInv'
<1>0. SnapTypeOK /\ VersionsOK /\ OneAtATime /\ SpoolIsOwn
      /\ \A r \in SnapshotRequests : RequestOK(snapRequest[r], valid[r])
  BY DEF SnapInv
<1>1. VersionsOK'
  BY <1>0, VersionsMove DEF VersionsOK
<1>2. OneAtATime' /\ SpoolIsOwn'
  BY <1>0 DEF OneAtATime, Busy, SpoolIsOwn
<1>3. ASSUME NEW r \in SnapshotRequests PROVE RequestOK(snapRequest[r], valid[r])'
  <2>1. PICK q, q2, v : q = snapRequest[r] /\ q2 = snapRequest'[r] /\ v = valid[r]
    OBVIOUS
  <2>2. q \in RequestType /\ q2 \in RequestType /\ v \in Version /\ RequestOK(q, v) /\ v = valid'[r]
    BY <1>0, <2>1 DEF SnapTypeOK
  <2>3. /\ q2.at = q.at /\ q2.folder = q.folder /\ q2.plan = q.plan /\ q2.captured = q.captured
        /\ q.at # "flush" => q2.todo = q.todo
    BY <2>1
  <2>4. PlanOK(q2)' /\ CapturedOK(q2)' /\ ValidOK(q2, v)'
    BY <1>0, <2>2, <2>3, RequestSurvives
  <2> QED
    BY <2>1, <2>2, <2>4 DEF RequestOK
<1> QED
  BY <1>1, <1>2, <1>3 DEF SnapInv

\* An edit gives a note the next version.
LEMMA EditStep ==
    ASSUME SnapInv, NEW n \in Notes, EditNote(n)
    PROVE  SnapInv'
<1>0. SnapTypeOK /\ VersionsOK /\ \A r \in SnapshotRequests : OwedOK(snapRequest[r], valid[r])
  BY DEF SnapInv, RequestOK
<1>1. /\ clock' = clock + 1 /\ live' = [live EXCEPT ![n] = clock + 1]
      /\ UNCHANGED <<noteDisk, entries, snapRequest, inProgress, spool, left, valid>>
  BY DEF EditNote
<1>2. SnapTypeOK'
  BY <1>0, <1>1 DEF SnapTypeOK, Version
<1>3. ClocksMove /\ \A m \in Notes : NoteMoves(m)
  BY <1>0, <1>1 DEF ClocksMove, NoteMoves, SnapTypeOK, Version
<1>4. ASSUME NEW r \in SnapshotRequests PROVE OwedOK(snapRequest[r], valid[r])'
  <2>1. \A m \in Notes : /\ snapRequest[r].owed[m] \in Nat
                         /\ live'[m] >= live[m] /\ live[m] \in Nat /\ live'[m] \in Nat
    BY <1>0, <1>1 DEF RequestType, Version, SnapTypeOK, VersionsOK
  <2> QED
    BY <1>0, <1>1, <2>1 DEF OwedOK
<1> QED
  BY <1>1, <1>2, <1>3, <1>4, NotesStep

\* A write brings a file to the version of its document.
LEMMA WriteFacts ==
    ASSUME SnapTypeOK, VersionsOK, NEW n \in Notes, WriteFile(n), UNCHANGED <<live, clock>>
    PROVE  /\ noteDisk' \in Version /\ entries' \in Nat /\ ClocksMove
           /\ \A m \in Notes : NoteMoves(m)
           /\ \A m \in Notes : noteDisk'[m] >= noteDisk[m] /\ noteDisk[m] \in Nat /\ noteDisk'[m] \in Nat
           /\ noteDisk'[n] = live[n]
<1>1. /\ noteDisk' = [noteDisk EXCEPT ![n] = live[n]] /\ live[n] # 0
      /\ entries' = IF noteDisk[n] = 0 THEN entries + 1 ELSE entries
      /\ live \in Version /\ noteDisk \in Version /\ entries \in Nat /\ clock \in Nat
  BY DEF WriteFile, SnapTypeOK
<1>2. /\ noteDisk' \in Version /\ entries' \in Nat /\ ClocksMove /\ noteDisk'[n] = live[n]
      /\ \A m \in Notes : noteDisk'[m] >= noteDisk[m] /\ noteDisk[m] \in Nat /\ noteDisk'[m] \in Nat
  BY <1>1 DEF Version, ClocksMove, VersionsOK
<1>3. \A m \in Notes : NoteMoves(m)
  BY <1>1, <1>2 DEF NoteMoves, Version
<1> QED
  BY <1>2, <1>3

\* A save.
LEMMA SaveStep ==
    ASSUME SnapInv, NEW n \in Notes, Save(n)
    PROVE  SnapInv'
<1>0. SnapTypeOK /\ VersionsOK /\ \A r \in SnapshotRequests : OwedOK(snapRequest[r], valid[r])
  BY DEF SnapInv, RequestOK
<1>1. WriteFile(n) /\ UNCHANGED <<live, clock, snapRequest, inProgress, spool, left, valid>>
  BY DEF Save
<1>2. /\ noteDisk' \in Version /\ entries' \in Nat /\ ClocksMove
      /\ \A m \in Notes : NoteMoves(m)
      /\ \A m \in Notes : noteDisk'[m] >= noteDisk[m] /\ noteDisk[m] \in Nat /\ noteDisk'[m] \in Nat
  BY <1>0, <1>1, WriteFacts
<1>3. SnapTypeOK'
  BY <1>0, <1>1, <1>2 DEF SnapTypeOK
<1>4. ASSUME NEW r \in SnapshotRequests PROVE OwedOK(snapRequest[r], valid[r])'
  <2>1. \A m \in Notes : snapRequest[r].owed[m] \in Nat
    BY <1>0 DEF RequestType, Version, SnapTypeOK
  <2> QED
    BY <1>0, <1>1, <1>2, <2>1 DEF OwedOK
<1> QED
  BY <1>1, <1>2, <1>3, <1>4, NotesStep

\* A flush writes one document, which it need not write again.
LEMMA FlushStep ==
    ASSUME SnapInv, NEW r \in SnapshotRequests, FlushDirtySession(r)
    PROVE  SnapInv'
<1>0. SnapTypeOK /\ VersionsOK /\ \A s \in SnapshotRequests : OwedOK(snapRequest[s], valid[s])
  BY DEF SnapInv, RequestOK
<1>1. PICK n \in Notes : /\ snapRequest[r].at = "flush"
                         /\ snapRequest' = [snapRequest EXCEPT ![r].todo = snapRequest[r].todo \ {n}]
                         /\ IF live[n] # 0 THEN WriteFile(n) ELSE UNCHANGED <<noteDisk, entries>>
                         /\ UNCHANGED <<live, clock, inProgress, spool, left, valid>>
  BY <1>0 DEF FlushDirtySession, SnapTypeOK, RequestType, At
<1>2. /\ noteDisk' \in Version /\ entries' \in Nat /\ ClocksMove
      /\ \A m \in Notes : NoteMoves(m)
      /\ \A m \in Notes : noteDisk'[m] >= noteDisk[m] /\ noteDisk[m] \in Nat /\ noteDisk'[m] \in Nat
      /\ noteDisk'[n] >= live[n] /\ live[n] \in Nat
  <2>1. CASE live[n] # 0
    BY <1>0, <1>1, <2>1, WriteFacts DEF SnapTypeOK, Version
  <2>2. CASE live[n] = 0
    BY <1>0, <1>1, <2>2 DEF SnapTypeOK, Version, ClocksMove, NoteMoves
  <2> QED
    BY <2>1, <2>2
<1> DEFINE q == [snapRequest[r] EXCEPT !.todo = snapRequest[r].todo \ {n}]
<1>3. /\ q \in RequestType /\ q.at = "flush" /\ q.todo = snapRequest[r].todo \ {n}
      /\ q.owed = snapRequest[r].owed /\ q.folder = snapRequest[r].folder /\ q.plan = snapRequest[r].plan
      /\ q.captured = snapRequest[r].captured
  BY <1>0, <1>1 DEF SnapTypeOK, RequestType
<1>4. snapRequest' = [snapRequest EXCEPT ![r] = q]
  BY <1>0, <1>1 DEF SnapTypeOK
<1> HIDE DEF q
<1>5. /\ snapRequest' \in [SnapshotRequests -> RequestType] /\ snapRequest'[r] = q
      /\ \A s \in SnapshotRequests \ {r} : snapRequest'[s] = snapRequest[s]
  BY <1>0, <1>3, <1>4 DEF SnapTypeOK
<1>6. SnapTypeOK'
  BY <1>0, <1>1, <1>2, <1>5 DEF SnapTypeOK
<1>7. \A s \in SnapshotRequests : \A m \in Notes : snapRequest[s].owed[m] \in Nat
  BY <1>0 DEF RequestType, Version, SnapTypeOK
<1>8. ASSUME NEW s \in SnapshotRequests PROVE OwedOK(snapRequest[s], valid[s])'
  <2>1. CASE s = r
    <3>1. \A m \in Notes : m \notin q.todo => q.owed[m] <= noteDisk'[m]
      BY <1>0, <1>1, <1>2, <1>3, <1>7 DEF OwedOK
    <3>2. \A m \in Notes : q.owed[m] <= live'[m]
      BY <1>0, <1>1, <1>3 DEF OwedOK
    <3> QED
      BY <1>3, <1>5, <2>1, <3>1, <3>2 DEF OwedOK
  <2>2. CASE s # r
    BY <1>0, <1>1, <1>2, <1>5, <1>7, <2>2 DEF OwedOK
  <2> QED
    BY <2>1, <2>2
<1>9. \A s \in SnapshotRequests :
        /\ snapRequest'[s].at = snapRequest[s].at /\ snapRequest'[s].folder = snapRequest[s].folder
        /\ snapRequest'[s].plan = snapRequest[s].plan
        /\ snapRequest'[s].captured = snapRequest[s].captured
        /\ snapRequest[s].at # "flush" => snapRequest'[s].todo = snapRequest[s].todo
  BY <1>1, <1>3, <1>5
<1> QED
  BY <1>1, <1>2, <1>6, <1>8, <1>9, NotesStep

\* A removal takes the note from the disk, and from what requests owe.
LEMMA RemoveStep ==
    ASSUME SnapInv, NEW n \in Notes, RemoveNote(n)
    PROVE  SnapInv'
<1>0. SnapTypeOK /\ VersionsOK /\ \A s \in SnapshotRequests : OwedOK(snapRequest[s], valid[s])
  BY DEF SnapInv, RequestOK
<1>1. /\ clock' = clock + 1 /\ noteDisk' = [noteDisk EXCEPT ![n] = 0] /\ live' = [live EXCEPT ![n] = 0]
      /\ entries' = entries + 1 /\ UNCHANGED <<inProgress, spool, left, valid>>
      /\ snapRequest' = [r \in SnapshotRequests |-> [snapRequest[r] EXCEPT !.owed[n] = 0]]
  BY DEF RemoveNote
<1>2. ClocksMove /\ \A m \in Notes : NoteMoves(m)
  BY <1>0, <1>1 DEF ClocksMove, NoteMoves, SnapTypeOK, Version
<1>3. \A r \in SnapshotRequests :
        /\ snapRequest'[r] \in RequestType
        /\ snapRequest'[r].at = snapRequest[r].at /\ snapRequest'[r].folder = snapRequest[r].folder
        /\ snapRequest'[r].plan = snapRequest[r].plan /\ snapRequest'[r].todo = snapRequest[r].todo
        /\ snapRequest'[r].captured = snapRequest[r].captured
        /\ snapRequest'[r].owed[n] = 0
        /\ \A m \in Notes \ {n} : snapRequest'[r].owed[m] = snapRequest[r].owed[m]
  <2> TAKE r \in SnapshotRequests
  <2>1. snapRequest[r] \in RequestType /\ snapRequest'[r] = [snapRequest[r] EXCEPT !.owed = [@ EXCEPT ![n] = 0]]
    BY <1>0, <1>1 DEF SnapTypeOK
  <2>2. PICK owed \in Version : owed = [snapRequest[r].owed EXCEPT ![n] = 0]
    BY <2>1 DEF RequestType, Version
  <2>3. owed[n] = 0 /\ \A m \in Notes \ {n} : owed[m] = snapRequest[r].owed[m]
    BY <2>1, <2>2 DEF RequestType, Version
  <2>4. snapRequest'[r] = [snapRequest[r] EXCEPT !.owed = owed]
    BY <2>1, <2>2
  <2> QED
    BY <2>1, <2>3, <2>4 DEF RequestType
<1>4. SnapTypeOK'
  <2>1. snapRequest' \in [SnapshotRequests -> RequestType]
    BY <1>1, <1>3
  <2> QED
    BY <1>0, <1>1, <2>1 DEF SnapTypeOK, Version
<1>5. \A m \in Notes \ {n} : live'[m] = live[m] /\ noteDisk'[m] = noteDisk[m]
  BY <1>0, <1>1 DEF SnapTypeOK, Version
<1>6. ASSUME NEW r \in SnapshotRequests PROVE OwedOK(snapRequest[r], valid[r])'
  <2>1. ASSUME NEW m \in Notes
        PROVE  /\ snapRequest'[r].owed[m] <= live'[m]
               /\ snapRequest'[r].at = "flush" /\ m \notin snapRequest'[r].todo => snapRequest'[r].owed[m] <= noteDisk'[m]
               /\ snapRequest'[r].at \in {"plan", "list", "stat", "copy"} => snapRequest'[r].owed[m] <= noteDisk'[m]
               /\ snapRequest'[r].at \in {"folder", "files", "deliver"} => snapRequest'[r].owed[m] <= valid'[r][m]
    <3>1. CASE m = n
      <4>1. snapRequest'[r].owed[m] = 0
        BY <1>3, <3>1
      <4>2. live'[m] \in Nat /\ noteDisk'[m] \in Nat /\ valid'[r][m] \in Nat
        BY <1>4 DEF SnapTypeOK, Version
      <4> QED
        BY <4>1, <4>2
    <3>2. CASE m # n
      <4>1. /\ snapRequest'[r].owed[m] = snapRequest[r].owed[m] /\ snapRequest'[r].at = snapRequest[r].at
            /\ snapRequest'[r].todo = snapRequest[r].todo
        BY <1>3, <3>2
      <4>2. live'[m] = live[m] /\ noteDisk'[m] = noteDisk[m] /\ valid'[r] = valid[r]
        BY <1>1, <1>5, <3>2
      <4> QED
        BY <1>0, <4>1, <4>2 DEF OwedOK
    <3> QED
      BY <3>1, <3>2
  <2> QED
    BY <2>1 DEF OwedOK
<1> QED
  BY <1>1, <1>2, <1>3, <1>4, <1>6, NotesStep
----------------------------------------------------------------------------
(* The steps of a request. *)

\* A step of one request leaves the others as they are.
LEMMA RequestStep ==
    ASSUME SnapInv, NEW r \in SnapshotRequests, NEW q \in RequestType, NEW v \in Version,
           snapRequest' = [snapRequest EXCEPT ![r] = q], valid' = [valid EXCEPT ![r] = v],
           UNCHANGED <<live, noteDisk, entries, clock>>,
           RequestOK(q, v), OneAtATime', SpoolIsOwn'
    PROVE  SnapInv'
<1>0. SnapTypeOK /\ VersionsOK /\ \A s \in SnapshotRequests : RequestOK(snapRequest[s], valid[s])
  BY DEF SnapInv
<1>1. /\ snapRequest' \in [SnapshotRequests -> RequestType] /\ snapRequest'[r] = q
      /\ \A s \in SnapshotRequests \ {r} : snapRequest'[s] = snapRequest[s] /\ valid'[s] = valid[s]
      /\ valid' \in [SnapshotRequests -> Version] /\ valid'[r] = v
  BY <1>0 DEF SnapTypeOK
<1>2. SnapTypeOK' /\ VersionsOK'
  BY <1>0, <1>1 DEF SnapTypeOK, VersionsOK
<1>3. \A k, w : RequestOK(k, w) => RequestOK(k, w)'
  BY DEF RequestOK, OwedOK, PlanOK, CapturedOK, ValidOK, Since, Past
<1>4. ASSUME NEW s \in SnapshotRequests PROVE RequestOK(snapRequest[s], valid[s])'
  <2>1. PICK k, w : k = snapRequest'[s] /\ w = valid'[s]
    OBVIOUS
  <2>2. RequestOK(k, w)
    BY <1>0, <1>1, <2>1
  <2>3. RequestOK(k, w)'
    BY <1>3, <2>2
  <2> QED
    BY <2>1, <2>3
<1> QED
  BY <1>2, <1>4 DEF SnapInv

\* The same for a step of a request that is under way and goes on: it keeps its
\* run directory, and the others stay out.
LEMMA GoesOn ==
    ASSUME SnapInv, NEW r \in SnapshotRequests, NEW q \in RequestType, NEW v \in Version,
           snapRequest' = [snapRequest EXCEPT ![r] = q], valid' = [valid EXCEPT ![r] = v],
           snapRequest[r].at \notin {"idle", "prepare", "ended"}, q.at \notin {"idle", "ended"},
           UNCHANGED <<live, noteDisk, entries, clock, inProgress, spool>>,
           RequestOK(q, v)
    PROVE  SnapInv'
<1>0. SnapTypeOK /\ OneAtATime /\ SpoolIsOwn
  BY DEF SnapInv
<1>1. snapRequest'[r] = q /\ \A s \in SnapshotRequests \ {r} : snapRequest'[s] = snapRequest[s]
  BY <1>0 DEF SnapTypeOK
<1>2. \A s \in SnapshotRequests : Busy(s)' => Busy(s)
  BY <1>1 DEF Busy
<1>3. OneAtATime'
  BY <1>0, <1>2 DEF OneAtATime
<1>4. SpoolIsOwn'
  BY <1>0, <1>1 DEF SpoolIsOwn
<1> QED
  BY <1>3, <1>4, RequestStep

\* Every document is flushed.
LEMMA FlushedAllStep ==
    ASSUME SnapInv, NEW r \in SnapshotRequests, FlushedAll(r)
    PROVE  SnapInv'
<1>0. /\ SnapTypeOK /\ VersionsOK /\ OneAtATime /\ SpoolIsOwn
      /\ snapRequest[r] \in RequestType /\ valid[r] \in Version
      /\ OwedOK(snapRequest[r], valid[r]) /\ PlanOK(snapRequest[r])
      /\ CapturedOK(snapRequest[r]) /\ ValidOK(snapRequest[r], valid[r])
  BY DEF SnapInv, RequestOK, SnapTypeOK
<1>k. PICK k \in RequestType, v \in Version : k = snapRequest[r] /\ v = valid[r]
  BY <1>0
<1>n. /\ \A n \in Notes : /\ live[n] \in Nat /\ noteDisk[n] \in Nat /\ v[n] \in Nat /\ k.owed[n] \in Nat
                            /\ k.plan[n] \in Nat /\ k.captured[n] \in Nat
                            /\ noteDisk[n] <= live[n] /\ live[n] <= clock
      /\ entries \in Nat /\ clock \in Nat /\ k.folder \in Nat
  BY <1>0, <1>k DEF SnapTypeOK, VersionsOK, RequestType, Version
<1> DEFINE q == [k EXCEPT !.at = "plan"]
<1>1. /\ q \in RequestType /\ q.at = "plan" /\ q.todo = k.todo /\ q.owed = k.owed /\ q.folder = k.folder /\ q.plan = k.plan /\ q.captured = k.captured
  BY <1>0, <1>k DEF RequestType, SnapshotStep
<1>2. /\ snapRequest' = [snapRequest EXCEPT ![r] = q] /\ k.at = "flush"
      /\ valid' = [valid EXCEPT ![r] = v]
      /\ UNCHANGED <<live, noteDisk, entries, clock, inProgress, spool>>
  BY <1>0, <1>k DEF FlushedAll, At, RequestGoes, Same, SnapTypeOK
<1> HIDE DEF q
<1>3. OwedOK(q, v)
  <2>1. k.todo = {}
    BY <1>k DEF FlushedAll
  <2> QED
    BY <1>0, <1>k, <1>n, <1>1, <1>2, <2>1 DEF OwedOK
<1>4. PlanOK(q)
  BY <1>0, <1>k, <1>n, <1>1, <1>2 DEF PlanOK, Since
<1>5. CapturedOK(q)
  BY <1>0, <1>k, <1>n, <1>1, <1>2 DEF CapturedOK
<1>6. ValidOK(q, v)
  BY <1>0, <1>k, <1>n, <1>1, <1>2 DEF ValidOK
<1> QED
  BY <1>0, <1>k, <1>1, <1>2, <1>3, <1>4, <1>5, <1>6, GoesOn DEF RequestOK, SnapTypeOK

\* The folder's version is read.
LEMMA PlanFolderStep ==
    ASSUME SnapInv, NEW r \in SnapshotRequests, PlanFolder(r)
    PROVE  SnapInv'
<1>0. /\ SnapTypeOK /\ VersionsOK /\ OneAtATime /\ SpoolIsOwn
      /\ snapRequest[r] \in RequestType /\ valid[r] \in Version
      /\ OwedOK(snapRequest[r], valid[r]) /\ PlanOK(snapRequest[r])
      /\ CapturedOK(snapRequest[r]) /\ ValidOK(snapRequest[r], valid[r])
  BY DEF SnapInv, RequestOK, SnapTypeOK
<1>k. PICK k \in RequestType, v \in Version : k = snapRequest[r] /\ v = valid[r]
  BY <1>0
<1>n. /\ \A n \in Notes : /\ live[n] \in Nat /\ noteDisk[n] \in Nat /\ v[n] \in Nat /\ k.owed[n] \in Nat
                            /\ k.plan[n] \in Nat /\ k.captured[n] \in Nat
                            /\ noteDisk[n] <= live[n] /\ live[n] <= clock
      /\ entries \in Nat /\ clock \in Nat /\ k.folder \in Nat
  BY <1>0, <1>k DEF SnapTypeOK, VersionsOK, RequestType, Version
<1> DEFINE q == [k EXCEPT !.at = "list", !.folder = entries]
<1>1. /\ q \in RequestType /\ q.at = "list" /\ q.todo = k.todo /\ q.owed = k.owed /\ q.folder = entries /\ q.plan = k.plan /\ q.captured = k.captured
  BY <1>0, <1>k, <1>n DEF RequestType, SnapshotStep
<1>2. /\ snapRequest' = [snapRequest EXCEPT ![r] = q] /\ k.at = "plan"
      /\ valid' = [valid EXCEPT ![r] = v]
      /\ UNCHANGED <<live, noteDisk, entries, clock, inProgress, spool>>
  BY <1>0, <1>k, <1>n DEF PlanFolder, At, RequestGoes, Same, SnapTypeOK
<1> HIDE DEF q
<1>3. OwedOK(q, v)
  BY <1>0, <1>k, <1>n, <1>1, <1>2, <1>n DEF OwedOK
<1>4. PlanOK(q)
  BY <1>0, <1>k, <1>n, <1>1, <1>2, <1>n DEF PlanOK, Since
<1>5. CapturedOK(q)
  BY <1>0, <1>k, <1>n, <1>1, <1>2, <1>n DEF CapturedOK
<1>6. ValidOK(q, v)
  BY <1>0, <1>k, <1>n, <1>1, <1>2, <1>n DEF ValidOK
<1> QED
  BY <1>0, <1>k, <1>1, <1>2, <1>3, <1>4, <1>5, <1>6, GoesOn DEF RequestOK, SnapTypeOK

\* The folder's files are listed.
LEMMA ListFolderStep ==
    ASSUME SnapInv, NEW r \in SnapshotRequests, ListFolder(r)
    PROVE  SnapInv'
<1>0. /\ SnapTypeOK /\ VersionsOK /\ OneAtATime /\ SpoolIsOwn
      /\ snapRequest[r] \in RequestType /\ valid[r] \in Version
      /\ OwedOK(snapRequest[r], valid[r]) /\ PlanOK(snapRequest[r])
      /\ CapturedOK(snapRequest[r]) /\ ValidOK(snapRequest[r], valid[r])
  BY DEF SnapInv, RequestOK, SnapTypeOK
<1>k. PICK k \in RequestType, v \in Version : k = snapRequest[r] /\ v = valid[r]
  BY <1>0
<1>n. /\ \A n \in Notes : /\ live[n] \in Nat /\ noteDisk[n] \in Nat /\ v[n] \in Nat /\ k.owed[n] \in Nat
                            /\ k.plan[n] \in Nat /\ k.captured[n] \in Nat
                            /\ noteDisk[n] <= live[n] /\ live[n] <= clock
      /\ entries \in Nat /\ clock \in Nat /\ k.folder \in Nat
  BY <1>0, <1>k DEF SnapTypeOK, VersionsOK, RequestType, Version
<1> DEFINE q == [k EXCEPT !.at = "stat", !.todo = {n \in Notes : noteDisk[n] # 0}]
<1>1. /\ q \in RequestType /\ q.at = "stat" /\ q.todo = {n \in Notes : noteDisk[n] # 0} /\ q.owed = k.owed /\ q.folder = k.folder /\ q.plan = k.plan /\ q.captured = k.captured
  BY <1>0, <1>k DEF RequestType, SnapshotStep
<1>2. /\ snapRequest' = [snapRequest EXCEPT ![r] = q] /\ k.at = "list"
      /\ valid' = [valid EXCEPT ![r] = v]
      /\ UNCHANGED <<live, noteDisk, entries, clock, inProgress, spool>>
  BY <1>0, <1>k DEF ListFolder, At, RequestGoes, Same, SnapTypeOK
<1> HIDE DEF q
<1>3. OwedOK(q, v)
  BY <1>0, <1>k, <1>n, <1>1, <1>2 DEF OwedOK
<1>4. PlanOK(q)
  BY <1>0, <1>k, <1>n, <1>1, <1>2 DEF PlanOK, Since
<1>5. CapturedOK(q)
  BY <1>0, <1>k, <1>n, <1>1, <1>2 DEF CapturedOK
<1>6. ValidOK(q, v)
  BY <1>0, <1>k, <1>n, <1>1, <1>2 DEF ValidOK
<1> QED
  BY <1>0, <1>k, <1>1, <1>2, <1>3, <1>4, <1>5, <1>6, GoesOn DEF RequestOK, SnapTypeOK

\* The version of a listed file is planned.
LEMMA StatFileStep ==
    ASSUME SnapInv, NEW r \in SnapshotRequests, StatFile(r)
    PROVE  SnapInv'
<1>0. /\ SnapTypeOK /\ VersionsOK /\ OneAtATime /\ SpoolIsOwn
      /\ snapRequest[r] \in RequestType /\ valid[r] \in Version
      /\ OwedOK(snapRequest[r], valid[r]) /\ PlanOK(snapRequest[r])
      /\ CapturedOK(snapRequest[r]) /\ ValidOK(snapRequest[r], valid[r])
  BY DEF SnapInv, RequestOK, SnapTypeOK
<1>k. PICK k \in RequestType, v \in Version : k = snapRequest[r] /\ v = valid[r]
  BY <1>0
<1>n. /\ \A n \in Notes : /\ live[n] \in Nat /\ noteDisk[n] \in Nat /\ v[n] \in Nat /\ k.owed[n] \in Nat
                            /\ k.plan[n] \in Nat /\ k.captured[n] \in Nat
                            /\ noteDisk[n] <= live[n] /\ live[n] <= clock
      /\ entries \in Nat /\ clock \in Nat /\ k.folder \in Nat
  BY <1>0, <1>k DEF SnapTypeOK, VersionsOK, RequestType, Version
<1>f. PICK f \in Notes : /\ f \in k.todo /\ noteDisk[f] # 0
                         /\ snapRequest' = [snapRequest EXCEPT ![r].todo = @ \ {f}, ![r].plan[f] = noteDisk[f]]
  BY <1>k DEF StatFile, RequestType
<1>h. snapRequest' = [snapRequest EXCEPT ![r] = [snapRequest[r] EXCEPT !.todo = snapRequest[r].todo \ {f}, !.plan[f] = noteDisk[f]]]
  BY <1>0, <1>f DEF SnapTypeOK
<1>p. PICK p \in Version : /\ p = [k.plan EXCEPT ![f] = noteDisk[f]] /\ p[f] = noteDisk[f]
                           /\ \A n \in Notes \ {f} : p[n] = k.plan[n]
  <2>1. k.plan \in Version
    BY <1>k DEF RequestType
  <2>2. [k.plan EXCEPT ![f] = noteDisk[f]] \in Version
    BY <1>n, <2>1 DEF Version
  <2> QED
    BY <2>1, <2>2 DEF Version
<1>g. snapRequest' = [snapRequest EXCEPT ![r] = [k EXCEPT !.todo = k.todo \ {f}, !.plan = p]]
  <2>1. snapRequest' = [snapRequest EXCEPT ![r] = [k EXCEPT !.todo = k.todo \ {f}, !.plan[f] = noteDisk[f]]]
    BY <1>h, <1>k, Zenon
  <2>2. [k EXCEPT !.todo = k.todo \ {f}, !.plan[f] = noteDisk[f]] = [k EXCEPT !.todo = k.todo \ {f}, !.plan = p]
    BY <1>k, <1>p DEF RequestType
  <2> QED
    BY <2>1, <2>2
<1> DEFINE q == [k EXCEPT !.todo = k.todo \ {f}, !.plan = p]
<1>1. /\ q \in RequestType /\ q.at = k.at /\ q.todo = k.todo \ {f} /\ q.owed = k.owed /\ q.folder = k.folder /\ q.plan = p /\ q.captured = k.captured
  BY <1>0, <1>k, <1>f, <1>p, <1>g DEF RequestType, SnapshotStep
<1>2. /\ snapRequest' = [snapRequest EXCEPT ![r] = q] /\ k.at = "stat"
      /\ valid' = [valid EXCEPT ![r] = v]
      /\ UNCHANGED <<live, noteDisk, entries, clock, inProgress, spool>>
  <2>1. k.at = "stat" /\ UNCHANGED <<live, noteDisk, entries, clock, inProgress, spool, valid>>
    BY <1>k DEF StatFile, At, Same
  <2>2. valid' = [valid EXCEPT ![r] = v]
    BY <1>0, <1>k, <2>1 DEF SnapTypeOK
  <2> QED
    BY <1>g, <2>1, <2>2
<1> HIDE DEF q
<1>3. OwedOK(q, v)
  BY <1>0, <1>k, <1>n, <1>1, <1>2, <1>f, <1>p, <1>g DEF OwedOK
<1>4. PlanOK(q)
  BY <1>0, <1>k, <1>n, <1>1, <1>2, <1>f, <1>p, <1>g DEF PlanOK, Since
<1>5. CapturedOK(q)
  BY <1>0, <1>k, <1>n, <1>1, <1>2, <1>f, <1>p, <1>g DEF CapturedOK
<1>6. ValidOK(q, v)
  BY <1>0, <1>k, <1>n, <1>1, <1>2, <1>f, <1>p, <1>g DEF ValidOK
<1> QED
  BY <1>0, <1>k, <1>1, <1>2, <1>3, <1>4, <1>5, <1>6, GoesOn DEF RequestOK, SnapTypeOK

\* The plan is made: its files are to be copied.
LEMMA StartCaptureStep ==
    ASSUME SnapInv, NEW r \in SnapshotRequests, StartCapture(r)
    PROVE  SnapInv'
<1>0. /\ SnapTypeOK /\ VersionsOK /\ OneAtATime /\ SpoolIsOwn
      /\ snapRequest[r] \in RequestType /\ valid[r] \in Version
      /\ OwedOK(snapRequest[r], valid[r]) /\ PlanOK(snapRequest[r])
      /\ CapturedOK(snapRequest[r]) /\ ValidOK(snapRequest[r], valid[r])
  BY DEF SnapInv, RequestOK, SnapTypeOK
<1>k. PICK k \in RequestType, v \in Version : k = snapRequest[r] /\ v = valid[r]
  BY <1>0
<1>n. /\ \A n \in Notes : /\ live[n] \in Nat /\ noteDisk[n] \in Nat /\ v[n] \in Nat /\ k.owed[n] \in Nat
                            /\ k.plan[n] \in Nat /\ k.captured[n] \in Nat
                            /\ noteDisk[n] <= live[n] /\ live[n] <= clock
      /\ entries \in Nat /\ clock \in Nat /\ k.folder \in Nat
  BY <1>0, <1>k DEF SnapTypeOK, VersionsOK, RequestType, Version
<1>f. k.todo = {} /\ Planned(r) = {n \in Notes : k.plan[n] # 0}
  BY <1>k DEF StartCapture, Planned
<1> DEFINE q == [k EXCEPT !.at = "copy", !.todo = {n \in Notes : k.plan[n] # 0}]
<1>1. /\ q \in RequestType /\ q.at = "copy" /\ q.todo = {n \in Notes : k.plan[n] # 0} /\ q.owed = k.owed /\ q.folder = k.folder /\ q.plan = k.plan /\ q.captured = k.captured
  BY <1>0, <1>k, <1>f DEF RequestType, SnapshotStep
<1>2. /\ snapRequest' = [snapRequest EXCEPT ![r] = q] /\ k.at = "stat"
      /\ valid' = [valid EXCEPT ![r] = v]
      /\ UNCHANGED <<live, noteDisk, entries, clock, inProgress, spool>>
  BY <1>0, <1>k, <1>f DEF StartCapture, At, RequestGoes, Same, SnapTypeOK
<1> HIDE DEF q
<1>3. OwedOK(q, v)
  BY <1>0, <1>k, <1>n, <1>1, <1>2, <1>f DEF OwedOK
<1>4. PlanOK(q)
  BY <1>0, <1>k, <1>n, <1>1, <1>2, <1>f DEF PlanOK, Since
<1>5. CapturedOK(q)
  BY <1>0, <1>k, <1>n, <1>1, <1>2, <1>f DEF CapturedOK
<1>6. ValidOK(q, v)
  BY <1>0, <1>k, <1>n, <1>1, <1>2, <1>f DEF ValidOK
<1> QED
  BY <1>0, <1>k, <1>1, <1>2, <1>3, <1>4, <1>5, <1>6, GoesOn DEF RequestOK, SnapTypeOK

\* A planned file is copied as it is now.
LEMMA CopyFileStep ==
    ASSUME SnapInv, NEW r \in SnapshotRequests, CopyFile(r)
    PROVE  SnapInv'
<1>0. /\ SnapTypeOK /\ VersionsOK /\ OneAtATime /\ SpoolIsOwn
      /\ snapRequest[r] \in RequestType /\ valid[r] \in Version
      /\ OwedOK(snapRequest[r], valid[r]) /\ PlanOK(snapRequest[r])
      /\ CapturedOK(snapRequest[r]) /\ ValidOK(snapRequest[r], valid[r])
  BY DEF SnapInv, RequestOK, SnapTypeOK
<1>k. PICK k \in RequestType, v \in Version : k = snapRequest[r] /\ v = valid[r]
  BY <1>0
<1>n. /\ \A n \in Notes : /\ live[n] \in Nat /\ noteDisk[n] \in Nat /\ v[n] \in Nat /\ k.owed[n] \in Nat
                            /\ k.plan[n] \in Nat /\ k.captured[n] \in Nat
                            /\ noteDisk[n] <= live[n] /\ live[n] <= clock
      /\ entries \in Nat /\ clock \in Nat /\ k.folder \in Nat
  BY <1>0, <1>k DEF SnapTypeOK, VersionsOK, RequestType, Version
<1>f. PICK f \in Notes : /\ f \in k.todo /\ noteDisk[f] # 0
                         /\ snapRequest' = [snapRequest EXCEPT ![r].todo = @ \ {f}, ![r].captured[f] = noteDisk[f]]
  BY <1>k DEF CopyFile, RequestType
<1>h. snapRequest' = [snapRequest EXCEPT ![r] = [snapRequest[r] EXCEPT !.todo = snapRequest[r].todo \ {f}, !.captured[f] = noteDisk[f]]]
  BY <1>0, <1>f DEF SnapTypeOK
<1>p. PICK p \in Version : /\ p = [k.captured EXCEPT ![f] = noteDisk[f]] /\ p[f] = noteDisk[f]
                           /\ \A n \in Notes \ {f} : p[n] = k.captured[n]
  <2>1. k.captured \in Version
    BY <1>k DEF RequestType
  <2>2. [k.captured EXCEPT ![f] = noteDisk[f]] \in Version
    BY <1>n, <2>1 DEF Version
  <2> QED
    BY <2>1, <2>2 DEF Version
<1>g. snapRequest' = [snapRequest EXCEPT ![r] = [k EXCEPT !.todo = k.todo \ {f}, !.captured = p]]
  <2>1. snapRequest' = [snapRequest EXCEPT ![r] = [k EXCEPT !.todo = k.todo \ {f}, !.captured[f] = noteDisk[f]]]
    BY <1>h, <1>k, Zenon
  <2>2. [k EXCEPT !.todo = k.todo \ {f}, !.captured[f] = noteDisk[f]] = [k EXCEPT !.todo = k.todo \ {f}, !.captured = p]
    BY <1>k, <1>p DEF RequestType
  <2> QED
    BY <2>1, <2>2
<1> DEFINE q == [k EXCEPT !.todo = k.todo \ {f}, !.captured = p]
<1>1. /\ q \in RequestType /\ q.at = k.at /\ q.todo = k.todo \ {f} /\ q.owed = k.owed /\ q.folder = k.folder /\ q.plan = k.plan /\ q.captured = p
  BY <1>0, <1>k, <1>f, <1>p, <1>g DEF RequestType, SnapshotStep
<1>2. /\ snapRequest' = [snapRequest EXCEPT ![r] = q] /\ k.at = "copy"
      /\ valid' = [valid EXCEPT ![r] = v]
      /\ UNCHANGED <<live, noteDisk, entries, clock, inProgress, spool>>
  <2>1. k.at = "copy" /\ UNCHANGED <<live, noteDisk, entries, clock, inProgress, spool, valid>>
    BY <1>k DEF CopyFile, At, Same
  <2>2. valid' = [valid EXCEPT ![r] = v]
    BY <1>0, <1>k, <2>1 DEF SnapTypeOK
  <2> QED
    BY <1>g, <2>1, <2>2
<1> HIDE DEF q
<1>3. OwedOK(q, v)
  BY <1>0, <1>k, <1>n, <1>1, <1>2, <1>f, <1>p, <1>g DEF OwedOK
<1>4. PlanOK(q)
  BY <1>0, <1>k, <1>n, <1>1, <1>2, <1>f, <1>p, <1>g DEF PlanOK, Since
<1>5. CapturedOK(q)
  <2>1. k.plan[f] # 0 /\ noteDisk[f] >= k.plan[f] /\ noteDisk[f] <= clock /\ Since(f, noteDisk[f])
    BY <1>0, <1>k, <1>n, <1>2, <1>f DEF CapturedOK, PlanOK, Since
  <2> QED
    BY <1>0, <1>k, <1>n, <1>1, <1>2, <1>f, <1>p, <2>1 DEF CapturedOK
<1>6. ValidOK(q, v)
  BY <1>0, <1>k, <1>n, <1>1, <1>2, <1>f, <1>p, <1>g DEF ValidOK
<1> QED
  BY <1>0, <1>k, <1>1, <1>2, <1>3, <1>4, <1>5, <1>6, GoesOn DEF RequestOK, SnapTypeOK

\* Everything is copied: what the disk holds now is what the copies must be.
LEMMA StartValidationStep ==
    ASSUME SnapInv, NEW r \in SnapshotRequests, StartValidation(r)
    PROVE  SnapInv'
<1>0. /\ SnapTypeOK /\ VersionsOK /\ OneAtATime /\ SpoolIsOwn
      /\ snapRequest[r] \in RequestType /\ valid[r] \in Version
      /\ OwedOK(snapRequest[r], valid[r]) /\ PlanOK(snapRequest[r])
      /\ CapturedOK(snapRequest[r]) /\ ValidOK(snapRequest[r], valid[r])
  BY DEF SnapInv, RequestOK, SnapTypeOK
<1>k. PICK k \in RequestType, v \in Version : k = snapRequest[r] /\ v = valid[r]
  BY <1>0
<1>n. /\ \A n \in Notes : /\ live[n] \in Nat /\ noteDisk[n] \in Nat /\ v[n] \in Nat /\ k.owed[n] \in Nat
                            /\ k.plan[n] \in Nat /\ k.captured[n] \in Nat
                            /\ noteDisk[n] <= live[n] /\ live[n] <= clock
      /\ entries \in Nat /\ clock \in Nat /\ k.folder \in Nat
  BY <1>0, <1>k DEF SnapTypeOK, VersionsOK, RequestType, Version
<1>f. k.todo = {} /\ noteDisk \in Version
  BY <1>0, <1>k DEF StartValidation, SnapTypeOK
<1> DEFINE q == [k EXCEPT !.at = "folder"]
<1>1. /\ q \in RequestType /\ q.at = "folder" /\ q.todo = k.todo /\ q.owed = k.owed /\ q.folder = k.folder /\ q.plan = k.plan /\ q.captured = k.captured
  BY <1>0, <1>k, <1>f DEF RequestType, SnapshotStep
<1>2. /\ snapRequest' = [snapRequest EXCEPT ![r] = q] /\ k.at = "copy"
      /\ valid' = [valid EXCEPT ![r] = noteDisk]
      /\ UNCHANGED <<live, noteDisk, entries, clock, inProgress, spool>>
  BY <1>0, <1>k, <1>f DEF StartValidation, At, RequestGoes, Same, SnapTypeOK
<1> HIDE DEF q
<1>3. OwedOK(q, noteDisk)
  BY <1>0, <1>k, <1>n, <1>1, <1>2, <1>f DEF OwedOK
<1>4. PlanOK(q)
  BY <1>0, <1>k, <1>n, <1>1, <1>2, <1>f DEF PlanOK, Since
<1>5. CapturedOK(q)
  BY <1>0, <1>k, <1>n, <1>1, <1>2, <1>f DEF CapturedOK
<1>6. ValidOK(q, noteDisk)
  <2>1. \A n \in Notes : k.plan[n] # 0 => IF noteDisk[n] = 0 THEN Past(n, k.plan[n])
                                          ELSE noteDisk[n] >= k.plan[n] /\ Since(n, noteDisk[n])
    BY <1>0, <1>k, <1>n DEF PlanOK, Since, Past
  <2> QED
    BY <1>0, <1>k, <1>n, <1>1, <1>2, <2>1 DEF ValidOK, PlanOK
<1> QED
  BY <1>0, <1>k, <1>1, <1>2, <1>3, <1>4, <1>5, <1>6, GoesOn DEF RequestOK, SnapTypeOK

\* The folder is as it was planned.
LEMMA ValidateFolderStep ==
    ASSUME SnapInv, NEW r \in SnapshotRequests, ValidateFolder(r)
    PROVE  SnapInv'
<1>0. /\ SnapTypeOK /\ VersionsOK /\ OneAtATime /\ SpoolIsOwn
      /\ snapRequest[r] \in RequestType /\ valid[r] \in Version
      /\ OwedOK(snapRequest[r], valid[r]) /\ PlanOK(snapRequest[r])
      /\ CapturedOK(snapRequest[r]) /\ ValidOK(snapRequest[r], valid[r])
  BY DEF SnapInv, RequestOK, SnapTypeOK
<1>k. PICK k \in RequestType, v \in Version : k = snapRequest[r] /\ v = valid[r]
  BY <1>0
<1>n. /\ \A n \in Notes : /\ live[n] \in Nat /\ noteDisk[n] \in Nat /\ v[n] \in Nat /\ k.owed[n] \in Nat
                            /\ k.plan[n] \in Nat /\ k.captured[n] \in Nat
                            /\ noteDisk[n] <= live[n] /\ live[n] <= clock
      /\ entries \in Nat /\ clock \in Nat /\ k.folder \in Nat
  BY <1>0, <1>k DEF SnapTypeOK, VersionsOK, RequestType, Version
<1>f. entries = k.folder /\ Planned(r) = {n \in Notes : k.plan[n] # 0}
  BY <1>k DEF ValidateFolder, Planned
<1> DEFINE q == [k EXCEPT !.at = "files", !.todo = {n \in Notes : k.plan[n] # 0}]
<1>1. /\ q \in RequestType /\ q.at = "files" /\ q.todo = {n \in Notes : k.plan[n] # 0} /\ q.owed = k.owed /\ q.folder = k.folder /\ q.plan = k.plan /\ q.captured = k.captured
  BY <1>0, <1>k, <1>f DEF RequestType, SnapshotStep
<1>2. /\ snapRequest' = [snapRequest EXCEPT ![r] = q] /\ k.at = "folder"
      /\ valid' = [valid EXCEPT ![r] = v]
      /\ UNCHANGED <<live, noteDisk, entries, clock, inProgress, spool>>
  BY <1>0, <1>k, <1>f DEF ValidateFolder, At, RequestGoes, Same, SnapTypeOK
<1> HIDE DEF q
<1>3. OwedOK(q, v)
  BY <1>0, <1>k, <1>n, <1>1, <1>2, <1>f DEF OwedOK
<1>4. PlanOK(q)
  BY <1>0, <1>k, <1>n, <1>1, <1>2, <1>f DEF PlanOK, Since
<1>5. CapturedOK(q)
  BY <1>0, <1>k, <1>n, <1>1, <1>2, <1>f DEF CapturedOK
<1>6. ValidOK(q, v)
  BY <1>0, <1>k, <1>n, <1>1, <1>2, <1>f DEF ValidOK
<1> QED
  BY <1>0, <1>k, <1>1, <1>2, <1>3, <1>4, <1>5, <1>6, GoesOn DEF RequestOK, SnapTypeOK

\* A file is as it was planned: it was so all the while.
LEMMA ValidateFileStep ==
    ASSUME SnapInv, NEW r \in SnapshotRequests, ValidateFile(r)
    PROVE  SnapInv'
<1>0. /\ SnapTypeOK /\ VersionsOK /\ OneAtATime /\ SpoolIsOwn
      /\ snapRequest[r] \in RequestType /\ valid[r] \in Version
      /\ OwedOK(snapRequest[r], valid[r]) /\ PlanOK(snapRequest[r])
      /\ CapturedOK(snapRequest[r]) /\ ValidOK(snapRequest[r], valid[r])
  BY DEF SnapInv, RequestOK, SnapTypeOK
<1>k. PICK k \in RequestType, v \in Version : k = snapRequest[r] /\ v = valid[r]
  BY <1>0
<1>n. /\ \A n \in Notes : /\ live[n] \in Nat /\ noteDisk[n] \in Nat /\ v[n] \in Nat /\ k.owed[n] \in Nat
                            /\ k.plan[n] \in Nat /\ k.captured[n] \in Nat
                            /\ noteDisk[n] <= live[n] /\ live[n] <= clock
      /\ entries \in Nat /\ clock \in Nat /\ k.folder \in Nat
  BY <1>0, <1>k DEF SnapTypeOK, VersionsOK, RequestType, Version
<1>f. PICK f \in Notes : /\ f \in k.todo /\ noteDisk[f] = k.plan[f]
                         /\ snapRequest' = [snapRequest EXCEPT ![r].todo = @ \ {f}]
  BY <1>k DEF ValidateFile, RequestType
<1> DEFINE q == [k EXCEPT !.todo = k.todo \ {f}]
<1>1. /\ q \in RequestType /\ q.at = k.at /\ q.todo = k.todo \ {f} /\ q.owed = k.owed /\ q.folder = k.folder /\ q.plan = k.plan /\ q.captured = k.captured
  BY <1>0, <1>k, <1>f DEF RequestType, SnapshotStep
<1>2. /\ snapRequest' = [snapRequest EXCEPT ![r] = q] /\ k.at = "files"
      /\ valid' = [valid EXCEPT ![r] = v]
      /\ UNCHANGED <<live, noteDisk, entries, clock, inProgress, spool>>
  BY <1>0, <1>k, <1>f DEF ValidateFile, At, RequestGoes, Same, SnapTypeOK
<1> HIDE DEF q
<1>3. OwedOK(q, v)
  BY <1>0, <1>k, <1>n, <1>1, <1>2, <1>f DEF OwedOK
<1>4. PlanOK(q)
  BY <1>0, <1>k, <1>n, <1>1, <1>2, <1>f DEF PlanOK, Since
<1>5. CapturedOK(q)
  BY <1>0, <1>k, <1>n, <1>1, <1>2, <1>f DEF CapturedOK
<1>6. ValidOK(q, v)
  <2>1. k.plan[f] # 0 /\ k.captured[f] # 0 /\ k.captured[f] >= k.plan[f] /\ Since(f, k.captured[f])
    BY <1>0, <1>k, <1>2, <1>f DEF CapturedOK
  <2>2. k.captured[f] = k.plan[f]
    BY <1>n, <1>f, <2>1 DEF Since
  <2>3. IF v[f] = 0 THEN Past(f, k.plan[f]) ELSE v[f] >= k.plan[f] /\ Since(f, v[f])
    BY <1>0, <1>k, <1>2, <2>1 DEF ValidOK
  <2>4. v[f] = k.plan[f]
    BY <1>n, <1>f, <2>1, <2>3 DEF Since, Past
  <2> QED
    BY <1>0, <1>k, <1>n, <1>1, <1>2, <1>f, <2>2, <2>4 DEF ValidOK
<1> QED
  BY <1>0, <1>k, <1>1, <1>2, <1>3, <1>4, <1>5, <1>6, GoesOn DEF RequestOK, SnapTypeOK

\* Every file passed: the copies are packed.
LEMMA PackStep ==
    ASSUME SnapInv, NEW r \in SnapshotRequests, Pack(r)
    PROVE  SnapInv'
<1>0. /\ SnapTypeOK /\ VersionsOK /\ OneAtATime /\ SpoolIsOwn
      /\ snapRequest[r] \in RequestType /\ valid[r] \in Version
      /\ OwedOK(snapRequest[r], valid[r]) /\ PlanOK(snapRequest[r])
      /\ CapturedOK(snapRequest[r]) /\ ValidOK(snapRequest[r], valid[r])
  BY DEF SnapInv, RequestOK, SnapTypeOK
<1>k. PICK k \in RequestType, v \in Version : k = snapRequest[r] /\ v = valid[r]
  BY <1>0
<1>n. /\ \A n \in Notes : /\ live[n] \in Nat /\ noteDisk[n] \in Nat /\ v[n] \in Nat /\ k.owed[n] \in Nat
                            /\ k.plan[n] \in Nat /\ k.captured[n] \in Nat
                            /\ noteDisk[n] <= live[n] /\ live[n] <= clock
      /\ entries \in Nat /\ clock \in Nat /\ k.folder \in Nat
  BY <1>0, <1>k DEF SnapTypeOK, VersionsOK, RequestType, Version
<1>f. k.todo = {}
  BY <1>k DEF Pack
<1> DEFINE q == [k EXCEPT !.at = "deliver"]
<1>1. /\ q \in RequestType /\ q.at = "deliver" /\ q.todo = k.todo /\ q.owed = k.owed /\ q.folder = k.folder /\ q.plan = k.plan /\ q.captured = k.captured
  BY <1>0, <1>k, <1>f DEF RequestType, SnapshotStep
<1>2. /\ snapRequest' = [snapRequest EXCEPT ![r] = q] /\ k.at = "files"
      /\ valid' = [valid EXCEPT ![r] = v]
      /\ UNCHANGED <<live, noteDisk, entries, clock, inProgress, spool>>
  BY <1>0, <1>k, <1>f DEF Pack, At, RequestGoes, Same, SnapTypeOK
<1> HIDE DEF q
<1>3. OwedOK(q, v)
  BY <1>0, <1>k, <1>n, <1>1, <1>2, <1>f DEF OwedOK
<1>4. PlanOK(q)
  BY <1>0, <1>k, <1>n, <1>1, <1>2, <1>f DEF PlanOK, Since
<1>5. CapturedOK(q)
  BY <1>0, <1>k, <1>n, <1>1, <1>2, <1>f DEF CapturedOK
<1>6. ValidOK(q, v)
  <2>1. \A n \in Notes : k.plan[n] = 0 => k.captured[n] = 0 /\ v[n] = 0
    BY <1>0, <1>k, <1>2 DEF CapturedOK, ValidOK
  <2> QED
    BY <1>0, <1>k, <1>n, <1>1, <1>2, <1>f, <2>1 DEF ValidOK
<1> QED
  BY <1>0, <1>k, <1>1, <1>2, <1>3, <1>4, <1>5, <1>6, GoesOn DEF RequestOK, SnapTypeOK

\* A request is the only one under way from the moment it asks.
LEMMA AskStep ==
    ASSUME SnapInv, NEW r \in SnapshotRequests, Ask(r)
    PROVE  SnapInv'
<1>0. /\ SnapTypeOK /\ VersionsOK /\ OneAtATime /\ SpoolIsOwn
      /\ snapRequest[r] \in RequestType /\ valid[r] \in Version
      /\ OwedOK(snapRequest[r], valid[r]) /\ PlanOK(snapRequest[r])
      /\ CapturedOK(snapRequest[r]) /\ ValidOK(snapRequest[r], valid[r])
  BY DEF SnapInv, RequestOK, SnapTypeOK
<1>k. PICK k \in RequestType, v \in Version : k = snapRequest[r] /\ v = valid[r]
  BY <1>0
<1>n. /\ \A n \in Notes : /\ live[n] \in Nat /\ noteDisk[n] \in Nat /\ v[n] \in Nat /\ k.owed[n] \in Nat
                            /\ k.plan[n] \in Nat /\ k.captured[n] \in Nat
                            /\ noteDisk[n] <= live[n] /\ live[n] <= clock
      /\ entries \in Nat /\ clock \in Nat /\ k.folder \in Nat
  BY <1>0, <1>k DEF SnapTypeOK, VersionsOK, RequestType, Version
<1> DEFINE q == [k EXCEPT !.at = "prepare"]
<1>1. /\ q \in RequestType /\ q.at = "prepare" /\ q.todo = k.todo /\ q.owed = k.owed /\ q.folder = k.folder
      /\ q.plan = k.plan /\ q.captured = k.captured
  BY <1>k DEF RequestType, SnapshotStep
<1>2. /\ snapRequest' = [snapRequest EXCEPT ![r] = q] /\ k.at = "idle" /\ ~inProgress /\ inProgress' = TRUE
      /\ UNCHANGED <<live, noteDisk, entries, clock, spool, valid>>
  BY <1>k DEF Ask, At, RequestGoes
<1>3. valid' = [valid EXCEPT ![r] = v]
  BY <1>0, <1>k, <1>2 DEF SnapTypeOK
<1> HIDE DEF q
<1>4. snapRequest'[r] = q /\ \A s \in SnapshotRequests \ {r} : snapRequest'[s] = snapRequest[s]
  BY <1>0, <1>2 DEF SnapTypeOK
<1>5. OneAtATime' /\ SpoolIsOwn'
  <2>1. \A s \in SnapshotRequests \ {r} : ~Busy(s)'
    BY <1>0, <1>2, <1>4 DEF OneAtATime, Busy
  <2>2. SpoolIsOwn'
    BY <1>0, <1>1, <1>2, <1>4 DEF SpoolIsOwn
  <2> QED
    BY <1>2, <2>1, <2>2 DEF OneAtATime
<1>6. RequestOK(q, v)
  BY <1>0, <1>k, <1>n, <1>1, <1>2 DEF RequestOK, OwedOK, PlanOK, CapturedOK, ValidOK
<1> QED
  BY <1>1, <1>2, <1>3, <1>5, <1>6, <1>k, RequestStep

\* Its preflight empties the spool of nobody's run directory but its own, and
\* takes down what the documents hold.
LEMMA PrepareStep ==
    ASSUME SnapInv, NEW r \in SnapshotRequests, Prepare(r)
    PROVE  SnapInv'
<1>0. /\ SnapTypeOK /\ VersionsOK /\ OneAtATime /\ SpoolIsOwn
      /\ snapRequest[r] \in RequestType /\ valid[r] \in Version
      /\ OwedOK(snapRequest[r], valid[r]) /\ PlanOK(snapRequest[r])
      /\ CapturedOK(snapRequest[r]) /\ ValidOK(snapRequest[r], valid[r])
  BY DEF SnapInv, RequestOK, SnapTypeOK
<1>k. PICK k \in RequestType, v \in Version : k = snapRequest[r] /\ v = valid[r]
  BY <1>0
<1>n. /\ \A n \in Notes : /\ live[n] \in Nat /\ noteDisk[n] \in Nat /\ v[n] \in Nat /\ k.owed[n] \in Nat
                            /\ k.plan[n] \in Nat /\ k.captured[n] \in Nat
                            /\ noteDisk[n] <= live[n] /\ live[n] <= clock
      /\ entries \in Nat /\ clock \in Nat /\ k.folder \in Nat
  BY <1>0, <1>k DEF SnapTypeOK, VersionsOK, RequestType, Version
<1> DEFINE q == [k EXCEPT !.at = "flush", !.owed = live, !.todo = {n \in Notes : live[n] # 0}]
<1>1. /\ q \in RequestType /\ q.at = "flush" /\ q.todo = {n \in Notes : live[n] # 0} /\ q.owed = live
      /\ q.folder = k.folder /\ q.plan = k.plan /\ q.captured = k.captured
  BY <1>0, <1>k DEF RequestType, SnapshotStep, SnapTypeOK
<1>2. /\ snapRequest' = [snapRequest EXCEPT ![r] = q] /\ k.at = "prepare" /\ spool' = {r}
      /\ UNCHANGED <<live, noteDisk, entries, clock, inProgress, valid>>
  BY <1>k DEF Prepare, At
<1>3. valid' = [valid EXCEPT ![r] = v]
  BY <1>0, <1>k, <1>2 DEF SnapTypeOK
<1> HIDE DEF q
<1>4. snapRequest'[r] = q /\ \A s \in SnapshotRequests \ {r} : snapRequest'[s] = snapRequest[s]
  BY <1>0, <1>2 DEF SnapTypeOK
<1>5. \A s \in SnapshotRequests \ {r} : ~Busy(s)
  BY <1>0, <1>k, <1>2 DEF OneAtATime, Busy
<1>6. SpoolIsOwn'
  BY <1>2, <1>4, <1>5 DEF SpoolIsOwn, Busy
<1>7. OneAtATime'
  <2>1. \A s \in SnapshotRequests \ {r} : ~Busy(s)'
    BY <1>4, <1>5 DEF Busy
  <2>2. inProgress'
    BY <1>0, <1>k, <1>2 DEF OneAtATime, Busy
  <2> QED
    BY <2>1, <2>2 DEF OneAtATime
<1>8. OwedOK(q, v) /\ PlanOK(q)
  BY <1>0, <1>k, <1>n, <1>1, <1>2 DEF OwedOK, PlanOK
<1>9. CapturedOK(q) /\ ValidOK(q, v)
  BY <1>0, <1>k, <1>1, <1>2 DEF CapturedOK, ValidOK
<1> QED
  BY <1>1, <1>2, <1>3, <1>6, <1>7, <1>8, <1>9, <1>k, RequestStep DEF RequestOK

\* A request ends, delivered or not: the next may ask.
LEMMA EndsStep ==
    ASSUME SnapInv, NEW r \in SnapshotRequests,
           SnapshotFails(r) \/ DeliveryAborted(r) \/ DeliveryTimesOut(r) \/ Delivered(r)
    PROVE  SnapInv'
<1>0. /\ SnapTypeOK /\ VersionsOK /\ OneAtATime /\ SpoolIsOwn
      /\ snapRequest[r] \in RequestType /\ valid[r] \in Version
      /\ OwedOK(snapRequest[r], valid[r]) /\ PlanOK(snapRequest[r])
      /\ CapturedOK(snapRequest[r]) /\ ValidOK(snapRequest[r], valid[r])
  BY DEF SnapInv, RequestOK, SnapTypeOK
<1>k. PICK k \in RequestType, v \in Version : k = snapRequest[r] /\ v = valid[r]
  BY <1>0
<1>n. /\ \A n \in Notes : /\ live[n] \in Nat /\ noteDisk[n] \in Nat /\ v[n] \in Nat /\ k.owed[n] \in Nat
                            /\ k.plan[n] \in Nat /\ k.captured[n] \in Nat
                            /\ noteDisk[n] <= live[n] /\ live[n] <= clock
      /\ entries \in Nat /\ clock \in Nat /\ k.folder \in Nat
  BY <1>0, <1>k DEF SnapTypeOK, VersionsOK, RequestType, Version
<1> DEFINE q == [NewRequest EXCEPT !.at = "ended"]
<1>1. /\ q \in RequestType /\ q.at = "ended" /\ q.owed = NoNote /\ q.folder = 0
      /\ q.plan = NoNote /\ q.captured = NoNote /\ NoNote \in Version /\ \A n \in Notes : NoNote[n] = 0
  <2>1. NoNote \in Version /\ \A n \in Notes : NoNote[n] = 0
    BY DEF NoNote, Version
  <2> QED
    BY <2>1 DEF RequestType, SnapshotStep, NewRequest
<1>2. /\ snapRequest' = [snapRequest EXCEPT ![r] = q] /\ valid' = [valid EXCEPT ![r] = NoNote]
      /\ spool' = spool \ {r} /\ inProgress' = FALSE
      /\ UNCHANGED <<live, noteDisk, entries, clock>>
      /\ Busy(r)
  BY DEF SnapshotFails, DeliveryAborted, DeliveryTimesOut, Delivered, Cleanup, RequestEnds, At, Busy
<1> HIDE DEF q
<1>3. snapRequest'[r] = q /\ \A s \in SnapshotRequests \ {r} : snapRequest'[s] = snapRequest[s]
  BY <1>0, <1>2 DEF SnapTypeOK
<1>4. \A s \in SnapshotRequests : ~Busy(s)'
  <2>1. \A s \in SnapshotRequests \ {r} : ~Busy(s)
    BY <1>0, <1>2 DEF OneAtATime
  <2> QED
    BY <1>1, <1>3, <2>1 DEF Busy
<1>5. OneAtATime' /\ SpoolIsOwn'
  BY <1>4 DEF OneAtATime, SpoolIsOwn, Busy
<1>6. OwedOK(q, NoNote)
  BY <1>n, <1>1 DEF OwedOK
<1>7. PlanOK(q) /\ CapturedOK(q) /\ ValidOK(q, NoNote)
  BY <1>n, <1>1 DEF PlanOK, CapturedOK, ValidOK
<1> QED
  BY <1>1, <1>2, <1>5, <1>6, <1>7, RequestStep DEF RequestOK
----------------------------------------------------------------------------
(* The theorem. *)

\* Before the first request.
LEMMA SnapInitially == SnapshotsInit => SnapInv
<1> SUFFICES ASSUME SnapshotsInit PROVE SnapInv
  OBVIOUS
<1>1. NoNote \in Version /\ \A n \in Notes : NoNote[n] = 0
  BY DEF NoNote, Version
<1>2. /\ NewRequest \in RequestType /\ NewRequest.at = "idle" /\ NewRequest.owed = NoNote
      /\ NewRequest.folder = 0 /\ NewRequest.plan = NoNote /\ NewRequest.captured = NoNote
  BY <1>1 DEF NewRequest, RequestType, SnapshotStep
<1>3. /\ live = noteDisk /\ noteDisk \in Version /\ \A n \in Notes : noteDisk[n] \in 0..1
      /\ entries = 0 /\ clock = 1
      /\ \A r \in SnapshotRequests : snapRequest[r] = NewRequest /\ valid[r] = NoNote
  BY DEF SnapshotsInit, Version
<1>4. SnapTypeOK
  BY <1>1, <1>2 DEF SnapshotsInit, SnapTypeOK, Version
<1>5. VersionsOK
  BY <1>3 DEF VersionsOK
<1>6. OneAtATime /\ SpoolIsOwn
  BY <1>2, <1>3 DEF OneAtATime, SpoolIsOwn, Busy
<1>7. RequestOK(NewRequest, NoNote)
  <2>1. OwedOK(NewRequest, NoNote)
    BY <1>1, <1>2, <1>3 DEF OwedOK
  <2>2. PlanOK(NewRequest) /\ CapturedOK(NewRequest) /\ ValidOK(NewRequest, NoNote)
    BY <1>1, <1>2, <1>3 DEF PlanOK, CapturedOK, ValidOK
  <2> QED
    BY <2>1, <2>2 DEF RequestOK
<1> QED
  BY <1>3, <1>4, <1>5, <1>6, <1>7 DEF SnapInv

\* Every step keeps the invariant.
LEMMA SnapKeeps == SnapInv /\ [SnapshotsNext]_snapVars => SnapInv'
<1> SUFFICES ASSUME SnapInv, [SnapshotsNext]_snapVars PROVE SnapInv'
  OBVIOUS
<1>1. ASSUME NEW n \in Notes, EditNote(n) \/ Save(n) \/ RemoveNote(n) PROVE SnapInv'
  BY <1>1, EditStep, SaveStep, RemoveStep
<1>2. ASSUME NEW r \in SnapshotRequests, Ask(r) \/ Prepare(r) \/ FlushDirtySession(r) \/ FlushedAll(r) PROVE SnapInv'
  BY <1>2, AskStep, PrepareStep, FlushStep, FlushedAllStep
<1>3. ASSUME NEW r \in SnapshotRequests, PlanFolder(r) \/ ListFolder(r) \/ StatFile(r) \/ StartCapture(r) PROVE SnapInv'
  BY <1>3, PlanFolderStep, ListFolderStep, StatFileStep, StartCaptureStep
<1>4. ASSUME NEW r \in SnapshotRequests, CopyFile(r) \/ StartValidation(r) \/ ValidateFolder(r) PROVE SnapInv'
  BY <1>4, CopyFileStep, StartValidationStep, ValidateFolderStep
<1>5. ASSUME NEW r \in SnapshotRequests, ValidateFile(r) \/ Pack(r) PROVE SnapInv'
  BY <1>5, ValidateFileStep, PackStep
<1>6. ASSUME NEW r \in SnapshotRequests,
             SnapshotFails(r) \/ DeliveryAborted(r) \/ DeliveryTimesOut(r) \/ Delivered(r)
      PROVE  SnapInv'
  BY <1>6, EndsStep
<1>7. ASSUME UNCHANGED <<live, noteDisk, entries, clock, snapRequest, inProgress, spool, valid>> PROVE SnapInv'
  <2>1. SnapTypeOK' /\ VersionsOK' /\ OneAtATime' /\ SpoolIsOwn'
    BY <1>7 DEF SnapInv, SnapTypeOK, VersionsOK, OneAtATime, Busy, SpoolIsOwn
  <2>2. \A r \in SnapshotRequests : RequestOK(snapRequest[r], valid[r])'
    BY <1>7 DEF SnapInv, RequestOK, OwedOK, PlanOK, CapturedOK, ValidOK, Since, Past
  <2> QED
    BY <2>1, <2>2 DEF SnapInv
<1>8. ASSUME NEW r \in SnapshotRequests, ClientLeaves(r) PROVE SnapInv'
  BY <1>7, <1>8 DEF ClientLeaves
<1>9. CASE UNCHANGED snapVars
  BY <1>7, <1>9 DEF snapVars
<1> QED
  BY <1>1, <1>2, <1>3, <1>4, <1>5, <1>6, <1>8, <1>9 DEF SnapshotsNext, SnapshotSteps

\* What is delivered equals the state the validation began from, which holds
\* everything that is owed.
LEMMA DeliveredIsWhole == SnapInv => SnapshotIsWhole
<1> SUFFICES ASSUME SnapInv PROVE SnapshotIsWhole
  OBVIOUS
<1>1. ASSUME NEW r \in SnapshotRequests, At(r, "deliver")
      PROVE  /\ snapRequest[r].captured = valid[r]
             /\ \A n \in Notes : snapRequest[r].captured[n] >= snapRequest[r].owed[n]
  <2>1. /\ snapRequest[r] \in RequestType /\ valid[r] \in Version
        /\ OwedOK(snapRequest[r], valid[r]) /\ ValidOK(snapRequest[r], valid[r])
    BY DEF SnapInv, SnapTypeOK, RequestOK
  <2>2. \A n \in Notes : snapRequest[r].captured[n] = valid[r][n]
    BY <1>1, <2>1 DEF ValidOK, At
  <2>3. snapRequest[r].captured \in Version
    BY <2>1 DEF RequestType
  <2>4. snapRequest[r].captured = valid[r]
    BY <2>1, <2>2, <2>3 DEF Version
  <2>5. \A n \in Notes : /\ snapRequest[r].owed[n] <= valid[r][n] /\ valid[r][n] \in Nat
                         /\ snapRequest[r].owed[n] \in Nat
    BY <1>1, <2>1 DEF OwedOK, At, RequestType, Version
  <2> QED
    BY <2>2, <2>4, <2>5
<1>2. SpoolIsOwn
  BY DEF SnapInv
<1> QED
  BY <1>1, <1>2 DEF SnapshotIsWhole, SnapshotIsOneInstant, SnapshotIsDurable

\* However users edit, save and remove notes, clients leave and requests come
\* meanwhile: a snapshot that is delivered is the vault at one instant, holds
\* every edit made before the time it says, and was packed in a run directory no
\* other request emptied (snapshot-archive.ts, createSnapshotArchive of
\* vault-registry.ts and the snapshot route of app.ts).
THEOREM SnapshotsAreWhole == SnapshotsSpec => []SnapshotIsWhole
<1>1. SnapshotsInit => SnapInv
  BY SnapInitially
<1>2. SnapInv /\ [SnapshotsNext]_snapVars => SnapInv'
  BY SnapKeeps
<1>3. SnapInv => SnapshotIsWhole
  BY DeliveredIsWhole
<1> QED
  BY <1>1, <1>2, <1>3, PTL DEF SnapshotsSpec

-----------------------------------------------------------------------------
(* Names in the archive.                                                   *)

Mark == STRING \cup {"~"}
Name == Seq(Mark) \ {<<>>}

\* What a name is called in the archive, among its siblings.
Shown(name, siblings) == IF NeedsMapping(name, siblings) THEN Encode(name) ELSE name

\* A generated name has its mark, keeps its case and says what it stands for.
LEMMA EncodedNames ==
    ASSUME NEW a \in Name, NEW b \in Name
    PROVE  /\ Encode(a) \in Name /\ Encode(a)[1] = "~" /\ Encode(a) # <<"con">>
           /\ PortableKey(Encode(a)) = Encode(a)
           /\ Encode(a) = Encode(b) => a = b
<1>1. /\ a \in Seq(Mark) /\ b \in Seq(Mark) /\ <<"~">> \in Seq(Mark) /\ Len(<<"~">>) = 1
      /\ <<"~">>[1] = "~"
  <2>1. a \in Seq(Mark) /\ b \in Seq(Mark)
    BY DEF Name
  <2>2. "~" \in Mark
    BY DEF Mark
  <2> QED
    BY <2>1, <2>2
<1>2. Encode(a) \in Seq(Mark) /\ Encode(b) \in Seq(Mark)
  BY <1>1 DEF Encode
<1>3. /\ Len(Encode(a)) = Len(a) + 1 /\ Encode(a)[1] = "~"
      /\ \A i \in 1..Len(a) : Encode(a)[i + 1] = a[i]
  BY <1>1 DEF Encode
<1>4. /\ Len(Encode(b)) = Len(b) + 1 /\ Encode(b)[1] = "~"
      /\ \A i \in 1..Len(b) : Encode(b)[i + 1] = b[i]
  BY <1>1 DEF Encode
<1>5. Encode(a) # <<>>
  BY <1>1, <1>2, <1>3
<1>6. <<"con">>[1] = "con"
  OBVIOUS
<1>7. PortableKey(Encode(a)) = Encode(a)
  BY <1>3 DEF PortableKey, StartsWithPrefix
<1>8. ASSUME Encode(a) = Encode(b) PROVE a = b
  <2>1. Len(a) = Len(b)
    BY <1>1, <1>3, <1>4, <1>8
  <2>2. \A i \in 1..Len(a) : a[i] = b[i]
    BY <1>1, <1>3, <1>4, <1>8, <2>1
  <2> QED
    BY <1>1, <2>1, <2>2
<1> QED
  BY <1>2, <1>3, <1>5, <1>6, <1>7, <1>8 DEF Name

\* A name the user chose that does not begin with the mark has a key that does not.
LEMMA OwnKeys ==
    ASSUME NEW a \in Name, a[1] # "~"
    PROVE  PortableKey(a)[1] # "~"
<1>1. 1 \in DOMAIN a
  BY DEF Name
<1>2. PortableKey(a)[1] = IF a[1] \in DOMAIN Lower THEN Lower[a[1]] ELSE a[1]
  BY <1>1 DEF PortableKey, StartsWithPrefix
<1>3. \A m \in DOMAIN Lower : Lower[m] \in {"a", "n"}
  BY DEF Lower
<1> QED
  BY <1>2, <1>3

\* Two siblings have names in the archive that differ in more than their case.
LEMMA SiblingsDiffer ==
    ASSUME NEW siblings, NEW a \in Name, NEW b \in Name, a \in siblings, b \in siblings, a # b
    PROVE  PortableKey(Shown(a, siblings)) # PortableKey(Shown(b, siblings))
<1>1. CASE NeedsMapping(a, siblings) /\ NeedsMapping(b, siblings)
  BY <1>1, EncodedNames DEF Shown
<1>2. CASE NeedsMapping(a, siblings) /\ ~NeedsMapping(b, siblings)
  <2>1. PortableKey(Shown(a, siblings))[1] = "~"
    BY <1>2, EncodedNames DEF Shown
  <2>2. b[1] # "~" /\ Shown(b, siblings) = b
    BY <1>2 DEF Shown, NeedsMapping, StartsWithPrefix
  <2> QED
    BY <2>1, <2>2, OwnKeys
<1>3. CASE ~NeedsMapping(a, siblings) /\ NeedsMapping(b, siblings)
  <2>1. PortableKey(Shown(b, siblings))[1] = "~"
    BY <1>3, EncodedNames DEF Shown
  <2>2. a[1] # "~" /\ Shown(a, siblings) = a
    BY <1>3 DEF Shown, NeedsMapping, StartsWithPrefix
  <2> QED
    BY <2>1, <2>2, OwnKeys
<1>4. CASE ~NeedsMapping(a, siblings) /\ ~NeedsMapping(b, siblings)
  BY <1>4 DEF Shown, NeedsMapping
<1> QED
  BY <1>1, <1>2, <1>3, <1>4

LEMMA ShownIsPortable ==
    ASSUME NEW siblings, NEW a \in Name
    PROVE  IsPortableSnapshotSegment(Shown(a, siblings))
  BY EncodedNames DEF Shown, NeedsMapping, IsPortableSnapshotSegment

\* The first place two paths part.
LEMMA PathsPart ==
    ASSUME NEW p \in Seq(Name), NEW q \in Seq(Name), p # q, Len(p) = Len(q)
    PROVE  \E i \in 1..Len(p) : p[i] # q[i] /\ \A j \in 1..(i - 1) : p[j] = q[j]
<1> DEFINE T == {i \in 1..Len(p) : p[i] # q[i]}
<1>1. T # {} /\ T \subseteq Nat
  OBVIOUS
<1> HIDE DEF T
<1>2. \E i \in T : \A j \in T : ~(<<j, i>> \in OpToRel(<, Nat))
  BY <1>1, NatLessThanWellFounded, WFMin
<1>3. PICK i \in T : \A j \in T : ~(j < i)
  BY <1>1, <1>2 DEF OpToRel
<1> USE DEF T
<1> QED
  BY <1>1, <1>3

LEMMA ArchivedPaths ==
    ASSUME archived \subseteq Candidates
    PROVE  Archived \subseteq Seq(Name)
<1>1. Seq(STRING) \ {<<>>} \subseteq Name
  BY DEF Name, Mark
<1>2. Seq(Seq(STRING) \ {<<>>}) \subseteq Seq(Name)
  BY <1>1
<1> QED
  BY <1>2, SnapshotRestoreBounds DEF Archived

\* Every name of a path is one of the siblings it is compared with.
LEMMA OwnSibling ==
    ASSUME archived \subseteq Candidates, NEW p \in Archived, NEW i \in 1..Len(p)
    PROVE  p[i] \in Siblings(SubSeq(p, 1, i - 1))
<1> DEFINE up == SubSeq(p, 1, i - 1)
<1>1. p \in Seq(Name) /\ Len(p) \in Nat /\ i \in Nat /\ 1 <= i /\ i <= Len(p)
  BY ArchivedPaths
<1>2. up \in Seq(Name) /\ Len(up) = i - 1 /\ \A j \in 1..(i - 1) : up[j] = p[j]
  BY <1>1
<1>3. IsStrictPrefix(up, p)
  <2>1. SubSeq(up, 1, Len(up)) = SubSeq(p, 1, Len(up))
    BY <1>1, <1>2
  <2> QED
    BY <1>1, <1>2, <2>1 DEF IsStrictPrefix, IsPrefix
<1> HIDE DEF up
<1>4. Len(up) + 1 = i
  BY <1>1, <1>2
<1>5. p[Len(up) + 1] \in Siblings(up)
  BY <1>3 DEF Siblings
<1> QED
  BY <1>4, <1>5 DEF up

\* The names of a snapshot's paths are allowed everywhere, and no two paths differ
\* only in their case.
LEMMA ArchiveUnpacks ==
    ASSUME archived \subseteq Candidates
    PROVE  UnpacksEverywhere
<1>1. ASSUME NEW p \in Archived, NEW i \in DOMAIN p
      PROVE  /\ i \in 1..Len(p) /\ p[i] \in Name
             /\ PortablePath(p)[i] = Shown(p[i], Siblings(SubSeq(p, 1, i - 1)))
  <2>1. p \in Seq(Name) /\ i \in 1..Len(p)
    BY ArchivedPaths
  <2> QED
    BY <2>1 DEF PortablePath, Shown
<1>2. ASSUME NEW p \in Archived, NEW i \in DOMAIN p
      PROVE  IsPortableSnapshotSegment(PortablePath(p)[i])
  BY <1>1, ShownIsPortable
<1>3. ASSUME NEW p \in Archived, NEW q \in Archived, p # q,
             [i \in DOMAIN p |-> PortableKey(PortablePath(p)[i])]
                 = [i \in DOMAIN q |-> PortableKey(PortablePath(q)[i])]
      PROVE  FALSE
  <2>1. p \in Seq(Name) /\ q \in Seq(Name)
    BY ArchivedPaths
  <2>2. DOMAIN p = DOMAIN q
    BY <1>3
  <2>3. Len(p) = Len(q)
    BY <2>1, <2>2
  <2>4. \A i \in DOMAIN p : PortableKey(PortablePath(p)[i]) = PortableKey(PortablePath(q)[i])
    BY <1>3, <2>2
  <2>5. PICK i \in 1..Len(p) : p[i] # q[i] /\ \A j \in 1..(i - 1) : p[j] = q[j]
    BY <1>3, <2>1, <2>3, PathsPart
  <2>6. i \in DOMAIN p /\ i \in DOMAIN q /\ i \in 1..Len(q)
    BY <2>1, <2>2, <2>3
  <2>7. SubSeq(p, 1, i - 1) = SubSeq(q, 1, i - 1)
    <3>1. /\ SubSeq(p, 1, i - 1) \in Seq(Name) /\ Len(SubSeq(p, 1, i - 1)) = i - 1
          /\ \A j \in 1..(i - 1) : SubSeq(p, 1, i - 1)[j] = p[j]
      BY <2>1
    <3>2. /\ SubSeq(q, 1, i - 1) \in Seq(Name) /\ Len(SubSeq(q, 1, i - 1)) = i - 1
          /\ \A j \in 1..(i - 1) : SubSeq(q, 1, i - 1)[j] = q[j]
      BY <2>1, <2>3
    <3> HIDE DEF Name
    <3> QED
      BY <2>5, <3>1, <3>2
  <2> DEFINE sibs == Siblings(SubSeq(p, 1, i - 1))
  <2>8. p[i] \in sibs /\ q[i] \in sibs
    BY <2>6, <2>7, OwnSibling
  <2>9. /\ PortablePath(p)[i] = Shown(p[i], sibs) /\ PortablePath(q)[i] = Shown(q[i], sibs)
        /\ p[i] \in Name /\ q[i] \in Name
    BY <1>1, <2>6, <2>7
  <2> HIDE DEF sibs
  <2> QED
    BY <2>4, <2>5, <2>6, <2>8, <2>9, SiblingsDiffer
<1> QED
  BY <1>2, <1>3 DEF UnpacksEverywhere

-----------------------------------------------------------------------------
(* The restores.                                                           *)

\* The manifest has one entry for every file, with its own path as its content.
LEMMA ManifestFacts ==
    /\ \A m \in Manifest : m.original \in Archived /\ m.hash = m.original
    /\ \A m, n \in Manifest : m.original = n.original => m = n
    /\ \A p \in Archived : \E m \in Manifest : m.original = p
<1> DEFINE Entry(p) == [path |-> PortablePath(p), original |-> p, hash |-> p]
<1>1. \A p \in Archived : Entry(p) \in Manifest /\ Entry(p).original = p
  BY DEF Manifest
<1>2. ASSUME NEW m \in Manifest
      PROVE  m.original \in Archived /\ m.hash = m.original /\ m = Entry(m.original)
  <2>1. PICK p \in Archived : m = Entry(p)
    BY DEF Manifest
  <2> QED
    BY <2>1
<1> QED
  BY <1>1, <1>2

LEMMA ArchiveStays ==
    ASSUME archived' = archived
    PROVE  Archived' = Archived /\ Manifest' = Manifest
<1>1. Archived' = Archived
  BY DEF Archived
<1>2. Manifest' = Manifest
  BY <1>1 DEF Manifest, PortablePath, Siblings
<1> QED
  BY <1>1, <1>2

\* The files of a set, each with its own content.
Files(set) == [p \in set |-> p]
Originals(todo) == {m.original : m \in todo}

LEMMA NoFiles == <<>> = Files({})
  BY DEF Files

\* How far a restore has come, and what is in the home it made by then.
StageOK(r) ==
    /\ restore[r] \in [at : {"open", "mkdir", "dirs", "files", "done", "failed"},
                       todo : SUBSET Manifest]
    /\ restore[r].at \in {"dirs", "files", "done"} => madeBy = r
    /\ restore[r].at = "dirs" => target = Files({})
    /\ restore[r].at = "files" => target = Files(Archived \ Originals(restore[r].todo))
    /\ restore[r].at = "done" => target = Files(Archived)

RestoreInv ==
    /\ archived \subseteq Candidates
    /\ DOMAIN restore = Restores /\ restore = [r \in Restores |-> restore[r]]
    /\ madeBy \in Restores \cup {"nobody", "user"}
    /\ madeBy = "nobody" => target = Files({})
    /\ madeBy \in Restores => restore[madeBy].at \in {"dirs", "files", "done"}
    /\ \A r \in Restores : StageOK(r)

\* One file more.
LEMMA OneMore ==
    ASSUME NEW todo \in SUBSET Manifest, NEW m \in todo,
           target = Files(Archived \ Originals(todo))
    PROVE  Written(m.original, m.hash) = Files(Archived \ Originals(todo \ {m}))
<1>1. m.hash = m.original /\ m.original \in Archived
  BY ManifestFacts
<1>2. Archived \ Originals(todo \ {m}) = (Archived \ Originals(todo)) \cup {m.original}
  BY ManifestFacts DEF Originals
<1> QED
  BY <1>1, <1>2 DEF Files, Written

\* A restore that goes on or fails leaves the others where they are.
LEMMA RestoreInvInit == RestoreInit => RestoreInv
<1> SUFFICES ASSUME RestoreInit PROVE RestoreInv
  OBVIOUS
<1>1. archived \subseteq Candidates
  BY DEF RestoreInit
<1>2. /\ restore = [r \in Restores |-> [at |-> "open", todo |-> {}]]
      /\ madeBy \in {"nobody", "user"}
      /\ madeBy = "nobody" => target = <<>>
  BY DEF RestoreInit
<1> QED
  BY <1>1, <1>2, NoFiles, SnapshotRestoreBounds DEF RestoreInv, StageOK

LEMMA FailureKeepsInv ==
    ASSUME RestoreInv, NEW r \in Restores, RestoreFails(r), archived' = archived
    PROVE  RestoreInv'
<1>0. Archived' = Archived /\ Manifest' = Manifest
  BY ArchiveStays
<1>1. /\ restore' = [restore EXCEPT ![r] = [at |-> "failed", todo |-> {}]]
      /\ madeBy = r => target' = <<>> /\ madeBy' = "nobody"
      /\ madeBy # r => target' = target /\ madeBy' = madeBy
  BY DEF RestoreFails, RestoreGoes
<1>2. ASSUME NEW s \in Restores PROVE StageOK(s)'
  <2>1. StageOK(s)
    BY DEF RestoreInv
  <2>2. CASE s = r
    BY <1>0, <1>1, <2>2 DEF RestoreInv, StageOK
  <2>3. CASE s # r
    BY <1>0, <1>1, <2>1, <2>3, SnapshotRestoreBounds DEF RestoreInv, StageOK
  <2> QED
    BY <2>2, <2>3
<1> QED
  BY <1>1, <1>2, NoFiles, SnapshotRestoreBounds DEF RestoreInv

\* Restore r goes on to a stage, with the home its stage asks for, and touches no
\* home that is another's.
Reaches(r, at, todo) ==
    /\ RestoreGoes(r, at, todo)
    /\ at \in {"open", "mkdir", "dirs", "files", "done", "failed"} /\ todo \in SUBSET Manifest
    /\ madeBy \notin {r, "nobody"} => UNCHANGED <<target, madeBy>>
    /\ madeBy' = "nobody" => target' = target
    /\ \/ madeBy' = r /\ at \in {"dirs", "files", "done"}
       \/ madeBy' = madeBy /\ madeBy # r /\ at \notin {"dirs", "files", "done"}
    /\ at = "dirs" => target' = Files({})
    /\ at = "files" => target' = Files(Archived \ Originals(todo))
    /\ at = "done" => target' = Files(Archived)

LEMMA ReachKeepsInv ==
    ASSUME RestoreInv, NEW r \in Restores, NEW at, NEW todo, Reaches(r, at, todo),
           archived' = archived
    PROVE  RestoreInv'
<1>0. Archived' = Archived /\ Manifest' = Manifest
  BY ArchiveStays
<1>1. restore' = [restore EXCEPT ![r] = [at |-> at, todo |-> todo]]
  BY DEF Reaches, RestoreGoes
<1>2. /\ restore'[r] = [at |-> at, todo |-> todo]
      /\ \A s \in Restores : s # r => restore'[s] = restore[s]
      /\ DOMAIN restore' = Restores /\ restore' = [s \in Restores |-> restore'[s]]
  BY <1>1 DEF RestoreInv
<1>3. ASSUME NEW s \in Restores PROVE StageOK(s)'
  <2>1. CASE s = r
    BY <1>0, <1>2, <2>1 DEF StageOK, Reaches
  <2>2. CASE s # r
    <3>1. StageOK(s)
      BY DEF RestoreInv
    <3>2. restore'[s] = restore[s]
      BY <1>2, <2>2
    <3>3. CASE restore[s].at \in {"dirs", "files", "done"}
      <4>1. madeBy = s /\ s # "nobody"
        BY <3>1, <3>3, SnapshotRestoreBounds DEF StageOK
      <4>2. target' = target /\ madeBy' = madeBy
        BY <2>2, <4>1 DEF Reaches
      <4> QED
        BY <1>0, <3>1, <3>2, <4>2 DEF StageOK
    <3>4. CASE restore[s].at \notin {"dirs", "files", "done"}
      BY <1>0, <3>1, <3>2, <3>4 DEF StageOK
    <3> QED
      BY <3>3, <3>4
  <2> QED
    BY <2>1, <2>2
<1>4. madeBy' \in Restores => restore'[madeBy'].at \in {"dirs", "files", "done"}
  BY <1>2 DEF RestoreInv, Reaches
<1>5. madeBy' \in Restores \cup {"nobody", "user"}
  BY DEF RestoreInv, Reaches
<1>6. madeBy' = "nobody" => target' = Files({})
  BY SnapshotRestoreBounds DEF RestoreInv, Reaches
<1> QED
  BY <1>2, <1>3, <1>4, <1>5, <1>6 DEF RestoreInv

LEMMA StepKeepsInv ==
    ASSUME RestoreInv, RestoreNext
    PROVE  RestoreInv'
<1> PICK r \in Restores :
        OpenArchive(r) \/ MakeTarget(r) \/ MakeDirectories(r) \/ WriteFiles(r) \/ RestoredTree(r)
  BY DEF RestoreNext
<1>0. archived' = archived /\ Archived' = Archived /\ Manifest' = Manifest
  BY ArchiveStays DEF OpenArchive, MakeTarget, MakeDirectories, WriteFiles, RestoredTree
<1>a. SUFFICES ASSUME ~RestoreFails(r) PROVE RestoreInv'
  BY <1>0, FailureKeepsInv
<1>b. /\ DOMAIN restore = Restores /\ archived \subseteq Candidates /\ StageOK(r)
      /\ \A s \in Restores : StageOK(s)
  BY DEF RestoreInv
<1>1. CASE OpenArchive(r)
  <2>1. restore[r].at = "open" /\ RestoreGoes(r, "mkdir", {}) /\ UNCHANGED <<target, madeBy>>
    BY <1>1, <1>a DEF OpenArchive
  <2>2. madeBy # r
    BY <2>1 DEF RestoreInv
  <2>3. Reaches(r, "mkdir", {})
    BY <2>1, <2>2 DEF Reaches
  <2> QED
    BY <1>0, <2>3, ReachKeepsInv
<1>2. CASE MakeTarget(r)
  <2>1. /\ restore[r].at = "mkdir" /\ madeBy = "nobody" /\ RestoreGoes(r, "dirs", {})
        /\ madeBy' = r /\ target' = target
    BY <1>2, <1>a DEF MakeTarget
  <2>2. target = Files({})
    BY <2>1 DEF RestoreInv
  <2>3. Reaches(r, "dirs", {})
    BY <2>1, <2>2, SnapshotRestoreBounds DEF Reaches
  <2> QED
    BY <1>0, <2>3, ReachKeepsInv
<1>3. CASE MakeDirectories(r)
  <2>1. /\ restore[r].at = "dirs" /\ RestoreGoes(r, "files", Manifest)
        /\ UNCHANGED <<target, madeBy>>
    BY <1>3, <1>a DEF MakeDirectories
  <2>2. madeBy = r /\ target = Files({})
    BY <1>b, <2>1 DEF StageOK
  <2>3. Archived \ Originals(Manifest) = {}
    BY ManifestFacts DEF Originals
  <2>4. Reaches(r, "files", Manifest)
    BY <2>1, <2>2, <2>3 DEF Reaches
  <2> QED
    BY <1>0, <2>4, ReachKeepsInv
<1>4. CASE WriteFiles(r)
  <2>1. PICK m \in restore[r].todo : WritesFile(r, m)
    BY <1>4 DEF WriteFiles
  <2>2. /\ Entries[m.path] = m.hash
        /\ target' = Written(m.original, m.hash)
        /\ RestoreGoes(r, "files", restore[r].todo \ {m})
        /\ madeBy' = madeBy
    BY <1>a, <2>1 DEF WritesFile
  <2>3. /\ madeBy = r /\ restore[r].todo \in SUBSET Manifest
        /\ target = Files(Archived \ Originals(restore[r].todo))
    BY <1>4, <1>b DEF StageOK, WriteFiles
  <2>4. target' = Files(Archived \ Originals(restore[r].todo \ {m}))
    BY <2>2, <2>3, OneMore
  <2>5. Reaches(r, "files", restore[r].todo \ {m})
    BY <2>2, <2>3, <2>4, SnapshotRestoreBounds DEF Reaches
  <2> QED
    BY <1>0, <2>5, ReachKeepsInv
<1>5. CASE RestoredTree(r)
  <2>1. /\ restore[r].at = "files" /\ restore[r].todo = {} /\ RestoreGoes(r, "done", {})
        /\ UNCHANGED <<target, madeBy>>
    BY <1>5 DEF RestoredTree
  <2>2. madeBy = r /\ target = Files(Archived)
    BY <1>b, <2>1 DEF StageOK, Originals
  <2>3. Reaches(r, "done", {})
    BY <2>1, <2>2 DEF Reaches
  <2> QED
    BY <1>0, <2>3, ReachKeepsInv
<1> QED
  BY <1>1, <1>2, <1>3, <1>4, <1>5

LEMMA StutterKeepsInv ==
    ASSUME RestoreInv, UNCHANGED restoreVars
    PROVE  RestoreInv'
<1>1. Archived' = Archived /\ Manifest' = Manifest
  BY ArchiveStays DEF restoreVars
<1> QED
  BY <1>1 DEF RestoreInv, StageOK, restoreVars

\* The home the restore that moves did not make stays as it is.
LEMMA StepKeepsHome ==
    ASSUME RestoreInv, RestoreNext, NEW r \in Restores, restore'[r] # restore[r],
           madeBy \notin {r, "nobody"}
    PROVE  target' = target /\ madeBy' = madeBy
<1> PICK s \in Restores :
        OpenArchive(s) \/ MakeTarget(s) \/ MakeDirectories(s) \/ WriteFiles(s) \/ RestoredTree(s)
  BY DEF RestoreNext
<1>1. s = r
  BY DEF RestoreInv, OpenArchive, MakeTarget, MakeDirectories, WriteFiles, WritesFile,
         RestoredTree, RestoreGoes, RestoreFails
<1>2. restore[r].at \notin {"dirs", "files", "done"}
  BY DEF RestoreInv, StageOK
<1> QED
  BY <1>1, <1>2 DEF OpenArchive, MakeTarget, MakeDirectories, WriteFiles, RestoredTree,
                    RestoreFails

LEMMA InvGivesSafety ==
    ASSUME RestoreInv
    PROVE  UnpacksEverywhere /\ RestoredIsTheTree /\ FailureLeavesNothing
<1>1. UnpacksEverywhere
  BY ArchiveUnpacks DEF RestoreInv
<1>2. RestoredIsTheTree
  BY DEF RestoreInv, StageOK, RestoredIsTheTree, Files
<1>3. madeBy \in Restores => restore[madeBy].at # "failed"
  BY DEF RestoreInv
<1>4. Cardinality({r \in Restores : restore[r].at = "done"}) <= 1
  <2> DEFINE D == {r \in Restores : restore[r].at = "done"}
  <2>1. D \subseteq {madeBy}
    BY DEF RestoreInv, StageOK
  <2>2. D = {} \/ D = {madeBy}
    BY <2>1
  <2> HIDE DEF D
  <2>3. Cardinality({}) = 0 /\ Cardinality({madeBy}) = 1
    BY FS_EmptySet, FS_Singleton
  <2>4. Cardinality(D) <= 1
    BY <2>2, <2>3
  <2> QED
    BY <2>4 DEF D
<1> QED
  BY <1>1, <1>2, <1>3, <1>4 DEF FailureLeavesNothing

\* In every behaviour of restores that race for one target: the archive unpacks on
\* every filesystem, a restore that reports success has brought back exactly the
\* archived files, one that fails leaves nothing, no two succeed, and a home that a
\* restore did not make is neither changed nor removed by it.
THEOREM RestoresAreSafe == RestoreSpec => RestoreIsSafe
<1>1. RestoreInit => RestoreInv
  BY RestoreInvInit
<1>2. RestoreInv /\ [RestoreNext]_restoreVars => RestoreInv'
  BY StepKeepsInv, StutterKeepsInv
<1>3. RestoreInv => UnpacksEverywhere /\ RestoredIsTheTree /\ FailureLeavesNothing
  BY InvGivesSafety
<1>4. RestoreInv /\ [RestoreNext]_restoreVars =>
        [\A r \in Restores : restore'[r] # restore[r] /\ madeBy \notin {r, "nobody"} =>
            target' = target /\ madeBy' = madeBy]_restoreVars
  BY StepKeepsHome DEF restoreVars
<1> QED
  BY <1>1, <1>2, <1>3, <1>4, PTL DEF RestoreSpec, RestoreIsSafe, ExistingHomeIsKept
=============================================================================
