---------------------------- MODULE NoteHistory ----------------------------
(***************************************************************************)
(* Git-backed note history: packages/vault-core/src/file-history.ts and    *)
(* the queue of packages/vault-service/src/index.ts (enqueueHistoryMutation) *)
(* that its mutations go through.                                          *)
(*                                                                         *)
(* A version is a number and belongs to one note, whatever path the note   *)
(* has.  Persisted contents become pending entries, one per path and       *)
(* coalescing bucket; a flush commits them; a move is a commit of its own  *)
(* that names where the note came from.  The history of a path is read by  *)
(* following those commits back.                                           *)
(***************************************************************************)
EXTENDS Naturals, Sequences, FiniteSets, SequencesExt

CONSTANTS NotePaths,    \* paths <<folder, name>> of notes
          Window,       \* historyCoalesceWindowMs, in ticks
          MaxTime,      \* bound: ticks of the clock
          MaxVersions,  \* bound: contents persisted
          MaxMutations, \* bound: moves, folder moves, deletes and flushes asked for
          GitMayFail    \* whether a commit may fail

ASSUME HistoryBounds ==
    /\ Window \in Nat \ {0} /\ Window % 2 = 0 /\ MaxTime \in Nat /\ MaxVersions \in Nat
    /\ MaxMutations \in Nat /\ GitMayFail \in BOOLEAN

VARIABLES
    disk,      \* path -> version of the note there, 0 for none
    owner,     \* version -> the note it belongs to: the first version of that note
    clock,     \* odd numbers
    pending,   \* pendingHistoryByRoot of this root, in insertion order
    gitIndex,  \* git's index: path -> version and marker
    commits,   \* the KB-1 commits
    work,      \* the queue of historyMutationTail; the head runs
    late,      \* service writes whose record is not yet enqueued
    creating,  \* the path createNote holds stable, or none
    mover,     \* a moveNote or moveFolder between its flush and its move
    asked,     \* mutations asked for
    gitFailed, \* whether a commit failed
    strays,    \* history: notes moved while a record of theirs was still on its way
    kept       \* history: versions recorded and not coalesced over

historyVars == <<disk, owner, clock, pending, gitIndex, commits, work, late, creating,
                 mover, asked, gitFailed, strays, kept>>

NoPath == <<>>
BlankNote == [version |-> 0, marker |-> 0]
NoMove == [phase |-> "idle", kind |-> "none", from |-> NoPath, to |-> NoPath]
Persisted == Len(owner)
Task(kind) == [kind |-> kind, from |-> NoPath, to |-> NoPath, op |-> "update", version |-> 0,
               time |-> 0, paths |-> {}, selected |-> <<>>, begun |-> FALSE]

HistoryInit ==
    /\ disk = [p \in NotePaths |-> 0]
    /\ owner = <<>>
    /\ clock = 1
    /\ pending = <<>>
    /\ gitIndex = [p \in NotePaths |-> BlankNote]
    /\ commits = <<>>
    /\ work = <<>>
    /\ late = {}
    /\ creating = NoPath
    /\ mover = NoMove
    /\ asked = 0
    /\ gitFailed = FALSE
    /\ strays = {}
    /\ kept = {}

-----------------------------------------------------------------------------
(* Pending entries and commits.                                            *)

BucketStart(now, window) == IF window = 0 THEN now ELSE (now \div window) * window

\* recordFileHistory: the entry of this path and bucket takes the new content,
\* or a new one is added.
PendingIndex(path, bucket) == {k \in DOMAIN pending : pending[k].path = path /\ pending[k].bucket = bucket}

RecordFileHistory(path, op, version, time, window, from) ==
    LET bucket == BucketStart(time, window)
        found  == PendingIndex(path, bucket)
        fresh  == [path |-> path, from |-> from, op |-> op, bucket |-> bucket,
                   updatedAt |-> time, version |-> version]
        merged(e) == [e EXCEPT !.op = IF e.op = "create" THEN "create" ELSE op,
                               !.updatedAt = time, !.version = version,
                               !.from = IF from = NoPath THEN @ ELSE from]
    IN  IF found = {}
        THEN pending' = Append(pending, fresh) /\ kept' = kept \cup {version}
        ELSE LET k == CHOOSE k \in found : TRUE
             IN  /\ pending' = [pending EXCEPT ![k] = merged(@)]
                 /\ kept' = (kept \ {pending[k].version}) \cup {version}

\* selectPendingEntries: the entries of these paths, oldest update first.
SelectPendingEntries(paths) ==
    LET at == SetToSortSeq({k \in DOMAIN pending : pending[k].path \in paths},
                  LAMBDA i, j : \/ pending[i].updatedAt < pending[j].updatedAt
                                \/ pending[i].updatedAt = pending[j].updatedAt /\ i < j)
    IN  [i \in DOMAIN at |-> pending[at[i]]]

HeadTree == IF commits = <<>> THEN [p \in NotePaths |-> BlankNote] ELSE Last(commits).tree

\* stagePendingEntry: a move takes its old path and marker out of the index,
\* the entry's content and marker go in.
StagePendingEntry(e) ==
    [p \in NotePaths |->
        IF p = e.path THEN [version |-> e.version, marker |-> Len(commits) + 1]
        ELSE IF p = e.from THEN BlankNote ELSE gitIndex[p]]

\* commitHistoryEntry commits the whole index.  (live: whether the note was
\* still at that path.)
CommitOf(op, path, from, tree) ==
    [live |-> path \in NotePaths /\ disk[path] # 0 /\ owner[disk[path]] = owner[tree[path].version],
     op |-> op, path |-> path, from |-> from, tree |-> tree,
     touched |-> {p \in NotePaths : tree[p] # HeadTree[p]}]

Under(folder, p) == p[1] = folder[1]
Unmoved(from, to, p) == <<from[1]>> \o Tail(p)

-----------------------------------------------------------------------------
(* Reading: the committed history of a path.                               *)

\* A scope that does not look at the folders a commit moved.
ScopeOfPathOnly(c, path) == [matches |-> c.path = path, previous |-> c.from]

\* historyCommitScope: the commit is about this path, or moved a folder above it.
HistoryCommitScope(c, path) ==
    IF c.path = path THEN [matches |-> TRUE, previous |-> c.from]
    ELSE IF c.op = "move" /\ Len(c.path) = 1 /\ Under(c.path, path)
    THEN [matches |-> TRUE, previous |-> Unmoved(c.from, c.path, path)]
    ELSE [matches |-> FALSE, previous |-> NoPath]

\* The walk that only follows the path, over creations too.
WalkPastCreation(path) ==
    LET walk[k \in 0 .. Len(commits), p \in NotePaths] ==
            IF k = 0 THEN <<>>
            ELSE IF p \notin commits[k].touched \/ ~HistoryCommitScope(commits[k], p).matches
            THEN walk[k - 1, p]
            ELSE <<commits[k].tree[p].version>> \o
                 walk[k - 1, IF HistoryCommitScope(commits[k], p).previous \in NotePaths
                             THEN HistoryCommitScope(commits[k], p).previous ELSE p]
    IN  walk[Len(commits), path]

\* readCommittedHistory: back through the commits that touch the path or its
\* marker, on to the path it was moved from, until the note's creation.
ReadCommittedHistory(path) ==
    LET walk[k \in 0 .. Len(commits), p \in NotePaths] ==
            LET c == commits[k]
                scope == HistoryCommitScope(c, p)
            IN  IF k = 0 THEN <<>>
                ELSE IF p \notin c.touched \/ ~scope.matches THEN walk[k - 1, p]
                ELSE <<c.tree[p].version>> \o
                     (IF c.op = "create" THEN <<>>
                      ELSE walk[k - 1, IF scope.previous \in NotePaths THEN scope.previous ELSE p])
    IN  walk[Len(commits), path]

PendingEntriesForPath(path) == {pending[k].version : k \in {j \in DOMAIN pending : pending[j].path = path}}

\* listFileHistory and readFileHistoryVersion look in both.
ListFileHistory(path) == PendingEntriesForPath(path) \cup Range(ReadCommittedHistory(path))

-----------------------------------------------------------------------------
(* The notes.                                                              *)

\* Bounds: the contents persisted, and one service write on its way at a time.
NewVersion(p, note) ==
    /\ Persisted < MaxVersions /\ late = {}
    /\ disk' = [disk EXCEPT ![p] = Persisted + 1]
    /\ owner' = Append(owner, note)

EnqueueHistoryMutation(task) == work' = Append(work, task)

Write(p, op, version) == [path |-> p, op |-> op, version |-> version]

\* createNote writes the file under a stable path and awaits its record there.
CreateNote(p) ==
    /\ creating = NoPath /\ disk[p] = 0
    /\ NewVersion(p, Persisted + 1)
    /\ late' = late \cup {Write(p, "create", Persisted + 1)}
    /\ creating' = p
    /\ UNCHANGED <<clock, pending, gitIndex, commits, work, mover, asked, kept, gitFailed, strays>>

\* editNote, appendNote, prependNote of a note: the record follows after the
\* audit entry.
EditNote(p) ==
    /\ disk[p] # 0 /\ creating # p
    /\ NewVersion(p, owner[disk[p]])
    /\ late' = late \cup {Write(p, "update", Persisted + 1)}
    /\ UNCHANGED <<clock, pending, gitIndex, commits, work, creating, mover, asked, kept, gitFailed, strays>>

\* appendNote to a missing path makes the note and records an update.
AppendNewNote(p) ==
    /\ disk[p] = 0 /\ creating # p
    /\ NewVersion(p, Persisted + 1)
    /\ late' = late \cup {Write(p, "update", Persisted + 1)}
    /\ UNCHANGED <<clock, pending, gitIndex, commits, work, creating, mover, asked, kept, gitFailed, strays>>

\* recordServiceHistoryFromAudit, with the time of its turn.
RecordServiceHistory(w) ==
    /\ w \in late
    /\ late' = late \ {w}
    /\ EnqueueHistoryMutation([Task("record") EXCEPT !.to = w.path, !.op = w.op,
           !.version = w.version, !.time = MaxTime + 1])
    /\ UNCHANGED <<disk, owner, clock, pending, gitIndex, commits, creating, mover, asked, kept, gitFailed, strays>>

\* A browser's edit is persisted: the event carries its content and time, and
\* its record is enqueued at once.
PersistSession(p) ==
    /\ disk[p] # 0 /\ creating # p
    /\ NewVersion(p, owner[disk[p]])
    /\ EnqueueHistoryMutation([Task("record") EXCEPT !.to = p,
           !.version = Persisted + 1, !.time = clock])
    /\ UNCHANGED <<clock, pending, gitIndex, commits, late, creating, mover, asked, kept, gitFailed, strays>>

Ask == asked < MaxMutations /\ asked' = asked + 1

DeleteNote(p) ==
    /\ Ask /\ disk[p] # 0 /\ creating = NoPath
    /\ disk' = [disk EXCEPT ![p] = 0]
    /\ UNCHANGED <<owner, clock, pending, gitIndex, commits, work, late, creating, mover, kept, gitFailed, strays>>

\* flushDirtySessions and createNoteHistoryBoundary end in a flush.
FlushHistory(paths) ==
    /\ Ask
    /\ EnqueueHistoryMutation([Task("flush") EXCEPT !.paths = paths])
    /\ UNCHANGED <<disk, owner, clock, pending, gitIndex, commits, late, creating, mover, kept, gitFailed, strays>>

\* moveNote and moveFolder flush first, outside the structure mutation.
BeginMove(kind, from, to) ==
    /\ mover.phase = "idle" /\ Ask
    /\ mover' = [phase |-> "flushing", kind |-> kind, from |-> from, to |-> to]
    /\ EnqueueHistoryMutation([Task("flush") EXCEPT
           !.paths = IF kind = "note" THEN {from} ELSE NotePaths])
    /\ UNCHANGED <<disk, owner, clock, pending, gitIndex, commits, late, creating, kept, gitFailed, strays>>

\* A record of the path is pending, queued or on its way.
OnItsWay(p) ==
    \/ \E k \in DOMAIN pending : pending[k].path = p
    \/ \E k \in DOMAIN work : work[k].kind = "record" /\ work[k].to = p
    \/ \E w \in late : w.path = p
LeftBehind(S) == strays' = strays \cup {owner[disk[p]] : p \in {q \in S : disk[q] # 0 /\ OnItsWay(q)}}

\* moveSession renames on disk, then the history of the note is carried.
MoveNote ==
    /\ mover.phase = "flushed" /\ mover.kind = "note" /\ creating = NoPath
    /\ mover' = NoMove
    /\ IF disk[mover.from] = 0 \/ disk[mover.to] # 0
       THEN UNCHANGED <<disk, work, strays>>
       ELSE /\ LeftBehind({mover.from})
            /\ disk' = [disk EXCEPT ![mover.to] = disk[mover.from], ![mover.from] = 0]
            /\ EnqueueHistoryMutation([Task("carryNote") EXCEPT !.from = mover.from, !.to = mover.to])
    /\ UNCHANGED <<owner, clock, pending, gitIndex, commits, late, creating, asked, kept, gitFailed>>

MoveFolder ==
    LET from == {p \in NotePaths : Under(mover.from, p)}
        to   == {p \in NotePaths : Under(mover.to, p)}
    IN  /\ mover.phase = "flushed" /\ mover.kind = "folder" /\ creating = NoPath
        /\ mover' = NoMove
        /\ IF (\A p \in from : disk[p] = 0) \/ (\E p \in to : disk[p] # 0)
           THEN UNCHANGED <<disk, work, strays>>
           ELSE /\ LeftBehind(from)
                /\ disk' = [p \in NotePaths |->
                              IF p \in from THEN 0
                              ELSE IF p \in to /\ Unmoved(mover.from, mover.to, p) \in from
                              THEN disk[Unmoved(mover.from, mover.to, p)] ELSE disk[p]]
                /\ EnqueueHistoryMutation([Task("carryFolder") EXCEPT !.from = mover.from, !.to = mover.to])
        /\ UNCHANGED <<owner, clock, pending, gitIndex, commits, late, creating, asked, kept, gitFailed>>

\* Odd times, so that no instant is the very start of a bucket.
Tick ==
    /\ clock < MaxTime /\ clock' = clock + 2
    /\ UNCHANGED <<disk, owner, pending, gitIndex, commits, work, late, creating, mover, asked, kept, gitFailed, strays>>

-----------------------------------------------------------------------------
(* The queue.                                                              *)

Job == Head(work)
Done == work' = Tail(work)
Time == IF Job.time > MaxTime THEN clock ELSE Job.time

RunRecord ==
    /\ work # <<>> /\ Job.kind = "record"
    /\ RecordFileHistory(Job.to, Job.op, Job.version, Time, Window, NoPath)
    /\ Done
    /\ creating' = IF creating = Job.to /\ Job.op = "create" THEN NoPath ELSE creating
    /\ UNCHANGED <<disk, owner, clock, gitIndex, commits, late, mover, asked, gitFailed, strays>>

\* flushFileHistory chooses its entries; a mover that waits for it goes on
\* when none is left.
MoverAfterFlush ==
    IF mover.phase = "flushing" /\ Job.paths = (IF mover.kind = "note" THEN {mover.from} ELSE NotePaths)
    THEN [mover EXCEPT !.phase = "flushed"] ELSE mover

BeginFlush ==
    /\ work # <<>> /\ Job.kind = "flush" /\ ~Job.begun
    /\ LET selected == SelectPendingEntries(Job.paths)
       IN  IF selected = <<>>
           THEN Done /\ mover' = MoverAfterFlush
           ELSE /\ work' = [work EXCEPT ![1].selected = selected, ![1].begun = TRUE]
                /\ UNCHANGED mover
    /\ UNCHANGED <<disk, owner, clock, pending, gitIndex, commits, late, creating, asked, kept, gitFailed, strays>>

\* pending.delete of every bucket of the path.
DeletePath(e) == SelectSeq(pending, LAMBDA f : f.path # e.path)

\* pending.delete(key) of the entry just committed.
DeleteKey(e) == SelectSeq(pending, LAMBDA f : ~(f.path = e.path /\ f.bucket = e.bucket))

\* commitPendingEntry, then the key goes; a failure leaves the rest pending
\* and the index staged.
CommitPendingEntry ==
    /\ work # <<>> /\ Job.begun
    /\ LET e == Head(Job.selected)
           tree == StagePendingEntry(e)
       IN  /\ gitIndex' = tree
           /\ \/ /\ UNCHANGED gitFailed
                 /\ commits' = Append(commits, CommitOf(e.op, e.path, e.from, tree))
                 /\ pending' = DeleteKey(e)
                 /\ IF Len(Job.selected) = 1
                    THEN Done /\ mover' = MoverAfterFlush
                    ELSE work' = [work EXCEPT ![1].selected = Tail(@)] /\ UNCHANGED mover
              \/ /\ GitMayFail /\ gitFailed' = TRUE
                 /\ Done /\ mover' = MoverAfterFlush
                 /\ UNCHANGED <<commits, pending>>
    /\ UNCHANGED <<disk, owner, clock, late, creating, asked, kept, strays>>

\* moveFileHistory records the move, outside any bucket, and flushes the new path.
MoveFileHistory(from, to, version) ==
    /\ RecordFileHistory(to, IF from[1] = to[1] THEN "rename" ELSE "move", version, clock, 0, from)
    /\ work' = [work EXCEPT ![1] = [Task("flush") EXCEPT !.paths = {to}]]

\* carryHistoryAfterFileMove, unless the note is gone again.
CarryNote ==
    /\ work # <<>> /\ Job.kind = "carryNote"
    /\ IF disk[Job.to] = 0
       THEN Done /\ UNCHANGED <<pending, kept>>
       ELSE MoveFileHistory(Job.from, Job.to, disk[Job.to])
    /\ UNCHANGED <<disk, owner, clock, gitIndex, commits, late, creating, mover, asked, gitFailed, strays>>

\* moveFolderHistory: the old folder leaves the index, the new one enters it
\* as it is on disk; the commit may fail.
MoveFolderHistory(from, to) ==
    LET tree == [p \in NotePaths |->
                    IF Under(from, p) THEN [gitIndex[p] EXCEPT !.version = 0]
                    ELSE IF Under(to, p) THEN [gitIndex[p] EXCEPT !.version = disk[p]]
                    ELSE gitIndex[p]]
        changed == \E p \in NotePaths : (Under(from, p) \/ Under(to, p))
                                        /\ tree[p].version # HeadTree[p].version
    IN  /\ gitIndex' = tree
        /\ \/ /\ changed /\ UNCHANGED gitFailed
              /\ commits' = Append(commits, CommitOf("move", to, from, tree))
           \/ /\ ~changed /\ UNCHANGED <<commits, gitFailed>>
           \/ /\ changed /\ GitMayFail /\ gitFailed' = TRUE /\ UNCHANGED commits

\* carryHistoryAfterFolderMove.
CarryFolder ==
    /\ work # <<>> /\ Job.kind = "carryFolder"
    /\ MoveFolderHistory(Job.from, Job.to)
    /\ Done
    /\ UNCHANGED <<disk, owner, clock, pending, late, creating, mover, asked, kept, strays>>

Folders == {<<p[1]>> : p \in NotePaths}

HistoryNext ==
    \/ \E p \in NotePaths :
          CreateNote(p) \/ EditNote(p) \/ AppendNewNote(p) \/ PersistSession(p) \/ DeleteNote(p)
          \/ FlushHistory({p})
    \/ FlushHistory(NotePaths)
    \/ \E w \in late : RecordServiceHistory(w)
    \/ \E p, q \in NotePaths : p # q /\ BeginMove("note", p, q)
    \/ \E d, e \in Folders : d # e /\ BeginMove("folder", d, e)
    \/ MoveNote \/ MoveFolder \/ Tick
    \/ RunRecord \/ BeginFlush \/ CommitPendingEntry \/ CarryNote \/ CarryFolder

HistorySpec == HistoryInit /\ [][HistoryNext]_historyVars

-----------------------------------------------------------------------------
(* Properties.                                                             *)

CommittedVersions == UNION {{commits[k].tree[p].version : p \in NotePaths} : k \in DOMAIN commits}

\* A version that was recorded, and that no later content of its bucket
\* replaced, is pending or committed: a flush never forgets an entry that
\* changed under it, and a failed commit leaves its entry pending.
RecordedIsKept ==
    kept \subseteq CommittedVersions \cup {pending[k].version : k \in DOMAIN pending}

\* A note that createNote made and whose creation was committed.
CreationCommitted(note) == \E k \in DOMAIN commits :
    commits[k].op = "create" /\ owner[commits[k].tree[commits[k].path].version] = note

\* Once the creation of a note is committed, its committed history shows its
\* own versions only, through moves, deletes and new notes at its old paths
\* (as long as no commit failed: then it may be partial).
CommittedHistoryIsOwn ==
    work = <<>> /\ late = {} /\ ~gitFailed => \A p \in NotePaths :
        disk[p] # 0 /\ CreationCommitted(owner[disk[p]]) =>
            \A v \in Range(ReadCommittedHistory(p)) : v # 0 => owner[v] = owner[disk[p]]

\* The history of a note follows it: every version committed for it while it
\* was at the committed path is read back, wherever file and folder moves have
\* taken the note since (unless a content of it was recorded between the flush
\* a move begins with and the move).
HistoryFollowsMoves ==
    work = <<>> /\ late = {} /\ ~gitFailed => \A p \in NotePaths : \A k \in DOMAIN commits :
        LET v == commits[k].tree[commits[k].path].version
        IN  disk[p] # 0 /\ commits[k].live /\ owner[v] = owner[disk[p]] /\ owner[v] \notin strays
            => v \in ListFileHistory(p)

\* The history keeps what was recorded, follows a note through its moves and is
\* the note's own.
HistoryIsSound == RecordedIsKept /\ HistoryFollowsMoves /\ CommittedHistoryIsOwn
=============================================================================
