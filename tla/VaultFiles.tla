----------------------------- MODULE VaultFiles -----------------------------
(***************************************************************************)
(* The files of one vault (packages/vault-core/src/vault-ops.ts, path.ts,  *)
(* audit.ts) as the vault service uses them: the folder tree, the trash,   *)
(* the folder colours of .kb1/folders.yml behind their mutation queue, and *)
(* the audit log.  Every await of an operation is an interleaving point.   *)
(*                                                                         *)
(* A path is a sequence of segments, a file's content is a number (the     *)
(* call that wrote it), a colour is a model value.  Note operations and    *)
(* folder moves and deletes run inside the session manager's structure     *)
(* mutations, one at a time (module SessionManager); raw writes, folder    *)
(* creation, colours and listings do not.                                  *)
(***************************************************************************)
EXTENDS Integers, Sequences, FiniteSets, SequencesExt, Functions

CONSTANTS Callers,      \* slots for concurrent calls of the service: numbers
          VaultPaths,   \* paths callers name
          Colors,       \* colours a folder can be given
          InitialTree,  \* the tree at the start: path -> node
          MaxCalls      \* bound: calls made in a behaviour

VARIABLES
    tree,           \* the vault root: path -> node
    folders,        \* .kb1/folders.yml: path -> colour
    malformed,      \* whether a user left folders.yml unreadable
    trash,          \* contents under .kb1/trash
    call,           \* per caller: the operation it runs and where it stands
    metadataQueue,  \* folderMetadataMutationQueues of this root; the head runs
    made,           \* calls made
    nextId,         \* content of the next file written
    lost,           \* history: note contents that went without being asked to
    faded           \* history: whether a write of folders.yml failed

fileVars == <<tree, folders, malformed, trash, call, metadataQueue, made, nextId, lost, faded>>

NoColor == "none"
InternalSegments == {".kb1", ".git"}
Folder(shade) == [kind |-> "folder", id |-> 0, shade |-> shade]
File(id) == [kind |-> "file", id |-> id, shade |-> NoColor]
Idle == [op |-> "idle", path |-> <<>>, to |-> <<>>, flag |-> FALSE, deep |-> FALSE,
         color |-> NoColor, at |-> "idle", map |-> <<>>, existed |-> FALSE]

FilesInit ==
    /\ tree = InitialTree
    /\ folders = [p \in {q \in DOMAIN InitialTree : InitialTree[q].shade # NoColor} |->
                     InitialTree[p].shade]
    /\ malformed \in BOOLEAN
    /\ trash = {}
    /\ call = [c \in Callers |-> Idle]
    /\ metadataQueue = <<>>
    /\ made = 0
    /\ nextId = 100  \* after the contents of InitialTree
    /\ lost = {}
    /\ faded = FALSE

-----------------------------------------------------------------------------
(* Paths.                                                                  *)

\* validateVaultPath: relative, no dot segments, nothing reserved for the vault.
ValidateVaultPath(p) ==
    /\ p # <<>>
    /\ \A k \in DOMAIN p : p[k] \notin {"", ".", ".."} \cup InternalSegments

IsInternalVaultPath(p) == \E k \in DOMAIN p : p[k] \in InternalSegments

\* relativeDescendantPath(parent, child) # null.
RelativeDescendantPath(parent, child) == IsPrefix(parent, child)

Parents(p) == {SubSeq(p, 1, k) : k \in 1 .. (Len(p) - 1)}
Subtree(t, p) == {q \in DOMAIN t : RelativeDescendantPath(p, q)}
Without(f, S) == Restrict(f, DOMAIN f \ S)
Exists(t, p) == p \in DOMAIN t
IsFolder(t, p) == Exists(t, p) /\ t[p].kind = "folder"
IsFile(t, p) == Exists(t, p) /\ t[p].kind = "file"
FilesIn(t, S) == {t[q].id : q \in {r \in S \cap DOMAIN t : t[r].kind = "file"}}

\* mkdir with recursive: a file in the way is ENOTDIR or EEXIST.
MkdirCollides(t, S) == \E p \in S : IsFile(t, p)
Mkdir(t, S) == [p \in DOMAIN t \cup S |-> IF Exists(t, p) THEN t[p] ELSE Folder(NoColor)]

\* The colours folders have or are given.
Shades == Colors \cup {NoColor} \cup {InitialTree[p].shade : p \in DOMAIN InitialTree}

ASSUME VaultFilesBounds ==
    /\ MaxCalls \in Nat /\ Callers \subseteq Nat
    /\ VaultPaths \subseteq Seq(STRING)

\* What a vault directory is: a path of the tree lies in folders of the tree, only
\* folders have colours, and the vault's own state is at the root of the vault.
ASSUME InitialTreeIsAVault ==
    /\ DOMAIN InitialTree \subseteq Seq(STRING) \ {<<>>}
    /\ InitialTree \in [DOMAIN InitialTree ->
                           [kind : {"file", "folder"}, id : Int, shade : Shades]]
    /\ \A p \in DOMAIN InitialTree :
         /\ \A q \in Parents(p) : IsFolder(InitialTree, q)
         /\ IsFile(InitialTree, p) => InitialTree[p].shade = NoColor
         /\ IsInternalVaultPath(p) => p[1] \in InternalSegments

-----------------------------------------------------------------------------
(* Folder metadata: the maps folders.yml goes through.                     *)

Recolor(map, p, color) ==
    IF color = NoColor
    THEN Without(map, {p})
    ELSE [q \in DOMAIN map \cup {p} |-> IF q = p THEN color ELSE map[q]]

RemoveFolderMetadataSubtree(map, p) == Without(map, Subtree(map, p))

\* The keys at or under from move with it; what was at or under to is dropped.
MoveFolderMetadataSubtree(map, from, to) ==
    LET moved(q) == to \o SubSeq(q, Len(from) + 1, Len(q))
        kept     == DOMAIN map \ (Subtree(map, from) \cup Subtree(map, to))
        keys     == {moved(q) : q \in Subtree(map, from)}
    IN  [q \in kept \cup keys |->
            IF q \in keys THEN map[CHOOSE r \in Subtree(map, from) : moved(r) = q] ELSE map[q]]

-----------------------------------------------------------------------------
(* Calls.  A structure operation waits for the one that runs.              *)

StructureOps == {"writeVaultFile", "deleteVaultFile", "deleteVaultFolder", "moveFile", "moveFolder"}
MetadataOps == {"setFolderMetadata", "deleteVaultFolder", "moveFolder"}

StructureFree == \A c \in Callers : call[c].op \notin StructureOps

Return(c) == call' = [call EXCEPT ![c] = Idle]
Continue(c, at) == call' = [call EXCEPT ![c].at = at]

\* The checks an operation makes before its first effect; a failed one ends it.
NormalizeFolderMetadataInput(color) == color \in Colors \cup {NoColor}

MaySetFolderMetadata(o) == NormalizeFolderMetadataInput(o.color) /\ IsFolder(tree, o.path)
MayWrite(o) == ~Exists(tree, o.path) \/ o.flag
MayWriteRaw(o) == ~Exists(tree, o.path) \/ o.flag
MayDeleteFile(o) == IsFile(tree, o.path)
MayDeleteFolder(o) == IsFolder(tree, o.path) /\ (o.deep \/ Subtree(tree, o.path) = {o.path})
MayMove(o) ==
    /\ ValidateVaultPath(o.to)
    /\ o.op = "moveFile" => IsFile(tree, o.path)
    /\ o.op = "moveFolder" => IsFolder(tree, o.path) /\ ~RelativeDescendantPath(o.path, o.to)

Passes(o) ==
    /\ ValidateVaultPath(o.path)
    /\ CASE o.op = "setFolderMetadata" -> MaySetFolderMetadata(o)
         [] o.op = "writeVaultFile" -> MayWrite(o)
         [] o.op = "writeVaultRawFile" -> MayWriteRaw(o)
         [] o.op = "makeVaultFolder" -> TRUE
         [] o.op = "deleteVaultFile" -> MayDeleteFile(o)
         [] o.op = "deleteVaultFolder" -> MayDeleteFolder(o)
         [] o.op \in {"moveFile", "moveFolder"} -> MayMove(o)

\* Calls are anonymous: a new one takes the first free slot.
FirstFree(c) == call[c].op = "idle" /\ \A d \in Callers : d < c => call[d].op # "idle"

\* The stats come before the queue: a set, delete or move of a folder that
\* passed them waits its turn.
Begin(c, o) ==
    /\ FirstFree(c) /\ made < MaxCalls /\ made' = made + 1
    /\ o.op \in StructureOps => StructureFree
    /\ Passes(o)
    /\ call' = [call EXCEPT ![c] = [o EXCEPT !.existed = Exists(tree, o.path),
                  !.at = IF o.op \in MetadataOps THEN "queued"
                         ELSE IF o.op = "moveFile" THEN "target" ELSE "effect"]]
    /\ metadataQueue' = IF o.op \in MetadataOps THEN Append(metadataQueue, c) ELSE metadataQueue
    /\ UNCHANGED <<tree, folders, trash, nextId, lost, faded, malformed>>

\* An operation that holds the queue lets the next one run.
Dequeue(c) ==
    metadataQueue' = IF metadataQueue # <<>> /\ Head(metadataQueue) = c
                     THEN Tail(metadataQueue) ELSE metadataQueue

\* An operation that fails part way releases its place in the queue.
Fail(c) ==
    /\ Return(c) /\ Dequeue(c)
    /\ UNCHANGED <<tree, folders, trash, made, nextId, lost, faded, malformed>>

\* The map read when the call began instead of at its turn.
ReadMapWithoutQueue(c) ==
    /\ call[c].at = "queued"
    /\ call' = [call EXCEPT ![c].map = folders,
                  ![c].at = IF call[c].op = "moveFolder" THEN "target" ELSE "effect"]
    /\ UNCHANGED <<tree, folders, malformed, trash, metadataQueue, made, nextId, lost, faded>>

\* readFolderMetadataMap at the head of the queue; a file it cannot parse ends
\* the operation before it changed anything.
ReadFolderMetadataMap(c) ==
    /\ call[c].at = "queued" /\ Head(metadataQueue) = c
    /\ IF malformed
       THEN Fail(c)
       ELSE /\ call' = [call EXCEPT ![c].map = folders,
                           ![c].at = IF call[c].op = "moveFolder" THEN "target" ELSE "effect"]
            /\ UNCHANGED <<tree, folders, malformed, trash, metadataQueue, made, nextId, lost, faded>>

\* What a note loses when the contents ids go: a raw write's content (a negative
\* number), or one a raw write replaces, is the caller's own race (see README).
Loses(ids) == lost' = lost \cup {i \in ids : i >= 0}

\* setFolderMetadata, makeVaultFolder, writeVaultFile, writeVaultRawFile,
\* deleteVaultFile, deleteVaultFolder: the change on disk.
Recolors(c) ==
    LET o == call[c]
    IN  /\ o.at = "effect" /\ o.op = "setFolderMetadata"
        /\ folders' = Recolor(o.map, o.path, o.color)
        /\ tree' = IF IsFolder(tree, o.path)
                   THEN [tree EXCEPT ![o.path].shade = o.color] ELSE tree
        /\ Continue(c, "audit")
        /\ UNCHANGED <<trash, metadataQueue, made, nextId, lost, faded, malformed>>

MakeVaultFolder(c) ==
    LET o == call[c]
    IN  /\ o.at = "effect" /\ o.op = "makeVaultFolder"
        /\ IF MkdirCollides(tree, Parents(o.path) \cup {o.path})
           THEN Fail(c)
           ELSE /\ tree' = Mkdir(tree, Parents(o.path) \cup {o.path})
                /\ IF o.existed THEN Return(c) ELSE Continue(c, "audit")
                /\ UNCHANGED <<folders, trash, metadataQueue, made, nextId, lost, faded, malformed>>

\* mkdir of the parents, then writeFile, which replaces a file that came
\* meanwhile and fails on a folder.
WriteVaultFile(c) ==
    LET o  == call[c]
        id == IF o.op = "writeVaultFile" THEN nextId ELSE -nextId
    IN  /\ o.at = "effect" /\ o.op \in {"writeVaultFile", "writeVaultRawFile"}
        /\ IF MkdirCollides(tree, Parents(o.path)) \/ IsFolder(tree, o.path)
           THEN Fail(c)
           ELSE /\ LET grown == Mkdir(tree, Parents(o.path))
                   IN  tree' = [q \in DOMAIN grown \cup {o.path} |->
                                   IF q = o.path THEN File(id) ELSE grown[q]]
                /\ IF o.flag \/ o.op = "writeVaultRawFile" THEN UNCHANGED lost
                   ELSE Loses(FilesIn(tree, {o.path}))
                /\ nextId' = nextId + 1
                /\ Continue(c, "audit")
                /\ UNCHANGED <<folders, trash, metadataQueue, made, faded, malformed>>

\* rm, or rename into a fresh batch of the trash.
DeleteVaultFile(c) ==
    LET o == call[c]
    IN  /\ o.at = "effect" /\ o.op = "deleteVaultFile"
        /\ tree' = Without(tree, {o.path})
        /\ trash' = IF o.flag THEN trash ELSE trash \cup FilesIn(tree, {o.path})
        /\ Continue(c, "audit")
        /\ UNCHANGED <<folders, metadataQueue, made, nextId, lost, faded, malformed>>

DeleteVaultFolder(c) ==
    LET o == call[c]
    IN  /\ o.at = "effect" /\ o.op = "deleteVaultFolder"
        /\ tree' = Without(tree, Subtree(tree, o.path))
        /\ trash' = IF o.flag THEN trash ELSE trash \cup FilesIn(tree, Subtree(tree, o.path))
        /\ IF o.flag /\ ~o.deep THEN Loses(FilesIn(tree, Subtree(tree, o.path))) ELSE UNCHANGED lost
        /\ Continue(c, "saveMap")
        /\ UNCHANGED <<folders, metadataQueue, made, nextId, faded, malformed>>



\* movePath: the target must be free, or overwrite was asked for.
CheckTarget(c) ==
    LET o == call[c]
    IN  /\ o.at = "target"
        /\ IF Exists(tree, o.to) /\ ~o.flag
           THEN Fail(c)
           ELSE /\ Continue(c, "effect")
                /\ UNCHANGED <<tree, folders, trash, metadataQueue, made, nextId, lost, faded, malformed>>

\* The parents of the target are made, an unwanted target removed, the path
\* renamed: a file replaces a file that came meanwhile, a folder replaces an
\* empty folder, anything else is an error.
Rename(c) ==
    LET o     == call[c]
        base  == IF o.flag THEN Without(tree, Subtree(tree, o.to)) ELSE tree
        grown == Mkdir(base, Parents(o.to))
        moved == {o.to \o SubSeq(q, Len(o.path) + 1, Len(q)) : q \in Subtree(tree, o.path)}
        after == Without(grown, Subtree(grown, o.path))
        blocked == \/ MkdirCollides(base, Parents(o.to))
                   \/ Exists(base, o.to) /\ base[o.to].kind # tree[o.path].kind
                   \/ IsFolder(base, o.to) /\ Subtree(base, o.to) # {o.to}
    IN  /\ o.at = "effect" /\ o.op \in {"moveFile", "moveFolder"}
        /\ IF blocked
           THEN Fail(c)
           ELSE /\ tree' = [q \in DOMAIN after \cup moved |->
                               IF q \in moved
                               THEN tree[o.path \o SubSeq(q, Len(o.to) + 1, Len(q))] ELSE after[q]]
                /\ IF o.flag THEN UNCHANGED lost ELSE Loses(FilesIn(tree, {o.to}))
                /\ Continue(c, IF o.op = "moveFolder" THEN "saveMap" ELSE "audit")
                /\ UNCHANGED <<folders, trash, metadataQueue, made, nextId, faded, malformed>>

\* writeFolderMetadataMap after the tree changed, from the map read before.
\* It may fail, and then the tree has changed and the map has not.
WriteFolderMetadataMap(c) ==
    LET o == call[c]
    IN  /\ o.at = "saveMap"
        /\ \/ /\ folders' = IF o.op = "moveFolder"
                            THEN MoveFolderMetadataSubtree(o.map, o.path, o.to)
                            ELSE RemoveFolderMetadataSubtree(o.map, o.path)
              /\ Continue(c, "audit")
              /\ UNCHANGED <<metadataQueue, faded, malformed>>
           \/ /\ Return(c) /\ Dequeue(c) /\ faded' = TRUE
              /\ UNCHANGED folders
        /\ UNCHANGED <<tree, trash, made, nextId, lost, malformed>>

\* emitVaultAudit, still at the head of the queue for a metadata operation.
EmitVaultAudit(c) ==
    /\ call[c].at = "audit"
    /\ Return(c) /\ Dequeue(c)
    /\ UNCHANGED <<tree, folders, trash, made, nextId, lost, faded, malformed>>

Request(op, p) == [Idle EXCEPT !.op = op, !.path = p]

ColorRequest(p, k) == [Request("setFolderMetadata", p) EXCEPT !.color = k]
FileRequest(op, p, f) == [Request(op, p) EXCEPT !.flag = f]
DeleteRequest(p, f, d) == [Request("deleteVaultFolder", p) EXCEPT !.flag = f, !.deep = d]
MoveRequest(op, p, q, f) == [Request(op, p) EXCEPT !.to = q, !.flag = f]

Moves == {MoveRequest(op, p, q, f) :
              op \in {"moveFile", "moveFolder"}, p \in VaultPaths, q \in VaultPaths, f \in BOOLEAN}

\* No caller overwrites with a move.  The others are modelled but for a target
\* that holds the source, which rm removes before the rename (see README).
Requests ==
    {ColorRequest(p, k) : p \in VaultPaths, k \in Colors \cup {NoColor, "bad"}}
    \cup {FileRequest(op, p, f) : op \in {"writeVaultFile", "writeVaultRawFile", "deleteVaultFile"},
                                  p \in VaultPaths, f \in BOOLEAN}
    \cup {Request("makeVaultFolder", p) : p \in VaultPaths}
    \cup {DeleteRequest(p, f, d) : p \in VaultPaths, f \in BOOLEAN, d \in BOOLEAN}
    \cup {o \in Moves : o.flag => ~RelativeDescendantPath(o.to, o.path)}

CallSteps(c) ==
    \/ ReadFolderMetadataMap(c) \/ Recolors(c) \/ MakeVaultFolder(c) \/ WriteVaultFile(c)
    \/ DeleteVaultFile(c) \/ DeleteVaultFolder(c) \/ CheckTarget(c) \/ Rename(c)
    \/ WriteFolderMetadataMap(c) \/ EmitVaultAudit(c)

FilesNext ==
    \E c \in Callers : CallSteps(c) \/ \E o \in Requests : Begin(c, o)

FilesSpec == FilesInit /\ [][FilesNext]_fileVars

-----------------------------------------------------------------------------
(* Properties.                                                             *)

\* Every content a note was given stays in the tree or in the trash, whatever
\* creations, moves, folder moves and deletes run beside each other, unless a
\* caller asked to overwrite or to delete for good.
NotesAreKept == lost = {}

\* A folder that exists keeps the colour it was given, through its own moves
\* and those of its parents and with other colours being set meanwhile:
\* folders.yml loses no update (unless one of its writes failed).
ColorIsKept ==
    faded \/ (metadataQueue = <<>> =>
        \A p \in DOMAIN tree : tree[p].shade # NoColor =>
            p \in DOMAIN folders /\ folders[p] = tree[p].shade)

\* The vault's own state under .kb1 is out of reach of every operation.
InternalStateStays == \A p \in DOMAIN InitialTree :
    IsInternalVaultPath(p) => Exists(tree, p) /\ tree[p] = InitialTree[p]

\* The queue of folders.yml never waits for an operation that ended: whoever
\* holds a place still runs, also after an operation before it failed.
QueueMoves == \A k \in DOMAIN metadataQueue :
    LET o == call[metadataQueue[k]]
    IN  o.op \in MetadataOps /\ (k > 1 => o.at = "queued")

\* Operations that overlap on one tree and one folders.yml keep the notes, the
\* colours and the vault's own state, and never block each other.
FilesAreSound == NotesAreKept /\ ColorIsKept /\ InternalStateStays /\ QueueMoves
=============================================================================
