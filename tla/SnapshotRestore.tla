--------------------------- MODULE SnapshotRestore --------------------------
(***************************************************************************)
(* What is in a snapshot and how it comes back                             *)
(* (apps/daemon/src/snapshot-paths.ts, snapshot-restore.ts and the path    *)
(* part of snapshot-archive.ts): names that some filesystem would refuse   *)
(* or confuse are replaced in the ZIP, the manifest keeps the originals,   *)
(* and a restore writes them into a home that did not exist.               *)
(*                                                                         *)
(* A name is a sequence of marks: <<"a">> and <<"A">> differ in case only, *)
(* <<"~", m...>> is the encoded form of the name <<m...>> (prefix and      *)
(* hash).  A path is a sequence of names.                                  *)
(***************************************************************************)
EXTENDS Naturals, Sequences, FiniteSets, SequencesExt, Functions, TLC

CONSTANTS Candidates,   \* paths of the files a vault home can have
          MaxFiles,     \* bound: files in it
          Restores      \* restores into one target home

ASSUME SnapshotRestoreBounds ==
    /\ MaxFiles \in Nat
    /\ Candidates \subseteq Seq(Seq(STRING) \ {<<>>})
    /\ "nobody" \notin Restores /\ "user" \notin Restores

VARIABLES
    archived,      \* paths of the files in the home that was archived
    damage,    \* what happened to the ZIP since
    windows,   \* whether the target's filesystem ignores case
    restore,   \* per restore: where it stands
    madeBy,     \* who made the target home: "nobody", "user" or a restore
    target     \* files of the target home: path -> content

restoreVars == <<archived, damage, windows, restore, madeBy, target>>

-----------------------------------------------------------------------------
(* Names and paths in the archive.                                         *)

Encode(name) == <<"~">> \o name
StartsWithPrefix(name) == name[1] = "~"

(* portableKey: the name without its case.                                 *)
Lower == [m \in {"A", "N"} |-> IF m = "A" THEN "a" ELSE "n"]
PortableKey(name) ==
    IF StartsWithPrefix(name) THEN name
    ELSE [i \in DOMAIN name |-> IF name[i] \in DOMAIN Lower THEN Lower[name[i]] ELSE name[i]]

(* Reserved names of Windows, characters it forbids, trailing dots.        *)
IsPortableSnapshotSegment(name) == name # <<"con">>

(* isPortableSnapshotPath: repositories and machine-local state stay out,  *)
(* and so does a case variant of the metadata folder.                      *)
IsPortableSnapshotPath(path) ==
    /\ <<".git">> \notin ToSet(path)
    /\ \A i \in DOMAIN path :
        /\ path[i] # <<".KB1">>
        /\ path[i] = <<".kb1">> /\ i < Len(path) => path[i + 1] # <<"cache">>

Archived == {p \in archived : IsPortableSnapshotPath(p)}
Siblings(parent) == {p[Len(parent) + 1] : p \in {q \in Archived : IsStrictPrefix(parent, q)}}

(* portableSnapshotPaths: a name is kept unless it is not portable, shares *)
(* its key with a sibling, or looks like a generated one.                  *)
KeepsPrefix(name, siblings) ==
    \/ ~IsPortableSnapshotSegment(name)
    \/ \E s \in siblings \ {name} : PortableKey(s) = PortableKey(name)

NeedsMapping(name, siblings) ==
    \/ ~IsPortableSnapshotSegment(name)
    \/ \E s \in siblings \ {name} : PortableKey(s) = PortableKey(name)
    \/ StartsWithPrefix(name)

PortablePath(path) ==
    [i \in DOMAIN path |->
        IF NeedsMapping(path[i], Siblings(SubSeq(path, 1, i - 1)))
        THEN Encode(path[i]) ELSE path[i]]

-----------------------------------------------------------------------------
(* The archive: the manifest lists portable path, original and hash of     *)
(* every file; the content of a file is its original path.  Damage is a    *)
(* cut-off end, a lost, an added or a changed entry.                       *)

Manifest == {[path |-> PortablePath(p), original |-> p, hash |-> p] : p \in Archived}
Complete == damage # "cut"
ExtraFiles == <<<<"vaults">>, <<"extra">>>>
Entries ==
    LET intact == [q \in {m.path : m \in Manifest} |->
                      (CHOOSE m \in Manifest : m.path = q).hash]
        one == CHOOSE q \in DOMAIN intact : TRUE
    IN  CASE damage = "lost" /\ Manifest # {} -> Restrict(intact, DOMAIN intact \ {one})
          [] damage = "added" -> intact @@ (ExtraFiles :> <<>>)
          [] damage = "changed" /\ Manifest # {} -> [intact EXCEPT ![one] = <<>>]
          [] OTHER -> intact

RestoreInit ==
    /\ archived \in {t \in SUBSET Candidates : Cardinality(t) <= MaxFiles}
    /\ damage \in {"none", "cut", "lost", "added", "changed"}
    /\ windows \in BOOLEAN
    /\ restore = [r \in Restores |-> [at |-> "open", todo |-> {}]]
    /\ madeBy \in {"nobody", "user"}
    /\ target = IF madeBy = "user" THEN <<<<"mine">>>> :> "mine" ELSE <<>>

-----------------------------------------------------------------------------
(* restoreSnapshotArchive.                                                 *)

RestoreGoes(r, at, todo) == restore' = [restore EXCEPT ![r] = [at |-> at, todo |-> todo]]

(* Only a restore that made the target home removes it when it fails.      *)
FailsAndRemoves(r) ==
    /\ RestoreGoes(r, "failed", {})
    /\ target' = <<>>
    /\ madeBy' = "nobody"

FailsInPlace(r) == RestoreGoes(r, "failed", {}) /\ UNCHANGED <<target, madeBy>>

RestoreFails(r) ==
    /\ RestoreGoes(r, "failed", {})
    /\ IF madeBy = r
       THEN target' = <<>> /\ madeBy' = "nobody"
       ELSE UNCHANGED <<target, madeBy>>

(* assertRestorePath: inside the two roots, and on Windows portable.       *)
AssertRestorePath(path) ==
    /\ path[1] \in {<<"vaults">>, <<".trash">>}
    /\ windows => \A i \in DOMAIN path : IsPortableSnapshotSegment(path[i])

(* Everything listed is there, nothing else is, and the end was written.   *)
ArchiveIsAsListed ==
    /\ Complete
    /\ \A m \in Manifest : m.path \in DOMAIN Entries /\ AssertRestorePath(m.original)
    /\ DOMAIN Entries = {m.path : m \in Manifest}

OpenArchive(r) ==
    /\ restore[r].at = "open"
    /\ IF ArchiveIsAsListed
       THEN RestoreGoes(r, "mkdir", {}) /\ UNCHANGED <<target, madeBy>>
       ELSE RestoreFails(r)
    /\ UNCHANGED <<archived, damage, windows>>

(* mkdir without recursive: an existing home is an error.                  *)
MakeTarget(r) ==
    /\ restore[r].at = "mkdir"
    /\ IF madeBy = "nobody"
       THEN RestoreGoes(r, "dirs", {}) /\ madeBy' = r /\ UNCHANGED target
       ELSE RestoreFails(r)
    /\ UNCHANGED <<archived, damage, windows>>

(* Each directory is made once: on a filesystem that ignores case two      *)
(* directories that differ in it are an error.                             *)
Alias(p, q) == windows /\ p # q /\ Len(p) = Len(q)
               /\ \A i \in DOMAIN p : PortableKey(p[i]) = PortableKey(q[i])
FoldersOf == UNION {{SubSeq(p, 1, i) : i \in 1..(Len(p) - 1)} : p \in Archived}

MakeDirectories(r) ==
    /\ restore[r].at = "dirs"
    /\ IF \E p, q \in FoldersOf : Alias(p, q)
       THEN RestoreFails(r)
       ELSE RestoreGoes(r, "files", Manifest) /\ UNCHANGED <<target, madeBy>>
    /\ UNCHANGED <<archived, damage, windows>>

(* Each file is written with wx and verified against its hash.             *)
Written(path, content) ==
    [p \in DOMAIN target \cup {path} |-> IF p = path THEN content ELSE target[p]]

WritesUnverified(r, m) ==
    /\ target' = Written(m.original, Entries[m.path])
    /\ RestoreGoes(r, "files", restore[r].todo \ {m})
    /\ UNCHANGED madeBy

WritesFile(r, m) ==
    IF (\E p \in DOMAIN target : Alias(p, m.original)) \/ Entries[m.path] # m.hash
    THEN RestoreFails(r)
    ELSE /\ target' = Written(m.original, Entries[m.path])
         /\ RestoreGoes(r, "files", restore[r].todo \ {m})
         /\ UNCHANGED madeBy

WriteFiles(r) ==
    /\ restore[r].at = "files"
    /\ \E m \in restore[r].todo : WritesFile(r, m)
    /\ UNCHANGED <<archived, damage, windows>>

RestoredTree(r) ==
    /\ restore[r].at = "files"
    /\ restore[r].todo = {}
    /\ RestoreGoes(r, "done", {})
    /\ UNCHANGED <<archived, damage, windows, madeBy, target>>

RestoreNext ==
    \E r \in Restores :
        OpenArchive(r) \/ MakeTarget(r) \/ MakeDirectories(r) \/ WriteFiles(r) \/ RestoredTree(r)

RestoreSpec == RestoreInit /\ [][RestoreNext]_restoreVars

-----------------------------------------------------------------------------
(* Properties.                                                             *)

(* Whoever unpacks the ZIP with a common tool on a filesystem that ignores *)
(* case gets every file: no two paths of the archive are the same there,   *)
(* every name is allowed, and no customer's name passes for a generated    *)
(* one.                                                                    *)
UnpacksEverywhere ==
    /\ \A p, q \in Archived : p # q =>
        [i \in DOMAIN p |-> PortableKey(PortablePath(p)[i])]
            # [i \in DOMAIN q |-> PortableKey(PortablePath(q)[i])]
    /\ \A p \in Archived : \A i \in DOMAIN p : IsPortableSnapshotSegment(PortablePath(p)[i])

(* A restore that reports success has brought back exactly the files of    *)
(* the home under their own names, whatever happened to the ZIP.           *)
RestoredIsTheTree ==
    \A r \in Restores : restore[r].at = "done" =>
        target = [p \in Archived |-> p]

(* "Existing homes are never merged or replaced", by a restore that fails  *)
(* or that races another one either: a home that exists is only ever       *)
(* changed or removed by the restore that made it.                         *)
ExistingHomeIsKept ==
    [][\A r \in Restores : restore'[r] # restore[r] /\ madeBy \notin {r, "nobody"} =>
          target' = target /\ madeBy' = madeBy]_restoreVars

(* A failed restore leaves nothing behind that a daemon could take for a   *)
(* home, and two restores into one target do not both succeed.             *)
FailureLeavesNothing ==
    /\ madeBy \in Restores => restore[madeBy].at # "failed"
    /\ Cardinality({r \in Restores : restore[r].at = "done"}) <= 1

(* A snapshot unpacks and restores to the home it was taken of, and a      *)
(* restore never damages a home it did not make.                           *)
RestoreIsSafe ==
    /\ [](UnpacksEverywhere /\ RestoredIsTheTree /\ FailureLeavesNothing)
    /\ ExistingHomeIsKept
=============================================================================
