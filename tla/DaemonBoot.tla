----------------------------- MODULE DaemonBoot -----------------------------
(***************************************************************************)
(* The boot of the daemon (apps/daemon/src/main.ts, migrations.ts and the  *)
(* boot part of vault-registry.ts): the move of an old home .kb2 to .kb1,  *)
(* of the single-vault layout to vaults/, of each vault's .kb2 metadata to *)
(* .kb1, the discovery of the vaults and their slugs, the starter vault    *)
(* and the initialised marker.  Directories are copied and removed file by *)
(* file; the process may crash after every step and is started again.      *)
(*                                                                         *)
(* A path is a sequence of segments.  A file holds its content or Part, a  *)
(* file that was opened and not completely written; a copy has the size of *)
(* its source exactly when it is complete.                                 *)
(***************************************************************************)
EXTENDS Naturals, Sequences, SequencesExt, Functions

CONSTANTS LegacyNotes,      \* names of the notes in a vault
          MaxBoots    \* bound: times the daemon is started

ASSUME DaemonBootBounds == MaxBoots \in Nat

VARIABLES
    files,           \* the disk: path -> content
    dirs,            \* directories made explicitly
    pc,              \* where the boot stands
    task,            \* the directory migration that runs
    toDiscover,         \* vault folders still to discover
    registry,        \* registered vaults: folder -> slug
    wasInitialized,  \* whether this home was served before
    boots,           \* times the daemon was started
    owned,           \* history: the files the user had at the start
    slugs,           \* history: the slug each vault folder was served under
    emptied          \* history: the user deleted every vault

diskVars == <<files, dirs>>
bootVars == <<files, dirs, pc, task, toDiscover, registry, wasInitialized, boots, owned, slugs, emptied>>

Part == "part"
NoSlug == "none"
OldHome == <<"kb2">>
Home == <<"kb1">>
VaultsHome == Home \o <<"vaults">>
TrashHome == Home \o <<".trash">>
InitializedMarker == VaultsHome \o <<".kb1-initialized">>
DefaultVault == "demo"
LegacyVaultDir == Home \o <<DefaultVault>>
VaultFolders == <<"demo", "work">>
IdentityFile == "vault.json"
Root(vault) == VaultsHome \o <<vault>>
IdentityDir(root) == root \o <<".kb1">>
LegacyIdentityDir(root) == root \o <<".kb2">>
IdentityPath(root) == IdentityDir(root) \o <<IdentityFile>>
NoTask == [source |-> <<>>, target |-> <<>>, file |-> <<>>, then |-> "none"]

FilesUnder(dir) == {p \in DOMAIN files : IsStrictPrefix(dir, p)}
IsDirectory(dir) == dir \in dirs \/ FilesUnder(dir) # {}
PathExists(path) == path \in DOMAIN files \/ IsDirectory(path)
CopyOf(p, source, target) == target \o SubSeq(p, Len(source) + 1, Len(p))
WithFile(p, content) == (p :> content) @@ files
WithoutFiles(set) == Restrict(files, DOMAIN files \ set)

(* A vault as a release left it: its notes, its metadata folder (.kb2 or   *)
(* .kb1) with the folder colours, and its identity once it has a slug.     *)
VaultOnDisk(root, metadata, slug) ==
    [p \in {root \o <<n>> : n \in LegacyNotes} |-> "text"]
        @@ (root \o <<metadata, "folders.yml">> :> "colors")
        @@ IF slug = NoSlug THEN <<>> ELSE root \o <<metadata, IdentityFile>> :> slug

(* Homes earlier releases left behind: none, one with the single-vault     *)
(* layout (which had no slugs), one with a vault whose folder does not     *)
(* carry the name of its slug, one where such a vault was copied by hand,  *)
(* one whose last vault was deleted.                                       *)
Leftovers(home) ==
    {<<>>,
     VaultOnDisk(home \o <<DefaultVault>>, ".kb2", NoSlug),
     VaultOnDisk(home \o <<"vaults", "work">>, ".kb2", "job"),
     VaultOnDisk(home \o <<"vaults", "work">>, ".kb1", "job"),
     VaultOnDisk(home \o <<"vaults", "work">>, ".kb1", "job")
         @@ VaultOnDisk(home \o <<"vaults", "demo">>, ".kb1", "job"),
     VaultOnDisk(home \o <<".trash", "work">>, ".kb1", "job")}

BootInit ==
    /\ \E home \in {OldHome, Home} : files \in Leftovers(home)
    /\ dirs = {}
    /\ pc = "down"
    /\ task = NoTask
    /\ toDiscover = <<>>
    /\ registry = <<>>
    /\ wasInitialized = FALSE
    /\ boots = 0
    /\ owned = UNION {{[vault |-> v, name |-> Last(p), content |-> files[p]] :
                         v \in ToSet(p) \cap ToSet(VaultFolders)} : p \in DOMAIN files}
    /\ slugs = [v \in ToSet(VaultFolders) |->
                  IF \E o \in owned : o.vault = v /\ o.name = IdentityFile THEN "job" ELSE NoSlug]
    /\ emptied = \E p \in DOMAIN files : ".trash" \in ToSet(p)

-----------------------------------------------------------------------------
(* Steps of the boot.                                                      *)

Goto(step) == pc' = step
Memory == <<registry, wasInitialized, toDiscover>>
History == <<owned, slugs, emptied>>
Throw == Goto("failed") /\ UNCHANGED <<files, dirs, task>>

VerifyNothing(source, target) == TRUE

(* verifyCopy: every file of the source has a copy of its size.            *)
VerifyCopy(source, target) ==
    \A p \in FilesUnder(source) :
        LET copy == CopyOf(p, source, target) IN
        copy \in DOMAIN files /\ files[copy] = files[p]

MigrateOnlyToNew(source, target, then) ==
    IF ~IsDirectory(source) \/ PathExists(target)
    THEN Goto(then) /\ UNCHANGED <<files, dirs, task>>
    ELSE /\ task' = [source |-> source, target |-> target, file |-> <<>>, then |-> then]
         /\ Goto("copy")
         /\ dirs' = dirs \cup {target}
         /\ UNCHANGED files

(* migrateDirectoryCopyVerifyCleanup: a target that exists is verified,    *)
(* never completed.                                                        *)
MigrateDirectory(source, target, then) ==
    IF ~IsDirectory(source)
    THEN Goto(then) /\ UNCHANGED <<files, dirs, task>>
    ELSE /\ task' = [source |-> source, target |-> target, file |-> <<>>, then |-> then]
         /\ IF PathExists(target)
            THEN Goto("verify") /\ UNCHANGED diskVars
            ELSE Goto("copy") /\ dirs' = dirs \cup {target} /\ UNCHANGED files

(* cp: the next file is opened, then written.                              *)
CopyOpens(source, target) ==
    \E p \in FilesUnder(source) :
        /\ CopyOf(p, source, target) \notin DOMAIN files
        /\ files' = WithFile(CopyOf(p, source, target), Part)
        /\ task' = [task EXCEPT !.file = p]

CopyWrites(source, target) ==
    /\ files' = WithFile(CopyOf(task.file, source, target), files[task.file])
    /\ task' = [task EXCEPT !.file = <<>>]

MissingFiles(source, target) ==
    {p \in FilesUnder(source) : CopyOf(p, source, target) \notin DOMAIN files}

Copy ==
    /\ pc = "copy"
    /\ IF task.file # <<>>
       THEN CopyWrites(task.source, task.target) /\ UNCHANGED pc
       ELSE IF MissingFiles(task.source, task.target) # {}
       THEN CopyOpens(task.source, task.target) /\ UNCHANGED pc
       ELSE Goto("verify") /\ UNCHANGED <<files, task>>
    /\ UNCHANGED <<dirs, Memory, boots, History>>

Verify ==
    /\ pc = "verify"
    /\ IF VerifyCopy(task.source, task.target)
       THEN Goto("remove") /\ UNCHANGED <<files, dirs, task>>
       ELSE Throw
    /\ UNCHANGED <<Memory, boots, History>>

(* rm with recursive: file after file, the directories when they are empty.*)
RemoveSource ==
    /\ pc = "remove"
    /\ IF FilesUnder(task.source) # {}
       THEN \E p \in FilesUnder(task.source) :
                files' = WithoutFiles({p}) /\ UNCHANGED <<dirs, task, pc>>
       ELSE /\ dirs' = {d \in dirs : ~IsPrefix(task.source, d)}
            /\ Goto(task.then)
            /\ task' = NoTask
            /\ UNCHANGED files
    /\ UNCHANGED <<Memory, boots, History>>

MigrateLegacyDaemonHome ==
    /\ pc = "home"
    /\ MigrateDirectory(OldHome, Home, "layout")
    /\ UNCHANGED <<Memory, boots, History>>

(* migrateLegacyVaultLayout: nothing to do once vaults/ exists; otherwise  *)
(* vaults/ is made first and the vault is copied into it.                  *)
MigrateLegacyVaultLayout ==
    /\ pc = "layout"
    /\ IF PathExists(VaultsHome) \/ ~IsDirectory(LegacyVaultDir)
       THEN Goto("scan") /\ UNCHANGED <<files, dirs, task>>
       ELSE /\ dirs' = dirs \cup {VaultsHome}
            /\ task' = [source |-> LegacyVaultDir, target |-> Root(DefaultVault),
                        file |-> <<>>, then |-> "scan"]
            /\ Goto("copyLayout")
            /\ UNCHANGED files
    /\ UNCHANGED <<Memory, boots, History>>

CopyLayout ==
    /\ pc = "copyLayout"
    /\ dirs' = dirs \cup {task.target}
    /\ Goto("copy")
    /\ UNCHANGED <<files, task, Memory, boots, History>>

OnlyByMarker == PathExists(InitializedMarker)

(* A home that was initialised before the marker existed shows it by its   *)
(* trash.                                                                  *)
WasInitialized == PathExists(InitializedMarker) \/ PathExists(TrashHome)

ScanVaults ==
    /\ pc = "scan"
    /\ dirs' = dirs \cup {VaultsHome}
    /\ wasInitialized' = WasInitialized
    /\ toDiscover' = SelectSeq(VaultFolders, LAMBDA v : IsDirectory(Root(v)))
    /\ registry' = <<>>
    /\ Goto("discover")
    /\ UNCHANGED <<files, task, boots, History>>

ReadIdentityFirst(root) == Goto("identity") /\ UNCHANGED <<files, dirs, task>>

(* migrateLegacyVaultMetadata: a vault that already has .kb1 is reconciled *)
(* with what is left of its .kb2.                                          *)
MigrateLegacyVaultMetadata(root) ==
    IF IsDirectory(LegacyIdentityDir(root)) /\ PathExists(IdentityDir(root))
    THEN /\ task' = [source |-> LegacyIdentityDir(root), target |-> IdentityDir(root),
                     file |-> <<>>, then |-> "identity"]
         /\ Goto("reconcile")
         /\ UNCHANGED diskVars
    ELSE MigrateDirectory(LegacyIdentityDir(root), IdentityDir(root), "identity")

DiscoverVault ==
    /\ pc = "discover"
    /\ IF toDiscover = <<>>
       THEN Goto("starter") /\ UNCHANGED <<files, dirs, task>>
       ELSE MigrateLegacyVaultMetadata(Root(Head(toDiscover)))
    /\ UNCHANGED <<Memory, boots, History>>

(* assertSameVaultIdentity parses both files, other files must agree in    *)
(* their size.                                                             *)
SameIdentity(p, copy) == files[p] # Part /\ files[copy] # Part /\ files[p] = files[copy]

Reconcilable(source, target) ==
    \A p \in FilesUnder(source) :
        LET copy == CopyOf(p, source, target) IN
        IF Last(p) = IdentityFile THEN SameIdentity(p, copy) ELSE files[p] = files[copy]

(* reconcileExistingVaultMetadataMigration copies what is missing, accepts *)
(* what agrees and gives up on the rest.                                   *)
Reconcile ==
    /\ pc = "reconcile"
    /\ IF task.file # <<>>
       THEN CopyWrites(task.source, task.target) /\ UNCHANGED <<pc, dirs>>
       ELSE IF MissingFiles(task.source, task.target) # {}
       THEN CopyOpens(task.source, task.target) /\ UNCHANGED <<pc, dirs>>
       ELSE IF Reconcilable(task.source, task.target)
       THEN Goto("remove") /\ UNCHANGED <<files, dirs, task>>
       ELSE Throw
    /\ UNCHANGED <<Memory, boots, History>>

(* discoverVaults: a slug that another folder has ends the boot.           *)
Register(vault, slug) ==
    IF slug \in Range(registry)
    THEN Goto("failed") /\ UNCHANGED <<registry, toDiscover, slugs>>
    ELSE /\ registry' = registry @@ (vault :> slug)
         /\ toDiscover' = IF toDiscover = <<>> THEN <<>> ELSE Tail(toDiscover)
         /\ slugs' = [slugs EXCEPT ![vault] = slug]
         /\ Goto(IF toDiscover = <<>> THEN "marker" ELSE "discover")

(* readOrMintVaultIdentity: read the slug, or write one from the name of   *)
(* the folder; a file that was cut short does not parse.                   *)
ReadOrMintVaultIdentity ==
    /\ pc = "identity"
    /\ LET file == IdentityPath(Root(Head(toDiscover))) IN
       IF file \notin DOMAIN files
       THEN /\ files' = WithFile(file, Part)
            /\ Goto("mint")
            /\ UNCHANGED <<registry, toDiscover, slugs>>
       ELSE /\ UNCHANGED files
            /\ IF files[file] = Part
               THEN Goto("failed") /\ UNCHANGED <<registry, toDiscover, slugs>>
               ELSE Register(Head(toDiscover), files[file])
    /\ UNCHANGED <<dirs, task, wasInitialized, boots, owned, emptied>>

WriteVaultIdentity ==
    /\ pc = "mint"
    /\ files' = WithFile(IdentityPath(Root(Head(toDiscover))), Head(toDiscover))
    /\ Register(Head(toDiscover), Head(toDiscover))
    /\ UNCHANGED <<dirs, task, wasInitialized, boots, owned, emptied>>

(* The starter vault of a first boot: registry.create makes the folder,    *)
(* writes the identity and seeds the kit.                                  *)
Starter ==
    /\ pc = "starter"
    /\ IF registry = <<>> /\ ~wasInitialized
       THEN dirs' = dirs \cup {Root(DefaultVault)} /\ Goto("create")
       ELSE UNCHANGED dirs /\ Goto("marker")
    /\ UNCHANGED <<files, task, Memory, boots, History>>

CreateStarter ==
    /\ pc = "create"
    /\ LET identity == IdentityPath(Root(DefaultVault)) IN
       IF identity \notin DOMAIN files
       THEN files' = WithFile(identity, Part) /\ UNCHANGED <<pc, registry, toDiscover, slugs>>
       ELSE IF files[identity] = Part
       THEN files' = WithFile(identity, DefaultVault) /\ UNCHANGED <<pc, registry, toDiscover, slugs>>
       ELSE /\ files' = WithFile(Root(DefaultVault) \o <<"welcome">>, "kit")
            /\ Register(DefaultVault, DefaultVault)
    /\ UNCHANGED <<dirs, task, wasInitialized, boots, owned, emptied>>

WriteMarker ==
    /\ pc = "marker"
    /\ files' = WithFile(InitializedMarker, "1")
    /\ Goto("serving")
    /\ UNCHANGED <<dirs, task, Memory, boots, History>>

-----------------------------------------------------------------------------
(* What happens to the process.                                            *)

StartDaemon ==
    /\ pc \in {"down", "failed"}
    /\ boots < MaxBoots
    /\ boots' = boots + 1
    /\ Goto("home")
    /\ UNCHANGED <<files, dirs, task, Memory, History>>

DaemonCrash ==
    /\ pc \notin {"down", "failed"}
    /\ Goto("down")
    /\ task' = NoTask
    /\ toDiscover' = <<>>
    /\ registry' = <<>>
    /\ wasInitialized' = FALSE
    /\ UNCHANGED <<files, dirs, boots, History>>

(* softDelete of a vault while the daemon serves (module VaultRegistry).   *)
OldSoftDelete(vault) ==
    /\ pc = "serving"
    /\ vault \in DOMAIN registry
    /\ LET root == Root(vault)
           kept == WithoutFiles(FilesUnder(root))
           destination == TrashHome \o <<vault>> IN
       files' = kept @@ [p \in {CopyOf(q, root, destination) : q \in FilesUnder(root)} |->
                            files[CopyOf(p, destination, root)]]
    /\ dirs' = {d \in dirs : ~IsPrefix(Root(vault), d)} \cup {TrashHome}
    /\ registry' = Restrict(registry, DOMAIN registry \ {vault})
    /\ emptied' = (DOMAIN registry = {vault})
    /\ UNCHANGED <<pc, task, toDiscover, wasInitialized, boots, owned, slugs>>

BootNext ==
    \/ StartDaemon \/ MigrateLegacyDaemonHome \/ MigrateLegacyVaultLayout \/ CopyLayout
    \/ Copy \/ Verify \/ RemoveSource \/ ScanVaults \/ DiscoverVault \/ Reconcile
    \/ ReadOrMintVaultIdentity \/ WriteVaultIdentity \/ Starter \/ CreateStarter \/ WriteMarker
    \/ DaemonCrash
    \/ \E v \in ToSet(VaultFolders) : OldSoftDelete(v)

BootSpec == BootInit /\ [][BootNext]_bootVars

-----------------------------------------------------------------------------
(* Properties.                                                             *)

Whole(o, place) ==
    \E p \in FilesUnder(place) : /\ o.vault \in ToSet(p)
                                /\ Last(p) = o.name
                                /\ files[p] = o.content

(* Copy, verify, clean up: wherever the boot is interrupted, and however   *)
(* often, every file the user had is complete in one of its places.        *)
NothingIsLost == \A o \in owned : Whole(o, OldHome) \/ Whole(o, Home)

(* A daemon that serves has taken over the whole home of the release       *)
(* before: nothing the user had is still only in the old home.             *)
ServedHomeIsWhole == pc = "serving" => \A o \in owned : Whole(o, Home)

(* "A slug, once minted and persisted, is stable": a vault folder is       *)
(* served under the slug it was served under before, by this or an earlier *)
(* release, whatever interrupted the migration of its metadata.            *)
SlugIsStable ==
    [][\A v \in DOMAIN slugs : slugs[v] # NoSlug => slugs'[v] = slugs[v]]_bootVars

(* "After first boot, zero vaults is a valid state": a user who deleted    *)
(* every vault does not find the starter vault at the next boot, in a home *)
(* older than the marker too.                                              *)
EmptyHomeStaysEmpty == emptied /\ pc = "serving" => registry = <<>>

(* A boot may be interrupted at any step and repeated: it loses nothing,   *)
(* serves the whole home, keeps the slugs and does not bring back a vault  *)
(* the user deleted.                                                       *)
BootIsSafe ==
    /\ [](NothingIsLost /\ ServedHomeIsWhole /\ EmptyHomeStaysEmpty)
    /\ SlugIsStable
=============================================================================
