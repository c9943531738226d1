------------------------------ MODULE AppShell ------------------------------
(***************************************************************************)
(* The shell of the web application: its persisted preferences and         *)
(* favorites (apps/web/src/lib/app-state/store.ts, expansion.ts,           *)
(* favorites-data.ts), the dialogs and drops that change the vaults        *)
(* (apps/web/src/routes/+page.svelte, packages/ui tree-drag-drop.ts) and   *)
(* the first load.  The URL is the source of truth for the active vault    *)
(* and the open path.  A path is a sequence of letters and "/".  The vault *)
(* service is the one of VaultFiles and VaultRegistry; here it performs a  *)
(* call or fails it, and this page is its only client.                     *)
(***************************************************************************)
EXTENDS Naturals, Sequences, SequencesExt, FiniteSets

CONSTANTS ShellVaults,    \* the vaults the daemon may serve, in the order of its list
          ShellDisk,      \* the tree of every vault: path -> [kind, id]
          TypedNames,     \* what a user types into a name field
          MaxShellOps     \* bound on the user's actions

VARIABLES app,            \* the AppState of the page
          slot,           \* localStorage's item: <<>> or what a page wrote
          storageWorks,   \* setItem succeeds
          served,         \* the vaults the daemon serves, a sequence
          knownVaults,    \* the page's copy of that list
          shellDisk,      \* the tree of each vault
          url,            \* [vault, path]; NoActive at the root
          booted,         \* bootstrap has run
          dialog,         \* the operation in flight
          pinned,         \* history: the nodes starred, as <<vault, id>>
          switched,       \* history: a call's follow-up was lost to a switch of vault or a reload
          listFailed,     \* history: a fetch of the vault list failed
          goneVaults,     \* history: the vaults deleted
          shellOps

shellVars == <<app, slot, storageWorks, served, knownVaults, shellDisk, url, booted, dialog,
               pinned, switched, listFailed, goneVaults, shellOps>>
shellHistory == <<pinned, switched, listFailed, goneVaults>>

NoActive == "none"
NoDialog == [op |-> "none"]
Root == <<>>
Slash == <<"/">>

-----------------------------------------------------------------------------
(* Paths.                                                                  *)

SlashesOf(path) == {i \in DOMAIN path : path[i] = "/"}

ParentOf(path) ==
    IF SlashesOf(path) = {} THEN Root
    ELSE SubSeq(path, 1, (CHOOSE i \in SlashesOf(path) : \A j \in SlashesOf(path) : j <= i) - 1)

LeafName(path) ==
    IF ParentOf(path) = Root THEN path ELSE SubSeq(path, Len(ParentOf(path)) + 2, Len(path))

JoinPath(parent, name) == IF parent = Root THEN name ELSE parent \o Slash \o name

Inside(path, folder) == IsPrefix(folder \o Slash, path)

MovedDescendantPath(openPath, source, target) ==
    IF openPath = source THEN target
    ELSE IF ~Inside(openPath, source) THEN Root
    ELSE JoinPath(target, SubSeq(openPath, Len(source) + 2, Len(openPath)))

(* ancestorKeysForPath: the folders above a path.                          *)
AncestorKeysForPath(path, vault) ==
    {<<vault, SubSeq(path, 1, i - 1)>> : i \in SlashesOf(path)}

CollectFolderPaths(tree) == {p \in DOMAIN tree : tree[p].kind = "folder"}

-----------------------------------------------------------------------------
(* The store.  Each operator is the state after the method of its name.    *)

RailWidthMin == 240
RailWidthMax == 564
RailWidthDefault == 282

ClampSecondaryRailWidth(width) ==
    IF width < RailWidthMin THEN RailWidthMin
    ELSE IF width > RailWidthMax THEN RailWidthMax ELSE width

DefaultState ==
    [colorMode |-> "system", expanded |-> {}, collapsed |-> {}, hidden |-> {},
     width |-> RailWidthDefault, rail |-> TRUE, favorites |-> <<>>, last |-> NoActive]

FavoriteKey(e) == <<e.kind, e.vault, e.path>>

NextColorMode(mode) ==
    CASE mode = "light" -> "dark" [] mode = "dark" -> "system" [] OTHER -> "light"

CycleColorMode(s) == [s EXCEPT !.colorMode = NextColorMode(@)]

ToggleIn(set, x) == IF x \in set THEN set \ {x} ELSE set \cup {x}

ToggleFolderExpanded(s, key) == [s EXCEPT !.expanded = ToggleIn(@, key)]
ExpandFolders(s, keys) == [s EXCEPT !.expanded = @ \cup keys]
SetVaultCollapsed(s, vault, collapsed) ==
    [s EXCEPT !.collapsed = IF collapsed THEN @ \cup {vault} ELSE @ \ {vault}]
ToggleVaultHidden(s, vault) == [s EXCEPT !.hidden = ToggleIn(@, vault)]
SetSecondaryRailWidth(s, width) == [s EXCEPT !.width = ClampSecondaryRailWidth(width)]
ToggleRailCollapsed(s) == [s EXCEPT !.rail = ~@]
SetLastOpenedVaultId(s, vault) == [s EXCEPT !.last = vault]

ToggleFavorite(s, entry) ==
    LET i == SelectInSeq(s.favorites, LAMBDA e : FavoriteKey(e) = FavoriteKey(entry))
    IN  [s EXCEPT !.favorites = IF i > 0 THEN RemoveAt(@, i) ELSE Append(@, entry)]

FavoritesOnNoteDeleted(s, vault, path) ==
    [s EXCEPT !.favorites =
        SelectSeq(@, LAMBDA e : ~(e.kind = "note" /\ e.vault = vault /\ e.path = path))]

RewriteFavorites(s, Moved(_)) ==
    [s EXCEPT !.favorites = [i \in DOMAIN @ |-> [@[i] EXCEPT !.path = Moved(s.favorites[i])]]]

FavoritesOnNoteRenamed(s, vault, old, new) ==
    RewriteFavorites(s, LAMBDA e : IF e.kind = "note" /\ e.vault = vault /\ e.path = old
                                   THEN new ELSE e.path)

FavoritesOnFolderDeleted(s, vault, path) ==
    [s EXCEPT !.favorites =
        SelectSeq(@, LAMBDA e : \/ e.vault # vault
                                \/ /\ ~(e.path = path /\ e.kind = "folder")
                                   /\ ~Inside(e.path, path))]

(* The rewrite with the folder's path as the prefix, without its slash.    *)
RenamesEveryPrefix(s, vault, old, new) ==
    RewriteFavorites(s, LAMBDA e :
        IF e.vault # vault \/ ~IsPrefix(old, e.path) THEN e.path
        ELSE new \o SubSeq(e.path, Len(old) + 1, Len(e.path)))

FavoritesOnFolderRenamed(s, vault, old, new) ==
    RewriteFavorites(s, LAMBDA e :
        IF e.vault # vault THEN e.path
        ELSE IF e.kind = "folder" /\ e.path = old THEN new
        ELSE IF Inside(e.path, old) THEN new \o SubSeq(e.path, Len(old) + 1, Len(e.path))
        ELSE e.path)

(* buildStarredViewData: the rows of a vault's starred panel, the latest   *)
(* star first; a row is a link when its target is in the tree, or when the *)
(* tree is still empty.                                                    *)
BuildStarredViewData(s, vault, tree) ==
    LET mine == Reverse(SelectSeq(s.favorites, LAMBDA e : e.vault = vault))
        There(e) == e.path \in DOMAIN tree /\ tree[e.path].kind = e.kind
    IN  [i \in DOMAIN mine |->
            [kind |-> mine[i].kind, path |-> mine[i].path,
             available |-> DOMAIN tree = {} \/ There(mine[i])]]

-----------------------------------------------------------------------------
(* Persistence.  The blob is a function from the slices it holds to <<v>>, *)
(* or to <<>> where the value has the wrong type.                          *)

ForgetsHidden(s) == [f \in DOMAIN s \ {"hidden"} |-> <<s[f]>>]

Persist(s) == [f \in DOMAIN s |-> <<s[f]>>]

FavoriteArray(raw) == SelectSeq(raw, LAMBDA e : e.kind \in {"note", "folder"})

ReadPersisted(blob) ==
    [f \in DOMAIN DefaultState |->
        IF f \notin DOMAIN blob \/ blob[f] = <<>> THEN DefaultState[f]
        ELSE CASE f = "width" -> ClampSecondaryRailWidth(blob[f][1])
               [] f = "favorites" -> FavoriteArray(blob[f][1])
               [] OTHER -> blob[f][1]]

CreateAppState == ReadPersisted(slot)

Commit(next) ==
    /\ app' = next
    /\ slot' = IF storageWorks /\ next # app THEN Persist(next) ELSE slot

-----------------------------------------------------------------------------
(* Navigation and what the page does on arrival: it remembers the vault,   *)
(* opens its group and unfurls the folders above the path.                 *)

Arrived(s, vault, path) ==
    IF vault = NoActive THEN s
    ELSE ExpandFolders(SetVaultCollapsed(SetLastOpenedVaultId(s, vault), vault, FALSE),
                       AncestorKeysForPath(path, vault))

GotoAfter(next, vault, path) ==
    /\ url' = [vault |-> vault, path |-> path]
    /\ Commit(Arrived(next, vault, path))

StayAfter(next) == /\ Commit(next) /\ UNCHANGED url

Acts == /\ booted /\ shellOps < MaxShellOps /\ shellOps' = shellOps + 1

(* A click on a file, a folder or a vault of the rail, or on a link.       *)
OpenFilePath(vault, path) ==
    /\ Acts
    /\ vault \in ToSet(knownVaults)
    /\ path \in DOMAIN shellDisk[vault] \cup {Root}
    /\ [vault |-> vault, path |-> path] # url
    /\ GotoAfter(app, vault, path)
    /\ switched' = (switched \/ (dialog.op # "none" /\ vault # url.vault))
    /\ UNCHANGED <<storageWorks, served, knownVaults, shellDisk, booted, dialog, pinned, listFailed,
                   goneVaults>>

PreferenceChanges ==
    {CycleColorMode(app), ToggleRailCollapsed(app), SetSecondaryRailWidth(app, 100),
     SetSecondaryRailWidth(app, 900)}
    \cup {ToggleVaultHidden(app, v) : v \in ToSet(knownVaults)}
    \cup {SetVaultCollapsed(app, v, v \notin app.collapsed) : v \in ToSet(knownVaults)}
    \cup UNION {{ToggleFolderExpanded(app, <<v, p>>) : p \in CollectFolderPaths(shellDisk[v])} :
                    v \in ToSet(knownVaults)}

ChangePreference ==
    /\ Acts
    /\ \E next \in PreferenceChanges : StayAfter(next)
    /\ UNCHANGED <<storageWorks, served, knownVaults, shellDisk, booted, dialog, shellHistory>>

(* The favorite entries of the menus and of the header: in the active      *)
(* vault, whatever group the row is in.  A dialog is modal; a star set on  *)
(* the moved row before a drop's answer is left out.                       *)
ToggleDocumentFavorite(path) ==
    /\ Acts /\ dialog = NoDialog
    /\ url.vault \in ToSet(served)
    /\ path \in DOMAIN shellDisk[url.vault]
    /\ LET node == shellDisk[url.vault][path]
       IN  /\ StayAfter(ToggleFavorite(app, [kind |-> node.kind, vault |-> url.vault, path |-> path]))
           /\ pinned' = ToggleIn(pinned, <<url.vault, node.id>>)
    /\ UNCHANGED <<storageWorks, served, knownVaults, shellDisk, booted, dialog, switched, listFailed,
                   goneVaults>>

-----------------------------------------------------------------------------
(* Operations.  A dialog or a drop sends its call; the daemon performs or  *)
(* fails it; the page goes on from what the answer and the URL then are.   *)

Operation(op, vault, path, to) ==
    [op |-> op, vault |-> vault, path |-> path, to |-> to, stage |-> "sent", follow |-> Root]

Send(operation) ==
    /\ Acts
    /\ dialog = NoDialog
    /\ dialog' = operation
    /\ UNCHANGED <<app, slot, storageWorks, served, knownVaults, shellDisk, url, booted, shellHistory>>

(* openFileDialog: delete, rename in place or move to a folder.            *)
OpenFileDialog ==
    \E path \in {p \in DOMAIN shellDisk[url.vault] : shellDisk[url.vault][p].kind = "note"} :
        \/ Send(Operation("deleteNote", url.vault, path, Root))
        \/ \E target \in {JoinPath(ParentOf(path), name) : name \in TypedNames}
                         \cup {JoinPath(folder, LeafName(path)) :
                                  folder \in CollectFolderPaths(shellDisk[url.vault]) \cup {Root}} :
               target # path /\ Send(Operation("moveNote", url.vault, path, target))

(* openFolderDialog: a folder moves neither into itself nor below itself.  *)
OpenFolderDialog ==
    \E path \in CollectFolderPaths(shellDisk[url.vault]) :
        \/ Send(Operation("deleteFolder", url.vault, path, Root))
        \/ \E target \in {JoinPath(ParentOf(path), name) : name \in TypedNames}
                         \cup {JoinPath(folder, LeafName(path)) :
                                  folder \in {f \in CollectFolderPaths(shellDisk[url.vault]) \cup {Root} :
                                                 f # path /\ ~Inside(f, path)}} :
               target # path /\ Send(Operation("moveFolder", url.vault, path, target))

OpenNewNoteDialog ==
    \E parent \in CollectFolderPaths(shellDisk[url.vault]) \cup {Root}, name \in TypedNames :
        Send(Operation("createNote", url.vault, parent, JoinPath(parent, name)))

OpenNewFolderDialog ==
    \E parent \in CollectFolderPaths(shellDisk[url.vault]) \cup {Root}, name \in TypedNames :
        Send(Operation("createFolder", url.vault, parent, JoinPath(parent, name)))

OpenVaultDialog ==
    \E vault \in ToSet(knownVaults) : Send(Operation("deleteVault", vault, Root, Root))

OpenNewVaultDialog ==
    \E vault \in ToSet(ShellVaults) : Send(Operation("createVault", vault, Root, Root))

(* resolveLocalTreeDrop and handleTreeMoveDrop: the view follows when it   *)
(* showed the node, or a node below it, when the drop was made.            *)
ResolveLocalTreeDrop(vault, source, folder) ==
    /\ shellDisk[vault][source].kind = "folder" => folder # source /\ ~Inside(folder, source)
    /\ ParentOf(source) # folder

HandleTreeMoveDrop(vault, source, target) ==
    LET note == shellDisk[vault][source].kind = "note"
        follow == IF vault # url.vault \/ (note /\ url.path # source) THEN Root
                  ELSE MovedDescendantPath(url.path, source, target)
    IN  Send([Operation(IF note THEN "dropNote" ELSE "dropFolder", vault, source, target)
                 EXCEPT !.follow = follow])

HandleTreeDropTargetDrop ==
    \E vault \in ToSet(knownVaults) \cap ToSet(served) :
        \E source \in DOMAIN shellDisk[vault], folder \in CollectFolderPaths(shellDisk[vault]) \cup {Root} :
            /\ ResolveLocalTreeDrop(vault, source, folder)
            /\ HandleTreeMoveDrop(vault, source, JoinPath(folder, LeafName(source)))

-----------------------------------------------------------------------------
(* The daemon.                                                             *)

Relocated(tree, source, target) ==
    LET To(p) == IF p = source THEN target
                 ELSE IF Inside(p, source) THEN target \o SubSeq(p, Len(source) + 1, Len(p)) ELSE p
    IN  [q \in {To(p) : p \in DOMAIN tree} |-> tree[CHOOSE p \in DOMAIN tree : To(p) = q]]

Without(tree, path) == [p \in {p \in DOMAIN tree : p # path /\ ~Inside(p, path)} |-> tree[p]]

With(tree, path, kind) == [p \in DOMAIN tree \cup {path} |->
                              IF p = path THEN [kind |-> kind, id |-> Append(path, "+")] ELSE tree[p]]

Serves(vault) == vault \in ToSet(served)

(* What a call the daemon performs does to the trees and the vault list.   *)
Performed ==
    LET v == dialog.vault IN
    \/ /\ dialog.op \in {"deleteNote", "deleteFolder"}
       /\ shellDisk' = [shellDisk EXCEPT ![v] = Without(@, dialog.path)]
       /\ pinned' = {p \in pinned : p[1] # v \/ \E q \in DOMAIN shellDisk'[v] : shellDisk'[v][q].id = p[2]}
       /\ UNCHANGED <<served, goneVaults>>
    \/ /\ dialog.op \in {"moveNote", "moveFolder", "dropNote", "dropFolder"}
       /\ dialog.to \notin DOMAIN shellDisk[v] /\ ~Inside(dialog.to, dialog.path)
       /\ shellDisk' = [shellDisk EXCEPT ![v] = Relocated(@, dialog.path, dialog.to)]
       /\ UNCHANGED <<served, pinned, goneVaults>>
    \/ /\ dialog.op \in {"createNote", "createFolder"}
       /\ dialog.to \notin DOMAIN shellDisk[v]
       /\ shellDisk' = [shellDisk EXCEPT ![v] =
                           With(@, dialog.to, IF dialog.op = "createNote" THEN "note" ELSE "folder")]
       /\ UNCHANGED <<served, pinned, goneVaults>>
    \/ /\ dialog.op = "deleteVault"
       /\ served' = SelectSeq(served, LAMBDA x : x # v)
       /\ goneVaults' = goneVaults \cup {v}
       /\ UNCHANGED <<shellDisk, pinned>>

(* createVault answers only for a slug that is free.                       *)
VaultCreated ==
    /\ dialog.op = "createVault" /\ ~Serves(dialog.vault)
    /\ served' = SelectSeq(ShellVaults, LAMBDA x : Serves(x) \/ x = dialog.vault)
    /\ shellDisk' = [shellDisk EXCEPT ![dialog.vault] = <<>>]
    /\ UNCHANGED <<pinned, goneVaults>>

DaemonAnswers ==
    /\ dialog # NoDialog /\ dialog.stage = "sent"
    /\ \/ /\ Serves(dialog.vault) /\ Performed /\ dialog' = [dialog EXCEPT !.stage = "done"]
       \/ VaultCreated /\ dialog' = [dialog EXCEPT !.stage = "done"]
       \/ /\ dialog' = [dialog EXCEPT !.stage = "failed"]
          /\ UNCHANGED <<served, shellDisk, pinned, goneVaults>>
    /\ UNCHANGED <<app, slot, storageWorks, knownVaults, url, booted, switched, listFailed, shellOps>>

-----------------------------------------------------------------------------
(* The page after an answer.                                               *)

(* runDialogOperation, handleTreeMoveDrop: a failure is shown, no more.    *)
OperationFailed ==
    /\ dialog # NoDialog /\ dialog.stage = "failed"
    /\ dialog' = NoDialog
    /\ UNCHANGED <<app, slot, storageWorks, served, knownVaults, shellDisk, url, booted, shellHistory,
                   shellOps>>

(* The favorites follow in the vault that is active now for a dialog, in   *)
(* the vault of the drop for a drop.                                       *)
AfterCall(s) ==
    CASE dialog.op = "deleteNote" -> FavoritesOnNoteDeleted(s, url.vault, dialog.path)
      [] dialog.op = "deleteFolder" -> FavoritesOnFolderDeleted(s, url.vault, dialog.path)
      [] dialog.op = "moveNote" -> FavoritesOnNoteRenamed(s, url.vault, dialog.path, dialog.to)
      [] dialog.op = "moveFolder" -> FavoritesOnFolderRenamed(s, url.vault, dialog.path, dialog.to)
      [] dialog.op = "dropNote" -> FavoritesOnNoteRenamed(s, dialog.vault, dialog.path, dialog.to)
      [] dialog.op = "dropFolder" -> FavoritesOnFolderRenamed(s, dialog.vault, dialog.path, dialog.to)
      [] dialog.op = "createNote" ->
            ExpandFolders(s, IF dialog.path = Root THEN {} ELSE {<<url.vault, dialog.path>>})
      [] dialog.op = "createFolder" ->
            ExpandFolders(s, {<<url.vault, dialog.to>>}
                             \cup (IF dialog.path = Root THEN {} ELSE {<<url.vault, dialog.path>>}))

(* What follows a file or folder operation: a drop takes the view along,   *)
(* a new note is opened in the active vault.                               *)
RunDialogOperation ==
    /\ dialog # NoDialog /\ dialog.stage = "done"
    /\ dialog.op \notin {"deleteVault", "createVault"}
    /\ IF dialog.follow # Root THEN GotoAfter(AfterCall(app), dialog.vault, dialog.follow)
       ELSE IF dialog.op = "createNote" THEN GotoAfter(AfterCall(app), url.vault, dialog.to)
       ELSE StayAfter(AfterCall(app))
    /\ dialog' = NoDialog
    /\ UNCHANGED <<storageWorks, served, knownVaults, shellDisk, booted, shellHistory, shellOps>>

(* refreshVaults: the list, or the copy of it when the fetch fails.        *)
RefreshVaults(list) ==
    \/ list = served /\ UNCHANGED listFailed
    \/ list = knownVaults /\ listFailed' = TRUE

(* afterSuccess deciding by the vault that was active at submit time.      *)
LeavesIfItWasActive ==
    /\ dialog # NoDialog /\ dialog.stage = "done" /\ dialog.op = "deleteVault"
    /\ RefreshVaults(knownVaults')
    /\ IF switched \/ dialog.vault # url.vault THEN StayAfter(app)
       ELSE IF knownVaults' # <<>> THEN GotoAfter(app, knownVaults'[1], Root)
       ELSE GotoAfter(SetLastOpenedVaultId(app, NoActive), NoActive, Root)
    /\ dialog' = NoDialog
    /\ UNCHANGED <<storageWorks, served, shellDisk, booted, pinned, switched, goneVaults, shellOps>>

(* After deleteVault the page leaves the vault it deleted, compared with   *)
(* the vault that is active when the list has come back.                   *)
AfterDeleteVault ==
    /\ dialog # NoDialog /\ dialog.stage = "done" /\ dialog.op = "deleteVault"
    /\ RefreshVaults(knownVaults')
    /\ IF dialog.vault # url.vault THEN StayAfter(app)
       ELSE IF knownVaults' # <<>> THEN GotoAfter(app, knownVaults'[1], Root)
       ELSE GotoAfter(SetLastOpenedVaultId(app, NoActive), NoActive, Root)
    /\ dialog' = NoDialog
    /\ UNCHANGED <<storageWorks, served, shellDisk, booted, pinned, switched, goneVaults, shellOps>>

AfterCreateVault ==
    /\ dialog # NoDialog /\ dialog.stage = "done" /\ dialog.op = "createVault"
    /\ RefreshVaults(knownVaults')
    /\ GotoAfter(app, dialog.vault, Root)
    /\ dialog' = NoDialog
    /\ UNCHANGED <<storageWorks, served, shellDisk, booted, pinned, switched, goneVaults, shellOps>>

-----------------------------------------------------------------------------
(* The first load.  A reload loses what is in flight, not what was sent.   *)

Reload ==
    /\ Acts
    /\ app' = CreateAppState
    /\ knownVaults' = <<>>
    /\ booted' = FALSE
    /\ dialog' = NoDialog
    /\ switched' = (switched \/ dialog # NoDialog)
    /\ UNCHANGED <<slot, storageWorks, served, shellDisk, url, pinned, listFailed, goneVaults>>

(* bootstrap: stay in a vault that exists, else reopen the last one that   *)
(* still does, else the first; the effects have remembered the URL's vault *)
(* by then.                                                                *)
Bootstrap ==
    /\ ~booted
    /\ booted' = TRUE
    /\ RefreshVaults(knownVaults')
    /\ LET arrived == Arrived(app, url.vault, url.path)
       IN  IF knownVaults' = <<>> THEN StayAfter(SetLastOpenedVaultId(arrived, NoActive))
           ELSE IF url.vault \in ToSet(knownVaults') THEN StayAfter(arrived)
           ELSE IF arrived.last \in ToSet(knownVaults') THEN GotoAfter(arrived, arrived.last, Root)
           ELSE GotoAfter(arrived, knownVaults'[1], Root)
    /\ UNCHANGED <<storageWorks, served, shellDisk, dialog, pinned, switched, goneVaults, shellOps>>

-----------------------------------------------------------------------------
(* What an older page may have left in the slot.                           *)
OlderSlots ==
    {<<>>,
     [f \in {"colorMode", "width", "favorites"} |->
        CASE f = "colorMode" -> <<>>
          [] f = "width" -> <<9>>
          [] f = "favorites" -> <<<<[kind |-> "none", vault |-> ShellVaults[1], path |-> <<"n">>]>>>>]}

ShellInit ==
    /\ slot \in OlderSlots
    /\ app = CreateAppState
    /\ storageWorks \in BOOLEAN
    /\ served = ShellVaults
    /\ knownVaults = <<>>
    /\ shellDisk = ShellDisk
    /\ url \in [vault : {NoActive, ShellVaults[1], "unknown"}, path : {Root}]
    /\ booted = FALSE
    /\ dialog = NoDialog
    /\ pinned = {} /\ switched = FALSE /\ listFailed = FALSE /\ goneVaults = {}
    /\ shellOps = 0

ShellNext ==
    \/ \E v \in ToSet(ShellVaults), p \in {Root} \cup UNION {DOMAIN shellDisk[v] : v \in ToSet(ShellVaults)} :
           OpenFilePath(v, p)
    \/ ChangePreference
    \/ \E p \in UNION {DOMAIN shellDisk[v] : v \in ToSet(ShellVaults)} : ToggleDocumentFavorite(p)
    \/ /\ Serves(url.vault)
       /\ \/ OpenFileDialog \/ OpenFolderDialog \/ OpenNewNoteDialog \/ OpenNewFolderDialog
    \/ OpenVaultDialog \/ OpenNewVaultDialog \/ HandleTreeDropTargetDrop
    \/ DaemonAnswers \/ OperationFailed \/ RunDialogOperation \/ AfterDeleteVault \/ AfterCreateVault
    \/ Reload \/ Bootstrap

ShellSpec == ShellInit /\ [][ShellNext]_shellVars

-----------------------------------------------------------------------------
(* The starred panel of a vault shows the nodes the user starred, once     *)
(* each, as links to the path each now has, through every deletion,        *)
(* rename, move and drop made in this page (unless the active vault        *)
(* changed or the page was reloaded while a call was out, or the storage   *)
(* is not writable).                                                       *)
FavoritesFollow ==
    (dialog = NoDialog /\ ~switched /\ storageWorks) =>
        \A v \in ToSet(served) \ goneVaults :
            LET rows == BuildStarredViewData(app, v, shellDisk[v])
                stars == {p \in pinned : p[1] = v}
            IN  /\ \A i \in DOMAIN rows : rows[i].available /\ DOMAIN shellDisk[v] # {}
                /\ {<<v, shellDisk[v][rows[i].path].id>> : i \in DOMAIN rows} = stars
                /\ Len(rows) = Cardinality(stars)

(* The page never rests in a vault it knows not to exist: after the first  *)
(* load, after a deletion and after any click that races it, the URL names *)
(* a vault of the list, if there is one (bootstrap, the follow-up of the   *)
(* delete dialog).                                                         *)
RestsInAVault ==
    (booted /\ dialog = NoDialog /\ knownVaults # <<>> /\ ~listFailed) => url.vault \in ToSet(knownVaults)

(* A reload finds the preferences, favorites and last vault as they are,   *)
(* whatever the slot held before (persist, readPersisted).                 *)
ReloadRestores == storageWorks => CreateAppState = app

(* The shell keeps what the user arranged: favorites, place and            *)
(* preferences survive renames, deletions, clicks that race them and       *)
(* reloads.                                                                *)
ShellIsSound == FavoritesFollow /\ RestsInAVault /\ ReloadRestores
=============================================================================
