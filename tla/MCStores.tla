------------------------------ MODULE MCStores ------------------------------
(* Small instances of the modules about what is stored: the files and       *)
(* folders of a vault, the history of its notes, the text algorithms, the   *)
(* daemon's boot with its migrations, the registry of vaults, the restore   *)
(* of a snapshot, the interfaces that name all this to the outside and the  *)
(* parser of the relay's frames.  They share no state, so a behaviour       *)
(* belongs to one of them, its scope, and the others stay in one initial    *)
(* state.                                                                   *)
EXTENDS VaultFiles, NoteHistory, VaultText, DaemonBoot, VaultRegistry,
        SnapshotRestore, Interfaces, RelayFrames, TLC

VARIABLE scope

SomeVaultPaths == {<<"a">>, <<"b">>, <<"a", "n">>, <<"b", "n">>, <<".kb1", "f">>}
SomeTree == (<<"a">> :> Folder("red")) @@ (<<"b">> :> Folder("none")) @@ (<<"a", "n">> :> File(1))
            @@ (<<".kb1">> :> Folder("none")) @@ (<<".kb1", "f">> :> File(2))
SomeNotePaths == {<<"d", "n">>, <<"e", "n">>}

VaultsFolder == <<"vaults">>
SomeCandidates ==
    {<<VaultsFolder, d, f>> : d \in {<<"a">>, <<"A">>}, f \in {<<"n">>, <<"N">>, <<"con">>}}
    \cup {<<VaultsFolder, <<"~", "A">>, <<"n">>>>, <<VaultsFolder, <<"a">>, <<"~", "con">>>>,
          <<VaultsFolder, <<"a">>, <<".git">>>>, <<VaultsFolder, <<".kb1">>, <<"cache">>>>,
          <<VaultsFolder, <<".kb1">>, <<"n">>>>}

Markdown == <<"n", ".", "md">>
SomeNoteNames ==
    {Markdown, <<"files", "/">> \o Markdown, <<"move", "/">> \o Markdown,
     <<"a", "/", "history", "/">> \o Markdown, <<"files", "/", "x", "%", ".", "png">>,
     <<"a", "#", " ", ".", "md">>, <<"b", ".", "md", "/", "c", ".", "png">>,
     <<"history", ".", "d", ".", "md">>}
SomeFolderNames ==
    {<<"move">>, <<"a", "/", "metadata">>, <<"metadata", "/", "move", "/", "b">>, <<"50", "%">>,
     <<"files">>}

SomeIntent == [op |-> "readNote", path |-> Markdown, to |-> Nowhere, flags |-> {}]
SomeFrame ==
    CHOOSE f \in [type : {"stream.close"}, version : FrameVersions, id : RawString, code : RawCode,
                  reason : RawString, extra : ExtraField] : TRUE

StoresInit ==
    /\ scope \in {"files", "history", "text", "boot", "registry", "restore",
                  "interfaces", "frames"}
    /\ scope # "files" => malformed = FALSE
    /\ FilesInit
    /\ HistoryInit
    /\ scope # "text" => question = CHOOSE q \in ArtifactCases : TRUE
    /\ TextInit
    /\ scope # "boot" => files = <<>>
    /\ BootInit
    /\ scope # "registry" => overlap = FALSE
    /\ RegistryInit
    /\ scope # "restore" => /\ archived = {} /\ damage = "none"
                            /\ windows = FALSE /\ madeBy = "nobody"
    /\ RestoreInit
    /\ scope # "interfaces" => /\ intent = SomeIntent /\ door = "web" /\ header = "none"
                               /\ body = "whole" /\ verdict = "ok"
    /\ InterfacesInit
    /\ scope # "frames" => rawFrame = SomeFrame
    /\ RelayFramesInit

vaultScopes == <<fileVars, historyVars, textVars>>
daemonScopes == <<bootVars, regVars, restoreVars, doorVars, frameVars>>

StoresNext ==
    /\ UNCHANGED scope
    /\ \/ /\ scope = "files" /\ FilesNext
          /\ UNCHANGED <<historyVars, textVars, daemonScopes>>
       \/ /\ scope = "history" /\ HistoryNext
          /\ UNCHANGED <<fileVars, textVars, daemonScopes>>
       \/ /\ scope = "text" /\ TextNext
          /\ UNCHANGED <<fileVars, historyVars, daemonScopes>>
       \/ /\ scope = "boot" /\ BootNext
          /\ UNCHANGED <<regVars, restoreVars, doorVars, frameVars, vaultScopes>>
       \/ /\ scope = "registry" /\ RegistryNext
          /\ UNCHANGED <<bootVars, restoreVars, doorVars, frameVars, vaultScopes>>
       \/ /\ scope = "restore" /\ RestoreNext
          /\ UNCHANGED <<bootVars, regVars, doorVars, frameVars, vaultScopes>>
       \/ /\ scope = "interfaces" /\ InterfacesNext
          /\ UNCHANGED <<bootVars, regVars, restoreVars, frameVars, vaultScopes>>
       \/ /\ scope = "frames" /\ RelayFramesNext
          /\ UNCHANGED <<bootVars, regVars, restoreVars, doorVars, vaultScopes>>

StoresSpec == StoresInit /\ [][StoresNext]_<<scope, vaultScopes, daemonScopes>>
=============================================================================
