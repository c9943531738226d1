------------------------------- MODULE MCWeb --------------------------------
(* Small instances of the browser: the shell around the notes, the page of a  *)
(* note, its editor and the live preview.  They share no state, so a          *)
(* behaviour belongs to one of them, its scope, and the others stay in one    *)
(* initial state.  The page and the editor are split further: typing goes on  *)
(* in every scope of the editor, with one of its features.                    *)
EXTENDS AppShell, DocumentPage, EditorText, LivePreview, TLC

VARIABLE scope

SomeShellVaults == <<"v", "w">>
ShellNote(path) == path :> [kind |-> "note", id |-> path]
ShellFolder(path) == path :> [kind |-> "folder", id |-> path]
SomeShellDisk ==
    [v \in {"v", "w"} |-> IF v = "w" THEN ShellNote(<<"n">>)
                          ELSE ShellFolder(<<"a">>) @@ ShellNote(<<"a", "/", "n">>) @@ ShellNote(<<"a", "b">>)]
SomeTyped == {<<"c">>}

OneUser(p) == "u"
SomePeople == <<"a", "b">>
SomeNoteTexts == {<<"-", "b">>, <<"@">>, <<"[", "a", ")">>}
CrlfNoteTexts == {<<"b", CR, NL, "b">>}
SomeInsertions == {<<"a">>}

Line(block, inline, arg) == [id |-> 0, block |-> block, inline |-> inline, arg |-> arg, num |-> 3]
Numbered(lines) == [i \in DOMAIN lines |-> [lines[i] EXCEPT !.id = i]]
Fence == Line("fence", "none", <<>>)
SomeNotes ==
    {Numbered(<<Line("task", "footref", <<"open">>), Line("footdef", "strong", <<"f">>)>>),
     Numbered(<<Line("heading", "link", <<>>), Line("quote", "mention", <<"e">>)>>),
     Numbered(<<Fence, Fence, Fence>>),
     Numbered(<<Line("ordered", "wikilink", <<"a", "">>), Line("ordered", "aliased", <<"d", "a", "">>)>>),
     Numbered(<<Line("table", "none", <<>>), Line("footdef", "mention", <<"e">>)>>),
     Numbered(<<Line("rule", "none", <<>>), Line("bullet", "url", <<>>)>>),
     Numbered(<<Line("para", "image", <<>>), Line("para", "escaped", <<"f">>)>>)}
SomeNewLines ==
    {Line("task", "none", <<"checked">>), Line("para", "footref", <<"f">>)}
SomePathLists == {<<<<"a", "md">>>>, <<<<"d", "A", "md">>, <<"e", "d", "a", "txt">>>>}
SomeDirectories == {{}, {<<"e">>}}

WebInit ==
    /\ scope \in {"shell", "page", "panel", "upload", "caret", "keys", "preview"}
    /\ ShellInit /\ (scope # "shell" => slot = <<>> /\ storageWorks /\ url.vault = NoActive)
    /\ PageInit /\ (scope \notin {"page", "panel"} => pageUrl = PageFolder)
    /\ EditorInit /\ (scope # "keys" => MentionLinks(doc) = {})
                  /\ (scope \notin {"caret", "keys"} => \A t \in NoteTexts : Len(YString(ytext)) <= Len(t))
    /\ PreviewInit /\ (scope # "preview" =>
           noteLines = Numbered(<<Fence, Fence, Fence>>) /\ tree.len = 0
           /\ host = [paths |-> <<<<"a", "md">>>>, people |-> {}, told |-> TRUE])

PanelStep ==
    \/ HistoryStep
    \/ \E path \in Paths : NavigatePage(path)
    \/ /\ panel.request <= 1     \* bound: the tree comes early
       /\ FetchVaultTree \/ \E listing \in treeOut : LoadVaultTree(listing)
    \/ ConnectionOpens(page.gen) \/ SyncedArrives(page.gen)

WebNext ==
    /\ UNCHANGED scope
    /\ \/ scope = "shell" /\ ShellNext /\ UNCHANGED <<pageVars, editorVars, previewVars>>
       \/ /\ \/ scope = "page" /\ DocumentStep /\ page'.gen < MaxProviders
             \/ scope = "panel" /\ PanelStep
          /\ UNCHANGED <<shellVars, editorVars, previewVars>>
       \/ /\ \/ scope \in {"upload", "caret", "keys"} /\ TextStep
             \/ scope = "upload" /\ UploadStep
             \/ scope = "caret" /\ CaretStep
             \/ scope = "keys" /\ (KeyStep \/ PopoverStep)
          /\ UNCHANGED <<shellVars, pageVars, previewVars>>
       \/ scope = "preview" /\ PreviewNext /\ UNCHANGED <<shellVars, pageVars, editorVars>>

WebSpec == WebInit /\ [][WebNext]_<<scope, shellVars, pageVars, editorVars, previewVars>>
=============================================================================
