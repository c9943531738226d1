---------------------------- MODULE DocumentPage ----------------------------
(***************************************************************************)
(* The open document of the web application                                *)
(* (apps/web/src/routes/+page.svelte with the provider of                  *)
(* lib/yjs/local-document-provider.ts and lib/note/note-snapshot.ts): the  *)
(* provider that the URL opens, replaces and tears down, the callbacks of  *)
(* a provider that is gone, the cached text shown until the note has       *)
(* synced, the status chip, the tree that decides what a path is, and the  *)
(* history panel with its requests.  Svelte's effects run before the next  *)
(* event, so each action ends with them.                                   *)
(***************************************************************************)
EXTENDS Naturals, Sequences, FiniteSets, FiniteSetsExt

CONSTANTS PageNotes,     \* the paths of notes
          PageFolder,    \* the path of a folder
          MaxProviders,  \* bound on providers opened
          MaxText,       \* bound on the versions of a text
          MaxLoadsOut,   \* bound on history requests of each kind
          MaxListings,   \* bound on listings on their way
          MaxByOthers    \* bound on changes by others

VARIABLES pageUrl,       \* documentPath
          page,          \* the page's $state about the document
          providers,     \* every provider made, by generation
          onDisk,        \* the notes that exist, with their text's version
          treeSeen,      \* vaultTrees[activeVaultId]: <<>> or the paths fetched
          treeOut,       \* listings on their way to the page
          byOthers,      \* counts the changes by others
          noteCache,     \* the query cache's snapshot of each note: [note, text]
          panel,         \* the history panel
          headOut,       \* head requests in flight
          olderOut,      \* older-page requests in flight
          crossed        \* a failed load, a stale timer or a late older page left a wrong list

pageVars == <<pageUrl, page, providers, onDisk, byOthers, treeSeen, treeOut, noteCache, panel, headOut,
              olderOut, crossed>>
historyPart == <<panel, headOut, olderOut, crossed>>

NoPath == "none"
NoSnapshot == [note |-> NoPath, text |-> 0]
Generations == 1..MaxProviders
Paths == PageNotes \cup {PageFolder}
Absent == 0

ASSUME PageConstants ==
    /\ MaxProviders \in Nat \ {0}
    /\ NoPath \notin Paths

-----------------------------------------------------------------------------
(* What a path is, by the tree the page holds.                             *)

(* findNode on the fetched tree.                                           *)
FindNode(tree, path) == \E i \in DOMAIN tree : path \in tree[i]
ViewingFolder(tree, path) == path = PageFolder /\ FindNode(tree, path)

-----------------------------------------------------------------------------
(* The provider's life.                                                    *)

NewProvider(path) ==
    [note |-> path, sock |-> "connecting", destroyed |-> FALSE, text |-> 0, pending |-> 0,
     late |-> FALSE]

(* destroy: the socket closes, the acknowledgements are forgotten; what it *)
(* still delivers comes back as callbacks.                                 *)
Destroy(all, g) ==
    IF g = 0 THEN all
    ELSE [all EXCEPT ![g].destroyed = TRUE, ![g].pending = 0, ![g].late = FALSE]

TeardownProvider(pg) ==
    [pg EXCEPT !.provider = 0, !.doc = NoSnapshot, !.synced = FALSE, !.status = "connecting",
               !.save = "saved", !.notFound = NoPath, !.deleted = FALSE]

MarkDocumentNotFound(pg, path) ==
    [TeardownProvider(pg) EXCEPT !.notFound = path, !.deleted = TRUE, !.failing = FALSE,
                                 !.changed = FALSE, !.merged = FALSE, !.status = "closed"]

MarkDocumentRetired(pg) ==
    [pg EXCEPT !.notFound = NoPath, !.deleted = TRUE, !.failing = FALSE, !.changed = FALSE,
               !.merged = FALSE, !.status = "closed"]

\* openProvider that leaves the flag of the provider before it.
OpenKeepsSynced(pg, path) ==
    [pg EXCEPT !.gen = @ + 1, !.provider = pg.gen + 1, !.status = "connecting", !.save = "saved",
               !.notFound = NoPath, !.deleted = FALSE]

OpenProvider(pg, path) ==
    [pg EXCEPT !.gen = @ + 1, !.provider = pg.gen + 1, !.synced = FALSE, !.status = "connecting",
               !.save = "saved", !.notFound = NoPath, !.deleted = FALSE]

-----------------------------------------------------------------------------
(* The effects that follow a change of the page's state.                   *)

(* The provider effect: a note opens a provider, a folder of the tree      *)
(* tears it down.                                                          *)
ProviderEffect(pg, tree, path) ==
    IF ViewingFolder(tree, path) THEN TeardownProvider(pg) ELSE OpenProvider(pg, path)

(* A provider opened before the tree said "folder".                        *)
StrayProviderEffect(pg, tree, path) ==
    IF ViewingFolder(tree, path) /\ pg.provider # 0
    THEN [pg EXCEPT !.provider = 0, !.doc = NoSnapshot, !.synced = FALSE] ELSE pg

(* The snapshot shown while the note is not synced is the cached one of    *)
(* this path.                                                              *)
HydrateEffect(pg, tree, path, cache) ==
    [pg EXCEPT !.doc =
        IF \/ pg.provider = 0 \/ pg.synced \/ pg.notFound = path \/ ViewingFolder(tree, path)
           \/ cache[path].note # path
        THEN NoSnapshot ELSE cache[path]]

(* The live text of a synced note goes to the cache, now and as it changes.*)
WriteSnapshotEffect(pg, all, path, cache) ==
    IF pg.provider # 0 /\ pg.synced
    THEN [cache EXCEPT ![path] = [note |-> path, text |-> all[pg.provider].text]]
    ELSE cache

(* The effects in the order of their declarations; the provider that the   *)
(* page lets go of is destroyed.                                           *)
Settles(pg, all, path, tree) ==
    LET kept == StrayProviderEffect(pg, tree, path)
        gone == IF page.provider # kept.provider THEN Destroy(all, page.provider) ELSE all
        cache == WriteSnapshotEffect(kept, gone, path, noteCache)
    IN  /\ page' = HydrateEffect(kept, tree, path, cache)
        /\ providers' = gone
        /\ noteCache' = cache

(* What is rendered.                                                       *)
SnapshotEditorReady ==
    /\ page.provider # 0 /\ ~page.synced /\ page.doc # NoSnapshot
    /\ ~ViewingFolder(treeSeen, pageUrl) /\ page.notFound # pageUrl

LiveEditorReady == page.provider # 0 /\ (page.synced \/ SnapshotEditorReady)

Editable ==
    /\ ~ViewingFolder(treeSeen, pageUrl) /\ page.notFound # pageUrl
    /\ LiveEditorReady
    /\ ~(page.deleted \/ ~page.synced \/ SnapshotEditorReady)

StatusLabel ==
    IF ViewingFolder(treeSeen, pageUrl) THEN "none"
    ELSE IF page.failing \/ page.save = "failed" THEN "Not saving"
    ELSE CASE page.status \in {"open", "syncing", "connecting"} -> "none"
           [] page.status = "error" -> "Connection error"
           [] OTHER -> "Disconnected"

BylineStatusLabel ==
    IF ViewingFolder(treeSeen, pageUrl) THEN "none"
    ELSE IF page.failing \/ page.save = "failed" THEN "Not saving"
    ELSE CASE page.status = "open" -> IF page.save = "saving" THEN "Saving" ELSE "Saved"
           [] page.status \in {"syncing", "connecting"} -> "Connecting"
           [] page.status = "error" -> "Connection error"
           [] OTHER -> "Disconnected"

-----------------------------------------------------------------------------
(* Callbacks.  A provider that was replaced is of an older generation.     *)

Current(g) == g = page.gen

\* onStatus for whatever provider reports.
StatusOfAny(g, pg, status) == [pg EXCEPT !.status = status]

OnStatus(g, pg, status) == IF Current(g) THEN [pg EXCEPT !.status = status] ELSE pg

\* onSynced for whatever provider reports.
SyncedByAny(g, pg) == [pg EXCEPT !.synced = TRUE]

OnSynced(g, pg) == IF Current(g) THEN [pg EXCEPT !.synced = TRUE] ELSE pg

OnSaveState(g, pg, provider) ==
    IF ~Current(g) THEN pg
    ELSE [pg EXCEPT !.save = IF provider.pending = 0 THEN "saved"
                             ELSE IF provider.late THEN "failed" ELSE "saving"]

(* onError with the refusal of a path that is no note.                     *)
OnOpenError(g, pg) ==
    IF ~Current(g) \/ (pg.deleted /\ providers[g].note = pageUrl) THEN pg
    ELSE [pg EXCEPT !.notFound = providers[g].note, !.synced = FALSE]

HandleSessionEvent(pg, kind) ==
    CASE kind = "doc-moved" -> MarkDocumentNotFound(pg, pageUrl)
      [] kind = "doc-deleted" -> MarkDocumentRetired(pg)
      [] kind = "external-merge" -> [pg EXCEPT !.merged = TRUE]
      [] kind = "external-change" -> [pg EXCEPT !.changed = TRUE, !.merged = FALSE]
      [] kind = "persist-failure" -> [pg EXCEPT !.failing = TRUE]
      [] kind = "persist-recovered" -> [pg EXCEPT !.failing = FALSE]

-----------------------------------------------------------------------------
(* Sockets.                                                                *)

ConnectionOpens(g) ==
    /\ providers[g].sock = "connecting"
    /\ Settles(OnStatus(g, page, "syncing"), [providers EXCEPT ![g].sock = "syncing"], pageUrl, treeSeen)
    /\ UNCHANGED <<byOthers, pageUrl, onDisk, treeSeen, treeOut, historyPart>>

(* SYNCED: the text has arrived in the messages before it.                 *)
SyncedArrives(g) ==
    LET note == providers[g].note
    IN  /\ providers[g].sock = "syncing" /\ note \in PageNotes /\ onDisk[note] # Absent
        /\ Settles(OnSynced(g, OnStatus(g, page, "open")),
                   [providers EXCEPT ![g].sock = "open", ![g].text = onDisk[note]], pageUrl, treeSeen)
        /\ UNCHANGED <<byOthers, pageUrl, onDisk, treeSeen, treeOut, historyPart>>

(* The socket closes: by the daemon, by the network, or because the        *)
(* provider closed it.  A path that is no note is refused with a reason.   *)
ConnectionCloses(g) ==
    /\ providers[g].sock # "closed"
    /\ LET note == providers[g].note
           refused == /\ providers[g].sock = "syncing" /\ ~providers[g].destroyed
                      /\ (note = PageFolder \/ onDisk[note] = Absent)
           pg == OnStatus(g, page, "closed")
       IN  Settles(IF refused THEN OnOpenError(g, pg) ELSE pg,
                   [providers EXCEPT ![g].sock = "closed"], pageUrl, treeSeen)
    /\ UNCHANGED <<byOthers, pageUrl, onDisk, treeSeen, treeOut, historyPart>>

(* An error event; the close event comes after it.                         *)
ConnectionErrors(g) ==
    /\ providers[g].sock \in {"connecting", "syncing", "open"}
    /\ Settles(OnStatus(g, page, "error"), [providers EXCEPT ![g].sock = "failing"], pageUrl, treeSeen)
    /\ UNCHANGED <<byOthers, pageUrl, onDisk, treeSeen, treeOut, historyPart>>

(* An event of the daemon's session: doc-moved and doc-deleted come when   *)
(* the note is gone; a tree refresh follows them.                          *)
SessionEvent(g, kind) ==
    /\ providers[g].sock = "open"
    /\ kind \in {"doc-moved", "doc-deleted"} => onDisk[providers[g].note] = Absent
    /\ kind \in {"persist-failure"} => onDisk[providers[g].note] # Absent
    /\ Settles(IF Current(g) THEN HandleSessionEvent(page, kind) ELSE page, providers, pageUrl, treeSeen)
    /\ treeOut' = IF Current(g) /\ kind \in {"doc-moved", "doc-deleted"}
                  THEN treeOut \cup {{p \in PageNotes : onDisk[p] # Absent} \cup {PageFolder}} ELSE treeOut
    /\ UNCHANGED <<byOthers, pageUrl, onDisk, treeSeen, historyPart>>

-----------------------------------------------------------------------------
(* Saving, as far as the page shows it (SaveAck models the protocol).      *)

TrackLocalUpdate ==
    /\ Editable
    /\ LET g == page.provider IN
       /\ providers[g].text < MaxText
       /\ LET p == [providers[g] EXCEPT !.text = @ + 1, !.pending = @ + 1]
          IN  Settles(OnSaveState(g, page, p), [providers EXCEPT ![g] = p], pageUrl, treeSeen)
    /\ UNCHANGED <<byOthers, pageUrl, onDisk, treeSeen, treeOut, historyPart>>

(* The daemon has stored the update; its acknowledgement arrives, unless   *)
(* the provider has forgotten it.                                          *)
AcknowledgeSave(g) ==
    /\ providers[g].sock = "open" /\ providers[g].pending > 0 /\ ~providers[g].destroyed
    /\ LET p == [providers[g] EXCEPT !.pending = @ - 1, !.late = @ /\ providers[g].pending > 1]
       IN  Settles(OnSaveState(g, page, p), [providers EXCEPT ![g] = p], pageUrl, treeSeen)
    /\ onDisk' = IF onDisk[providers[g].note] = Absent THEN onDisk
                 ELSE [onDisk EXCEPT ![providers[g].note] = providers[g].text]
    /\ UNCHANGED <<byOthers, pageUrl, treeSeen, treeOut, historyPart>>

ArmSaveAckTimeout(g) ==
    /\ providers[g].pending > 0 /\ ~providers[g].destroyed /\ ~providers[g].late
    /\ LET p == [providers[g] EXCEPT !.late = TRUE]
       IN  Settles(OnSaveState(g, page, p), [providers EXCEPT ![g] = p], pageUrl, treeSeen)
    /\ UNCHANGED <<byOthers, pageUrl, onDisk, treeSeen, treeOut, historyPart>>

ResetHistoryState(h) ==
    [h EXCEPT !.entries = {}, !.loading = FALSE, !.more = FALSE, !.error = FALSE, !.loaded = NoPath]

(* The panel's effect when the path turns out to be a folder.              *)
ClosedOverFolder(h) == [ResetHistoryState(h) EXCEPT !.open = FALSE]

-----------------------------------------------------------------------------
(* The tree.  A listing is made by the daemon at one moment and arrives at *)
(* another.                                                                *)

FetchVaultTree ==
    /\ Cardinality(treeOut) < MaxListings
    /\ treeOut' = treeOut \cup {{p \in PageNotes : onDisk[p] # Absent} \cup {PageFolder}}
    /\ UNCHANGED <<byOthers, pageUrl, page, providers, onDisk, treeSeen, noteCache, historyPart>>

(* A path the listing does not have is marked not found.                   *)
LoadVaultTree(listing) ==
    /\ listing \in treeOut
    /\ treeOut' = treeOut \ {listing}
    /\ treeSeen' = <<listing>>
    /\ Settles(IF pageUrl \notin listing THEN MarkDocumentNotFound(page, pageUrl) ELSE page,
               providers, pageUrl, treeSeen')
    /\ panel' = IF panel.open /\ ViewingFolder(treeSeen', pageUrl) THEN ClosedOverFolder(panel) ELSE panel
    /\ UNCHANGED <<byOthers, pageUrl, onDisk, headOut, olderOut, crossed>>

LoadVaultTreeFails(listing) ==
    /\ listing \in treeOut
    /\ treeOut' = treeOut \ {listing}
    /\ UNCHANGED <<byOthers, pageUrl, page, providers, onDisk, treeSeen, noteCache, historyPart>>

(* Somebody else deletes or creates a note.                                *)
OthersChange(note) ==
    /\ byOthers < MaxByOthers
    /\ byOthers' = byOthers + 1
    /\ onDisk' = [onDisk EXCEPT ![note] = IF @ = Absent THEN 1 ELSE Absent]
    /\ UNCHANGED <<pageUrl, page, providers, treeSeen, treeOut, noteCache, historyPart>>

-----------------------------------------------------------------------------
(* The history panel.  "entries" are the notes whose versions it lists.    *)

ClosedPanel ==
    [open |-> FALSE, entries |-> {}, loading |-> FALSE, more |-> FALSE, error |-> FALSE,
     loaded |-> NoPath, request |-> 0, timer |-> NoPath]

(* loadHistoryHead, up to its await.                                       *)
LoadHistoryHead(h, path) ==
    /\ panel' = [h EXCEPT !.request = @ + 1, !.loading = TRUE, !.error = FALSE]
    /\ headOut' = headOut \cup {[id |-> h.request + 1, note |-> path]}

\* loadHistoryHead after its await, without the comparison of request ids.
HeadAnyRequest(h, request, ok) ==
    IF ok THEN [h EXCEPT !.entries = {request.note}, !.loaded = request.note, !.loading = FALSE]
    ELSE [h EXCEPT !.error = TRUE, !.loading = FALSE]

(* loadHistoryHead after its await.                                        *)
HistoryHeadLoaded(h, request, ok) ==
    IF request.id # h.request THEN h
    ELSE IF ok THEN [h EXCEPT !.entries = {request.note}, !.loaded = request.note, !.loading = FALSE]
    ELSE [h EXCEPT !.error = TRUE, !.loading = FALSE]

(* The panel's effect on a change of path: close over a folder, load the   *)
(* list of another note.                                                   *)
HistoryEffect(h, tree, path) ==
    IF h.open /\ ViewingFolder(tree, path)
    THEN panel' = ClosedOverFolder(h) /\ UNCHANGED headOut
    ELSE IF h.open /\ h.loaded # path THEN LoadHistoryHead(h, path)
    ELSE panel' = h /\ UNCHANGED headOut

\* scheduleHistoryRefresh for a panel that lists nothing yet only.
RefreshWhenEmpty(h, tree, path) ==
    IF ~h.open \/ ViewingFolder(tree, path) \/ h.entries # {} THEN h ELSE [h EXCEPT !.timer = path]

(* scheduleHistoryRefresh: the timer keeps the path it was set for; a      *)
(* closed panel leaves a timer alone.                                      *)
ScheduleHistoryRefresh(h, tree, path) ==
    IF ~h.open \/ ViewingFolder(tree, path) THEN h ELSE [h EXCEPT !.timer = path]

OpenHistoryPanel ==
    /\ ~panel.open /\ LiveEditorReady /\ ~ViewingFolder(treeSeen, pageUrl) /\ page.notFound # pageUrl
    /\ panel.request < MaxLoadsOut
    /\ LoadHistoryHead([ResetHistoryState(panel) EXCEPT !.open = TRUE], pageUrl)
    /\ UNCHANGED <<byOthers, pageUrl, page, providers, onDisk, treeSeen, treeOut, noteCache, olderOut, crossed>>

CloseHistoryPanel ==
    /\ panel.open
    /\ panel' = [panel EXCEPT !.open = FALSE]
    /\ UNCHANGED <<byOthers, pageUrl, page, providers, onDisk, treeSeen, treeOut, noteCache, headOut, olderOut,
                   crossed>>

HistoryHeadAnswers(request, ok) ==
    /\ request \in headOut
    /\ headOut' = headOut \ {request}
    /\ panel' = HistoryHeadLoaded(panel, request, ok)
    /\ crossed' = IF request.id # panel.request THEN crossed
                  ELSE IF ok THEN crossed /\ request.note # pageUrl
                  ELSE crossed \/ panel.entries # {pageUrl}
    /\ UNCHANGED <<byOthers, pageUrl, page, providers, onDisk, treeSeen, treeOut, noteCache, olderOut>>

LoadOlderHistory ==
    /\ panel.open /\ ~panel.more /\ panel.entries # {} /\ olderOut = {}
    /\ panel' = [panel EXCEPT !.more = TRUE, !.error = FALSE]
    /\ olderOut' = {IF panel.loaded # NoPath THEN panel.loaded ELSE pageUrl}
    /\ UNCHANGED <<byOthers, pageUrl, page, providers, onDisk, treeSeen, treeOut, noteCache, headOut, crossed>>

(* The older page joins whatever list the panel has by then.               *)
OlderHistoryLoaded(note, ok) ==
    /\ note \in olderOut
    /\ olderOut' = {}
    /\ panel' = [panel EXCEPT !.entries = IF ok THEN @ \cup {note} ELSE @, !.more = FALSE, !.error = @ \/ ~ok]
    /\ crossed' = (crossed \/ (ok /\ panel.entries # {note}))
    /\ UNCHANGED <<byOthers, pageUrl, page, providers, onDisk, treeSeen, treeOut, noteCache, headOut>>

RefreshTimerFires ==
    /\ panel.timer # NoPath /\ panel.request < MaxLoadsOut
    /\ LoadHistoryHead([panel EXCEPT !.timer = NoPath], panel.timer)
    /\ crossed' = (crossed \/ panel.timer # pageUrl)
    /\ UNCHANGED <<byOthers, pageUrl, page, providers, onDisk, treeSeen, treeOut, noteCache, olderOut>>

(* A save is confirmed: the list is refreshed a second later.              *)
SavedRefreshesHistory ==
    /\ panel.open /\ page.save = "saved" /\ panel.request < MaxLoadsOut
    /\ panel' = ScheduleHistoryRefresh(panel, treeSeen, pageUrl)
    /\ UNCHANGED <<byOthers, pageUrl, page, providers, onDisk, treeSeen, treeOut, noteCache, headOut, olderOut,
                   crossed>>

-----------------------------------------------------------------------------
(* Navigation: the provider effect and the panel's, then the others; the   *)
(* save state it resets reschedules the panel's refresh.                   *)
NavigatePage(path) ==
    LET opens == ~ViewingFolder(treeSeen, path)
        pg == ProviderEffect(page, treeSeen, path)
        all == IF opens THEN [providers EXCEPT ![pg.gen] = NewProvider(path)] ELSE providers
    IN  /\ path # pageUrl
        /\ page.gen < MaxProviders
        /\ panel.request < MaxLoadsOut \/ ~panel.open
        /\ pageUrl' = path
        /\ Settles(pg, all, path, treeSeen)
        /\ HistoryEffect(ScheduleHistoryRefresh(panel, treeSeen, path), treeSeen, path)
        /\ UNCHANGED <<byOthers, onDisk, treeSeen, treeOut, olderOut, crossed>>

PageInit ==
    /\ pageUrl \in Paths
    /\ onDisk = [n \in PageNotes |-> 1]
    /\ byOthers = 0
    /\ treeSeen = <<>>
    /\ treeOut = {}
    /\ noteCache = [p \in Paths |-> NoSnapshot]
    /\ page = [provider |-> 1, gen |-> 1, synced |-> FALSE, status |-> "connecting", save |-> "saved",
               notFound |-> NoPath, deleted |-> FALSE, failing |-> FALSE, merged |-> FALSE,
               changed |-> FALSE, doc |-> NoSnapshot]
    /\ providers = [g \in Generations |->
                       IF g = 1 THEN NewProvider(pageUrl) ELSE [NewProvider(NoPath) EXCEPT !.sock = "closed"]]
    /\ panel = ClosedPanel
    /\ headOut = {} /\ olderOut = {} /\ crossed = FALSE

SessionEventKinds ==
    {"doc-moved", "doc-deleted", "external-merge", "external-change", "persist-failure",
     "persist-recovered"}

DocumentStep ==
    \/ \E path \in Paths : NavigatePage(path)
    \/ \E g \in Generations : \/ ConnectionOpens(g) \/ SyncedArrives(g) \/ ConnectionCloses(g)
                              \/ ConnectionErrors(g) \/ AcknowledgeSave(g) \/ ArmSaveAckTimeout(g)
                              \/ \E kind \in SessionEventKinds : SessionEvent(g, kind)
    \/ TrackLocalUpdate
    \/ FetchVaultTree
    \/ \E listing \in treeOut : LoadVaultTree(listing) \/ LoadVaultTreeFails(listing)
    \/ \E note \in PageNotes : OthersChange(note)

HistoryStep ==
    \/ OpenHistoryPanel \/ CloseHistoryPanel \/ LoadOlderHistory \/ RefreshTimerFires
    \/ SavedRefreshesHistory
    \/ \E request \in headOut, ok \in BOOLEAN : HistoryHeadAnswers(request, ok)
    \/ \E note \in olderOut, ok \in BOOLEAN : OlderHistoryLoaded(note, ok)

PageNext == DocumentStep \/ HistoryStep

PageSpec == PageInit /\ [][PageNext]_pageVars

-----------------------------------------------------------------------------
(* A user can type only into the text of the note the URL names, and only  *)
(* after that very provider has synced it: no callback of a provider that  *)
(* was replaced or torn down, and no cached snapshot, makes an editor      *)
(* writable (openProvider's generations, readOnly).                        *)
EditableIsSynced ==
    Editable => /\ page.provider # 0 /\ ~providers[page.provider].destroyed
                /\ providers[page.provider].note = pageUrl
                /\ providers[page.provider].text > 0

(* A note's cached snapshot holds a text that note has had, never the      *)
(* empty text before the sync or another note's; and what is shown while a *)
(* note connects is its own (the snapshot effects).                        *)
SnapshotIsOwn ==
    /\ \A p \in Paths : noteCache[p] # NoSnapshot => noteCache[p].note = p /\ noteCache[p].text > 0
    /\ SnapshotEditorReady => page.doc.note = pageUrl

(* The chip is loud: while the note on screen has lost its connection, has *)
(* an edit that was not confirmed in time or is not being saved, it names  *)
(* the problem (statusLabel).                                              *)
ChipIsLoud ==
    (page.provider # 0 /\ ~ViewingFolder(treeSeen, pageUrl)) =>
        LET p == providers[page.provider]
        IN  (p.sock \in {"closed", "failing"} \/ p.late \/ page.failing) => StatusLabel # "none"

(* The page shows, lets edit and labels the note the URL names.            *)
PageIsSound == EditableIsSynced /\ SnapshotIsOwn /\ ChipIsLoud

(* Once its requests are answered and its timer has run, the panel lists   *)
(* the versions of the note it is open on: a slower answer for the note    *)
(* before it never stays, even when the user has gone to another note and  *)
(* back meanwhile (loadHistoryHead's request ids, the refresh that the     *)
(* reset save state schedules).  Not promised after a failed load, a timer *)
(* set before the panel was closed or an older page that comes late.       *)
HistoryIsOfTheNote ==
    (panel.open /\ headOut = {} /\ panel.timer = NoPath /\ ~crossed) => panel.entries = {pageUrl}
=============================================================================
