------------------------- MODULE DocumentPageProofs -------------------------
(***************************************************************************)
(* The page shows, lets edit and labels the note the URL names, and its    *)
(* history panel settles on that note: for every set of notes, for every   *)
(* number of providers, of history requests and of changes by others, and  *)
(* for every interleaving of what the sockets and requests bring.          *)
(***************************************************************************)
EXTENDS DocumentPage, TLAPS

-----------------------------------------------------------------------------
(* The inductive invariant. *)

Snapshot == [note : Paths \cup {NoPath}, text : Nat]

PageType ==
    [provider : 0..MaxProviders, gen : Generations, synced : BOOLEAN,
     status : {"connecting", "syncing", "open", "error", "closed"},
     save : {"saved", "saving", "failed"}, notFound : Paths \cup {NoPath}, deleted : BOOLEAN,
     failing : BOOLEAN, merged : BOOLEAN, changed : BOOLEAN, doc : Snapshot]

ProviderType ==
    [note : Paths \cup {NoPath}, sock : {"connecting", "syncing", "open", "failing", "closed"},
     destroyed : BOOLEAN, text : Nat, pending : Nat, late : BOOLEAN]

PanelType ==
    [open : BOOLEAN, entries : SUBSET (Paths \cup {NoPath}), loading : BOOLEAN, more : BOOLEAN,
     error : BOOLEAN, loaded : Paths \cup {NoPath}, request : Nat, timer : Paths \cup {NoPath}]

\* The types of what the invariant of the document speaks of.
DocumentTypeOK ==
    /\ pageUrl \in Paths
    /\ page \in PageType
    /\ providers \in [Generations -> ProviderType]
    /\ onDisk \in [PageNotes -> Nat]
    /\ noteCache \in [Paths -> Snapshot]

\* The provider the page holds is the last one it made, is open on the path and
\* alive; the page says "synced" only when that provider has a text, and its
\* status and save state tell what that provider's socket and edits are in.
Attached(pg, all, path) ==
    pg.provider # 0 =>
        /\ pg.provider = pg.gen
        /\ all[pg.provider].note = path
        /\ ~all[pg.provider].destroyed
        /\ pg.synced => all[pg.provider].text > 0
        /\ all[pg.provider].sock \in {"closed", "failing"} => pg.status \in {"closed", "error"}
        /\ all[pg.provider].late => pg.save = "failed" /\ all[pg.provider].pending > 0

\* A cached snapshot is of the note it is kept for.
CacheOwn(cache) ==
    \A p \in Paths : cache[p] # NoSnapshot => cache[p].note = p /\ cache[p].text > 0

ShownOwn(pg, path) == pg.doc = NoSnapshot \/ pg.doc.note = path

DocumentInv ==
    /\ Attached(page, providers, pageUrl)
    /\ CacheOwn(noteCache)
    /\ ShownOwn(page, pageUrl)

\* The request the panel waits for is the last one made, and the only one with
\* its number.
RequestsNumbered ==
    /\ panel \in PanelType
    /\ crossed \in BOOLEAN
    /\ olderOut \subseteq Paths \cup {NoPath}
    /\ \A r \in headOut : r.note \in Paths /\ r.id \in Nat /\ r.id <= panel.request
    /\ \A r, s \in headOut : r.id = s.id => r = s

\* An open panel has its note's list, or has asked for it last, or will.
PanelIsComing ==
    panel.open /\ ~crossed =>
        \/ panel.timer = pageUrl
        \/ \E r \in headOut : r.id = panel.request /\ r.note = pageUrl
        \/ /\ panel.entries = {pageUrl}
           /\ \A r \in headOut : r.id = panel.request => r.note = pageUrl

PanelInv == RequestsNumbered /\ PanelIsComing

-----------------------------------------------------------------------------
(* What the page's operators keep.                                         *)

\* The page's operators give a page.
LEMMA PageClosed ==
    ASSUME NEW pg \in PageType, NEW path \in Paths
    PROVE  /\ TeardownProvider(pg) \in PageType
           /\ MarkDocumentNotFound(pg, path) \in PageType
           /\ MarkDocumentRetired(pg) \in PageType
           /\ pg.gen < MaxProviders => OpenProvider(pg, path) \in PageType
<1>1. NoSnapshot \in Snapshot
  BY DEF Snapshot, NoSnapshot
<1>2. TeardownProvider(pg) \in PageType
  <2>1. 0 \in 0..MaxProviders
    BY PageConstants
  <2> QED
    BY <1>1, <2>1 DEF PageType, TeardownProvider
<1>3. \A p2 \in PageType : [p2 EXCEPT !.notFound = path, !.deleted = TRUE, !.failing = FALSE,
                        !.changed = FALSE, !.merged = FALSE, !.status = "closed"] \in PageType
  BY DEF PageType
<1>4. MarkDocumentNotFound(pg, path) \in PageType
  BY <1>2, <1>3 DEF MarkDocumentNotFound
<1>5. MarkDocumentRetired(pg) \in PageType
  BY DEF PageType, MarkDocumentRetired
<1>6. ASSUME pg.gen < MaxProviders PROVE OpenProvider(pg, path) \in PageType
  <2>1. pg.gen \in Nat /\ pg.gen + 1 \in Generations /\ pg.gen + 1 \in 0..MaxProviders
    BY <1>6, PageConstants DEF Generations, PageType
  <2> QED
    BY <2>1 DEF PageType, OpenProvider
<1> QED
  BY <1>2, <1>4, <1>5, <1>6

\* A provider that is let go of stays a provider, and the others are untouched.
LEMMA DestroyOne ==
    ASSUME NEW all \in [Generations -> ProviderType], NEW g \in 0..MaxProviders
    PROVE  /\ Destroy(all, g) \in [Generations -> ProviderType]
           /\ \A h \in Generations : h # g => Destroy(all, g)[h] = all[h]
<1>1. CASE g = 0
  BY <1>1 DEF Destroy, Generations
<1>2. CASE g # 0
  <2>1. g \in Generations
    BY <1>2, PageConstants DEF Generations
  <2>2. Destroy(all, g) = [all EXCEPT ![g] = [all[g] EXCEPT !.destroyed = TRUE, !.pending = 0,
                                                            !.late = FALSE]]
    BY <1>2, <2>1 DEF Destroy, ProviderType
  <2>3. [all[g] EXCEPT !.destroyed = TRUE, !.pending = 0, !.late = FALSE] \in ProviderType
    BY <2>1 DEF ProviderType
  <2> QED
    BY <2>1, <2>2, <2>3
<1> QED
  BY <1>1, <1>2

\* The effects that end every action keep the page attached to the provider of
\* its path, and the cache and the shown snapshot the note's own.
LEMMA SettlesKeeps ==
    ASSUME DocumentTypeOK, CacheOwn(noteCache),
           NEW pg \in PageType, NEW all \in [Generations -> ProviderType], NEW path \in Paths,
           NEW tree, Attached(pg, all, path), Settles(pg, all, path, tree)
    PROVE  /\ page' \in PageType
           /\ providers' \in [Generations -> ProviderType]
           /\ noteCache' \in [Paths -> Snapshot]
           /\ Attached(page', providers', path)
           /\ CacheOwn(noteCache')
           /\ ShownOwn(page', path)
<1> DEFINE kept == StrayProviderEffect(pg, tree, path)
           gone == IF page.provider # kept.provider THEN Destroy(all, page.provider) ELSE all
           cache == WriteSnapshotEffect(kept, gone, path, noteCache)
<1>1. /\ page' = HydrateEffect(kept, tree, path, cache)
      /\ providers' = gone
      /\ noteCache' = cache
  BY DEF Settles
<1>2. kept \in PageType /\ (kept.provider # 0 => kept = pg)
  <2>1. NoSnapshot \in Snapshot
    BY DEF Snapshot, NoSnapshot
  <2>2. [pg EXCEPT !.provider = 0, !.doc = NoSnapshot, !.synced = FALSE] \in PageType
    <3>1. 0 \in 0..MaxProviders
      BY PageConstants
    <3> QED
      BY <2>1, <3>1 DEF PageType
  <2>3. [pg EXCEPT !.provider = 0, !.doc = NoSnapshot, !.synced = FALSE].provider = 0
    BY DEF PageType
  <2> QED
    BY <2>2, <2>3 DEF StrayProviderEffect
<1>3. page.provider \in 0..MaxProviders
  BY DEF DocumentTypeOK, PageType
<1>4. gone \in [Generations -> ProviderType]
  BY <1>3, DestroyOne
<1>5. kept.provider # 0 => kept.provider \in Generations /\ gone[kept.provider] = all[kept.provider]
  <2>1. ASSUME kept.provider # 0 PROVE kept.provider \in Generations
    BY <1>2, <2>1, PageConstants DEF PageType, Generations
  <2> QED
    BY <1>3, <2>1, DestroyOne
<1> HIDE DEF gone
<1>6. Attached(kept, gone, path)
  BY <1>2, <1>5 DEF Attached
<1> HIDE DEF kept
<1>7. cache \in [Paths -> Snapshot] /\ CacheOwn(cache)
  <2>1. CASE kept.provider # 0 /\ kept.synced
    <3>1. gone[kept.provider].text \in Nat /\ gone[kept.provider].text > 0
      BY <2>1, <1>4, <1>5, <1>6 DEF Attached, ProviderType
    <3>2. cache = [noteCache EXCEPT ![path] = [note |-> path, text |-> gone[kept.provider].text]]
      BY <2>1 DEF WriteSnapshotEffect
    <3> QED
      BY <3>1, <3>2 DEF DocumentTypeOK, Snapshot, CacheOwn
  <2>2. CASE ~(kept.provider # 0 /\ kept.synced)
    BY <2>2 DEF WriteSnapshotEffect, DocumentTypeOK
  <2> QED
    BY <2>1, <2>2
<1> HIDE DEF cache
<1>8. /\ page' \in PageType
      /\ page'.provider = kept.provider /\ page'.gen = kept.gen /\ page'.synced = kept.synced
      /\ page'.status = kept.status /\ page'.save = kept.save
      /\ ShownOwn(page', path)
  BY <1>1, <1>2, <1>7 DEF HydrateEffect, PageType, Snapshot, NoSnapshot, ShownOwn
<1>9. Attached(page', providers', path)
  BY <1>1, <1>6, <1>8 DEF Attached
<1> QED
  BY <1>1, <1>4, <1>7, <1>8, <1>9

\* An action that ends with the effects keeps the invariant if what it hands to
\* them is attached.
LEMMA SettlesGives ==
    ASSUME DocumentTypeOK, DocumentInv,
           NEW pg \in PageType, NEW all \in [Generations -> ProviderType], NEW path \in Paths,
           NEW tree, Attached(pg, all, path), Settles(pg, all, path, tree),
           pageUrl' = path, onDisk' \in [PageNotes -> Nat]
    PROVE  DocumentTypeOK' /\ DocumentInv'
<1>1. CacheOwn(noteCache)
  BY DEF DocumentInv
<1>2. /\ page' \in PageType
      /\ providers' \in [Generations -> ProviderType]
      /\ noteCache' \in [Paths -> Snapshot]
      /\ Attached(page', providers', path)
      /\ CacheOwn(noteCache')
      /\ ShownOwn(page', path)
  BY <1>1, SettlesKeeps
<1> QED
  BY <1>2 DEF DocumentTypeOK, DocumentInv

\* One provider's record is replaced.
LEMMA ProviderReplaced ==
    ASSUME DocumentTypeOK, NEW g \in Generations, NEW p \in ProviderType
    PROVE  /\ [providers EXCEPT ![g] = p] \in [Generations -> ProviderType]
           /\ [providers EXCEPT ![g] = p][g] = p
           /\ \A h \in Generations : h # g => [providers EXCEPT ![g] = p][h] = providers[h]
BY DEF DocumentTypeOK

\* A provider is attached after one provider's record was replaced, if that is
\* another one or its new record agrees with the new page.
LEMMA AttachedAfter ==
    ASSUME DocumentTypeOK, DocumentInv, NEW g \in Generations, NEW p \in ProviderType,
           NEW pg \in PageType,
           pg.provider = page.provider, pg.gen = page.gen,
           p.note = providers[g].note, p.destroyed = providers[g].destroyed,
           g # page.gen => pg.synced = page.synced /\ pg.status = page.status /\ pg.save = page.save,
           g = page.gen /\ page.provider # 0 =>
               /\ pg.synced => p.text > 0
               /\ p.sock \in {"closed", "failing"} => pg.status \in {"closed", "error"}
               /\ p.late => pg.save = "failed" /\ p.pending > 0
    PROVE  Attached(pg, [providers EXCEPT ![g] = p], pageUrl)
<1>1. PICK all : all = [providers EXCEPT ![g] = p]
  OBVIOUS
<1>2. all[g] = p /\ \A h \in Generations : h # g => all[h] = providers[h]
  BY <1>1, ProviderReplaced
<1>3. page.gen \in Generations
  BY DEF DocumentTypeOK, PageType
<1>4. Attached(page, providers, pageUrl)
  BY DEF DocumentInv
<1>5. Attached(pg, all, pageUrl)
  <2>1. CASE page.provider = 0
    BY <2>1 DEF Attached
  <2>2. CASE page.provider # 0 /\ g = page.gen
    BY <2>2, <1>2, <1>4 DEF Attached
  <2>3. CASE page.provider # 0 /\ g # page.gen
    BY <2>3, <1>2, <1>3, <1>4 DEF Attached
  <2> QED
    BY <2>1, <2>2, <2>3
<1> QED
  BY <1>1, <1>5

\* An action that changes one provider's record and ends with the effects.
LEMMA OneProviderKeeps ==
    ASSUME DocumentTypeOK, DocumentInv, NEW g \in Generations, NEW p \in ProviderType,
           NEW pg \in PageType,
           pg.provider = page.provider, pg.gen = page.gen,
           p.note = providers[g].note, p.destroyed = providers[g].destroyed,
           g # page.gen => pg.synced = page.synced /\ pg.status = page.status /\ pg.save = page.save,
           g = page.gen /\ page.provider # 0 =>
               /\ pg.synced => p.text > 0
               /\ p.sock \in {"closed", "failing"} => pg.status \in {"closed", "error"}
               /\ p.late => pg.save = "failed" /\ p.pending > 0,
           Settles(pg, [providers EXCEPT ![g] = p], pageUrl, treeSeen),
           pageUrl' = pageUrl, onDisk' \in [PageNotes -> Nat]
    PROVE  DocumentTypeOK' /\ DocumentInv'
<1>1. Attached(pg, [providers EXCEPT ![g] = p], pageUrl)
  BY AttachedAfter
<1>2. [providers EXCEPT ![g] = p] \in [Generations -> ProviderType]
  BY ProviderReplaced
<1>3. pageUrl \in Paths
  BY DEF DocumentTypeOK
<1> QED
  BY <1>1, <1>2, <1>3, SettlesGives

-----------------------------------------------------------------------------
(* Sockets. *)

\* onStatus changes the status, for the current provider only.
LEMMA StatusFields ==
    ASSUME DocumentTypeOK, NEW g \in Generations,
           NEW status \in {"connecting", "syncing", "open", "error", "closed"}
    PROVE  \E pg \in PageType :
               /\ pg = OnStatus(g, page, status)
               /\ pg.provider = page.provider /\ pg.gen = page.gen /\ pg.synced = page.synced
               /\ pg.save = page.save
               /\ pg.status = IF g = page.gen THEN status ELSE page.status
<1>1. PICK pg : pg = OnStatus(g, page, status)
  OBVIOUS
<1>2. page \in PageType
  BY DEF DocumentTypeOK
<1>3. /\ pg \in PageType
      /\ pg.provider = page.provider /\ pg.gen = page.gen /\ pg.synced = page.synced
      /\ pg.save = page.save
      /\ pg.status = IF g = page.gen THEN status ELSE page.status
  BY <1>1, <1>2 DEF OnStatus, Current, PageType
<1> QED
  BY <1>1, <1>3

\* A provider's socket moves on.
LEMMA SockFields ==
    ASSUME DocumentTypeOK, NEW g \in Generations,
           NEW sock \in {"connecting", "syncing", "open", "failing", "closed"}
    PROVE  \E p \in ProviderType :
               /\ [providers EXCEPT ![g].sock = sock] = [providers EXCEPT ![g] = p]
               /\ p.sock = sock
               /\ p.note = providers[g].note /\ p.destroyed = providers[g].destroyed
               /\ p.text = providers[g].text /\ p.late = providers[g].late
               /\ p.pending = providers[g].pending
<1>1. PICK p : p = [providers[g] EXCEPT !.sock = sock]
  OBVIOUS
<1>2. providers[g] \in ProviderType
  BY DEF DocumentTypeOK
<1>3. /\ p \in ProviderType /\ p.sock = sock
      /\ p.note = providers[g].note /\ p.destroyed = providers[g].destroyed
      /\ p.text = providers[g].text /\ p.late = providers[g].late
      /\ p.pending = providers[g].pending
  BY <1>1, <1>2 DEF ProviderType
<1>4. [providers EXCEPT ![g].sock = sock] = [providers EXCEPT ![g] = p]
  BY <1>1 DEF DocumentTypeOK
<1> QED
  BY <1>3, <1>4

LEMMA OpensKeeps ==
    ASSUME DocumentTypeOK, DocumentInv, NEW g \in Generations, ConnectionOpens(g)
    PROVE  DocumentTypeOK' /\ DocumentInv'
<1>1. PICK pg \in PageType :
          /\ pg = OnStatus(g, page, "syncing")
          /\ pg.provider = page.provider /\ pg.gen = page.gen /\ pg.synced = page.synced
          /\ pg.save = page.save
          /\ pg.status = IF g = page.gen THEN "syncing" ELSE page.status
  BY StatusFields
<1>2. PICK p \in ProviderType :
          /\ [providers EXCEPT ![g].sock = "syncing"] = [providers EXCEPT ![g] = p]
          /\ p.sock = "syncing"
          /\ p.note = providers[g].note /\ p.destroyed = providers[g].destroyed
          /\ p.text = providers[g].text /\ p.late = providers[g].late
          /\ p.pending = providers[g].pending
  BY SockFields
<1>3. Attached(page, providers, pageUrl)
  BY DEF DocumentInv
<1>4. g = page.gen /\ page.provider # 0 =>
          /\ pg.synced => p.text > 0
          /\ p.sock \in {"closed", "failing"} => pg.status \in {"closed", "error"}
          /\ p.late => pg.save = "failed" /\ p.pending > 0
  BY <1>1, <1>2, <1>3 DEF Attached
<1>5. /\ Settles(pg, [providers EXCEPT ![g] = p], pageUrl, treeSeen)
      /\ pageUrl' = pageUrl /\ onDisk' = onDisk
  BY <1>1, <1>2 DEF ConnectionOpens
<1>6. onDisk' \in [PageNotes -> Nat]
  BY <1>5 DEF DocumentTypeOK
<1> QED
  BY <1>1, <1>2, <1>4, <1>5, <1>6, OneProviderKeeps

LEMMA ErrorsKeeps ==
    ASSUME DocumentTypeOK, DocumentInv, NEW g \in Generations, ConnectionErrors(g)
    PROVE  DocumentTypeOK' /\ DocumentInv'
<1>1. PICK pg \in PageType :
          /\ pg = OnStatus(g, page, "error")
          /\ pg.provider = page.provider /\ pg.gen = page.gen /\ pg.synced = page.synced
          /\ pg.save = page.save
          /\ pg.status = IF g = page.gen THEN "error" ELSE page.status
  BY StatusFields
<1>2. PICK p \in ProviderType :
          /\ [providers EXCEPT ![g].sock = "failing"] = [providers EXCEPT ![g] = p]
          /\ p.sock = "failing"
          /\ p.note = providers[g].note /\ p.destroyed = providers[g].destroyed
          /\ p.text = providers[g].text /\ p.late = providers[g].late
          /\ p.pending = providers[g].pending
  BY SockFields
<1>3. Attached(page, providers, pageUrl)
  BY DEF DocumentInv
<1>4. g = page.gen /\ page.provider # 0 =>
          /\ pg.synced => p.text > 0
          /\ p.sock \in {"closed", "failing"} => pg.status \in {"closed", "error"}
          /\ p.late => pg.save = "failed" /\ p.pending > 0
  BY <1>1, <1>2, <1>3 DEF Attached
<1>5. /\ Settles(pg, [providers EXCEPT ![g] = p], pageUrl, treeSeen)
      /\ pageUrl' = pageUrl /\ onDisk' = onDisk
  BY <1>1, <1>2 DEF ConnectionErrors
<1>6. onDisk' \in [PageNotes -> Nat]
  BY <1>5 DEF DocumentTypeOK
<1> QED
  BY <1>1, <1>2, <1>4, <1>5, <1>6, OneProviderKeeps

\* A provider that syncs has a text, and only the current one makes the page
\* say so.
LEMMA SyncedKeeps ==
    ASSUME DocumentTypeOK, DocumentInv, NEW g \in Generations, SyncedArrives(g)
    PROVE  DocumentTypeOK' /\ DocumentInv'
<1>1. PICK q \in PageType :
          /\ q = OnStatus(g, page, "open")
          /\ q.provider = page.provider /\ q.gen = page.gen /\ q.synced = page.synced
          /\ q.save = page.save
          /\ q.status = IF g = page.gen THEN "open" ELSE page.status
  BY StatusFields
<1>2. PICK pg : pg = OnSynced(g, q)
  OBVIOUS
<1>3. /\ pg \in PageType
      /\ pg.provider = page.provider /\ pg.gen = page.gen /\ pg.save = page.save
      /\ g = page.gen => pg.status = "open"
      /\ g # page.gen => pg.status = page.status /\ pg.synced = page.synced
  BY <1>1, <1>2 DEF OnSynced, Current, PageType
<1>4. PICK n : n = providers[g].note
  OBVIOUS
<1>5. /\ n \in PageNotes /\ onDisk[n] # Absent
      /\ Settles(OnSynced(g, OnStatus(g, page, "open")),
                 [providers EXCEPT ![g].sock = "open", ![g].text = onDisk[n]], pageUrl, treeSeen)
      /\ pageUrl' = pageUrl /\ onDisk' = onDisk
  BY <1>4, Zenon DEF SyncedArrives
<1>6. PICK t : t = onDisk[n]
  OBVIOUS
<1>7. t \in Nat /\ t > 0
  BY <1>5, <1>6 DEF DocumentTypeOK, Absent
<1>8. PICK p : p = [providers[g] EXCEPT !.sock = "open", !.text = t]
  OBVIOUS
<1>9. providers[g] \in ProviderType
  BY DEF DocumentTypeOK
<1>10. /\ p \in ProviderType /\ p.sock = "open" /\ p.text = t
       /\ p.note = providers[g].note /\ p.destroyed = providers[g].destroyed
       /\ p.late = providers[g].late /\ p.pending = providers[g].pending
  BY <1>7, <1>8, <1>9 DEF ProviderType
<1>11. [providers EXCEPT ![g].sock = "open", ![g].text = t] = [providers EXCEPT ![g] = p]
  BY <1>8, <1>9 DEF DocumentTypeOK, ProviderType
<1>12. Settles(pg, [providers EXCEPT ![g] = p], pageUrl, treeSeen)
  BY <1>1, <1>2, <1>5, <1>6, <1>11
<1>13. Attached(page, providers, pageUrl)
  BY DEF DocumentInv
<1>14. g = page.gen /\ page.provider # 0 =>
          /\ pg.synced => p.text > 0
          /\ p.sock \in {"closed", "failing"} => pg.status \in {"closed", "error"}
          /\ p.late => pg.save = "failed" /\ p.pending > 0
  BY <1>3, <1>7, <1>10, <1>13 DEF Attached
<1>15. onDisk' \in [PageNotes -> Nat]
  BY <1>5 DEF DocumentTypeOK
<1> QED
  BY <1>3, <1>5, <1>10, <1>12, <1>14, <1>15, OneProviderKeeps

\* A closed socket leaves the page closed; a path that was refused is not
\* found, and its editor is not synced.
LEMMA ClosesKeeps ==
    ASSUME DocumentTypeOK, DocumentInv, NEW g \in Generations, ConnectionCloses(g)
    PROVE  DocumentTypeOK' /\ DocumentInv'
<1>1. PICK q \in PageType :
          /\ q = OnStatus(g, page, "closed")
          /\ q.provider = page.provider /\ q.gen = page.gen /\ q.synced = page.synced
          /\ q.save = page.save
          /\ q.status = IF g = page.gen THEN "closed" ELSE page.status
  BY StatusFields
<1>2. PICK p \in ProviderType :
          /\ [providers EXCEPT ![g].sock = "closed"] = [providers EXCEPT ![g] = p]
          /\ p.sock = "closed"
          /\ p.note = providers[g].note /\ p.destroyed = providers[g].destroyed
          /\ p.text = providers[g].text /\ p.late = providers[g].late
          /\ p.pending = providers[g].pending
  BY SockFields
<1>3. Attached(page, providers, pageUrl)
  BY DEF DocumentInv
<1>4. PICK pg :
          /\ pg = q \/ pg = OnOpenError(g, q)
          /\ Settles(pg, [providers EXCEPT ![g].sock = "closed"], pageUrl, treeSeen)
  BY <1>1, Zenon DEF ConnectionCloses
<1>5. providers[g].note \in Paths \cup {NoPath}
  BY DEF DocumentTypeOK, ProviderType
<1>6. /\ pg \in PageType
      /\ pg.provider = page.provider /\ pg.gen = page.gen /\ pg.save = page.save
      /\ pg.status = q.status
      /\ g # page.gen => pg.synced = page.synced
      /\ pg.synced => page.synced
  BY <1>1, <1>4, <1>5, ZenonT(40) DEF OnOpenError, Current, PageType
<1>7. g = page.gen /\ page.provider # 0 =>
          /\ pg.synced => p.text > 0
          /\ p.sock \in {"closed", "failing"} => pg.status \in {"closed", "error"}
          /\ p.late => pg.save = "failed" /\ p.pending > 0
  BY <1>1, <1>2, <1>3, <1>6 DEF Attached
<1>8. Settles(pg, [providers EXCEPT ![g] = p], pageUrl, treeSeen)
  BY <1>2, <1>4
<1>9. pageUrl' = pageUrl /\ onDisk' \in [PageNotes -> Nat]
  BY DEF ConnectionCloses, DocumentTypeOK
<1> QED
  BY <1>1, <1>2, <1>6, <1>7, <1>8, <1>9, OneProviderKeeps
-----------------------------------------------------------------------------
(* Session events and saving. *)

\* What the page makes of a session event: it lets go of the provider, or keeps
\* it with a status that is as loud as before.
LEMMA EventFields ==
    ASSUME NEW pg \in PageType, NEW kind \in SessionEventKinds, pageUrl \in Paths
    PROVE  \E q \in PageType :
               /\ q = HandleSessionEvent(pg, kind)
               /\ \/ q.provider = 0
                  \/ /\ q.provider = pg.provider /\ q.gen = pg.gen /\ q.synced = pg.synced
                     /\ q.save = pg.save /\ q.status \in {pg.status, "closed"}
<1>1. PICK q : q = HandleSessionEvent(pg, kind)
  OBVIOUS
<1>2. CASE kind = "doc-moved"
  <2>1. q = MarkDocumentNotFound(pg, pageUrl)
    BY <1>1, <1>2 DEF HandleSessionEvent
  <2>2. q \in PageType
    BY <2>1, PageClosed
  <2>3. TeardownProvider(pg) \in PageType /\ TeardownProvider(pg).provider = 0
    BY PageClosed DEF TeardownProvider, PageType
  <2>4. q.provider = 0
    BY <2>1, <2>3 DEF MarkDocumentNotFound, PageType
  <2> QED
    BY <1>1, <2>2, <2>4
<1>3. CASE kind = "doc-deleted"
  <2>1. q = MarkDocumentRetired(pg)
    BY <1>1, <1>3 DEF HandleSessionEvent
  <2>2. q \in PageType
    BY <2>1, PageClosed
  <2>3. /\ q.provider = pg.provider /\ q.gen = pg.gen /\ q.synced = pg.synced
        /\ q.save = pg.save /\ q.status = "closed"
    BY <2>1 DEF MarkDocumentRetired, PageType
  <2> QED
    BY <1>1, <2>2, <2>3
<1>4. CASE kind \in {"external-merge", "external-change", "persist-failure", "persist-recovered"}
  <2>1. /\ q \in PageType
        /\ q.provider = pg.provider /\ q.gen = pg.gen /\ q.synced = pg.synced
        /\ q.save = pg.save /\ q.status = pg.status
    BY <1>1, <1>4 DEF HandleSessionEvent, PageType
  <2> QED
    BY <1>1, <2>1
<1> QED
  BY <1>2, <1>3, <1>4 DEF SessionEventKinds

\* A page that lets go of its provider, or keeps it and is no less loud, is
\* attached.
LEMMA StillAttached ==
    ASSUME DocumentInv, NEW pg \in PageType,
           \/ pg.provider = 0
           \/ /\ pg.provider = page.provider /\ pg.gen = page.gen /\ pg.synced = page.synced
              /\ pg.save = page.save /\ pg.status \in {page.status, "closed"}
    PROVE  Attached(pg, providers, pageUrl)
BY DEF DocumentInv, Attached

LEMMA EventKeeps ==
    ASSUME DocumentTypeOK, DocumentInv, NEW g \in Generations, NEW kind \in SessionEventKinds,
           SessionEvent(g, kind)
    PROVE  DocumentTypeOK' /\ DocumentInv'
<1>1. PICK pg :
          /\ pg = page \/ pg = HandleSessionEvent(page, kind)
          /\ Settles(pg, providers, pageUrl, treeSeen)
  BY Zenon DEF SessionEvent
<1>2. page \in PageType /\ pageUrl \in Paths /\ providers \in [Generations -> ProviderType]
  BY DEF DocumentTypeOK
<1>3. PICK q \in PageType :
          /\ q = HandleSessionEvent(page, kind)
          /\ \/ q.provider = 0
             \/ /\ q.provider = page.provider /\ q.gen = page.gen /\ q.synced = page.synced
                /\ q.save = page.save /\ q.status \in {page.status, "closed"}
  BY <1>2, EventFields
<1>4. pg \in PageType /\ Attached(pg, providers, pageUrl)
  BY <1>1, <1>2, <1>3, StillAttached
<1>5. pageUrl' = pageUrl /\ onDisk' \in [PageNotes -> Nat]
  BY DEF SessionEvent, DocumentTypeOK
<1> QED
  BY <1>1, <1>2, <1>4, <1>5, SettlesGives

\* onSaveState follows the current provider's pending edits.
LEMMA SaveStateFields ==
    ASSUME DocumentTypeOK, NEW g \in Generations, NEW p \in ProviderType
    PROVE  \E pg \in PageType :
               /\ pg = OnSaveState(g, page, p)
               /\ pg.provider = page.provider /\ pg.gen = page.gen /\ pg.synced = page.synced
               /\ pg.status = page.status
               /\ g # page.gen => pg.save = page.save
               /\ g = page.gen /\ p.pending # 0 /\ p.late => pg.save = "failed"
<1>1. PICK pg : pg = OnSaveState(g, page, p)
  OBVIOUS
<1>2. page \in PageType
  BY DEF DocumentTypeOK
<1>3. /\ pg \in PageType
      /\ pg.provider = page.provider /\ pg.gen = page.gen /\ pg.synced = page.synced
      /\ pg.status = page.status
      /\ g # page.gen => pg.save = page.save
      /\ g = page.gen /\ p.pending # 0 /\ p.late => pg.save = "failed"
  BY <1>1, <1>2 DEF OnSaveState, Current, PageType
<1> QED
  BY <1>1, <1>3

\* An action of the save protocol on one provider keeps the invariant if the
\* provider does not lose its text and is late only with an edit pending.
LEMMA SavingKeeps ==
    ASSUME DocumentTypeOK, DocumentInv, NEW g \in Generations, NEW p \in ProviderType,
           p.note = providers[g].note, p.destroyed = providers[g].destroyed,
           p.sock = providers[g].sock, p.text >= providers[g].text,
           g = page.gen /\ page.provider # 0 /\ p.late => p.pending > 0,
           Settles(OnSaveState(g, page, p), [providers EXCEPT ![g] = p], pageUrl, treeSeen),
           pageUrl' = pageUrl, onDisk' \in [PageNotes -> Nat]
    PROVE  DocumentTypeOK' /\ DocumentInv'
<1>1. PICK pg \in PageType :
          /\ pg = OnSaveState(g, page, p)
          /\ pg.provider = page.provider /\ pg.gen = page.gen /\ pg.synced = page.synced
          /\ pg.status = page.status
          /\ g # page.gen => pg.save = page.save
          /\ g = page.gen /\ p.pending # 0 /\ p.late => pg.save = "failed"
  BY SaveStateFields
<1>2. Attached(page, providers, pageUrl)
  BY DEF DocumentInv
<1>3. p.pending \in Nat /\ p.text \in Nat /\ providers[g].text \in Nat
  BY DEF ProviderType, DocumentTypeOK
<1>4. g = page.gen /\ page.provider # 0 =>
          /\ pg.synced => p.text > 0
          /\ p.sock \in {"closed", "failing"} => pg.status \in {"closed", "error"}
          /\ p.late => pg.save = "failed" /\ p.pending > 0
  BY <1>1, <1>2, <1>3 DEF Attached
<1>5. Settles(pg, [providers EXCEPT ![g] = p], pageUrl, treeSeen)
  BY <1>1
<1> QED
  BY <1>1, <1>4, <1>5, OneProviderKeeps

LEMMA TrackKeeps ==
    ASSUME DocumentTypeOK, DocumentInv, TrackLocalUpdate
    PROVE  DocumentTypeOK' /\ DocumentInv'
<1>1. PICK g : g = page.provider
  OBVIOUS
<1>2. g \in Generations
  BY <1>1, PageConstants DEF TrackLocalUpdate, Editable, LiveEditorReady, DocumentTypeOK, PageType,
     Generations
<1>3. PICK p :
          /\ p = [providers[g] EXCEPT !.text = @ + 1, !.pending = @ + 1]
          /\ Settles(OnSaveState(g, page, p), [providers EXCEPT ![g] = p], pageUrl, treeSeen)
  BY <1>1, Zenon DEF TrackLocalUpdate
<1>4. providers[g] \in ProviderType
  BY <1>2 DEF DocumentTypeOK
<1>5. /\ p \in ProviderType
      /\ p.note = providers[g].note /\ p.destroyed = providers[g].destroyed
      /\ p.sock = providers[g].sock /\ p.text >= providers[g].text /\ p.pending > 0
  <2>1. PICK t \in Nat, k \in Nat : t = providers[g].text + 1 /\ k = providers[g].pending + 1
    BY <1>4 DEF ProviderType
  <2>2. p = [providers[g] EXCEPT !.text = t, !.pending = k]
    BY <1>3, <2>1
  <2>3. /\ p \in ProviderType /\ p.text = t /\ p.pending = k
        /\ p.note = providers[g].note /\ p.destroyed = providers[g].destroyed
        /\ p.sock = providers[g].sock
    BY <1>4, <2>2 DEF ProviderType
  <2>4. t >= providers[g].text /\ k > 0
    BY <1>4, <2>1 DEF ProviderType
  <2> QED
    BY <2>3, <2>4
<1>6. pageUrl' = pageUrl /\ onDisk' \in [PageNotes -> Nat]
  BY DEF TrackLocalUpdate, DocumentTypeOK
<1> QED
  BY <1>2, <1>3, <1>5, <1>6, SavingKeeps

LEMMA AcknowledgeKeeps ==
    ASSUME DocumentTypeOK, DocumentInv, NEW g \in Generations, AcknowledgeSave(g)
    PROVE  DocumentTypeOK' /\ DocumentInv'
<1>1. PICK p :
          /\ p = [providers[g] EXCEPT !.pending = @ - 1, !.late = @ /\ providers[g].pending > 1]
          /\ Settles(OnSaveState(g, page, p), [providers EXCEPT ![g] = p], pageUrl, treeSeen)
  BY Zenon DEF AcknowledgeSave
<1>2. providers[g] \in ProviderType /\ providers[g].pending > 0
  BY DEF DocumentTypeOK, AcknowledgeSave
<1>3. /\ p \in ProviderType
      /\ p.note = providers[g].note /\ p.destroyed = providers[g].destroyed
      /\ p.sock = providers[g].sock /\ p.text >= providers[g].text
      /\ p.late => p.pending > 0
  <2>1. PICK k \in Nat : k = providers[g].pending - 1 /\ (providers[g].pending > 1 => k > 0)
    BY <1>2 DEF ProviderType
  <2>2. PICK late \in BOOLEAN :
            /\ p = [providers[g] EXCEPT !.pending = k, !.late = late]
            /\ late => k > 0
    <3>1. CASE providers[g].late /\ providers[g].pending > 1
      <4>1. p = [providers[g] EXCEPT !.pending = k, !.late = TRUE]
        BY <1>1, <2>1, <3>1
      <4> QED
        BY <2>1, <3>1, <4>1
    <3>2. CASE ~(providers[g].late /\ providers[g].pending > 1)
      <4>1. p = [providers[g] EXCEPT !.pending = k, !.late = FALSE]
        BY <1>1, <2>1, <3>2
      <4> QED
        BY <4>1
    <3> QED
      BY <3>1, <3>2
  <2>3. /\ p \in ProviderType /\ p.late = late /\ p.pending = k /\ p.text = providers[g].text
        /\ p.note = providers[g].note /\ p.destroyed = providers[g].destroyed
        /\ p.sock = providers[g].sock
    BY <1>2, <2>2 DEF ProviderType
  <2>4. late => k > 0
    BY <2>2
  <2>5. p.text >= providers[g].text
    BY <1>2, <2>3 DEF ProviderType
  <2> QED
    BY <2>3, <2>4, <2>5
<1>4. pageUrl' = pageUrl
  BY DEF AcknowledgeSave
<1>5. onDisk' \in [PageNotes -> Nat]
  <2>1. onDisk \in [PageNotes -> Nat] /\ providers[g].text \in Nat
    BY <1>2 DEF DocumentTypeOK, ProviderType
  <2> QED
    BY <2>1 DEF AcknowledgeSave
<1> QED
  BY <1>1, <1>3, <1>4, <1>5, SavingKeeps

LEMMA TimeoutKeeps ==
    ASSUME DocumentTypeOK, DocumentInv, NEW g \in Generations, ArmSaveAckTimeout(g)
    PROVE  DocumentTypeOK' /\ DocumentInv'
<1>1. PICK p :
          /\ p = [providers[g] EXCEPT !.late = TRUE]
          /\ Settles(OnSaveState(g, page, p), [providers EXCEPT ![g] = p], pageUrl, treeSeen)
  BY Zenon DEF ArmSaveAckTimeout
<1>2. providers[g] \in ProviderType /\ providers[g].pending > 0
  BY DEF DocumentTypeOK, ArmSaveAckTimeout
<1>3. /\ p \in ProviderType
      /\ p.note = providers[g].note /\ p.destroyed = providers[g].destroyed
      /\ p.sock = providers[g].sock /\ p.text >= providers[g].text
      /\ p.pending > 0
  <2>1. /\ p \in ProviderType /\ p.pending = providers[g].pending /\ p.text = providers[g].text
        /\ p.note = providers[g].note /\ p.destroyed = providers[g].destroyed
        /\ p.sock = providers[g].sock
    BY <1>1, <1>2 DEF ProviderType
  <2>2. p.text >= providers[g].text
    BY <1>2, <2>1 DEF ProviderType
  <2> QED
    BY <1>2, <2>1, <2>2
<1>4. pageUrl' = pageUrl /\ onDisk' \in [PageNotes -> Nat]
  BY DEF ArmSaveAckTimeout, DocumentTypeOK
<1> QED
  BY <1>1, <1>3, <1>4, SavingKeeps

-----------------------------------------------------------------------------
(* The tree and navigation. *)

LEMMA TreeKeeps ==
    ASSUME DocumentTypeOK, DocumentInv, NEW listing, LoadVaultTree(listing)
    PROVE  DocumentTypeOK' /\ DocumentInv'
<1>1. PICK pg, tree :
          /\ pg = page \/ pg = MarkDocumentNotFound(page, pageUrl)
          /\ Settles(pg, providers, pageUrl, tree)
  BY Zenon DEF LoadVaultTree
<1>2. page \in PageType /\ pageUrl \in Paths /\ providers \in [Generations -> ProviderType]
  BY DEF DocumentTypeOK
<1>3. TeardownProvider(page) \in PageType /\ TeardownProvider(page).provider = 0
  BY <1>2, PageClosed DEF TeardownProvider, PageType
<1>4. MarkDocumentNotFound(page, pageUrl) \in PageType
  BY <1>2, PageClosed
<1>5. MarkDocumentNotFound(page, pageUrl).provider = 0
  BY <1>3 DEF MarkDocumentNotFound, PageType
<1>6. pg \in PageType /\ Attached(pg, providers, pageUrl)
  BY <1>1, <1>2, <1>4, <1>5, StillAttached
<1>7. pageUrl' = pageUrl /\ onDisk' \in [PageNotes -> Nat]
  BY DEF LoadVaultTree, DocumentTypeOK
<1> QED
  BY <1>1, <1>2, <1>6, <1>7, SettlesGives

\* Navigation opens a provider of its own for the path, or holds none.
LEMMA NavigateKeeps ==
    ASSUME DocumentTypeOK, DocumentInv, NEW path \in Paths, NavigatePage(path)
    PROVE  DocumentTypeOK' /\ DocumentInv'
<1>1. PICK pg, all :
          /\ pg = ProviderEffect(page, treeSeen, path)
          /\ all = IF ~ViewingFolder(treeSeen, path)
                   THEN [providers EXCEPT ![pg.gen] = NewProvider(path)] ELSE providers
          /\ Settles(pg, all, path, treeSeen)
  BY Zenon DEF NavigatePage
<1>2. /\ page \in PageType /\ providers \in [Generations -> ProviderType]
      /\ page.gen < MaxProviders
  BY DEF DocumentTypeOK, NavigatePage
<1>3. ASSUME ViewingFolder(treeSeen, path)
      PROVE  pg \in PageType /\ all \in [Generations -> ProviderType] /\ Attached(pg, all, path)
  <2>1. pg = TeardownProvider(page) /\ all = providers
    BY <1>1, <1>3 DEF ProviderEffect
  <2>2. pg \in PageType /\ pg.provider = 0
    BY <1>2, <2>1, PageClosed DEF TeardownProvider, PageType
  <2> QED
    BY <1>2, <2>1, <2>2 DEF Attached
<1>4. ASSUME ~ViewingFolder(treeSeen, path)
      PROVE  pg \in PageType /\ all \in [Generations -> ProviderType] /\ Attached(pg, all, path)
  <2>1. pg = OpenProvider(page, path)
    BY <1>1, <1>4 DEF ProviderEffect
  <2>2. pg \in PageType
    BY <1>2, <2>1, PageClosed
  <2>3. /\ pg.provider = page.gen + 1 /\ pg.gen = page.gen + 1 /\ ~pg.synced
    BY <1>2, <2>1 DEF OpenProvider, PageType
  <2>4. pg.gen \in Generations
    BY <2>2 DEF PageType
  <2>5. NewProvider(path) \in ProviderType
    BY DEF NewProvider, ProviderType
  <2>6. all \in [Generations -> ProviderType] /\ all[pg.gen] = NewProvider(path)
    BY <1>1, <1>2, <1>4, <2>4, <2>5
  <2>7. Attached(pg, all, path)
    BY <2>3, <2>6 DEF Attached, NewProvider
  <2> QED
    BY <2>2, <2>6, <2>7
<1>5. pageUrl' = path /\ onDisk' \in [PageNotes -> Nat]
  BY DEF NavigatePage, DocumentTypeOK
<1>6. pg \in PageType /\ all \in [Generations -> ProviderType] /\ Attached(pg, all, path)
  BY <1>3, <1>4
<1> QED
  BY <1>1, <1>5, <1>6, SettlesGives

\* Every step keeps the invariant of the document.
LEMMA DocumentInvStep ==
    ASSUME DocumentTypeOK, DocumentInv, [PageNext]_pageVars
    PROVE  DocumentTypeOK' /\ DocumentInv'
<1>1. ASSUME UNCHANGED <<pageUrl, page, providers, noteCache>>, onDisk' \in [PageNotes -> Nat]
      PROVE  DocumentTypeOK' /\ DocumentInv'
  BY <1>1 DEF DocumentTypeOK, DocumentInv, Attached, CacheOwn, ShownOwn
<1>2. onDisk \in [PageNotes -> Nat]
  BY DEF DocumentTypeOK
<1>3. CASE HistoryStep
  <2>1. UNCHANGED <<pageUrl, page, providers, noteCache, onDisk>>
    BY <1>3 DEF HistoryStep, OpenHistoryPanel, CloseHistoryPanel, LoadOlderHistory,
       RefreshTimerFires, SavedRefreshesHistory, HistoryHeadAnswers, OlderHistoryLoaded
  <2> QED
    BY <1>1, <1>2, <2>1
<1>4. CASE DocumentStep
  <2>1. ASSUME NEW path \in Paths, NavigatePage(path) PROVE DocumentTypeOK' /\ DocumentInv'
    BY <2>1, NavigateKeeps
  <2>2. ASSUME NEW g \in Generations,
               \/ ConnectionOpens(g) \/ SyncedArrives(g) \/ ConnectionCloses(g)
               \/ ConnectionErrors(g) \/ AcknowledgeSave(g) \/ ArmSaveAckTimeout(g)
               \/ \E kind \in SessionEventKinds : SessionEvent(g, kind)
        PROVE  DocumentTypeOK' /\ DocumentInv'
    BY <2>2, OpensKeeps, SyncedKeeps, ClosesKeeps, ErrorsKeeps, AcknowledgeKeeps, TimeoutKeeps,
       EventKeeps
  <2>3. CASE TrackLocalUpdate
    BY <2>3, TrackKeeps
  <2>4. CASE FetchVaultTree
    BY <2>4, <1>1, <1>2 DEF FetchVaultTree
  <2>5. ASSUME NEW listing \in treeOut, LoadVaultTree(listing) \/ LoadVaultTreeFails(listing)
        PROVE  DocumentTypeOK' /\ DocumentInv'
    BY <2>5, <1>1, <1>2, TreeKeeps DEF LoadVaultTreeFails
  <2>6. ASSUME NEW note \in PageNotes, OthersChange(note)
        PROVE  DocumentTypeOK' /\ DocumentInv'
    <3>1. onDisk' \in [PageNotes -> Nat]
      BY <2>6, <1>2 DEF OthersChange, Absent
    <3> QED
      BY <3>1, <2>6, <1>1 DEF OthersChange
  <2> QED
    BY <1>4, <2>1, <2>2, <2>3, <2>4, <2>5, <2>6 DEF DocumentStep
<1>5. CASE UNCHANGED pageVars
  BY <1>5, <1>1, <1>2 DEF pageVars
<1> QED
  BY <1>3, <1>4, <1>5 DEF PageNext

LEMMA DocumentInvInit ==
    ASSUME PageInit PROVE DocumentTypeOK /\ DocumentInv
<1>1. pageUrl \in Paths /\ onDisk \in [PageNotes -> Nat]
  BY DEF PageInit
<1>2. NoSnapshot \in Snapshot
  BY DEF Snapshot, NoSnapshot
<1>3. 1 \in Generations /\ 1 \in 0..MaxProviders
  BY PageConstants DEF Generations
<1>4. page \in PageType
  BY <1>2, <1>3 DEF PageInit, PageType
<1>5. noteCache \in [Paths -> Snapshot] /\ \A p \in Paths : noteCache[p] = NoSnapshot
  BY <1>2 DEF PageInit
<1>6. \A p \in Paths \cup {NoPath} :
          NewProvider(p) \in ProviderType /\ [NewProvider(p) EXCEPT !.sock = "closed"] \in ProviderType
  BY DEF NewProvider, ProviderType
<1>7. providers \in [Generations -> ProviderType] /\ providers[1] = NewProvider(pageUrl)
  BY <1>1, <1>3, <1>6 DEF PageInit
<1>8. page.provider = 1 /\ page.gen = 1 /\ page.synced = FALSE /\ page.doc = NoSnapshot
  BY DEF PageInit
<1>9. Attached(page, providers, pageUrl)
  BY <1>7, <1>8 DEF Attached, NewProvider
<1> QED
  BY <1>1, <1>4, <1>5, <1>7, <1>8, <1>9 DEF DocumentTypeOK, DocumentInv, CacheOwn, ShownOwn

\* The page is attached, so it shows, lets edit and labels its own note.
LEMMA DocumentIsSound ==
    ASSUME DocumentTypeOK, DocumentInv PROVE PageIsSound
<1>1. Attached(page, providers, pageUrl)
  BY DEF DocumentInv
<1>2. EditableIsSynced
  BY <1>1 DEF EditableIsSynced, Editable, LiveEditorReady, Attached
<1>3. SnapshotIsOwn
  BY DEF SnapshotIsOwn, SnapshotEditorReady, DocumentInv, CacheOwn, ShownOwn
<1>4. ChipIsLoud
  <2>1. ASSUME page.provider # 0, ~ViewingFolder(treeSeen, pageUrl),
               \/ providers[page.provider].sock \in {"closed", "failing"}
               \/ providers[page.provider].late \/ page.failing
        PROVE  StatusLabel # "none"
    <3>1. \/ page.failing \/ page.save = "failed" \/ page.status \in {"closed", "error"}
      BY <1>1, <2>1 DEF Attached
    <3>2. CASE page.failing \/ page.save = "failed"
      BY <2>1, <3>2 DEF StatusLabel
    <3>3. CASE page.status \in {"closed", "error"}
      BY <2>1, <3>3 DEF StatusLabel
    <3> QED
      BY <3>1, <3>2, <3>3
  <2> QED
    BY <2>1 DEF ChipIsLoud
<1> QED
  BY <1>2, <1>3, <1>4 DEF PageIsSound

\* In every behaviour of the page a user can type only into the synced text of
\* the note the URL names, a snapshot is its own note's, and the chip names a
\* lost connection, a late save and a failing one: no callback of a provider
\* that was replaced or torn down changes that.
THEOREM PageSound == PageSpec => []PageIsSound
<1>1. PageInit => DocumentTypeOK /\ DocumentInv
  BY DocumentInvInit
<1>2. DocumentTypeOK /\ DocumentInv /\ [PageNext]_pageVars => DocumentTypeOK' /\ DocumentInv'
  BY DocumentInvStep
<1>3. DocumentTypeOK /\ DocumentInv => PageIsSound
  BY DocumentIsSound
<1> QED
  BY <1>1, <1>2, <1>3, PTL DEF PageSpec

-----------------------------------------------------------------------------
(* The history panel. *)

\* loadHistoryHead makes a request of its own number, the last one.
LEMMA HeadAsked ==
    ASSUME RequestsNumbered, NEW h \in PanelType, h.request = panel.request, NEW path \in Paths,
           LoadHistoryHead(h, path)
    PROVE  /\ panel' \in PanelType
           /\ panel'.request = panel.request + 1
           /\ panel'.open = h.open /\ panel'.timer = h.timer
           /\ \E r \in headOut' : r.id = panel'.request /\ r.note = path
           /\ \A r \in headOut' : r.note \in Paths /\ r.id \in Nat /\ r.id <= panel'.request
           /\ \A r, s \in headOut' : r.id = s.id => r = s
<1>1. panel.request \in Nat
  BY DEF RequestsNumbered, PanelType
<1>2. PICK n \in Nat : n = panel.request + 1
  BY <1>1
<1>3. /\ panel' = [h EXCEPT !.request = n, !.loading = TRUE, !.error = FALSE]
      /\ headOut' = headOut \cup {[id |-> n, note |-> path]}
  BY <1>2 DEF LoadHistoryHead
<1>4. /\ panel' \in PanelType /\ panel'.request = n
      /\ panel'.open = h.open /\ panel'.timer = h.timer
  BY <1>3 DEF PanelType
<1>5. PICK q : q = [id |-> n, note |-> path]
  OBVIOUS
<1>6. q.id = n /\ q.note = path /\ headOut' = headOut \cup {q}
  BY <1>3, <1>5
<1>7. \A r \in headOut : r.id \in Nat /\ r.id <= panel.request /\ r.id # n
  BY <1>1, <1>2 DEF RequestsNumbered
<1>8. \A r \in headOut' : r.note \in Paths /\ r.id \in Nat /\ r.id <= n
  BY <1>1, <1>2, <1>6, <1>7 DEF RequestsNumbered
<1>9. \A r, s \in headOut' : r.id = s.id => r = s
  BY <1>6, <1>7 DEF RequestsNumbered
<1> QED
  BY <1>2, <1>4, <1>6, <1>8, <1>9

\* Steps that change only what the panel shows of its state.
LEMMA PanelOnly ==
    ASSUME PanelInv, DocumentTypeOK, UNCHANGED <<headOut, pageUrl, crossed>>,
           olderOut' \subseteq Paths \cup {NoPath}, panel' \in PanelType,
           panel'.request = panel.request, panel'.open => panel.open /\ panel'.entries = panel.entries,
           panel'.timer \in {panel.timer, pageUrl}
    PROVE  PanelInv'
BY DEF PanelInv, RequestsNumbered, PanelIsComing

\* A request made for the note on screen brings its list; one made for another
\* note counts as crossed.
LEMMA AskedKeeps ==
    ASSUME PanelInv, DocumentTypeOK, NEW h \in PanelType, h.request = panel.request,
           NEW path \in Paths, LoadHistoryHead(h, path), UNCHANGED olderOut, crossed' \in BOOLEAN,
           ~crossed' => path = pageUrl'
    PROVE  PanelInv'
<1>1. RequestsNumbered
  BY DEF PanelInv
<1>2. /\ panel' \in PanelType
      /\ \E r \in headOut' : r.id = panel'.request /\ r.note = path
      /\ \A r \in headOut' : r.note \in Paths /\ r.id \in Nat /\ r.id <= panel'.request
      /\ \A r, s \in headOut' : r.id = s.id => r = s
  BY <1>1, HeadAsked
<1> QED
  BY <1>1, <1>2 DEF PanelInv, RequestsNumbered, PanelIsComing

\* Only the answer to the last request counts, and one for another note leaves
\* the refresh that will replace it.
LEMMA AnswerKeeps ==
    ASSUME PanelInv, DocumentTypeOK, NEW request \in headOut, NEW ok \in BOOLEAN,
           HistoryHeadAnswers(request, ok)
    PROVE  PanelInv'
<1>1. RequestsNumbered /\ PanelIsComing
  BY DEF PanelInv
<1>2. /\ headOut' = headOut \ {request} /\ panel' = HistoryHeadLoaded(panel, request, ok)
      /\ UNCHANGED <<pageUrl, olderOut>>
  BY DEF HistoryHeadAnswers
<1>3. panel \in PanelType /\ request.note \in Paths /\ crossed \in BOOLEAN
  BY <1>1 DEF RequestsNumbered
<1>4. /\ panel' \in PanelType /\ panel'.request = panel.request /\ panel'.open = panel.open
      /\ panel'.timer = panel.timer
      /\ request.id # panel.request \/ ~ok => panel'.entries = panel.entries
      /\ request.id = panel.request /\ ok => panel'.entries = {request.note}
  BY <1>2, <1>3 DEF HistoryHeadLoaded, PanelType
<1>5. RequestsNumbered'
  <2>1. crossed' \in BOOLEAN
    BY <1>3 DEF HistoryHeadAnswers
  <2> QED
    BY <1>1, <1>2, <1>4, <2>1 DEF RequestsNumbered
<1>6. PanelIsComing'
  <2>1. CASE request.id # panel.request
    <3>1. crossed' = crossed
      BY <2>1 DEF HistoryHeadAnswers
    <3> QED
      BY <1>1, <1>2, <1>4, <2>1, <3>1 DEF PanelIsComing
  <2>2. CASE request.id = panel.request
    <3>1. \A r \in headOut' : r.id # panel.request
      BY <1>1, <1>2, <2>2 DEF RequestsNumbered
    <3>2. CASE ok
      <4>1. crossed' = (crossed /\ request.note # pageUrl)
        BY <2>2, <3>2 DEF HistoryHeadAnswers
      <4>2. CASE request.note = pageUrl
        BY <1>2, <1>4, <2>2, <3>1, <3>2, <4>2 DEF PanelIsComing
      <4>3. CASE request.note # pageUrl
        <5>1. ~\E r \in headOut : r.id = panel.request /\ r.note = pageUrl
          BY <1>1, <2>2, <4>3 DEF RequestsNumbered
        <5>2. crossed' = crossed
          BY <1>3, <4>1, <4>3
        <5>3. panel.open /\ ~crossed => panel.timer = pageUrl
          BY <1>1, <2>2, <4>3, <5>1 DEF PanelIsComing
        <5> QED
          BY <1>2, <1>4, <5>2, <5>3 DEF PanelIsComing
      <4> QED
        BY <4>2, <4>3
    <3>3. CASE ~ok
      <4>1. crossed' = (crossed \/ panel.entries # {pageUrl})
        BY <2>2, <3>3 DEF HistoryHeadAnswers
      <4> QED
        BY <1>2, <1>4, <3>1, <3>3, <4>1 DEF PanelIsComing
    <3> QED
      BY <3>2, <3>3
  <2> QED
    BY <2>1, <2>2
<1> QED
  BY <1>5, <1>6 DEF PanelInv

\* Older versions join a list of the same note, or count as crossed.
LEMMA OlderKeeps ==
    ASSUME PanelInv, DocumentTypeOK, NEW note \in olderOut, NEW ok \in BOOLEAN,
           OlderHistoryLoaded(note, ok)
    PROVE  PanelInv'
<1>1. RequestsNumbered /\ PanelIsComing
  BY DEF PanelInv
<1>2. /\ UNCHANGED <<pageUrl, headOut>> /\ olderOut' = {}
      /\ panel' = [panel EXCEPT !.entries = IF ok THEN @ \cup {note} ELSE @, !.more = FALSE,
                                !.error = @ \/ ~ok]
      /\ crossed' = (crossed \/ (ok /\ panel.entries # {note}))
  BY DEF OlderHistoryLoaded
<1>3. panel \in PanelType /\ note \in Paths \cup {NoPath} /\ crossed \in BOOLEAN
  BY <1>1 DEF RequestsNumbered
<1>4. PICK e \in BOOLEAN : e = (panel.error \/ ~ok)
  BY <1>3 DEF PanelType
<1>5. PICK all \in SUBSET (Paths \cup {NoPath}) : all = IF ok THEN panel.entries \cup {note} ELSE panel.entries
  BY <1>3 DEF PanelType
<1>6. panel' = [panel EXCEPT !.entries = all, !.more = FALSE, !.error = e]
  BY <1>2, <1>4, <1>5
<1>7. /\ panel' \in PanelType /\ panel'.request = panel.request /\ panel'.open = panel.open
      /\ panel'.timer = panel.timer /\ panel'.entries = all
  BY <1>3, <1>6 DEF PanelType
<1>8. ~crossed' => ~crossed /\ all = panel.entries
  BY <1>2, <1>5
<1>9. crossed' \in BOOLEAN
  BY <1>2
<1> QED
  BY <1>1, <1>2, <1>7, <1>8, <1>9 DEF PanelInv, RequestsNumbered, PanelIsComing

\* A panel that is reset for a folder is closed.
LEMMA ResetFields ==
    ASSUME NEW h \in PanelType
    PROVE  /\ ResetHistoryState(h) \in PanelType
           /\ ResetHistoryState(h).request = h.request
           /\ ResetHistoryState(h).timer = h.timer
           /\ ClosedOverFolder(h) \in PanelType
           /\ ClosedOverFolder(h).request = h.request
           /\ ClosedOverFolder(h).timer = h.timer
           /\ ~ClosedOverFolder(h).open
<1>1. /\ ResetHistoryState(h) \in PanelType
      /\ ResetHistoryState(h).request = h.request
      /\ ResetHistoryState(h).timer = h.timer
  BY DEF ResetHistoryState, PanelType
<1> QED
  BY <1>1 DEF ClosedOverFolder, PanelType

\* Navigation with the panel open schedules a refresh for the new path before
\* anything else, or closes the panel over a folder.
LEMMA PanelNavigates ==
    ASSUME PanelInv, DocumentTypeOK, NEW path \in Paths, NavigatePage(path)
    PROVE  PanelInv'
<1>1. RequestsNumbered
  BY DEF PanelInv
<1>2. panel \in PanelType /\ crossed \in BOOLEAN
  BY <1>1 DEF RequestsNumbered
<1>3. PICK h : h = ScheduleHistoryRefresh(panel, treeSeen, path)
  OBVIOUS
<1>4. /\ h \in PanelType /\ h.request = panel.request /\ h.open = panel.open
      /\ panel.open /\ ~ViewingFolder(treeSeen, path) => h.timer = path
  BY <1>2, <1>3 DEF ScheduleHistoryRefresh, PanelType
<1>5. HistoryEffect(h, treeSeen, path) /\ pageUrl' = path /\ UNCHANGED <<olderOut, crossed>>
  BY <1>3 DEF NavigatePage
<1>6. CASE h.open /\ ViewingFolder(treeSeen, path)
  <2>1. panel' = ClosedOverFolder(h) /\ UNCHANGED headOut
    BY <1>5, <1>6 DEF HistoryEffect
  <2>2. panel' \in PanelType /\ panel'.request = panel.request /\ ~panel'.open
    BY <1>4, <2>1, ResetFields
  <2> QED
    BY <1>1, <1>5, <2>1, <2>2 DEF PanelInv, RequestsNumbered, PanelIsComing
<1>7. CASE ~(h.open /\ ViewingFolder(treeSeen, path)) /\ h.open /\ h.loaded # path
  <2>1. LoadHistoryHead(h, path)
    BY <1>5, <1>7 DEF HistoryEffect
  <2> QED
    BY <1>2, <1>4, <1>5, <2>1, AskedKeeps
<1>8. CASE ~(h.open /\ ViewingFolder(treeSeen, path)) /\ ~(h.open /\ h.loaded # path)
  <2>1. panel' = h /\ UNCHANGED headOut
    BY <1>5, <1>8 DEF HistoryEffect
  <2> QED
    BY <1>1, <1>4, <1>5, <1>8, <2>1 DEF PanelInv, RequestsNumbered, PanelIsComing
<1> QED
  BY <1>6, <1>7, <1>8

\* Every step keeps the invariant of the panel.
LEMMA PanelInvStep ==
    ASSUME DocumentTypeOK, PanelInv, [PageNext]_pageVars
    PROVE  PanelInv'
<1>1. panel \in PanelType /\ pageUrl \in Paths /\ crossed \in BOOLEAN
      /\ olderOut \subseteq Paths \cup {NoPath}
  BY DEF PanelInv, RequestsNumbered, DocumentTypeOK
<1>2. ASSUME UNCHANGED <<panel, headOut, olderOut, crossed, pageUrl>> PROVE PanelInv'
  BY <1>2 DEF PanelInv, RequestsNumbered, PanelIsComing
<1>3. CASE OpenHistoryPanel
  <2>1. PICK h : /\ h = [ResetHistoryState(panel) EXCEPT !.open = TRUE]
                 /\ LoadHistoryHead(h, pageUrl)
    BY <1>3 DEF OpenHistoryPanel
  <2>2. h \in PanelType /\ h.request = panel.request
    BY <1>1, <2>1, ResetFields DEF PanelType
  <2> QED
    BY <1>1, <1>3, <2>1, <2>2, AskedKeeps DEF OpenHistoryPanel
<1>4. CASE CloseHistoryPanel
  <2>1. panel' \in PanelType /\ panel'.request = panel.request /\ panel'.timer = panel.timer /\ ~panel'.open
    BY <1>1, <1>4 DEF CloseHistoryPanel, PanelType
  <2> QED
    BY <1>1, <1>4, <2>1, PanelOnly DEF CloseHistoryPanel
<1>5. CASE LoadOlderHistory
  <2>1. /\ panel' \in PanelType /\ panel'.request = panel.request /\ panel'.timer = panel.timer
        /\ panel'.open = panel.open /\ panel'.entries = panel.entries
    BY <1>1, <1>5 DEF LoadOlderHistory, PanelType
  <2>2. olderOut' \subseteq Paths \cup {NoPath}
    BY <1>1, <1>5 DEF LoadOlderHistory, PanelType
  <2> QED
    BY <1>1, <1>5, <2>1, <2>2, PanelOnly DEF LoadOlderHistory
<1>6. CASE RefreshTimerFires
  <2>1. PICK h, path :
            /\ h = [panel EXCEPT !.timer = NoPath] /\ path = panel.timer
            /\ LoadHistoryHead(h, path)
    BY <1>6 DEF RefreshTimerFires
  <2>2. h \in PanelType /\ h.request = panel.request /\ path \in Paths
    BY <1>1, <1>6, <2>1 DEF RefreshTimerFires, PanelType
  <2>3. /\ crossed' = (crossed \/ path # pageUrl) /\ UNCHANGED <<olderOut, pageUrl>>
    BY <1>6, <2>1 DEF RefreshTimerFires
  <2>4. crossed' \in BOOLEAN /\ (~crossed' => path = pageUrl')
    BY <2>3
  <2> QED
    BY <2>1, <2>2, <2>3, <2>4, AskedKeeps
<1>7. CASE SavedRefreshesHistory
  <2>1. /\ panel' \in PanelType /\ panel'.request = panel.request
        /\ panel'.timer \in {panel.timer, pageUrl}
        /\ panel'.open = panel.open /\ panel'.entries = panel.entries
    BY <1>1, <1>7 DEF SavedRefreshesHistory, ScheduleHistoryRefresh, PanelType
  <2> QED
    BY <1>1, <1>7, <2>1, PanelOnly DEF SavedRefreshesHistory
<1>8. ASSUME NEW request \in headOut, NEW ok \in BOOLEAN, HistoryHeadAnswers(request, ok)
      PROVE  PanelInv'
  BY <1>8, AnswerKeeps
<1>9. ASSUME NEW note \in olderOut, NEW ok \in BOOLEAN, OlderHistoryLoaded(note, ok)
      PROVE  PanelInv'
  BY <1>9, OlderKeeps
<1>10. ASSUME NEW path \in Paths, NavigatePage(path) PROVE PanelInv'
  BY <1>10, PanelNavigates
<1>11. ASSUME NEW listing \in treeOut, LoadVaultTree(listing) PROVE PanelInv'
  <2>1. panel' = panel \/ panel' = ClosedOverFolder(panel)
    BY <1>11, Zenon DEF LoadVaultTree
  <2>2. UNCHANGED <<pageUrl, headOut, olderOut, crossed>>
    BY <1>11 DEF LoadVaultTree
  <2>3. CASE panel' = panel
    BY <1>2, <2>2, <2>3
  <2>4. CASE panel' = ClosedOverFolder(panel)
    <3>1. panel' \in PanelType /\ panel'.request = panel.request /\ panel'.timer = panel.timer
          /\ ~panel'.open
      BY <1>1, <2>4, ResetFields
    <3> QED
      BY <1>1, <2>2, <3>1, PanelOnly
  <2> QED
    BY <2>1, <2>3, <2>4
<1>12. CASE HistoryStep
  BY <1>12, <1>3, <1>4, <1>5, <1>6, <1>7, <1>8, <1>9 DEF HistoryStep
<1>13. CASE DocumentStep
  <2>1. ASSUME NEW g \in Generations,
               \/ ConnectionOpens(g) \/ SyncedArrives(g) \/ ConnectionCloses(g)
               \/ ConnectionErrors(g) \/ AcknowledgeSave(g) \/ ArmSaveAckTimeout(g)
               \/ \E kind \in SessionEventKinds : SessionEvent(g, kind)
        PROVE  UNCHANGED <<panel, headOut, olderOut, crossed, pageUrl>>
    BY <2>1 DEF ConnectionOpens, SyncedArrives, ConnectionCloses, ConnectionErrors,
       AcknowledgeSave, ArmSaveAckTimeout, SessionEvent, historyPart
  <2>2. ASSUME NEW listing \in treeOut, LoadVaultTreeFails(listing)
        PROVE  UNCHANGED <<panel, headOut, olderOut, crossed, pageUrl>>
    BY <2>2 DEF LoadVaultTreeFails, historyPart
  <2>3. ASSUME TrackLocalUpdate \/ FetchVaultTree \/ \E note \in PageNotes : OthersChange(note)
        PROVE  UNCHANGED <<panel, headOut, olderOut, crossed, pageUrl>>
    BY <2>3 DEF TrackLocalUpdate, FetchVaultTree, OthersChange, historyPart
  <2> QED
    BY <1>13, <1>2, <1>10, <1>11, <2>1, <2>2, <2>3 DEF DocumentStep
<1>14. CASE UNCHANGED pageVars
  BY <1>14, <1>2 DEF pageVars
<1> QED
  BY <1>12, <1>13, <1>14 DEF PageNext

\* In every behaviour of the page an open panel whose requests are answered and
\* whose timer has run lists the versions of the note the URL names, unless a
\* load failed, a stale timer ran or a late older page came since.
THEOREM HistorySettles == PageSpec => []HistoryIsOfTheNote
<1>1. PageInit => DocumentTypeOK /\ DocumentInv
  BY DocumentInvInit
<1>2. DocumentTypeOK /\ DocumentInv /\ [PageNext]_pageVars => DocumentTypeOK' /\ DocumentInv'
  BY DocumentInvStep
<1>3. PageInit => PanelInv
  <2>1. ClosedPanel \in PanelType
    BY DEF ClosedPanel, PanelType
  <2> QED
    <3>1. ClosedPanel.open = FALSE
      BY DEF ClosedPanel
    <3>2. ASSUME PageInit
          PROVE  panel = ClosedPanel /\ headOut = {} /\ olderOut = {} /\ crossed = FALSE
      BY <3>2 DEF PageInit
    <3> QED
      BY <2>1, <3>1, <3>2 DEF PanelInv, RequestsNumbered, PanelIsComing
<1>4. DocumentTypeOK /\ PanelInv /\ [PageNext]_pageVars => PanelInv'
  BY PanelInvStep
<1>5. DocumentTypeOK /\ PanelInv => HistoryIsOfTheNote
  BY PageConstants DEF DocumentTypeOK, PanelInv, PanelIsComing, HistoryIsOfTheNote
<1> QED
  BY <1>1, <1>2, <1>3, <1>4, <1>5, PTL DEF PageSpec
=============================================================================
