--------------------------- MODULE DocumentLineage ---------------------------
(***************************************************************************)
(* The Yjs documents of one note: the one of the live session              *)
(* (packages/doc-session/src/session.ts), the state snapshot it leaves     *)
(* beside the file, and the ones of the peers that sync with it over a     *)
(* socket (websocket.ts, apps/web local-document-provider.ts), across      *)
(* crashes of the daemon, edits of the file while it is down, and peers    *)
(* that come back with the document they had.                              *)
(*                                                                         *)
(* A document is a set of inserted items and the set of deleted item ids.  *)
(* An item carries one letter, the id <<client, clock>> Yjs gives it, and  *)
(* the ids it needs before it can be integrated.  The order of the letters *)
(* is left out: text is the number of live copies of each letter.          *)
(***************************************************************************)
EXTENDS Naturals, Sequences, FiniteSets, SequencesExt

CONSTANTS Peers,       \* documents of browsers, one per provider
          Letters,     \* pieces of text, each typed at most once
          MaxLoads,    \* bound: times the session loads the note
          MaxEdits,    \* bound: edits of peers, the agent and other programs
          Reconnects   \* whether a peer may come back with the document it had

ASSUME LineageBounds ==
    /\ MaxLoads \in Nat \ {0} /\ MaxEdits \in Nat
    /\ Reconnects \in BOOLEAN

VARIABLES
    noteFile,   \* content of the markdown file
    stateFile,  \* the state snapshot: the hash of a content and a document; or none
    live,       \* the session: up, its document, nonEmptyMaterializedContent, the persist loop
    peer,       \* per peer: its document, its socket, whether it is synced
    up,         \* per peer: messages on their way to the session
    down,       \* per peer: messages on their way to the peer
    agent,      \* the last readWithBaseline of an agent
    loads, edits

lineageVars == <<noteFile, stateFile, live, peer, up, down, agent, loads, edits>>

-----------------------------------------------------------------------------
(* Yjs, as far as the code relies on it.                                   *)

Id(i) == <<i.client, i.clock>>
Ids(items) == {Id(i) : i \in items}
NewDoc == [items |-> {}, gone |-> {}]
Blank == [l \in Letters |-> 0]

\* Client ids: a document of the session each time it is loaded, and one per peer.
SessionClient(n) == <<"session", n>>
PeerClient(p) == <<"peer", p>>
Agent == 0

\* Items whose dependencies are all here; the others stay pending.
Integrated(doc) == {i \in doc.items : i.past \subseteq Ids(doc.items)}
Shown(doc) == {i \in Integrated(doc) : Id(i) \notin doc.gone}
ItemText(doc) == [l \in Letters |-> Cardinality({i \in Shown(doc) : i.letter = l})]

\* encodeStateVector: what was integrated.  Deletions leave no trace in it.
StateVector(doc) == Ids(Integrated(doc))
Clients(vector) == {id[1] : id \in vector}

\* encodeStateAsUpdate: what the vector lacks, and every deletion.
Diff(doc, vector) == [items |-> {i \in doc.items : Id(i) \notin vector}, gone |-> doc.gone]
ApplyUpdate(doc, update) == [items |-> doc.items \cup update.items, gone |-> doc.gone \cup update.gone]

\* The letters of seq inserted by a client in one transaction, after an item of
\* the document when it has one.
Insert(doc, client, seq, after) ==
    LET own == {i \in doc.items : i.client = client}
        old == Ids(own) \cup UNION {i.past : i \in own}
               \cup IF after = NewDoc THEN {} ELSE {Id(after)} \cup after.past
        first == Cardinality(own)
        new == {[letter |-> seq[k], client |-> client, clock |-> first + k,
                 past |-> old \cup {<<client, first + j>> : j \in 1..(k - 1)}] : k \in DOMAIN seq}
    IN  [doc EXCEPT !.items = @ \cup new]
Anchors(doc) == IF Integrated(doc) = {} THEN {NewDoc} ELSE Integrated(doc)

Copies(content) == SetToSeq({<<l, n>> \in Letters \X (1..2) : n <= content[l]})
LettersOf(content) == [k \in DOMAIN Copies(content) |-> Copies(content)[k][1]]

-----------------------------------------------------------------------------
(* The session.                                                            *)

NoAgent == [step |-> "idle", content |-> Blank]
Down == [up |-> FALSE, doc |-> NewDoc, materialized |-> FALSE, persist |-> NoAgent, requested |-> FALSE]
NoState == [hash |-> {}, doc |-> NewDoc]
NotRead == [vector |-> {}, text |-> Blank, accepted |-> FALSE, now |-> Blank, read |-> FALSE]

LineageInit ==
    /\ noteFile \in {[l \in Letters |-> IF l \in has THEN 1 ELSE 0] : has \in SUBSET {1}}
    /\ stateFile = NoState
    /\ live = Down
    /\ peer = [p \in Peers |-> [doc |-> NewDoc, socket |-> "new", synced |-> FALSE, bound |-> FALSE,
                                 refused |-> FALSE, settled |-> FALSE]]
    /\ up = [p \in Peers |-> <<>>]
    /\ down = [p \in Peers |-> <<>>]
    /\ agent = NotRead
    /\ loads = 0 /\ edits = 0

\* A restore that trusts the hash of the snapshot.
RestoreByHash(content, client) ==
    IF stateFile.hash = {content} THEN stateFile.doc
    ELSE Insert(NewDoc, client, LettersOf(content), NewDoc)

\* tryRestoreStateSnapshot: a snapshot of this content is taken over ("valid"), or
\* cleared and refilled when its document holds other text ("repaired"); without one
\* ("disabled", "missing", "stale", "invalid") loadFromFile inserts the content into a
\* new document.
Restored(content, client) ==
    IF stateFile.hash # {content} THEN Insert(NewDoc, client, LettersOf(content), NewDoc)
    ELSE IF ItemText(stateFile.doc) = content THEN stateFile.doc
    ELSE LET cleared == [stateFile.doc EXCEPT !.gone = @ \cup Ids(Shown(stateFile.doc))]
         IN  Insert(cleared, client, LettersOf(content), CHOOSE i \in Anchors(cleared) : TRUE)

\* loadFromFile; the session is open once its snapshot is written.
LoadFromFile ==
    /\ ~live.up /\ loads < MaxLoads
    /\ loads' = loads + 1
    /\ LET doc == Restored(noteFile, SessionClient(loads + 1))
       IN  /\ live' = [Down EXCEPT !.up = TRUE, !.doc = doc, !.materialized = noteFile # Blank]
           /\ stateFile' = [hash |-> {noteFile}, doc |-> doc]
    /\ UNCHANGED <<noteFile, peer, up, down, agent, edits>>

\* A broadcast that leaves out the peers that are still syncing.
ChangedWhenSynced(doc, update, sender) ==
    /\ live' = [live EXCEPT !.doc = doc, !.requested = TRUE]
    /\ down' = [p \in Peers |-> IF p # sender /\ peer[p].synced /\ peer[p].socket = "open"
                                THEN Append(down[p], [kind |-> "update", doc |-> update])
                                ELSE down[p]]

\* handleDocumentUpdate requests a persist; the update goes to every bound peer but its sender.
Changed(doc, update, sender) ==
    /\ live' = [live EXCEPT !.doc = doc, !.requested = TRUE]
    /\ down' = [p \in Peers |-> IF p # sender /\ peer[p].bound /\ peer[p].socket = "open"
                                THEN Append(down[p], [kind |-> "update", doc |-> update])
                                ELSE down[p]]

\* materialize: the content is captured, ...
PersistStarts ==
    /\ live.up /\ live.requested /\ live.persist.step = "idle"
    /\ live' = [live EXCEPT !.requested = FALSE, !.persist = [step |-> "write", content |-> ItemText(live.doc)]]
    /\ UNCHANGED <<noteFile, stateFile, peer, up, down, agent, loads, edits>>

\* ... renamed over the markdown file, ...
PersistWrites ==
    /\ live.up /\ live.persist.step = "write"
    /\ noteFile' = live.persist.content
    /\ live' = [live EXCEPT !.persist.step = "snapshot"]
    /\ UNCHANGED <<stateFile, peer, up, down, agent, loads, edits>>

\* ... and the snapshot gets the hash of that content and the document of this
\* moment, which may be newer.
WriteStateSnapshot ==
    /\ live.up /\ live.persist.step = "snapshot"
    /\ stateFile' = [hash |-> {live.persist.content}, doc |-> live.doc]
    /\ live' = [live EXCEPT !.persist = NoAgent, !.materialized = live.persist.content # Blank]
    /\ UNCHANGED <<noteFile, peer, up, down, agent, loads, edits>>

\* The daemon dies, at any point of a persist; sockets break.
Crash ==
    /\ live.up
    /\ live' = Down
    /\ peer' = [p \in Peers |-> [peer[p] EXCEPT !.socket = IF @ = "new" THEN @ ELSE "closed",
                                                !.bound = FALSE, !.settled = FALSE]]
    /\ up' = [p \in Peers |-> <<>>] /\ down' = [p \in Peers |-> <<>>]
    /\ agent' = NotRead
    /\ UNCHANGED <<noteFile, stateFile, loads, edits>>

\* Another program edits the file while no session is open (an edit under a live
\* session is module DocumentSession's).
EditedElsewhere(l) ==
    /\ ~live.up /\ edits < MaxEdits
    /\ edits' = edits + 1
    /\ noteFile' = [noteFile EXCEPT ![l] = 1 - @]
    /\ UNCHANGED <<stateFile, live, peer, up, down, agent, loads>>

\* readWithBaseline.
ReadWithBaseline ==
    /\ live.up
    /\ agent' = [vector |-> StateVector(live.doc), text |-> ItemText(live.doc), accepted |-> FALSE,
               now |-> ItemText(live.doc), read |-> TRUE]
    /\ UNCHANGED <<noteFile, stateFile, live, peer, up, down, loads, edits>>

Typed == {i.letter : i \in live.doc.items \cup UNION {peer[p].doc.items : p \in Peers}}
Unused == {l \in Letters : l \notin Typed /\ noteFile[l] = 0}

\* applyBaselineEdit: refused with stale_doc unless the baseline is the vector of now.
ApplyBaselineEdit ==
    /\ live.up /\ agent.read /\ edits < MaxEdits
    /\ edits' = edits + 1
    /\ IF agent.vector # StateVector(live.doc)
       THEN agent' = NotRead /\ UNCHANGED <<live, down>>
       ELSE \E l \in Unused, a \in Anchors(live.doc) :
                LET doc == Insert(live.doc, SessionClient(loads), <<l>>, a)
                IN  /\ Changed(doc, Diff(doc, StateVector(live.doc)), Agent)
                    /\ agent' = [agent EXCEPT !.accepted = TRUE, !.read = FALSE, !.now = ItemText(live.doc)]
    /\ UNCHANGED <<noteFile, stateFile, peer, up, loads>>

-----------------------------------------------------------------------------
(* The binding of a socket: bindYjsWebSocket.                              *)

\* A binding without the check for independent documents.
NeverUnsafe(update) == FALSE

\* hasUnsafeIndependentUpdate: text that shares no client with a note that has text
\* on disk and in memory.
HasUnsafeIndependentUpdate(update) ==
    /\ live.materialized
    /\ ItemText(live.doc) # Blank
    /\ ItemText(update) # Blank
    /\ Clients(StateVector(live.doc)) \cap Clients(StateVector(update)) = {}

\* processYjsSyncPayload of a SyncStep1: the answer, and the synced marker.
Answer(vector) == <<[kind |-> "update", doc |-> Diff(live.doc, vector)], [kind |-> "synced"]>>
AskFor(doc) == <<[kind |-> "step1", vector |-> StateVector(doc)]>>

\* The browser's socket opens and SyncStep1 goes out.
PeerConnects(p) ==
    /\ live.up
    /\ peer[p].socket = "new" \/ (Reconnects /\ peer[p].socket = "closed")
    /\ peer' = [peer EXCEPT ![p].socket = "open", ![p].bound = FALSE, ![p].refused = FALSE]
    /\ up' = [up EXCEPT ![p] = AskFor(peer[p].doc)]
    /\ down' = [down EXCEPT ![p] = <<>>]
    /\ UNCHANGED <<noteFile, stateFile, live, agent, loads, edits>>

\* The session is ready: the binding listens to the document, answers the SyncStep1 that
\* came while the session opened, if it has come, and asks for what the peer has.
Bind(p) ==
    /\ live.up /\ peer[p].socket = "open" /\ ~peer[p].bound
    /\ peer' = [peer EXCEPT ![p].bound = TRUE]
    /\ \/ /\ down' = [down EXCEPT ![p] = AskFor(live.doc)]
          /\ UNCHANGED up
       \/ /\ down' = [down EXCEPT ![p] = Answer(Head(up[p]).vector) \o AskFor(live.doc)]
          /\ up' = [up EXCEPT ![p] = Tail(@)]
    /\ UNCHANGED <<noteFile, stateFile, live, agent, loads, edits>>

Received(p, kinds) == up[p] # <<>> /\ Head(up[p]).kind \in kinds /\ peer[p].socket = "open"
                      /\ peer[p].bound

AnswersStep1(p) ==
    /\ Received(p, {"step1"})
    /\ up' = [up EXCEPT ![p] = Tail(@)]
    /\ down' = [down EXCEPT ![p] = @ \o Answer(Head(up[p]).vector)]
    /\ UNCHANGED <<noteFile, stateFile, live, peer, agent, loads, edits>>

\* A SyncStep2, an update or an acked update.
ReceivesUpdate(p) ==
    /\ Received(p, {"step2", "acked"})
    /\ LET update == Head(up[p]).doc
       IN  IF HasUnsafeIndependentUpdate(update)
           THEN /\ peer' = [peer EXCEPT ![p].socket = "closing", ![p].bound = FALSE, ![p].refused = TRUE]
                /\ up' = [up EXCEPT ![p] = <<>>]
                /\ UNCHANGED <<live, down>>
           ELSE /\ up' = [up EXCEPT ![p] = Tail(@)]
                /\ peer' = [peer EXCEPT ![p].settled = @ \/ Head(up[p]).kind = "step2"]
                /\ IF ApplyUpdate(live.doc, update) = live.doc THEN UNCHANGED <<live, down>>
                   ELSE Changed(ApplyUpdate(live.doc, update), update, p)
    /\ UNCHANGED <<noteFile, stateFile, agent, loads, edits>>

-----------------------------------------------------------------------------
(* The browser: createLocalDocumentProvider.                               *)

\* A message listener of the socket: an update is applied, a SyncStep1 answered.
PeerReceives(p) ==
    /\ down[p] # <<>> /\ peer[p].socket \in {"open", "closing"}
    /\ LET m == Head(down[p])
       IN  /\ peer' = [peer EXCEPT ![p] =
                  CASE m.kind = "update" -> [@ EXCEPT !.doc = ApplyUpdate(@, m.doc)]
                    [] m.kind = "synced" -> [@ EXCEPT !.synced = TRUE]
                    [] OTHER -> @]
           /\ up' = IF m.kind = "step1" /\ peer[p].socket = "open"
                    THEN [up EXCEPT ![p] = Append(@, [kind |-> "step2", doc |-> Diff(peer[p].doc, m.vector)])]
                    ELSE up
    /\ down' = [down EXCEPT ![p] = Tail(@)]
    /\ UNCHANGED <<noteFile, stateFile, live, agent, loads, edits>>

\* The close frame arrives after what was sent before it.
PeerClosed(p) ==
    /\ peer[p].socket = "closing" /\ down[p] = <<>>
    /\ peer' = [peer EXCEPT ![p].socket = "closed"]
    /\ UNCHANGED <<noteFile, stateFile, live, up, down, agent, loads, edits>>

\* trackLocalUpdate: the edit goes out as an acked update when the socket is open.
PeerEdits(p, doc) ==
    /\ peer[p].synced /\ edits < MaxEdits
    /\ edits' = edits + 1
    /\ peer' = [peer EXCEPT ![p].doc = doc]
    /\ up' = IF peer[p].socket # "open" THEN up
             ELSE [up EXCEPT ![p] = Append(@, [kind |-> "acked",
                      doc |-> [items |-> doc.items \ peer[p].doc.items, gone |-> doc.gone \ peer[p].doc.gone]])]
    /\ UNCHANGED <<noteFile, stateFile, live, down, agent, loads>>

\* Typing is possible once the provider is synced.
PeerTypes(p) ==
    \E l \in Unused, a \in Anchors(peer[p].doc) : PeerEdits(p, Insert(peer[p].doc, PeerClient(p), <<l>>, a))
PeerDeletes(p) ==
    \E i \in Shown(peer[p].doc) : PeerEdits(p, [peer[p].doc EXCEPT !.gone = @ \cup {Id(i)}])

LineageNext ==
    \/ LoadFromFile
    \/ PersistStarts
    \/ PersistWrites
    \/ WriteStateSnapshot
    \/ Crash
    \/ \E l \in Letters : EditedElsewhere(l)
    \/ ReadWithBaseline
    \/ ApplyBaselineEdit
    \/ \E p \in Peers : PeerConnects(p)
    \/ \E p \in Peers : Bind(p)
    \/ \E p \in Peers : AnswersStep1(p)
    \/ \E p \in Peers : ReceivesUpdate(p)
    \/ \E p \in Peers : PeerReceives(p)
    \/ \E p \in Peers : PeerClosed(p)
    \/ \E p \in Peers : PeerTypes(p)
    \/ \E p \in Peers : PeerDeletes(p)

LineageSpec == LineageInit /\ [][LineageNext]_lineageVars

-----------------------------------------------------------------------------

\* Whatever a crash left of the snapshot, and whatever was done to the file since, a
\* session opens on the text of the file (filesystem-durable-truth; tryRestoreStateSnapshot).
OpensOnTheFile == [][~live.up /\ live'.up => ItemText(live'.doc) = noteFile]_lineageVars

\* A note that has text on disk and in memory never gets a second copy of a letter from a peer that
\* comes back with an older document, in one step or over several connections (rejects
\* stale independent peer updates without amplifying durable bytes).
NothingAmplified ==
    [][live.up /\ live.materialized /\ ItemText(live.doc) # Blank =>
          \A l \in Letters : ItemText(live'.doc)[l] <= 1 \/ ItemText(live'.doc)[l] <= ItemText(live.doc)[l]]_lineageVars

\* A peer whose queues are empty after the handshake shows what the session holds.
PeersConverge ==
    \A p \in Peers :
        peer[p].socket = "open" /\ peer[p].settled /\ peer[p].synced /\ up[p] = <<>> /\ down[p] = <<>> =>
            ItemText(peer[p].doc) = ItemText(live.doc)

\* An edit of an agent is accepted only when the note still reads as it did when the
\* agent got its baseline (README: stale baselines return stale_doc).
StaleBaselineIsRefused == agent.accepted => agent.text = agent.now

\* A note has one lineage: a session opens on the file, its peers converge on it
\* and none of them brings an old copy back into it.
LineageIsSound == []PeersConverge /\ OpensOnTheFile /\ NothingAmplified
=============================================================================
