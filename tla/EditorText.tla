----------------------------- MODULE EditorText -----------------------------
(***************************************************************************)
(* The markdown editor (packages/editor/src/lib: PlaintextEditor.svelte    *)
(* and its plaintext-*.ts extensions) on a note's shared text: the sync    *)
(* between the Y.Text and CodeMirror's document in both directions, undo,  *)
(* image uploads that finish after the text has moved on, the carets of    *)
(* peers, the mention popover, the keys that edit whole mentions and list  *)
(* levels.  JavaScript runs one event at a time: an action is a            *)
(* transaction with every extension's update.                              *)
(***************************************************************************)
EXTENDS Integers, Sequences, FiniteSets, FiniteSetsExt, SequencesExt

CONSTANTS NoteTexts,     \* the texts the note may have: sequences of characters
          Insertions,    \* what one keystroke, paste or peer inserts
          People,        \* the directory: a sequence of one-letter names
          Uploads,       \* image files to paste
          Peers,         \* awareness clients; two of one user after a reconnect
          UserOf(_),
          MaxEditorOps   \* bound on the steps of users

VARIABLES ytext,          \* the Y.Text: its characters in order, deleted ones kept
          doc,           \* CodeMirror's document: its characters
          sel,           \* the main selection
          mode,          \* whether the editor is editable and focused; the timer of its mount
          undos, redos,  \* the Y.UndoManager's stacks
          upload,        \* each upload's state
          aware,         \* the awareness states of peers, and the own published caret
          carets,        \* the decorations drawn for peers
          popover,       \* the mention popover
          editorOps

editorVars == <<ytext, doc, sel, mode, undos, redos, upload, aware, carets, popover, editorOps>>

NL == "\n"
CR == "\r"
Space == " "
Nobody == [shown |-> FALSE]

-----------------------------------------------------------------------------
(* Y.Text.  A character knows who wrote it and who deleted it.             *)

IsLive(c) == c.cut = "none"
LiveItems(t) == SelectSeq(t, IsLive)
YString(t) == [i \in DOMAIN LiveItems(t) |-> LiveItems(t)[i].ch]

HighestId(t) == Max({0} \cup {c.id : c \in Range(t)})

(* The place in the list of the k-th character that is there.              *)
FullIndex(t, k) ==
    CHOOSE i \in DOMAIN t : IsLive(t[i]) /\ Cardinality({j \in 1..i : IsLive(t[j])}) = k

YInsert(t, k, chars, by) ==
    LET at == IF k = 0 THEN 0 ELSE FullIndex(t, k)
        new == [i \in DOMAIN chars |-> [id |-> HighestId(t) + i, ch |-> chars[i], by |-> by, cut |-> "none"]]
    IN  SubSeq(t, 1, at) \o new \o SubSeq(t, at + 1, Len(t))

YDelete(t, k, n, by) ==
    LET gone == {FullIndex(t, j) : j \in (k + 1)..(k + n)}
    IN  [i \in DOMAIN t |-> IF i \in gone THEN [t[i] EXCEPT !.cut = by] ELSE t[i]]

(* The event's delta, one character an operation.                          *)
YDelta(before, after) ==
    LET was(id) == \E i \in DOMAIN before : before[i].id = id /\ IsLive(before[i])
        op(c) == IF was(c.id) THEN IF IsLive(c) THEN "retain" ELSE "delete" ELSE "insert"
        seen == SelectSeq(after, LAMBDA c : was(c.id) \/ IsLive(c))
    IN  [i \in DOMAIN seen |-> [op |-> op(seen[i]), ch |-> seen[i].ch]]

-----------------------------------------------------------------------------
(* CodeMirror.  Its document has one kind of line break.                   *)

CmDocument(chars) ==
    FoldLeft(LAMBDA out, i : IF chars[i] = NL /\ i > 1 /\ chars[i - 1] = CR THEN out
                             ELSE Append(out, IF chars[i] = CR THEN NL ELSE chars[i]),
             <<>>, [i \in DOMAIN chars |-> i])

Change(from, to, insert) == [from |-> from, to |-> to, insert |-> insert]

(* Changes are in order and in the coordinates of the document before.     *)
ApplyChanges(s, changes) ==
    FoldLeft(LAMBDA d, c : SubSeq(d, 1, c.from) \o c.insert \o SubSeq(d, c.to + 1, Len(d)),
             s, Reverse(changes))

MapPos(pos, changes) ==
    FoldLeft(LAMBDA p, c : IF pos <= c.from THEN p
                           ELSE IF pos < c.to THEN p - (pos - c.from)
                           ELSE p + Len(c.insert) - (c.to - c.from),
             pos, changes)

MapSel(s, changes) == [anchor |-> MapPos(s.anchor, changes), head |-> MapPos(s.head, changes)]
Caret(pos) == [anchor |-> pos, head |-> pos]
SelFrom(s) == Min({s.anchor, s.head})
SelTo(s) == Max({s.anchor, s.head})

-----------------------------------------------------------------------------
(* The sync plugin.                                                        *)

\* The observer that moves past what it inserts.
ObserverInNewText(delta) ==
    FoldLeft(LAMBDA acc, d :
                 CASE d.op = "insert" -> [pos |-> acc.pos + 1,
                                          changes |-> Append(acc.changes, Change(acc.pos, acc.pos, <<d.ch>>))]
                   [] d.op = "delete" -> [pos |-> acc.pos + 1,
                                          changes |-> Append(acc.changes, Change(acc.pos, acc.pos + 1, <<>>))]
                   [] OTHER -> [acc EXCEPT !.pos = @ + 1],
             [pos |-> 0, changes |-> <<>>], delta).changes

(* The observer: the delta as changes of the document before it.           *)
ObserverChanges(delta) ==
    FoldLeft(LAMBDA acc, d :
                 CASE d.op = "insert" -> [acc EXCEPT !.changes = Append(@, Change(acc.pos, acc.pos, <<d.ch>>))]
                   [] d.op = "delete" -> [pos |-> acc.pos + 1,
                                          changes |-> Append(acc.changes, Change(acc.pos, acc.pos + 1, <<>>))]
                   [] OTHER -> [acc EXCEPT !.pos = @ + 1],
             [pos |-> 0, changes |-> <<>>], delta).changes

(* update(): a local transaction is written to the Y.Text, change by       *)
(* change, each moved by what the ones before it added.                    *)
WriteBack(t, changes) ==
    FoldLeft(LAMBDA acc, c :
                 LET cut == YDelete(acc.ytext, c.from + acc.adj, c.to - c.from, "me")
                 IN  [ytext |-> YInsert(cut, c.from + acc.adj, c.insert, "me"),
                      adj |-> acc.adj + Len(c.insert) - (c.to - c.from)],
             [ytext |-> t, adj |-> 0], changes).ytext

-----------------------------------------------------------------------------
(* Carets of peers (plaintext-awareness.ts).                               *)

End == 0

(* A relative position is the character to its right.                      *)
EncodePlaintextRelativePosition(t, index) ==
    LET at == Min({index, Len(LiveItems(t))})
    IN  IF at = Len(LiveItems(t)) THEN End ELSE LiveItems(t)[at + 1].id

ResolvePlaintextCursor(t, id) ==
    IF id = End THEN Len(LiveItems(t))
    ELSE LET i == CHOOSE i \in DOMAIN t : t[i].id = id
         IN  Cardinality({j \in 1..(i - 1) : IsLive(t[j])})

(* One row a user, the one with the highest clock.                         *)
DedupePlaintextCursors(rows) ==
    {r \in rows : \A o \in rows : UserOf(o.client) = UserOf(r.client) => o.clock <= r.clock}

SnapshotRemotePlaintextCursors(t, peers) ==
    DedupePlaintextCursors(
        {[client |-> p, clock |-> peers[p].clock, anchor |-> ResolvePlaintextCursor(t, peers[p].anchor),
          head |-> ResolvePlaintextCursor(t, peers[p].head)]
            : p \in {p \in Peers : peers[p].shown /\ peers[p].note = "this"}})

BuildPlaintextCursorDecorations(t, peers, length) ==
    {[client |-> r.client, anchor |-> Min({r.anchor, length}), head |-> Min({r.head, length})]
        : r \in SnapshotRemotePlaintextCursors(t, peers)}

(* The producer publishes the selection after an update.                   *)
Publish(t, s) ==
    [anchor |-> EncodePlaintextRelativePosition(t, s.anchor),
     head |-> EncodePlaintextRelativePosition(t, s.head)]

(* The consumer: a published caret that differs makes awareness emit       *)
(* "change", and the microtask that follows rebuilds the carets from the   *)
(* text; otherwise they stay as the field has computed them.               *)
PlaintextCursorConsumer(t, published, field, length) ==
    IF published # aware.own THEN BuildPlaintextCursorDecorations(t, aware.peers, length) ELSE field

-----------------------------------------------------------------------------
(* The mention popover.                                                    *)

LineStart(d, pos) == Max({0} \cup {i \in 1..pos : d[i] = NL})

(* getQueryRange: the word before the caret when it begins with an at sign.*)
WordStart(d, pos) == Max({0} \cup {i \in 1..pos : d[i] \in {NL, Space}})
HasQuery(d, s) ==
    s.anchor = s.head /\ WordStart(d, s.head) < s.head /\ d[WordStart(d, s.head) + 1] = "@"

FilterPeople(query) == SelectSeq(People, LAMBDA p : query = <<>> \/ query = <<p>>)

(* Links to people: an opening bracket, the name, the rest.                *)
MentionLinks(d) ==
    {[from |-> i - 1, to |-> i + 2] : i \in {i \in 1..(Len(d) - 2) :
        d[i] = "[" /\ d[i + 1] \in Range(People) /\ d[i + 2] = ")"}}

FormatMentionInsertion(p) == <<"[", p, ")", Space>>

(* isInsideMentionLink looks at the node that ends at the caret.           *)
IsInsideMentionLink(d, pos) == \E l \in MentionLinks(d) : l.from < pos /\ pos <= l.to

HidePopover(p) == [p EXCEPT !.visible = FALSE, !.range = Caret(0)]

RefreshPopover(p, d, s, m) ==
    IF ~m.focused \/ ~m.editable \/ ~HasQuery(d, s) \/ IsInsideMentionLink(d, s.head) THEN HidePopover(p)
    ELSE LET from == WordStart(d, s.head)
             found == FilterPeople(SubSeq(d, from + 2, s.head))
         IN  [visible |-> TRUE, range |-> [anchor |-> from, head |-> s.head], people |-> found,
              index |-> IF found = <<>> THEN 1 ELSE Min({p.index, Len(found)})]

-----------------------------------------------------------------------------
(* Transactions.                                                           *)

Counts == editorOps < MaxEditorOps /\ editorOps' = editorOps + 1

(* What a transaction did, as the undo manager keeps it.                   *)
Transaction(t, after) ==
    [ins |-> {c.id : c \in Range(after)} \ {c.id : c \in Range(t)},
     del |-> {c.id : c \in {c \in Range(t) : IsLive(c) /\ \E d \in Range(after) : d.id = c.id /\ ~IsLive(d)}}]

(* A local transaction.  The caret field is computed before the sync       *)
(* plugin has written the edit to the Y.Text.                              *)
Dispatch(changes, selection) ==
    LET after == WriteBack(ytext, changes)
        published == Publish(after, selection)
        field == BuildPlaintextCursorDecorations(ytext, aware.peers, Len(doc'))
    IN  /\ ytext' = after
        /\ doc' = ApplyChanges(doc, changes)
        /\ sel' = selection
        /\ undos' = Append(undos, Transaction(ytext, after))
        /\ redos' = <<>>
        /\ carets' = PlaintextCursorConsumer(after, published, field, Len(doc'))
        /\ aware' = [aware EXCEPT !.own = published, !.unheard = published = aware.own]
        /\ popover' = RefreshPopover(popover, doc', sel', mode)

\* An inbound transaction that leaves the carets where they were.
InboundKeepsCarets(after) ==
    LET changes == ObserverChanges(YDelta(ytext, after))
    IN  /\ ytext' = after
        /\ doc' = ApplyChanges(doc, changes)
        /\ sel' = MapSel(sel, changes)
        /\ carets' = PlaintextCursorConsumer(after, Publish(after, sel'), carets, Len(doc'))
        /\ aware' = [aware EXCEPT !.own = Publish(after, sel'), !.unheard = FALSE]
        /\ popover' = RefreshPopover(popover, doc', sel', mode)

(* A change of the Y.Text by anyone else, by undo or by an upload: the     *)
(* observer's transaction.                                                 *)
Inbound(after) ==
    LET changes == ObserverChanges(YDelta(ytext, after))
    IN  /\ ytext' = after
        /\ doc' = ApplyChanges(doc, changes)
        /\ sel' = MapSel(sel, changes)
        /\ IF changes = <<>> THEN UNCHANGED <<carets, aware, popover>>
           ELSE /\ carets' = BuildPlaintextCursorDecorations(after, aware.peers, Len(doc'))
                /\ aware' = [aware EXCEPT !.own = Publish(after, sel'), !.unheard = FALSE]
                /\ popover' = RefreshPopover(popover, doc', sel', mode)

Typing(changes) ==
    /\ mode.editable
    /\ Dispatch(changes, MapSel(sel, changes))
    /\ UNCHANGED <<mode, upload>>

(* The user types, deletes, or runs a command that changes two places.     *)
Types ==
    /\ Counts
    /\ \E chars \in Insertions \cup {<<>>} :
         /\ chars # <<>> \/ SelFrom(sel) < SelTo(sel)
         /\ mode.editable
         /\ Dispatch(<<Change(SelFrom(sel), SelTo(sel), chars)>>, Caret(SelFrom(sel) + Len(chars)))
         /\ UNCHANGED <<mode, upload>>

RenumbersList ==
    /\ Counts
    /\ \E i, j \in 1..Len(doc), chars \in Insertions :
         i < j /\ Typing(<<Change(i - 1, i, chars \o chars), Change(j - 1, j, chars)>>)

(* The caret goes somewhere, or the text up to there is selected.          *)
SelectsText ==
    /\ Counts
    /\ \E h \in 0..Len(doc) : \E a \in {0, h} : sel' = [anchor |-> a, head |-> h]
    /\ sel' # sel
    /\ carets' = PlaintextCursorConsumer(ytext, Publish(ytext, sel'), carets, Len(doc))
    /\ aware' = [aware EXCEPT !.own = Publish(ytext, sel'), !.unheard = @ /\ Publish(ytext, sel') = aware.own]
    /\ popover' = RefreshPopover(popover, doc, sel', mode)
    /\ UNCHANGED <<ytext, doc, mode, undos, redos, upload>>

(* A peer, an agent or the file: several splices in one transaction.       *)
OthersEdit ==
    /\ Counts
    /\ \E i, j \in 0..Len(LiveItems(ytext)), chars \in Insertions :
         /\ i < j
         /\ \/ Inbound(YInsert(YDelete(ytext, j - 1, 1, "other"), i, chars, "other"))
            \/ Inbound(YDelete(YInsert(ytext, j, chars, "other"), i, 1, "other"))
    /\ UNCHANGED <<mode, undos, redos, upload>>

(* reconcileFromYText, at mount and 50 ms after it.                        *)
ReconcileFromYText ==
    /\ mode.reconcile
    /\ mode' = [mode EXCEPT !.reconcile = FALSE]
    /\ IF YString(ytext) = doc THEN UNCHANGED <<doc, sel, popover, carets, aware>>
       ELSE LET whole == <<Change(0, Len(doc), CmDocument(YString(ytext)))>>
            IN  /\ doc' = CmDocument(YString(ytext))
                /\ sel' = MapSel(sel, whole)
                /\ popover' = RefreshPopover(popover, doc', sel', mode)
                /\ carets' = BuildPlaintextCursorDecorations(ytext, aware.peers, Len(doc'))
                /\ aware' = [aware EXCEPT !.own = Publish(ytext, sel'), !.unheard = FALSE]
    /\ UNCHANGED <<ytext, undos, redos, upload, editorOps>>

-----------------------------------------------------------------------------
(* Undo.  The manager tracks the transactions of the user's origin only.   *)

(* The reverse of a transaction: what it inserted goes, what it deleted    *)
(* comes back as a copy beside the deleted one.                            *)
Reversed(t, step) ==
    FoldLeft(LAMBDA out, c :
                 IF c.id \in step.ins /\ IsLive(c) THEN Append(out, [c EXCEPT !.cut = "undo"])
                 ELSE IF c.id \in step.del \ step.ins
                      THEN out \o <<[id |-> HighestId(t) + c.id, ch |-> c.ch, by |-> "undo", cut |-> "none"], c>>
                 ELSE Append(out, c),
             <<>>, t)

UndoCmd ==
    /\ Counts
    /\ undos # <<>> /\ mode.focused
    /\ LET after == Reversed(ytext, Last(undos))
       IN  Inbound(after) /\ redos' = Append(redos, Transaction(ytext, after))
    /\ undos' = Front(undos)
    /\ UNCHANGED <<mode, upload>>

RedoCmd ==
    /\ Counts
    /\ redos # <<>> /\ mode.focused
    /\ LET after == Reversed(ytext, Last(redos))
       IN  Inbound(after) /\ undos' = Append(undos, Transaction(ytext, after))
    /\ redos' = Front(redos)
    /\ UNCHANGED <<mode, upload>>

-----------------------------------------------------------------------------
(* Images (plaintext-image-upload.ts).  A sentinel names its upload; the   *)
(* answer replaces it wherever it is by then.                              *)

Sentinel(u) == "pending-upload:" \o u
Landed(u, ok) == (IF ok THEN "image:" ELSE "upload-failed:") \o u

PastesImage(u) ==
    /\ Counts
    /\ mode.editable /\ upload[u] = "none"
    /\ Dispatch(<<Change(SelFrom(sel), SelTo(sel), <<"![", Sentinel(u), ")">>)>>, Caret(SelFrom(sel) + 3))
    /\ upload' = [upload EXCEPT ![u] = "out"]
    /\ UNCHANGED mode

\* swapSentinelInYText at the first sentinel of any upload.
SwapFirstSentinel(t, u, new) ==
    LET at == {k \in DOMAIN LiveItems(t) : \E v \in Uploads : LiveItems(t)[k].ch = Sentinel(v)}
    IN  IF at = {} THEN t ELSE YInsert(YDelete(t, Min(at) - 1, 1, "swap"), Min(at) - 1, <<new>>, "swap")

SwapSentinelInYText(t, u, new) ==
    LET at == {k \in DOMAIN LiveItems(t) : LiveItems(t)[k].ch = Sentinel(u)}
    IN  IF at = {} THEN t ELSE YInsert(YDelete(t, Min(at) - 1, 1, "swap"), Min(at) - 1, <<new>>, "swap")

UploadEnds(u, ok) ==
    /\ upload[u] = "out"
    /\ upload' = [upload EXCEPT ![u] = "ended"]
    /\ Inbound(SwapSentinelInYText(ytext, u, Landed(u, ok)))
    /\ UNCHANGED <<mode, undos, redos, editorOps>>

-----------------------------------------------------------------------------
(* Awareness.                                                              *)

PeerMoves(p) ==
    /\ Counts
    /\ \E a, h \in 0..Len(LiveItems(ytext)), note \in {"this", "other"} :
         aware' = [aware EXCEPT !.unheard = FALSE, !.clock = @ + 1,
                     !.peers[p] = [shown |-> TRUE, note |-> note, clock |-> aware.clock + 1,
                                   anchor |-> EncodePlaintextRelativePosition(ytext, a),
                                   head |-> EncodePlaintextRelativePosition(ytext, h)]]
    /\ carets' = BuildPlaintextCursorDecorations(ytext, aware'.peers, Len(doc))
    /\ UNCHANGED <<ytext, doc, sel, mode, undos, redos, upload, popover>>

PeerLeaves(p) ==
    /\ Counts
    /\ aware.peers[p].shown
    /\ aware' = [aware EXCEPT !.unheard = FALSE, !.peers[p] = Nobody]
    /\ carets' = BuildPlaintextCursorDecorations(ytext, aware'.peers, Len(doc))
    /\ UNCHANGED <<ytext, doc, sel, mode, undos, redos, upload, popover>>

-----------------------------------------------------------------------------
(* Keys and the popover's choices.                                         *)

(* mentionAtomicDeleteRange: a caret at the edge of a mention.             *)
MentionAtomicDelete(backwards) ==
    /\ Counts
    /\ mode.editable /\ sel.anchor = sel.head
    /\ \E l \in MentionLinks(doc) :
         /\ IF backwards THEN l.to = sel.head ELSE l.from = sel.head
         /\ Dispatch(<<Change(l.from, l.to, <<>>)>>, Caret(l.from))
    /\ UNCHANGED <<mode, upload>>

(* inListItem: the line's first character after its indent is a bullet.    *)
InListItem(d, pos) ==
    \E i \in (LineStart(d, pos) + 1)..Len(d) :
        d[i] = "-" /\ \A j \in (LineStart(d, pos) + 1)..(i - 1) : d[j] = Space

ListIndent(outdent) ==
    LET start == LineStart(doc, sel.head)
        indented == start + 2 <= Len(doc) /\ doc[start + 1] = Space /\ doc[start + 2] = Space
    IN  /\ Counts
        /\ sel.anchor = sel.head /\ InListItem(doc, sel.head)
        /\ outdent => indented
        /\ Typing(<<IF outdent THEN Change(start, start + 2, <<>>) ELSE Change(start, start, <<Space, Space>>)>>)

Cycles ==
    /\ Counts
    /\ popover.visible /\ popover.people # <<>>
    /\ \E delta \in {1, -1} :
         popover' = [popover EXCEPT !.index = Max({1, Min({@ + delta, Len(popover.people)})})]
    /\ UNCHANGED <<ytext, doc, sel, mode, undos, redos, upload, aware, carets>>

(* handleSelect, of Enter or a click: the dispatch refreshes the popover,  *)
(* which is hidden afterwards.                                             *)
SelectsPerson(p) ==
    LET new == FormatMentionInsertion(p)
        from == popover.range.anchor
        changes == <<Change(from, popover.range.head, new)>>
        after == WriteBack(ytext, changes)
        published == Publish(after, sel')
        field == BuildPlaintextCursorDecorations(ytext, aware.peers, Len(doc'))
    IN  /\ Counts
        /\ popover.visible /\ p \in Range(popover.people)
        /\ ytext' = after
        /\ doc' = ApplyChanges(doc, changes)
        /\ sel' = Caret(from + Len(new))
        /\ undos' = Append(undos, Transaction(ytext, after))
        /\ redos' = <<>>
        /\ carets' = PlaintextCursorConsumer(after, published, field, Len(doc'))
        /\ aware' = [aware EXCEPT !.own = published, !.unheard = published = aware.own]
        /\ popover' = HidePopover(popover)
        /\ UNCHANGED <<mode, upload>>

HidesPopover ==
    /\ popover.visible
    /\ popover' = HidePopover(popover)
    /\ UNCHANGED <<ytext, doc, sel, mode, undos, redos, upload, aware, carets, editorOps>>

(* The parent's readOnly reconfigures the facets and refreshes nothing;    *)
(* focus does.                                                             *)
SetsReadOnly ==
    /\ Counts
    /\ mode' = [mode EXCEPT !.editable = ~@]
    /\ UNCHANGED <<ytext, doc, sel, undos, redos, upload, aware, carets, popover>>

FocusChanges ==
    /\ Counts
    /\ mode' = [mode EXCEPT !.focused = ~@]
    /\ popover' = RefreshPopover(popover, doc, sel, mode')
    /\ UNCHANGED <<ytext, doc, sel, undos, redos, upload, aware, carets>>

-----------------------------------------------------------------------------
EditorInit ==
    /\ \E chars \in NoteTexts : /\ ytext = YInsert(<<>>, 0, chars, "other")
                                /\ doc = CmDocument(chars)
    /\ sel = Caret(0)
    /\ mode = [editable |-> TRUE, focused |-> TRUE, reconcile |-> TRUE]
    /\ undos = <<>> /\ redos = <<>>
    /\ upload = [u \in Uploads |-> "none"]
    /\ aware = [peers |-> [p \in Peers |-> Nobody], own |-> Publish(ytext, sel), unheard |-> FALSE, clock |-> 0]
    /\ carets = {}
    /\ popover = [visible |-> FALSE, range |-> Caret(0), people |-> <<>>, index |-> 1]
    /\ editorOps = 0

TextStep ==
    Types \/ RenumbersList \/ SelectsText \/ OthersEdit \/ ReconcileFromYText \/ UndoCmd \/ RedoCmd

UploadStep == \E u \in Uploads : PastesImage(u) \/ \E ok \in BOOLEAN : UploadEnds(u, ok)

CaretStep == \E p \in Peers : PeerMoves(p) \/ PeerLeaves(p)

KeyStep == \E b \in BOOLEAN : MentionAtomicDelete(b) \/ ListIndent(b)

PopoverStep ==
    \/ Cycles \/ HidesPopover \/ SetsReadOnly \/ FocusChanges
    \/ \E p \in Range(People) : SelectsPerson(p)

EditorNext == TextStep \/ UploadStep \/ CaretStep \/ KeyStep \/ PopoverStep

EditorSpec == EditorInit /\ [][EditorNext]_editorVars

-----------------------------------------------------------------------------
(* The editor shows the note: after any transaction its document is the    *)
(* Y.Text with its line breaks made plain, so that an edit lands where it  *)
(* was made (PlaintextSyncPlugin).                                         *)
DocIsTheText == doc = CmDocument(YString(ytext))

(* Undo takes back what the user typed, never what a peer, an agent or an  *)
(* upload wrote (the undo manager's tracked origins).                      *)
UndoKeepsOthers == \A i \in DOMAIN ytext : ytext[i].by \in {"other", "swap"} => ytext[i].cut # "undo"

(* An upload that has ended has left none of its pasted sentinel, and its  *)
(* path or failure stands once, between what is left of its brackets;       *)
(* it has touched no other upload's (swapSentinelInYText).                 *)
UploadLands ==
    \A u \in Uploads : upload[u] = "ended" =>
        LET landed == {j \in DOMAIN ytext : ytext[j].ch \in {Landed(u, TRUE), Landed(u, FALSE)}
                                           /\ ytext[j].by = "swap"}
        IN  \A i \in DOMAIN ytext : ytext[i].ch = Sentinel(u) =>
                /\ ytext[i].by = "me" => ytext[i].cut # "none"
                /\ ytext[i].cut = "swap" =>
                     /\ Cardinality(landed) = 1
                     /\ ytext[i].by = "me" =>
                           \A j \in landed, k \in DOMAIN ytext : IsLive(ytext[k]) =>
                               /\ ytext[k].id = ytext[i].id - 1 => k < j
                               /\ ytext[k].id = ytext[i].id + 1 => j < k

(* A peer's caret stands before the character the peer put it before,      *)
(* however the text changes, and each user has one caret                   *)
(* (plaintextCursorConsumer).  Not promised after a local edit that leaves *)
(* the own caret's anchor as it was.                                       *)
CaretsAreInPlace ==
    ~aware.unheard => carets = BuildPlaintextCursorDecorations(ytext, aware.peers, Len(doc))

(* The popover replaces the query the caret is at, nothing else            *)
(* (refresh, handleSelect).                                                *)
PopoverIsTheQuery ==
    popover.visible => /\ HasQuery(doc, sel)
                       /\ popover.range = [anchor |-> WordStart(doc, sel.head), head |-> sel.head]
                       /\ popover.people # <<>> => popover.index \in DOMAIN popover.people

(* An edit lands where it was made, undo keeps the others' text, uploads   *)
(* land at their sentinels, carets and the popover are where they belong.  *)
EditorIsSound == DocIsTheText /\ UndoKeepsOthers /\ UploadLands /\ CaretsAreInPlace /\ PopoverIsTheQuery
=============================================================================
