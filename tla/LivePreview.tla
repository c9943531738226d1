----------------------------- MODULE LivePreview -----------------------------
(***************************************************************************)
(* The live preview of the markdown editor                                 *)
(* (packages/editor/src/lib/plaintext-decorations.ts, its links in         *)
(* plaintext-link-affordance.ts): which markdown syntax is hidden, painted *)
(* or replaced by a widget, given the part of the note the incremental     *)
(* parser has reached, the selection, the focus and the host's paths and   *)
(* people; when that is computed again; and what a click on a checkbox or  *)
(* a link does.  A note is a sequence of lines, each with one block and    *)
(* at most one inline element; the characters of a line are the places     *)
(* where its syntax stands.                                                *)
(***************************************************************************)
EXTENDS Integers, Sequences, FiniteSets, FiniteSetsExt, SequencesExt

CONSTANTS StartNotes,     \* the notes to begin with: sequences of lines
          NewLines,       \* lines that may be typed, pasted or arrive
          PathLists,      \* what the vault's tree may be: sequences of paths
          Directories,    \* who may be in the directory: sets of addresses
          MaxPreviewOps   \* bound on the steps of users and hosts

VARIABLES noteLines,      \* the document
          pick,           \* the main selection
          tree,           \* the lines the syntax tree reaches; whether it grew unseen
          lastTreeLen,    \* the rebuild trigger's baseline
          focusOf,        \* the DOM's focus, what CodeMirror knows of it, the state field's
          microtasks,     \* queued by plugins that may not dispatch in an update
          host,           \* the host's paths and people, and whether its effects have run
          decos,          \* the decoration set
          drawn,          \* checkboxes in the DOM, with the place each was made for
          previewOps

previewVars == <<noteLines, pick, tree, lastTreeLen, focusOf, microtasks, host, decos,
                 drawn, previewOps>>

(* A line [id, block, inline, arg, num]: arg is what its elements name, as *)
(* a sequence of words; num is an ordered item's number.                   *)
Width == 7
LineFrom(i) == (i - 1) * Width
LineTo(i) == (i - 1) * Width + Width - 1
LineAt(pos) == pos \div Width + 1
InlineFrom(i) == LineFrom(i) + 2
InlineTo(i) == LineTo(i)

PickFrom == Min({pick.anchor, pick.head})
PickTo == Max({pick.anchor, pick.head})

-----------------------------------------------------------------------------
(* Links to notes.  A path is its directories, its name, its extension     *)
(* ("" when it has none).                                                  *)

DirOf(path) == SubSeq(path, 1, Len(path) - 2)
BaseOf(path) == path[Len(path) - 1]
ExtOf(path) == path[Len(path)]
Lower(base) == IF base = "A" THEN "a" ELSE base

Sole(S) == IF Cardinality(S) = 1 THEN Min(S) ELSE 0

(* resolveLinkTarget: the path itself, or with an extension; then the one  *)
(* note of that name; then the one note whose path ends so.                *)
ResolveLinkTarget(raw, paths) ==
    LET exact == {k \in DOMAIN paths : /\ DirOf(paths[k]) = DirOf(raw) /\ BaseOf(paths[k]) = BaseOf(raw)
                                       /\ ExtOf(raw) \in {"", ExtOf(paths[k])}}
        named == {k \in DOMAIN paths : DirOf(raw) = <<>> /\ Lower(BaseOf(paths[k])) = Lower(BaseOf(raw))}
        ends == {k \in DOMAIN paths : /\ DirOf(raw) # <<>> /\ IsSuffix(DirOf(raw), DirOf(paths[k]))
                                      /\ BaseOf(paths[k]) = BaseOf(raw) /\ ExtOf(paths[k]) # ""}
    IN  IF exact # {} THEN Min(exact)
        ELSE IF Sole(named) # 0 THEN Sole(named)
        ELSE Sole(ends)

-----------------------------------------------------------------------------
(* buildMarkdownDecorations.  A context c is the part of the note that is  *)
(* parsed, the selection, the focus, and the host's paths and people.      *)

Item(look, from, to, as) == [look |-> look, from |-> from, to |-> to, as |-> as]

Intersects(c, from, to) == c.focused /\ c.from <= to /\ c.to >= from
OnCaretLine(c, i) == c.focused /\ LineAt(c.to) = i
OnLine(c, i) == Intersects(c, LineFrom(i), LineTo(i))

(* Lines of one block that belong to one node of the tree.                 *)
RunFirst(c, i) ==
    Min({j \in 1..i : \A k \in j..i : c.lines[k].block = c.lines[i].block})
RunLast(c, i) ==
    Max({j \in i..Len(c.lines) : \A k \in i..j : c.lines[k].block = c.lines[i].block})
OnRun(c, i) == Intersects(c, LineFrom(RunFirst(c, i)), LineTo(RunLast(c, i)))

SyntaxMark(revealed, from, to) == Item(IF revealed THEN "shown" ELSE "hidden", from, to, "mark")

FootnoteDefIds(c) == {c.lines[i].arg : i \in {i \in DOMAIN c.lines : c.lines[i].block = "footdef"}}
IsInRawFootnoteDefLine(c, i) == c.lines[i].block = "footdef" /\ OnCaretLine(c, i)

(* Blocks.                                                                 *)

TableNode(c, i) ==
    IF RunFirst(c, i) # i \/ OnRun(c, i) THEN {}
    ELSE {Item("replaced", LineFrom(i), LineTo(RunLast(c, i)), "table")}

HeadingNode(c, i) ==
    {Item("style", LineFrom(i), LineFrom(i), "heading"),
     SyntaxMark(OnLine(c, i), LineFrom(i), LineFrom(i) + 2)}

BlockquoteNode(c, i) ==
    {Item("style", LineFrom(i), LineFrom(i), "quote"),
     SyntaxMark(OnRun(c, i), LineFrom(i), LineFrom(i) + 1)}

HorizontalRuleNode(c, i) ==
    {Item("style", LineFrom(i), LineFrom(i), "rule"),
     SyntaxMark(OnLine(c, i), LineFrom(i), LineTo(i))}

(* The first and the last line of a fence are its delimiters.              *)
FencedCodeNode(c, i) ==
    LET delimiter == i \in {RunFirst(c, i), RunLast(c, i)}
        place == IF delimiter THEN "delimiter"
                 ELSE IF OnRun(c, i) THEN "code"
                 ELSE IF i = RunFirst(c, i) + 1 THEN "top"
                 ELSE IF i = RunLast(c, i) - 1 THEN "bottom" ELSE "middle"
    IN  (IF delimiter /\ OnRun(c, i) THEN {} ELSE {Item("style", LineFrom(i), LineFrom(i), place)})
        \cup (IF delimiter THEN {SyntaxMark(OnRun(c, i), LineFrom(i), LineFrom(i) + 1)} ELSE {})

FootnoteDefNode(c, i) ==
    {SyntaxMark(OnCaretLine(c, i), LineFrom(i), LineFrom(i) + 1)}
    \cup IF OnCaretLine(c, i) THEN {} ELSE {Item("label", LineFrom(i) + 1, LineFrom(i) + 2, "footdef")}

(* A list's marks: bullets and checkboxes are revealed by the whole item,  *)
(* numbers by the mark.                                                    *)
TaskMarkerNode(c, i) ==
    IF OnLine(c, i) THEN {SyntaxMark(TRUE, LineFrom(i) + 1, LineFrom(i) + 2)}
    ELSE {Item("replaced", LineFrom(i) + 1, LineFrom(i) + 2, c.lines[i].arg[1])}

ListItemNode(c, i) ==
    {Item("style", LineFrom(i), LineFrom(i), "item")}
    \cup IF c.lines[i].block = "task" /\ c.lines[i].arg = <<"checked">>
         THEN {Item("style", LineFrom(i) + 2, LineTo(i), "done")} ELSE {}

ComputeOrderedListNumbers(c, i) ==
    LET first == RunFirst(c, i) IN c.lines[first].num + (i - first)

ListMarkNode(c, i) ==
    LET from == LineFrom(i)
        to == LineFrom(i) + 1
    IN  CASE c.lines[i].block = "task" -> {SyntaxMark(OnLine(c, i), from, to)}
          [] c.lines[i].block = "ordered" ->
                IF Intersects(c, from, to) THEN {SyntaxMark(TRUE, from, to)}
                ELSE {Item("replaced", from, to, ToString(ComputeOrderedListNumbers(c, i)))}
          [] OTHER -> IF OnLine(c, i) THEN {SyntaxMark(TRUE, from, to)} ELSE {Item("replaced", from, to, "glyph")}

BlockItems(c, i) ==
    CASE c.lines[i].block = "table"   -> TableNode(c, i)
      [] c.lines[i].block = "heading" -> HeadingNode(c, i)
      [] c.lines[i].block = "quote"   -> BlockquoteNode(c, i)
      [] c.lines[i].block = "rule"    -> HorizontalRuleNode(c, i)
      [] c.lines[i].block = "fence"   -> FencedCodeNode(c, i)
      [] c.lines[i].block = "footdef" -> FootnoteDefNode(c, i)
      [] c.lines[i].block = "task"    -> ListItemNode(c, i) \cup ListMarkNode(c, i) \cup TaskMarkerNode(c, i)
      [] c.lines[i].block \in {"bullet", "ordered"} -> ListItemNode(c, i) \cup ListMarkNode(c, i)
      [] OTHER -> {}

-----------------------------------------------------------------------------
(* Inline elements: an opening mark, a label, a closing mark.              *)

OpenMark(i, revealed) == SyntaxMark(revealed, InlineFrom(i), InlineFrom(i) + 1)
CloseMark(i, revealed) == SyntaxMark(revealed, InlineTo(i) - 1, InlineTo(i))
Label(i, as) == Item("label", InlineFrom(i) + 1, InlineTo(i) - 1, as)

Marks(i, revealed) == {OpenMark(i, revealed), CloseMark(i, revealed)}

ImageNode(c, i) ==
    IF Intersects(c, InlineFrom(i), InlineTo(i)) THEN Marks(i, TRUE)
    ELSE {Item("replaced", InlineFrom(i), InlineTo(i), "image")}

(* A link's marks are revealed by any selection on its line, its label is  *)
(* painted unless the caret is on the line; an escaped bracket of the      *)
(* label hides its backslash.                                              *)
LinkNode(c, i) ==
    Marks(i, OnLine(c, i) \/ IsInRawFootnoteDefLine(c, i))
    \cup (IF OnCaretLine(c, i) THEN {} ELSE {Label(i, "link")})
    \cup (IF c.lines[i].inline = "escaped" /\ ~OnLine(c, i)
          THEN {SyntaxMark(FALSE, InlineFrom(i) + 1, InlineFrom(i) + 2)} ELSE {})

(* A mention is a chip until the caret is in it; one right after it is not.*)
MentionNode(c, i) ==
    IF IsInRawFootnoteDefLine(c, i) \/ (c.focused /\ c.to >= InlineFrom(i) /\ c.to < InlineTo(i))
    THEN Marks(i, TRUE)
    ELSE {Item("replaced", InlineFrom(i), InlineTo(i), IF c.lines[i].arg \in c.people THEN "chip" ELSE "stale")}

UrlNode(c, i) == IF OnCaretLine(c, i) THEN {} ELSE {Label(i, "link")}

WikilinkNode(c, i) ==
    Marks(i, OnCaretLine(c, i))
    \cup IF OnCaretLine(c, i) THEN {}
         ELSE LET as == IF ResolveLinkTarget(c.lines[i].arg, c.paths) # 0 THEN "wikilink" ELSE "broken"
              IN  IF c.lines[i].inline = "wikilink" THEN {Label(i, as)}
                  ELSE {SyntaxMark(FALSE, InlineFrom(i) + 1, InlineFrom(i) + 2),
                        Item("label", InlineFrom(i) + 2, InlineTo(i) - 1, as)}

FootnoteRefNode(c, i) ==
    Marks(i, OnCaretLine(c, i))
    \cup IF OnCaretLine(c, i) THEN {}
         ELSE {Label(i, IF c.lines[i].arg \in FootnoteDefIds(c) THEN "footref" ELSE "broken")}

RangeNode(c, i) ==
    Marks(i, Intersects(c, InlineFrom(i), InlineTo(i)) \/ IsInRawFootnoteDefLine(c, i))
    \cup IF IsInRawFootnoteDefLine(c, i) THEN {} ELSE {Item("style", InlineFrom(i), InlineTo(i), "strong")}

InlineItems(c, i) ==
    CASE c.lines[i].inline = "image"   -> ImageNode(c, i)
      [] c.lines[i].inline \in {"link", "escaped"} -> LinkNode(c, i)
      [] c.lines[i].inline = "mention" -> MentionNode(c, i)
      [] c.lines[i].inline = "url"     -> UrlNode(c, i)
      [] c.lines[i].inline \in {"wikilink", "aliased"} -> WikilinkNode(c, i)
      [] c.lines[i].inline = "footref" -> FootnoteRefNode(c, i)
      [] c.lines[i].inline = "strong"  -> RangeNode(c, i)
      [] OTHER -> {}

(* The walk; a table's cells are not walked.                               *)
BuildMarkdownDecorations(c) == UNION {BlockItems(c, i) \cup InlineItems(c, i) : i \in DOMAIN c.lines}

Context(lines, len, sel, focused, h) ==
    [lines |-> SubSeq(lines, 1, len), from |-> Min({sel.anchor, sel.head}), to |-> Max({sel.anchor, sel.head}),
     focused |-> focused, paths |-> h.paths, people |-> h.people]

-----------------------------------------------------------------------------
(* Checkboxes.  A widget's DOM is kept when the new widget equals it.      *)

IsCheckbox(it) == it.look = "replaced" /\ it.as \in {"checked", "open"}

\* The widget's eq without its place.
EqByState(w, it) == w.as = it.as

WidgetEq(w, it) == w.as = it.as /\ w.made = it.from

Redraw(items, moved) ==
    {[at |-> it.from, as |-> it.as,
      made |-> IF \E w \in drawn : moved[w.at] = it.from /\ WidgetEq(w, it)
               THEN (CHOOSE w \in drawn : moved[w.at] = it.from /\ WidgetEq(w, it)).made ELSE it.from]
        : it \in {it \in items : IsCheckbox(it)}}

-----------------------------------------------------------------------------
(* Transactions.                                                           *)

\* The trigger that looks at the viewport only.
TriggerByViewport(len, queue, scrolled) ==
    /\ lastTreeLen' = IF scrolled THEN len ELSE lastTreeLen
    /\ microtasks' = IF scrolled THEN Append(queue, "rebuild") ELSE queue

(* The rebuild trigger's update.                                           *)
ViewportRebuildTrigger(len, queue, scrolled) ==
    LET grew == scrolled \/ len > lastTreeLen
    IN  /\ lastTreeLen' = IF grew THEN len ELSE lastTreeLen
        /\ microtasks' = IF grew THEN Append(queue, "rebuild") ELSE queue

\* The field that does not look at the selection.
RebuildsNotForSelection(docChanged, selection, effects) == docChanged \/ effects

(* The field's update: is the set built again?                             *)
Rebuilds(docChanged, selection, effects) == docChanged \/ selection \/ effects

(* A transaction: t has the new lines, selection, tree length and focus    *)
(* field, and what it says of itself.                                      *)
Transact(t, h, moved) ==
    LET items == BuildMarkdownDecorations(Context(t.lines, t.len, t.sel, t.field, h))
        build == Rebuilds(t.docChanged, t.selection, t.effects)
    IN  /\ noteLines' = t.lines
        /\ pick' = t.sel
        /\ tree' = [len |-> t.len, unseen |-> ~build /\ (tree.unseen \/ t.len \in (tree.len + 1)..lastTreeLen)]
        /\ decos' = IF build THEN items ELSE decos
        /\ drawn' = IF build THEN Redraw(items, moved) ELSE drawn

Same == [lines |-> noteLines, sel |-> pick, len |-> tree.len, field |-> focusOf.field,
         docChanged |-> FALSE, selection |-> FALSE, effects |-> FALSE]

(* Where a transaction moves the positions of the old document.            *)
Positions == 0..LineTo(Len(noteLines))
Stays == [pos \in Positions |-> pos]

Counted == previewOps < MaxPreviewOps /\ previewOps' = previewOps + 1
Event == microtasks = <<>>

(* The document changes, by the user or by a peer: a line comes, goes or   *)
(* is another.  The parser has 20 ms for the new tree.                     *)
EditsAt(i, lines, moved) ==
    \E len \in Min({i - 1, tree.len})..Len(lines) :
        /\ Transact([Same EXCEPT !.lines = lines, !.len = len, !.docChanged = TRUE,
                                 !.sel = [anchor |-> Min({moved[pick.anchor], LineTo(Len(lines))}),
                                          head |-> Min({moved[pick.head], LineTo(Len(lines))})]],
                    host, moved)
        /\ ViewportRebuildTrigger(len, microtasks, FALSE)

FreshId == 1 + Max({noteLines[j].id : j \in DOMAIN noteLines})

InsertsLine(i, l) ==
    /\ Counted /\ Event
    /\ LET moved == [pos \in Positions |-> IF pos > LineFrom(i) THEN pos + Width ELSE pos]
           lines == SubSeq(noteLines, 1, i - 1) \o <<[l EXCEPT !.id = FreshId]>> \o SubSeq(noteLines, i, Len(noteLines))
       IN  EditsAt(i, lines, moved)
    /\ UNCHANGED <<focusOf, host>>

DeletesLine(i) ==
    /\ Counted /\ Event
    /\ Len(noteLines) > 1
    /\ LET moved == [pos \in Positions |-> IF pos < LineFrom(i) THEN pos
                                       ELSE IF pos > LineTo(i) THEN pos - Width ELSE LineFrom(i)]
       IN  EditsAt(i, RemoveAt(noteLines, i), moved)
    /\ UNCHANGED <<focusOf, host>>

Selects ==
    /\ Counted /\ Event
    /\ \E head \in 0..LineTo(Len(noteLines)) : \E anchor \in {0, head} :
         /\ [anchor |-> anchor, head |-> head] # pick
         /\ Transact([Same EXCEPT !.sel = [anchor |-> anchor, head |-> head], !.selection = TRUE], host, Stays)
    /\ ViewportRebuildTrigger(tree.len, microtasks, FALSE)
    /\ UNCHANGED <<focusOf, host>>

(* The background parser goes on; the user scrolls.                        *)
ParserAdvances ==
    /\ Event
    /\ \E len \in (tree.len + 1)..Len(noteLines) :
         /\ Transact([Same EXCEPT !.len = len], host, Stays)
         /\ ViewportRebuildTrigger(len, microtasks, FALSE)
    /\ UNCHANGED <<focusOf, host, previewOps>>

Scrolls ==
    /\ Counted /\ Event
    /\ Transact(Same, host, Stays)
    /\ ViewportRebuildTrigger(tree.len, microtasks, TRUE)
    /\ UNCHANGED <<focusOf, host>>

(* forceParsing has 50 ms, and dispatches when the tree has grown, which   *)
(* triggers another rebuild; then the baseline is taken and the effect     *)
(* dispatched.                                                             *)
RunsRebuild ==
    /\ microtasks # <<>> /\ Head(microtasks) = "rebuild"
    /\ \E len \in tree.len..Len(noteLines) :
         /\ Transact([Same EXCEPT !.len = len, !.effects = TRUE], host, Stays)
         /\ lastTreeLen' = len
         /\ microtasks' = IF len > lastTreeLen THEN Append(Tail(microtasks), "rebuild") ELSE Tail(microtasks)
    /\ UNCHANGED <<focusOf, host, previewOps>>

-----------------------------------------------------------------------------
(* Focus.  It moves with the user or with a program's focus(); CodeMirror  *)
(* notices on a timer, and the bridge tells the field in a microtask.      *)

FocusMoves ==
    /\ Counted
    /\ focusOf' = [focusOf EXCEPT !.dom = ~@]
    /\ UNCHANGED <<noteLines, pick, tree, lastTreeLen, microtasks, host, decos, drawn>>

FocusNoticed ==
    /\ Event
    /\ focusOf.noticed # focusOf.dom
    /\ focusOf' = [focusOf EXCEPT !.noticed = focusOf.dom]
    /\ microtasks' = <<IF focusOf.dom THEN "focused" ELSE "blurred">>
    /\ UNCHANGED <<noteLines, pick, tree, lastTreeLen, host, decos, drawn, previewOps>>

(* The bridge's microtask.                                                 *)
FocusBridge ==
    /\ microtasks # <<>> /\ Head(microtasks) \in {"focused", "blurred"}
    /\ LET target == Head(microtasks) = "focused"
       IN  IF focusOf.dom # target
           THEN /\ microtasks' = Tail(microtasks)
                /\ UNCHANGED <<noteLines, pick, tree, lastTreeLen, decos, drawn, focusOf>>
           ELSE /\ focusOf' = [focusOf EXCEPT !.field = target]
                /\ Transact([Same EXCEPT !.field = target, !.effects = TRUE], host, Stays)
                /\ ViewportRebuildTrigger(tree.len, Tail(microtasks), FALSE)
    /\ UNCHANGED <<host, previewOps>>

-----------------------------------------------------------------------------
(* The host's props: its getters give the new value at once, its effect    *)
(* tells the field afterwards.                                             *)

HostChanges ==
    /\ Counted
    /\ \E paths \in PathLists, people \in Directories :
         /\ <<paths, people>> # <<host.paths, host.people>>
         /\ host' = [paths |-> paths, people |-> people, told |-> FALSE]
    /\ UNCHANGED <<noteLines, pick, tree, lastTreeLen, focusOf, microtasks, decos, drawn>>

HostEffect ==
    /\ Event
    /\ ~host.told
    /\ host' = [host EXCEPT !.told = TRUE]
    /\ Transact([Same EXCEPT !.effects = TRUE], host, Stays)
    /\ ViewportRebuildTrigger(tree.len, microtasks, FALSE)
    /\ UNCHANGED <<focusOf, previewOps>>

-----------------------------------------------------------------------------
(* Clicks.  A checkbox flips the marker at the place it was made for, if   *)
(* there is one.                                                           *)

ToggledAt(from) ==
    IF from > LineTo(Len(noteLines)) THEN 0
    ELSE IF noteLines[LineAt(from)].block = "task" /\ from = LineFrom(LineAt(from)) + 1 THEN LineAt(from) ELSE 0

TogglesCheckbox(w) ==
    LET i == ToggledAt(w.made)
        flipped == IF noteLines[i].arg = <<"open">> THEN <<"checked">> ELSE <<"open">>
    IN  /\ Counted /\ Event
        /\ IF i = 0 THEN UNCHANGED <<noteLines, pick, tree, lastTreeLen, microtasks, decos, drawn>>
           ELSE EditsAt(i, [noteLines EXCEPT ![i].arg = flipped], Stays)
        /\ UNCHANGED <<focusOf, host>>

(* Footnotes: a click on a reference goes to the first definition.         *)
FindFootnoteDef(id) ==
    Min({Len(noteLines) + 1} \cup {i \in 1..tree.len : noteLines[i].block = "footdef" /\ noteLines[i].arg = id})

(* A click on a reference puts the caret at its definition.  Other links   *)
(* open a window or go to the host and leave the editor as it is.          *)
FollowsReference(it) ==
    LET def == FindFootnoteDef(noteLines[LineAt(it.from)].arg)
    IN  /\ Counted /\ Event
        /\ it.from = InlineFrom(LineAt(it.from)) + 1 /\ noteLines[LineAt(it.from)].inline = "footref"
        /\ def <= Len(noteLines)
        /\ Transact([Same EXCEPT !.sel = [anchor |-> LineFrom(def), head |-> LineFrom(def)], !.selection = TRUE],
                    host, Stays)
        /\ ViewportRebuildTrigger(tree.len, microtasks, FALSE)
        /\ UNCHANGED <<focusOf, host>>

-----------------------------------------------------------------------------
PreviewInit ==
    /\ noteLines \in StartNotes
    /\ pick = [anchor |-> 0, head |-> 0]
    /\ \E len \in 0..Len(noteLines) : tree = [len |-> len, unseen |-> FALSE] /\ lastTreeLen = len
    /\ focusOf = [dom |-> FALSE, noticed |-> FALSE, field |-> FALSE]
    /\ microtasks = <<>>
    /\ \E paths \in PathLists, people \in Directories : host = [paths |-> paths, people |-> people, told |-> TRUE]
    /\ decos = BuildMarkdownDecorations(Context(noteLines, tree.len, pick, FALSE, host))
    /\ drawn = {[at |-> it.from, as |-> it.as, made |-> it.from] : it \in {it \in decos : IsCheckbox(it)}}
    /\ previewOps = 0

PreviewNext ==
    \/ \E i \in 1..(Len(noteLines) + 1), l \in NewLines : InsertsLine(i, l)
    \/ \E i \in DOMAIN noteLines : DeletesLine(i)
    \/ Selects \/ ParserAdvances \/ Scrolls \/ RunsRebuild
    \/ FocusMoves \/ FocusNoticed \/ FocusBridge
    \/ HostChanges \/ HostEffect
    \/ \E w \in drawn : TogglesCheckbox(w)
    \/ \E it \in decos : it.look = "label" /\ FollowsReference(it)

PreviewSpec == PreviewInit /\ [][PreviewNext]_previewVars

-----------------------------------------------------------------------------
(* At rest the preview is that of the note as it is parsed, selected and   *)
(* focused, and of the host's paths and people: no order of edits,         *)
(* parsing, focus and props leaves it behind (markdownDecorationField,     *)
(* focusBridge, viewportRebuildTrigger).  Not promised for a tree that an  *)
(* edit made shorter and the parser then extended again.                   *)
PreviewIsCurrent ==
    microtasks = <<>> /\ host.told /\ focusOf.noticed = focusOf.dom /\ ~tree.unseen
        => decos = BuildMarkdownDecorations(Context(noteLines, tree.len, pick, focusOf.dom, host))

(* The markdown the caret touches is there to be edited: nothing at the    *)
(* caret is hidden or replaced, but for a mention the caret is right       *)
(* behind (intersects and its variants).                                   *)
CaretIsRaw ==
    focusOf.field /\ pick.anchor = pick.head =>
        \A it \in decos : it.look \in {"hidden", "replaced"} /\ it.from <= pick.head /\ pick.head <= it.to
            => it.as \in {"chip", "stale"} /\ pick.head = it.to

(* A click on a checkbox toggles the task it stands at, whatever was       *)
(* edited above it since it was drawn (TaskCheckboxWidget.eq).             *)
CheckboxesAreTheirTasks ==
    \A w \in drawn : /\ ToggledAt(w.made) = LineAt(w.at)
                     /\ noteLines[LineAt(w.at)].arg = <<w.as>>

(* A reference painted as one has its definition to go to, also while the  *)
(* parser is behind (footnoteDefIds, findFootnoteDef).                     *)
PaintedLinksLead ==
    \A it \in decos : it.look = "label" => /\ LineAt(it.from) <= tree.len
                                           /\ it.as = "footref" => FindFootnoteDef(noteLines[LineAt(it.from)].arg) <= tree.len

(* The preview is current and never in the way: the caret's markdown is    *)
(* raw, checkboxes and references act on what they stand for.              *)
PreviewIsSound == PreviewIsCurrent /\ CaretIsRaw /\ CheckboxesAreTheirTasks /\ PaintedLinksLead
==============================================================================
