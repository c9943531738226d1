----------------------------- MODULE VaultText -----------------------------
(***************************************************************************)
(* The text algorithms of packages/vault-core: anchored splices and        *)
(* prepends (splice.ts), the truncation of a stale document                *)
(* (doc-session/src/session.ts), search (search.ts) and the classification *)
(* of paths (artifact.ts).  Each is an operator; a behaviour asks one      *)
(* question and gets the operator's answer, and the properties compare the *)
(* answers with definitions of what they should be.                        *)
(*                                                                         *)
(* A text is a sequence of characters; "---" stands for the three dashes.  *)
(***************************************************************************)
EXTENDS Naturals, Integers, Sequences, FiniteSets, SequencesExt

CONSTANTS MaxContent,     \* bound: characters of a document
          MaxOld,         \* bound: characters of the old text of a splice
          SpliceBytesLimit,
          DocumentBytesLimit,
          MaxSearchLimit

ASSUME TextBounds ==
    /\ MaxContent \in Nat /\ MaxOld \in Nat
    /\ SpliceBytesLimit \in Nat /\ DocumentBytesLimit \in Nat
    /\ MaxSearchLimit \in Nat \ {0, 1}

VARIABLES question, answer

textVars == <<question, answer>>

CR == "\r"
LF == "\n"
Dashes == "---"
Space == " "
None == 0

Texts(alphabet, n) == UNION {[1 .. k -> alphabet] : k \in 0 .. n}
From(s, i) == SubSeq(s, i + 1, Len(s))
To(s, i) == SubSeq(s, 1, i)

-----------------------------------------------------------------------------
(* splice.ts                                                               *)

\* lfNormalize: CRLF and CR become LF.
LfNormalize(s) ==
    FoldLeft(LAMBDA out, i : IF s[i] = LF /\ i > 1 /\ s[i - 1] = CR THEN out
                             ELSE Append(out, IF s[i] = CR THEN LF ELSE s[i]),
             <<>>, [i \in 1 .. Len(s) |-> i])

\* utf8ByteLength: "y" takes two bytes, the others one.
Utf8ByteLength(s) == Len(s) + Cardinality({i \in DOMAIN s : s[i] = "y"})

\* Offsets of the normalised text taken for offsets of the raw one.
OffsetsWithoutCarriageReturns(content) == [i \in 1 .. Len(content) + 1 |-> i - 1]

\* normalizeWithRawOffsets: where each character of the normalised text, and
\* its end, is in the raw one (offsets count from 0).
NormalizeWithRawOffsets(content) ==
    SelectSeq([i \in 1 .. Len(content) + 1 |-> i - 1],
              LAMBDA o : ~(o > 0 /\ o < Len(content) /\ content[o] = CR /\ content[o + 1] = LF))

\* findAllSubstringOffsets: overlapping matches too.
FindAllSubstringOffsets(haystack, needle) ==
    SelectSeq([i \in 1 .. Len(haystack) |-> i - 1],
              LAMBDA o : /\ needle # <<>> /\ o + Len(needle) <= Len(haystack)
                         /\ SubSeq(haystack, o + 1, o + Len(needle)) = needle)

\* applyAnchoredSplice, with its rejections in the code's order.
ApplyAnchoredSplice(content, request) ==
    LET oldText == LfNormalize(request.oldText)
        newText == LfNormalize(request.newText)
        before  == LfNormalize(request.before)
        after   == LfNormalize(request.after)
        needle  == before \o oldText \o after
        offsets == NormalizeWithRawOffsets(content)
        matches == IF content = <<>> /\ needle = <<>> THEN <<0>>
                   ELSE FindAllSubstringOffsets(LfNormalize(content), needle)
        pick    == IF Len(matches) = 1 THEN 1 ELSE request.occurrence
        start   == matches[pick] + Len(before)
        next    == To(content, offsets[start + 1]) \o newText
                   \o From(content, offsets[start + Len(oldText) + 1])
        Rejected(why) == [ok |-> FALSE, rejected |-> why, count |-> Len(matches), content |-> content]
    IN  IF Utf8ByteLength(oldText) > SpliceBytesLimit \/ Utf8ByteLength(newText) > SpliceBytesLimit
        THEN Rejected("too_large_splice")
        ELSE IF matches = <<>> THEN Rejected("not_found")
        ELSE IF pick = None THEN Rejected("ambiguous")
        ELSE IF pick \notin DOMAIN matches THEN Rejected("not_found")
        ELSE IF Utf8ByteLength(next) > DocumentBytesLimit THEN Rejected("too_large_document")
        ELSE [ok |-> TRUE, rejected |-> "none", count |-> Len(matches), content |-> next]

\* nextLineEnd: where the line that starts at an offset ends, and the next starts.
NextLineEnd(content, start) ==
    LET ends == {i \in start .. Len(content) - 1 : content[i + 1] \in {CR, LF}}
        end  == CHOOSE i \in ends : \A j \in ends : i <= j
    IN  IF ends = {} THEN [contentEnd |-> Len(content), nextStart |-> Len(content)]
        ELSE [contentEnd |-> end,
              nextStart |-> IF content[end + 1] = CR /\ end + 2 <= Len(content)
                               /\ content[end + 2] = LF THEN end + 2 ELSE end + 1]

Trim(s) == SelectSeq(s, LAMBDA c : c # Space)  \* of "---" with spaces around it

\* frontmatterInsertionPoint: the start of the line after the closing
\* delimiter; None without an opening or a closing one.
FrontmatterInsertionPoint(content) ==
    LET scan[start \in 0 .. Len(content)] ==
            LET end == NextLineEnd(content, start)
            IN  IF start >= Len(content) THEN None
                ELSE IF Trim(SubSeq(content, start + 1, end.contentEnd)) = <<Dashes>>
                THEN end.nextStart ELSE scan[end.nextStart]
    IN  IF Len(content) < 2 \/ content[1] # Dashes \/ content[2] \notin {CR, LF} THEN None
        ELSE scan[NextLineEnd(content, 0).nextStart]

\* The text goes in front of the whole document.
PrependAtStart(content, addition) == LfNormalize(addition) \o content

\* prependContent: after the frontmatter, on a line of its own.
PrependContent(content, addition) ==
    LET at == FrontmatterInsertionPoint(content)
        separator == IF at > 0 /\ addition # <<>> /\ content[at] \notin {CR, LF} THEN <<LF>> ELSE <<>>
    IN  To(content, at) \o separator \o LfNormalize(addition) \o From(content, at)

\* One character too many is kept.
TruncateAfterLimit(value, limit) ==
    FoldLeft(LAMBDA out, c : IF Utf8ByteLength(out) >= limit THEN out ELSE Append(out, c), <<>>, value)

\* truncateUtf8: whole characters while they fit; staleDocResult sends this.
TruncateUtf8(value, limit) ==
    FoldLeft(LAMBDA acc, c :
                 IF acc.full \/ Utf8ByteLength(acc.out \o <<c>>) > limit
                 THEN [acc EXCEPT !.full = TRUE] ELSE [acc EXCEPT !.out = Append(@, c)],
             [out |-> <<>>, full |-> FALSE], value).out

-----------------------------------------------------------------------------
(* search.ts.  A file is the sequence of its lines, each TRUE when it      *)
(* contains the query; files are sorted by path.  Numbers of a request are *)
(* halves, so that 1 is 0.5; a request may leave one out (Missing).        *)

Missing == -1

\* clampPositiveInteger and clampNonNegativeInteger: a half is rounded down
\* after the test of its sign.
ClampPositiveInteger(value, fallback, max) ==
    IF value <= 0 THEN fallback ELSE IF value \div 2 > max THEN max ELSE value \div 2

ClampNonNegativeInteger(value, fallback, max) ==
    IF value < 0 THEN fallback ELSE IF value \div 2 > max THEN max ELSE value \div 2

DefaultSearchLimit == 1
MaxOffset == 100

Lines(files) == FlattenSeq([f \in DOMAIN files |->
    [l \in DOMAIN files[f] |-> [file |-> f, line |-> l, hit |-> files[f][l]]]])

\* The match at the offset itself is left out.
PageAfterOffset(files, limit, offset) ==
    LET Visit(acc, x) ==
            IF ~x.hit THEN acc
            ELSE [total |-> acc.total + 1,
                  results |-> IF acc.total < offset + 1 \/ Len(acc.results) >= limit THEN acc.results
                              ELSE Append(acc.results, <<x.file, x.line>>)]
    IN  FoldLeft(Visit, [total |-> 0, results |-> <<>>], Lines(files))

\* searchVaultFiles: every match is counted, those of the page are kept.
SearchPage(files, limit, offset) ==
    LET Visit(acc, x) ==
            IF ~x.hit THEN acc
            ELSE [total |-> acc.total + 1,
                  results |-> IF acc.total < offset \/ Len(acc.results) >= limit THEN acc.results
                              ELSE Append(acc.results, <<x.file, x.line>>)]
    IN  FoldLeft(Visit, [total |-> 0, results |-> <<>>], Lines(files))

SearchVaultFiles(files, request) ==
    SearchPage(files, ClampPositiveInteger(request.limit, DefaultSearchLimit, MaxSearchLimit),
               ClampNonNegativeInteger(request.offset, 0, MaxOffset))

-----------------------------------------------------------------------------
(* artifact.ts.  A leaf is a sequence of names and dots.                   *)

TextArtifactExtensions == {"md", "markdown", "mdown", "txt", "csv"}
AttachmentArtifactExtensions == {"png", "svg", "pdf"}
LowerCase(name) == IF name = "MD" THEN "md" ELSE name

\* artifactExtension: after the last dot, unless that is the first character.
ArtifactExtension(leaf) ==
    LET dots == {i \in DOMAIN leaf : leaf[i] = "."}
        last == CHOOSE i \in dots : \A j \in dots : j <= i
    IN  IF dots = {} \/ last = 1 \/ last = Len(leaf) THEN "" ELSE LowerCase(leaf[last + 1])

ClassifyArtifactPath(leaf) ==
    IF ArtifactExtension(leaf) \in TextArtifactExtensions
    THEN [kind |-> "text", editable |-> TRUE, known |-> TRUE]
    ELSE [kind |-> "attachment", editable |-> FALSE,
          known |-> ArtifactExtension(leaf) \in AttachmentArtifactExtensions]

\* Any text that contains the name of the extension.
MarkdownAnywhere(leaf) == \E i \in DOMAIN leaf : leaf[i] \in {"md", "markdown", "txt"}

\* isMarkdownLikePath, of the files search reads.
IsMarkdownLikePath(leaf) ==
    Len(leaf) > 1 /\ leaf[Len(leaf) - 1] = "." /\ leaf[Len(leaf)] \in {"md", "markdown", "txt"}

-----------------------------------------------------------------------------
(* Questions and answers.                                                  *)

SpliceCases ==
    [kind : {"splice"}, content : Texts({"x", CR, LF}, MaxContent),
     oldText : Texts({"x", CR, LF}, MaxOld), newText : {<<>>, <<"y">>, <<"y", "y">>},
     before : Texts({"x", LF}, 1), after : Texts({"x", CR}, 1), occurrence : {None, 1, 2}]
PrependCases ==
    [kind : {"prepend"}, content : Texts({Dashes, "x", Space, CR, LF}, MaxContent + 1),
     addition : {<<>>, <<"x">>, <<CR, LF, "x">>}]
TruncateCases == [kind : {"truncate"}, content : Texts({"x", "y"}, MaxContent + 1), limit : 0 .. 4]
SearchCases ==
    [kind : {"search"}, files : Texts(Texts(BOOLEAN, 2), 2), limit : {Missing} \cup (0 .. 6),
     offset : {Missing} \cup (0 .. 6)]
ArtifactCases ==
    [kind : {"artifact"}, leaf : Texts({".", "a", "md", "MD", "txt", "markdown", "png"}, 4) \ {<<>>}]

TextInit ==
    /\ question \in SpliceCases \cup PrependCases \cup TruncateCases \cup SearchCases \cup ArtifactCases
    /\ answer = <<>>

Splice ==
    /\ question.kind = "splice" /\ answer = <<>>
    /\ answer' = <<ApplyAnchoredSplice(question.content, question)>>
Prepend ==
    /\ question.kind = "prepend" /\ answer = <<>>
    /\ answer' = <<PrependContent(question.content, question.addition)>>
Truncate ==
    /\ question.kind = "truncate" /\ answer = <<>>
    /\ answer' = <<TruncateUtf8(question.content, question.limit)>>
Search ==
    /\ question.kind = "search" /\ answer = <<>>
    /\ answer' = <<SearchVaultFiles(question.files, question)>>
Classify ==
    /\ question.kind = "artifact" /\ answer = <<>>
    /\ answer' = <<[searched |-> IsMarkdownLikePath(question.leaf),
                    artifact |-> ClassifyArtifactPath(question.leaf)]>>

TextNext == (Splice \/ Prepend \/ Truncate \/ Search \/ Classify) /\ UNCHANGED question

TextSpec == TextInit /\ [][TextNext]_textVars

-----------------------------------------------------------------------------
(* Properties.                                                             *)

Answered(kind) == question.kind = kind /\ answer # <<>>
EndsWith(s, t) == Len(s) >= Len(t) /\ From(s, Len(s) - Len(t)) = t
StartsWith(s, t) == Len(s) >= Len(t) /\ To(s, Len(t)) = t

\* No CRLF is cut at this offset.
WholeLineEnd(s, o) == ~(o > 0 /\ o < Len(s) /\ s[o] = CR /\ s[o + 1] = LF)

\* The ranges of the raw content that read as the old text between the anchors.
Ranges(q) ==
    {r \in (0 .. Len(q.content)) \X (0 .. Len(q.content)) :
        /\ r[1] <= r[2] /\ WholeLineEnd(q.content, r[1]) /\ WholeLineEnd(q.content, r[2])
        /\ LfNormalize(SubSeq(q.content, r[1] + 1, r[2])) = LfNormalize(q.oldText)
        /\ EndsWith(LfNormalize(To(q.content, r[1])), LfNormalize(q.before))
        /\ StartsWith(LfNormalize(From(q.content, r[2])), LfNormalize(q.after))
        /\ q.oldText \o q.before \o q.after # <<>> \/ q.content = <<>>}

\* A splice replaces exactly one range that reads as the old text between its
\* anchors, whatever line endings the document mixes, and leaves every other
\* character as it was; it says not_found when there is none, and ambiguous,
\* with their number, when there are several and no occurrence chosen.
SpliceIsExact ==
    Answered("splice") =>
        LET a == answer[1]
            found == Ranges(question)
            Earlier(r) == Cardinality({s \in found : s[1] < r[1]})
        IN  /\ a.ok => \E r \in found :
                  /\ a.content = To(question.content, r[1]) \o LfNormalize(question.newText)
                                 \o From(question.content, r[2])
                  /\ Cardinality(found) > 1 => Earlier(r) = question.occurrence - 1
            /\ a.rejected = "not_found" => found = {} \/ question.occurrence > Cardinality(found)
            /\ a.rejected = "ambiguous" => a.count = Cardinality(found) /\ a.count > 1
                                           /\ question.occurrence = None
            /\ ~a.ok => a.content = question.content

\* What a prepend does to a note with frontmatter: the block stays the first
\* thing in the note and is still closed, and the text begins on a line of its
\* own (prependContent).
PrependKeepsFrontmatter ==
    Answered("prepend") =>
        LET at == FrontmatterInsertionPoint(question.content)
        IN  at # None =>
              /\ StartsWith(answer[1], To(question.content, at))
              /\ FrontmatterInsertionPoint(answer[1]) # None
              /\ question.addition # <<>> =>
                    \E s \in {<<>>, <<LF>>} :
                        /\ answer[1] = To(question.content, at) \o s \o LfNormalize(question.addition)
                                       \o From(question.content, at)
                        /\ (To(question.content, at) \o s)[at + Len(s)] \in {CR, LF}

\* A stale document is cut to the longest prefix of whole characters within
\* the limit (truncateUtf8).
TruncationIsMaximal ==
    Answered("truncate") =>
        /\ StartsWith(question.content, answer[1])
        /\ Utf8ByteLength(answer[1]) <= question.limit
        /\ answer[1] # question.content =>
              Utf8ByteLength(To(question.content, Len(answer[1]) + 1)) > question.limit

\* The lines that match, file by file.
AllHits(files) == SelectSeq(FlattenSeq([f \in DOMAIN files |-> [l \in DOMAIN files[f] |-> <<f, l>>]]),
                            LAMBDA h : files[h[1]][h[2]])

\* A search counts every match, returns at most its page of them, and the
\* pages read one after the other, each from where the last one ended, are all
\* matches once (for a limit that is not below one).
PagesAreTheHits ==
    Answered("search") =>
        LET hits == AllHits(question.files)
            limit == ClampPositiveInteger(question.limit, DefaultSearchLimit, MaxSearchLimit)
            Page(k) == SearchVaultFiles(question.files,
                           [limit |-> question.limit, offset |-> 2 * k * limit]).results
        IN  /\ answer[1].total = Len(hits)
            /\ Len(answer[1].results) <= MaxSearchLimit
            /\ limit # 0 => FlattenSeq([k \in 1 .. 5 |-> Page(k - 1)]) = hits

\* A file that search reads is one the note operations accept, unless its name
\* begins with its only dot.
SearchedIsEditable ==
    Answered("artifact") /\ Len(question.leaf) > 2 /\ answer[1].searched
        => answer[1].artifact.editable

\* The text algorithms answer what their definitions ask for.
TextIsExact ==
    /\ SpliceIsExact /\ PrependKeepsFrontmatter /\ TruncationIsMaximal
    /\ PagesAreTheHits /\ SearchedIsEditable
=============================================================================
