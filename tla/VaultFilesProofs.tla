-------------------------- MODULE VaultFilesProofs --------------------------
(***************************************************************************)
(* Operations that overlap on the files of a vault keep the notes, the     *)
(* colours and the vault's own state, and never block each other: for      *)
(* every tree a vault can be, for every set of callers, of paths and of    *)
(* colours, for every number of calls and for every interleaving of their  *)
(* steps.                                                                  *)
(*                                                                         *)
(* The ways into a vault (module Interfaces) bring the call that was meant *)
(* to those operations, for all names that can be in a path: what escaping *)
(* and decoding do to a path is followed word by word, and of the suffixes *)
(* a route looks for a request ends with its own only (CallsInv).          *)
(***************************************************************************)
EXTENDS VaultFiles, Interfaces, SequenceTheorems, WellFoundedInduction, TLAPS

-----------------------------------------------------------------------------
(* The inductive invariant. *)

Path == Seq(STRING) \ {<<>>}
Node == [kind : {"file", "folder"}, id : Int, shade : Shades]
Map == UNION {[D -> Shades] : D \in SUBSET Path}
MoveOps == {"moveFile", "moveFolder"}
CallType ==
    [op : StructureOps \cup {"idle", "setFolderMetadata", "writeVaultRawFile", "makeVaultFolder"},
     path : Seq(STRING), to : Seq(STRING), flag : BOOLEAN, deep : BOOLEAN, color : Shades,
     at : {"idle", "queued", "target", "effect", "saveMap", "audit"}, map : Map,
     existed : BOOLEAN]

\* Every path of the tree lies in folders of the tree, and files have no colour.
TreeOK(t) ==
    /\ DOMAIN t \subseteq Path
    /\ t \in [DOMAIN t -> Node]
    /\ \A p \in DOMAIN t :
         /\ \A q \in Parents(p) : IsFolder(t, q)
         /\ IsFile(t, p) => t[p].shade = NoColor

\* A content that a note was given, rather than a raw write.
NoteAt(t, p) == IsFile(t, p) /\ t[p].id >= 0

\* What a call found at its start, or at its look at the target, still holds
\* when it takes effect.
StillHolds(o, t) ==
    /\ o.op \in {"deleteVaultFile", "moveFile"} => IsFile(t, o.path)
    /\ o.op = "moveFolder" => IsFolder(t, o.path)
    /\ o.op = "writeVaultFile" /\ ~o.flag => ~NoteAt(t, o.path)
    /\ o.op = "deleteVaultFolder" /\ ~o.deep => \A q \in Subtree(t, o.path) : ~NoteAt(t, q)
    /\ o.op \in MoveOps /\ o.at = "effect" /\ ~o.flag =>
         ~NoteAt(t, o.to) /\ ~IsPrefix(o.to, o.path)

CallOK(o, t) ==
    /\ o.op = "idle" <=> o.at = "idle"
    /\ o.op # "idle" => ValidateVaultPath(o.path)
    /\ o.at = "queued" => o.op \in MetadataOps
    /\ o.at = "target" => o.op \in MoveOps
    /\ o.at = "saveMap" => o.op \in {"deleteVaultFolder", "moveFolder"}
    /\ o.op \in MoveOps =>
         /\ ValidateVaultPath(o.to)
         /\ o.op = "moveFolder" => ~IsPrefix(o.path, o.to)
         /\ o.flag => ~IsPrefix(o.to, o.path)
    /\ o.at \in {"queued", "target", "effect"} => StillHolds(o, t)

\* One structure operation at a time.
OneStructureOp ==
    \A c, d \in Callers :
        call[c].op \in StructureOps /\ call[d].op \in StructureOps => c = d

\* The queue holds the operations on folders.yml, each once; all but the first wait.
QueueOK ==
    /\ metadataQueue \in Seq(Callers)
    /\ \A j, k \in 1..Len(metadataQueue) : metadataQueue[j] = metadataQueue[k] => j = k
    /\ \A c \in Callers : call[c].op \in MetadataOps =>
         \E k \in 1..Len(metadataQueue) : metadataQueue[k] = c
    /\ \A k \in 1..Len(metadataQueue) :
         /\ call[metadataQueue[k]].op \in MetadataOps
         /\ k > 1 => call[metadataQueue[k]].at = "queued"

\* What the first of the queue has read is still what folders.yml says.
MapIsCurrent ==
    \A c \in Callers :
        call[c].op \in MetadataOps /\ call[c].at \in {"target", "effect", "saveMap"} =>
            call[c].map = folders

\* A map gives every coloured folder of the tree its colour.
Agrees(t, m) ==
    \A p \in DOMAIN t : t[p].shade # NoColor => p \in DOMAIN m /\ m[p] = t[p].shade

\* The map a move or a delete of a folder is about to write.
NewMap(o) ==
    IF o.op = "moveFolder" THEN MoveFolderMetadataSubtree(o.map, o.path, o.to)
    ELSE RemoveFolderMetadataSubtree(o.map, o.path)

ColorsOK ==
    ~faded =>
        /\ (\A c \in Callers : call[c].at # "saveMap") => Agrees(tree, folders)
        /\ \A c \in Callers : call[c].at = "saveMap" => Agrees(tree, NewMap(call[c]))

FilesTypeOK ==
    /\ TreeOK(tree)
    /\ folders \in Map
    /\ call \in [Callers -> CallType]
    /\ nextId \in Nat \ {0}
    /\ faded \in BOOLEAN

FilesInv ==
    /\ FilesTypeOK
    /\ \A c \in Callers : CallOK(call[c], tree)
    /\ OneStructureOp /\ QueueOK /\ MapIsCurrent /\ ColorsOK
    /\ NotesAreKept /\ InternalStateStays

-----------------------------------------------------------------------------
(* Paths.                                                                  *)

\* Where a path under from is after from became to.
Rebased(from, to, q) == to \o SubSeq(q, Len(from) + 1, Len(q))

\* A prefix, by its elements.
LEMMA PrefixElements ==
    ASSUME NEW p \in Seq(STRING), NEW q \in Seq(STRING)
    PROVE  IsPrefix(p, q) <=> Len(p) <= Len(q) /\ \A i \in 1..Len(p) : p[i] = q[i]
<1>1. Len(p) \in Nat /\ Len(q) \in Nat
  OBVIOUS
<1>2. CASE Len(p) <= Len(q)
  <2>1. /\ SubSeq(p, 1, Len(p)) \in Seq(STRING) /\ Len(SubSeq(p, 1, Len(p))) = Len(p)
        /\ \A i \in 1..Len(p) : SubSeq(p, 1, Len(p))[i] = p[i]
    OBVIOUS
  <2>2. /\ SubSeq(q, 1, Len(p)) \in Seq(STRING) /\ Len(SubSeq(q, 1, Len(p))) = Len(p)
        /\ \A i \in 1..Len(p) : SubSeq(q, 1, Len(p))[i] = q[i]
    BY <1>1, <1>2
  <2>3. SubSeq(p, 1, Len(p)) = SubSeq(q, 1, Len(p)) <=> \A i \in 1..Len(p) : p[i] = q[i]
    BY <2>1, <2>2, SeqEqual
  <2> QED
    BY <1>2, <2>3 DEF IsPrefix
<1>3. CASE ~(Len(p) <= Len(q))
  BY <1>3 DEF IsPrefix
<1> QED
  BY <1>2, <1>3

LEMMA PrefixReflexive == ASSUME NEW p \in Seq(STRING) PROVE IsPrefix(p, p)
BY PrefixElements

LEMMA PrefixTransitive ==
    ASSUME NEW p \in Seq(STRING), NEW q \in Seq(STRING), NEW r \in Seq(STRING),
           IsPrefix(p, q), IsPrefix(q, r)
    PROVE  IsPrefix(p, r)
<1>1. Len(p) <= Len(q) /\ \A i \in 1..Len(p) : p[i] = q[i]
  BY PrefixElements
<1>2. Len(q) <= Len(r) /\ \A i \in 1..Len(q) : q[i] = r[i]
  BY PrefixElements
<1>3. Len(p) <= Len(r) /\ \A i \in 1..Len(p) : p[i] = r[i]
  BY <1>1, <1>2
<1> QED
  BY <1>3, PrefixElements

\* Two prefixes of a path are prefixes one of the other.
LEMMA PrefixesCompare ==
    ASSUME NEW p \in Seq(STRING), NEW q \in Seq(STRING), NEW r \in Seq(STRING),
           IsPrefix(p, r), IsPrefix(q, r)
    PROVE  IsPrefix(p, q) \/ IsPrefix(q, p)
<1>1. Len(p) <= Len(r) /\ \A i \in 1..Len(p) : p[i] = r[i]
  BY PrefixElements
<1>2. Len(q) <= Len(r) /\ \A i \in 1..Len(q) : q[i] = r[i]
  BY PrefixElements
<1>3. CASE Len(p) <= Len(q)
  <2>1. \A i \in 1..Len(p) : p[i] = q[i]
    BY <1>1, <1>2, <1>3
  <2> QED
    BY <1>3, <2>1, PrefixElements
<1>4. CASE Len(q) <= Len(p)
  <2>1. \A i \in 1..Len(q) : q[i] = p[i]
    BY <1>1, <1>2, <1>4
  <2> QED
    BY <1>4, <2>1, PrefixElements
<1> QED
  BY <1>3, <1>4

\* Prefixes of each other are the same.
LEMMA PrefixAntisymmetric ==
    ASSUME NEW p \in Seq(STRING), NEW q \in Seq(STRING), IsPrefix(p, q), IsPrefix(q, p)
    PROVE  p = q
<1>1. Len(p) = Len(q) /\ \A i \in 1..Len(p) : p[i] = q[i]
  BY PrefixElements
<1> QED
  BY <1>1, SeqEqual

\* The parents of a path are its proper prefixes, without the root.
LEMMA ParentsArePrefixes ==
    ASSUME NEW p \in Seq(STRING)
    PROVE  \A q : q \in Parents(p) <=> q \in Path /\ IsPrefix(q, p) /\ q # p
<1>1. ASSUME NEW q, q \in Parents(p) PROVE q \in Path /\ IsPrefix(q, p) /\ q # p
  <2>1. PICK k \in 1..(Len(p) - 1) : q = SubSeq(p, 1, k)
    BY <1>1 DEF Parents
  <2>2. q \in Seq(STRING) /\ Len(q) = k /\ \A i \in 1..k : q[i] = p[i]
    BY <2>1
  <2>3. IsPrefix(q, p)
    <3>1. Len(p) \in Nat /\ k <= Len(p)
      OBVIOUS
    <3> QED
      BY <2>2, <3>1, PrefixElements
  <2> QED
    BY <2>1, <2>2, <2>3 DEF Path
<1>2. ASSUME NEW q \in Path, IsPrefix(q, p), q # p PROVE q \in Parents(p)
  <2>1. q \in Seq(STRING) /\ q # <<>>
    BY DEF Path
  <2>2. Len(q) <= Len(p) /\ \A i \in 1..Len(q) : q[i] = p[i]
    BY <1>2, <2>1, PrefixElements
  <2>3. Len(q) \in Nat /\ Len(p) \in Nat /\ Len(q) >= 1
    BY <2>1
  <2>4. Len(q) # Len(p)
    BY <1>2, <2>1, <2>2, SeqEqual
  <2>5. Len(q) \in 1..(Len(p) - 1)
    BY <2>2, <2>3, <2>4
  <2>6. /\ SubSeq(p, 1, Len(q)) \in Seq(STRING) /\ Len(SubSeq(p, 1, Len(q))) = Len(q)
        /\ \A i \in 1..Len(q) : SubSeq(p, 1, Len(q))[i] = p[i]
    BY <2>3, <2>5
  <2>7. q = SubSeq(p, 1, Len(q))
    BY <2>1, <2>2, <2>6, SeqEqual
  <2> QED
    BY <2>5, <2>7 DEF Parents
<1> QED
  BY <1>1, <1>2

\* A path that is carried over, by its elements.
LEMMA RebasedElements ==
    ASSUME NEW from \in Seq(STRING), NEW to \in Seq(STRING), NEW q \in Seq(STRING),
           IsPrefix(from, q)
    PROVE  /\ Rebased(from, to, q) \in Seq(STRING)
           /\ Len(Rebased(from, to, q)) = Len(to) + (Len(q) - Len(from))
           /\ \A i \in 1..Len(to) : Rebased(from, to, q)[i] = to[i]
           /\ \A i \in 1..(Len(q) - Len(from)) : Rebased(from, to, q)[Len(to) + i] = q[Len(from) + i]
<1>1. Len(from) \in Nat /\ Len(to) \in Nat /\ Len(q) \in Nat /\ Len(from) <= Len(q)
  BY PrefixElements
<1> DEFINE rest == SubSeq(q, Len(from) + 1, Len(q))
<1>2. /\ rest \in Seq(STRING) /\ Len(rest) = Len(q) - Len(from)
      /\ \A i \in 1..(Len(q) - Len(from)) : rest[i] = q[Len(from) + i]
  BY <1>1
<1>3. /\ to \o rest \in Seq(STRING) /\ Len(to \o rest) = Len(to) + Len(rest)
      /\ \A i \in 1..Len(to) : (to \o rest)[i] = to[i]
      /\ \A i \in 1..Len(rest) : (to \o rest)[Len(to) + i] = rest[i]
  BY <1>1, <1>2
<1>4. Rebased(from, to, q) = to \o rest
  BY DEF Rebased
<1> QED
  BY <1>2, <1>3, <1>4

\* What is carried over lies under the new path, and carried back it is what it was.
LEMMA RebasedFacts ==
    ASSUME NEW from \in Seq(STRING), NEW to \in Path, NEW q \in Seq(STRING), IsPrefix(from, q)
    PROVE  /\ Rebased(from, to, q) \in Path
           /\ IsPrefix(to, Rebased(from, to, q))
           /\ Rebased(to, from, Rebased(from, to, q)) = q
           /\ q = from => Rebased(from, to, q) = to
<1> DEFINE r == Rebased(from, to, q)
           b == Rebased(to, from, r)
<1>0. to \in Seq(STRING) /\ to # <<>> /\ Len(to) \in Nat /\ Len(to) >= 1
  BY DEF Path
<1>1. /\ r \in Seq(STRING) /\ Len(r) = Len(to) + (Len(q) - Len(from))
      /\ \A i \in 1..Len(to) : r[i] = to[i]
      /\ \A i \in 1..(Len(q) - Len(from)) : r[Len(to) + i] = q[Len(from) + i]
  BY <1>0, RebasedElements
<1>2. /\ Len(from) \in Nat /\ Len(q) \in Nat /\ Len(from) <= Len(q)
      /\ \A i \in 1..Len(from) : from[i] = q[i]
  BY PrefixElements
<1>3. Len(to) <= Len(r)
  BY <1>0, <1>1, <1>2
<1>4. IsPrefix(to, r)
  BY <1>0, <1>1, <1>3, PrefixElements
<1>5. r \in Path
  BY <1>0, <1>1, <1>3 DEF Path
<1>6. /\ b \in Seq(STRING) /\ Len(b) = Len(from) + (Len(r) - Len(to))
      /\ \A i \in 1..Len(from) : b[i] = from[i]
      /\ \A i \in 1..(Len(r) - Len(to)) : b[Len(from) + i] = r[Len(to) + i]
  BY <1>0, <1>1, <1>4, RebasedElements, ZenonT(40)
<1>7. Len(b) = Len(q)
  BY <1>0, <1>1, <1>2, <1>6
<1>8. ASSUME NEW i \in 1..Len(q) PROVE b[i] = q[i]
  <2>1. CASE i <= Len(from)
    BY <1>2, <1>6, <2>1
  <2>2. CASE i > Len(from)
    <3>1. PICK j \in 1..(Len(q) - Len(from)) : i = Len(from) + j
      <4>1. i - Len(from) \in 1..(Len(q) - Len(from)) /\ i = Len(from) + (i - Len(from))
        BY <1>2, <2>2
      <4> QED
        BY <4>1
    <3>2. Len(r) - Len(to) = Len(q) - Len(from)
      BY <1>0, <1>1, <1>2
    <3> QED
      BY <1>1, <1>6, <3>1, <3>2
  <2> QED
    BY <1>2, <2>1, <2>2
<1>9. b = q
  BY <1>6, <1>7, <1>8, SeqEqual
<1>10. ASSUME q = from PROVE r = to
  <2>1. Len(r) = Len(to)
    BY <1>0, <1>1, <1>2, <1>10
  <2> QED
    BY <1>0, <1>1, <2>1, SeqEqual
<1> QED
  BY <1>4, <1>5, <1>9, <1>10

\* Carrying over keeps who lies under whom.
LEMMA RebasedPrefix ==
    ASSUME NEW from \in Seq(STRING), NEW to \in Path, NEW q \in Seq(STRING), NEW r \in Seq(STRING),
           IsPrefix(from, q), IsPrefix(q, r)
    PROVE  IsPrefix(Rebased(from, to, q), Rebased(from, to, r))
<1> DEFINE a == Rebased(from, to, q)
           b == Rebased(from, to, r)
<1>0. to \in Seq(STRING) /\ Len(to) \in Nat
  BY DEF Path
<1>1. IsPrefix(from, r)
  BY PrefixTransitive
<1>2. /\ a \in Seq(STRING) /\ Len(a) = Len(to) + (Len(q) - Len(from))
      /\ \A i \in 1..Len(to) : a[i] = to[i]
      /\ \A i \in 1..(Len(q) - Len(from)) : a[Len(to) + i] = q[Len(from) + i]
  BY <1>0, RebasedElements, ZenonT(40)
<1>3. /\ b \in Seq(STRING) /\ Len(b) = Len(to) + (Len(r) - Len(from))
      /\ \A i \in 1..Len(to) : b[i] = to[i]
      /\ \A i \in 1..(Len(r) - Len(from)) : b[Len(to) + i] = r[Len(from) + i]
  BY <1>0, <1>1, RebasedElements, ZenonT(40)
<1>4. Len(from) \in Nat /\ Len(q) \in Nat /\ Len(r) \in Nat
  OBVIOUS
<1>5. Len(from) <= Len(q) /\ Len(q) <= Len(r) /\ \A i \in 1..Len(q) : q[i] = r[i]
  BY PrefixElements
<1>6. Len(a) <= Len(b)
  BY <1>0, <1>2, <1>3, <1>4, <1>5
<1>7. ASSUME NEW i \in 1..Len(a) PROVE a[i] = b[i]
  <2>1. CASE i <= Len(to)
    BY <1>0, <1>2, <1>3, <2>1
  <2>2. CASE i > Len(to)
    <3>1. PICK j \in 1..(Len(q) - Len(from)) : i = Len(to) + j
      <4>1. i - Len(to) \in 1..(Len(q) - Len(from)) /\ i = Len(to) + (i - Len(to))
        BY <1>0, <1>2, <1>4, <1>5, <2>2
      <4> QED
        BY <4>1
    <3>2. j \in 1..(Len(r) - Len(from)) /\ Len(from) + j \in 1..Len(q)
      BY <1>4, <1>5
    <3> QED
      BY <1>2, <1>3, <1>5, <3>1, <3>2
  <2> QED
    BY <1>0, <2>1, <2>2
<1> QED
  BY <1>2, <1>3, <1>6, <1>7, PrefixElements

\* A path under a validated one is not the vault's own.
LEMMA OwnIsElsewhere ==
    ASSUME NEW p \in Seq(STRING), ValidateVaultPath(p), NEW q \in Path, IsPrefix(p, q)
    PROVE  q[1] \notin InternalSegments
<1>0. p # <<>>
  BY DEF ValidateVaultPath
<1>1. p # <<>> /\ Len(p) \in Nat /\ Len(p) >= 1 /\ DOMAIN p = 1..Len(p)
  BY <1>0
<1>2. 1 \in 1..Len(p)
  BY <1>1
<1>3. p[1] = q[1]
  BY <1>2, PrefixElements DEF Path
<1>4. p[1] \notin InternalSegments
  BY <1>1, <1>2 DEF ValidateVaultPath
<1> QED
  BY <1>3, <1>4

-----------------------------------------------------------------------------
(* What the operations do to the tree.                                     *)

\* No path goes, none changes its kind, and no note appears.
Gentle(t, u) ==
    /\ \A p \in DOMAIN t : p \in DOMAIN u /\ u[p].kind = t[p].kind
    /\ \A p \in DOMAIN u : NoteAt(u, p) => NoteAt(t, p)

\* No colour appears.
ColorsFrom(t, u) ==
    \A p \in DOMAIN u : u[p].shade # NoColor => p \in DOMAIN t /\ t[p].shade = u[p].shade

\* What is the vault's own stays.
OwnStays(t, u) ==
    \A p \in DOMAIN t : p[1] \in InternalSegments => p \in DOMAIN u /\ u[p] = t[p]

LEMMA NoColorType == NoColor \in Shades
BY DEF Shades

\* Folders made with their parents.
LEMMA MkdirTree ==
    ASSUME NEW t, TreeOK(t), NEW S \in SUBSET Path, \A q \in S : Parents(q) \subseteq S,
           ~MkdirCollides(t, S)
    PROVE  /\ TreeOK(Mkdir(t, S)) /\ Gentle(t, Mkdir(t, S))
           /\ ColorsFrom(t, Mkdir(t, S)) /\ OwnStays(t, Mkdir(t, S))
           /\ DOMAIN Mkdir(t, S) = DOMAIN t \cup S
           /\ \A q \in DOMAIN t : Mkdir(t, S)[q] = t[q]
           /\ \A q \in S : IsFolder(Mkdir(t, S), q)
           /\ \A q \in S \ DOMAIN t : Mkdir(t, S)[q] = Folder(NoColor)
<1> DEFINE u == Mkdir(t, S)
<1>1. /\ DOMAIN u = DOMAIN t \cup S
      /\ \A q \in DOMAIN t : u[q] = t[q]
      /\ \A q \in S \ DOMAIN t : u[q] = Folder(NoColor)
  BY DEF Mkdir, Exists
<1>2. /\ Folder(NoColor) \in Node
      /\ Folder(NoColor).kind = "folder" /\ Folder(NoColor).shade = NoColor
  BY NoColorType DEF Node, Folder
<1>3. DOMAIN t \subseteq Path /\ \A q \in DOMAIN t : t[q] \in Node
  BY DEF TreeOK
<1>4. \A q \in S : IsFolder(u, q)
  <2> SUFFICES ASSUME NEW q \in S PROVE IsFolder(u, q)
    OBVIOUS
  <2>1. CASE q \in DOMAIN t
    <3>1. t[q].kind = "folder"
      BY <1>3, <2>1 DEF MkdirCollides, IsFile, Exists, Node
    <3> QED
      BY <1>1, <2>1, <3>1 DEF IsFolder, Exists
  <2>2. CASE q \notin DOMAIN t
    BY <1>1, <1>2, <2>2 DEF IsFolder, Exists
  <2> QED
    BY <2>1, <2>2
<1>5. u \in [DOMAIN u -> Node]
  <2>1. u = [p \in DOMAIN u |-> u[p]]
    BY <1>1 DEF Mkdir
  <2> QED
    BY <1>1, <1>2, <1>3, <2>1
<1>6. ASSUME NEW p \in DOMAIN u, NEW q \in Parents(p) PROVE IsFolder(u, q)
  <2>1. CASE p \in DOMAIN t
    <3>1. IsFolder(t, q)
      BY <2>1 DEF TreeOK
    <3> QED
      BY <1>1, <3>1 DEF IsFolder, Exists
  <2>2. CASE p \in S
    BY <1>4, <2>2
  <2> QED
    BY <1>1, <2>1, <2>2
<1>7. ASSUME NEW p \in DOMAIN u, IsFile(u, p) PROVE u[p].shade = NoColor
  <2>1. CASE p \in DOMAIN t
    BY <1>1, <1>7, <2>1 DEF TreeOK, IsFile, Exists
  <2>2. CASE p \notin DOMAIN t
    BY <1>1, <1>2, <2>2
  <2> QED
    BY <2>1, <2>2
<1>8. TreeOK(u)
  BY <1>1, <1>3, <1>5, <1>6, <1>7 DEF TreeOK
<1>9. Gentle(t, u)
  <2>1. ASSUME NEW p \in DOMAIN u, NoteAt(u, p) PROVE NoteAt(t, p)
    <3>1. CASE p \in DOMAIN t
      BY <1>1, <2>1, <3>1 DEF NoteAt, IsFile, Exists
    <3>2. CASE p \notin DOMAIN t
      BY <1>1, <1>2, <2>1, <3>2 DEF NoteAt, IsFile
    <3> QED
      BY <3>1, <3>2
  <2> QED
    BY <1>1, <2>1 DEF Gentle
<1>10. ColorsFrom(t, u)
  BY <1>1, <1>2 DEF ColorsFrom
<1>11. OwnStays(t, u)
  BY <1>1 DEF OwnStays
<1> QED
  BY <1>1, <1>4, <1>8, <1>9, <1>10, <1>11

\* The folders that mkdir makes come with their parents.
LEMMA ParentsClosed ==
    ASSUME NEW p \in Path
    PROVE  /\ Parents(p) \in SUBSET Path /\ Parents(p) \cup {p} \in SUBSET Path
           /\ \A q \in Parents(p) \cup {p} : Parents(q) \subseteq Parents(p)
<1>1. p \in Seq(STRING)
  BY DEF Path
<1>2. Parents(p) \subseteq Path
  BY <1>1, ParentsArePrefixes
<1>3. ASSUME NEW q \in Parents(p), NEW r \in Parents(q) PROVE r \in Parents(p)
  <2>1. q \in Path /\ IsPrefix(q, p) /\ q # p
    BY <1>1, ParentsArePrefixes
  <2>2. q \in Seq(STRING)
    BY <2>1 DEF Path
  <2>3. r \in Path /\ IsPrefix(r, q) /\ r # q
    BY <2>2, ParentsArePrefixes
  <2>4. r \in Seq(STRING)
    BY <2>3 DEF Path
  <2>5. IsPrefix(r, p)
    BY <1>1, <2>1, <2>2, <2>3, <2>4, PrefixTransitive
  <2>6. r # p
    BY <1>1, <2>1, <2>2, <2>3, PrefixAntisymmetric
  <2> QED
    BY <1>1, <2>3, <2>5, <2>6, ParentsArePrefixes
<1> QED
  BY <1>2, <1>3

\* A file written beside or over another, in folders that are made for it.
LEMMA WriteTree ==
    ASSUME NEW t, TreeOK(t), NEW p \in Path, ValidateVaultPath(p),
           ~MkdirCollides(t, Parents(p)), ~IsFolder(t, p), NEW i \in Int, NEW u,
           u = [q \in DOMAIN Mkdir(t, Parents(p)) \cup {p} |->
                   IF q = p THEN File(i) ELSE Mkdir(t, Parents(p))[q]]
    PROVE  /\ TreeOK(u) /\ ColorsFrom(t, u) /\ OwnStays(t, u)
           /\ i < 0 => Gentle(t, u)
<1> DEFINE g == Mkdir(t, Parents(p))
<1>1. /\ TreeOK(g) /\ Gentle(t, g) /\ ColorsFrom(t, g) /\ OwnStays(t, g)
      /\ DOMAIN g = DOMAIN t \cup Parents(p)
      /\ \A q \in DOMAIN t : g[q] = t[q]
      /\ \A q \in Parents(p) : IsFolder(g, q)
  BY ParentsClosed, MkdirTree
<1> HIDE DEF g
<1>2. /\ DOMAIN u = DOMAIN g \cup {p} /\ u[p] = File(i)
      /\ \A q \in DOMAIN g : q # p => u[q] = g[q]
      /\ u = [q \in DOMAIN u |-> u[q]]
  BY DEF g
<1>3. /\ File(i) \in Node /\ File(i).kind = "file" /\ File(i).id = i
      /\ File(i).shade = NoColor
  BY NoColorType DEF Node, File
<1>4. p \notin Parents(p)
  BY ParentsArePrefixes DEF Path
<1>5. ~IsFolder(g, p)
  BY <1>1, <1>4 DEF IsFolder, Exists
<1>6. DOMAIN u \subseteq Path /\ u \in [DOMAIN u -> Node]
  BY <1>1, <1>2, <1>3 DEF TreeOK
<1>7. ASSUME NEW q \in DOMAIN u, NEW r \in Parents(q) PROVE IsFolder(u, r)
  <2>1. IsFolder(g, r)
    BY <1>1, <1>2 DEF TreeOK
  <2> QED
    BY <1>2, <1>5, <2>1 DEF IsFolder, Exists
<1>8. ASSUME NEW q \in DOMAIN u, IsFile(u, q) PROVE u[q].shade = NoColor
  <2>1. CASE q = p
    BY <1>2, <1>3, <2>1
  <2>2. CASE q # p
    BY <1>1, <1>2, <1>8, <2>2 DEF TreeOK, IsFile, Exists
  <2> QED
    BY <2>1, <2>2
<1>9. TreeOK(u)
  BY <1>6, <1>7, <1>8 DEF TreeOK
<1>10. ColorsFrom(t, u)
  BY <1>1, <1>2, <1>3, ZenonT(40) DEF ColorsFrom
<1>11. OwnStays(t, u)
  <2>1. p[1] \notin InternalSegments
    BY OwnIsElsewhere, PrefixReflexive DEF Path
  <2> QED
    BY <1>1, <1>2, <2>1 DEF OwnStays
<1>12. ASSUME i < 0 PROVE Gentle(t, u)
  <2>1. ASSUME NEW q \in DOMAIN t PROVE q \in DOMAIN u /\ u[q].kind = t[q].kind
    <3>1. CASE q = p
      <4>1. t[p].kind = "file"
        BY <3>1, <2>1 DEF TreeOK, IsFolder, Exists, Node
      <4> QED
        BY <1>2, <1>3, <3>1, <4>1
    <3>2. CASE q # p
      BY <1>1, <1>2, <2>1, <3>2
    <3> QED
      BY <3>1, <3>2
  <2>2. ASSUME NEW q \in DOMAIN u, NoteAt(u, q) PROVE NoteAt(t, q)
    <3>1. q # p
      BY <1>2, <1>3, <1>12, <2>2 DEF NoteAt
    <3>2. NoteAt(g, q)
      BY <1>2, <2>2, <3>1 DEF NoteAt, IsFile, Exists
    <3> QED
      BY <1>1, <1>2, <3>1, <3>2 DEF Gentle
  <2> QED
    BY <2>1, <2>2 DEF Gentle
<1> QED
  BY <1>9, <1>10, <1>11, <1>12

\* What lies under a removed path goes with it.
LEMMA RemoveTree ==
    ASSUME NEW t, TreeOK(t), NEW S \in SUBSET DOMAIN t,
           \A q \in DOMAIN t : \A r \in Parents(q) : r \in S => q \in S,
           \A q \in S : q[1] \notin InternalSegments
    PROVE  /\ TreeOK(Without(t, S)) /\ ColorsFrom(t, Without(t, S)) /\ OwnStays(t, Without(t, S))
           /\ DOMAIN Without(t, S) = DOMAIN t \ S
           /\ \A q \in DOMAIN t \ S : Without(t, S)[q] = t[q]
<1> DEFINE u == Without(t, S)
<1>1. /\ DOMAIN u = DOMAIN t \ S /\ \A q \in DOMAIN u : u[q] = t[q]
      /\ u = [q \in DOMAIN u |-> u[q]]
  BY DEF Without, Restrict
<1> HIDE DEF u
<1>2. DOMAIN u \subseteq Path /\ u \in [DOMAIN u -> Node]
  BY <1>1 DEF TreeOK
<1>3. ASSUME NEW q \in DOMAIN u, NEW r \in Parents(q) PROVE IsFolder(u, r)
  <2>1. IsFolder(t, r) /\ r \notin S
    BY <1>1 DEF TreeOK
  <2> QED
    BY <1>1, <2>1 DEF IsFolder, Exists
<1>4. TreeOK(u)
  BY <1>1, <1>2, <1>3 DEF TreeOK, IsFile, Exists
<1>5. ColorsFrom(t, u) /\ OwnStays(t, u)
  BY <1>1 DEF ColorsFrom, OwnStays
<1> QED
  BY <1>1, <1>4, <1>5 DEF u

\* A whole subtree can be removed.
LEMMA SubtreeCloses ==
    ASSUME NEW t, TreeOK(t), NEW p \in Path, ValidateVaultPath(p)
    PROVE  /\ Subtree(t, p) \in SUBSET DOMAIN t
           /\ \A q \in DOMAIN t : \A r \in Parents(q) : r \in Subtree(t, p) => q \in Subtree(t, p)
           /\ \A q \in Subtree(t, p) : q[1] \notin InternalSegments
<1>1. p \in Seq(STRING) /\ DOMAIN t \subseteq Path /\ Path \subseteq Seq(STRING)
  BY DEF Path, TreeOK
<1>2. ASSUME NEW q \in DOMAIN t, NEW r \in Parents(q), r \in Subtree(t, p)
      PROVE  q \in Subtree(t, p)
  <2>1. q \in Seq(STRING) /\ r \in Seq(STRING) /\ IsPrefix(p, r)
    BY <1>1, <1>2 DEF Subtree, RelativeDescendantPath
  <2>2. IsPrefix(r, q)
    BY <1>2, <2>1, ParentsArePrefixes
  <2>3. IsPrefix(p, q)
    BY <1>1, <2>1, <2>2, PrefixTransitive
  <2> QED
    BY <2>3 DEF Subtree, RelativeDescendantPath
<1>3. ASSUME NEW q \in Subtree(t, p) PROVE q[1] \notin InternalSegments
  <2>1. q \in Path /\ IsPrefix(p, q)
    BY <1>1 DEF Subtree, RelativeDescendantPath
  <2> QED
    BY <1>1, <2>1, OwnIsElsewhere
<1> QED
  BY <1>2, <1>3 DEF Subtree

LEMMA SubtreeRemoved ==
    ASSUME NEW t, TreeOK(t), NEW p \in Path, ValidateVaultPath(p)
    PROVE  LET u == Without(t, Subtree(t, p))
           IN  /\ TreeOK(u) /\ ColorsFrom(t, u) /\ OwnStays(t, u)
               /\ DOMAIN u = DOMAIN t \ Subtree(t, p)
               /\ \A q \in DOMAIN t \ Subtree(t, p) : u[q] = t[q]
<1> DEFINE S == Subtree(t, p)
<1>1. /\ S \in SUBSET DOMAIN t
      /\ \A q \in DOMAIN t : \A r \in Parents(q) : r \in S => q \in S
      /\ \A q \in S : q[1] \notin InternalSegments
  BY SubtreeCloses
<1> HIDE DEF S
<1>2. /\ TreeOK(Without(t, S)) /\ ColorsFrom(t, Without(t, S)) /\ OwnStays(t, Without(t, S))
      /\ DOMAIN Without(t, S) = DOMAIN t \ S
      /\ \A q \in DOMAIN t \ S : Without(t, S)[q] = t[q]
  BY <1>1, RemoveTree
<1> QED
  BY <1>2 DEF S

\* Nothing lies under a file, nor under a path that is not there.
LEMMA NothingUnder ==
    ASSUME NEW t, TreeOK(t), NEW p \in Path, ~IsFolder(t, p)
    PROVE  \A q \in DOMAIN t : IsPrefix(p, q) => q = p
<1> SUFFICES ASSUME NEW q \in DOMAIN t, IsPrefix(p, q), q # p PROVE FALSE
  OBVIOUS
<1>1. q \in Seq(STRING)
  BY DEF TreeOK, Path
<1>2. p \in Parents(q)
  BY <1>1, ParentsArePrefixes
<1> QED
  BY <1>2 DEF TreeOK

\* The trees a rename goes through: the target cleared, its parents made, the
\* source taken out; and what comes under the target.
Cleared(t, to, flag) == IF flag THEN Without(t, Subtree(t, to)) ELSE t
Grown(t, to, flag) == Mkdir(Cleared(t, to, flag), Parents(to))
Moved(t, from, to) == {to \o SubSeq(q, Len(from) + 1, Len(q)) : q \in Subtree(t, from)}
Left(t, from, to, flag) ==
    Without(Grown(t, to, flag), Subtree(Grown(t, to, flag), from))
Renamed(t, from, to, flag) ==
    [q \in DOMAIN Left(t, from, to, flag) \cup Moved(t, from, to) |->
        IF q \in Moved(t, from, to) THEN t[from \o SubSeq(q, Len(to) + 1, Len(q))]
        ELSE Left(t, from, to, flag)[q]]

\* The target cleared.
LEMMA ClearedFacts ==
    ASSUME NEW t, TreeOK(t), NEW to \in Path, NEW flag \in BOOLEAN, ValidateVaultPath(to)
    PROVE  LET base == Cleared(t, to, flag)
           IN  /\ TreeOK(base) /\ OwnStays(t, base) /\ DOMAIN base \subseteq DOMAIN t
               /\ \A q \in DOMAIN base : base[q] = t[q]
               /\ \A q \in DOMAIN t \ DOMAIN base : IsPrefix(to, q)
<1> DEFINE w == Without(t, Subtree(t, to))
<1>1. CASE flag
  <2>1. /\ TreeOK(w) /\ OwnStays(t, w) /\ DOMAIN w = DOMAIN t \ Subtree(t, to)
        /\ \A q \in DOMAIN t \ Subtree(t, to) : w[q] = t[q]
    BY SubtreeRemoved
  <2>2. Cleared(t, to, flag) = w
    BY <1>1 DEF Cleared
  <2> HIDE DEF w
  <2> QED
    BY <2>1, <2>2 DEF Subtree, RelativeDescendantPath
<1>2. CASE ~flag
  BY <1>2 DEF OwnStays, Cleared
<1> QED
  BY <1>1, <1>2

\* The parents of the target made.
LEMMA GrownFacts ==
    ASSUME NEW t, NEW to \in Path, NEW flag \in BOOLEAN, TreeOK(Cleared(t, to, flag)),
           ~MkdirCollides(Cleared(t, to, flag), Parents(to))
    PROVE  LET base  == Cleared(t, to, flag)
               grown == Grown(t, to, flag)
           IN  /\ TreeOK(grown) /\ OwnStays(base, grown) /\ DOMAIN grown = DOMAIN base \cup Parents(to)
               /\ \A q \in DOMAIN base : grown[q] = base[q]
               /\ \A q \in Parents(to) : IsFolder(grown, q)
               /\ \A q \in Parents(to) \ DOMAIN base : grown[q] = Folder(NoColor)
<1> DEFINE base == Cleared(t, to, flag)
<1> HIDE DEF base
<1>1. Parents(to) \in SUBSET Path /\ \A q \in Parents(to) : Parents(q) \subseteq Parents(to)
  BY ParentsClosed
<1>2. TreeOK(base) /\ ~MkdirCollides(base, Parents(to))
  BY DEF base
<1>3. /\ TreeOK(Mkdir(base, Parents(to))) /\ OwnStays(base, Mkdir(base, Parents(to)))
      /\ DOMAIN Mkdir(base, Parents(to)) = DOMAIN base \cup Parents(to)
      /\ \A q \in DOMAIN base : Mkdir(base, Parents(to))[q] = base[q]
      /\ \A q \in Parents(to) : IsFolder(Mkdir(base, Parents(to)), q)
      /\ \A q \in Parents(to) \ DOMAIN base : Mkdir(base, Parents(to))[q] = Folder(NoColor)
  BY <1>1, <1>2, MkdirTree
<1>4. Grown(t, to, flag) = Mkdir(base, Parents(to))
  BY DEF Grown, base
<1> QED
  BY <1>3, <1>4 DEF base

\* The source taken out.
LEMMA LeftFacts ==
    ASSUME NEW t, NEW from \in Path, NEW to \in Path, NEW flag \in BOOLEAN,
           TreeOK(Grown(t, to, flag)), ValidateVaultPath(from)
    PROVE  LET grown == Grown(t, to, flag)
               after == Left(t, from, to, flag)
           IN  /\ TreeOK(after) /\ OwnStays(grown, after)
               /\ DOMAIN after = {q \in DOMAIN grown : ~IsPrefix(from, q)}
               /\ \A q \in DOMAIN after : after[q] = grown[q]
<1> DEFINE g == Grown(t, to, flag)
           w == Without(g, Subtree(g, from))
<1> HIDE DEF g
<1>1. TreeOK(g)
  BY DEF g
<1>2. /\ TreeOK(w) /\ OwnStays(g, w) /\ DOMAIN w = DOMAIN g \ Subtree(g, from)
      /\ \A q \in DOMAIN g \ Subtree(g, from) : w[q] = g[q]
  BY <1>1, SubtreeRemoved
<1>3. Left(t, from, to, flag) = w
  BY DEF Left, g
<1> HIDE DEF w
<1> QED
  BY <1>2, <1>3 DEF g, Subtree, RelativeDescendantPath

\* A path renamed: what lay under it lies under the target, the rest is as it was
\* but for the folders made above the target and what lay under the target.
LEMMA RenameTree ==
    ASSUME NEW t, TreeOK(t), NEW from \in Path, NEW to \in Path, NEW flag \in BOOLEAN,
           ValidateVaultPath(from), ValidateVaultPath(to), from \in DOMAIN t,
           ~IsPrefix(to, from), IsFolder(t, from) => ~IsPrefix(from, to),
           ~MkdirCollides(Cleared(t, to, flag), Parents(to)),
           ~(IsFolder(Cleared(t, to, flag), to) /\ Subtree(Cleared(t, to, flag), to) # {to}),
           NEW u, u = Renamed(t, from, to, flag)
    PROVE  /\ TreeOK(u) /\ OwnStays(t, u)
           /\ \A p \in DOMAIN u :
                \/ \E q \in Subtree(t, from) : p = Rebased(from, to, q) /\ u[p] = t[q]
                \/ p \in DOMAIN t /\ u[p] = t[p] /\ ~IsPrefix(from, p) /\ ~IsPrefix(to, p)
                \/ u[p] = Folder(NoColor)
<1> DEFINE base == Cleared(t, to, flag)
           grown == Grown(t, to, flag)
           moved == Moved(t, from, to)
           after == Left(t, from, to, flag)
<1>0. /\ from \in Seq(STRING) /\ to \in Seq(STRING) /\ Path \subseteq Seq(STRING)
      /\ DOMAIN t \subseteq Path /\ DOMAIN t \subseteq Seq(STRING)
  BY DEF Path, TreeOK
<1>1. /\ TreeOK(base) /\ OwnStays(t, base) /\ DOMAIN base \subseteq DOMAIN t
      /\ \A q \in DOMAIN base : base[q] = t[q]
      /\ \A q \in DOMAIN t \ DOMAIN base : IsPrefix(to, q)
  BY ClearedFacts
\* Nothing but the target itself is left under the target.
<1>2. ASSUME NEW q \in DOMAIN base, IsPrefix(to, q) PROVE q = to
  <2>1. CASE IsFolder(base, to)
    BY <1>2, <2>1 DEF Subtree, RelativeDescendantPath
  <2>2. CASE ~IsFolder(base, to)
    BY <1>1, <1>2, <2>2, NothingUnder
  <2> QED
    BY <2>1, <2>2
<1>3. /\ TreeOK(grown) /\ OwnStays(base, grown) /\ DOMAIN grown = DOMAIN base \cup Parents(to)
      /\ \A q \in DOMAIN base : grown[q] = base[q]
      /\ \A q \in Parents(to) : IsFolder(grown, q)
      /\ \A q \in Parents(to) \ DOMAIN base : grown[q] = Folder(NoColor)
  BY <1>1, GrownFacts, ZenonT(40)
\* The source is not above the target.
<1>4. ~IsPrefix(from, to)
  <2>1. SUFFICES ASSUME IsPrefix(from, to), ~IsFolder(t, from) PROVE FALSE
    OBVIOUS
  <2>2. from # to
    BY <1>0, PrefixReflexive
  <2>3. from \in Parents(to)
    BY <1>0, <2>1, <2>2, ParentsArePrefixes
  <2>4. from \in DOMAIN base /\ base[from] = t[from]
    BY <1>1
  <2>5. t[from].kind = "file"
    BY <2>1 DEF TreeOK, IsFolder, Exists, Node
  <2> QED
    BY <2>3, <2>4, <2>5 DEF MkdirCollides, IsFile, Exists
<1>5. ASSUME NEW p \in Seq(STRING), IsPrefix(from, p), IsPrefix(to, p) PROVE FALSE
  BY <1>0, <1>4, <1>5, PrefixesCompare
<1>6. /\ TreeOK(after) /\ OwnStays(grown, after)
      /\ DOMAIN after = {q \in DOMAIN grown : ~IsPrefix(from, q)}
      /\ \A q \in DOMAIN after : after[q] = grown[q]
  <2>1. TreeOK(Grown(t, to, flag))
    BY <1>3
  <2> HIDE DEF after, grown
  <2> QED
    BY <2>1, LeftFacts DEF after, grown
<1>7. moved = {Rebased(from, to, q) : q \in Subtree(t, from)}
  BY DEF Rebased, Moved
<1>8. ASSUME NEW q \in Subtree(t, from)
      PROVE  /\ q \in DOMAIN t /\ q \in Seq(STRING) /\ IsPrefix(from, q)
             /\ Rebased(from, to, q) \in Path /\ IsPrefix(to, Rebased(from, to, q))
             /\ Rebased(to, from, Rebased(from, to, q)) = q
             /\ Rebased(from, to, q) \in moved /\ u[Rebased(from, to, q)] = t[q]
  <2>1. q \in DOMAIN t /\ q \in Seq(STRING) /\ IsPrefix(from, q)
    BY <1>0 DEF Subtree, RelativeDescendantPath
  <2>2. /\ Rebased(from, to, q) \in Path /\ IsPrefix(to, Rebased(from, to, q))
        /\ Rebased(to, from, Rebased(from, to, q)) = q
    BY <1>0, <2>1, RebasedFacts
  <2>3. Rebased(from, to, q) \in moved
    BY <1>7
  <2>4. u[Rebased(from, to, q)] = t[Rebased(to, from, Rebased(from, to, q))]
    BY <2>3 DEF Rebased, Renamed
  <2> QED
    BY <2>1, <2>2, <2>3, <2>4
<1>9. to \in moved
  <2>1. IsPrefix(from, from) /\ from \in Subtree(t, from)
    BY <1>0, PrefixReflexive DEF Subtree, RelativeDescendantPath
  <2>2. Rebased(from, to, from) \in moved
    BY <1>8, <2>1
  <2>3. Rebased(from, to, from) = to
    BY <1>0, <2>1, RebasedFacts
  <2> QED
    BY <2>2, <2>3
<1>10. /\ DOMAIN u = DOMAIN after \cup moved /\ u = [q \in DOMAIN u |-> u[q]]
       /\ \A q \in DOMAIN after \ moved : u[q] = after[q]
  BY DEF Renamed
\* A path that was not moved is not under the target.
<1>11. ASSUME NEW p \in DOMAIN after \ moved
       PROVE  /\ p \in Path /\ p \in DOMAIN grown /\ ~IsPrefix(from, p) /\ ~IsPrefix(to, p)
              /\ u[p] = grown[p]
  <2>1. p \in DOMAIN grown /\ ~IsPrefix(from, p) /\ p # to /\ u[p] = grown[p]
    BY <1>6, <1>9, <1>10
  <2>2. p \in Path
    BY <1>3, <2>1 DEF TreeOK
  <2>3. ~IsPrefix(to, p)
    <3>1. CASE p \in DOMAIN base
      BY <1>2, <2>1, <3>1
    <3>2. CASE p \in Parents(to)
      <4>1. IsPrefix(p, to)
        BY <1>0, <3>2, ParentsArePrefixes
      <4> QED
        BY <1>0, <2>1, <2>2, <4>1, PrefixAntisymmetric
    <3> QED
      BY <1>3, <2>1, <3>1, <3>2
  <2> QED
    BY <2>1, <2>2, <2>3
<1>12. DOMAIN u \subseteq Path /\ u \in [DOMAIN u -> Node]
  <2>1. ASSUME NEW p \in DOMAIN u PROVE p \in Path /\ u[p] \in Node
    <3>1. CASE p \in moved
      <4>1. PICK q \in Subtree(t, from) : p = Rebased(from, to, q)
        BY <1>7, <3>1
      <4>2. p \in Path /\ u[p] = t[q] /\ q \in DOMAIN t
        BY <1>8, <4>1
      <4> QED
        BY <4>2 DEF TreeOK
    <3>2. CASE p \in DOMAIN after \ moved
      BY <1>3, <1>11, <3>2 DEF TreeOK
    <3> QED
      BY <1>10, <3>1, <3>2
  <2> QED
    BY <1>10, <2>1
<1>13. ASSUME NEW p \in DOMAIN u, NEW x \in Parents(p) PROVE IsFolder(u, x)
  <2>1. p \in Seq(STRING)
    BY <1>0, <1>12
  <2>2. x \in Path /\ x \in Seq(STRING) /\ IsPrefix(x, p) /\ x # p
    BY <1>0, <2>1, ParentsArePrefixes
  <2>3. ASSUME x \in Parents(to) PROVE IsFolder(u, x)
    <3>1. IsFolder(grown, x) /\ IsPrefix(x, to) /\ x # to
      BY <1>0, <1>3, <2>3, ParentsArePrefixes
    <3>2. ~IsPrefix(from, x)
      BY <1>0, <1>4, <2>2, <3>1, PrefixTransitive
    <3>3. ~IsPrefix(to, x)
      BY <1>0, <2>2, <3>1, PrefixAntisymmetric
    <3>4. x \notin moved
      BY <1>7, <1>8, <3>3
    <3>5. x \in DOMAIN after
      BY <1>6, <3>1, <3>2 DEF IsFolder, Exists
    <3> QED
      BY <1>10, <1>11, <3>1, <3>4, <3>5 DEF IsFolder, Exists
  <2>4. CASE p \in moved
    <3>1. PICK q \in Subtree(t, from) : p = Rebased(from, to, q)
      BY <1>7, <2>4
    <3>2. IsPrefix(to, p) /\ Rebased(to, from, p) = q /\ IsPrefix(from, q) /\ q \in DOMAIN t
      BY <1>8, <3>1
    <3>3. IsPrefix(to, x) \/ IsPrefix(x, to)
      BY <1>0, <2>1, <2>2, <3>2, PrefixesCompare
    <3>4. CASE IsPrefix(to, x)
      <4> DEFINE y == Rebased(to, from, x)
      <4>1. y \in Path /\ IsPrefix(from, y) /\ Rebased(from, to, y) = x
        BY <1>0, <2>2, <3>4, RebasedFacts
      <4>2. IsPrefix(y, q)
        BY <1>0, <2>1, <2>2, <3>2, <3>4, RebasedPrefix
      <4>3. y # q
        BY <2>2, <3>1, <4>1
      <4>4. y \in Parents(q)
        BY <1>0, <3>2, <4>1, <4>2, <4>3, ParentsArePrefixes
      <4>5. IsFolder(t, y)
        BY <3>2, <4>4 DEF TreeOK
      <4>6. y \in Subtree(t, from)
        BY <4>1, <4>5 DEF IsFolder, Exists, Subtree, RelativeDescendantPath
      <4>7. x \in DOMAIN u /\ u[x] = t[y]
        <5>1. Rebased(from, to, y) \in moved /\ u[Rebased(from, to, y)] = t[y]
          BY <1>8, <4>6
        <5> QED
          BY <1>10, <4>1, <5>1
      <4> QED
        BY <4>5, <4>7 DEF IsFolder, Exists
    <3>5. CASE ~IsPrefix(to, x)
      <4>1. x # to
        BY <1>0, <3>5, PrefixReflexive
      <4>2. x \in Parents(to)
        BY <1>0, <2>2, <3>3, <3>5, <4>1, ParentsArePrefixes
      <4> QED
        BY <2>3, <4>2
    <3> QED
      BY <3>4, <3>5
  <2>5. CASE p \in DOMAIN after \ moved
    <3>1. p \in DOMAIN grown /\ ~IsPrefix(from, p) /\ ~IsPrefix(to, p)
      BY <1>11, <2>5
    <3>2. IsFolder(grown, x)
      BY <1>3, <3>1 DEF TreeOK
    <3>3. ~IsPrefix(from, x) /\ ~IsPrefix(to, x)
      BY <1>0, <2>1, <2>2, <3>1, PrefixTransitive
    <3>4. x \in DOMAIN after
      BY <1>6, <3>2, <3>3 DEF IsFolder, Exists
    <3>5. x \notin moved
      <4>1. SUFFICES ASSUME NEW q \in Subtree(t, from), x = Rebased(from, to, q) PROVE FALSE
        BY <1>7
      <4> QED
        BY <1>8, <3>3, <4>1
    <3> QED
      BY <1>10, <1>11, <3>2, <3>4, <3>5 DEF IsFolder, Exists
  <2> QED
    BY <1>10, <2>4, <2>5
<1>14. ASSUME NEW p \in DOMAIN u, IsFile(u, p) PROVE u[p].shade = NoColor
  <2>1. CASE p \in moved
    <3>1. PICK q \in Subtree(t, from) : p = Rebased(from, to, q)
      BY <1>7, <2>1
    <3>2. u[p] = t[q] /\ q \in DOMAIN t
      BY <1>8, <3>1
    <3>3. IsFile(t, q)
      BY <1>14, <3>2 DEF IsFile, Exists
    <3> QED
      BY <3>2, <3>3 DEF TreeOK
  <2>2. CASE p \in DOMAIN after \ moved
    <3>1. p \in DOMAIN grown /\ u[p] = grown[p]
      BY <1>11, <2>2
    <3>2. IsFile(grown, p)
      BY <1>14, <3>1 DEF IsFile, Exists
    <3> QED
      BY <1>3, <3>1, <3>2 DEF TreeOK
  <2> QED
    BY <1>10, <2>1, <2>2
<1>15. TreeOK(u)
  BY <1>12, <1>13, <1>14 DEF TreeOK
<1>16. OwnStays(t, u)
  <2> SUFFICES ASSUME NEW p \in DOMAIN t, p[1] \in InternalSegments
               PROVE  p \in DOMAIN u /\ u[p] = t[p]
    BY DEF OwnStays
  <2>1. p \in DOMAIN base /\ base[p] = t[p]
    BY <1>1 DEF OwnStays
  <2>2. p \in DOMAIN grown /\ grown[p] = t[p]
    BY <1>3, <2>1
  <2>3. p \in DOMAIN after /\ after[p] = t[p]
    BY <1>6, <2>2 DEF OwnStays
  <2>4. p \notin moved
    BY <1>0, <1>7, <1>8, OwnIsElsewhere
  <2> QED
    BY <1>10, <2>3, <2>4
<1>17. ASSUME NEW p \in DOMAIN u
       PROVE  \/ \E q \in Subtree(t, from) : p = Rebased(from, to, q) /\ u[p] = t[q]
              \/ p \in DOMAIN t /\ u[p] = t[p] /\ ~IsPrefix(from, p) /\ ~IsPrefix(to, p)
              \/ u[p] = Folder(NoColor)
  <2>1. CASE p \in moved
    <3>1. PICK q \in Subtree(t, from) : p = Rebased(from, to, q)
      BY <1>7, <2>1
    <3>2. u[p] = t[q]
      BY <1>8, <3>1
    <3> QED
      BY <3>1, <3>2
  <2>2. CASE p \in DOMAIN after \ moved
    <3>1. p \in DOMAIN grown /\ ~IsPrefix(from, p) /\ ~IsPrefix(to, p) /\ u[p] = grown[p]
      BY <1>11, <2>2
    <3> QED
      BY <1>1, <1>3, <3>1
  <2> QED
    BY <1>10, <2>1, <2>2
<1> QED
  BY <1>15, <1>16, <1>17

-----------------------------------------------------------------------------
(* What a step of one call does to the parts of the invariant.             *)

\* The map of a call that is over.
LEMMA EmptyMap == <<>> \in Map
<1>1. <<>> \in [{} -> Shades]
  <2>1. <<>> \in Seq(Shades) /\ Len(<<>>) = 0
    OBVIOUS
  <2>2. <<>> \in [1..0 -> Shades]
    BY <2>1, LenProperties
  <2>3. 1..0 = {}
    OBVIOUS
  <2> QED
    BY <2>2, <2>3
<1>2. {} \in SUBSET Path
  OBVIOUS
<1> QED
  BY <1>1, <1>2 DEF Map

LEMMA IdleType ==
    /\ Idle \in CallType /\ Idle.op = "idle" /\ Idle.at = "idle"
    /\ \A t : CallOK(Idle, t)
<1>1. <<>> \in Seq(STRING)
  OBVIOUS
<1>2. Idle \in CallType /\ Idle.op = "idle" /\ Idle.at = "idle"
  BY <1>1, EmptyMap, NoColorType DEF Idle, CallType
<1> HIDE DEF Idle
<1> QED
  BY <1>2 DEF CallOK, MoveOps

\* A call that goes on.
LEMMA ContinueIs ==
    ASSUME FilesTypeOK, NEW c \in Callers,
           NEW x \in {"idle", "queued", "target", "effect", "saveMap", "audit"}, Continue(c, x)
    PROVE  \E r \in CallType :
              /\ call' = [call EXCEPT ![c] = r] /\ r.at = x
              /\ r.op = call[c].op /\ r.path = call[c].path /\ r.to = call[c].to
              /\ r.flag = call[c].flag /\ r.deep = call[c].deep /\ r.map = call[c].map
<1> DEFINE r == [call[c] EXCEPT !.at = x]
<1>1. call[c] \in CallType
  BY DEF FilesTypeOK
<1>2. /\ r \in CallType /\ r.at = x
      /\ r.op = call[c].op /\ r.path = call[c].path /\ r.to = call[c].to
      /\ r.flag = call[c].flag /\ r.deep = call[c].deep /\ r.map = call[c].map
  BY <1>1 DEF CallType
<1>3. call' = [call EXCEPT ![c] = r]
  BY DEF Continue
<1> HIDE DEF r
<1> QED
  BY <1>2, <1>3

\* What other calls have found still holds: this step is gentle, or theirs is not
\* a structure operation.
LEMMA CallsKept ==
    ASSUME FilesInv, NEW c \in Callers, NEW r \in CallType, call' = [call EXCEPT ![c] = r],
           CallOK(r, tree'), r.op \in {call[c].op, "idle"},
           Gentle(tree, tree') \/ call[c].op \in StructureOps
    PROVE  /\ call' \in [Callers -> CallType]
           /\ \A d \in Callers : CallOK(call[d], tree)'
           /\ OneStructureOp'
<1>1. /\ call \in [Callers -> CallType] /\ OneStructureOp
      /\ \A d \in Callers : CallOK(call[d], tree)
  BY DEF FilesInv, FilesTypeOK
<1>2. /\ call' \in [Callers -> CallType] /\ call'[c] = r
      /\ \A d \in Callers : d # c => call'[d] = call[d]
  BY <1>1
<1>3. ASSUME NEW d \in Callers, d # c PROVE CallOK(call[d], tree')
  <2> DEFINE o == call[d]
  <2>1. CallOK(o, tree) /\ o \in CallType
    BY <1>1
  <2>2. CASE o.op \notin StructureOps
    <3>1. StillHolds(o, tree')
      BY <2>2 DEF StillHolds, StructureOps, MoveOps
    <3> HIDE DEF o
    <3>2. CallOK(o, tree')
      BY <2>1, <3>1 DEF CallOK
    <3> QED
      BY <3>2 DEF o
  <2>3. CASE o.op \in StructureOps
    <3>1. Gentle(tree, tree')
      BY <1>1, <1>3, <2>3 DEF OneStructureOp
    <3> HIDE DEF o
    <3>2. ASSUME StillHolds(o, tree) PROVE StillHolds(o, tree')
      <4>1. ASSUME IsFile(tree, o.path) PROVE IsFile(tree', o.path)
        BY <3>1, <4>1 DEF Gentle, IsFile, Exists
      <4>2. ASSUME IsFolder(tree, o.path) PROVE IsFolder(tree', o.path)
        BY <3>1, <4>2 DEF Gentle, IsFolder, Exists
      <4>3. ASSUME NEW p, ~NoteAt(tree, p) PROVE ~NoteAt(tree', p)
        BY <3>1, <4>3 DEF Gentle, NoteAt, IsFile, Exists
      <4>4. ASSUME \A q \in Subtree(tree, o.path) : ~NoteAt(tree, q)
            PROVE  \A q \in Subtree(tree', o.path) : ~NoteAt(tree', q)
        <5> SUFFICES ASSUME NEW q \in Subtree(tree', o.path), NoteAt(tree', q) PROVE FALSE
          OBVIOUS
        <5>1. NoteAt(tree, q)
          BY <4>3
        <5>2. q \in Subtree(tree, o.path)
          BY <5>1 DEF Subtree, NoteAt, IsFile, Exists
        <5> QED
          BY <4>4, <5>1, <5>2
      <4> QED
        BY <3>2, <4>1, <4>2, <4>3, <4>4 DEF StillHolds
    <3>3. CallOK(o, tree')
      BY <2>1, <3>2 DEF CallOK
    <3> QED
      BY <3>3 DEF o
  <2> QED
    BY <2>2, <2>3
<1>4. ASSUME NEW d \in Callers PROVE CallOK(call[d], tree)'
  BY <1>2, <1>3
<1>5. OneStructureOp'
  <2> SUFFICES ASSUME NEW d \in Callers, NEW e \in Callers,
                      call'[d].op \in StructureOps, call'[e].op \in StructureOps
               PROVE  d = e
    BY DEF OneStructureOp
  <2>1. \A x \in Callers : call'[x].op \in StructureOps => call[x].op \in StructureOps
    BY <1>2 DEF StructureOps
  <2> QED
    BY <1>1, <2>1 DEF OneStructureOp
<1> QED
  BY <1>2, <1>4, <1>5

\* The first of the queue, and what the others do.
LEMMA OnlyTheFirst ==
    ASSUME FilesInv, NEW c \in Callers, call[c].op \in MetadataOps, call[c].at # "queued"
    PROVE  metadataQueue # <<>> /\ Head(metadataQueue) = c
<1>1. /\ metadataQueue \in Seq(Callers)
      /\ \A k \in 1..Len(metadataQueue) : k > 1 => call[metadataQueue[k]].at = "queued"
  BY DEF FilesInv, QueueOK
<1>2. PICK k \in 1..Len(metadataQueue) : metadataQueue[k] = c
  BY DEF FilesInv, QueueOK
<1>3. k = 1
  BY <1>1, <1>2
<1> QED
  BY <1>1, <1>2, <1>3

LEMMA OthersWait ==
    ASSUME FilesInv, metadataQueue # <<>>,
           NEW d \in Callers, d # Head(metadataQueue), call[d].op \in MetadataOps
    PROVE  call[d].at = "queued"
BY OnlyTheFirst

\* The queue while a call goes on.
LEMMA QueueKept ==
    ASSUME FilesInv, NEW c \in Callers, NEW r \in CallType, call' = [call EXCEPT ![c] = r],
           r.op = call[c].op, metadataQueue' = metadataQueue,
           call[c].op \in MetadataOps => metadataQueue # <<>> /\ Head(metadataQueue) = c
    PROVE  QueueOK'
<1>1. QueueOK /\ call \in [Callers -> CallType]
  BY DEF FilesInv, FilesTypeOK
<1>2. call'[c] = r /\ \A d \in Callers : d # c => call'[d] = call[d]
  BY <1>1
<1>3. metadataQueue \in Seq(Callers) /\ \A k \in 1..Len(metadataQueue) : metadataQueue[k] \in Callers
  BY <1>1 DEF QueueOK
<1>4. ASSUME NEW k \in 1..Len(metadataQueue)
      PROVE  /\ call'[metadataQueue[k]].op \in MetadataOps
             /\ k > 1 => call'[metadataQueue[k]].at = "queued"
  <2>1. CASE metadataQueue[k] # c
    BY <1>1, <1>2, <1>3, <2>1 DEF QueueOK
  <2>2. CASE metadataQueue[k] = c
    <3>1. call[c].op \in MetadataOps
      BY <1>1, <2>2 DEF QueueOK
    <3>2. metadataQueue # <<>> /\ metadataQueue[1] = c /\ 1 \in 1..Len(metadataQueue)
      BY <1>3, <3>1
    <3>3. k = 1
      BY <1>1, <2>2, <3>2 DEF QueueOK
    <3> QED
      BY <1>2, <2>2, <3>1, <3>3
  <2> QED
    BY <2>1, <2>2
<1>5. ASSUME NEW d \in Callers, call'[d].op \in MetadataOps
      PROVE  \E k \in 1..Len(metadataQueue) : metadataQueue[k] = d
  BY <1>1, <1>2, <1>5 DEF QueueOK
<1> QED
  BY <1>1, <1>4, <1>5 DEF QueueOK

\* The queue when a call is over.
LEMMA QueueLeft ==
    ASSUME FilesInv, NEW c \in Callers, Return(c), Dequeue(c),
           call[c].op \in MetadataOps => metadataQueue # <<>> /\ Head(metadataQueue) = c
    PROVE  QueueOK'
<1>1. QueueOK /\ call \in [Callers -> CallType]
  BY DEF FilesInv, FilesTypeOK
<1>2. call'[c] = Idle /\ \A d \in Callers : d # c => call'[d] = call[d]
  BY <1>1 DEF Return
<1>3. Idle.op \notin MetadataOps
  BY IdleType DEF MetadataOps
<1>4. metadataQueue \in Seq(Callers) /\ \A k \in 1..Len(metadataQueue) : metadataQueue[k] \in Callers
  BY <1>1 DEF QueueOK
<1>5. CASE metadataQueue # <<>> /\ Head(metadataQueue) = c
  <2> DEFINE q == Tail(metadataQueue)
  <2>1. /\ metadataQueue' = q /\ q \in Seq(Callers)
        /\ Len(metadataQueue) \in Nat /\ Len(metadataQueue) >= 1 /\ Len(q) = Len(metadataQueue) - 1
        /\ \A k \in 1..Len(q) : q[k] = metadataQueue[k + 1]
        /\ metadataQueue[1] = c
    BY <1>4, <1>5, HeadTailProperties, LenProperties DEF Dequeue
  <2> HIDE DEF q
  <2>2. ASSUME NEW k \in 1..Len(q)
        PROVE  /\ k + 1 \in 1..Len(metadataQueue) /\ k + 1 > 1 /\ k + 1 # 1
               /\ q[k] = metadataQueue[k + 1] /\ q[k] # c /\ q[k] \in Callers
    <3>1. k + 1 \in 1..Len(metadataQueue) /\ k + 1 > 1 /\ k + 1 # 1 /\ 1 \in 1..Len(metadataQueue)
      BY <2>1
    <3> QED
      BY <1>1, <1>4, <2>1, <3>1 DEF QueueOK
  <2>3. \A j, k \in 1..Len(q) : q[j] = q[k] => j = k
    <3> SUFFICES ASSUME NEW j \in 1..Len(q), NEW k \in 1..Len(q), q[j] = q[k] PROVE j = k
      OBVIOUS
    <3>1. j + 1 = k + 1
      BY <1>1, <2>2 DEF QueueOK
    <3> QED
      BY <2>1, <3>1
  <2>4. ASSUME NEW k \in 1..Len(q)
        PROVE  call'[q[k]].op \in MetadataOps /\ (k > 1 => call'[q[k]].at = "queued")
    <3>1. PICK j \in 1..Len(metadataQueue) : j > 1 /\ q[k] = metadataQueue[j]
      BY <2>2
    <3>2. call[metadataQueue[j]].op \in MetadataOps /\ call[metadataQueue[j]].at = "queued"
      BY <1>1, <3>1 DEF QueueOK
    <3>3. call'[q[k]] = call[metadataQueue[j]]
      BY <1>2, <2>2, <3>1
    <3> QED
      BY <3>2, <3>3
  <2>5. ASSUME NEW d \in Callers, call'[d].op \in MetadataOps PROVE \E k \in 1..Len(q) : q[k] = d
    <3>1. d # c /\ call[d].op \in MetadataOps
      BY <1>2, <1>3, <2>5
    <3>2. PICK k \in 1..Len(metadataQueue) : metadataQueue[k] = d
      BY <1>1, <3>1 DEF QueueOK
    <3>3. k # 1
      BY <2>1, <3>1, <3>2
    <3>4. k - 1 \in 1..Len(q) /\ (k - 1) + 1 = k
      BY <2>1, <3>3
    <3> QED
      BY <2>1, <3>2, <3>4
  <2> QED
    BY <2>1, <2>3, <2>4, <2>5 DEF QueueOK
<1>6. CASE ~(metadataQueue # <<>> /\ Head(metadataQueue) = c)
  <2>1. metadataQueue' = metadataQueue /\ call[c].op \notin MetadataOps
    BY <1>6 DEF Dequeue
  <2>2. \A k \in 1..Len(metadataQueue) : metadataQueue[k] # c
    BY <1>1, <2>1 DEF QueueOK
  <2>3. \A d \in Callers : call'[d].op \in MetadataOps => call[d].op \in MetadataOps
    BY <1>2, <1>3
  <2>4. ASSUME NEW k \in 1..Len(metadataQueue)
        PROVE  /\ call'[metadataQueue[k]].op \in MetadataOps
               /\ k > 1 => call'[metadataQueue[k]].at = "queued"
    BY <1>1, <1>2, <1>4, <2>2 DEF QueueOK
  <2> QED
    BY <1>1, <2>1, <2>3, <2>4 DEF QueueOK
<1> QED
  BY <1>5, <1>6

\* What the first of the queue has read.
LEMMA MapKept ==
    ASSUME FilesInv, NEW c \in Callers, NEW r \in CallType, call' = [call EXCEPT ![c] = r],
           r.op \in MetadataOps /\ r.at \in {"target", "effect", "saveMap"} => r.map = folders',
           \/ folders' = folders
           \/ metadataQueue # <<>> /\ Head(metadataQueue) = c
    PROVE  MapIsCurrent'
<1>1. MapIsCurrent /\ call \in [Callers -> CallType]
  BY DEF FilesInv, FilesTypeOK
<1>2. call'[c] = r /\ \A d \in Callers : d # c => call'[d] = call[d]
  BY <1>1
<1>3. ASSUME NEW d \in Callers, d # c, call[d].op \in MetadataOps,
             call[d].at \in {"target", "effect", "saveMap"}
      PROVE  call[d].map = folders'
  <2>1. CASE folders' = folders
    BY <1>1, <1>3, <2>1 DEF MapIsCurrent
  <2>2. CASE metadataQueue # <<>> /\ Head(metadataQueue) = c
    BY <1>3, <2>2, OthersWait
  <2> QED
    BY <2>1, <2>2
<1> QED
  BY <1>2, <1>3 DEF MapIsCurrent

\* The colours, when no map is about to be written or was written by this step.
LEMMA ColorsKept ==
    ASSUME FilesInv, NEW c \in Callers, NEW r \in CallType, call' = [call EXCEPT ![c] = r],
           r.at # "saveMap", call[c].at # "saveMap", ColorsFrom(tree, tree'),
           folders' = folders, faded' = faded
    PROVE  ColorsOK'
<1>1. ColorsOK /\ call \in [Callers -> CallType]
  BY DEF FilesInv, FilesTypeOK
<1>2. call'[c] = r /\ \A d \in Callers : d # c => call'[d] = call[d]
  BY <1>1
<1>3. ASSUME NEW m, Agrees(tree, m) PROVE Agrees(tree', m)
  BY <1>3 DEF Agrees, ColorsFrom
<1>4. SUFFICES ASSUME ~faded
               PROVE  /\ (\A d \in Callers : call'[d].at # "saveMap") => Agrees(tree', folders)
                      /\ \A d \in Callers : call'[d].at = "saveMap" => Agrees(tree', NewMap(call'[d]))
  BY DEF ColorsOK, Agrees, NewMap
<1>5. ASSUME \A d \in Callers : call'[d].at # "saveMap" PROVE Agrees(tree', folders)
  BY <1>1, <1>2, <1>3, <1>4, <1>5 DEF ColorsOK
<1>6. ASSUME NEW d \in Callers, call'[d].at = "saveMap" PROVE Agrees(tree', NewMap(call'[d]))
  <2>1. call'[d] = call[d] /\ call[d].at = "saveMap"
    BY <1>2, <1>6
  <2>2. Agrees(tree, NewMap(call[d]))
    BY <1>1, <1>4, <2>1 DEF ColorsOK
  <2> QED
    BY <1>3, <2>1, <2>2
<1> QED
  BY <1>5, <1>6

\* The vault's own state.
LEMMA OwnKept ==
    ASSUME FilesInv, OwnStays(tree, tree') PROVE InternalStateStays'
<1> SUFFICES ASSUME NEW p \in DOMAIN InitialTree, IsInternalVaultPath(p)
             PROVE  Exists(tree', p) /\ tree'[p] = InitialTree[p]
  BY DEF InternalStateStays, Exists
<1>1. p[1] \in InternalSegments
  BY InitialTreeIsAVault
<1>2. Exists(tree, p) /\ tree[p] = InitialTree[p]
  BY DEF FilesInv, InternalStateStays
<1> QED
  BY <1>1, <1>2 DEF OwnStays, Exists

-----------------------------------------------------------------------------
(* The steps.                                                              *)

\* What every step keeps that leaves the queue's order and the maps alone: the
\* call of c goes on or is over, the tree is changed as the hypotheses allow.
LEMMA StepKept ==
    ASSUME FilesInv, NEW c \in Callers, NEW r \in CallType, call' = [call EXCEPT ![c] = r],
           CallOK(r, tree'), r.op \in {call[c].op, "idle"},
           Gentle(tree, tree') \/ call[c].op \in StructureOps,
           TreeOK(tree'), OwnStays(tree, tree'), lost' = {}, nextId' \in Nat \ {0},
           r.op \in MetadataOps /\ r.at \in {"target", "effect", "saveMap"} => r.map = folders',
           \/ folders' = folders
           \/ metadataQueue # <<>> /\ Head(metadataQueue) = c,
           folders' \in Map, faded' \in BOOLEAN, QueueOK', ColorsOK'
    PROVE  FilesInv'
<1>1. /\ call' \in [Callers -> CallType]
      /\ \A d \in Callers : CallOK(call[d], tree)'
      /\ OneStructureOp'
  BY CallsKept
<1>2. MapIsCurrent'
  BY MapKept
<1>3. InternalStateStays'
  BY OwnKept
<1>4. FilesTypeOK'
  BY <1>1 DEF FilesTypeOK
<1> QED
  BY <1>1, <1>2, <1>3, <1>4 DEF FilesInv, NotesAreKept

\* A tree that stays.
LEMMA SameTree ==
    ASSUME FilesInv, tree' = tree
    PROVE  Gentle(tree, tree') /\ ColorsFrom(tree, tree') /\ OwnStays(tree, tree') /\ TreeOK(tree')
BY DEF Gentle, ColorsFrom, OwnStays, FilesInv, FilesTypeOK

\* A call that ends, with what it changed in the tree.
LEMMA ReturnKept ==
    ASSUME FilesInv, NEW c \in Callers, Return(c), Dequeue(c), call[c].at # "saveMap",
           call[c].op \in MetadataOps => metadataQueue # <<>> /\ Head(metadataQueue) = c,
           Gentle(tree, tree') \/ call[c].op \in StructureOps,
           TreeOK(tree'), OwnStays(tree, tree'), ColorsFrom(tree, tree'),
           lost' = {}, nextId' \in Nat \ {0}, folders' = folders, faded' = faded
    PROVE  FilesInv'
<1>1. Idle \in CallType /\ Idle.op = "idle" /\ Idle.at = "idle" /\ CallOK(Idle, tree')
  BY IdleType
<1>2. call' = [call EXCEPT ![c] = Idle]
  BY DEF Return
<1>3. QueueOK'
  BY QueueLeft
<1>4. ColorsOK'
  BY <1>1, <1>2, ColorsKept
<1>5. folders' \in Map /\ faded' \in BOOLEAN
  BY DEF FilesInv, FilesTypeOK
<1>6. Idle.op \notin MetadataOps
  BY <1>1 DEF MetadataOps
<1> HIDE DEF Idle
<1> QED
  BY <1>1, <1>2, <1>3, <1>4, <1>5, <1>6, StepKept

\* An operation that fails before its effect.
LEMMA FailKept ==
    ASSUME FilesInv, NEW c \in Callers, Fail(c), call[c].at # "saveMap",
           call[c].at = "queued" => metadataQueue # <<>> /\ Head(metadataQueue) = c
    PROVE  FilesInv'
<1>1. /\ Return(c) /\ Dequeue(c) /\ tree' = tree /\ folders' = folders /\ nextId' = nextId
      /\ lost' = lost /\ faded' = faded
  BY DEF Fail
<1>2. call[c].op \in MetadataOps => metadataQueue # <<>> /\ Head(metadataQueue) = c
  BY OnlyTheFirst
<1>3. lost' = {} /\ nextId' \in Nat \ {0}
  BY <1>1 DEF FilesInv, FilesTypeOK, NotesAreKept
<1> QED
  BY <1>1, <1>2, <1>3, SameTree, ReturnKept

\* A call that goes on after its effect, to the audit log.
LEMMA AuditedKept ==
    ASSUME FilesInv, NEW c \in Callers, Continue(c, "audit"), call[c].at = "effect",
           Gentle(tree, tree') \/ call[c].op \in StructureOps,
           TreeOK(tree'), OwnStays(tree, tree'), ColorsFrom(tree, tree'), lost' = {},
           nextId' \in Nat \ {0}, UNCHANGED <<folders, faded, metadataQueue>>
    PROVE  FilesInv'
<1>1. FilesTypeOK
  BY DEF FilesInv
<1>2. PICK r \in CallType :
              /\ call' = [call EXCEPT ![c] = r] /\ r.at = "audit"
              /\ r.op = call[c].op /\ r.path = call[c].path /\ r.to = call[c].to
              /\ r.flag = call[c].flag /\ r.deep = call[c].deep /\ r.map = call[c].map
  BY <1>1, ContinueIs
<1>3. CallOK(call[c], tree)
  BY DEF FilesInv
<1>4. CallOK(r, tree')
  BY <1>2, <1>3 DEF CallOK
<1>5. call[c].op \in MetadataOps => metadataQueue # <<>> /\ Head(metadataQueue) = c
  BY OnlyTheFirst
<1>6. QueueOK'
  BY <1>2, <1>5, QueueKept
<1>7. ColorsOK'
  BY <1>2, ColorsKept
<1>8. folders' = folders /\ folders' \in Map /\ faded' \in BOOLEAN
  BY <1>1 DEF FilesTypeOK
<1> QED
  BY <1>2, <1>4, <1>6, <1>7, <1>8, StepKept

\* What is known of a call under way.
LEMMA CallFacts ==
    ASSUME FilesInv, NEW c \in Callers, call[c].at # "idle"
    PROVE  /\ call[c] \in CallType /\ CallOK(call[c], tree) /\ TreeOK(tree)
           /\ call[c].path \in Path /\ ValidateVaultPath(call[c].path)
           /\ call[c].op \in MoveOps => call[c].to \in Path /\ ValidateVaultPath(call[c].to)
           /\ lost = {} /\ nextId \in Nat \ {0} /\ call[c].flag \in BOOLEAN
<1>1. call[c] \in CallType /\ CallOK(call[c], tree) /\ TreeOK(tree) /\ lost = {} /\ nextId \in Nat \ {0}
  BY DEF FilesInv, FilesTypeOK, NotesAreKept
<1>2. call[c].path \in Seq(STRING) /\ call[c].to \in Seq(STRING) /\ call[c].flag \in BOOLEAN
  BY <1>1 DEF CallType
<1>3. ValidateVaultPath(call[c].path) /\ (call[c].op \in MoveOps => ValidateVaultPath(call[c].to))
  BY <1>1 DEF CallOK
<1>4. \A p \in Seq(STRING) : ValidateVaultPath(p) => p \in Path
  BY DEF ValidateVaultPath, Path
<1> QED
  BY <1>1, <1>2, <1>3, <1>4

LEMMA EmitVaultAuditKept ==
    ASSUME FilesInv, NEW c \in Callers, EmitVaultAudit(c) PROVE FilesInv'
<1>1. /\ call[c].at = "audit" /\ Return(c) /\ Dequeue(c) /\ tree' = tree /\ folders' = folders
      /\ nextId' = nextId /\ lost' = lost /\ faded' = faded
  BY DEF EmitVaultAudit
<1>2. call[c].op \in MetadataOps => metadataQueue # <<>> /\ Head(metadataQueue) = c
  BY <1>1, OnlyTheFirst
<1>3. lost' = {} /\ nextId' \in Nat \ {0}
  BY <1>1 DEF FilesInv, FilesTypeOK, NotesAreKept
<1> QED
  BY <1>1, <1>2, <1>3, SameTree, ReturnKept

\* mkdir changes nothing that is there, so whoever looked before may still act.
LEMMA MakeVaultFolderKept ==
    ASSUME FilesInv, NEW c \in Callers, MakeVaultFolder(c) PROVE FilesInv'
<1> DEFINE o == call[c]
           S == Parents(o.path) \cup {o.path}
<1>1. o.at = "effect" /\ o.op = "makeVaultFolder"
  BY DEF MakeVaultFolder
<1>2. TreeOK(tree) /\ o.path \in Path /\ lost = {} /\ nextId \in Nat \ {0}
  BY <1>1, CallFacts
<1>3. CASE MkdirCollides(tree, S)
  <2>1. Fail(c)
    BY <1>3 DEF MakeVaultFolder
  <2> QED
    BY <1>1, <2>1, FailKept
<1>4. CASE ~MkdirCollides(tree, S)
  <2>1. /\ tree' = Mkdir(tree, S) /\ (IF o.existed THEN Return(c) ELSE Continue(c, "audit"))
        /\ UNCHANGED <<folders, metadataQueue, nextId, lost, faded>>
    BY <1>4 DEF MakeVaultFolder
  <2>2. S \in SUBSET Path /\ \A q \in S : Parents(q) \subseteq S
    BY <1>2, ParentsClosed
  <2>3. /\ TreeOK(Mkdir(tree, S)) /\ Gentle(tree, Mkdir(tree, S))
        /\ ColorsFrom(tree, Mkdir(tree, S)) /\ OwnStays(tree, Mkdir(tree, S))
    <3> HIDE DEF S
    <3> QED
      BY <1>2, <1>4, <2>2, MkdirTree
  <2>4. TreeOK(tree') /\ Gentle(tree, tree') /\ ColorsFrom(tree, tree') /\ OwnStays(tree, tree')
    BY <2>1, <2>3
  <2>5. lost' = {} /\ nextId' \in Nat \ {0}
    BY <1>2, <2>1
  <2>6. CASE o.existed
    <3>1. Return(c)
      BY <2>1, <2>6
    <3>2. Dequeue(c)
      <4>1. o.op \notin MetadataOps
        BY <1>1 DEF MetadataOps
      <4>2. ASSUME metadataQueue # <<>> PROVE Head(metadataQueue) # c
        <5>1. metadataQueue \in Seq(Callers)
          BY DEF FilesInv, QueueOK
        <5>2. 1 \in 1..Len(metadataQueue) /\ Head(metadataQueue) = metadataQueue[1]
          BY <4>2, <5>1
        <5> QED
          BY <4>1, <5>2 DEF FilesInv, QueueOK
      <4> QED
        BY <2>1, <4>2 DEF Dequeue
    <3>3. o.op \notin MetadataOps
      BY <1>1 DEF MetadataOps
    <3>4. o.at # "saveMap" /\ folders' = folders /\ faded' = faded
      BY <1>1, <2>1
    <3> QED
      BY <2>4, <2>5, <3>1, <3>2, <3>3, <3>4, ReturnKept
  <2>7. CASE ~o.existed
    BY <1>1, <2>1, <2>4, <2>5, <2>7, AuditedKept
  <2> QED
    BY <2>6, <2>7
<1> QED
  BY <1>3, <1>4

\* A note is written where none was; a raw write makes no note.
LEMMA WriteVaultFileKept ==
    ASSUME FilesInv, NEW c \in Callers, WriteVaultFile(c) PROVE FilesInv'
<1> DEFINE o == call[c]
<1>1. o.at = "effect" /\ o.op \in {"writeVaultFile", "writeVaultRawFile"}
  BY DEF WriteVaultFile
<1>2. /\ TreeOK(tree) /\ o.path \in Path /\ ValidateVaultPath(o.path) /\ lost = {}
      /\ nextId \in Nat \ {0} /\ CallOK(o, tree)
  BY <1>1, CallFacts
<1>3. CASE MkdirCollides(tree, Parents(o.path)) \/ IsFolder(tree, o.path)
  <2>1. Fail(c)
    BY <1>3 DEF WriteVaultFile
  <2> QED
    BY <1>1, <2>1, FailKept
<1>4. CASE ~(MkdirCollides(tree, Parents(o.path)) \/ IsFolder(tree, o.path))
  <2>1. PICK i \in Int : i = IF o.op = "writeVaultFile" THEN nextId ELSE -nextId
    BY <1>2
  <2>2. /\ tree' = [q \in DOMAIN Mkdir(tree, Parents(o.path)) \cup {o.path} |->
                       IF q = o.path THEN File(i) ELSE Mkdir(tree, Parents(o.path))[q]]
        /\ IF o.flag \/ o.op = "writeVaultRawFile" THEN UNCHANGED lost
           ELSE Loses(FilesIn(tree, {o.path}))
        /\ nextId' = nextId + 1 /\ Continue(c, "audit")
        /\ UNCHANGED <<folders, metadataQueue, faded>>
    BY <1>4, <2>1 DEF WriteVaultFile
  <2>3. /\ TreeOK(tree') /\ ColorsFrom(tree, tree') /\ OwnStays(tree, tree')
        /\ i < 0 => Gentle(tree, tree')
    BY <1>2, <1>4, <2>2, WriteTree
  <2>4. Gentle(tree, tree') \/ o.op \in StructureOps
    BY <1>1, <1>2, <2>1, <2>3 DEF StructureOps
  <2>5. lost' = {}
    <3>1. CASE o.flag \/ o.op = "writeVaultRawFile"
      BY <1>2, <2>2, <3>1
    <3>2. CASE ~(o.flag \/ o.op = "writeVaultRawFile")
      <4>1. ~NoteAt(tree, o.path)
        BY <1>1, <1>2, <3>2 DEF CallOK, StillHolds
      <4>2. \A x \in FilesIn(tree, {o.path}) : ~(x >= 0)
        BY <4>1 DEF FilesIn, NoteAt, IsFile, Exists
      <4> QED
        BY <1>2, <2>2, <3>2, <4>2 DEF Loses
    <3> QED
      BY <3>1, <3>2
  <2>6. nextId' \in Nat \ {0}
    BY <1>2, <2>2
  <2> QED
    BY <1>1, <2>2, <2>3, <2>4, <2>5, <2>6, AuditedKept
<1> QED
  BY <1>3, <1>4

\* The file is still a file: nothing lies under it.
LEMMA DeleteVaultFileKept ==
    ASSUME FilesInv, NEW c \in Callers, DeleteVaultFile(c) PROVE FilesInv'
<1> DEFINE o == call[c]
<1>1. /\ o.at = "effect" /\ o.op = "deleteVaultFile" /\ tree' = Without(tree, {o.path})
      /\ Continue(c, "audit") /\ UNCHANGED <<folders, metadataQueue, nextId, lost, faded>>
  BY DEF DeleteVaultFile
<1>2. /\ TreeOK(tree) /\ o.path \in Path /\ ValidateVaultPath(o.path) /\ lost = {}
      /\ nextId \in Nat \ {0} /\ CallOK(o, tree)
  BY <1>1, CallFacts
<1>3. IsFile(tree, o.path)
  BY <1>1, <1>2 DEF CallOK, StillHolds
<1>4. Subtree(tree, o.path) = {o.path}
  <2>1. ~IsFolder(tree, o.path)
    BY <1>3 DEF IsFile, IsFolder
  <2>2. \A q \in DOMAIN tree : IsPrefix(o.path, q) => q = o.path
    BY <1>2, <2>1, NothingUnder
  <2>3. IsPrefix(o.path, o.path)
    BY <1>2, PrefixReflexive DEF Path
  <2> QED
    BY <1>3, <2>2, <2>3 DEF Subtree, RelativeDescendantPath, IsFile, Exists
<1>5. TreeOK(tree') /\ ColorsFrom(tree, tree') /\ OwnStays(tree, tree')
  <2>1. tree' = Without(tree, Subtree(tree, o.path))
    BY <1>1, <1>4
  <2> QED
    BY <1>2, <2>1, SubtreeRemoved
<1>6. o.op \in StructureOps /\ lost' = {} /\ nextId' \in Nat \ {0}
  BY <1>1, <1>2 DEF StructureOps
<1> QED
  BY <1>1, <1>5, <1>6, AuditedKept

\* A target that is free, or may be overwritten: from here on only raw writes and
\* mkdir can come there first.
LEMMA CheckTargetKept ==
    ASSUME FilesInv, NEW c \in Callers, CheckTarget(c) PROVE FilesInv'
<1> DEFINE o == call[c]
<1>1. o.at = "target"
  BY DEF CheckTarget
<1>2. /\ TreeOK(tree) /\ o.path \in Path /\ lost = {} /\ nextId \in Nat \ {0} /\ CallOK(o, tree)
      /\ o.op \in MoveOps => o.to \in Path
  BY <1>1, CallFacts
<1>3. CASE Exists(tree, o.to) /\ ~o.flag
  <2>1. Fail(c)
    BY <1>3 DEF CheckTarget
  <2> QED
    BY <1>1, <2>1, FailKept
<1>4. CASE ~(Exists(tree, o.to) /\ ~o.flag)
  <2>1. Continue(c, "effect") /\ UNCHANGED <<tree, folders, metadataQueue, nextId, lost, faded>>
    BY <1>4 DEF CheckTarget
  <2>2. FilesTypeOK
    BY DEF FilesInv
  <2>3. PICK r \in CallType :
              /\ call' = [call EXCEPT ![c] = r] /\ r.at = "effect"
              /\ r.op = call[c].op /\ r.path = call[c].path /\ r.to = call[c].to
              /\ r.flag = call[c].flag /\ r.deep = call[c].deep /\ r.map = call[c].map
    BY <2>1, <2>2, ContinueIs
  <2>4. o.op \in MoveOps
    BY <1>1, <1>2 DEF CallOK
  <2>5. ASSUME ~o.flag PROVE ~NoteAt(tree, o.to) /\ ~IsPrefix(o.to, o.path)
    <3>1. ~Exists(tree, o.to)
      BY <1>4, <2>5
    <3>2. Exists(tree, o.path)
      BY <1>1, <1>2, <2>4 DEF CallOK, StillHolds, MoveOps, IsFile, IsFolder
    <3>3. \A q \in DOMAIN tree : IsPrefix(o.to, q) => q = o.to
      BY <1>2, <2>4, <3>1, NothingUnder DEF IsFolder
    <3> QED
      BY <3>1, <3>2, <3>3 DEF NoteAt, IsFile, Exists
  <2>6. StillHolds(o, tree)
    BY <1>1, <1>2 DEF CallOK
  <2>7. StillHolds(r, tree)
    BY <2>3, <2>5, <2>6 DEF StillHolds
  <2>8. CallOK(r, tree')
    BY <1>1, <1>2, <2>1, <2>3, <2>4, <2>7 DEF CallOK
  <2>9. o.op \in MetadataOps => metadataQueue # <<>> /\ Head(metadataQueue) = c
    BY <1>1, OnlyTheFirst
  <2>10. QueueOK'
    BY <2>1, <2>3, <2>9, QueueKept
  <2>11. /\ TreeOK(tree') /\ Gentle(tree, tree') /\ ColorsFrom(tree, tree') /\ OwnStays(tree, tree')
         /\ lost' = {} /\ nextId' \in Nat \ {0}
    BY <1>2, <2>1, SameTree
  <2>12. ColorsOK'
    BY <1>1, <2>1, <2>3, <2>11, ColorsKept
  <2>13. r.op \in MetadataOps => r.map = folders'
    BY <1>1, <2>1, <2>3 DEF FilesInv, MapIsCurrent
  <2>14. folders' = folders /\ folders' \in Map /\ faded' \in BOOLEAN
    BY <2>1, <2>2 DEF FilesTypeOK
  <2> QED
    BY <2>3, <2>8, <2>10, <2>11, <2>12, <2>13, <2>14, StepKept
<1> QED
  BY <1>3, <1>4

\* The map is read at the head of the queue, so nobody writes it until this call is over.
LEMMA ReadFolderMetadataMapKept ==
    ASSUME FilesInv, NEW c \in Callers, ReadFolderMetadataMap(c) PROVE FilesInv'
<1> DEFINE o == call[c]
<1>1. o.at = "queued" /\ Head(metadataQueue) = c
  BY DEF ReadFolderMetadataMap
<1>2. /\ lost = {} /\ nextId \in Nat \ {0} /\ CallOK(o, tree) /\ o \in CallType
  BY <1>1, CallFacts
<1>3. o.op \in MetadataOps
  BY <1>1, <1>2 DEF CallOK
<1>4. metadataQueue # <<>>
  <2>1. metadataQueue \in Seq(Callers)
    BY DEF FilesInv, QueueOK
  <2>2. PICK k \in 1..Len(metadataQueue) : metadataQueue[k] = c
    BY <1>3 DEF FilesInv, QueueOK
  <2> QED
    BY <2>1, <2>2
<1>5. CASE malformed
  <2>1. Fail(c)
    BY <1>5 DEF ReadFolderMetadataMap
  <2> QED
    BY <1>1, <1>4, <2>1, FailKept
<1>6. CASE ~malformed
  <2> DEFINE r == [o EXCEPT !.map = folders, !.at = IF o.op = "moveFolder" THEN "target" ELSE "effect"]
  <2>1. /\ call' = [call EXCEPT ![c].map = folders,
                       ![c].at = IF call[c].op = "moveFolder" THEN "target" ELSE "effect"]
        /\ UNCHANGED <<tree, folders, metadataQueue, nextId, lost, faded>>
    BY <1>6 DEF ReadFolderMetadataMap
  <2>2. FilesTypeOK /\ folders \in Map
    BY DEF FilesInv, FilesTypeOK
  <2>3. call' = [call EXCEPT ![c] = r]
    <3>1. call \in [Callers -> CallType]
      BY <2>2 DEF FilesTypeOK
    <3> QED
      BY <1>2, <2>1, <3>1 DEF CallType
  <2>4. /\ r \in CallType /\ r.at \in {"target", "effect"} /\ r.map = folders
        /\ r.at = "target" <=> o.op = "moveFolder"
        /\ r.op = o.op /\ r.path = o.path /\ r.to = o.to /\ r.flag = o.flag /\ r.deep = o.deep
    BY <1>2, <2>2 DEF CallType
  <2> HIDE DEF r
  <2>5. StillHolds(o, tree) /\ o.op # "moveFile"
    BY <1>1, <1>2, <1>3 DEF CallOK, MetadataOps
  <2>6. StillHolds(r, tree)
    BY <2>4, <2>5 DEF StillHolds, MoveOps
  <2>7. CallOK(r, tree')
    BY <1>1, <1>2, <2>1, <2>4, <2>6 DEF CallOK, MoveOps
  <2>8. QueueOK'
    BY <1>1, <1>4, <2>1, <2>3, <2>4, QueueKept
  <2>9. /\ TreeOK(tree') /\ Gentle(tree, tree') /\ ColorsFrom(tree, tree') /\ OwnStays(tree, tree')
        /\ lost' = {} /\ nextId' \in Nat \ {0}
    BY <1>2, <2>1, SameTree
  <2>10. ColorsOK'
    BY <1>1, <2>1, <2>3, <2>4, <2>9, ColorsKept
  <2>11. folders' = folders /\ folders' \in Map /\ faded' \in BOOLEAN /\ r.map = folders'
    BY <2>1, <2>2, <2>4 DEF FilesTypeOK
  <2> QED
    BY <2>3, <2>4, <2>7, <2>8, <2>9, <2>10, <2>11, StepKept
<1> QED
  BY <1>5, <1>6

\* While the first of the queue is not about to save its map, nobody is, and the
\* colours are those of folders.yml.
LEMMA ColorsAgree ==
    ASSUME FilesInv, NEW c \in Callers, metadataQueue # <<>>, Head(metadataQueue) = c,
           call[c].at # "saveMap", ~faded
    PROVE  Agrees(tree, folders)
<1>1. ASSUME NEW d \in Callers PROVE call[d].at # "saveMap"
  <2>1. SUFFICES ASSUME call[d].at = "saveMap", d # c PROVE FALSE
    OBVIOUS
  <2>2. CallOK(call[d], tree)
    BY DEF FilesInv
  <2>3. call[d].op \in MetadataOps
    BY <2>1, <2>2 DEF CallOK, MetadataOps
  <2>4. call[d].at = "queued"
    BY <2>1, <2>3, OthersWait
  <2> QED
    BY <2>1, <2>4
<1> QED
  BY <1>1 DEF FilesInv, ColorsOK

\* A map with one colour changed or taken out is a map.
LEMMA MapTypes ==
    ASSUME NEW m \in Map
    PROVE  /\ DOMAIN m \subseteq Path /\ \A q \in DOMAIN m : m[q] \in Shades
           /\ \A S \in SUBSET Path : \A f \in [S -> Shades] : f \in Map
<1>1. PICK D \in SUBSET Path : m \in [D -> Shades]
  BY DEF Map
<1>2. DOMAIN m \subseteq Path /\ \A q \in DOMAIN m : m[q] \in Shades
  BY <1>1
<1>3. \A S \in SUBSET Path : \A f \in [S -> Shades] : f \in Map
  BY DEF Map
<1> QED
  BY <1>2, <1>3

\* The colours after a step of the first of the queue.
LEMMA ColorsSettled ==
    ASSUME FilesInv, NEW c \in Callers, metadataQueue # <<>>, Head(metadataQueue) = c,
           NEW r \in CallType, call' = [call EXCEPT ![c] = r],
           r.at # "saveMap" /\ ~faded' => Agrees(tree', folders'),
           r.at = "saveMap" /\ ~faded' => Agrees(tree', NewMap(r))
    PROVE  ColorsOK'
<1>1. call \in [Callers -> CallType]
  BY DEF FilesInv, FilesTypeOK
<1>2. call'[c] = r /\ \A d \in Callers : d # c => call'[d] = call[d]
  BY <1>1
<1>3. ASSUME NEW d \in Callers, d # c PROVE call'[d].at # "saveMap"
  <2>1. SUFFICES ASSUME call[d].at = "saveMap" PROVE FALSE
    BY <1>2, <1>3
  <2>2. CallOK(call[d], tree)
    BY DEF FilesInv
  <2>3. call[d].op \in MetadataOps
    BY <2>1, <2>2 DEF CallOK, MetadataOps
  <2>4. call[d].at = "queued"
    BY <1>3, <2>3, OthersWait
  <2> QED
    BY <2>1, <2>4
<1>4. SUFFICES ASSUME ~faded'
               PROVE  /\ (\A d \in Callers : call'[d].at # "saveMap") => Agrees(tree', folders')
                      /\ \A d \in Callers : call'[d].at = "saveMap" => Agrees(tree', NewMap(call'[d]))
  BY DEF ColorsOK, Agrees, NewMap
<1>5. (\A d \in Callers : call'[d].at # "saveMap") => Agrees(tree', folders')
  BY <1>2, <1>4
<1>6. ASSUME NEW d \in Callers, call'[d].at = "saveMap" PROVE Agrees(tree', NewMap(call'[d]))
  <2>1. d = c /\ call'[d] = r
    BY <1>2, <1>3, <1>6
  <2> QED
    BY <1>4, <1>6, <2>1
<1> QED
  BY <1>5, <1>6

LEMMA RecolorFacts ==
    ASSUME NEW m \in Map, NEW p \in Path, NEW k \in Shades
    PROVE  /\ Recolor(m, p, k) \in Map
           /\ \A q \in DOMAIN m : q # p => q \in DOMAIN Recolor(m, p, k) /\ Recolor(m, p, k)[q] = m[q]
           /\ k # NoColor => p \in DOMAIN Recolor(m, p, k) /\ Recolor(m, p, k)[p] = k
<1> DEFINE R == Recolor(m, p, k)
<1>0. DOMAIN m \subseteq Path /\ \A q \in DOMAIN m : m[q] \in Shades
  BY MapTypes
<1>1. CASE k = NoColor
  <2>1. R = [q \in DOMAIN m \ {p} |-> m[q]]
    BY <1>1 DEF Recolor, Without, Restrict
  <2>2. DOMAIN m \ {p} \in SUBSET Path /\ R \in [DOMAIN m \ {p} -> Shades]
    BY <1>0, <2>1
  <2>3. R \in Map
    BY <2>2, MapTypes
  <2> QED
    BY <1>1, <2>1, <2>3
<1>2. CASE k # NoColor
  <2>1. R = [q \in DOMAIN m \cup {p} |-> IF q = p THEN k ELSE m[q]]
    BY <1>2 DEF Recolor
  <2>2. DOMAIN m \cup {p} \in SUBSET Path /\ R \in [DOMAIN m \cup {p} -> Shades]
    BY <1>0, <2>1
  <2>3. R \in Map
    BY <2>2, MapTypes
  <2> QED
    BY <2>1, <2>3
<1> QED
  BY <1>1, <1>2

\* A folder of the tree with another colour.
Shaded(t, p, k) == [t EXCEPT ![p].shade = k]
LEMMA ShadedTree ==
    ASSUME NEW t, TreeOK(t), NEW p \in Path, ValidateVaultPath(p), IsFolder(t, p), NEW k \in Shades,
           NEW u, u = Shaded(t, p, k)
    PROVE  /\ TreeOK(u) /\ Gentle(t, u) /\ OwnStays(t, u) /\ DOMAIN u = DOMAIN t
           /\ u[p].shade = k /\ \A q \in DOMAIN t : q # p => u[q] = t[q]
<1>1. p \in DOMAIN t /\ t[p] \in Node /\ t[p].kind = "folder" /\ t \in [DOMAIN t -> Node]
  BY DEF TreeOK, IsFolder, Exists
<1>2. /\ DOMAIN u = DOMAIN t /\ \A q \in DOMAIN t : q # p => u[q] = t[q]
      /\ u[p] = [t[p] EXCEPT !.shade = k]
  BY <1>1 DEF Shaded
<1>3. u[p] \in Node /\ u[p].kind = "folder" /\ u[p].shade = k
  BY <1>1, <1>2 DEF Node
<1>4. u \in [DOMAIN u -> Node]
  BY <1>1, <1>3 DEF Shaded
<1>5. \A q : IsFolder(t, q) <=> IsFolder(u, q)
  BY <1>1, <1>2, <1>3 DEF IsFolder, Exists
<1>6. \A q : IsFile(u, q) => q # p /\ IsFile(t, q) /\ u[q] = t[q]
  BY <1>2, <1>3 DEF IsFile, Exists
<1>7. TreeOK(u)
  BY <1>2, <1>4, <1>5, <1>6 DEF TreeOK
<1>8. Gentle(t, u)
  BY <1>1, <1>2, <1>3, <1>6 DEF Gentle, NoteAt
<1>9. p[1] \notin InternalSegments
  BY OwnIsElsewhere, PrefixReflexive DEF Path
<1>10. OwnStays(t, u)
  BY <1>2, <1>9 DEF OwnStays
<1> QED
  BY <1>2, <1>3, <1>7, <1>8, <1>10

\* setFolderMetadata writes the map it read, which is current, with one colour changed.
LEMMA RecolorsKept ==
    ASSUME FilesInv, NEW c \in Callers, Recolors(c) PROVE FilesInv'
<1> DEFINE o == call[c]
<1>1. /\ o.at = "effect" /\ o.op = "setFolderMetadata" /\ folders' = Recolor(o.map, o.path, o.color)
      /\ tree' = IF IsFolder(tree, o.path) THEN [tree EXCEPT ![o.path].shade = o.color] ELSE tree
      /\ Continue(c, "audit") /\ UNCHANGED <<metadataQueue, nextId, lost, faded>>
  BY DEF Recolors
<1>2. /\ TreeOK(tree) /\ o.path \in Path /\ ValidateVaultPath(o.path) /\ lost = {}
      /\ nextId \in Nat \ {0} /\ CallOK(o, tree) /\ o \in CallType
  BY <1>1, CallFacts
<1>3. o.op \in MetadataOps
  BY <1>1 DEF MetadataOps
<1>4. metadataQueue # <<>> /\ Head(metadataQueue) = c
  BY <1>1, <1>3, OnlyTheFirst
<1>5. FilesTypeOK /\ folders \in Map /\ faded \in BOOLEAN /\ o.map = folders /\ o.color \in Shades
  BY <1>1, <1>2, <1>3 DEF FilesInv, FilesTypeOK, MapIsCurrent, CallType
<1>6. /\ folders' \in Map
      /\ \A q \in DOMAIN folders : q # o.path => q \in DOMAIN folders' /\ folders'[q] = folders[q]
      /\ o.color # NoColor => o.path \in DOMAIN folders' /\ folders'[o.path] = o.color
  BY <1>1, <1>2, <1>5, RecolorFacts
<1>7. /\ TreeOK(tree') /\ Gentle(tree, tree') /\ OwnStays(tree, tree') /\ DOMAIN tree' = DOMAIN tree
      /\ \A q \in DOMAIN tree : q # o.path => tree'[q] = tree[q]
      /\ IsFolder(tree, o.path) => tree'[o.path].shade = o.color
      /\ ~IsFolder(tree, o.path) => tree' = tree
  <2>1. CASE IsFolder(tree, o.path)
    <3>1. tree' = Shaded(tree, o.path, o.color)
      BY <1>1, <2>1 DEF Shaded
    <3>2. PICK p \in Path, k \in Shades : p = o.path /\ k = o.color
      BY <1>2, <1>5
    <3>3. ValidateVaultPath(p) /\ IsFolder(tree, p) /\ tree' = Shaded(tree, p, k)
      BY <1>2, <2>1, <3>1, <3>2
    <3>4. /\ TreeOK(tree') /\ Gentle(tree, tree') /\ OwnStays(tree, tree') /\ DOMAIN tree' = DOMAIN tree
          /\ tree'[p].shade = k /\ \A q \in DOMAIN tree : q # p => tree'[q] = tree[q]
      BY <1>2, <3>3, ShadedTree
    <3> QED
      BY <2>1, <3>2, <3>4
  <2>2. CASE ~IsFolder(tree, o.path)
    BY <1>1, <2>2, SameTree
  <2> QED
    BY <2>1, <2>2
<1>8. PICK r \in CallType :
              /\ call' = [call EXCEPT ![c] = r] /\ r.at = "audit"
              /\ r.op = call[c].op /\ r.path = call[c].path /\ r.to = call[c].to
              /\ r.flag = call[c].flag /\ r.deep = call[c].deep /\ r.map = call[c].map
  BY <1>1, <1>5, ContinueIs
<1>9. CallOK(r, tree')
  BY <1>1, <1>2, <1>8 DEF CallOK
<1>10. QueueOK'
  BY <1>1, <1>4, <1>8, QueueKept
<1>11. ASSUME ~faded' PROVE Agrees(tree', folders')
  <2>1. Agrees(tree, folders)
    BY <1>1, <1>4, <1>11, ColorsAgree
  <2>2. SUFFICES ASSUME NEW p \in DOMAIN tree', tree'[p].shade # NoColor
                 PROVE  p \in DOMAIN folders' /\ folders'[p] = tree'[p].shade
    BY DEF Agrees
  <2>3. CASE p # o.path
    BY <1>6, <1>7, <2>1, <2>2, <2>3 DEF Agrees
  <2>4. CASE p = o.path
    <3>1. CASE IsFolder(tree, o.path)
      BY <1>6, <1>7, <2>2, <2>4, <3>1
    <3>2. CASE ~IsFolder(tree, o.path)
      <4>1. tree' = tree /\ p \in DOMAIN tree
        BY <1>7, <3>2
      <4>2. IsFile(tree, p)
        BY <1>2, <2>4, <3>2, <4>1 DEF TreeOK, Node, IsFile, IsFolder, Exists
      <4> QED
        BY <1>2, <2>2, <4>1, <4>2 DEF TreeOK
    <3> QED
      BY <3>1, <3>2
  <2> QED
    BY <2>3, <2>4
<1>12. ColorsOK'
  BY <1>4, <1>8, <1>11, ColorsSettled
<1>13. lost' = {} /\ nextId' \in Nat \ {0} /\ faded' \in BOOLEAN
  BY <1>1, <1>2, <1>5
<1> QED
  BY <1>4, <1>6, <1>7, <1>8, <1>9, <1>10, <1>12, <1>13, StepKept

\* A folder operation that changed the tree and is about to save its map.
LEMMA PendingKept ==
    ASSUME FilesInv, NEW c \in Callers, Continue(c, "saveMap"), call[c].at = "effect",
           call[c].op \in {"deleteVaultFolder", "moveFolder"},
           TreeOK(tree'), OwnStays(tree, tree'), lost' = {}, nextId' \in Nat \ {0},
           UNCHANGED <<folders, faded, metadataQueue>>,
           ~faded => Agrees(tree', NewMap(call[c]))
    PROVE  FilesInv'
<1>1. FilesTypeOK
  BY DEF FilesInv
<1>2. PICK r \in CallType :
              /\ call' = [call EXCEPT ![c] = r] /\ r.at = "saveMap"
              /\ r.op = call[c].op /\ r.path = call[c].path /\ r.to = call[c].to
              /\ r.flag = call[c].flag /\ r.deep = call[c].deep /\ r.map = call[c].map
  BY <1>1, ContinueIs
<1>3. CallOK(call[c], tree)
  BY DEF FilesInv
<1>4. CallOK(r, tree')
  BY <1>2, <1>3 DEF CallOK
<1>5. call[c].op \in MetadataOps /\ call[c].op \in StructureOps
  BY DEF MetadataOps, StructureOps
<1>6. metadataQueue # <<>> /\ Head(metadataQueue) = c
  BY <1>5, OnlyTheFirst
<1>7. QueueOK'
  BY <1>2, <1>6, QueueKept
<1>8. NewMap(r) = NewMap(call[c])
  BY <1>2 DEF NewMap
<1>9. ColorsOK'
  BY <1>2, <1>6, <1>8, ColorsSettled
<1>10. folders' = folders /\ folders' \in Map /\ faded' \in BOOLEAN
  BY <1>1 DEF FilesTypeOK
<1>11. r.map = folders'
  BY <1>2, <1>5, <1>10 DEF FilesInv, MapIsCurrent
<1> QED
  BY <1>2, <1>4, <1>5, <1>7, <1>9, <1>10, <1>11, StepKept

LEMMA RemovedMap ==
    ASSUME NEW m \in Map, NEW p \in Path
    PROVE  /\ RemoveFolderMetadataSubtree(m, p) \in Map
           /\ \A q \in DOMAIN m : ~IsPrefix(p, q) =>
                /\ q \in DOMAIN RemoveFolderMetadataSubtree(m, p)
                /\ RemoveFolderMetadataSubtree(m, p)[q] = m[q]
<1> DEFINE R == RemoveFolderMetadataSubtree(m, p)
           D == DOMAIN m \ Subtree(m, p)
<1>1. DOMAIN m \subseteq Path /\ \A q \in DOMAIN m : m[q] \in Shades
  BY MapTypes
<1>2. R = [q \in D |-> m[q]]
  BY DEF RemoveFolderMetadataSubtree, Without, Restrict
<1>3. D \in SUBSET Path /\ R \in [D -> Shades]
  BY <1>1, <1>2
<1>4. R \in Map
  BY <1>3, MapTypes
<1> QED
  BY <1>2, <1>4 DEF Subtree, RelativeDescendantPath

\* The colours of a moved folder, and of those beside it and its target.
LEMMA MovedMap ==
    ASSUME NEW m \in Map, NEW from \in Path, NEW to \in Path
    PROVE  LET M == MoveFolderMetadataSubtree(m, from, to)
           IN  /\ M \in Map
               /\ \A q \in DOMAIN m : IsPrefix(from, q) =>
                    /\ Rebased(from, to, q) \in DOMAIN M
                    /\ M[Rebased(from, to, q)] = m[q]
               /\ \A q \in DOMAIN m : ~IsPrefix(from, q) /\ ~IsPrefix(to, q) =>
                    q \in DOMAIN M /\ M[q] = m[q]
<1> DEFINE M == MoveFolderMetadataSubtree(m, from, to)
           S == Subtree(m, from)
           kept == DOMAIN m \ (Subtree(m, from) \cup Subtree(m, to))
           keys == {Rebased(from, to, q) : q \in S}
<1>0. from \in Seq(STRING) /\ to \in Seq(STRING) /\ Path \subseteq Seq(STRING)
  BY DEF Path
<1>1. DOMAIN m \subseteq Path /\ \A q \in DOMAIN m : m[q] \in Shades
  BY MapTypes
<1>2. M = [q \in kept \cup keys |->
              IF q \in keys THEN m[CHOOSE r \in S : Rebased(from, to, r) = q] ELSE m[q]]
  BY DEF MoveFolderMetadataSubtree, Rebased
<1>3. \A q \in S : q \in DOMAIN m /\ q \in Seq(STRING) /\ IsPrefix(from, q)
  BY <1>0, <1>1 DEF Subtree, RelativeDescendantPath
<1> HIDE DEF M
<1>4. ASSUME NEW q \in S
      PROVE  /\ Rebased(from, to, q) \in keys /\ Rebased(from, to, q) \in Path
             /\ IsPrefix(to, Rebased(from, to, q))
             /\ M[Rebased(from, to, q)] = m[q]
  <2>1. q \in DOMAIN m /\ q \in Seq(STRING) /\ IsPrefix(from, q)
    BY <1>3
  <2>2. /\ Rebased(from, to, q) \in Path /\ IsPrefix(to, Rebased(from, to, q))
        /\ Rebased(to, from, Rebased(from, to, q)) = q
    BY <1>0, <2>1, RebasedFacts
  <2> DEFINE s == CHOOSE r \in S : Rebased(from, to, r) = Rebased(from, to, q)
  <2>3. s \in S /\ Rebased(from, to, s) = Rebased(from, to, q)
    OBVIOUS
  <2> HIDE DEF s
  <2>4. Rebased(to, from, Rebased(from, to, s)) = s
    BY <1>0, <1>3, <2>3, RebasedFacts
  <2>5. s = q
    BY <2>2, <2>3, <2>4
  <2>6. Rebased(from, to, q) \in keys
    OBVIOUS
  <2>7. M[Rebased(from, to, q)] = m[s]
    BY <1>2, <2>6 DEF s
  <2> QED
    BY <2>2, <2>5, <2>6, <2>7
<1>5. ASSUME NEW q \in DOMAIN m, ~IsPrefix(from, q), ~IsPrefix(to, q)
      PROVE  q \in DOMAIN M /\ M[q] = m[q]
  <2>1. q \in kept
    BY <1>5 DEF Subtree, RelativeDescendantPath
  <2>2. q \notin keys
    BY <1>4, <1>5
  <2> QED
    BY <1>2, <2>1, <2>2
<1>6. M \in Map
  <2>1. kept \cup keys \in SUBSET Path
    BY <1>1, <1>4
  <2>2. ASSUME NEW q \in kept \cup keys PROVE M[q] \in Shades
    <3>1. CASE q \in keys
      BY <1>1, <1>3, <1>4, <3>1
    <3>2. CASE q \notin keys
      BY <1>1, <1>2, <3>2
    <3> QED
      BY <3>1, <3>2
  <2>3. M \in [kept \cup keys -> Shades]
    BY <1>2, <2>2
  <2> QED
    BY <2>1, <2>3, MapTypes
<1>7. ASSUME NEW q \in DOMAIN m, IsPrefix(from, q)
      PROVE  Rebased(from, to, q) \in DOMAIN M /\ M[Rebased(from, to, q)] = m[q]
  <2>1. q \in S
    BY <1>7 DEF Subtree, RelativeDescendantPath
  <2> QED
    BY <1>2, <1>4, <2>1
<1> QED
  BY <1>5, <1>6, <1>7 DEF M

\* An empty folder that is deleted for good has got no note since.
LEMMA DeleteVaultFolderKept ==
    ASSUME FilesInv, NEW c \in Callers, DeleteVaultFolder(c) PROVE FilesInv'
<1> DEFINE o == call[c]
<1>1. /\ o.at = "effect" /\ o.op = "deleteVaultFolder"
      /\ tree' = Without(tree, Subtree(tree, o.path))
      /\ IF o.flag /\ ~o.deep THEN Loses(FilesIn(tree, Subtree(tree, o.path))) ELSE UNCHANGED lost
      /\ Continue(c, "saveMap") /\ UNCHANGED <<folders, metadataQueue, nextId, faded>>
  BY DEF DeleteVaultFolder
<1>2. /\ TreeOK(tree) /\ o.path \in Path /\ ValidateVaultPath(o.path) /\ lost = {}
      /\ nextId \in Nat \ {0} /\ CallOK(o, tree)
  BY <1>1, CallFacts
<1>3. /\ TreeOK(tree') /\ ColorsFrom(tree, tree') /\ OwnStays(tree, tree')
      /\ DOMAIN tree' = DOMAIN tree \ Subtree(tree, o.path)
  BY <1>1, <1>2, SubtreeRemoved
<1>4. lost' = {}
  <2>1. CASE o.flag /\ ~o.deep
    <3>1. \A q \in Subtree(tree, o.path) : ~NoteAt(tree, q)
      BY <1>1, <1>2, <2>1 DEF CallOK, StillHolds
    <3>2. \A x \in FilesIn(tree, Subtree(tree, o.path)) : ~(x >= 0)
      BY <3>1 DEF FilesIn, NoteAt, IsFile, Exists
    <3> QED
      BY <1>1, <1>2, <2>1, <3>2 DEF Loses
  <2>2. CASE ~(o.flag /\ ~o.deep)
    BY <1>1, <1>2, <2>2
  <2> QED
    BY <2>1, <2>2
<1>5. o.op \in MetadataOps
  BY <1>1 DEF MetadataOps
<1>6. metadataQueue # <<>> /\ Head(metadataQueue) = c
  BY <1>1, <1>5, OnlyTheFirst
<1>7. folders \in Map /\ o.map = folders
  BY <1>1, <1>5 DEF FilesInv, FilesTypeOK, MapIsCurrent
<1>8. ASSUME ~faded PROVE Agrees(tree', NewMap(o))
  <2>1. Agrees(tree, folders)
    BY <1>1, <1>6, <1>8, ColorsAgree
  <2>2. NewMap(o) = RemoveFolderMetadataSubtree(folders, o.path)
    BY <1>1, <1>7 DEF NewMap
  <2>3. SUFFICES ASSUME NEW p \in DOMAIN tree', tree'[p].shade # NoColor
                 PROVE  p \in DOMAIN NewMap(o) /\ NewMap(o)[p] = tree'[p].shade
    BY DEF Agrees
  <2>4. p \in DOMAIN tree /\ tree[p].shade = tree'[p].shade /\ ~IsPrefix(o.path, p)
    BY <1>3, <2>3 DEF ColorsFrom, Subtree, RelativeDescendantPath
  <2>5. p \in DOMAIN folders /\ folders[p] = tree'[p].shade
    BY <2>1, <2>3, <2>4 DEF Agrees
  <2> QED
    BY <1>2, <1>7, <2>2, <2>4, <2>5, RemovedMap
<1>9. nextId' \in Nat \ {0}
  BY <1>1, <1>2
<1> QED
  BY <1>1, <1>3, <1>4, <1>8, <1>9, PendingKept

\* The target is free of notes, and the map of the colours follows the folder.
LEMMA RenameKept ==
    ASSUME FilesInv, NEW c \in Callers, Rename(c) PROVE FilesInv'
<1> DEFINE o == call[c]
           base == Cleared(tree, o.to, o.flag)
           blocked == \/ MkdirCollides(base, Parents(o.to))
                      \/ Exists(base, o.to) /\ base[o.to].kind # tree[o.path].kind
                      \/ IsFolder(base, o.to) /\ Subtree(base, o.to) # {o.to}
<1>1. o.at = "effect" /\ o.op \in MoveOps
  BY DEF Rename, MoveOps
<1>2. /\ TreeOK(tree) /\ o.path \in Path /\ ValidateVaultPath(o.path) /\ lost = {}
      /\ nextId \in Nat \ {0} /\ CallOK(o, tree) /\ o \in CallType /\ o.flag \in BOOLEAN
      /\ o.to \in Path /\ ValidateVaultPath(o.to)
  BY <1>1, CallFacts
<1>3. StillHolds(o, tree)
  BY <1>1, <1>2 DEF CallOK
<1>4. CASE blocked
  <2>1. Fail(c)
    BY <1>4 DEF Rename, Cleared
  <2> QED
    BY <1>1, <2>1, FailKept
<1>5. CASE ~blocked
  <2>1. /\ tree' = Renamed(tree, o.path, o.to, o.flag)
        /\ IF o.flag THEN UNCHANGED lost ELSE Loses(FilesIn(tree, {o.to}))
        /\ Continue(c, IF o.op = "moveFolder" THEN "saveMap" ELSE "audit")
        /\ UNCHANGED <<folders, metadataQueue, nextId, faded>>
    BY <1>5 DEF Rename, Cleared, Grown, Left, Moved, Renamed
  <2>2. o.path \in DOMAIN tree /\ (IsFolder(tree, o.path) => ~IsPrefix(o.path, o.to))
    BY <1>1, <1>2, <1>3 DEF StillHolds, CallOK, MoveOps, IsFile, IsFolder, Exists
  <2>3. ~IsPrefix(o.to, o.path)
    BY <1>1, <1>2, <1>3 DEF StillHolds, CallOK
  <2>4. /\ ~MkdirCollides(base, Parents(o.to))
        /\ ~(IsFolder(base, o.to) /\ Subtree(base, o.to) # {o.to})
    BY <1>5
  <2>5. /\ TreeOK(tree') /\ OwnStays(tree, tree')
        /\ \A p \in DOMAIN tree' :
             \/ \E q \in Subtree(tree, o.path) : p = Rebased(o.path, o.to, q) /\ tree'[p] = tree[q]
             \/ p \in DOMAIN tree /\ tree'[p] = tree[p] /\ ~IsPrefix(o.path, p) /\ ~IsPrefix(o.to, p)
             \/ tree'[p] = Folder(NoColor)
    BY <1>2, <2>1, <2>2, <2>3, <2>4, RenameTree
  <2>6. Folder(NoColor).shade = NoColor
    BY DEF Folder
  <2>7. lost' = {}
    <3>1. CASE o.flag
      BY <1>2, <2>1, <3>1
    <3>2. CASE ~o.flag
      <4>1. ~NoteAt(tree, o.to)
        BY <1>1, <1>3, <3>2 DEF StillHolds
      <4>2. \A x \in FilesIn(tree, {o.to}) : ~(x >= 0)
        BY <4>1 DEF FilesIn, NoteAt, IsFile, Exists
      <4> QED
        BY <1>2, <2>1, <3>2, <4>2 DEF Loses
    <3> QED
      BY <3>1, <3>2
  <2>8. nextId' \in Nat \ {0}
    BY <1>2, <2>1
  <2>9. CASE o.op = "moveFile"
    <3>1. Continue(c, "audit") /\ o.op \in StructureOps
      BY <2>1, <2>9 DEF StructureOps
    <3>2. IsFile(tree, o.path) /\ ~IsFolder(tree, o.path)
      BY <1>3, <2>9 DEF StillHolds, IsFile, IsFolder
    <3>3. \A q \in Subtree(tree, o.path) : tree[q].shade = NoColor
      <4>1. \A q \in Subtree(tree, o.path) : q = o.path
        BY <1>2, <3>2, NothingUnder DEF Subtree, RelativeDescendantPath
      <4>2. tree[o.path].shade = NoColor
        BY <1>2, <2>2, <3>2 DEF TreeOK
      <4> QED
        BY <4>1, <4>2
    <3>4. ColorsFrom(tree, tree')
      BY <2>5, <2>6, <3>3 DEF ColorsFrom
    <3> QED
      BY <1>1, <2>1, <2>5, <2>7, <2>8, <3>1, <3>4, AuditedKept
  <2>10. CASE o.op = "moveFolder"
    <3>1. Continue(c, "saveMap") /\ o.op \in MetadataOps
      BY <2>1, <2>10 DEF MetadataOps
    <3>2. metadataQueue # <<>> /\ Head(metadataQueue) = c
      BY <1>1, <3>1, OnlyTheFirst
    <3>3. folders \in Map /\ o.map = folders
      BY <1>1, <3>1 DEF FilesInv, FilesTypeOK, MapIsCurrent
    <3>4. ASSUME ~faded PROVE Agrees(tree', NewMap(o))
      <4>1. Agrees(tree, folders)
        BY <1>1, <3>2, <3>4, ColorsAgree
      <4> DEFINE M == MoveFolderMetadataSubtree(folders, o.path, o.to)
      <4>2. NewMap(o) = M
        BY <2>10, <3>3 DEF NewMap
      <4>3. /\ \A q \in DOMAIN folders : IsPrefix(o.path, q) =>
                 Rebased(o.path, o.to, q) \in DOMAIN M /\ M[Rebased(o.path, o.to, q)] = folders[q]
            /\ \A q \in DOMAIN folders : ~IsPrefix(o.path, q) /\ ~IsPrefix(o.to, q) =>
                 q \in DOMAIN M /\ M[q] = folders[q]
        BY <1>2, <3>3, MovedMap
      <4> HIDE DEF M
      <4>4. SUFFICES ASSUME NEW p \in DOMAIN tree', tree'[p].shade # NoColor
                     PROVE  p \in DOMAIN M /\ M[p] = tree'[p].shade
        BY <4>2 DEF Agrees
      <4>5. CASE \E q \in Subtree(tree, o.path) :
                    p = Rebased(o.path, o.to, q) /\ tree'[p] = tree[q]
        <5>1. PICK q \in Subtree(tree, o.path) :
                 p = Rebased(o.path, o.to, q) /\ tree'[p] = tree[q]
          BY <4>5
        <5>2. q \in DOMAIN tree /\ IsPrefix(o.path, q)
          BY DEF Subtree, RelativeDescendantPath
        <5>3. q \in DOMAIN folders /\ folders[q] = tree'[p].shade
          BY <4>1, <4>4, <5>1, <5>2 DEF Agrees
        <5> QED
          BY <4>3, <5>1, <5>2, <5>3
      <4>6. CASE p \in DOMAIN tree /\ tree'[p] = tree[p] /\ ~IsPrefix(o.path, p)
                 /\ ~IsPrefix(o.to, p)
        <5>1. p \in DOMAIN folders /\ folders[p] = tree'[p].shade
          BY <4>1, <4>4, <4>6 DEF Agrees
        <5> QED
          BY <4>3, <4>6, <5>1
      <4>7. tree'[p] # Folder(NoColor)
        BY <2>6, <4>4
      <4> QED
        BY <2>5, <4>5, <4>6, <4>7
    <3> QED
      BY <1>1, <2>1, <2>5, <2>7, <2>8, <2>10, <3>1, <3>4, PendingKept
  <2> QED
    BY <1>1, <2>9, <2>10 DEF MoveOps
<1> QED
  BY <1>4, <1>5

\* The map is saved, or could not be: then the tree has changed and the map has not.
LEMMA WriteFolderMetadataMapKept ==
    ASSUME FilesInv, NEW c \in Callers, WriteFolderMetadataMap(c) PROVE FilesInv'
<1> DEFINE o == call[c]
<1>1. o.at = "saveMap" /\ UNCHANGED <<tree, nextId, lost>>
  BY DEF WriteFolderMetadataMap
<1>2. /\ TreeOK(tree) /\ o.path \in Path /\ lost = {} /\ nextId \in Nat \ {0} /\ CallOK(o, tree)
      /\ o.op \in MoveOps => o.to \in Path
  BY <1>1, CallFacts
<1>3. /\ o.op \in {"deleteVaultFolder", "moveFolder"} /\ o.op \in MetadataOps
      /\ o.op \in StructureOps
  BY <1>1, <1>2 DEF CallOK, MetadataOps, StructureOps
<1>4. metadataQueue # <<>> /\ Head(metadataQueue) = c
  BY <1>1, <1>3, OnlyTheFirst
<1>5. FilesTypeOK /\ folders \in Map /\ faded \in BOOLEAN /\ o.map = folders
  BY <1>1, <1>3 DEF FilesInv, FilesTypeOK, MapIsCurrent
<1>6. /\ TreeOK(tree') /\ Gentle(tree, tree') /\ OwnStays(tree, tree')
      /\ lost' = {} /\ nextId' \in Nat \ {0}
  BY <1>1, <1>2, SameTree
<1>7. CASE folders' = NewMap(o) /\ Continue(c, "audit") /\ UNCHANGED <<metadataQueue, faded>>
  <2>1. PICK r \in CallType :
              /\ call' = [call EXCEPT ![c] = r] /\ r.at = "audit"
              /\ r.op = call[c].op /\ r.path = call[c].path /\ r.to = call[c].to
              /\ r.flag = call[c].flag /\ r.deep = call[c].deep /\ r.map = call[c].map
    BY <1>5, <1>7, ContinueIs
  <2>2. CallOK(r, tree')
    BY <1>1, <1>2, <2>1 DEF CallOK
  <2>3. QueueOK'
    BY <1>4, <1>7, <2>1, QueueKept
  <2>4. ~faded => Agrees(tree, NewMap(o))
    BY <1>1 DEF FilesInv, ColorsOK
  <2>5. ColorsOK'
    <3>1. ~faded' => Agrees(tree', folders')
      BY <1>1, <1>7, <2>4
    <3> QED
      BY <1>4, <2>1, <3>1, ColorsSettled
  <2>6. folders' \in Map
    BY <1>2, <1>3, <1>5, <1>7, RemovedMap, MovedMap DEF NewMap, MoveOps
  <2>7. faded' \in BOOLEAN
    BY <1>5, <1>7
  <2> QED
    BY <1>4, <1>6, <2>1, <2>2, <2>3, <2>5, <2>6, <2>7, StepKept
<1>8. CASE Return(c) /\ Dequeue(c) /\ faded' = TRUE /\ UNCHANGED folders
  <2>1. Idle \in CallType /\ Idle.op = "idle" /\ Idle.at = "idle" /\ CallOK(Idle, tree')
    BY IdleType
  <2>2. call' = [call EXCEPT ![c] = Idle]
    BY <1>8 DEF Return
  <2>3. QueueOK'
    BY <1>4, <1>8, QueueLeft
  <2>4. ColorsOK'
    BY <1>8 DEF ColorsOK
  <2>5. Idle.op \notin MetadataOps
    BY <2>1 DEF MetadataOps
  <2>6. folders' = folders /\ folders' \in Map /\ faded' \in BOOLEAN
    BY <1>5, <1>8
  <2> HIDE DEF Idle
  <2> QED
    BY <1>6, <2>1, <2>2, <2>3, <2>4, <2>5, <2>6, StepKept
<1> QED
  BY <1>7, <1>8 DEF WriteFolderMetadataMap, NewMap

\* What callers ask for.
RequestOps == StructureOps \cup {"setFolderMetadata", "writeVaultRawFile", "makeVaultFolder"}
RequestType ==
    [op : RequestOps \cup {"idle"}, path : Seq(STRING), to : Seq(STRING), flag : BOOLEAN,
     deep : BOOLEAN, color : Shades \cup {"bad"}, at : {"idle"}, map : Map, existed : BOOLEAN]

\* A request of the right types, with a colour unless a bad one can be refused.
GoodRequest(o) ==
    /\ o \in RequestType /\ o.op \in RequestOps
    /\ o.op # "setFolderMetadata" => o.color \in Shades
    /\ o.op \in MoveOps /\ o.flag => ~IsPrefix(o.to, o.path)

LEMMA RequestsTyped == \A o \in Requests : GoodRequest(o)
<1>1. \A p \in VaultPaths : p \in Seq(STRING)
  BY VaultFilesBounds
<1>2. <<>> \in Seq(STRING) /\ <<>> \in Map /\ NoColor \in Shades /\ Colors \subseteq Shades
  BY EmptyMap DEF Shades
<1>3. Idle \in RequestType /\ Idle.color = NoColor
  BY <1>2 DEF Idle, RequestType
<1>4. ASSUME NEW op \in RequestOps, NEW p \in VaultPaths
      PROVE  /\ Request(op, p) \in RequestType /\ Request(op, p).op = op
             /\ Request(op, p).color \in Shades
  <2>1. p \in Seq(STRING) /\ Request(op, p) = [Idle EXCEPT !.op = op, !.path = p]
    BY <1>1 DEF Request
  <2> QED
    BY <1>2, <1>3, <2>1 DEF RequestType
<1>5. SUFFICES ASSUME NEW o \in Requests PROVE GoodRequest(o)
  OBVIOUS
<1>6. CASE o \in {ColorRequest(p, k) : p \in VaultPaths, k \in Colors \cup {NoColor, "bad"}}
  <2>1. PICK p \in VaultPaths, k \in Colors \cup {NoColor, "bad"} :
          o = ColorRequest(p, k)
    BY <1>6
  <2>2. PICK q \in RequestType : q = Request("setFolderMetadata", p) /\ q.op = "setFolderMetadata"
    BY <1>4 DEF RequestOps
  <2>3. o = [q EXCEPT !.color = k] /\ k \in Shades \cup {"bad"}
    BY <1>2, <2>1, <2>2 DEF ColorRequest
  <2> QED
    BY <2>2, <2>3 DEF RequestType, GoodRequest, RequestOps, MoveOps
<1>7. CASE o \in {FileRequest(op, p, f) :
                     op \in {"writeVaultFile", "writeVaultRawFile", "deleteVaultFile"},
                     p \in VaultPaths, f \in BOOLEAN}
  <2>1. PICK op \in {"writeVaultFile", "writeVaultRawFile", "deleteVaultFile"},
             p \in VaultPaths, f \in BOOLEAN : o = FileRequest(op, p, f)
    BY <1>7
  <2>2. op \in RequestOps /\ op \notin MoveOps
    BY DEF RequestOps, StructureOps, MoveOps
  <2>3. PICK q \in RequestType : q = Request(op, p) /\ q.op = op /\ q.color \in Shades
    BY <1>4, <2>2
  <2>4. o = [q EXCEPT !.flag = f]
    BY <2>1, <2>3 DEF FileRequest
  <2>5. o \in RequestType /\ o.op = op /\ o.color \in Shades
    BY <2>3, <2>4 DEF RequestType
  <2> QED
    BY <2>2, <2>5 DEF GoodRequest
<1>8. CASE o \in {Request("makeVaultFolder", p) : p \in VaultPaths}
  <2>1. PICK p \in VaultPaths : o = Request("makeVaultFolder", p)
    BY <1>8
  <2>2. "makeVaultFolder" \in RequestOps /\ "makeVaultFolder" \notin MoveOps
    BY DEF RequestOps, MoveOps
  <2> QED
    BY <1>4, <2>1, <2>2 DEF GoodRequest
<1>9. CASE o \in {DeleteRequest(p, f, d) : p \in VaultPaths, f \in BOOLEAN, d \in BOOLEAN}
  <2>1. PICK p \in VaultPaths, f \in BOOLEAN, d \in BOOLEAN :
          o = DeleteRequest(p, f, d)
    BY <1>9
  <2>2. "deleteVaultFolder" \in RequestOps /\ "deleteVaultFolder" \notin MoveOps
    BY DEF RequestOps, StructureOps, MoveOps
  <2>3. PICK q \in RequestType :
          q = Request("deleteVaultFolder", p) /\ q.op = "deleteVaultFolder" /\ q.color \in Shades
    BY <1>4, <2>2
  <2>4. o = [q EXCEPT !.flag = f, !.deep = d]
    BY <2>1, <2>3 DEF DeleteRequest
  <2>5. o \in RequestType /\ o.op = "deleteVaultFolder" /\ o.color \in Shades
    BY <2>3, <2>4 DEF RequestType
  <2> QED
    BY <2>2, <2>5 DEF GoodRequest
<1>10. CASE o \in {x \in Moves : x.flag => ~RelativeDescendantPath(x.to, x.path)}
  <2>1. PICK op \in MoveOps, p \in VaultPaths, t \in VaultPaths, f \in BOOLEAN :
          o = MoveRequest(op, p, t, f)
    <3>1. o \in Moves
      BY <1>10
    <3> QED
      BY <3>1 DEF Moves, MoveOps
  <2>2. op \in RequestOps
    BY DEF RequestOps, StructureOps, MoveOps
  <2>3. PICK q \in RequestType : q = Request(op, p) /\ q.op = op /\ q.color \in Shades
    BY <1>4, <2>2
  <2>4. o = [q EXCEPT !.to = t, !.flag = f] /\ t \in Seq(STRING)
    BY <1>1, <2>1, <2>3 DEF MoveRequest
  <2>5. o \in RequestType /\ o.op = op /\ o.color \in Shades
    BY <2>3, <2>4 DEF RequestType
  <2>6. o.flag => ~IsPrefix(o.to, o.path)
    BY <1>10 DEF RelativeDescendantPath
  <2> QED
    BY <2>2, <2>5, <2>6 DEF GoodRequest
<1> QED
  BY <1>5, <1>6, <1>7, <1>8, <1>9, <1>10 DEF Requests

\* A call starts: what it finds holds, and an operation on folders.yml takes the
\* last place of the queue.
LEMMA BeginKept ==
    ASSUME FilesInv, NEW c \in Callers, NEW o \in Requests, Begin(c, o) PROVE FilesInv'
<1>1. /\ call[c].op = "idle" /\ Passes(o)
      /\ o.op \in StructureOps => StructureFree
      /\ UNCHANGED <<tree, folders, nextId, lost, faded>>
      /\ metadataQueue' = IF o.op \in MetadataOps THEN Append(metadataQueue, c) ELSE metadataQueue
  BY DEF Begin, FirstFree
<1>2. /\ o \in RequestType /\ o.op \in RequestOps
      /\ o.op # "setFolderMetadata" => o.color \in Shades
      /\ o.op \in MoveOps /\ o.flag => ~IsPrefix(o.to, o.path)
  BY RequestsTyped DEF GoodRequest
<1>3. PICK b : b = Exists(tree, o.path)
  OBVIOUS
<1>4. b \in BOOLEAN
  BY <1>3 DEF Exists
<1>5. PICK x \in {"queued", "target", "effect"} :
         x = IF o.op \in MetadataOps THEN "queued"
             ELSE IF o.op = "moveFile" THEN "target" ELSE "effect"
  OBVIOUS
<1> DEFINE r == [o EXCEPT !.existed = b, !.at = x]
<1>6. call' = [call EXCEPT ![c] = r]
  BY <1>3, <1>5 DEF Begin
<1>7. ValidateVaultPath(o.path) /\ o.color \in Shades
  <2>1. ValidateVaultPath(o.path)
    BY <1>1 DEF Passes
  <2>2. CASE o.op = "setFolderMetadata"
    <3>1. MaySetFolderMetadata(o)
      BY <1>1, <2>2 DEF Passes
    <3>2. o.color \in Colors \cup {NoColor}
      BY <3>1 DEF MaySetFolderMetadata, NormalizeFolderMetadataInput
    <3> QED
      BY <2>1, <3>2 DEF Shades
  <2> QED
    BY <1>2, <2>1, <2>2
<1>8. /\ r \in CallType /\ r.at = x /\ r.op = o.op /\ r.path = o.path /\ r.to = o.to
      /\ r.flag = o.flag /\ r.deep = o.deep /\ r.op # "idle"
  BY <1>2, <1>4, <1>5, <1>7 DEF RequestType, CallType, RequestOps, StructureOps
<1> HIDE DEF r
<1>10. o.op \in MoveOps => MayMove(o)
  <2>1. CASE o.op = "moveFile"
    BY <1>1, <2>1 DEF Passes
  <2>2. CASE o.op = "moveFolder"
    BY <1>1, <2>2 DEF Passes
  <2> QED
    BY <2>1, <2>2 DEF MoveOps
<1>11. o.op = "writeVaultFile" => MayWrite(o)
  BY <1>1 DEF Passes
<1>12. o.op = "deleteVaultFile" => MayDeleteFile(o)
  BY <1>1 DEF Passes
<1>13. o.op = "deleteVaultFolder" => MayDeleteFolder(o)
  BY <1>1 DEF Passes
<1>14. StillHolds(r, tree)
  <2>1. r.op \in {"deleteVaultFile", "moveFile"} => IsFile(tree, r.path)
    BY <1>8, <1>10, <1>12 DEF MayMove, MayDeleteFile, MoveOps
  <2>2. r.op = "moveFolder" => IsFolder(tree, r.path)
    BY <1>8, <1>10 DEF MayMove, MoveOps
  <2>3. r.op = "writeVaultFile" /\ ~r.flag => ~NoteAt(tree, r.path)
    BY <1>8, <1>11 DEF MayWrite, NoteAt, IsFile
  <2>4. r.op = "deleteVaultFolder" /\ ~r.deep => \A q \in Subtree(tree, r.path) : ~NoteAt(tree, q)
    BY <1>8, <1>13 DEF MayDeleteFolder, NoteAt, IsFile, IsFolder
  <2>5. r.op \in MoveOps => r.at # "effect"
    BY <1>5, <1>8 DEF MoveOps, MetadataOps
  <2> QED
    BY <2>1, <2>2, <2>3, <2>4, <2>5 DEF StillHolds
<1>15. CallOK(r, tree')
  <2>1. r.at = "queued" => r.op \in MetadataOps
    BY <1>5, <1>8
  <2>2. r.at = "target" => r.op \in MoveOps
    BY <1>5, <1>8 DEF MoveOps
  <2>3. r.op \in MoveOps =>
         /\ ValidateVaultPath(r.to)
         /\ r.op = "moveFolder" => ~IsPrefix(r.path, r.to)
         /\ r.flag => ~IsPrefix(r.to, r.path)
    BY <1>2, <1>8, <1>10 DEF MayMove, RelativeDescendantPath
  <2>4. r.at # "idle" /\ r.at # "saveMap"
    BY <1>5, <1>8
  <2> QED
    BY <1>1, <1>7, <1>8, <1>14, <2>1, <2>2, <2>3, <2>4 DEF CallOK
<1>16. /\ call \in [Callers -> CallType] /\ OneStructureOp /\ QueueOK /\ MapIsCurrent /\ ColorsOK
       /\ \A d \in Callers : CallOK(call[d], tree)
  BY DEF FilesInv, FilesTypeOK
<1>17. /\ call' \in [Callers -> CallType] /\ call'[c] = r
       /\ \A d \in Callers : d # c => call'[d] = call[d]
  BY <1>6, <1>8, <1>16
<1>18. ASSUME NEW d \in Callers PROVE CallOK(call[d], tree)'
  BY <1>1, <1>15, <1>16, <1>17
<1>19. OneStructureOp'
  <2>1. ASSUME NEW d \in Callers, d # c, call'[d].op \in StructureOps PROVE o.op \notin StructureOps
    BY <1>1, <1>17, <2>1 DEF StructureFree
  <2> SUFFICES ASSUME NEW d \in Callers, NEW e \in Callers,
                      call'[d].op \in StructureOps, call'[e].op \in StructureOps
               PROVE  d = e
    BY DEF OneStructureOp
  <2> QED
    BY <1>8, <1>16, <1>17, <2>1 DEF OneStructureOp
<1>20. call[c].at = "idle" /\ call[c].op \notin MetadataOps
  BY <1>1, <1>16 DEF CallOK, MetadataOps
<1>21. QueueOK'
  <2>1. /\ metadataQueue \in Seq(Callers) /\ Len(metadataQueue) \in Nat
        /\ \A k \in 1..Len(metadataQueue) : metadataQueue[k] \in Callers
    BY <1>16 DEF QueueOK
  <2>2. \A k \in 1..Len(metadataQueue) : metadataQueue[k] # c
    BY <1>16, <1>20 DEF QueueOK
  <2>3. CASE o.op \notin MetadataOps
    <3>1. metadataQueue' = metadataQueue
      BY <1>1, <2>3
    <3>2. \A k \in 1..Len(metadataQueue) : call'[metadataQueue[k]] = call[metadataQueue[k]]
      BY <1>17, <2>1, <2>2
    <3>3. \A d \in Callers : call'[d].op \in MetadataOps => call[d].op \in MetadataOps
      BY <1>8, <1>17, <2>3
    <3> QED
      BY <1>16, <3>1, <3>2, <3>3 DEF QueueOK
  <2>4. CASE o.op \in MetadataOps
    <3> DEFINE q == Append(metadataQueue, c)
    <3>1. metadataQueue' = q
      BY <1>1, <2>4
    <3>2. /\ q \in Seq(Callers) /\ Len(q) = Len(metadataQueue) + 1 /\ q[Len(metadataQueue) + 1] = c
          /\ \A k \in 1..Len(metadataQueue) : q[k] = metadataQueue[k]
      BY <2>1
    <3> HIDE DEF q
    <3>3. \A k \in 1..Len(q) : k \in 1..Len(metadataQueue) \/ k = Len(q)
      BY <2>1, <3>2
    <3>4. ASSUME NEW j \in 1..Len(q), NEW k \in 1..Len(q), q[j] = q[k] PROVE j = k
      <4>1. CASE j \in 1..Len(metadataQueue) /\ k \in 1..Len(metadataQueue)
        BY <1>16, <3>2, <3>4, <4>1 DEF QueueOK
      <4>2. CASE j = Len(q) /\ k = Len(q)
        BY <4>2
      <4>3. CASE j \in 1..Len(metadataQueue) /\ k = Len(q)
        BY <2>2, <3>2, <3>4, <4>3
      <4>4. CASE k \in 1..Len(metadataQueue) /\ j = Len(q)
        BY <2>2, <3>2, <3>4, <4>4
      <4> QED
        BY <3>3, <4>1, <4>2, <4>3, <4>4
    <3>5. ASSUME NEW d \in Callers, call'[d].op \in MetadataOps PROVE \E k \in 1..Len(q) : q[k] = d
      <4>1. CASE d = c
        <5>1. Len(metadataQueue) + 1 \in 1..Len(q)
          BY <2>1, <3>2
        <5> QED
          BY <3>2, <4>1, <5>1
      <4>2. CASE d # c
        <5>1. PICK k \in 1..Len(metadataQueue) : metadataQueue[k] = d
          BY <1>16, <1>17, <3>5, <4>2 DEF QueueOK
        <5>2. k \in 1..Len(q)
          BY <2>1, <3>2
        <5> QED
          BY <3>2, <5>1, <5>2
      <4> QED
        BY <4>1, <4>2
    <3>6. ASSUME NEW k \in 1..Len(q)
          PROVE  call'[q[k]].op \in MetadataOps /\ (k > 1 => call'[q[k]].at = "queued")
      <4>1. CASE k \in 1..Len(metadataQueue)
        <5>1. q[k] = metadataQueue[k] /\ call'[q[k]] = call[metadataQueue[k]]
          BY <1>17, <2>1, <2>2, <3>2, <4>1
        <5> QED
          BY <1>16, <4>1, <5>1 DEF QueueOK
      <4>2. CASE k = Len(q)
        BY <1>5, <1>8, <1>17, <2>4, <3>2, <4>2
      <4> QED
        BY <3>3, <4>1, <4>2
    <3> QED
      BY <3>1, <3>2, <3>4, <3>5, <3>6 DEF QueueOK
  <2> QED
    BY <2>3, <2>4
<1>22. MapIsCurrent'
  <2>1. r.op \in MetadataOps => r.at = "queued"
    BY <1>5, <1>8
  <2> QED
    BY <1>1, <1>16, <1>17, <2>1 DEF MapIsCurrent
<1>23. r.at # "saveMap" /\ folders' = folders /\ faded' = faded
  BY <1>1, <1>5, <1>8
<1>24. ColorsOK'
  BY <1>1, <1>6, <1>8, <1>20, <1>23, SameTree, ColorsKept
<1>25. InternalStateStays'
  BY <1>1, SameTree, OwnKept
<1>26. FilesTypeOK' /\ lost' = {}
  BY <1>1, <1>17 DEF FilesInv, FilesTypeOK, NotesAreKept
<1> QED
  BY <1>18, <1>19, <1>21, <1>22, <1>24, <1>25, <1>26 DEF FilesInv, NotesAreKept

-----------------------------------------------------------------------------
(* The theorem.                                                            *)

LEMMA FilesInvInit == FilesInit => FilesInv
<1> SUFFICES ASSUME FilesInit PROVE FilesInv
  OBVIOUS
<1>1. /\ tree = InitialTree /\ call = [c \in Callers |-> Idle] /\ metadataQueue = <<>>
      /\ nextId = 100 /\ lost = {} /\ faded = FALSE
      /\ folders = [p \in {q \in DOMAIN InitialTree : InitialTree[q].shade # NoColor} |->
                      InitialTree[p].shade]
  BY DEF FilesInit
<1>2. TreeOK(tree)
  BY <1>1, InitialTreeIsAVault DEF TreeOK, Path, Node
<1>3. folders \in Map
  <2> DEFINE D == {q \in DOMAIN InitialTree : InitialTree[q].shade # NoColor}
  <2>1. D \in SUBSET Path
    BY <1>1, <1>2 DEF TreeOK
  <2>2. folders \in [D -> Shades]
    BY <1>1 DEF Shades
  <2> QED
    BY <2>1, <2>2 DEF Map
<1>4. /\ call \in [Callers -> CallType]
      /\ \A c \in Callers : call[c] = Idle /\ call[c].op = "idle" /\ call[c].at = "idle"
  BY <1>1, IdleType
<1>5. FilesTypeOK
  <2>1. nextId \in Nat \ {0}
    <3>1. nextId = 100
      BY <1>1
    <3> QED
      BY <3>1
  <2>2. faded \in BOOLEAN
    <3>1. faded = FALSE
      BY <1>1
    <3> QED
      BY <3>1
  <2> QED
    BY <1>2, <1>3, <1>4, <2>1, <2>2 DEF FilesTypeOK
<1>6. \A c \in Callers : CallOK(call[c], tree)
  BY <1>4, IdleType
<1>7. OneStructureOp /\ MapIsCurrent
  BY <1>4 DEF OneStructureOp, MapIsCurrent, StructureOps, MetadataOps
<1>8. QueueOK
  <2>1. metadataQueue \in Seq(Callers) /\ 1..Len(metadataQueue) = {}
    BY <1>1
  <2> QED
    BY <1>4, <2>1 DEF QueueOK, MetadataOps
<1>9. ColorsOK
  <2>1. Agrees(tree, folders)
    BY <1>1 DEF Agrees
  <2> QED
    BY <1>4, <2>1 DEF ColorsOK
<1>10. NotesAreKept /\ InternalStateStays
  BY <1>1 DEF NotesAreKept, InternalStateStays, Exists
<1> QED
  BY <1>5, <1>6, <1>7, <1>8, <1>9, <1>10 DEF FilesInv

LEMMA FilesStep ==
    ASSUME FilesInv, [FilesNext]_fileVars PROVE FilesInv'
<1>1. CASE FilesNext
  <2>1. PICK c \in Callers : CallSteps(c) \/ \E o \in Requests : Begin(c, o)
    BY <1>1 DEF FilesNext
  <2>2. CASE CallSteps(c)
    BY <2>2, ReadFolderMetadataMapKept, RecolorsKept, MakeVaultFolderKept, WriteVaultFileKept,
       DeleteVaultFileKept, DeleteVaultFolderKept, CheckTargetKept, RenameKept,
       WriteFolderMetadataMapKept, EmitVaultAuditKept DEF CallSteps
  <2>3. CASE \E o \in Requests : Begin(c, o)
    BY <2>3, BeginKept
  <2> QED
    BY <2>1, <2>2, <2>3
<1>2. CASE UNCHANGED fileVars
  <2>1. UNCHANGED <<tree, folders, call, metadataQueue, nextId, lost, faded>>
    BY <1>2 DEF fileVars
  <2> QED
    BY <2>1 DEF FilesInv, FilesTypeOK, OneStructureOp, QueueOK, MapIsCurrent, ColorsOK, Agrees,
       NewMap, NotesAreKept, InternalStateStays, Exists, CallOK, StillHolds, IsFile, IsFolder,
       NoteAt, TreeOK, Subtree
<1> QED
  BY <1>1, <1>2

\* In every behaviour of the vault's files: no content a note was given is lost
\* unless a caller asked for it, a folder keeps its colour through the moves and
\* deletes that overlap unless a write of folders.yml failed, .kb1 and .git stay as
\* they are, and the queue of folders.yml never waits for a call that is over.
THEOREM FilesAreKept == FilesSpec => []FilesAreSound
<1>1. FilesInit => FilesInv
  BY FilesInvInit
<1>2. FilesInv /\ [FilesNext]_fileVars => FilesInv'
  BY FilesStep
<1>3. FilesInv => FilesAreSound
  <2> SUFFICES ASSUME FilesInv PROVE FilesAreSound
    OBVIOUS
  <2>1. NotesAreKept /\ InternalStateStays
    BY DEF FilesInv
  <2>2. QueueMoves
    <3>1. metadataQueue \in Seq(Callers) /\ DOMAIN metadataQueue = 1..Len(metadataQueue)
      BY DEF FilesInv, QueueOK
    <3> QED
      BY <3>1 DEF FilesInv, QueueOK, QueueMoves
  <2>3. ColorIsKept
    <3> SUFFICES ASSUME ~faded, metadataQueue = <<>> PROVE Agrees(tree, folders)
      BY DEF ColorIsKept, Agrees
    <3>1. 1..Len(metadataQueue) = {}
      OBVIOUS
    <3>2. \A c \in Callers : call[c].op \notin MetadataOps
      BY <3>1 DEF FilesInv, QueueOK
    <3>3. \A c \in Callers : call[c].at # "saveMap"
      BY <3>2 DEF FilesInv, CallOK, MetadataOps
    <3> QED
      BY <3>3 DEF FilesInv, ColorsOK
  <2> QED
    BY <2>1, <2>2, <2>3 DEF FilesAreSound
<1> QED
  BY <1>1, <1>2, <1>3, PTL DEF FilesSpec

-----------------------------------------------------------------------------
(* The ways into a vault: paths in URLs.                                   *)

\* The words of a request.
Word == STRING \cup {" ", "%", "#", "%20", "%25", "%23", "/", "history", "content", "boundary",
                     "splice", "append", "prepend", "move", "metadata", "files", "yjs", "v",
                     "flush", ".", "md"}

IsName(p) == p \in Seq(Word) /\ \A k \in 1..Len(p) : p[k] \notin {"%20", "%25", "%23"}

LEMMA NamesFit ==
    ASSUME NEW p \in NoteNames \cup FolderNames
    PROVE  IsName(p)
<1>1. p \in Seq(STRING) /\ STRING \subseteq Word
  BY NamesAreWords DEF Word
<1>2. p \in Seq(Word)
  BY <1>1, SeqMonotonic
<1> QED
  BY <1>2, NamesAreWords DEF IsName

\* What a path is in the URL of a request when the framework has decoded some of it.
Seen(p) == RequestPath(EncodeVaultPath(p))

LEMMA EscapedWords ==
    /\ DOMAIN Escaped = {" ", "%", "#"}
    /\ Escaped[" "] = "%20" /\ Escaped["%"] = "%25" /\ Escaped["#"] = "%23"
  BY DEF Escaped

LEMMA EncodedPath ==
    ASSUME NEW p, IsName(p)
    PROVE  /\ EncodeVaultPath(p) \in Seq(Word) /\ Len(EncodeVaultPath(p)) = Len(p)
           /\ \A k \in 1..Len(p) :
                 EncodeVaultPath(p)[k] = IF p[k] = " " THEN "%20" ELSE IF p[k] = "%" THEN "%25"
                                         ELSE IF p[k] = "#" THEN "%23" ELSE p[k]
<1>1. p \in Seq(Word) /\ DOMAIN p = 1..Len(p) /\ Len(p) \in Nat
  BY DEF IsName
<1>2. \A k \in 1..Len(p) : p[k] \in Word
  BY <1>1
<1> DEFINE e == [k \in 1..Len(p) |-> IF p[k] = " " THEN "%20" ELSE IF p[k] = "%" THEN "%25"
                                     ELSE IF p[k] = "#" THEN "%23" ELSE p[k]]
<1>3. EncodeVaultPath(p) = e
  BY <1>1, EscapedWords DEF EncodeVaultPath
<1>4. e \in Seq(Word) /\ Len(e) = Len(p)
  <2>1. \A k \in 1..Len(p) : e[k] \in Word
    BY <1>2 DEF Word
  <2>2. e \in [1..Len(p) -> Word]
    BY <2>1
  <2> HIDE DEF e
  <2> QED
    BY <1>1, <2>2, LenProperties
<1> QED
  BY <1>3, <1>4

\* Decoding a word that was escaped, and one that needed no escape.
LEMMA DecodedText ==
    ASSUME NEW t \in Seq(Word), NEW p, IsName(p), Len(t) = Len(p),
           \A k \in 1..Len(p) :
               \/ t[k] = p[k]
               \/ p[k] = " " /\ t[k] = "%20"
               \/ p[k] = "%" /\ t[k] = "%25"
               \/ p[k] = "#" /\ t[k] = "%23"
    PROVE  DecodeURIComponent(t) = p
<1>0. p \in Seq(Word)
  BY DEF IsName
<1>1. DOMAIN p = 1..Len(p) /\ DOMAIN t = 1..Len(p) /\ Len(p) \in Nat
  BY <1>0, LenProperties
<1>2. ASSUME NEW k \in 1..Len(p) PROVE DecodeURIComponent(t)[k] = p[k]
  <2>1. DecodeURIComponent(t)[k] = IF \E c \in DOMAIN Escaped : Escaped[c] = t[k]
                                   THEN CHOOSE c \in DOMAIN Escaped : Escaped[c] = t[k]
                                   ELSE t[k]
    BY <1>1 DEF DecodeURIComponent
  <2>2. CASE t[k] = p[k]
    <3>1. p[k] \notin {"%20", "%25", "%23"}
      BY DEF IsName
    <3>2. ~\E c \in DOMAIN Escaped : Escaped[c] = t[k]
      BY <2>2, <3>1, EscapedWords
    <3> QED
      BY <2>1, <2>2, <3>2
  <2>3. ASSUME NEW c \in DOMAIN Escaped, p[k] = c, t[k] = Escaped[c]
        PROVE  DecodeURIComponent(t)[k] = p[k]
    <3>1. \A d \in DOMAIN Escaped : Escaped[d] = t[k] <=> d = c
      BY <2>3, EscapedWords
    <3>2. (CHOOSE d \in DOMAIN Escaped : Escaped[d] = t[k]) = c
      BY <3>1
    <3> QED
      BY <2>1, <2>3, <3>2
  <2> QED
    BY <2>2, <2>3, EscapedWords
<1>3. DecodeURIComponent(t) = [k \in 1..Len(p) |-> DecodeURIComponent(t)[k]]
  BY <1>1 DEF DecodeURIComponent
<1>4. DecodeURIComponent(t) = [k \in 1..Len(p) |-> p[k]]
  BY <1>2, <1>3
<1>5. p = [k \in 1..Len(p) |-> p[k]]
  BY <1>0, LenProperties
<1> QED
  BY <1>4, <1>5

LEMMA SeenPath ==
    ASSUME NEW p, IsName(p)
    PROVE  /\ Seen(p) \in Seq(Word) /\ Len(Seen(p)) = Len(p) /\ Len(p) \in Nat
           /\ \A k \in 1..Len(p) :
                 Seen(p)[k] = IF p[k] = "%" THEN "%25" ELSE IF p[k] = "#" THEN "%23" ELSE p[k]
<1> DEFINE e == EncodeVaultPath(p)
<1>0. e \in Seq(Word) /\ Len(e) = Len(p) /\ p \in Seq(Word)
  BY EncodedPath DEF IsName
<1>1. DOMAIN e = 1..Len(p) /\ Len(p) \in Nat
  BY <1>0, LenProperties
<1>2. \A k \in 1..Len(p) : p[k] \notin {"%20", "%25", "%23"} /\ p[k] \in Word
  BY DEF IsName
<1> DEFINE s == [k \in 1..Len(p) |-> IF p[k] = "%" THEN "%25" ELSE IF p[k] = "#" THEN "%23" ELSE p[k]]
<1>3. ASSUME NEW k \in 1..Len(p) PROVE (IF e[k] = "%20" THEN " " ELSE e[k]) = s[k]
  BY <1>2, EncodedPath
<1>4. Seen(p) = [k \in 1..Len(p) |-> IF e[k] = "%20" THEN " " ELSE e[k]]
  BY <1>1 DEF Seen, RequestPath
<1>5. Seen(p) = s
  BY <1>3, <1>4
<1>6. \A k \in 1..Len(p) : s[k] \in Word
  BY <1>2 DEF Word
<1>7. s \in [1..Len(p) -> Word]
  BY <1>6
<1>8. \A k \in 1..Len(p) : s[k] = IF p[k] = "%" THEN "%25" ELSE IF p[k] = "#" THEN "%23" ELSE p[k]
  OBVIOUS
<1> HIDE DEF s
<1>9. s \in Seq(Word) /\ Len(s) = Len(p)
  BY <1>1, <1>7, LenProperties
<1> QED
  BY <1>1, <1>5, <1>8, <1>9

\* The request of a path with the suffix of an operation.
Suffix == {<<>>, <<"/", "move">>, <<"/", "history">>, <<"/", "metadata">>, <<"/", "splice">>,
           <<"/", "append">>, <<"/", "prepend">>, <<"/", "history", "/", "content">>,
           <<"/", "history", "/", "boundary">>}

LEMMA SuffixWords ==
    ASSUME NEW s \in Suffix
    PROVE  s \in Seq(Word) /\ \A k \in 1..Len(s) : s[k] # "%20"
<1>1. CASE s = <<>>
  BY <1>1
<1>2. ASSUME NEW w \in {"move", "history", "metadata", "splice", "append", "prepend"}, s = <<"/", w>>
      PROVE  s \in Seq(Word) /\ \A k \in 1..Len(s) : s[k] # "%20"
  <2>1. "/" \in Word /\ w \in Word /\ w # "%20"
    BY DEF Word
  <2> QED
    BY <1>2, <2>1
<1>3. ASSUME NEW w \in {"content", "boundary"}, s = <<"/", "history", "/", w>>
      PROVE  s \in Seq(Word) /\ \A k \in 1..Len(s) : s[k] # "%20"
  <2>1. "/" \in Word /\ "history" \in Word /\ w \in Word /\ w # "%20"
    BY DEF Word
  <2> QED
    BY <1>3, <2>1
<1> QED
  BY <1>1, <1>2, <1>3 DEF Suffix

LEMMA RequestOfSuffix ==
    ASSUME NEW p, IsName(p), NEW s \in Suffix
    PROVE  RequestPath(EncodeVaultPath(p) \o s) = Seen(p) \o s
<1> DEFINE e == EncodeVaultPath(p)
           u == e \o s
           w == Seen(p)
           v == w \o s
<1>0. e \in Seq(Word) /\ s \in Seq(Word) /\ w \in Seq(Word) /\ Len(e) = Len(w)
  BY EncodedPath, SeenPath, SuffixWords
<1>1. /\ e \in Seq(Word) /\ s \in Seq(Word) /\ w \in Seq(Word) /\ Len(e) = Len(w)
      /\ DOMAIN e = 1..Len(e) /\ Len(e) \in Nat /\ Len(s) \in Nat
  BY <1>0, LenProperties
<1>2. \A k \in 1..Len(e) : w[k] = IF e[k] = "%20" THEN " " ELSE e[k]
  BY <1>1 DEF Seen, RequestPath
<1>3. \A k \in 1..Len(s) : s[k] # "%20"
  BY SuffixWords
<1> HIDE DEF e, w
<1>4. /\ u \in Seq(Word) /\ Len(u) = Len(e) + Len(s) /\ DOMAIN u = 1..Len(u)
      /\ v \in Seq(Word) /\ Len(v) = Len(e) + Len(s) /\ DOMAIN v = 1..Len(u)
  <2>1. u \in Seq(Word) /\ Len(u) = Len(e) + Len(s)
    BY <1>1, ConcatProperties
  <2>2. v \in Seq(Word) /\ Len(v) = Len(w) + Len(s)
    BY <1>1, ConcatProperties
  <2> HIDE DEF u, v
  <2> QED
    BY <1>1, <2>1, <2>2, LenProperties
<1>5. ASSUME NEW k \in 1..Len(u) PROVE (IF u[k] = "%20" THEN " " ELSE u[k]) = v[k]
  <2>1. CASE k <= Len(e)
    <3>1. k \in 1..Len(e) /\ u[k] = e[k] /\ v[k] = w[k]
      BY <1>1, <1>4, <2>1
    <3> QED
      BY <1>2, <3>1
  <2>2. CASE k > Len(e)
    <3>1. k - Len(e) \in 1..Len(s) /\ u[k] = s[k - Len(e)] /\ v[k] = s[k - Len(e)]
      BY <1>1, <1>4, <2>2
    <3> QED
      BY <1>3, <3>1
  <2>3. k <= Len(e) \/ k > Len(e)
    BY <1>1, <1>4
  <2> QED
    BY <2>1, <2>2, <2>3
<1> HIDE DEF u, v
<1>6. RequestPath(u) = [k \in 1..Len(u) |-> IF u[k] = "%20" THEN " " ELSE u[k]]
  BY <1>4 DEF RequestPath
<1>7. RequestPath(u) = [k \in 1..Len(u) |-> v[k]]
  BY <1>5, <1>6
<1>8. RequestPath(u) = v
  BY <1>4, <1>7
<1> QED
  BY <1>8 DEF u, v, e, w

-----------------------------------------------------------------------------
(* Suffixes.                                                               *)

LEMMA EndsWithIts ==
    ASSUME NEW a \in Seq(Word), NEW s \in Seq(Word)
    PROVE  NameEndsWith(a \o s, s)
<1> DEFINE t == a \o s
           n == Len(s)
           m == Len(t)
<1>1. t \in Seq(Word) /\ m = Len(a) + n /\ n \in Nat /\ m \in Nat /\ n <= m
  OBVIOUS
<1>2. /\ Reverse(s) \in Seq(Word) /\ Len(Reverse(s)) = n
      /\ \A k \in 1..n : Reverse(s)[k] = s[n - k + 1]
  BY <1>1 DEF Reverse
<1>3. /\ Reverse(t) \in Seq(Word) /\ Len(Reverse(t)) = m
      /\ \A k \in 1..m : Reverse(t)[k] = t[m - k + 1]
  BY <1>1 DEF Reverse
<1>4. \A k \in 1..n : t[m - k + 1] = s[n - k + 1]
  BY <1>1
<1>5. ASSUME NEW k \in 1..n PROVE Reverse(s)[k] = Reverse(t)[k]
  <2>1. k \in 1..m
    BY <1>1
  <2> QED
    BY <1>2, <1>3, <1>4, <2>1
<1> HIDE DEF t, n, m
<1>6. SubSeq(Reverse(s), 1, n) = SubSeq(Reverse(t), 1, n)
  BY <1>1, <1>2, <1>3, <1>5
<1> QED
  BY <1>1, <1>2, <1>3, <1>6 DEF NameEndsWith, IsSuffix, IsPrefix, t, n, m

\* A text that ends otherwise has another last word.
LEMMA LastWordDecides ==
    ASSUME NEW t \in Seq(Word), NEW s \in Seq(Word), s # <<>>, NameEndsWith(t, s)
    PROVE  t # <<>> /\ t[Len(t)] = s[Len(s)]
<1> DEFINE n == Len(s)
           m == Len(t)
<1>1. n \in Nat /\ m \in Nat /\ n > 0
  OBVIOUS
<1>2. /\ Reverse(s) \in Seq(Word) /\ Len(Reverse(s)) = n
      /\ \A k \in 1..n : Reverse(s)[k] = s[n - k + 1]
  BY <1>1 DEF Reverse
<1>3. /\ Reverse(t) \in Seq(Word) /\ Len(Reverse(t)) = m
      /\ \A k \in 1..m : Reverse(t)[k] = t[m - k + 1]
  BY <1>1 DEF Reverse
<1>4. n <= m /\ SubSeq(Reverse(s), 1, n) = SubSeq(Reverse(t), 1, n)
  BY <1>2, <1>3 DEF NameEndsWith, IsSuffix, IsPrefix
<1>5. Reverse(s)[1] = Reverse(t)[1]
  <2>1. SubSeq(Reverse(s), 1, n)[1] = Reverse(s)[1] /\ SubSeq(Reverse(t), 1, n)[1] = Reverse(t)[1]
    BY <1>1, <1>2, <1>3, <1>4
  <2> QED
    BY <1>4, <2>1
<1>6. 1 \in 1..n /\ 1 \in 1..m /\ n - 1 + 1 = n /\ m - 1 + 1 = m
  BY <1>1, <1>4
<1>7. Reverse(s)[1] = s[n] /\ Reverse(t)[1] = t[m]
  BY <1>2, <1>3, <1>6
<1> QED
  BY <1>1, <1>4, <1>5, <1>7

\* Stripping the suffix of the operation and decoding the rest gives the path back.
LEMMA PathComesBack ==
    ASSUME NEW p, IsName(p), NEW s \in Suffix
    PROVE  FilePathParam(Seen(p) \o s, s) = p
<1>1. /\ Seen(p) \in Seq(Word) /\ s \in Seq(Word) /\ Len(Seen(p)) = Len(p)
      /\ \A k \in 1..Len(p) :
            Seen(p)[k] = IF p[k] = "%" THEN "%25" ELSE IF p[k] = "#" THEN "%23" ELSE p[k]
  BY SeenPath, SuffixWords
<1>2. DecodeURIComponent(Seen(p)) = p
  BY <1>1, DecodedText
<1>3. CASE s = <<>>
  <2>1. Seen(p) \o <<>> = Seen(p)
    BY <1>1
  <2> QED
    BY <1>2, <1>3, <2>1 DEF FilePathParam
<1>4. CASE s # <<>>
  <2>1. NameEndsWith(Seen(p) \o s, s)
    BY <1>1, EndsWithIts
  <2>2. SubSeq(Seen(p) \o s, 1, Len(Seen(p) \o s) - Len(s)) = Seen(p)
    BY <1>1
  <2> QED
    BY <1>2, <1>4, <2>1, <2>2 DEF FilePathParam
<1> QED
  BY <1>3, <1>4

\* The suffix a text ends with is the one that was put there.
LEMMA OnlyItsSuffix ==
    ASSUME NEW p, IsName(p), NEW s \in Suffix, s # <<>>, NEW x \in Suffix, x # <<>>,
           NameEndsWith(Seen(p) \o s, x)
    PROVE  x[Len(x)] = s[Len(s)]
<1>1. Seen(p) \in Seq(Word) /\ s \in Seq(Word) /\ x \in Seq(Word)
  BY SeenPath, SuffixWords
<1>2. (Seen(p) \o s)[Len(Seen(p) \o s)] = s[Len(s)] /\ Seen(p) \o s \in Seq(Word)
  BY <1>1
<1> QED
  BY <1>1, <1>2, LastWordDecides

\* The name of a note ends with none of those that a read looks for.
LEMMA NoteHasNoSuffix ==
    ASSUME NEW p \in NoteNames, NEW x \in {<<"/", "history">>, <<"/", "history", "/", "content">>}
    PROVE  ~NameEndsWith(Seen(p) \o <<>>, x)
<1>1. IsName(p) /\ p # <<>> /\ p[Len(p)] \notin {"history", "content"}
  BY NamesFit, NamesAreWords
<1>2. x \in Suffix /\ <<>> \in Suffix
  BY DEF Suffix
<1>3. /\ Seen(p) \in Seq(Word) /\ x \in Seq(Word) /\ Len(Seen(p)) = Len(p) /\ Len(p) \in Nat
  BY <1>1, <1>2, SeenPath, SuffixWords
<1>s. Seen(p) \o <<>> = Seen(p) /\ x # <<>> /\ x[Len(x)] \in {"history", "content"}
  <2>1. Seen(p) \o <<>> = Seen(p)
    BY <1>3
  <2>2. x # <<>> /\ x[Len(x)] \in {"history", "content"}
    OBVIOUS
  <2> QED
    BY <2>1, <2>2
<1>4. Len(p) \in 1..Len(p)
  BY <1>1, <1>3 DEF IsName
<1>5. Seen(p)[Len(p)] \notin {"history", "content"}
  BY <1>1, <1>4, SeenPath
<1> QED
  BY <1>3, <1>s, <1>5, LastWordDecides

-----------------------------------------------------------------------------
(* Routes.                                                                 *)

Intended(i) == Call(i.op, i.path, i.to, i.flags)

\* The answer of a route is the call that was meant, under the actor of the request
\* where it needs one, or says what is wrong with the actor or the body.
WebAnswer(i, h) ==
    \/ /\ ActorFromRequest(header) # "invalid_actor"
       /\ h = InterfaceCalls(Intended(i), ActorFromRequest(header))
    \/ i.op \notin Attributed /\ h = InterfaceCalls(Intended(i), "none")
    \/ ActorFromRequest(header) = "invalid_actor" /\ h = CallFails("invalid_actor")
    \/ body # "whole" /\ h = CallFails("invalid_request")

LEMMA RouteAnswers ==
    ASSUME NEW i
    PROVE  /\ WebAnswer(i, MutationRequest(Intended(i)))
           /\ WebAnswer(i, JsonMutationRequest(Intended(i)))
           /\ i.op \notin Attributed => WebAnswer(i, Reads(Intended(i)))
           /\ i.op \notin Attributed => WebAnswer(i, JsonRequest(Intended(i)))
  BY DEF WebAnswer, MutationRequest, JsonMutationRequest, Reads, JsonRequest

LEMMA CallFields ==
    ASSUME NEW m, NEW a, NEW u, NEW fl, NEW j
    PROVE  /\ HttpCall(m, a, u, fl, j).method = m /\ HttpCall(m, a, u, fl, j).area = a
           /\ HttpCall(m, a, u, fl, j).url = u /\ HttpCall(m, a, u, fl, j).flags = fl
           /\ HttpCall(m, a, u, fl, j).json = j
  BY DEF HttpCall

\* Notes: what stands behind the path decides which operation it is.
LEMMA NotePosts ==
    ASSUME NEW p, IsName(p), NEW r
    PROVE  /\ PostFiles(r, Seen(p) \o <<"/", "history", "/", "boundary">>)
                = Reads(Call("createNoteHistoryBoundary", p, Nowhere, {}))
           /\ PostFiles(r, Seen(p) \o <<"/", "splice">>)
                = JsonMutationRequest(Call("editNote", p, Nowhere, {}))
           /\ PostFiles(r, Seen(p) \o <<"/", "append">>)
                = JsonMutationRequest(Call("appendNote", p, Nowhere, {}))
           /\ PostFiles(r, Seen(p) \o <<"/", "prepend">>)
                = JsonMutationRequest(Call("prependNote", p, Nowhere, {}))
           /\ PostFiles(r, Seen(p) \o <<"/", "move">>)
                = JsonMutationRequest(Call("moveNote", p, r.json.value, {}))
<1> DEFINE boundary == <<"/", "history", "/", "boundary">>
           X == {boundary, <<"/", "splice">>, <<"/", "append">>, <<"/", "prepend">>, <<"/", "move">>}
<1>1. \A s \in X : s \in Suffix /\ s # <<>>
  BY DEF Suffix
<1>2. \A s, x \in X : s # x => s[Len(s)] # x[Len(x)]
  BY SMTT(30)
<1>3. \A s, x \in X : NameEndsWith(Seen(p) \o s, x) <=> s = x
  <2>1. ASSUME NEW s \in X PROVE NameEndsWith(Seen(p) \o s, s)
    <3>1. Seen(p) \in Seq(Word) /\ s \in Seq(Word)
      BY <1>1, SeenPath, SuffixWords
    <3> QED
      BY <3>1, EndsWithIts
  <2>2. ASSUME NEW s \in X, NEW x \in X, NameEndsWith(Seen(p) \o s, x) PROVE s = x
    <3> HIDE DEF X
    <3>1. x[Len(x)] = s[Len(s)]
      BY <1>1, <2>2, OnlyItsSuffix
    <3> QED
      BY <1>2, <3>1
  <2> QED
    BY <2>1, <2>2
<1>4. \A s \in X : FilePathParam(Seen(p) \o s, s) = p
  BY <1>1, PathComesBack
<1>5. /\ boundary # <<"/", "splice">> /\ boundary # <<"/", "append">> /\ boundary # <<"/", "prepend">>
      /\ boundary # <<"/", "move">> /\ <<"/", "splice">> # <<"/", "append">>
      /\ <<"/", "splice">> # <<"/", "prepend">> /\ <<"/", "splice">> # <<"/", "move">>
      /\ <<"/", "append">> # <<"/", "prepend">> /\ <<"/", "append">> # <<"/", "move">>
      /\ <<"/", "prepend">> # <<"/", "move">>
  OBVIOUS
<1>6. \A s \in X : PostFiles(r, Seen(p) \o s) =
        IF s = boundary THEN Reads(Call("createNoteHistoryBoundary", p, Nowhere, {}))
        ELSE IF s = <<"/", "splice">> THEN JsonMutationRequest(Call("editNote", p, Nowhere, {}))
        ELSE IF s = <<"/", "append">> THEN JsonMutationRequest(Call("appendNote", p, Nowhere, {}))
        ELSE IF s = <<"/", "prepend">> THEN JsonMutationRequest(Call("prependNote", p, Nowhere, {}))
        ELSE JsonMutationRequest(Call("moveNote", p, r.json.value, {}))
  <2> SUFFICES ASSUME NEW s \in X
               PROVE  PostFiles(r, Seen(p) \o s) =
        IF s = boundary THEN Reads(Call("createNoteHistoryBoundary", p, Nowhere, {}))
        ELSE IF s = <<"/", "splice">> THEN JsonMutationRequest(Call("editNote", p, Nowhere, {}))
        ELSE IF s = <<"/", "append">> THEN JsonMutationRequest(Call("appendNote", p, Nowhere, {}))
        ELSE IF s = <<"/", "prepend">> THEN JsonMutationRequest(Call("prependNote", p, Nowhere, {}))
        ELSE JsonMutationRequest(Call("moveNote", p, r.json.value, {}))
    OBVIOUS
  <2> DEFINE text == Seen(p) \o s
  <2>1. /\ NameEndsWith(text, boundary) <=> s = boundary
        /\ NameEndsWith(text, <<"/", "splice">>) <=> s = <<"/", "splice">>
        /\ NameEndsWith(text, <<"/", "append">>) <=> s = <<"/", "append">>
        /\ NameEndsWith(text, <<"/", "prepend">>) <=> s = <<"/", "prepend">>
        /\ NameEndsWith(text, <<"/", "move">>) <=> s = <<"/", "move">>
    BY <1>3
  <2>2. FilePathParam(text, s) = p
    BY <1>4
  <2>3. CASE s = boundary
    BY <1>5, <2>1, <2>2, <2>3 DEF PostFiles
  <2>4. CASE s = <<"/", "splice">>
    BY <1>5, <2>1, <2>2, <2>4 DEF PostFiles, PostSplice
  <2>5. CASE s = <<"/", "append">>
    BY <1>5, <2>1, <2>2, <2>5 DEF PostFiles, PostAppend
  <2>6. CASE s = <<"/", "prepend">>
    BY <1>5, <2>1, <2>2, <2>6 DEF PostFiles, PostPrepend
  <2>7. CASE s = <<"/", "move">>
    BY <1>5, <2>1, <2>2, <2>7 DEF PostFiles, PostMove
  <2> QED
    BY <2>3, <2>4, <2>5, <2>6, <2>7
<1> QED
  BY <1>5, <1>6

LEMMA NoteGets ==
    ASSUME NEW p, IsName(p), NEW r
    PROVE  /\ "id" \in r.flags => GetFiles(r, Seen(p) \o <<"/", "history", "/", "content">>)
                = Reads(Call("readNoteHistoryVersion", p, Nowhere, {}))
           /\ GetFiles(r, Seen(p) \o <<"/", "history">>)
                = Reads(Call("listNoteHistory", p, Nowhere, {}))
           /\ p \in NoteNames => GetFiles(r, Seen(p) \o <<>>) = Reads(Call("readNote", p, Nowhere, {}))
<1> DEFINE content == <<"/", "history", "/", "content">>
           history == <<"/", "history">>
<1>1. content \in Suffix /\ history \in Suffix /\ <<>> \in Suffix /\ content # <<>> /\ history # <<>>
  BY DEF Suffix
<1>2. content[Len(content)] = "content" /\ history[Len(history)] = "history"
  OBVIOUS
<1>3. Seen(p) \in Seq(Word) /\ content \in Seq(Word) /\ history \in Seq(Word)
  BY <1>1, SeenPath, SuffixWords
<1>4. NameEndsWith(Seen(p) \o content, content) /\ NameEndsWith(Seen(p) \o history, history)
  BY <1>3, EndsWithIts
<1>5. ~NameEndsWith(Seen(p) \o history, content)
  <2>1. NameEndsWith(Seen(p) \o history, content) => content[Len(content)] = history[Len(history)]
    BY <1>1, OnlyItsSuffix
  <2> QED
    BY <1>2, <2>1
<1>6. /\ FilePathParam(Seen(p) \o content, content) = p /\ FilePathParam(Seen(p) \o history, history) = p
      /\ FilePathParam(Seen(p) \o <<>>, <<>>) = p
  BY <1>1, PathComesBack
<1>7. p \in NoteNames => ~NameEndsWith(Seen(p) \o <<>>, content) /\ ~NameEndsWith(Seen(p) \o <<>>, history)
  BY NoteHasNoSuffix
<1> QED
  BY <1>4, <1>5, <1>6, <1>7 DEF GetFiles

\* The other routes of files, attachments and folders.
LEMMA PathRoutes ==
    ASSUME NEW p, IsName(p), NEW r
    PROVE  /\ PutFiles(r, Seen(p) \o <<>>)
                = MutationRequest(Call("createNote", p, Nowhere, r.flags \cap {"overwrite"}))
           /\ DeleteFiles(r, Seen(p) \o <<>>)
                = MutationRequest(Call("deleteNote", p, Nowhere, r.flags \cap {"permanent"}))
           /\ PutRaw(r, Seen(p) \o <<>>)
                = MutationRequest(Call("writeRawFile", p, Nowhere, r.flags \cap {"overwrite"}))
           /\ GetRaw(Seen(p) \o <<>>) = Reads(Call("readRawFile", p, Nowhere, {}))
           /\ GetFolders(Seen(p) \o <<"/", "metadata">>)
                = Reads(Call("getFolderMetadata", p, Nowhere, {}))
           /\ PutFolders(Seen(p) \o <<"/", "metadata">>)
                = JsonMutationRequest(Call("setFolderMetadata", p, Nowhere, {}))
           /\ DeleteFolders(r, Seen(p) \o <<>>)
                = MutationRequest(Call("deleteFolder", p, Nowhere, r.flags \cap {"recursive", "permanent"}))
           /\ PostFoldersMove(r, Seen(p) \o <<"/", "move">>)
                = JsonMutationRequest(Call("moveFolder", p, r.json.value, {}))
           /\ Seen(p) \o <<"/", "move">> # <<>>
<1> DEFINE metadata == <<"/", "metadata">>
           move == <<"/", "move">>
<1>1. metadata \in Suffix /\ move \in Suffix /\ <<>> \in Suffix
  BY DEF Suffix
<1>2. Seen(p) \in Seq(Word) /\ metadata \in Seq(Word) /\ move \in Seq(Word)
  BY <1>1, SeenPath, SuffixWords
<1>3. NameEndsWith(Seen(p) \o metadata, metadata) /\ NameEndsWith(Seen(p) \o move, move)
  BY <1>2, EndsWithIts
<1>4. /\ FilePathParam(Seen(p) \o metadata, metadata) = p /\ FilePathParam(Seen(p) \o move, move) = p
      /\ FilePathParam(Seen(p) \o <<>>, <<>>) = p
  BY <1>1, PathComesBack
<1>5. Seen(p) \o move # <<>>
  BY <1>2
<1> QED
  BY <1>3, <1>4, <1>5 DEF PutFiles, DeleteFiles, PutRaw, GetRaw, GetFolders, PutFolders, DeleteFolders,
                          PostFoldersMove

\* The text of a request.
LEMMA RequestText ==
    ASSUME NEW p \in NoteNames \cup FolderNames
    PROVE  /\ RequestPath(EncodeVaultPath(p)) = Seen(p) \o <<>>
           /\ \A s \in Suffix : RequestPath(EncodeVaultPath(p) \o s) = Seen(p) \o s
<1>1. IsName(p)
  BY NamesFit
<1>2. Seen(p) \in Seq(Word)
  BY <1>1, SeenPath
<1>3. Seen(p) \o <<>> = Seen(p)
  BY <1>2
<1> QED
  BY <1>1, <1>3, RequestOfSuffix DEF Seen

\* The route a request takes.
LEMMA RouteOf ==
    ASSUME NEW r
    PROVE  /\ r.area = "files" /\ r.method = "GET" => Route(r) = GetFiles(r, RequestPath(r.url))
           /\ r.area = "files" /\ r.method = "PUT" => Route(r) = PutFiles(r, RequestPath(r.url))
           /\ r.area = "files" /\ r.method = "DELETE" => Route(r) = DeleteFiles(r, RequestPath(r.url))
           /\ r.area = "files" /\ r.method = "POST" => Route(r) = PostFiles(r, RequestPath(r.url))
           /\ r.area = "raw" /\ r.method = "PUT" => Route(r) = PutRaw(r, RequestPath(r.url))
           /\ r.area = "raw" /\ r.method = "GET" => Route(r) = GetRaw(RequestPath(r.url))
           /\ r.area = "folders" /\ r.method = "GET" => Route(r) = GetFolders(RequestPath(r.url))
           /\ r.area = "folders" /\ r.method = "PUT" => Route(r) = PutFolders(RequestPath(r.url))
           /\ r.area = "folders" /\ r.method = "DELETE" => Route(r) = DeleteFolders(r, RequestPath(r.url))
           /\ r.area = "folders" /\ r.method = "POST" /\ RequestPath(r.url) # <<>> =>
                 Route(r) = PostFoldersMove(r, RequestPath(r.url))
<1> DEFINE text == RequestPath(r.url)
           a == r.area
           m == r.method
<1>1. a = "files" /\ m = "GET" => Route(r) = GetFiles(r, text)
  BY DEF Route
<1>2. a = "files" /\ m = "PUT" => Route(r) = PutFiles(r, text)
  BY DEF Route
<1>3. a = "files" /\ m = "DELETE" => Route(r) = DeleteFiles(r, text)
  BY DEF Route
<1>4. a = "files" /\ m = "POST" => Route(r) = PostFiles(r, text)
  BY DEF Route
<1>5. a = "raw" /\ m = "PUT" => Route(r) = PutRaw(r, text)
  BY DEF Route
<1>6. a = "raw" /\ m = "GET" => Route(r) = GetRaw(text)
  BY DEF Route
<1>7. a = "folders" /\ m = "GET" => Route(r) = GetFolders(text)
  BY DEF Route
<1>8. a = "folders" /\ m = "PUT" => Route(r) = PutFolders(text)
  BY DEF Route
<1>9. a = "folders" /\ m = "DELETE" => Route(r) = DeleteFolders(r, text)
  BY DEF Route
<1>10. a = "folders" /\ m = "POST" /\ text # <<>> => Route(r) = PostFoldersMove(r, text)
  BY DEF Route
<1> QED
  BY <1>1, <1>2, <1>3, <1>4, <1>5, <1>6, <1>7, <1>8, <1>9, <1>10

\* Requests about notes and attachments.
LEMMA NoteRequests ==
    ASSUME NEW i \in Intents,
           i.op \in {"createNote", "writeRawFile", "deleteNote", "readRawFile", "readNote",
                    "listNoteHistory", "readNoteHistoryVersion", "createNoteHistoryBoundary",
                    "editNote", "appendNote", "prependNote", "moveNote"}
    PROVE  WebAnswer(i, Route(WebRequest(i)))
<1> DEFINE text == RequestPath(WebRequest(i).url)
           r == WebRequest(i)
<1>0. i.path \in NoteNames
  BY DEF Intents
<1>1. IsName(i.path) /\ i.path \in NoteNames \cup FolderNames
  BY <1>0, NamesFit
<1>2. CASE i.op = "createNote"
  <2>1. r = HttpCall("PUT", "files", EncodeVaultPath(i.path), i.flags, NoBody)
    BY <1>2 DEF WebRequest, WebCreateNote
  <2>2. text = Seen(i.path) \o <<>>
    BY <1>1, <2>1, RequestText, CallFields DEF Suffix
  <2>a. r.area = "files" /\ r.method = "PUT"
    BY <2>1, CallFields
  <2>3. Route(r) = PutFiles(r, text)
    BY <2>a, RouteOf
  <2>4. Intended(i) = Call("createNote", i.path, Nowhere, i.flags)
    BY <1>2 DEF Intents, Intended
  <2>5. r.flags \cap {"overwrite"} = i.flags
    BY <1>2, <2>1, CallFields DEF Intents
  <2>6. PutFiles(r, Seen(i.path) \o <<>>)
          = MutationRequest(Call("createNote", i.path, Nowhere, r.flags \cap {"overwrite"}))
    BY <1>1, PathRoutes
  <2>7. Route(r) = MutationRequest(Intended(i))
    BY <2>2, <2>3, <2>4, <2>5, <2>6
  <2> QED
    BY <1>2, <2>7, RouteAnswers DEF Attributed
<1>3. CASE i.op = "writeRawFile"
  <2>1. r = HttpCall("PUT", "raw", EncodeVaultPath(i.path), i.flags, NoBody)
    BY <1>3 DEF WebRequest, WebWriteRawFile
  <2>2. text = Seen(i.path) \o <<>>
    BY <1>1, <2>1, RequestText, CallFields DEF Suffix
  <2>a. r.area = "raw" /\ r.method = "PUT"
    BY <2>1, CallFields
  <2>3. Route(r) = PutRaw(r, text)
    BY <2>a, RouteOf
  <2>4. Intended(i) = Call("writeRawFile", i.path, Nowhere, i.flags)
    BY <1>3 DEF Intents, Intended
  <2>5. r.flags \cap {"overwrite"} = i.flags
    BY <1>3, <2>1, CallFields DEF Intents
  <2>6. PutRaw(r, Seen(i.path) \o <<>>)
          = MutationRequest(Call("writeRawFile", i.path, Nowhere, r.flags \cap {"overwrite"}))
    BY <1>1, PathRoutes
  <2>7. Route(r) = MutationRequest(Intended(i))
    BY <2>2, <2>3, <2>4, <2>5, <2>6
  <2> QED
    BY <1>3, <2>7, RouteAnswers DEF Attributed
<1>4. CASE i.op = "deleteNote"
  <2>1. r = HttpCall("DELETE", "files", EncodeVaultPath(i.path), i.flags, NoBody)
    BY <1>4 DEF WebRequest, WebDeleteNote
  <2>2. text = Seen(i.path) \o <<>>
    BY <1>1, <2>1, RequestText, CallFields DEF Suffix
  <2>a. r.area = "files" /\ r.method = "DELETE"
    BY <2>1, CallFields
  <2>3. Route(r) = DeleteFiles(r, text)
    BY <2>a, RouteOf
  <2>4. Intended(i) = Call("deleteNote", i.path, Nowhere, i.flags)
    BY <1>4 DEF Intents, Intended
  <2>5. r.flags \cap {"permanent"} = i.flags
    BY <1>4, <2>1, CallFields DEF Intents
  <2>6. DeleteFiles(r, Seen(i.path) \o <<>>)
          = MutationRequest(Call("deleteNote", i.path, Nowhere, r.flags \cap {"permanent"}))
    BY <1>1, PathRoutes
  <2>7. Route(r) = MutationRequest(Intended(i))
    BY <2>2, <2>3, <2>4, <2>5, <2>6
  <2> QED
    BY <1>4, <2>7, RouteAnswers DEF Attributed
<1>5. CASE i.op = "readRawFile"
  <2>1. r = HttpCall("GET", "raw", EncodeVaultPath(i.path), {}, NoBody)
    BY <1>5 DEF WebRequest, WebRawSrc
  <2>2. text = Seen(i.path) \o <<>>
    BY <1>1, <2>1, RequestText, CallFields DEF Suffix
  <2>a. r.area = "raw" /\ r.method = "GET"
    BY <2>1, CallFields
  <2>3. Route(r) = GetRaw(text)
    BY <2>a, RouteOf
  <2>4. Intended(i) = Call("readRawFile", i.path, Nowhere, {})
    BY <1>5 DEF Intents, Intended
  <2>6. GetRaw(Seen(i.path) \o <<>>) = Reads(Call("readRawFile", i.path, Nowhere, {}))
    BY <1>0, <1>1, PathRoutes
  <2>7. Route(r) = Reads(Intended(i))
    BY <2>2, <2>3, <2>4, <2>6
  <2> QED
    BY <1>5, <2>7, RouteAnswers DEF Attributed
<1>6. CASE i.op = "readNote"
  <2>1. r = HttpCall("GET", "files", EncodeVaultPath(i.path), {}, NoBody)
    BY <1>6 DEF WebRequest, OtherRequest
  <2>2. text = Seen(i.path) \o <<>>
    BY <1>1, <2>1, RequestText, CallFields DEF Suffix
  <2>a. r.area = "files" /\ r.method = "GET"
    BY <2>1, CallFields
  <2>3. Route(r) = GetFiles(r, text)
    BY <2>a, RouteOf
  <2>4. Intended(i) = Call("readNote", i.path, Nowhere, {})
    BY <1>6 DEF Intents, Intended
  <2>6. GetFiles(r, Seen(i.path) \o <<>>) = Reads(Call("readNote", i.path, Nowhere, {}))
    BY <1>0, <1>1, NoteGets
  <2>7. Route(r) = Reads(Intended(i))
    BY <2>2, <2>3, <2>4, <2>6
  <2> QED
    BY <1>6, <2>7, RouteAnswers DEF Attributed
<1>7. CASE i.op = "listNoteHistory"
  <2>1. r = HttpCall("GET", "files", EncodeVaultPath(i.path) \o <<"/", "history">>, {}, NoBody)
    BY <1>7 DEF WebRequest, WebListNoteHistory
  <2>2. text = Seen(i.path) \o <<"/", "history">>
    BY <1>1, <2>1, RequestText, CallFields DEF Suffix
  <2>a. r.area = "files" /\ r.method = "GET"
    BY <2>1, CallFields
  <2>3. Route(r) = GetFiles(r, text)
    BY <2>a, RouteOf
  <2>4. Intended(i) = Call("listNoteHistory", i.path, Nowhere, {})
    BY <1>7 DEF Intents, Intended
  <2>6. GetFiles(r, Seen(i.path) \o <<"/", "history">>)
          = Reads(Call("listNoteHistory", i.path, Nowhere, {}))
    BY <1>0, <1>1, NoteGets
  <2>7. Route(r) = Reads(Intended(i))
    BY <2>2, <2>3, <2>4, <2>6
  <2> QED
    BY <1>7, <2>7, RouteAnswers DEF Attributed
<1>8. CASE i.op = "readNoteHistoryVersion"
  <2>1. r = HttpCall("GET", "files", EncodeVaultPath(i.path) \o <<"/", "history", "/", "content">>,
                       {"id"}, NoBody)
    BY <1>8 DEF WebRequest, OtherRequest
  <2>2. text = Seen(i.path) \o <<"/", "history", "/", "content">>
    BY <1>1, <2>1, RequestText, CallFields DEF Suffix
  <2>a. r.area = "files" /\ r.method = "GET"
    BY <2>1, CallFields
  <2>3. Route(r) = GetFiles(r, text)
    BY <2>a, RouteOf
  <2>4. Intended(i) = Call("readNoteHistoryVersion", i.path, Nowhere, {})
    BY <1>8 DEF Intents, Intended
  <2>5. "id" \in r.flags
    BY <2>1, CallFields
  <2>6. GetFiles(r, Seen(i.path) \o <<"/", "history", "/", "content">>)
          = Reads(Call("readNoteHistoryVersion", i.path, Nowhere, {}))
    BY <1>0, <1>1, <2>5, NoteGets
  <2>7. Route(r) = Reads(Intended(i))
    BY <2>2, <2>3, <2>4, <2>6
  <2> QED
    BY <1>8, <2>7, RouteAnswers DEF Attributed
<1>9. CASE i.op = "createNoteHistoryBoundary"
  <2>1. r = HttpCall("POST", "files", EncodeVaultPath(i.path) \o <<"/", "history", "/", "boundary">>,
                       {}, NoBody)
    BY <1>9 DEF WebRequest, OtherRequest
  <2>2. text = Seen(i.path) \o <<"/", "history", "/", "boundary">>
    BY <1>1, <2>1, RequestText, CallFields DEF Suffix
  <2>a. r.area = "files" /\ r.method = "POST"
    BY <2>1, CallFields
  <2>3. Route(r) = PostFiles(r, text)
    BY <2>a, RouteOf
  <2>4. Intended(i) = Call("createNoteHistoryBoundary", i.path, Nowhere, {})
    BY <1>9 DEF Intents, Intended
  <2>6. PostFiles(r, Seen(i.path) \o <<"/", "history", "/", "boundary">>)
          = Reads(Call("createNoteHistoryBoundary", i.path, Nowhere, {}))
    BY <1>0, <1>1, NotePosts
  <2>7. Route(r) = Reads(Intended(i))
    BY <2>2, <2>3, <2>4, <2>6
  <2> QED
    BY <1>9, <2>7, RouteAnswers DEF Attributed
<1>10. CASE i.op = "editNote"
  <2>1. r = HttpCall("POST", "files", EncodeVaultPath(i.path) \o <<"/", "splice">>,
                     {}, Body("splice", Nowhere))
    BY <1>10 DEF WebRequest, OtherRequest
  <2>2. text = Seen(i.path) \o <<"/", "splice">>
    BY <1>1, <2>1, RequestText, CallFields DEF Suffix
  <2>a. r.area = "files" /\ r.method = "POST"
    BY <2>1, CallFields
  <2>3. Route(r) = PostFiles(r, text)
    BY <2>a, RouteOf
  <2>4. Intended(i) = Call("editNote", i.path, Nowhere, {})
    BY <1>10 DEF Intents, Intended
  <2>6. PostFiles(r, Seen(i.path) \o <<"/", "splice">>)
          = JsonMutationRequest(Call("editNote", i.path, Nowhere, {}))
    BY <1>0, <1>1, NotePosts
  <2>7. Route(r) = JsonMutationRequest(Intended(i))
    BY <2>2, <2>3, <2>4, <2>6
  <2> QED
    BY <1>10, <2>7, RouteAnswers DEF Attributed
<1>11. CASE i.op = "appendNote"
  <2>1. r = HttpCall("POST", "files", EncodeVaultPath(i.path) \o <<"/", "append">>,
                     {}, Body("content", Nowhere))
    BY <1>11 DEF WebRequest, OtherRequest
  <2>2. text = Seen(i.path) \o <<"/", "append">>
    BY <1>1, <2>1, RequestText, CallFields DEF Suffix
  <2>a. r.area = "files" /\ r.method = "POST"
    BY <2>1, CallFields
  <2>3. Route(r) = PostFiles(r, text)
    BY <2>a, RouteOf
  <2>4. Intended(i) = Call("appendNote", i.path, Nowhere, {})
    BY <1>11 DEF Intents, Intended
  <2>6. PostFiles(r, Seen(i.path) \o <<"/", "append">>)
          = JsonMutationRequest(Call("appendNote", i.path, Nowhere, {}))
    BY <1>0, <1>1, NotePosts
  <2>7. Route(r) = JsonMutationRequest(Intended(i))
    BY <2>2, <2>3, <2>4, <2>6
  <2> QED
    BY <1>11, <2>7, RouteAnswers DEF Attributed
<1>12. CASE i.op = "prependNote"
  <2>1. r = HttpCall("POST", "files", EncodeVaultPath(i.path) \o <<"/", "prepend">>,
                     {}, Body("content", Nowhere))
    BY <1>12 DEF WebRequest, OtherRequest
  <2>2. text = Seen(i.path) \o <<"/", "prepend">>
    BY <1>1, <2>1, RequestText, CallFields DEF Suffix
  <2>a. r.area = "files" /\ r.method = "POST"
    BY <2>1, CallFields
  <2>3. Route(r) = PostFiles(r, text)
    BY <2>a, RouteOf
  <2>4. Intended(i) = Call("prependNote", i.path, Nowhere, {})
    BY <1>12 DEF Intents, Intended
  <2>6. PostFiles(r, Seen(i.path) \o <<"/", "prepend">>)
          = JsonMutationRequest(Call("prependNote", i.path, Nowhere, {}))
    BY <1>0, <1>1, NotePosts
  <2>7. Route(r) = JsonMutationRequest(Intended(i))
    BY <2>2, <2>3, <2>4, <2>6
  <2> QED
    BY <1>12, <2>7, RouteAnswers DEF Attributed
<1>13. CASE i.op = "moveNote"
  <2>1. r = HttpCall("POST", "files", EncodeVaultPath(i.path) \o <<"/", "move">>,
                     {}, Body("to", i.to))
    BY <1>13 DEF WebRequest, WebMoveNote
  <2>2. text = Seen(i.path) \o <<"/", "move">>
    BY <1>1, <2>1, RequestText, CallFields DEF Suffix
  <2>a. r.area = "files" /\ r.method = "POST"
    BY <2>1, CallFields
  <2>3. Route(r) = PostFiles(r, text)
    BY <2>a, RouteOf
  <2>4. Intended(i) = Call("moveNote", i.path, i.to, {})
    BY <1>13 DEF Intents, Intended
  <2>5. r.json.value = i.to
    BY <2>1, CallFields DEF Body
  <2>6. PostFiles(r, Seen(i.path) \o <<"/", "move">>)
          = JsonMutationRequest(Call("moveNote", i.path, i.to, {}))
    BY <1>0, <1>1, <2>5, NotePosts
  <2>7. Route(r) = JsonMutationRequest(Intended(i))
    BY <2>2, <2>3, <2>4, <2>6
  <2> QED
    BY <1>13, <2>7, RouteAnswers DEF Attributed
<1> QED
  BY <1>2, <1>3, <1>4, <1>5, <1>6, <1>7, <1>8, <1>9, <1>10, <1>11, <1>12, <1>13

\* Requests about folders.
LEMMA FolderRequests ==
    ASSUME NEW i \in Intents,
           i.op \in {"getFolderMetadata", "setFolderMetadata", "deleteFolder", "moveFolder"}
    PROVE  WebAnswer(i, Route(WebRequest(i)))
<1> DEFINE text == RequestPath(WebRequest(i).url)
           r == WebRequest(i)
<1>0. i.path \in FolderNames
  BY DEF Intents
<1>1. IsName(i.path) /\ i.path \in NoteNames \cup FolderNames
  BY <1>0, NamesFit
<1>2. CASE i.op = "getFolderMetadata"
  <2>1. r = HttpCall("GET", "folders", EncodeVaultPath(i.path) \o <<"/", "metadata">>, {}, NoBody)
    BY <1>2 DEF WebRequest, OtherRequest
  <2>2. text = Seen(i.path) \o <<"/", "metadata">>
    BY <1>1, <2>1, RequestText, CallFields DEF Suffix
  <2>a. r.area = "folders" /\ r.method = "GET"
    BY <2>1, CallFields
  <2>3. Route(r) = GetFolders(text)
    BY <2>a, RouteOf
  <2>4. Intended(i) = Call("getFolderMetadata", i.path, Nowhere, {})
    BY <1>2 DEF Intents, Intended
  <2>6. GetFolders(Seen(i.path) \o <<"/", "metadata">>)
          = Reads(Call("getFolderMetadata", i.path, Nowhere, {}))
    BY <1>0, <1>1, PathRoutes
  <2>7. Route(r) = Reads(Intended(i))
    BY <2>2, <2>3, <2>4, <2>6
  <2> QED
    BY <1>2, <2>7, RouteAnswers DEF Attributed
<1>3. CASE i.op = "setFolderMetadata"
  <2>1. r = HttpCall("PUT", "folders", EncodeVaultPath(i.path) \o <<"/", "metadata">>, {},
                       Body("color", Nowhere))
    BY <1>3 DEF WebRequest, WebSetFolderMetadata
  <2>2. text = Seen(i.path) \o <<"/", "metadata">>
    BY <1>1, <2>1, RequestText, CallFields DEF Suffix
  <2>a. r.area = "folders" /\ r.method = "PUT"
    BY <2>1, CallFields
  <2>3. Route(r) = PutFolders(text)
    BY <2>a, RouteOf
  <2>4. Intended(i) = Call("setFolderMetadata", i.path, Nowhere, {})
    BY <1>3 DEF Intents, Intended
  <2>6. PutFolders(Seen(i.path) \o <<"/", "metadata">>)
          = JsonMutationRequest(Call("setFolderMetadata", i.path, Nowhere, {}))
    BY <1>0, <1>1, PathRoutes
  <2>7. Route(r) = JsonMutationRequest(Intended(i))
    BY <2>2, <2>3, <2>4, <2>6
  <2> QED
    BY <1>3, <2>7, RouteAnswers DEF Attributed
<1>4. CASE i.op = "deleteFolder"
  <2>1. r = HttpCall("DELETE", "folders", EncodeVaultPath(i.path), i.flags, NoBody)
    BY <1>4 DEF WebRequest, WebDeleteFolder
  <2>2. text = Seen(i.path) \o <<>>
    BY <1>1, <2>1, RequestText, CallFields DEF Suffix
  <2>a. r.area = "folders" /\ r.method = "DELETE"
    BY <2>1, CallFields
  <2>3. Route(r) = DeleteFolders(r, text)
    BY <2>a, RouteOf
  <2>4. Intended(i) = Call("deleteFolder", i.path, Nowhere, i.flags)
    BY <1>4 DEF Intents, Intended
  <2>5. r.flags \cap {"recursive", "permanent"} = i.flags
    BY <1>4, <2>1, CallFields DEF Intents
  <2>6. DeleteFolders(r, Seen(i.path) \o <<>>)
          = MutationRequest(Call("deleteFolder", i.path, Nowhere, r.flags \cap {"recursive", "permanent"}))
    BY <1>1, PathRoutes
  <2>7. Route(r) = MutationRequest(Intended(i))
    BY <2>2, <2>3, <2>4, <2>5, <2>6
  <2> QED
    BY <1>4, <2>7, RouteAnswers DEF Attributed
<1>5. CASE i.op = "moveFolder"
  <2>1. r = HttpCall("POST", "folders", EncodeVaultPath(i.path) \o <<"/", "move">>,
                     {}, Body("to", i.to))
    BY <1>5 DEF WebRequest, WebMoveFolder
  <2>2. text = Seen(i.path) \o <<"/", "move">>
    BY <1>1, <2>1, RequestText, CallFields DEF Suffix
  <2>t. text # <<>>
    BY <1>1, <2>2, PathRoutes
  <2>a. r.area = "folders" /\ r.method = "POST"
    BY <2>1, CallFields
  <2>3. Route(r) = PostFoldersMove(r, text)
    BY <2>a, <2>t, RouteOf
  <2>4. Intended(i) = Call("moveFolder", i.path, i.to, {})
    BY <1>5 DEF Intents, Intended
  <2>5. r.json.value = i.to
    BY <2>1, CallFields DEF Body
  <2>6. PostFoldersMove(r, Seen(i.path) \o <<"/", "move">>)
          = JsonMutationRequest(Call("moveFolder", i.path, i.to, {}))
    BY <1>0, <1>1, <2>5, PathRoutes
  <2>7. Route(r) = JsonMutationRequest(Intended(i))
    BY <2>2, <2>3, <2>4, <2>6
  <2> QED
    BY <1>5, <2>7, RouteAnswers DEF Attributed
<1> QED
  BY <1>2, <1>3, <1>4, <1>5

LEMMA NewVaultRequest ==
    ASSUME NEW i
    PROVE  WebCreateVault(i).area = "vaults" /\ WebCreateVault(i).method = "POST"
  BY DEF WebCreateVault, HttpCall

\* Requests without a path in their URL.
LEMMA VaultRequests ==
    ASSUME NEW i \in Intents,
           i.op \in {"createFolder", "listFiles", "vaultInfo", "search", "flushDirtySessions",
                                       "listVaults", "createVault", "renameVault", "deleteVault",
                                       "setVaultMetadata"}
    PROVE  WebAnswer(i, Route(WebRequest(i)))
<1> DEFINE r == WebRequest(i)
<1>t. RequestPath(<<>>) = <<>> /\ Len(RequestPath(<<"v">>)) = 1 /\ Len(RequestPath(<<"v", "/", "metadata">>)) = 3
  BY DEF RequestPath
<1>1. CASE i.op = "createFolder"
  <2>1. r = HttpCall("POST", "folders", <<>>, {}, Body("path", i.path))
    BY <1>1 DEF WebRequest, WebCreateFolder
  <2>2. Intended(i) = Call("createFolder", i.path, Nowhere, {})
    BY <1>1 DEF Intents, Intended
  <2>3. Route(r) = PostFolders(r)
    BY <1>t, <2>1, CallFields DEF Route
  <2>4. Route(r) = JsonMutationRequest(Intended(i))
    BY <2>1, <2>2, <2>3, CallFields DEF PostFolders, Body
  <2> QED
    BY <1>1, <2>4, RouteAnswers DEF Attributed
<1>2. CASE i.op = "listFiles"
  <2>1. r = HttpCall("GET", "tree", <<>>, {}, NoBody)
    BY <1>2 DEF WebRequest, WebTree
  <2>2. Intended(i) = Call("listFiles", Nowhere, Nowhere, {})
    BY <1>2 DEF Intents, Intended
  <2>3. Route(r) = Reads(Call("listFiles", Nowhere, Nowhere, {}))
    BY <2>1, CallFields, SMTT(30) DEF Route
  <2>4. Route(r) = Reads(Intended(i))
    BY <2>2, <2>3
  <2> QED
    BY <1>2, <2>4, RouteAnswers DEF Attributed
<1>3. CASE i.op = "vaultInfo"
  <2>1. r = HttpCall("GET", "vault", <<>>, {}, NoBody)
    BY <1>3 DEF WebRequest, WebVaultInfo
  <2>2. Intended(i) = Call("vaultInfo", Nowhere, Nowhere, {})
    BY <1>3 DEF Intents, Intended
  <2>3. Route(r) = Reads(Call("vaultInfo", Nowhere, Nowhere, {}))
    BY <2>1, CallFields, SMTT(30) DEF Route
  <2>4. Route(r) = Reads(Intended(i))
    BY <2>2, <2>3
  <2> QED
    BY <1>3, <2>4, RouteAnswers DEF Attributed
<1>4. CASE i.op = "search"
  <2>1. r = HttpCall("GET", "search", <<>>, {}, NoBody)
    BY <1>4 DEF WebRequest, WebSearch
  <2>2. Intended(i) = Call("search", Nowhere, Nowhere, {})
    BY <1>4 DEF Intents, Intended
  <2>3. Route(r) = Reads(Call("search", Nowhere, Nowhere, {}))
    BY <2>1, CallFields, SMTT(30) DEF Route
  <2>4. Route(r) = Reads(Intended(i))
    BY <2>2, <2>3
  <2> QED
    BY <1>4, <2>4, RouteAnswers DEF Attributed
<1>5. CASE i.op = "flushDirtySessions"
  <2>1. r = HttpCall("POST", "ops", <<"flush">>, {}, NoBody)
    BY <1>5 DEF WebRequest, OtherRequest
  <2>2. Intended(i) = Call("flushDirtySessions", Nowhere, Nowhere, {})
    BY <1>5 DEF Intents, Intended
  <2>3. Route(r) = Reads(Call("flushDirtySessions", Nowhere, Nowhere, {}))
    BY <2>1, CallFields, SMTT(30) DEF Route
  <2>4. Route(r) = Reads(Intended(i))
    BY <2>2, <2>3
  <2> QED
    BY <1>5, <2>4, RouteAnswers DEF Attributed
<1>6. CASE i.op = "listVaults"
  <2>1. r = HttpCall("GET", "vaults", <<>>, {}, NoBody)
    BY <1>6 DEF WebRequest, WebListVaults
  <2>2. Intended(i) = Call("listVaults", Nowhere, Nowhere, {})
    BY <1>6 DEF Intents, Intended
  <2>3. Route(r) = Reads(Call("listVaults", Nowhere, Nowhere, {}))
    BY <2>1, CallFields, SMTT(30) DEF Route
  <2>4. Route(r) = Reads(Intended(i))
    BY <2>2, <2>3
  <2> QED
    BY <1>6, <2>4, RouteAnswers DEF Attributed
<1>7. CASE i.op = "createVault"
  <2>2. Intended(i) = Call("createVault", Nowhere, Nowhere, {})
    BY <1>7 DEF Intents, Intended
  <2>w. r = WebCreateVault(i)
    BY <1>7 DEF WebRequest
  <2>r. r.area = "vaults" /\ r.method = "POST"
    BY <2>w, NewVaultRequest
  <2>3. Route(r) = PostVaults
    BY <2>r DEF Route
  <2>4. Route(r) = JsonRequest(Intended(i))
    BY <2>2, <2>3 DEF PostVaults
  <2> QED
    BY <1>7, <2>4, RouteAnswers DEF Attributed
<1>8. CASE i.op = "renameVault"
  <2>1. r = HttpCall("PUT", "vaults", <<"v">>, {}, Body("displayName", Nowhere))
    BY <1>8 DEF WebRequest, WebRenameVault
  <2>2. Intended(i) = Call("renameVault", Nowhere, Nowhere, {})
    BY <1>8 DEF Intents, Intended
  <2>3. Route(r) = PutVault
    BY <1>t, <2>1, CallFields DEF Route
  <2>4. Route(r) = JsonRequest(Intended(i))
    BY <2>2, <2>3 DEF PutVault
  <2> QED
    BY <1>8, <2>4, RouteAnswers DEF Attributed
<1>9. CASE i.op = "deleteVault"
  <2>1. r = HttpCall("DELETE", "vaults", <<"v">>, {}, NoBody)
    BY <1>9 DEF WebRequest, WebDeleteVault
  <2>2. Intended(i) = Call("deleteVault", Nowhere, Nowhere, {})
    BY <1>9 DEF Intents, Intended
  <2>3. Route(r) = DeleteVault
    BY <2>1, CallFields, SMTT(30) DEF Route
  <2>4. Route(r) = Reads(Intended(i))
    BY <2>2, <2>3 DEF DeleteVault
  <2> QED
    BY <1>9, <2>4, RouteAnswers DEF Attributed
<1>10. CASE i.op = "setVaultMetadata"
  <2>1. r = HttpCall("PUT", "vaults", <<"v", "/", "metadata">>, {}, Body("color", Nowhere))
    BY <1>10 DEF WebRequest, WebSetVaultMetadata
  <2>2. Intended(i) = Call("setVaultMetadata", Nowhere, Nowhere, {})
    BY <1>10 DEF Intents, Intended
  <2>3. Route(r) = PutVaultMetadata
    BY <1>t, <2>1, CallFields DEF Route
  <2>4. Route(r) = JsonMutationRequest(Intended(i))
    BY <2>2, <2>3 DEF PutVaultMetadata
  <2> QED
    BY <1>10, <2>4, RouteAnswers DEF Attributed
<1> QED
  BY <1>1, <1>2, <1>3, <1>4, <1>5, <1>6, <1>7, <1>8, <1>9, <1>10

-----------------------------------------------------------------------------
(* The document socket.                                                    *)

SocketAnswer(i, h) ==
    \/ header = "unreadable" /\ h = CallFails("invalid_actor")
    \/ ~Editable(i.path) /\ h = CallFails("not_found")
    \/ header # "unreadable" /\ h = InterfaceCalls(Intended(i), header)

\* A part of a text, word by word.
LEMMA PartOf ==
    ASSUME NEW t \in Seq(Word), NEW m \in 1..(Len(t) + 1), NEW n \in (m - 1)..Len(t),
           NEW u \in Seq(Word), Len(u) = n - m + 1,
           \A k \in 1..Len(u) : u[k] = t[m + k - 1]
    PROVE  SubSeq(t, m, n) = u
<1> DEFINE w == SubSeq(t, m, n)
<1>1. m \in Int /\ n \in Int /\ \A k \in m..n : t[k] \in Word
  OBVIOUS
<1>2. /\ w \in Seq(Word) /\ Len(w) = IF m <= n THEN n - m + 1 ELSE 0
      /\ \A k \in 1..(n - m + 1) : w[k] = t[m + k - 1]
  BY <1>1, SubSeqProperties
<1>3. Len(w) = Len(u)
  BY <1>1, <1>2
<1> HIDE DEF w
<1>4. \A k \in 1..Len(w) : w[k] = u[k]
  BY <1>2, <1>3
<1> QED
  BY <1>2, <1>3, <1>4, SeqEqual DEF w

\* The first "/files/" is the one behind the id, so a folder of that name stays in the path.
LEMMA MarkerBehindId ==
    ASSUME NEW e \in Seq(Word)
    PROVE  ParseScopedFilesPath(<<"v", "/", "files", "/">> \o e) = [id |-> <<"v">>, rawPath |-> e]
<1> DEFINE v == <<"v", "/", "files", "/">>
           t == v \o e
           at == CHOOSE k \in MarkersIn(t) : \A j \in MarkersIn(t) : k <= j
<1>1. "v" \in Word /\ "/" \in Word /\ "files" \in Word
  BY DEF Word
<1>2. v \in Seq(Word) /\ Len(v) = 4 /\ v[1] = "v" /\ v[2] = "/" /\ v[3] = "files" /\ v[4] = "/"
  BY <1>1
<1> HIDE DEF v
<1>3. /\ t \in Seq(Word) /\ Len(t) = 4 + Len(e) /\ Len(e) \in Nat
      /\ \A k \in 1..(4 + Len(e)) : t[k] = IF k <= 4 THEN v[k] ELSE e[k - 4]
  <2>1. Len(e) \in Nat
    BY LenProperties
  <2>2. /\ t \in Seq(Word) /\ Len(t) = Len(v) + Len(e)
        /\ \A k \in 1..(Len(v) + Len(e)) : t[k] = IF k <= Len(v) THEN v[k] ELSE e[k - Len(v)]
    BY <1>2, ConcatProperties, Zenon
  <2> HIDE DEF t
  <2> QED
    BY <1>2, <2>1, <2>2
<1> HIDE DEF t
<1>e. /\ t[1] = "v" /\ t[2] = "/" /\ t[3] = "files" /\ t[4] = "/"
      /\ \A k \in 1..Len(e) : t[k + 4] = e[k]
  BY <1>2, <1>3
<1>4. 2 \in MarkersIn(t)
  <2> DEFINE u == <<"/", "files", "/">>
  <2>1. u \in Seq(Word) /\ Len(u) = 3 /\ u[1] = "/" /\ u[2] = "files" /\ u[3] = "/"
    BY <1>1
  <2> HIDE DEF u
  <2>2. \A k \in 1..Len(u) : u[k] = t[2 + k - 1]
    BY <1>3, <1>e, <2>1
  <2>3. SubSeq(t, 2, 4) = u
    BY <1>3, <2>1, <2>2, PartOf
  <2> QED
    BY <1>3, <2>3 DEF MarkersIn, FilesMarker, u
<1>5. 1 \notin MarkersIn(t)
  <2>1. SubSeq(t, 1, 3)[1] = t[1]
    BY <1>3
  <2>2. SubSeq(t, 1, 3) # <<"/", "files", "/">>
    <3>1. <<"/", "files", "/">>[1] = "/" /\ SubSeq(t, 1, 3)[1] # "/"
      BY <1>e, <2>1
    <3> QED
      BY <3>1, Zenon
  <2> QED
    BY <2>2 DEF MarkersIn, FilesMarker
<1>6. MarkersIn(t) \subseteq Nat \ {0}
  BY <1>3 DEF MarkersIn
<1>7. \A k \in MarkersIn(t) : 2 <= k
  BY <1>5, <1>6
<1>8. at = 2
  <2>1. at \in MarkersIn(t) /\ \A j \in MarkersIn(t) : at <= j
    BY <1>4, <1>7
  <2> QED
    BY <1>4, <1>6, <1>7, <2>1
<1>9. SubSeq(t, 1, 1) = <<"v">>
  <2> DEFINE u == <<"v">>
  <2>1. u \in Seq(Word) /\ Len(u) = 1 /\ u[1] = "v"
    BY <1>1
  <2> HIDE DEF u
  <2>2. SubSeq(t, 1, 1) = u
    BY <1>3, <1>e, <2>1, PartOf
  <2> QED
    BY <2>2 DEF u
<1>10. SubSeq(t, 5, Len(t)) = e
  BY <1>3, <1>e, PartOf
<1>11. ParseScopedFilesPath(t) = [id |-> SubSeq(t, 1, at - 1), rawPath |-> SubSeq(t, at + 3, Len(t))]
  BY DEF ParseScopedFilesPath
<1> HIDE DEF at
<1>12. ParseScopedFilesPath(t) = [id |-> SubSeq(t, 1, 1), rawPath |-> SubSeq(t, 5, Len(t))]
  BY <1>8, <1>11
<1> QED
  BY <1>9, <1>10, <1>12 DEF t, v

LEMMA SocketRequests ==
    ASSUME NEW i \in Intents, i.op = "openDocument", header \in Headers
    PROVE  SocketAnswer(i, ResolveWebSocketTarget(YjsWebSocketUrl(i)))
<1> DEFINE e == EncodeVaultPath(i.path)
           v == <<"v", "/", "files", "/">>
           url == YjsWebSocketUrl(i)
           scoped == ParseScopedFilesPath(SubSeq(url, 1, Len(url) - 2))
<1>1. i.path \in NoteNames /\ Intended(i) = Call("openDocument", i.path, Nowhere, {})
  BY DEF Intents, Intended
<1>2. IsName(i.path)
  BY <1>1, NamesFit
<1>3. e \in Seq(Word) /\ DecodeURIComponent(e) = i.path
  <2>1. /\ e \in Seq(Word) /\ Len(e) = Len(i.path)
        /\ \A k \in 1..Len(i.path) :
              e[k] = IF i.path[k] = " " THEN "%20" ELSE IF i.path[k] = "%" THEN "%25"
                     ELSE IF i.path[k] = "#" THEN "%23" ELSE i.path[k]
    BY <1>2, EncodedPath
  <2> HIDE DEF e
  <2>2. \A k \in 1..Len(i.path) :
            \/ e[k] = i.path[k]
            \/ i.path[k] = " " /\ e[k] = "%20"
            \/ i.path[k] = "%" /\ e[k] = "%25"
            \/ i.path[k] = "#" /\ e[k] = "%23"
    BY <2>1
  <2> QED
    BY <1>2, <2>1, <2>2, DecodedText
<1>4. v \in Seq(Word) /\ <<"/", "yjs">> \in Seq(Word)
  <2>1. "v" \in Word /\ "/" \in Word /\ "files" \in Word /\ "yjs" \in Word
    BY DEF Word
  <2> QED
    BY <2>1
<1>5. url = v \o e \o <<"/", "yjs">>
  BY DEF YjsWebSocketUrl
<1> HIDE DEF e, v
<1>6. SubSeq(url, 1, Len(url) - 2) = v \o e
  <2> DEFINE a == v \o e
             y == <<"/", "yjs">>
  <2>1. a \in Seq(Word) /\ y \in Seq(Word) /\ Len(y) = 2
    BY <1>3, <1>4
  <2> HIDE DEF a, y
  <2>2. SubSeq(a \o y, 1, Len(a \o y) - 2) = a
    <3>1. /\ a \o y \in Seq(Word) /\ Len(a \o y) = Len(a) + 2 /\ Len(a) \in Nat
          /\ \A k \in 1..Len(a) : (a \o y)[k] = a[k]
      <4>1. Len(a) \in Nat
        BY <2>1, LenProperties
      <4>2. /\ a \o y \in Seq(Word) /\ Len(a \o y) = Len(a) + Len(y)
            /\ \A k \in 1..(Len(a) + Len(y)) : (a \o y)[k] = IF k <= Len(a) THEN a[k] ELSE y[k - Len(a)]
        BY <2>1, ConcatProperties, Zenon
      <4> QED
        BY <2>1, <4>1, <4>2
    <3> QED
      BY <2>1, <3>1, PartOf
  <2> QED
    BY <1>5, <2>2 DEF a, y
<1>7. scoped = [id |-> <<"v">>, rawPath |-> e]
  BY <1>3, <1>6, MarkerBehindId DEF v
<1>8. scoped.id = <<"v">> /\ scoped.rawPath = e
  BY <1>7
<1>9. ResolveWebSocketTarget(url)
        = IF ~Editable(i.path) THEN CallFails("not_found")
          ELSE IF SocketAttribution(header) = "invalid_actor" THEN CallFails("invalid_actor")
          ELSE InterfaceCalls(Intended(i), SocketAttribution(header))
  BY <1>1, <1>3, <1>8 DEF ResolveWebSocketTarget, SafeValidateFilePath
<1>10. IF header = "unreadable" THEN SocketAttribution(header) = "invalid_actor"
       ELSE SocketAttribution(header) = header
  BY DEF SocketAttribution, ActorFromHeader
<1> QED
  BY <1>9, <1>10 DEF SocketAnswer, Headers

-----------------------------------------------------------------------------
(* The tools.                                                              *)

\* A non-empty set of places has a last one.
LEMMA LastPlace ==
    ASSUME NEW n \in Nat, NEW T \in SUBSET (1..n), T # {}
    PROVE  \E k \in T : \A j \in T : j <= k
<1> DEFINE U == {n - k : k \in T}
<1>1. U \subseteq Nat /\ U # {}
  <2>1. \A k \in T : n - k \in Nat
    OBVIOUS
  <2>2. U \subseteq Nat
    BY <2>1
  <2>3. U # {}
    BY Zenon
  <2> QED
    BY <2>2, <2>3
<1> HIDE DEF U
<1>2. \E x \in U : \A y \in U : ~(<<y, x>> \in OpToRel(<, Nat))
  BY <1>1, NatLessThanWellFounded, WFMin
<1>3. PICK x \in U : \A y \in U : ~(y < x)
  BY <1>1, <1>2 DEF OpToRel
<1>4. PICK k \in T : x = n - k
  BY DEF U
<1>5. \A j \in T : n - j \in U
  BY DEF U
<1>6. \A j \in T : ~(n - j < n - k)
  BY <1>3, <1>4, <1>5
<1> QED
  BY <1>6

\* The last name of a path is the end of it.
LEMMA LeafIsTheEnd ==
    ASSUME NEW p \in Seq(Word)
    PROVE  /\ Leaf(p) \in Seq(Word)
           /\ \A k \in 1..Len(Leaf(p)) :
                 \E j \in 1..Len(p) : SubSeq(Leaf(p), k, Len(Leaf(p))) = SubSeq(p, j, Len(p))
<1> DEFINE slashes == {k \in DOMAIN p : p[k] = "/"}
           from == IF slashes = {} THEN 1
                   ELSE (CHOOSE k \in slashes : \A j \in slashes : j <= k) + 1
           name == SubSeq(p, from, Len(p))
           n == Len(p)
<1>1. n \in Nat /\ DOMAIN p = 1..n
  BY LenProperties
<1>2. from \in 1..(n + 1)
  <2>1. CASE slashes = {}
    BY <1>1, <2>1
  <2>2. CASE slashes # {}
    <3>1. \E k \in slashes : \A j \in slashes : j <= k
      BY <1>1, <2>2, LastPlace
    <3>2. (CHOOSE k \in slashes : \A j \in slashes : j <= k) \in slashes
      BY <3>1
    <3>3. (CHOOSE k \in slashes : \A j \in slashes : j <= k) \in 1..n
      BY <1>1, <3>2
    <3> DEFINE c == CHOOSE k \in slashes : \A j \in slashes : j <= k
    <3>4. from = c + 1 /\ c \in 1..n
      BY <2>2, <3>3, Zenon
    <3> HIDE DEF c, from
    <3> QED
      BY <1>1, <3>4
  <2> QED
    BY <2>1, <2>2
<1>3. Leaf(p) = name
  BY DEF Leaf
<1> HIDE DEF from
<1>4. from \in Int /\ n \in Int /\ \A k \in from..n : p[k] \in Word
  BY <1>1, <1>2
<1>5. /\ name \in Seq(Word) /\ Len(name) = n - from + 1
      /\ \A k \in 1..(n - from + 1) : name[k] = p[from + k - 1]
  <2>1. /\ name \in Seq(Word) /\ Len(name) = IF from <= n THEN n - from + 1 ELSE 0
        /\ \A k \in 1..(n - from + 1) : name[k] = p[from + k - 1]
    BY <1>4, SubSeqProperties
  <2> QED
    BY <1>1, <1>2, <2>1
<1> HIDE DEF name
<1>6. ASSUME NEW k \in 1..Len(name)
      PROVE  \E j \in 1..n : SubSeq(name, k, Len(name)) = SubSeq(p, j, n)
  <2> DEFINE j == from + k - 1
             u == SubSeq(p, j, n)
  <2>1. j \in 1..n /\ n - j + 1 = Len(name) - k + 1 /\ k \in 1..(Len(name) + 1) /\ Len(name) \in Nat
    BY <1>1, <1>2, <1>5
  <2>2. j \in Int /\ j <= n /\ \A x \in j..n : p[x] \in Word
    BY <1>1, <2>1
  <2>3. /\ u \in Seq(Word) /\ Len(u) = IF j <= n THEN n - j + 1 ELSE 0
        /\ \A x \in 1..(n - j + 1) : u[x] = p[j + x - 1]
    BY <1>4, <2>2, SubSeqProperties
  <2>4. Len(u) = Len(name) - k + 1
    BY <2>1, <2>2, <2>3
  <2>5. \A x \in 1..Len(u) : u[x] = name[k + x - 1]
    <3>1. ASSUME NEW x \in 1..Len(u) PROVE u[x] = name[k + x - 1]
      <4>1. x \in 1..(n - j + 1) /\ k + x - 1 \in 1..(n - from + 1) /\ from + (k + x - 1) - 1 = j + x - 1
        BY <1>1, <1>2, <1>5, <2>1, <2>4
      <4> QED
        BY <1>5, <2>3, <4>1
    <3> QED
      BY <3>1
  <2> HIDE DEF u
  <2>6. SubSeq(name, k, Len(name)) = u
    BY <1>5, <2>1, <2>3, <2>4, <2>5, PartOf
  <2> QED
    BY <2>1, <2>6 DEF u
<1> QED
  BY <1>3, <1>5, <1>6

EndsInMd(p) == \E k \in 1..Len(p) : SubSeq(p, k, Len(p)) = <<".", "md">>

\* What is refused as an attachment or as a text ends as a text does, and what is taken as
\* an attachment is nothing the editor would open.
LEMMA TextOrAttachment ==
    ASSUME NEW p \in Seq(Word)
    PROVE  /\ Editable(p) => EndsInMd(p)
           /\ ~IsAttachmentPath(p) => EndsInMd(p)
           /\ IsAttachmentPath(p) => ~Editable(p)
<1> DEFINE name == Leaf(p)
           n == Len(name)
           last == CHOOSE k \in DotAt(name) : \A j \in DotAt(name) : j <= k
<1>1. name \in Seq(Word) /\ n \in Nat /\ DOMAIN name = 1..n
  BY LeafIsTheEnd, LenProperties
<1>2. ASSUME NEW k \in 1..n, SubSeq(name, k, n) = <<".", "md">> PROVE EndsInMd(p)
  BY <1>2, LeafIsTheEnd DEF EndsInMd
<1>3. DotAt(name) \subseteq 1..n
  BY <1>1 DEF DotAt
<1>4. DotAt(name) # {} => last \in DotAt(name) /\ \A j \in DotAt(name) : j <= last
  <2>1. SUFFICES ASSUME DotAt(name) # {}
                 PROVE  last \in DotAt(name) /\ \A j \in DotAt(name) : j <= last
    OBVIOUS
  <2>2. \E k \in DotAt(name) : \A j \in DotAt(name) : j <= k
    BY <1>1, <1>3, <2>1, LastPlace
  <2> QED
    BY <2>2
<1>5. Editable(p) <=> n > 2 /\ SubSeq(name, n - 1, n) = <<".", "md">>
  BY DEF Editable
<1>6. IsAttachmentPath(p) <=> DotAt(name) = {} \/ SubSeq(name, last, n) # <<".", "md">>
  BY DEF IsAttachmentPath, LastDot
<1> HIDE DEF last
<1>7. Editable(p) => EndsInMd(p)
  <2>1. SUFFICES ASSUME Editable(p) PROVE EndsInMd(p)
    OBVIOUS
  <2>2. n - 1 \in 1..n
    BY <1>1, <1>5, <2>1
  <2> QED
    BY <1>2, <1>5, <2>1, <2>2
<1>8. ~IsAttachmentPath(p) => EndsInMd(p)
  <2>1. SUFFICES ASSUME ~IsAttachmentPath(p) PROVE EndsInMd(p)
    OBVIOUS
  <2>2. last \in 1..n
    BY <1>3, <1>4, <1>6, <2>1
  <2> QED
    BY <1>2, <1>6, <2>1, <2>2
<1>9. IsAttachmentPath(p) => ~Editable(p)
  <2>1. SUFFICES ASSUME Editable(p) PROVE ~IsAttachmentPath(p)
    OBVIOUS
  <2> DEFINE u == SubSeq(name, n - 1, n)
  <2>2. n > 2 /\ u = <<".", "md">>
    BY <1>5, <2>1
  <2>3. u[1] = name[n - 1] /\ u[2] = name[n]
    BY <1>1, <2>2
  <2>4. name[n - 1] = "." /\ name[n] = "md"
    <3>1. <<".", "md">>[1] = "." /\ <<".", "md">>[2] = "md"
      OBVIOUS
    <3> QED
      BY <2>2, <2>3, <3>1, Zenon
  <2>5. n - 1 \in DotAt(name) /\ n \notin DotAt(name)
    BY <1>1, <2>2, <2>4 DEF DotAt
  <2>6. last = n - 1
    BY <1>1, <1>3, <1>4, <2>5
  <2> QED
    BY <1>6, <2>2, <2>5, <2>6
<1> QED
  BY <1>7, <1>8, <1>9

ToolAnswer(i, h) ==
    \/ header = "unreadable" /\ h = CallFails("invalid_actor")
    \/ /\ header # "unreadable" /\ h = InterfaceCalls(Intended(i), ToolActor(header))
       /\ i.op = "writeRawFile" => ~Editable(i.path)
    \/ /\ header # "unreadable" /\ i.op \notin Attributed
       /\ h = InterfaceCalls(Intended(i), "none")
    \/ /\ i.op \in {"readRawFile", "writeRawFile"} /\ EndsInMd(i.path)
       /\ h = CallFails("invalid_request")

LEMMA ToolFields ==
    ASSUME NEW i
    PROVE  /\ ToolInput(i).path = i.path /\ ToolInput(i).from_path = i.path
           /\ ToolInput(i).to_path = i.to /\ ToolInput(i).options = i.flags
  BY DEF ToolInput

\* A tool that reads, and one that writes, passes on what it was given.
LEMMA ReadingTools ==
    ASSUME NEW i \in Intents,
           i.op \in {"listVaults", "vaultInfo", "listFiles", "getFolderMetadata", "readNote", "search"}
    PROVE  CallTool(i.op, ToolInput(i)) = Reads(Intended(i)) /\ i.op \notin Attributed
<1>1. CASE i.op = "listVaults"
  <2>1. Intended(i) = Call("listVaults", Nowhere, Nowhere, {})
    BY <1>1 DEF Intents, Intended
  <2>2. CallTool(i.op, ToolInput(i)) = ToolListVaults(ToolInput(i))
    BY <1>1 DEF CallTool
  <2> QED
    BY <1>1, <2>1, <2>2, ToolFields DEF ToolListVaults, Attributed
<1>2. CASE i.op = "vaultInfo"
  <2>1. Intended(i) = Call("vaultInfo", Nowhere, Nowhere, {})
    BY <1>2 DEF Intents, Intended
  <2>2. CallTool(i.op, ToolInput(i)) = ToolVaultInfo(ToolInput(i))
    BY <1>2 DEF CallTool
  <2> QED
    BY <1>2, <2>1, <2>2, ToolFields DEF ToolVaultInfo, Attributed
<1>3. CASE i.op = "listFiles"
  <2>1. Intended(i) = Call("listFiles", Nowhere, Nowhere, {})
    BY <1>3 DEF Intents, Intended
  <2>2. CallTool(i.op, ToolInput(i)) = ToolListFiles(ToolInput(i))
    BY <1>3 DEF CallTool
  <2> QED
    BY <1>3, <2>1, <2>2, ToolFields DEF ToolListFiles, Attributed
<1>4. CASE i.op = "getFolderMetadata"
  <2>1. Intended(i) = Call("getFolderMetadata", i.path, Nowhere, {})
    BY <1>4 DEF Intents, Intended
  <2>2. CallTool(i.op, ToolInput(i)) = ToolGetFolderMetadata(ToolInput(i))
    BY <1>4 DEF CallTool
  <2> QED
    BY <1>4, <2>1, <2>2, ToolFields DEF ToolGetFolderMetadata, Attributed
<1>5. CASE i.op = "readNote"
  <2>1. Intended(i) = Call("readNote", i.path, Nowhere, {})
    BY <1>5 DEF Intents, Intended
  <2>2. CallTool(i.op, ToolInput(i)) = ToolReadNote(ToolInput(i))
    BY <1>5 DEF CallTool
  <2> QED
    BY <1>5, <2>1, <2>2, ToolFields DEF ToolReadNote, Attributed
<1>6. CASE i.op = "search"
  <2>1. Intended(i) = Call("search", Nowhere, Nowhere, {})
    BY <1>6 DEF Intents, Intended
  <2>2. CallTool(i.op, ToolInput(i)) = ToolSearch(ToolInput(i))
    BY <1>6 DEF CallTool
  <2> QED
    BY <1>6, <2>1, <2>2, ToolFields DEF ToolSearch, Attributed
<1> QED
  BY <1>1, <1>2, <1>3, <1>4, <1>5, <1>6

LEMMA WritingTools ==
    ASSUME NEW i \in Intents,
           i.op \in {"setFolderMetadata", "createNote", "editNote", "appendNote", "prependNote", "deleteNote",
                     "moveNote", "createFolder", "deleteFolder", "moveFolder"}
    PROVE  CallTool(i.op, ToolInput(i)) = Writes(Intended(i))
<1>1. CASE i.op = "setFolderMetadata"
  <2>1. Intended(i) = Call("setFolderMetadata", i.path, Nowhere, {})
    BY <1>1 DEF Intents, Intended
  <2>2. CallTool(i.op, ToolInput(i)) = ToolSetFolderMetadata(ToolInput(i))
    BY <1>1 DEF CallTool
  <2> QED
    BY <2>1, <2>2, ToolFields DEF ToolSetFolderMetadata
<1>2. CASE i.op = "createNote"
  <2>1. Intended(i) = Call("createNote", i.path, Nowhere, i.flags)
    BY <1>2 DEF Intents, Intended
  <2>2. CallTool(i.op, ToolInput(i)) = ToolCreateNote(ToolInput(i))
    BY <1>2 DEF CallTool
  <2> QED
    BY <2>1, <2>2, ToolFields DEF ToolCreateNote
<1>3. CASE i.op = "editNote"
  <2>1. Intended(i) = Call("editNote", i.path, Nowhere, {})
    BY <1>3 DEF Intents, Intended
  <2>2. CallTool(i.op, ToolInput(i)) = ToolEditNote(ToolInput(i))
    BY <1>3 DEF CallTool
  <2> QED
    BY <2>1, <2>2, ToolFields DEF ToolEditNote
<1>4. CASE i.op = "appendNote"
  <2>1. Intended(i) = Call("appendNote", i.path, Nowhere, {})
    BY <1>4 DEF Intents, Intended
  <2>2. CallTool(i.op, ToolInput(i)) = ToolAppendNote(ToolInput(i))
    BY <1>4 DEF CallTool
  <2> QED
    BY <2>1, <2>2, ToolFields DEF ToolAppendNote
<1>5. CASE i.op = "prependNote"
  <2>1. Intended(i) = Call("prependNote", i.path, Nowhere, {})
    BY <1>5 DEF Intents, Intended
  <2>2. CallTool(i.op, ToolInput(i)) = ToolPrependNote(ToolInput(i))
    BY <1>5 DEF CallTool
  <2> QED
    BY <2>1, <2>2, ToolFields DEF ToolPrependNote
<1>6. CASE i.op = "deleteNote"
  <2>1. Intended(i) = Call("deleteNote", i.path, Nowhere, i.flags)
    BY <1>6 DEF Intents, Intended
  <2>2. CallTool(i.op, ToolInput(i)) = ToolDeleteNote(ToolInput(i))
    BY <1>6 DEF CallTool
  <2> QED
    BY <2>1, <2>2, ToolFields DEF ToolDeleteNote
<1>7. CASE i.op = "moveNote"
  <2>1. Intended(i) = Call("moveNote", i.path, i.to, {})
    BY <1>7 DEF Intents, Intended
  <2>2. CallTool(i.op, ToolInput(i)) = ToolMoveNote(ToolInput(i))
    BY <1>7 DEF CallTool
  <2> QED
    BY <2>1, <2>2, ToolFields DEF ToolMoveNote
<1>8. CASE i.op = "createFolder"
  <2>1. Intended(i) = Call("createFolder", i.path, Nowhere, {})
    BY <1>8 DEF Intents, Intended
  <2>2. CallTool(i.op, ToolInput(i)) = ToolCreateFolder(ToolInput(i))
    BY <1>8 DEF CallTool
  <2> QED
    BY <2>1, <2>2, ToolFields DEF ToolCreateFolder
<1>9. CASE i.op = "deleteFolder"
  <2>1. Intended(i) = Call("deleteFolder", i.path, Nowhere, i.flags)
    BY <1>9 DEF Intents, Intended
  <2>2. CallTool(i.op, ToolInput(i)) = ToolDeleteFolder(ToolInput(i))
    BY <1>9 DEF CallTool
  <2> QED
    BY <2>1, <2>2, ToolFields DEF ToolDeleteFolder
<1>10. CASE i.op = "moveFolder"
  <2>1. Intended(i) = Call("moveFolder", i.path, i.to, {})
    BY <1>10 DEF Intents, Intended
  <2>2. CallTool(i.op, ToolInput(i)) = ToolMoveFolder(ToolInput(i))
    BY <1>10 DEF CallTool
  <2> QED
    BY <2>1, <2>2, ToolFields DEF ToolMoveFolder
<1> QED
  BY <1>1, <1>2, <1>3, <1>4, <1>5, <1>6, <1>7, <1>8, <1>9, <1>10

\* The attachment tools look at the name.
LEMMA AttachmentTools ==
    ASSUME NEW i \in Intents, i.op \in {"readRawFile", "writeRawFile"}, header # "unreadable"
    PROVE  ToolAnswer(i, CallTool(i.op, ToolInput(i)))
<1> DEFINE h == CallTool(i.op, ToolInput(i))
<1>0. i.path \in NoteNames
  BY DEF Intents
<1>1. i.path \in Seq(Word)
  BY <1>0, NamesFit DEF IsName
<1>2. /\ Editable(i.path) => EndsInMd(i.path)
      /\ ~IsAttachmentPath(i.path) => EndsInMd(i.path)
      /\ IsAttachmentPath(i.path) => ~Editable(i.path)
  BY <1>1, TextOrAttachment
<1>3. CASE i.op = "readRawFile"
  <2>1. Intended(i) = Call("readRawFile", i.path, Nowhere, {})
    BY <1>3 DEF Intents, Intended
  <2>2. h = ToolReadAttachment(ToolInput(i))
    BY <1>3 DEF CallTool
  <2>3. h = IF Editable(i.path) THEN CallFails("invalid_request") ELSE Reads(Intended(i))
    BY <2>1, <2>2, ToolFields DEF ToolReadAttachment
  <2> QED
    BY <1>2, <1>3, <2>3 DEF ToolAnswer, Attributed, Reads
<1>4. CASE i.op = "writeRawFile"
  <2>1. Intended(i) = Call("writeRawFile", i.path, Nowhere, i.flags)
    BY <1>4 DEF Intents, Intended
  <2>2. h = ToolUploadAttachment(ToolInput(i))
    BY <1>4 DEF CallTool
  <2>3. h = IF ~IsAttachmentPath(i.path) THEN CallFails("invalid_request") ELSE Writes(Intended(i))
    BY <2>1, <2>2, ToolFields DEF ToolUploadAttachment
  <2> QED
    BY <1>2, <1>4, <2>3 DEF ToolAnswer, Writes
<1> QED
  BY <1>3, <1>4

LEMMA ToolCalls ==
    ASSUME NEW i \in Intents, i.op \in Tools, header \in Headers
    PROVE  ToolAnswer(i, Tool(i))
<1>1. CASE header = "unreadable"
  BY <1>1 DEF Tool, ActorFromHeader, ToolAnswer
<1>2. CASE header # "unreadable"
  <2>1. Tool(i) = CallTool(i.op, ToolInput(i))
    BY <1>2 DEF Tool, ActorFromHeader, Headers
  <2>2. CASE i.op \in {"listVaults", "vaultInfo", "listFiles", "getFolderMetadata", "readNote", "search"}
    BY <1>2, <2>1, <2>2, ReadingTools DEF ToolAnswer, Reads
  <2>3. CASE i.op \in {"setFolderMetadata", "createNote", "editNote", "appendNote", "prependNote",
                       "deleteNote", "moveNote", "createFolder", "deleteFolder", "moveFolder"}
    BY <1>2, <2>1, <2>3, WritingTools DEF ToolAnswer, Writes
  <2>4. CASE i.op \in {"readRawFile", "writeRawFile"}
    BY <1>2, <2>1, <2>4, AttachmentTools
  <2> QED
    BY <2>2, <2>3, <2>4 DEF Tools
<1> QED
  BY <1>1, <1>2

-----------------------------------------------------------------------------
(* Every door.                                                             *)

HandledOK ==
    /\ door = "web" => intent.op # "openDocument" /\ WebAnswer(intent, handled)
    /\ door = "socket" => SocketAnswer(intent, handled)
    /\ door = "tool" => ToolAnswer(intent, handled)

CallsInv ==
    /\ intent \in Intents /\ door \in Doors(intent.op) /\ header \in Headers
    /\ stage # "wanted" => HandledOK
    /\ stage # "answered" => reply = "none"
    /\ NoSilentFailure

LEMMA DoorsAre ==
    ASSUME NEW o, NEW d \in Doors(o)
    PROVE  /\ d \in {"web", "socket", "tool"}
           /\ d = "web" => o # "openDocument"
           /\ d = "socket" => o = "openDocument"
           /\ d = "tool" => o \in Tools
  BY DEF Doors

LEMMA CallParts ==
    ASSUME NEW c, NEW a, NEW e
    PROVE  /\ InterfaceCalls(c, a).call = c /\ InterfaceCalls(c, a).actor = a
           /\ InterfaceCalls(c, a).error = "none"
           /\ CallFails(e).error = e
  BY DEF InterfaceCalls, CallFails

LEMMA ActorsAre ==
    ASSUME header \in Headers
    PROVE  /\ ActorFromRequest(header) = "invalid_actor" <=> header = "unreadable"
           /\ header \in {"user", "integration"} =>
                 ActorFromRequest(header) = header /\ ToolActor(header) = header
           /\ header = "none" => ActorFromRequest(header) = DefaultActor /\ ToolActor(header) = "local agent"
  BY DEF Headers, ActorFromRequest, ActorFromHeader, DefaultActor, ToolActor

\* What is said of an answer is what is wanted of it.
LEMMA AnswersAreHonest ==
    ASSUME CallsInv
    PROVE  CallsAreHonest
<1>1. intent \in Intents /\ door \in Doors(intent.op) /\ header \in Headers /\ NoSilentFailure
  BY DEF CallsInv
<1>2. CASE stage = "wanted"
  BY <1>1, <1>2 DEF CallsAreHonest, IntentIsTheCall, WellFormedIsCalled, WritesAreAttributed, UploadIsNoText
<1>3. CASE stage # "wanted" /\ door = "web"
  <2>1. WebAnswer(intent, handled)
    BY <1>3 DEF CallsInv, HandledOK
  <2>2. CASE /\ ActorFromRequest(header) # "invalid_actor"
             /\ handled = InterfaceCalls(Intended(intent), ActorFromRequest(header))
    <3>1. /\ handled.error = "none" /\ handled.call = Intended(intent)
          /\ handled.actor = ActorFromRequest(header)
      BY <2>2, CallParts
    <3>2. [web |-> DefaultActor, tool |-> "local agent", socket |-> "none"][door] = DefaultActor
      BY <1>3
    <3>3. IntentIsTheCall /\ WellFormedIsCalled /\ UploadIsNoText
      BY <1>3, <3>1 DEF IntentIsTheCall, WellFormedIsCalled, UploadIsNoText, Intended
    <3>4. WritesAreAttributed
      BY <1>1, <2>2, <3>1, <3>2, ActorsAre DEF WritesAreAttributed
    <3> QED
      BY <1>1, <3>3, <3>4 DEF CallsAreHonest
  <2>3. CASE intent.op \notin Attributed /\ handled = InterfaceCalls(Intended(intent), "none")
    <3>1. handled.error = "none" /\ handled.call = Intended(intent)
      BY <2>3, CallParts
    <3>2. IntentIsTheCall /\ WellFormedIsCalled /\ UploadIsNoText /\ WritesAreAttributed
      BY <1>3, <2>3, <3>1 DEF IntentIsTheCall, WellFormedIsCalled, UploadIsNoText, Intended, WritesAreAttributed
    <3> QED
      BY <1>1, <3>2 DEF CallsAreHonest
  <2>4. CASE ActorFromRequest(header) = "invalid_actor" /\ handled = CallFails("invalid_actor")
    <3>1. handled.error = "invalid_actor" /\ header = "unreadable"
      BY <1>1, <2>4, CallParts, ActorsAre
    <3> QED
      BY <1>1, <3>1 DEF CallsAreHonest, IntentIsTheCall, WellFormedIsCalled, WritesAreAttributed, UploadIsNoText
  <2>5. CASE body # "whole" /\ handled = CallFails("invalid_request")
    <3>1. handled.error = "invalid_request"
      BY <2>5, CallParts
    <3> QED
      BY <1>1, <1>3, <2>5, <3>1 DEF CallsAreHonest, IntentIsTheCall, WellFormedIsCalled, WritesAreAttributed,
                                   UploadIsNoText
  <2> QED
    BY <2>1, <2>2, <2>3, <2>4, <2>5 DEF WebAnswer
<1>4. CASE stage # "wanted" /\ door = "socket"
  <2>1. SocketAnswer(intent, handled)
    BY <1>4 DEF CallsInv, HandledOK
  <2>2. CASE header = "unreadable" /\ handled = CallFails("invalid_actor")
    <3>1. handled.error = "invalid_actor"
      BY <2>2, CallParts
    <3> QED
      BY <1>1, <2>2, <3>1 DEF CallsAreHonest, IntentIsTheCall, WellFormedIsCalled, WritesAreAttributed,
                             UploadIsNoText
  <2>3. CASE ~Editable(intent.path) /\ handled = CallFails("not_found")
    <3>1. handled.error = "not_found"
      BY <2>3, CallParts
    <3> QED
      BY <1>1, <1>4, <2>3, <3>1 DEF CallsAreHonest, IntentIsTheCall, WellFormedIsCalled, WritesAreAttributed,
                                   UploadIsNoText
  <2>4. CASE header # "unreadable" /\ handled = InterfaceCalls(Intended(intent), header)
    <3>1. handled.error = "none" /\ handled.call = Intended(intent) /\ handled.actor = header
      BY <2>4, CallParts
    <3>2. [web |-> DefaultActor, tool |-> "local agent", socket |-> "none"][door] = "none"
      BY <1>4
    <3>3. IntentIsTheCall /\ WellFormedIsCalled /\ UploadIsNoText
      BY <1>4, <3>1 DEF IntentIsTheCall, WellFormedIsCalled, UploadIsNoText, Intended
    <3>4. WritesAreAttributed
      BY <2>4, <3>1, <3>2 DEF WritesAreAttributed
    <3> QED
      BY <1>1, <3>3, <3>4 DEF CallsAreHonest
  <2> QED
    BY <2>1, <2>2, <2>3, <2>4 DEF SocketAnswer
<1>5. CASE stage # "wanted" /\ door = "tool"
  <2>1. ToolAnswer(intent, handled)
    BY <1>5 DEF CallsInv, HandledOK
  <2>2. CASE header = "unreadable" /\ handled = CallFails("invalid_actor")
    <3>1. handled.error = "invalid_actor"
      BY <2>2, CallParts
    <3> QED
      BY <1>1, <2>2, <3>1 DEF CallsAreHonest, IntentIsTheCall, WellFormedIsCalled, WritesAreAttributed,
                             UploadIsNoText
  <2>3. CASE /\ header # "unreadable" /\ handled = InterfaceCalls(Intended(intent), ToolActor(header))
             /\ intent.op = "writeRawFile" => ~Editable(intent.path)
    <3>1. /\ handled.error = "none" /\ handled.call = Intended(intent)
          /\ handled.actor = ToolActor(header)
      BY <2>3, CallParts
    <3>2. [web |-> DefaultActor, tool |-> "local agent", socket |-> "none"][door] = "local agent"
      BY <1>5
    <3>3. IntentIsTheCall /\ WellFormedIsCalled /\ UploadIsNoText
      BY <1>5, <2>3, <3>1 DEF IntentIsTheCall, WellFormedIsCalled, UploadIsNoText, Intended
    <3>4. WritesAreAttributed
      BY <1>1, <2>3, <3>1, <3>2, ActorsAre DEF WritesAreAttributed
    <3> QED
      BY <1>1, <3>3, <3>4 DEF CallsAreHonest
  <2>4. CASE /\ header # "unreadable" /\ intent.op \notin Attributed
             /\ handled = InterfaceCalls(Intended(intent), "none")
    <3>1. handled.error = "none" /\ handled.call = Intended(intent)
      BY <2>4, CallParts
    <3>2. intent.op # "writeRawFile"
      BY <2>4 DEF Attributed
    <3>3. IntentIsTheCall /\ WellFormedIsCalled /\ UploadIsNoText /\ WritesAreAttributed
      BY <1>5, <2>4, <3>1, <3>2 DEF IntentIsTheCall, WellFormedIsCalled, UploadIsNoText, Intended,
                                   WritesAreAttributed
    <3> QED
      BY <1>1, <3>3 DEF CallsAreHonest
  <2>5. CASE /\ intent.op \in {"readRawFile", "writeRawFile"} /\ EndsInMd(intent.path)
             /\ handled = CallFails("invalid_request")
    <3>1. handled.error = "invalid_request"
      BY <2>5, CallParts
    <3> QED
      BY <1>1, <1>5, <2>5, <3>1 DEF CallsAreHonest, IntentIsTheCall, WellFormedIsCalled, WritesAreAttributed,
                                   UploadIsNoText, EndsInMd
  <2> QED
    BY <2>1, <2>2, <2>3, <2>4, <2>5 DEF ToolAnswer
<1> QED
  BY <1>1, <1>2, <1>3, <1>4, <1>5, DoorsAre

\* An answer is never the word for success.
LEMMA ErrorIsNoOk ==
    ASSUME CallsInv, stage # "wanted"
    PROVE  handled.error # "ok"
<1>1. HandledOK /\ door \in {"web", "socket", "tool"}
  BY DoorsAre DEF CallsInv
<1>2. \/ \E c, a : handled = InterfaceCalls(c, a)
      \/ \E e \in {"invalid_actor", "not_found", "invalid_request"} : handled = CallFails(e)
  BY <1>1, Zenon DEF HandledOK, WebAnswer, SocketAnswer, ToolAnswer
<1>3. handled.error \in {"none", "invalid_actor", "not_found", "invalid_request"}
  BY <1>2, CallParts
<1> QED
  BY <1>3

LEMMA HandleIsHonest ==
    ASSUME CallsInv, Handle
    PROVE  CallsInv'
<1>1. /\ intent \in Intents /\ door \in Doors(intent.op) /\ header \in Headers /\ stage = "wanted"
      /\ reply = "none" /\ stage' = "handled" /\ UNCHANGED <<intent, door, header, body, verdict, reply>>
  BY DEF CallsInv, Handle
<1>2. CASE door = "web"
  <2>1. intent.op # "openDocument"
    BY <1>1, <1>2, DoorsAre
  <2>2. handled' = Route(WebRequest(intent))
    BY <1>2 DEF Handle
  <2>3. WebAnswer(intent, Route(WebRequest(intent)))
    <3>1. intent.op \in {"createNote", "writeRawFile", "deleteNote", "readRawFile", "readNote", "listNoteHistory",
                         "readNoteHistoryVersion", "createNoteHistoryBoundary", "editNote", "appendNote",
                         "prependNote", "moveNote"}
          \cup {"getFolderMetadata", "setFolderMetadata", "deleteFolder", "moveFolder"}
          \cup {"createFolder", "listFiles", "vaultInfo", "search", "flushDirtySessions", "listVaults",
                "createVault", "renameVault", "deleteVault", "setVaultMetadata"}
      BY <1>1, <2>1 DEF Intents
    <3> QED
      BY <1>1, <3>1, NoteRequests, FolderRequests, VaultRequests
  <2>4. WebAnswer(intent, handled)'
    BY <1>1, <2>2, <2>3 DEF WebAnswer, ActorFromRequest, ActorFromHeader, DefaultActor, Intended
  <2> QED
    BY <1>1, <1>2, <2>1, <2>4 DEF CallsInv, HandledOK, NoSilentFailure
<1>3. CASE door = "socket"
  <2>1. intent.op = "openDocument"
    BY <1>1, <1>3, DoorsAre
  <2>2. handled' = ResolveWebSocketTarget(YjsWebSocketUrl(intent))
    BY <1>3 DEF Handle
  <2>3. SocketAnswer(intent, ResolveWebSocketTarget(YjsWebSocketUrl(intent)))
    BY <1>1, <2>1, SocketRequests
  <2>4. SocketAnswer(intent, handled)'
    BY <1>1, <2>2, <2>3 DEF SocketAnswer, Intended
  <2> QED
    BY <1>1, <1>3, <2>4 DEF CallsInv, HandledOK, NoSilentFailure
<1>4. CASE door = "tool"
  <2>1. intent.op \in Tools
    BY <1>1, <1>4, DoorsAre
  <2>2. handled' = Tool(intent)
    BY <1>4 DEF Handle
  <2>3. ToolAnswer(intent, Tool(intent))
    BY <1>1, <2>1, ToolCalls
  <2>4. ToolAnswer(intent, handled)'
    BY <1>1, <2>2, <2>3 DEF ToolAnswer, ToolActor, ActorFromHeader, Intended
  <2> QED
    BY <1>1, <1>4, <2>4 DEF CallsInv, HandledOK, NoSilentFailure
<1> QED
  BY <1>1, <1>2, <1>3, <1>4, DoorsAre

LEMMA AnswerIsHonest ==
    ASSUME CallsInv, AnswerFor
    PROVE  CallsInv'
<1>1. /\ stage = "handled" /\ stage' = "answered"
      /\ UNCHANGED <<intent, door, header, body, verdict, handled>>
  BY DEF AnswerFor
<1>2. HandledOK /\ handled.error # "ok"
  BY <1>1, ErrorIsNoOk DEF CallsInv
<1>3. reply' = "done" => MapServiceResult(handled).ok \/ ToolSucceeds(handled)
  BY DEF AnswerFor, WebResolves
<1>4. reply' = "done" => Outcome(handled) = "ok"
  <2>1. MapServiceResult(handled).ok = (Outcome(handled) = "ok")
    BY DEF MapServiceResult
  <2> QED
    BY <1>3, <2>1, Zenon DEF ToolSucceeds
<1>5. NoSilentFailure'
  BY <1>1, <1>2, <1>4 DEF Outcome, NoSilentFailure
<1>6. HandledOK'
  BY <1>1, <1>2 DEF HandledOK, WebAnswer, SocketAnswer, ToolAnswer, ActorFromRequest, ActorFromHeader,
                    DefaultActor, ToolActor, Intended
<1> QED
  BY <1>1, <1>5, <1>6 DEF CallsInv

\* Whatever the names in a path are, the service gets the call that was meant, under the name
\* of the one who asked, and nobody is told that something was done that was not.
THEOREM HonestCalls == InterfacesSpec => []CallsAreHonest
<1>1. InterfacesInit => CallsInv
  BY DEF InterfacesInit, CallsInv, NoSilentFailure
<1>2. CallsInv /\ [InterfacesNext]_doorVars => CallsInv'
  <2>1. SUFFICES ASSUME CallsInv, [InterfacesNext]_doorVars PROVE CallsInv'
    OBVIOUS
  <2>2. CASE Handle
    BY <2>1, <2>2, HandleIsHonest
  <2>3. CASE AnswerFor
    BY <2>1, <2>3, AnswerIsHonest
  <2>4. CASE UNCHANGED doorVars
    BY <2>1, <2>4 DEF doorVars, CallsInv, HandledOK, NoSilentFailure, WebAnswer, SocketAnswer, ToolAnswer,
                      ActorFromRequest, ActorFromHeader, DefaultActor, ToolActor, Intended
  <2> QED
    BY <2>1, <2>2, <2>3, <2>4 DEF InterfacesNext
<1>3. CallsInv => CallsAreHonest
  BY AnswersAreHonest
<1> QED
  BY <1>1, <1>2, <1>3, PTL DEF InterfacesSpec
=============================================================================
