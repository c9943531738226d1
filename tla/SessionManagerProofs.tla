------------------------ MODULE SessionManagerProofs ------------------------
(***************************************************************************)
(* One writer per file, and no session forgotten: for every set of callers *)
(* and of paths and every number of sessions and of structure mutations,   *)
(* however clients, idle closes, moves, deletes, stable reads and the      *)
(* close of the manager interleave.                                        *)
(***************************************************************************)
EXTENDS SessionManager, FiniteSetTheorems, SequenceTheorems, TLAPS

-----------------------------------------------------------------------------
(* The inductive invariant. *)

\* The types of the state.
SessionType ==
    [path : DocPaths \cup {"none"}, opened : BOOLEAN, listening : BOOLEAN, failing : BOOLEAN,
     deleted : BOOLEAN, refused : BOOLEAN]

UserType ==
    [phase : {"idle", "waiting", "available", "holding"}, kind : {"none", "client", "operation"},
     path : DocPaths \cup {"none"}, session : Sessions \cup {NoSession}]

Kinds == {"move", "delete", "stable", "close", "manager"}

MutationType ==
    [kind : Kinds, from : DocPaths \cup {"none"}, to : DocPaths \cup {"none"}, paths : SUBSET DocPaths,
     phase : {"queued", "running"}, session : Sessions \cup {NoSession}]

\* What a mutation reserves.
Reserves(m) ==
    /\ m.paths = {m.from, m.to} \ {"none"}
    /\ m.kind # "manager" => m.from \in DocPaths
    /\ m.kind = "move" => m.to \in DocPaths /\ m.from # m.to
    /\ m.kind # "move" => m.to = "none"

ManagerTypeOK ==
    /\ sessionMap \in [DocPaths -> Sessions \cup {NoSession}]
    /\ session \in [Sessions -> SessionType]
    /\ user \in [Users -> UserType]
    /\ idleTimer \in SUBSET DocPaths
    /\ mutations \in Seq(MutationType)
    /\ asked \in Nat
    /\ managerState \in {"active", "closing", "closed"}
    /\ strayed \in BOOLEAN

\* The tail: every mutation reserves its paths; the close of the manager is the
\* last one while the manager is closing, and nothing is left once it is closed.
QueueOK ==
    /\ \A k \in DOMAIN mutations : Reserves(mutations[k])
    /\ \A k \in DOMAIN mutations : k # 1 => mutations[k].phase = "queued"
    /\ \A k \in DOMAIN mutations : mutations[k].kind = "manager" => k = Len(mutations) /\ managerState = "closing"
    /\ managerState = "closing" => mutations # <<>> /\ mutations[Len(mutations)].kind = "manager"
    /\ managerState = "closed" => mutations = <<>>

\* The session a running mutation works on.
RunsOn(kind, s) ==
    mutations # <<>> /\ mutations[1].kind = kind /\ mutations[1].phase = "running" /\ mutations[1].session = s
Changing(s) == \E kind \in {"move", "delete", "close"} : RunsOn(kind, s)

Holds(u, s) == user[u].phase = "holding" /\ user[u].session = s

\* Sessions are created in the order of their numbers, and one that was not
\* created is nobody's.
CreatedOK ==
    /\ \E n \in 0..MaxSessions : {s \in Sessions : session[s].path # "none"} = 1..n
    /\ \A u \in Users : user[u].phase # "idle" => user[u].path \in DocPaths
    /\ \A u \in Users : user[u].phase = "holding" =>
          user[u].session \in Sessions /\ session[user[u].session].path # "none"
    /\ \A p \in DocPaths : sessionMap[p] # NoSession => session[sessionMap[p]].path # "none"
    /\ \A kind \in {"move", "delete", "close"} : RunsOn(kind, NoSession) = FALSE
    /\ \A s \in Sessions : Changing(s) => session[s].path # "none"
    /\ \A s \in Sessions : /\ session[s].path = "none" => ~session[s].opened
                           /\ session[s].listening => session[s].opened

\* The map: a session has one entry and is not deleted; while a mutation works on
\* it, its entry is the one of the mutation's path, and a session that closes has none.
MapOK ==
    /\ \A p, q \in DocPaths : sessionMap[p] # NoSession /\ sessionMap[p] = sessionMap[q] => p = q
    /\ \A p \in DocPaths : sessionMap[p] # NoSession => ~session[sessionMap[p]].deleted
    /\ \A s \in Sessions, p \in DocPaths : Changing(s) /\ sessionMap[p] = s => p = mutations[1].from
    /\ \A s \in Sessions : Changing(s) => sessionMap[mutations[1].from] \in {NoSession, s}
    /\ \A s \in Sessions : RunsOn("close", s) => sessionMap[mutations[1].from] = NoSession
    /\ \A s \in Sessions : RunsOn("move", s) => sessionMap[mutations[1].to] = NoSession

\* An opened session that does not listen any more is out of use.
DetachedOK ==
    managerState # "closed" =>
      \A s \in Sessions : session[s].opened /\ ~session[s].deleted /\ ~session[s].listening =>
        /\ \A u \in Users : ~Holds(u, s)
        /\ \A p \in DocPaths : sessionMap[p] # s
        /\ ~Changing(s)

\* Nobody holds a session that closes.
ClosingOK == \A s \in Sessions : RunsOn("close", s) =>
    /\ \A u \in Users : ~Holds(u, s)
    /\ Active => session[s].opened

\* A session nobody holds is open, and its close is on its way.
CloseQueued(p) == \E k \in DOMAIN mutations :
    mutations[k].kind = "close" /\ mutations[k].from = p /\ mutations[k].phase = "queued"

IdleOK ==
    Active => \A p \in DocPaths :
      sessionMap[p] # NoSession /\ (\A u \in Users : ~Holds(u, sessionMap[p])) =>
        /\ session[sessionMap[p]].opened
        /\ ~session[sessionMap[p]].refused => p \in idleTimer \/ CloseQueued(p)

\* A session that writes, or will as soon as its holder opens it.
Writer(s) ==
    \/ session[s].listening
    \/ ~session[s].opened /\ ~session[s].deleted /\ \E u \in Users : Holds(u, s)

\* Until a move strays, every writer is the map's session of its path or the one that
\* closes there.
WriterOK ==
    /\ \A p \in DocPaths : sessionMap[p] # NoSession => session[sessionMap[p]].path = p
    /\ \A s \in Sessions : Changing(s) => session[s].path = mutations[1].from
    /\ managerState # "closed" =>
         \A s \in Sessions : Writer(s) => sessionMap[session[s].path] = s \/ RunsOn("close", s)
    /\ \A s, t \in Sessions : s # t /\ Writer(s) /\ Writer(t) => session[s].path # session[t].path

ManagerInv ==
    /\ ManagerTypeOK /\ QueueOK /\ CreatedOK /\ MapOK
    /\ DetachedOK /\ ClosingOK /\ IdleOK
    /\ ~strayed => WriterOK

-----------------------------------------------------------------------------
(* The chain of mutations. *)

\* The mutations the operations of the manager chain.
LEMMA MutationIsTyped ==
    ASSUME NEW kind \in Kinds, NEW from \in DocPaths \cup {"none"}, NEW to \in DocPaths \cup {"none"}
    PROVE  LET m == Mutation(kind, from, to)
           IN  /\ m \in MutationType /\ m.phase = "queued" /\ m.kind = kind
               /\ m.from = from /\ m.to = to /\ m.paths = {from, to} \ {"none"}
<1>1. {from, to} \ {"none"} \in SUBSET DocPaths
  OBVIOUS
<1> QED
  BY <1>1 DEF Mutation, MutationType, NoSession

\* A new mutation goes to the end of the chain.
LEMMA QueueAppends ==
    ASSUME ManagerTypeOK, QueueOK, NEW m \in MutationType, m.phase = "queued",
           mutations' = Append(mutations, m)
    PROVE  /\ mutations' \in Seq(MutationType)
           /\ DOMAIN mutations = 1..Len(mutations) /\ Len(mutations) \in Nat
           /\ DOMAIN mutations' = 1..(Len(mutations) + 1)
           /\ Len(mutations') = Len(mutations) + 1
           /\ \A k \in DOMAIN mutations : mutations'[k] = mutations[k]
           /\ mutations'[Len(mutations) + 1] = m
           /\ mutations # <<>> => mutations'[1] = mutations[1]
           /\ mutations' # <<>>
           /\ \A kind, s : RunsOn(kind, s)' = RunsOn(kind, s)
<1>1. /\ mutations \in Seq(MutationType) /\ DOMAIN mutations = 1..Len(mutations) /\ Len(mutations) \in Nat
  BY DEF ManagerTypeOK
<1>2. /\ mutations' \in Seq(MutationType) /\ Len(mutations') = Len(mutations) + 1
      /\ DOMAIN mutations' = 1..(Len(mutations) + 1)
      /\ \A k \in DOMAIN mutations : mutations'[k] = mutations[k]
      /\ mutations'[Len(mutations) + 1] = m
  BY <1>1
<1>3. mutations' # <<>>
  BY <1>1, <1>2
<1>4. mutations # <<>> => 1 \in DOMAIN mutations
  BY <1>1
<1>5. mutations = <<>> => mutations'[1] = m
  BY <1>1, <1>2
<1>6. \A kind, s : RunsOn(kind, s)' = RunsOn(kind, s)
  BY <1>2, <1>3, <1>4, <1>5 DEF RunsOn
<1> QED
  BY <1>1, <1>2, <1>3, <1>4, <1>6

\* When the running mutation ends the next one is queued still.
LEMMA QueueEnds ==
    ASSUME ManagerTypeOK, QueueOK, mutations # <<>>, Ends
    PROVE  /\ mutations' \in Seq(MutationType)
           /\ DOMAIN mutations = 1..Len(mutations) /\ Len(mutations) \in Nat /\ Len(mutations) > 0
           /\ DOMAIN mutations' = 1..(Len(mutations) - 1)
           /\ Len(mutations') = Len(mutations) - 1
           /\ \A k \in DOMAIN mutations' : mutations'[k] = mutations[k + 1] /\ k + 1 \in DOMAIN mutations
           /\ Head(mutations) = mutations[1] /\ mutations[1] \in MutationType
           /\ mutations' = <<>> <=> Len(mutations) = 1
           /\ \A kind, s : ~RunsOn(kind, s)'
<1>1. /\ mutations \in Seq(MutationType) /\ DOMAIN mutations = 1..Len(mutations) /\ Len(mutations) \in Nat
      /\ Len(mutations) > 0 /\ Head(mutations) = mutations[1] /\ mutations[1] \in MutationType
  BY DEF ManagerTypeOK
<1>2. /\ mutations' \in Seq(MutationType) /\ Len(mutations') = Len(mutations) - 1
      /\ DOMAIN mutations' = 1..(Len(mutations) - 1)
      /\ \A k \in 1..Len(mutations') : mutations'[k] = mutations[k + 1]
  BY <1>1, HeadTailProperties, LenProperties DEF Ends
<1>3. mutations' = <<>> <=> Len(mutations) = 1
  BY <1>1, <1>2
<1>4. \A k \in DOMAIN mutations' : mutations'[k] = mutations[k + 1] /\ k + 1 \in DOMAIN mutations
                                   /\ k + 1 # 1
  BY <1>1, <1>2
<1>5. mutations' # <<>> => mutations'[1].phase = "queued"
  <2>1. mutations' # <<>> => 1 \in DOMAIN mutations'
    BY <1>1, <1>2, <1>3
  <2> QED
    BY <1>4, <2>1 DEF QueueOK
<1>6. \A kind, s : ~RunsOn(kind, s)'
  BY <1>5 DEF RunsOn
<1> QED
  BY <1>1, <1>2, <1>3, <1>4, <1>6

\* A queued mutation starts to run.
LEMMA QueueContinues ==
    ASSUME ManagerTypeOK, QueueOK, mutations # <<>>, NEW s \in Sessions \cup {NoSession}, Continues(s)
    PROVE  /\ mutations' \in Seq(MutationType)
           /\ DOMAIN mutations = 1..Len(mutations) /\ Len(mutations) \in Nat /\ Len(mutations) > 0
           /\ DOMAIN mutations' = DOMAIN mutations /\ Len(mutations') = Len(mutations)
           /\ \A k \in DOMAIN mutations : k # 1 => mutations'[k] = mutations[k]
           /\ mutations'[1] = [mutations[1] EXCEPT !.phase = "running", !.session = s]
           /\ mutations'[1].kind = mutations[1].kind /\ mutations'[1].from = mutations[1].from
           /\ mutations'[1].to = mutations[1].to /\ mutations'[1].paths = mutations[1].paths
           /\ mutations'[1].phase = "running" /\ mutations'[1].session = s
           /\ Head(mutations) = mutations[1] /\ mutations[1] \in MutationType /\ mutations' # <<>>
           /\ \A kind, t : RunsOn(kind, t)' <=> kind = mutations[1].kind /\ t = s
<1>1. /\ mutations \in Seq(MutationType) /\ DOMAIN mutations = 1..Len(mutations) /\ Len(mutations) \in Nat
      /\ Len(mutations) > 0 /\ Head(mutations) = mutations[1] /\ mutations[1] \in MutationType
  BY DEF ManagerTypeOK
<1> DEFINE m == [mutations[1] EXCEPT !.phase = "running", !.session = s]
<1>2. /\ m \in MutationType
      /\ m.kind = mutations[1].kind /\ m.from = mutations[1].from
      /\ m.to = mutations[1].to /\ m.paths = mutations[1].paths
      /\ m.phase = "running" /\ m.session = s
  BY <1>1 DEF MutationType
<1>3. mutations' = [mutations EXCEPT ![1] = m]
  BY <1>1 DEF Continues, ReplaceAt
<1> HIDE DEF m
<1>4. /\ mutations' \in Seq(MutationType) /\ Len(mutations') = Len(mutations)
      /\ DOMAIN mutations' = DOMAIN mutations
      /\ \A k \in DOMAIN mutations : mutations'[k] = IF k = 1 THEN m ELSE mutations[k]
  BY <1>1, <1>2, <1>3, ExceptSeq
<1>5. mutations' # <<>> /\ mutations'[1] = m
  BY <1>1, <1>4
<1>6. \A kind, t : RunsOn(kind, t)' <=> kind = mutations[1].kind /\ t = s
  BY <1>2, <1>5 DEF RunsOn
<1> QED
  BY <1>1, <1>2, <1>4, <1>5, <1>6 DEF m
\* What becomes of the queue's own invariant, and of a close that waits in it.
LEMMA AppendKeepsQueue ==
    ASSUME ManagerTypeOK, QueueOK, NEW m \in MutationType, m.phase = "queued", Reserves(m),
           m.kind # "manager", Active, managerState' = managerState,
           mutations' = Append(mutations, m)
    PROVE  /\ QueueOK'
           /\ \A p : CloseQueued(p) => CloseQueued(p)'
           /\ \A p : m.kind = "close" /\ m.from = p => CloseQueued(p)'
<1>1. /\ DOMAIN mutations = 1..Len(mutations) /\ Len(mutations) \in Nat
      /\ DOMAIN mutations' = 1..(Len(mutations) + 1) /\ Len(mutations') = Len(mutations) + 1
      /\ \A k \in DOMAIN mutations : mutations'[k] = mutations[k]
      /\ mutations'[Len(mutations) + 1] = m
  BY QueueAppends
<1>2. \A k \in DOMAIN mutations' : k \in DOMAIN mutations \/ k = Len(mutations) + 1
  BY <1>1
<1>3. \A k \in DOMAIN mutations : k \in DOMAIN mutations' /\ mutations'[k] = mutations[k]
  BY <1>1
<1>4. managerState' = "active" /\ managerState = "active"
  BY DEF Active
<1>5. Len(mutations) + 1 \in DOMAIN mutations'
  BY <1>1
<1>6. QueueOK'
  BY <1>1, <1>2, <1>3, <1>4 DEF QueueOK, Reserves
<1>7. \A p : CloseQueued(p) => CloseQueued(p)'
  BY <1>3 DEF CloseQueued
<1>8. \A p : m.kind = "close" /\ m.from = p => CloseQueued(p)'
  BY <1>1, <1>5 DEF CloseQueued
<1> QED
  BY <1>6, <1>7, <1>8

\* The mutation at the head ends: the queue stays in order, and a close that is
\* queued stays queued unless it is the one that ended.
LEMMA EndKeepsQueue ==
    ASSUME ManagerTypeOK, QueueOK, mutations # <<>>, Ends, mutations[1].kind # "manager",
           managerState' = managerState
    PROVE  /\ QueueOK'
           /\ \A p : CloseQueued(p) /\ ~(mutations[1].kind = "close" /\ mutations[1].from = p)
                        => CloseQueued(p)'
           /\ \A p : CloseQueued(p) /\ mutations[1].phase = "running" => CloseQueued(p)'
<1>1. /\ DOMAIN mutations = 1..Len(mutations) /\ Len(mutations) \in Nat /\ Len(mutations) > 0
      /\ DOMAIN mutations' = 1..(Len(mutations) - 1) /\ Len(mutations') = Len(mutations) - 1
      /\ \A k \in DOMAIN mutations' : mutations'[k] = mutations[k + 1] /\ k + 1 \in DOMAIN mutations
      /\ mutations' = <<>> <=> Len(mutations) = 1
  BY QueueEnds
<1>2. \A k \in DOMAIN mutations : k # 1 => k - 1 \in DOMAIN mutations' /\ mutations'[k - 1] = mutations[k]
  BY <1>1
<1>3. \A k \in DOMAIN mutations' : mutations'[k].phase = "queued" /\ Reserves(mutations'[k])
  BY <1>1 DEF QueueOK
<1>4. \A k \in DOMAIN mutations' : mutations'[k].kind = "manager" =>
          k = Len(mutations') /\ managerState' = "closing"
  BY <1>1 DEF QueueOK
<1>5. managerState' = "closing" => mutations' # <<>> /\ mutations'[Len(mutations')].kind = "manager"
  BY <1>1 DEF QueueOK
<1>6. QueueOK'
  BY <1>3, <1>4, <1>5 DEF QueueOK, Reserves
<1>7. \A p : CloseQueued(p) /\ ~(mutations[1].kind = "close" /\ mutations[1].from = p)
                        => CloseQueued(p)'
  BY <1>2 DEF CloseQueued
<1>8. \A p : CloseQueued(p) /\ mutations[1].phase = "running" => CloseQueued(p)'
  BY <1>2 DEF CloseQueued
<1> QED
  BY <1>6, <1>7, <1>8

\* The same for a mutation that goes on to its next phase.
LEMMA ContinueKeepsQueue ==
    ASSUME ManagerTypeOK, QueueOK, mutations # <<>>, NEW s \in Sessions \cup {NoSession}, Continues(s),
           managerState' = managerState
    PROVE  /\ QueueOK'
           /\ \A p : CloseQueued(p) /\ ~(mutations[1].kind = "close" /\ mutations[1].from = p)
                        => CloseQueued(p)'
<1>1. /\ DOMAIN mutations' = DOMAIN mutations /\ Len(mutations') = Len(mutations)
      /\ \A k \in DOMAIN mutations : k # 1 => mutations'[k] = mutations[k]
      /\ mutations'[1].kind = mutations[1].kind /\ mutations'[1].from = mutations[1].from
      /\ mutations'[1].to = mutations[1].to /\ mutations'[1].paths = mutations[1].paths
      /\ mutations' # <<>>
  BY QueueContinues
<1>2. QueueOK'
  BY <1>1 DEF QueueOK, Reserves
<1>3. \A p : CloseQueued(p) /\ ~(mutations[1].kind = "close" /\ mutations[1].from = p)
                        => CloseQueued(p)'
  BY <1>1 DEF CloseQueued
<1> QED
  BY <1>2, <1>3

\* The number of the next session has not been given.
LEMMA NextIsUnused ==
    ASSUME ManagerTypeOK, CreatedOK, Created + 1 \in Sessions
    PROVE  /\ session[Created + 1].path = "none"
           /\ {s \in Sessions : session[s].path # "none"} = 1..Created /\ Created \in 0..MaxSessions
<1>1. PICK n \in 0..MaxSessions : {s \in Sessions : session[s].path # "none"} = 1..n
  BY DEF CreatedOK
<1>2. Cardinality(1..n) = n
  BY <1>1, ManagerBounds, FS_Interval
<1>3. Created = n
  BY <1>1, <1>2 DEF Created
<1>4. n + 1 \notin 1..n
  BY <1>1
<1> QED
  BY <1>1, <1>3, <1>4

-----------------------------------------------------------------------------
(* Every action keeps the invariant. *)

\* What types and reservations say of an entry of the map, of a mutation that
\* runs, and of a session that writes.
MapTyped ==
    /\ NoSession \notin Sessions /\ "none" \notin DocPaths
    /\ \A p \in DocPaths : sessionMap[p] \in Sessions \cup {NoSession}
    /\ \A s \in Sessions : session[s].path \in DocPaths \cup {"none"}
    /\ \A s \in Sessions : Writer(s) => session[s].path \in DocPaths
    /\ \A s : Changing(s) => mutations[1].from \in DocPaths
    /\ \A s : RunsOn("move", s) => mutations[1].to \in DocPaths /\ mutations[1].from # mutations[1].to

\* The running mutation reserves its paths.
HeadReserved ==
    /\ \A s : Changing(s) => HasPathReservation(mutations[1].from)
    /\ \A s : RunsOn("move", s) => HasPathReservation(mutations[1].to)

\* The invariant by its parts, with what they say of the map and of the head of
\* the queue.
LEMMA InvParts ==
    ASSUME ManagerInv
    PROVE  /\ ManagerTypeOK /\ QueueOK /\ CreatedOK /\ MapOK /\ DetachedOK /\ ClosingOK /\ IdleOK
           /\ ~strayed => WriterOK
           /\ MapTyped /\ HeadReserved
<1>1. /\ ManagerTypeOK /\ QueueOK /\ CreatedOK /\ MapOK /\ DetachedOK /\ ClosingOK /\ IdleOK
      /\ ~strayed => WriterOK
  BY DEF ManagerInv
<1>2. mutations # <<>> => 1 \in DOMAIN mutations /\ mutations[1] \in MutationType /\ Reserves(mutations[1])
  <2>1. mutations # <<>> => 1 \in DOMAIN mutations /\ mutations[1] \in MutationType
    BY <1>1 DEF ManagerTypeOK
  <2> QED
    BY <1>1, <2>1 DEF QueueOK
<1>3. \A s : Changing(s) => mutations[1].from \in DocPaths /\ HasPathReservation(mutations[1].from)
  BY <1>2, ManagerBounds DEF Changing, RunsOn, Reserves, HasPathReservation
<1>4. \A s : RunsOn("move", s) => /\ mutations[1].to \in DocPaths /\ mutations[1].from # mutations[1].to
                                  /\ HasPathReservation(mutations[1].to)
  BY <1>2, ManagerBounds DEF RunsOn, Reserves, HasPathReservation
<1>5. /\ NoSession \notin Sessions /\ "none" \notin DocPaths
      /\ \A p \in DocPaths : sessionMap[p] \in Sessions \cup {NoSession}
      /\ \A s \in Sessions : session[s].path \in DocPaths \cup {"none"}
  BY <1>1, ManagerBounds DEF ManagerTypeOK, SessionType, NoSession, Sessions
<1>6. \A s \in Sessions : Writer(s) => session[s].path \in DocPaths
  BY <1>1, <1>5 DEF CreatedOK, Writer, Holds
<1> QED
  BY <1>1, <1>3, <1>4, <1>5, <1>6 DEF MapTyped, HeadReserved

\* A caller starts to wait for a path.
LEMMA AskStep ==
    ASSUME ManagerInv, NEW u \in Users, NEW kind \in {"client", "operation"}, NEW p \in DocPaths, Ask(u, kind, p), UNCHANGED strayed
    PROVE  ManagerInv'
<1>0. /\ ManagerTypeOK /\ QueueOK /\ CreatedOK /\ MapOK /\ DetachedOK /\ ClosingOK /\ IdleOK
      /\ (~strayed => WriterOK) /\ MapTyped /\ HeadReserved
  BY InvParts
<1>e. /\ user' \in [Users -> UserType]
      /\ \A v \in Users \ {u} : user'[v] = user[v]
      /\ user[u].phase = "idle" /\ user'[u].phase = "waiting" /\ user'[u].path = p
      /\ UNCHANGED <<sessionMap, session, idleTimer, mutations, asked, managerState, strayed>>
  BY <1>0 DEF Ask, NoUse, ManagerTypeOK, UserType, NoSession
<1>1. ManagerTypeOK'
  BY <1>0, <1>e DEF ManagerTypeOK, MapTyped, RunsOn
<1>2. QueueOK'
  BY <1>0, <1>e DEF QueueOK, Reserves, MapTyped, RunsOn
<1>3. CreatedOK'
  BY <1>0, <1>e DEF CreatedOK, Changing, MapTyped, RunsOn
<1>4. MapOK'
  BY <1>0, <1>e DEF MapOK, Changing, MapTyped, RunsOn
<1>5. DetachedOK'
  BY <1>0, <1>e DEF DetachedOK, Changing, Holds, MapTyped, RunsOn
<1>6. ClosingOK'
  BY <1>0, <1>e DEF ClosingOK, Holds, Active, MapTyped, RunsOn
<1>7. IdleOK'
  BY <1>0, <1>e DEF IdleOK, Holds, Active, CloseQueued, MapTyped, RunsOn
<1>8. ~strayed' => WriterOK'
  BY <1>0, <1>e DEF WriterOK, Changing, Writer, Holds, MapTyped, RunsOn
<1> QED
  BY <1>1, <1>2, <1>3, <1>4, <1>5, <1>6, <1>7, <1>8 DEF ManagerInv

\* The path is available, or the manager closes and the caller is refused.
LEMMA PathAvailableStep ==
    ASSUME ManagerInv, NEW u \in Users, PathAvailable(u), UNCHANGED strayed
    PROVE  ManagerInv'
<1>0. /\ ManagerTypeOK /\ QueueOK /\ CreatedOK /\ MapOK /\ DetachedOK /\ ClosingOK /\ IdleOK
      /\ (~strayed => WriterOK) /\ MapTyped /\ HeadReserved
  BY InvParts
<1>e. /\ user' \in [Users -> UserType]
      /\ \A v \in Users \ {u} : user'[v] = user[v]
      /\ user[u].phase = "waiting" /\ user'[u].phase \in {"available", "idle"}
      /\ user'[u].phase = "available" => user'[u].path = user[u].path
      /\ UNCHANGED <<sessionMap, session, idleTimer, mutations, asked, managerState, strayed>>
  BY <1>0 DEF PathAvailable, NoUse, ManagerTypeOK, UserType, NoSession
<1>1. ManagerTypeOK'
  BY <1>0, <1>e DEF ManagerTypeOK, MapTyped, RunsOn
<1>2. QueueOK'
  BY <1>0, <1>e DEF QueueOK, Reserves, MapTyped, RunsOn
<1>3. CreatedOK'
  BY <1>0, <1>e DEF CreatedOK, Changing, MapTyped, RunsOn
<1>4. MapOK'
  BY <1>0, <1>e DEF MapOK, Changing, MapTyped, RunsOn
<1>5. DetachedOK'
  BY <1>0, <1>e DEF DetachedOK, Changing, Holds, MapTyped, RunsOn
<1>6. ClosingOK'
  BY <1>0, <1>e DEF ClosingOK, Holds, Active, MapTyped, RunsOn
<1>7. IdleOK'
  BY <1>0, <1>e DEF IdleOK, Holds, Active, CloseQueued, MapTyped, RunsOn
<1>8. ~strayed' => WriterOK'
  BY <1>0, <1>e DEF WriterOK, Changing, Writer, Holds, MapTyped, RunsOn
<1> QED
  BY <1>1, <1>2, <1>3, <1>4, <1>5, <1>6, <1>7, <1>8 DEF ManagerInv

\* A held session opens and begins to listen: the map has it, or it is closed by nobody.
LEMMA OpenHeldStep ==
    ASSUME ManagerInv, NEW u \in Users, OpenHeld(u), UNCHANGED strayed
    PROVE  ManagerInv'
<1>0. /\ ManagerTypeOK /\ QueueOK /\ CreatedOK /\ MapOK /\ DetachedOK /\ ClosingOK /\ IdleOK
      /\ (~strayed => WriterOK) /\ MapTyped /\ HeadReserved
  BY InvParts
<1> DEFINE s == user[u].session
<1>s. s \in Sessions /\ user[u].phase = "holding" /\ ~session[s].opened /\ ~session[s].deleted
  BY <1>0 DEF OpenHeld, CreatedOK
<1>e. /\ session' \in [Sessions -> SessionType]
      /\ \A t \in Sessions \ {s} : session'[t] = session[t]
      /\ session'[s].path = session[s].path /\ session'[s].opened /\ session'[s].listening
      /\ ~session'[s].deleted /\ session'[s].refused = session[s].refused
      /\ UNCHANGED <<sessionMap, user, idleTimer, mutations, asked, managerState, strayed>>
  BY <1>0, <1>s, ZenonT(40) DEF OpenHeld, ManagerTypeOK, SessionType
<1>1. ManagerTypeOK'
  BY <1>0, <1>s, <1>e DEF ManagerTypeOK, MapTyped, RunsOn
<1>2. QueueOK'
  BY <1>0, <1>s, <1>e DEF QueueOK, Reserves, MapTyped, RunsOn
<1>3. CreatedOK'
  BY <1>0, <1>s, <1>e DEF CreatedOK, Changing, MapTyped, RunsOn
<1>4. MapOK'
  BY <1>0, <1>s, <1>e DEF MapOK, Changing, MapTyped, RunsOn
<1>5. DetachedOK'
  BY <1>0, <1>s, <1>e DEF DetachedOK, Changing, Holds, MapTyped, RunsOn
<1>6. ClosingOK'
  BY <1>0, <1>s, <1>e DEF ClosingOK, Holds, Active, MapTyped, RunsOn
<1>7. IdleOK'
  BY <1>0, <1>s, <1>e DEF IdleOK, Holds, Active, CloseQueued, MapTyped, RunsOn
<1>8. ~strayed' => WriterOK'
  BY <1>0, <1>s, <1>e DEF WriterOK, Changing, Writer, Holds, MapTyped, RunsOn
<1> QED
  BY <1>1, <1>2, <1>3, <1>4, <1>5, <1>6, <1>7, <1>8 DEF ManagerInv

\* A failing persist changes nothing the invariant speaks of.
LEMMA PersistFailsStep ==
    ASSUME ManagerInv, NEW s \in Sessions, PersistFails(s), UNCHANGED strayed
    PROVE  ManagerInv'
<1>0. /\ ManagerTypeOK /\ QueueOK /\ CreatedOK /\ MapOK /\ DetachedOK /\ ClosingOK /\ IdleOK
      /\ (~strayed => WriterOK) /\ MapTyped /\ HeadReserved
  BY InvParts
<1>e. /\ session' \in [Sessions -> SessionType]
      /\ \A t \in Sessions : /\ session'[t].path = session[t].path /\ session'[t].opened = session[t].opened
                             /\ session'[t].listening = session[t].listening
                             /\ session'[t].deleted = session[t].deleted /\ session'[t].refused = session[t].refused
      /\ UNCHANGED <<sessionMap, user, idleTimer, mutations, asked, managerState, strayed>>
  BY <1>0 DEF PersistFails, ManagerTypeOK, SessionType
<1>1. ManagerTypeOK'
  BY <1>0, <1>e DEF ManagerTypeOK, MapTyped, RunsOn
<1>2. QueueOK'
  BY <1>0, <1>e DEF QueueOK, Reserves, MapTyped, RunsOn
<1>3. CreatedOK'
  BY <1>0, <1>e DEF CreatedOK, Changing, MapTyped, RunsOn
<1>4. MapOK'
  BY <1>0, <1>e DEF MapOK, Changing, MapTyped, RunsOn
<1>5. DetachedOK'
  BY <1>0, <1>e DEF DetachedOK, Changing, Holds, MapTyped, RunsOn
<1>6. ClosingOK'
  BY <1>0, <1>e DEF ClosingOK, Holds, Active, MapTyped, RunsOn
<1>7. IdleOK'
  BY <1>0, <1>e DEF IdleOK, Holds, Active, CloseQueued, MapTyped, RunsOn
<1>8. ~strayed' => WriterOK'
  BY <1>0, <1>e DEF WriterOK, Changing, Writer, Holds, MapTyped, RunsOn
<1> QED
  BY <1>1, <1>2, <1>3, <1>4, <1>5, <1>6, <1>7, <1>8 DEF ManagerInv

\* Nor does one that recovers.
LEMMA PersistRecoversStep ==
    ASSUME ManagerInv, NEW s \in Sessions, PersistRecovers(s), UNCHANGED strayed
    PROVE  ManagerInv'
<1>0. /\ ManagerTypeOK /\ QueueOK /\ CreatedOK /\ MapOK /\ DetachedOK /\ ClosingOK /\ IdleOK
      /\ (~strayed => WriterOK) /\ MapTyped /\ HeadReserved
  BY InvParts
<1>e. /\ session' \in [Sessions -> SessionType]
      /\ \A t \in Sessions : /\ session'[t].path = session[t].path /\ session'[t].opened = session[t].opened
                             /\ session'[t].listening = session[t].listening
                             /\ session'[t].deleted = session[t].deleted /\ session'[t].refused = session[t].refused
      /\ UNCHANGED <<sessionMap, user, idleTimer, mutations, asked, managerState, strayed>>
  BY <1>0 DEF PersistRecovers, ManagerTypeOK, SessionType
<1>1. ManagerTypeOK'
  BY <1>0, <1>e DEF ManagerTypeOK, MapTyped, RunsOn
<1>2. QueueOK'
  BY <1>0, <1>e DEF QueueOK, Reserves, MapTyped, RunsOn
<1>3. CreatedOK'
  BY <1>0, <1>e DEF CreatedOK, Changing, MapTyped, RunsOn
<1>4. MapOK'
  BY <1>0, <1>e DEF MapOK, Changing, MapTyped, RunsOn
<1>5. DetachedOK'
  BY <1>0, <1>e DEF DetachedOK, Changing, Holds, MapTyped, RunsOn
<1>6. ClosingOK'
  BY <1>0, <1>e DEF ClosingOK, Holds, Active, MapTyped, RunsOn
<1>7. IdleOK'
  BY <1>0, <1>e DEF IdleOK, Holds, Active, CloseQueued, MapTyped, RunsOn
<1>8. ~strayed' => WriterOK'
  BY <1>0, <1>e DEF WriterOK, Changing, Writer, Holds, MapTyped, RunsOn
<1> QED
  BY <1>1, <1>2, <1>3, <1>4, <1>5, <1>6, <1>7, <1>8 DEF ManagerInv

\* A session whose file is gone leaves the map.
LEMMA FoundDeletedStep ==
    ASSUME ManagerInv, NEW s \in Sessions, FoundDeleted(s), UNCHANGED strayed
    PROVE  ManagerInv'
<1>0. /\ ManagerTypeOK /\ QueueOK /\ CreatedOK /\ MapOK /\ DetachedOK /\ ClosingOK /\ IdleOK
      /\ (~strayed => WriterOK) /\ MapTyped /\ HeadReserved
  BY InvParts
<1>s. \A kind \in {"move", "delete", "close"} : ~RunsOn(kind, s)
  BY <1>0 DEF FoundDeleted, RunsOn, ManagerTypeOK
<1>e. /\ session' \in [Sessions -> SessionType]
      /\ \A t \in Sessions \ {s} : session'[t] = session[t]
      /\ session'[s].path = session[s].path /\ session'[s].opened = session[s].opened
      /\ ~session'[s].listening /\ session'[s].deleted
      /\ sessionMap' \in [DocPaths -> Sessions \cup {NoSession}]
      /\ \A p \in DocPaths : IF sessionMap[p] = s THEN sessionMap'[p] = NoSession ELSE sessionMap'[p] = sessionMap[p]
      /\ UNCHANGED <<user, idleTimer, mutations, asked, managerState, strayed>>
  BY <1>0 DEF FoundDeleted, ManagerTypeOK, SessionType
<1>r. \A kind, t : RunsOn(kind, t)' = RunsOn(kind, t)
  BY <1>e DEF RunsOn
<1>1. ManagerTypeOK'
  BY <1>0, <1>s, <1>e, <1>r DEF ManagerTypeOK, MapTyped
<1>2. QueueOK'
  BY <1>0, <1>s, <1>e, <1>r DEF QueueOK, Reserves, MapTyped
<1>3. CreatedOK'
  BY <1>0, <1>s, <1>e, <1>r DEF CreatedOK, Changing, MapTyped
<1>4. MapOK'
  BY <1>0, <1>s, <1>e, <1>r DEF MapOK, Changing, MapTyped
<1>5. DetachedOK'
  BY <1>0, <1>s, <1>e, <1>r DEF DetachedOK, Changing, Holds, MapTyped
<1>6. ClosingOK'
  BY <1>0, <1>s, <1>e, <1>r DEF ClosingOK, Holds, Active, MapTyped
<1>7. IdleOK'
  BY <1>0, <1>s, <1>e, <1>r DEF IdleOK, Holds, Active, CloseQueued, MapTyped
<1>8. ~strayed' => WriterOK'
  BY <1>0, <1>s, <1>e, <1>r DEF WriterOK, Changing, Writer, Holds, MapTyped
<1> QED
  BY <1>1, <1>2, <1>3, <1>4, <1>5, <1>6, <1>7, <1>8 DEF ManagerInv

\* A caller takes the session the map has for its path.
LEMMA AcquireOldStep ==
    ASSUME ManagerInv, NEW u \in Users, NEW p \in DocPaths, user[u].phase = "available", user[u].path = p,
           Active, sessionMap[p] # NoSession, UNCHANGED <<sessionMap, session, mutations, asked, managerState>>,
           idleTimer' = idleTimer \ {p},
           user' = [user EXCEPT ![u].phase = "holding", ![u].session = sessionMap[p]], UNCHANGED strayed
    PROVE  ManagerInv'
<1>0. /\ ManagerTypeOK /\ QueueOK /\ CreatedOK /\ MapOK /\ DetachedOK /\ ClosingOK /\ IdleOK
      /\ (~strayed => WriterOK) /\ MapTyped /\ HeadReserved
  BY InvParts
<1>e. /\ user' \in [Users -> UserType]
      /\ \A v \in Users \ {u} : user'[v] = user[v]
      /\ user'[u].phase = "holding" /\ user'[u].path = p /\ user'[u].session = sessionMap[p]
      /\ sessionMap[p] \in Sessions
      /\ UNCHANGED <<sessionMap, session, mutations, asked, managerState, strayed>>
      /\ idleTimer' = idleTimer \ {p}
  BY <1>0, ZenonT(40) DEF ManagerTypeOK, UserType, NoSession, MapTyped
<1>r. \A kind, t : RunsOn(kind, t)' = RunsOn(kind, t)
  BY <1>e DEF RunsOn

<1>c. ~RunsOn("close", sessionMap[p])
  BY <1>0, <1>e DEF MapOK, Changing
<1>w. \A t \in Sessions : Writer(t)' => Writer(t)
  <2>1. \A t \in Sessions : (\E v \in Users : Holds(v, t)') => t = sessionMap[p] \/ \E v \in Users : Holds(v, t)
    BY <1>e DEF Holds
  <2>2. session[sessionMap[p]].opened \/ \E v \in Users : Holds(v, sessionMap[p])
    BY <1>0, <1>e DEF IdleOK
  <2> QED
    BY <1>e, <2>1, <2>2 DEF Writer
<1>1. ManagerTypeOK'
  BY <1>0, <1>e, <1>r DEF ManagerTypeOK, MapTyped
<1>2. QueueOK'
  BY <1>0, <1>e, <1>r DEF QueueOK, Reserves, MapTyped
<1>3. CreatedOK'
  BY <1>0, <1>e, <1>r DEF CreatedOK, Changing, MapTyped
<1>4. MapOK'
  BY <1>0, <1>e, <1>r DEF MapOK, Changing, MapTyped
<1>5. DetachedOK'
  BY <1>0, <1>e, <1>r DEF DetachedOK, Changing, Holds, MapTyped
<1>6. ClosingOK'
  BY <1>0, <1>e, <1>r, <1>c DEF ClosingOK, Holds, Active
<1>7. IdleOK'
  BY <1>0, <1>e, <1>r DEF IdleOK, Holds, Active, CloseQueued, MapTyped
<1>8. ~strayed' => WriterOK'
  BY <1>0, <1>e, <1>r, <1>w DEF WriterOK, Changing, MapTyped
<1> QED
  BY <1>1, <1>2, <1>3, <1>4, <1>5, <1>6, <1>7, <1>8 DEF ManagerInv

\* A caller takes a new session: nobody writes to the path, for it has no entry and no reservation.
LEMMA AcquireNewStep ==
    ASSUME ManagerInv, NEW u \in Users, NEW p \in DocPaths, NEW s \in Sessions, user[u].phase = "available", user[u].path = p,
           Active, ~HasPathReservation(p), sessionMap[p] = NoSession, UNCHANGED <<mutations, asked, managerState>>,
           s = Created + 1, session' = [session EXCEPT ![s] = [Fresh EXCEPT !.path = p]],
           sessionMap' = [sessionMap EXCEPT ![p] = s], idleTimer' = idleTimer \ {p},
           user' = [user EXCEPT ![u].phase = "holding", ![u].session = sessionMap'[p]], UNCHANGED strayed
    PROVE  ManagerInv'
<1>0. /\ ManagerTypeOK /\ QueueOK /\ CreatedOK /\ MapOK /\ DetachedOK /\ ClosingOK /\ IdleOK
      /\ (~strayed => WriterOK) /\ MapTyped /\ HeadReserved
  BY InvParts
<1>n. session[s].path = "none" /\ {t \in Sessions : session[t].path # "none"} = 1..Created /\ Created \in 0..MaxSessions
  BY <1>0, NextIsUnused
<1>s. sessionMap' \in [DocPaths -> Sessions \cup {NoSession}] /\ sessionMap'[p] = s
      /\ \A q \in DocPaths \ {p} : sessionMap'[q] = sessionMap[q]
  BY <1>0 DEF ManagerTypeOK
<1>y. [Fresh EXCEPT !.path = p] \in SessionType
  BY DEF Fresh, SessionType
<1>u. /\ user' \in [Users -> UserType]
      /\ \A v \in Users \ {u} : user'[v] = user[v]
      /\ user'[u].phase = "holding" /\ user'[u].path = p /\ user'[u].session = s
  <2>1. user' = [user EXCEPT ![u].phase = "holding", ![u].session = s]
    BY <1>s
  <2>2. user \in [Users -> UserType] /\ user[u] \in UserType
    BY <1>0 DEF ManagerTypeOK
  <2>3. user' = [user EXCEPT ![u] = [user[u] EXCEPT !.phase = "holding", !.session = s]]
    BY <2>1, <2>2
  <2>4. /\ [user[u] EXCEPT !.phase = "holding", !.session = s] \in UserType
        /\ [user[u] EXCEPT !.phase = "holding", !.session = s].path = p
        /\ [user[u] EXCEPT !.phase = "holding", !.session = s].phase = "holding"
        /\ [user[u] EXCEPT !.phase = "holding", !.session = s].session = s
    BY <2>2 DEF UserType
  <2> QED
    BY <2>2, <2>3, <2>4, ZenonT(40)
<1>e. /\ session' \in [Sessions -> SessionType]
      /\ \A t \in Sessions \ {s} : session'[t] = session[t]
      /\ session'[s].path = p /\ ~session'[s].opened /\ ~session'[s].listening /\ ~session'[s].deleted
      /\ UNCHANGED <<mutations, asked, managerState, strayed>>
      /\ idleTimer' = idleTimer \ {p}
  BY <1>0, <1>y DEF ManagerTypeOK, Fresh
<1>r. \A kind, t : RunsOn(kind, t)' = RunsOn(kind, t)
  BY <1>e DEF RunsOn

<1>f. /\ \A q \in DocPaths : sessionMap[q] # s
      /\ \A v \in Users : ~Holds(v, s)
      /\ \A kind \in {"move", "delete", "close"} : ~RunsOn(kind, s)
      /\ \A t : Changing(t) => mutations[1].from # p
      /\ \A t : RunsOn("move", t) => mutations[1].to # p
  BY <1>0, <1>n DEF CreatedOK, HeadReserved, Holds, Changing, MapTyped
<1>w. /\ \A t \in Sessions \ {s} : Writer(t)' => Writer(t)
      /\ ~strayed => \A t \in Sessions : Writer(t) => session[t].path # p
  <2>1. \A t \in Sessions \ {s} : Writer(t)' => Writer(t)
    BY <1>u, <1>e DEF Writer, Holds
  <2>2. ~strayed => \A t \in Sessions : Writer(t) => session[t].path # p
    BY <1>0, <1>f DEF WriterOK, Active, Changing, MapTyped
  <2> QED
    BY <2>1, <2>2
<1>1. ManagerTypeOK'
  BY <1>0, <1>s, <1>u, <1>e, <1>r, <1>f DEF ManagerTypeOK, MapTyped
<1>2. QueueOK'
  BY <1>0, <1>s, <1>u, <1>e, <1>r, <1>f DEF QueueOK, Reserves, MapTyped
<1>3. CreatedOK'
  <2>1. {t \in Sessions : session'[t].path # "none"} = 1..s /\ s \in 0..MaxSessions
    <3>1. s \in Nat /\ s \in 1..MaxSessions /\ Created \in Nat /\ s = Created + 1
      BY <1>n, ManagerBounds DEF Sessions
    <3>2. \A t \in Sessions : session'[t].path # "none" <=> t \in 1..Created \/ t = s
      BY <1>n, <1>e, <1>0 DEF MapTyped
    <3>3. 1..s = 1..Created \cup {s} /\ 1..s \subseteq Sessions
      BY <3>1, ManagerBounds DEF Sessions
    <3>4. \A t \in 1..s : t \in Sessions /\ session'[t].path # "none"
      BY <3>2, <3>3
    <3>5. \A t \in Sessions : session'[t].path # "none" => t \in 1..s
      BY <3>2, <3>3
    <3> QED
      BY <3>1, <3>4, <3>5
  <2> QED
    BY <1>0, <1>s, <1>u, <1>e, <1>r, <1>f, <2>1 DEF CreatedOK, Changing, MapTyped
<1>4. MapOK'
  BY <1>0, <1>s, <1>u, <1>e, <1>r, <1>f DEF MapOK, Changing, MapTyped
<1>5. DetachedOK'
  BY <1>0, <1>s, <1>u, <1>e, <1>r, <1>f DEF DetachedOK, Changing, Holds, MapTyped
<1>6. ClosingOK'
  BY <1>0, <1>s, <1>u, <1>e, <1>r, <1>f DEF ClosingOK, Holds, Active, MapTyped
<1>7. IdleOK'
  BY <1>0, <1>s, <1>u, <1>e, <1>r, <1>f DEF IdleOK, Holds, Active, CloseQueued, MapTyped
<1>8. ~strayed' => WriterOK'
  BY <1>0, <1>s, <1>e, <1>r, <1>f, <1>w DEF WriterOK, Changing, MapTyped
<1> QED
  BY <1>1, <1>2, <1>3, <1>4, <1>5, <1>6, <1>7, <1>8 DEF ManagerInv

\* Acquire waits again, is refused, or takes a session.
LEMMA AcquireStep ==
    ASSUME ManagerInv, NEW u \in Users, Acquire(u), UNCHANGED strayed
    PROVE  ManagerInv'
<1>0. /\ ManagerTypeOK /\ QueueOK /\ CreatedOK /\ MapOK /\ DetachedOK /\ ClosingOK /\ IdleOK
      /\ (~strayed => WriterOK) /\ MapTyped /\ HeadReserved
  BY InvParts
<1> DEFINE p == user[u].path
<1>p. p \in DocPaths /\ user[u].phase = "available"
  BY <1>0 DEF CreatedOK, Acquire
<1>a. CASE Active /\ ~HasPathReservation(p) /\ GetSession(p)
           /\ idleTimer' = idleTimer \ {p}
           /\ user' = [user EXCEPT ![u].phase = "holding", ![u].session = sessionMap'[p]]
  <2>1. CASE sessionMap[p] # NoSession
    BY <1>a, <1>p, <2>1, AcquireOldStep DEF Acquire, GetSession
  <2>2. CASE sessionMap[p] = NoSession
    BY <1>a, <1>p, <2>2, AcquireNewStep DEF Acquire, GetSession
  <2> QED
    BY <2>1, <2>2
<1>b. CASE /\ user' = [user EXCEPT ![u].phase = "waiting"] \/ user' = [user EXCEPT ![u] = NoUse]
           /\ UNCHANGED <<sessionMap, session, idleTimer>>
  <2>e. /\ user' \in [Users -> UserType]
        /\ \A v \in Users \ {u} : user'[v] = user[v]
        /\ user[u].phase = "available" /\ user'[u].phase \in {"waiting", "idle"}
        /\ user'[u].phase = "waiting" => user'[u].path = user[u].path
        /\ UNCHANGED <<sessionMap, session, idleTimer, mutations, asked, managerState, strayed>>
    BY <1>0, <1>b DEF Acquire, NoUse, ManagerTypeOK, UserType, NoSession
  <2>r. \A kind, t : RunsOn(kind, t)' = RunsOn(kind, t)
    BY <2>e DEF RunsOn
  <2>1. ManagerTypeOK' /\ QueueOK'
    BY <1>0, <2>e DEF ManagerTypeOK, QueueOK, Reserves
  <2>2. CreatedOK' /\ MapOK'
    BY <1>0, <2>e, <2>r DEF CreatedOK, MapOK, Changing
  <2>3. DetachedOK' /\ ClosingOK' /\ IdleOK'
    BY <1>0, <2>e, <2>r DEF DetachedOK, ClosingOK, IdleOK, Changing, Holds, Active, CloseQueued
  <2>4. ~strayed' => WriterOK'
    BY <1>0, <2>e, <2>r DEF WriterOK, Writer, Changing, Holds
  <2> QED
    BY <2>1, <2>2, <2>3, <2>4 DEF ManagerInv
<1> QED
  BY <1>a, <1>b DEF Acquire

\* A session is dropped from the map when nobody holds it and it was never opened.
LEMMA ReleaseStep ==
    ASSUME ManagerInv, NEW u \in Users, Release(u), UNCHANGED strayed
    PROVE  ManagerInv'
<1>0. /\ ManagerTypeOK /\ QueueOK /\ CreatedOK /\ MapOK /\ DetachedOK /\ ClosingOK /\ IdleOK
      /\ (~strayed => WriterOK) /\ MapTyped /\ HeadReserved
  BY InvParts
<1>s. PICK s \in Sessions : s = user[u].session /\ user[u].phase = "holding"
  BY <1>0 DEF Release, CreatedOK
<1>p. PICK p \in DocPaths : /\ p = FindSessionPath(sessionMap, s, user[u].path)
                            /\ \A q \in DocPaths : sessionMap[q] = s => p = q
  BY <1>0, <1>s DEF FindSessionPath, CreatedOK, MapOK, MapTyped
<1> DEFINE inUse == \E v \in Users \ {u} : user[v].phase = "holding" /\ user[v].session = sessionMap[p]
           drops == sessionMap' = [sessionMap EXCEPT ![p] = NoSession] /\ idleTimer' = idleTimer \ {p}
<1>u. /\ user' \in [Users -> UserType]
      /\ \A v \in Users \ {u} : user'[v] = user[v]
      /\ user'[u].phase = "idle"
      /\ UNCHANGED <<session, mutations, asked, managerState, strayed>>
  BY <1>0 DEF Release, NoUse, ManagerTypeOK, UserType, NoSession
<1>r. \A kind, t : RunsOn(kind, t)' = RunsOn(kind, t)
  BY <1>u DEF RunsOn
<1>h. \A t : \A v \in Users : Holds(v, t)' => Holds(v, t)
  BY <1>u DEF Holds
<1>k. \A t \in Sessions \ {s} : (\E v \in Users : Holds(v, t)) => \E v \in Users : Holds(v, t)'
  BY <1>u, <1>s DEF Holds
<1>c. \/ UNCHANGED <<sessionMap, idleTimer>> /\ (Active /\ sessionMap[p] = s => \E v \in Users : Holds(v, s)')
      \/ drops /\ Active /\ sessionMap[p] # NoSession /\ ~inUse /\ ~session[sessionMap[p]].opened
      \/ sessionMap' = sessionMap /\ idleTimer' = idleTimer \cup {p} /\ sessionMap[p] # NoSession
         /\ session[sessionMap[p]].opened
  <2>1. CASE HeldBy(s) \ {u} # {}
    BY <2>1, <1>u, <1>s DEF Release, HeldBy, Holds
  <2>2. CASE HeldBy(s) \ {u} = {}
    <3>1. ScheduleIdleClose(p, sessionMap, idleTimer, inUse, sessionMap[p] # NoSession /\ IsOpened(sessionMap[p]))
      BY <1>s, <1>p, <2>2 DEF Release
    <3>2. CASE ~Active \/ sessionMap[p] = NoSession \/ inUse
      <4>1. UNCHANGED <<sessionMap, idleTimer>>
        BY <3>1, <3>2 DEF ScheduleIdleClose
      <4>2. inUse /\ sessionMap[p] = s => \E v \in Users : Holds(v, s)'
        BY <1>u, <1>s DEF Holds
      <4> QED
        BY <1>0, <1>s, <3>2, <4>1, <4>2 DEF MapTyped
    <3>3. CASE ~(~Active \/ sessionMap[p] = NoSession \/ inUse)
      <4>1. sessionMap[p] # NoSession => ~session[sessionMap[p]].deleted
        BY <1>0, <1>p DEF MapOK
      <4> QED
        BY <3>1, <3>3, <4>1 DEF ScheduleIdleClose, IsOpened
    <3> QED
      BY <3>2, <3>3
  <2> QED
    BY <2>1, <2>2
<1>i. /\ idleTimer' \in SUBSET DocPaths /\ sessionMap' \in [DocPaths -> Sessions \cup {NoSession}]
      /\ \A q \in DocPaths : q # p => sessionMap'[q] = sessionMap[q] /\ (q \in idleTimer => q \in idleTimer')
      /\ sessionMap'[p] = NoSession \/ sessionMap'[p] = sessionMap[p]
  BY <1>0, <1>p, <1>c DEF ManagerTypeOK
<1>1. ManagerTypeOK'
  BY <1>0, <1>i, <1>u DEF ManagerTypeOK
<1>2. QueueOK'
  BY <1>0, <1>u DEF QueueOK, Reserves
<1>3. CreatedOK'
  BY <1>0, <1>i, <1>p, <1>u, <1>r DEF CreatedOK, Changing, MapTyped
<1>4. MapOK'
  BY <1>0, <1>i, <1>p, <1>u, <1>r DEF MapOK, Changing, MapTyped
<1>5. DetachedOK'
  BY <1>0, <1>i, <1>p, <1>u, <1>r, <1>h DEF DetachedOK, Changing, MapTyped
<1>6. ClosingOK'
  BY <1>0, <1>u, <1>r, <1>h DEF ClosingOK, Active
<1>7. IdleOK'
  <2> SUFFICES ASSUME Active, NEW q \in DocPaths, sessionMap'[q] # NoSession,
                      (\A v \in Users : ~Holds(v, sessionMap[q]))'
               PROVE  /\ session[sessionMap[q]].opened
                      /\ ~session[sessionMap[q]].refused => q \in idleTimer' \/ CloseQueued(q)
    BY <1>i, <1>u, <1>p DEF IdleOK, Active, CloseQueued
  <2>1. sessionMap'[q] = sessionMap[q] /\ sessionMap[q] \in Sessions
    BY <1>0, <1>i, <1>p DEF MapTyped
  <2>2. CASE sessionMap[q] # s
    BY <1>0, <1>c, <1>i, <1>p, <1>k, <2>1, <2>2 DEF IdleOK
  <2>3. CASE sessionMap[q] = s
    BY <1>0, <1>c, <1>p, <2>1, <2>3 DEF ManagerTypeOK
  <2> QED
    BY <2>2, <2>3
<1>8. ~strayed' => WriterOK'
  <2> SUFFICES ASSUME ~strayed PROVE WriterOK'
    BY <1>u
  <2>1. \A t \in Sessions : Writer(t)' => Writer(t)
    BY <1>u, <1>h DEF Writer
  <2>2. ASSUME NEW t \in Sessions, Writer(t)', sessionMap'[session[t].path] # sessionMap[session[t].path]
        PROVE  FALSE
    <3>1. Writer(t) /\ session[t].path = p
      BY <1>0, <1>i, <2>1, <2>2 DEF MapTyped
    <3>2. drops /\ Active /\ sessionMap[p] # NoSession /\ ~inUse /\ ~session[sessionMap[p]].opened
      BY <1>c, <2>2
    <3>3. sessionMap[p] = t
      BY <1>0, <3>1, <3>2 DEF WriterOK, MapOK, Changing, Active
    <3>4. ~session[t].opened /\ ~session[t].listening
      BY <1>0, <3>2, <3>3 DEF CreatedOK
    <3> QED
      BY <1>u, <2>2, <3>2, <3>3, <3>4 DEF Writer, Holds
  <2> QED
    BY <1>0, <1>i, <1>u, <1>r, <2>1, <2>2 DEF WriterOK, Changing, MapTyped
<1> QED
  BY <1>1, <1>2, <1>3, <1>4, <1>5, <1>6, <1>7, <1>8 DEF ManagerInv

\* A mutation is chained; an idle timer that fires is replaced by a queued close.
LEMMA ChainedStep ==
    ASSUME ManagerInv, NEW m \in MutationType, m.phase = "queued", Reserves(m), m.kind # "manager",
           Active, mutations' = Append(mutations, m), asked' \in Nat, idleTimer' \in SUBSET DocPaths,
           \A p \in idleTimer : p \in idleTimer' \/ (m.kind = "close" /\ m.from = p),
           UNCHANGED <<sessionMap, session, user, managerState, strayed>>
    PROVE  ManagerInv'
<1>0. /\ ManagerTypeOK /\ QueueOK /\ CreatedOK /\ MapOK /\ DetachedOK /\ ClosingOK /\ IdleOK
      /\ (~strayed => WriterOK) /\ MapTyped /\ HeadReserved
  BY InvParts
<1>q. QueueOK' /\ (\A p : CloseQueued(p) => CloseQueued(p)')
      /\ \A p : m.kind = "close" /\ m.from = p => CloseQueued(p)'
  BY <1>0, AppendKeepsQueue
<1>r. /\ \A kind, t : RunsOn(kind, t)' = RunsOn(kind, t)
      /\ mutations' \in Seq(MutationType) /\ (mutations # <<>> => mutations'[1] = mutations[1])
  BY <1>0, QueueAppends
<1>f. \A t : Changing(t) => mutations'[1] = mutations[1]
  BY <1>r DEF Changing, RunsOn
<1>1. ManagerTypeOK'
  BY <1>0, <1>q, <1>r, <1>f DEF ManagerTypeOK
<1>3. CreatedOK'
  BY <1>0, <1>q, <1>r, <1>f DEF CreatedOK, Changing, MapTyped
<1>4. MapOK'
  BY <1>0, <1>q, <1>r, <1>f DEF MapOK, Changing, MapTyped
<1>5. DetachedOK'
  BY <1>0, <1>q, <1>r, <1>f DEF DetachedOK, Changing, Holds, MapTyped
<1>6. ClosingOK'
  BY <1>0, <1>q, <1>r, <1>f DEF ClosingOK, Changing, Holds, Active
<1>7. IdleOK'
  BY <1>0, <1>q, <1>r, <1>f DEF IdleOK, Holds, Active, MapTyped
<1>8. ~strayed' => WriterOK'
  BY <1>0, <1>q, <1>r, <1>f DEF WriterOK, Changing, Writer, Holds, MapTyped
<1> QED
  BY <1>q, <1>1, <1>3, <1>4, <1>5, <1>6, <1>7, <1>8 DEF ManagerInv

\* A mutation that is no close ends without effect on sessions and map.
LEMMA EndedStep ==
    ASSUME ManagerInv, mutations # <<>>, Ends, mutations[1].kind \notin {"manager", "close"},
           UNCHANGED <<sessionMap, session, user, idleTimer, asked, managerState, strayed>>
    PROVE  ManagerInv'
<1>0. /\ ManagerTypeOK /\ QueueOK /\ CreatedOK /\ MapOK /\ DetachedOK /\ ClosingOK /\ IdleOK
      /\ (~strayed => WriterOK) /\ MapTyped /\ HeadReserved
  BY InvParts
<1>q. QueueOK' /\ \A p : CloseQueued(p) => CloseQueued(p)'
  BY <1>0, EndKeepsQueue
<1>r. (\A kind, t : ~RunsOn(kind, t)') /\ mutations' \in Seq(MutationType)
  BY <1>0, QueueEnds
<1>f. \A t : ~RunsOn("close", t)
  BY DEF RunsOn
<1>1. ManagerTypeOK'
  BY <1>0, <1>q, <1>r, <1>f DEF ManagerTypeOK
<1>3. CreatedOK'
  BY <1>0, <1>q, <1>r, <1>f DEF CreatedOK, Changing, MapTyped
<1>4. MapOK'
  BY <1>0, <1>q, <1>r, <1>f DEF MapOK, Changing, MapTyped
<1>5. DetachedOK'
  BY <1>0, <1>q, <1>r, <1>f DEF DetachedOK, Changing, Holds, MapTyped
<1>6. ClosingOK'
  BY <1>0, <1>q, <1>r, <1>f DEF ClosingOK, Changing, Holds, Active
<1>7. IdleOK'
  BY <1>0, <1>q, <1>r, <1>f DEF IdleOK, Holds, Active, MapTyped
<1>8. ~strayed' => WriterOK'
  BY <1>0, <1>q, <1>r, <1>f DEF WriterOK, Changing, Writer, Holds, MapTyped
<1> QED
  BY <1>q, <1>1, <1>3, <1>4, <1>5, <1>6, <1>7, <1>8 DEF ManagerInv

\* A move, a delete or a stable read starts to run on the session of its path.
LEMMA StartedStep ==
    ASSUME ManagerInv, mutations # <<>>, mutations[1].kind \in {"move", "delete", "stable"}, NEW s \in Sessions \cup {NoSession},
           s = sessionMap[mutations[1].from], Continues(s),
           mutations[1].kind # "stable" => s # NoSession,
           mutations[1].kind = "move" => sessionMap[mutations[1].to] \in {NoSession, s},
           UNCHANGED <<sessionMap, session, user, idleTimer, asked, managerState, strayed>>
    PROVE  ManagerInv'
<1>0. /\ ManagerTypeOK /\ QueueOK /\ CreatedOK /\ MapOK /\ DetachedOK /\ ClosingOK /\ IdleOK
      /\ (~strayed => WriterOK) /\ MapTyped /\ HeadReserved
  BY InvParts
<1>q. QueueOK' /\ \A p : CloseQueued(p) => CloseQueued(p)'
  BY <1>0, ContinueKeepsQueue
<1>r. /\ \A kind, t : RunsOn(kind, t)' <=> kind = mutations[1].kind /\ t = s
      /\ mutations' \in Seq(MutationType) /\ mutations'[1].from = mutations[1].from
      /\ mutations'[1].to = mutations[1].to
  BY <1>0, QueueContinues
<1>f. (\A t : ~RunsOn("close", t)) /\ (\A t : ~RunsOn("close", t)')
  BY <1>r DEF RunsOn
<1>m. /\ mutations[1].from \in DocPaths
      /\ mutations[1].kind = "move" => /\ mutations[1].to \in DocPaths /\ mutations[1].from # mutations[1].to
                                       /\ sessionMap[mutations[1].to] = NoSession
  <2>1. 1 \in DOMAIN mutations
    BY <1>0 DEF ManagerTypeOK
  <2>2. Reserves(mutations[1])
    BY <1>0, <2>1 DEF QueueOK
  <2> QED
    BY <1>0, <2>2 DEF Reserves, MapOK
<1>c. \A t : Changing(t)' => t = s /\ s \in Sessions
  BY <1>r DEF Changing
<1>1. ManagerTypeOK'
  BY <1>0, <1>q, <1>r, <1>f, <1>m, <1>c DEF ManagerTypeOK
<1>3. CreatedOK'
  BY <1>0, <1>q, <1>r, <1>f, <1>m, <1>c DEF CreatedOK, Changing, MapTyped
<1>4. MapOK'
  BY <1>0, <1>q, <1>r, <1>f, <1>m, <1>c DEF MapOK, Changing, MapTyped
<1>5. DetachedOK'
  BY <1>0, <1>q, <1>r, <1>f, <1>m, <1>c DEF DetachedOK, Changing, Holds, MapTyped
<1>6. ClosingOK'
  BY <1>0, <1>q, <1>r, <1>f, <1>m, <1>c DEF ClosingOK, Changing, Holds, Active
<1>7. IdleOK'
  BY <1>0, <1>q, <1>r, <1>f, <1>m, <1>c DEF IdleOK, Holds, Active, MapTyped
<1>8. ~strayed' => WriterOK'
  BY <1>0, <1>q, <1>r, <1>f, <1>m, <1>c DEF WriterOK, Changing, Writer, Holds, MapTyped
<1> QED
  BY <1>q, <1>1, <1>3, <1>4, <1>5, <1>6, <1>7, <1>8 DEF ManagerInv

\* A close is given up: nothing to close, somebody holds the session, or it cannot
\* persist and is refused.
LEMMA CloseSkippedStep ==
    ASSUME ManagerInv, NEW p \in DocPaths, mutations # <<>>, mutations[1].kind = "close", mutations[1].phase = "queued",
           mutations[1].from = p, Ends, idleTimer' = idleTimer \ {p},
           session' \in [Sessions -> SessionType],
           \A t \in Sessions : t # sessionMap[p] => session'[t] = session[t],
           \A t \in Sessions : /\ session'[t].path = session[t].path /\ session'[t].opened = session[t].opened
                               /\ session'[t].listening = session[t].listening
                               /\ session'[t].deleted = session[t].deleted,
           \/ sessionMap[p] = NoSession
           \/ \E u \in Users : Holds(u, sessionMap[p])
           \/ session'[sessionMap[p]].refused,
           UNCHANGED <<sessionMap, user, asked, managerState, strayed>>
    PROVE  ManagerInv'
<1>0. /\ ManagerTypeOK /\ QueueOK /\ CreatedOK /\ MapOK /\ DetachedOK /\ ClosingOK /\ IdleOK
      /\ (~strayed => WriterOK) /\ MapTyped /\ HeadReserved
  BY InvParts
<1>q. QueueOK' /\ \A q : q # p /\ CloseQueued(q) => CloseQueued(q)'
  BY <1>0, EndKeepsQueue
<1>r. (\A kind, t : ~RunsOn(kind, t)') /\ mutations' \in Seq(MutationType)
  BY <1>0, QueueEnds
<1>f. \A kind, t : ~RunsOn(kind, t)
  BY DEF RunsOn
<1>1. ManagerTypeOK'
  BY <1>0, <1>q, <1>r, <1>f DEF ManagerTypeOK
<1>3. CreatedOK'
  BY <1>0, <1>q, <1>r, <1>f DEF CreatedOK, Changing, MapTyped
<1>4. MapOK'
  BY <1>0, <1>q, <1>r, <1>f DEF MapOK, Changing, MapTyped
<1>5. DetachedOK'
  BY <1>0, <1>q, <1>r, <1>f DEF DetachedOK, Changing, Holds, MapTyped
<1>6. ClosingOK'
  BY <1>0, <1>q, <1>r, <1>f DEF ClosingOK, Changing, Holds, Active
<1>7. IdleOK'
  <2> SUFFICES ASSUME Active, NEW q \in DocPaths, sessionMap[q] # NoSession,
                      \A u \in Users : ~Holds(u, sessionMap[q])
               PROVE  /\ session'[sessionMap[q]].opened
                      /\ ~session'[sessionMap[q]].refused => q \in idleTimer' \/ CloseQueued(q)'
    BY DEF IdleOK, Active, Holds
  <2>1. sessionMap[q] \in Sessions /\ session[sessionMap[q]].opened
        /\ (~session[sessionMap[q]].refused => q \in idleTimer \/ CloseQueued(q))
    BY <1>0 DEF IdleOK, MapTyped
  <2>2. CASE q = p
    BY <2>1, <2>2
  <2>3. CASE q # p
    <3>1. sessionMap[q] # sessionMap[p]
      BY <1>0, <2>3 DEF MapOK
    <3> QED
      BY <1>q, <2>1, <2>3, <3>1
  <2> QED
    BY <2>2, <2>3
<1>8. ~strayed' => WriterOK'
  BY <1>0, <1>q, <1>r, <1>f DEF WriterOK, Changing, Writer, Holds, MapTyped
<1> QED
  BY <1>q, <1>1, <1>3, <1>4, <1>5, <1>6, <1>7, <1>8 DEF ManagerInv

\* A close starts: the entry goes first, the session still writes.
LEMMA CloseRunsStep ==
    ASSUME ManagerInv, NEW p \in DocPaths, NEW s \in Sessions, mutations # <<>>,
           mutations[1].kind = "close", mutations[1].phase = "queued", mutations[1].from = p,
           s = sessionMap[p], \A u \in Users : ~Holds(u, s), Continues(s),
           sessionMap' = [sessionMap EXCEPT ![p] = NoSession], idleTimer' = idleTimer \ {p},
           UNCHANGED <<session, user, asked, managerState, strayed>>
    PROVE  ManagerInv'
<1>0. /\ ManagerTypeOK /\ QueueOK /\ CreatedOK /\ MapOK /\ DetachedOK /\ ClosingOK /\ IdleOK
      /\ (~strayed => WriterOK) /\ MapTyped /\ HeadReserved
  BY InvParts
<1>q. QueueOK' /\ \A q : q # p /\ CloseQueued(q) => CloseQueued(q)'
  BY <1>0, ContinueKeepsQueue
<1>r. /\ \A kind, t : RunsOn(kind, t)' <=> kind = "close" /\ t = s
      /\ mutations' \in Seq(MutationType) /\ mutations'[1].from = p
  <2>1. s \in Sessions \cup {NoSession}
    OBVIOUS
  <2> QED
    BY <1>0, <2>1, QueueContinues, ZenonT(40)
<1>f. \A kind, t : ~RunsOn(kind, t)
  BY DEF RunsOn
<1>e. /\ sessionMap' \in [DocPaths -> Sessions \cup {NoSession}] /\ sessionMap'[p] = NoSession
      /\ \A q \in DocPaths \ {p} : sessionMap'[q] = sessionMap[q] /\ sessionMap[q] # s
  BY <1>0 DEF ManagerTypeOK, MapOK, MapTyped
<1>o. Active => session[s].opened
  BY <1>0 DEF IdleOK, MapTyped
<1>1. ManagerTypeOK'
  BY <1>0, <1>q, <1>r, <1>f, <1>e, <1>o DEF ManagerTypeOK
<1>3. CreatedOK'
  BY <1>0, <1>q, <1>r, <1>f, <1>e, <1>o DEF CreatedOK, Changing, MapTyped
<1>4. MapOK'
  BY <1>0, <1>q, <1>r, <1>f, <1>e, <1>o DEF MapOK, Changing, MapTyped
<1>5. DetachedOK'
  BY <1>0, <1>q, <1>r, <1>f, <1>e, <1>o DEF DetachedOK, Changing, Holds, MapTyped
<1>6. ClosingOK'
  BY <1>0, <1>q, <1>r, <1>f, <1>e, <1>o DEF ClosingOK, Changing, Holds, Active
<1>7. IdleOK'
  BY <1>0, <1>q, <1>r, <1>f, <1>e, <1>o DEF IdleOK, Holds, Active, MapTyped
<1>8. ~strayed' => WriterOK'
  BY <1>0, <1>q, <1>r, <1>f, <1>e, <1>o DEF WriterOK, Changing, Writer, Holds, MapTyped
<1> QED
  BY <1>q, <1>1, <1>3, <1>4, <1>5, <1>6, <1>7, <1>8 DEF ManagerInv

\* closeSessionUnlocked gives up or starts.
LEMMA CloseStartsStep ==
    ASSUME ManagerInv, CloseStarts, UNCHANGED strayed
    PROVE  ManagerInv'
<1>0. /\ ManagerTypeOK /\ QueueOK /\ CreatedOK /\ MapOK /\ DetachedOK /\ ClosingOK /\ IdleOK
      /\ (~strayed => WriterOK) /\ MapTyped /\ HeadReserved
  BY InvParts
<1>h. /\ mutations # <<>> /\ Head(mutations) = mutations[1] /\ mutations[1] \in MutationType
      /\ mutations[1].kind = "close" /\ mutations[1].phase = "queued"
  BY <1>0 DEF CloseStarts, Running, ManagerTypeOK
<1>v. Reserves(mutations[1])
  <2>1. 1 \in DOMAIN mutations
    BY <1>0, <1>h DEF ManagerTypeOK
  <2> QED
    BY <1>0, <2>1 DEF QueueOK
<1>p. PICK p \in DocPaths : p = mutations[1].from
  BY <1>h, <1>v DEF Reserves
<1>s. PICK s \in Sessions \cup {NoSession} : s = sessionMap[p]
  BY <1>0 DEF MapTyped
<1>u. IsSessionInUse(s) <=> \E u \in Users : Holds(u, s)
  BY DEF IsSessionInUse, HeldBy, Holds
<1>1. CASE s = NoSession \/ IsSessionInUse(s) \/ session[s].failing
  <2>1. /\ idleTimer' = idleTimer \ {p} /\ Ends
        /\ session' = IF s # NoSession /\ session[s].failing /\ ~IsSessionInUse(s)
                      THEN [session EXCEPT ![s].refused = TRUE] ELSE session
        /\ UNCHANGED <<sessionMap, user, asked, managerState, strayed>>
    BY <1>1, <1>h, <1>p, <1>s DEF CloseStarts
  <2>2. CASE s # NoSession /\ session[s].failing /\ ~IsSessionInUse(s)
    <3>1. session' = [session EXCEPT ![s].refused = TRUE] /\ s \in Sessions
      BY <2>1, <2>2
    <3>2. /\ session' \in [Sessions -> SessionType] /\ session'[s].refused
          /\ \A t \in Sessions : t # s => session'[t] = session[t]
          /\ \A t \in Sessions : /\ session'[t].path = session[t].path /\ session'[t].opened = session[t].opened
                                 /\ session'[t].listening = session[t].listening
                                 /\ session'[t].deleted = session[t].deleted
      BY <1>0, <3>1 DEF ManagerTypeOK, SessionType
    <3> QED
      BY <1>h, <1>p, <1>s, <2>1, <3>2, CloseSkippedStep
  <2>3. CASE ~(s # NoSession /\ session[s].failing /\ ~IsSessionInUse(s))
    <3>1. session' = session /\ session' \in [Sessions -> SessionType]
      BY <1>0, <2>1, <2>3 DEF ManagerTypeOK
    <3>2. sessionMap[p] = NoSession \/ \E u \in Users : Holds(u, sessionMap[p])
      BY <1>1, <1>s, <1>u, <2>3
    <3> QED
      BY <1>h, <1>p, <2>1, <3>1, <3>2, CloseSkippedStep
  <2> QED
    BY <2>2, <2>3
<1>2. CASE ~(s = NoSession \/ IsSessionInUse(s) \/ session[s].failing)
  <2>1. /\ idleTimer' = idleTimer \ {p} /\ Continues(s) /\ sessionMap' = [sessionMap EXCEPT ![p] = NoSession]
        /\ UNCHANGED <<session, user, asked, managerState, strayed>>
    BY <1>2, <1>h, <1>p, <1>s DEF CloseStarts
  <2>2. s \in Sessions /\ \A u \in Users : ~Holds(u, s)
    BY <1>2, <1>u
  <2> QED
    BY <1>h, <1>p, <1>s, <2>1, <2>2, CloseRunsStep
<1> QED
  BY <1>1, <1>2

\* A close ends: the session is detached, or put back where it was.
LEMMA CloseEndsStep ==
    ASSUME ManagerInv, CloseEnds, UNCHANGED strayed
    PROVE  ManagerInv'
<1>0. /\ ManagerTypeOK /\ QueueOK /\ CreatedOK /\ MapOK /\ DetachedOK /\ ClosingOK /\ IdleOK
      /\ (~strayed => WriterOK) /\ MapTyped /\ HeadReserved
  BY InvParts
<1>h. /\ mutations # <<>> /\ Head(mutations) = mutations[1] /\ mutations[1] \in MutationType
      /\ mutations[1].kind = "close" /\ mutations[1].phase = "running"
  BY <1>0 DEF CloseEnds, Running, ManagerTypeOK
<1>v. Reserves(mutations[1])
  <2>1. 1 \in DOMAIN mutations
    BY <1>0, <1>h DEF ManagerTypeOK
  <2> QED
    BY <1>0, <2>1 DEF QueueOK
<1>q. QueueOK' /\ \A q : CloseQueued(q) => CloseQueued(q)'
  BY <1>0, <1>h, EndKeepsQueue DEF CloseEnds
<1>r. (\A kind, t : ~RunsOn(kind, t)') /\ mutations' \in Seq(MutationType)
  BY <1>0, <1>h, QueueEnds DEF CloseEnds
<1>p. PICK p \in DocPaths : p = mutations[1].from
  BY <1>h, <1>v DEF Reserves
<1>s. PICK s \in Sessions : s = mutations[1].session /\ RunsOn("close", s)
  <2>1. mutations[1].session # NoSession
    BY <1>0, <1>h DEF CreatedOK, RunsOn
  <2> QED
    BY <1>h, <2>1 DEF MutationType, RunsOn
<1>t. \A kind, t : RunsOn(kind, t) => kind = "close" /\ t = s
  BY <1>h, <1>s DEF RunsOn
<1>e. /\ session' \in [Sessions -> SessionType]
      /\ \A t \in Sessions \ {s} : session'[t] = session[t]
      /\ session'[s].path = session[s].path /\ session'[s].opened = session[s].opened
      /\ session'[s].deleted = session[s].deleted
      /\ \/ ~session'[s].listening /\ sessionMap' = sessionMap
         \/ /\ session'[s].listening = session[s].listening /\ session'[s].refused /\ ~session[s].deleted
            /\ sessionMap' = [sessionMap EXCEPT ![p] = s]
      /\ UNCHANGED <<user, idleTimer, asked, managerState, strayed>>
  <2>0. UNCHANGED <<user, idleTimer, asked, managerState, strayed>>
    BY DEF CloseEnds
  <2>1. CASE session' = [session EXCEPT ![s].listening = FALSE] /\ sessionMap' = sessionMap
    BY <1>0, <2>0, <2>1 DEF ManagerTypeOK, SessionType
  <2>2. CASE /\ ~session[s].deleted /\ session' = [session EXCEPT ![s].failing = TRUE, ![s].refused = TRUE]
             /\ sessionMap' = [sessionMap EXCEPT ![p] = s]
    BY <1>0, <2>0, <2>2 DEF ManagerTypeOK, SessionType
  <2> QED
    BY <1>h, <1>p, <1>s, <2>1, <2>2 DEF CloseEnds
<1>m. /\ sessionMap' \in [DocPaths -> Sessions \cup {NoSession}]
      /\ \A q \in DocPaths \ {p} : sessionMap'[q] = sessionMap[q] /\ sessionMap[q] # s
      /\ sessionMap[p] = NoSession /\ sessionMap'[p] \in {NoSession, s}
      /\ sessionMap'[p] = s => ~session[s].deleted /\ session'[s].refused
      /\ sessionMap'[p] # s => ~session'[s].listening
  BY <1>0, <1>e, <1>p, <1>s DEF ManagerTypeOK, MapOK, Changing, MapTyped
<1>i. session'[s].listening => session[s].listening
  BY <1>e
<1>u. (\A u \in Users : ~Holds(u, s)) /\ (Active => session[s].opened)
  BY <1>0, <1>s DEF ClosingOK
<1>1. ManagerTypeOK'
  BY <1>0, <1>q, <1>r, <1>p, <1>s, <1>t, <1>e, <1>m, <1>i, <1>u DEF ManagerTypeOK
<1>3. CreatedOK'
  BY <1>0, <1>q, <1>r, <1>p, <1>s, <1>t, <1>e, <1>m, <1>i, <1>u DEF CreatedOK, Changing, MapTyped
<1>4. MapOK'
  BY <1>0, <1>q, <1>r, <1>p, <1>s, <1>t, <1>e, <1>m, <1>i, <1>u DEF MapOK, Changing, MapTyped
<1>5. DetachedOK'
  BY <1>0, <1>q, <1>r, <1>p, <1>s, <1>t, <1>e, <1>m, <1>i, <1>u DEF DetachedOK, Changing, Holds, MapTyped
<1>6. ClosingOK'
  BY <1>0, <1>q, <1>r, <1>p, <1>s, <1>t, <1>e, <1>m, <1>i, <1>u DEF ClosingOK, Changing, Holds, Active
<1>7. IdleOK'
  BY <1>0, <1>q, <1>r, <1>p, <1>s, <1>t, <1>e, <1>m, <1>i, <1>u DEF IdleOK, Holds, Active, MapTyped
<1>8. ~strayed' => WriterOK'
  BY <1>0, <1>q, <1>r, <1>p, <1>s, <1>t, <1>e, <1>m, <1>i, <1>u DEF WriterOK, Changing, Writer, Holds, MapTyped
<1> QED
  BY <1>q, <1>1, <1>3, <1>4, <1>5, <1>6, <1>7, <1>8 DEF ManagerInv

\* A note is deleted with its session, or the removal fails.
LEMMA DeleteEndsStep ==
    ASSUME ManagerInv, DeleteEnds, UNCHANGED strayed
    PROVE  ManagerInv'
<1>0. /\ ManagerTypeOK /\ QueueOK /\ CreatedOK /\ MapOK /\ DetachedOK /\ ClosingOK /\ IdleOK
      /\ (~strayed => WriterOK) /\ MapTyped /\ HeadReserved
  BY InvParts
<1>h. /\ mutations # <<>> /\ Head(mutations) = mutations[1] /\ mutations[1] \in MutationType
      /\ mutations[1].kind = "delete" /\ mutations[1].phase = "running"
  BY <1>0 DEF DeleteEnds, Running, ManagerTypeOK
<1>v. Reserves(mutations[1])
  <2>1. 1 \in DOMAIN mutations
    BY <1>0, <1>h DEF ManagerTypeOK
  <2> QED
    BY <1>0, <2>1 DEF QueueOK
<1>q. QueueOK' /\ \A q : CloseQueued(q) => CloseQueued(q)'
  BY <1>0, <1>h, EndKeepsQueue DEF DeleteEnds
<1>r. (\A kind, t : ~RunsOn(kind, t)') /\ mutations' \in Seq(MutationType)
  BY <1>0, <1>h, QueueEnds DEF DeleteEnds
<1>p. PICK p \in DocPaths : p = mutations[1].from
  BY <1>h, <1>v DEF Reserves
<1>s. PICK s \in Sessions : s = mutations[1].session /\ RunsOn("delete", s)
  <2>1. mutations[1].session # NoSession
    BY <1>0, <1>h DEF CreatedOK, RunsOn
  <2> QED
    BY <1>h, <2>1 DEF MutationType, RunsOn
<1>t. \A kind, t : RunsOn(kind, t) => kind = "delete" /\ t = s
  BY <1>h, <1>s DEF RunsOn
<1>e. /\ session' \in [Sessions -> SessionType]
      /\ \A t \in Sessions \ {s} : session'[t] = session[t]
      /\ session'[s].path = session[s].path /\ session'[s].opened = session[s].opened
      /\ session'[s].refused = session[s].refused
      /\ \/ /\ ~session'[s].listening /\ session'[s].deleted
            /\ sessionMap' = [sessionMap EXCEPT ![p] = NoSession]
         \/ sessionMap' = sessionMap /\ session' = session
      /\ UNCHANGED <<user, idleTimer, asked, managerState, strayed>>
  <2>0. UNCHANGED <<user, idleTimer, asked, managerState, strayed>>
    BY DEF DeleteEnds
  <2>1. CASE /\ session' = [session EXCEPT ![s].deleted = TRUE, ![s].listening = FALSE]
             /\ sessionMap' = [sessionMap EXCEPT ![p] = NoSession]
    BY <1>0, <2>0, <2>1, ZenonT(40) DEF ManagerTypeOK, SessionType
  <2>2. CASE UNCHANGED <<session, sessionMap>>
    BY <1>0, <2>0, <2>2 DEF ManagerTypeOK
  <2> QED
    BY <1>h, <1>p, <1>s, <2>1, <2>2 DEF DeleteEnds
<1>m. /\ sessionMap' \in [DocPaths -> Sessions \cup {NoSession}]
      /\ \A q \in DocPaths \ {p} : sessionMap'[q] = sessionMap[q] /\ sessionMap[q] # s
      /\ sessionMap'[p] \in {NoSession, sessionMap[p]} /\ sessionMap[p] \in {NoSession, s}
      /\ sessionMap'[p] = NoSession \/ session' = session
      /\ sessionMap'[p] # sessionMap[p] => session'[s].deleted /\ ~session'[s].listening
  BY <1>0, <1>e, <1>p, <1>s DEF ManagerTypeOK, MapOK, Changing, MapTyped
<1>1. ManagerTypeOK'
  BY <1>0, <1>q, <1>r, <1>p, <1>s, <1>t, <1>e, <1>m DEF ManagerTypeOK
<1>3. CreatedOK'
  BY <1>0, <1>q, <1>r, <1>p, <1>s, <1>t, <1>e, <1>m DEF CreatedOK, Changing, MapTyped
<1>4. MapOK'
  BY <1>0, <1>q, <1>r, <1>p, <1>s, <1>t, <1>e, <1>m DEF MapOK, Changing, MapTyped
<1>5. DetachedOK'
  BY <1>0, <1>q, <1>r, <1>p, <1>s, <1>t, <1>e, <1>m DEF DetachedOK, Changing, Holds, MapTyped
<1>6. ClosingOK'
  BY <1>0, <1>q, <1>r, <1>p, <1>s, <1>t, <1>e, <1>m DEF ClosingOK, Changing, Holds, Active
<1>7. IdleOK'
  BY <1>0, <1>q, <1>r, <1>p, <1>s, <1>t, <1>e, <1>m DEF IdleOK, Holds, Active, MapTyped
<1>8. ~strayed' => WriterOK'
  BY <1>0, <1>q, <1>r, <1>p, <1>s, <1>t, <1>e, <1>m DEF WriterOK, Changing, Writer, Holds, MapTyped
<1> QED
  BY <1>q, <1>1, <1>3, <1>4, <1>5, <1>6, <1>7, <1>8 DEF ManagerInv

\* A move ends: the session is rekeyed, untouched, or strays from its entry.
LEMMA MoveEndsStep ==
    ASSUME ManagerInv, MoveEnds
    PROVE  ManagerInv'
<1>0. /\ ManagerTypeOK /\ QueueOK /\ CreatedOK /\ MapOK /\ DetachedOK /\ ClosingOK /\ IdleOK
      /\ (~strayed => WriterOK) /\ MapTyped /\ HeadReserved
  BY InvParts
<1>h. /\ mutations # <<>> /\ Head(mutations) = mutations[1] /\ mutations[1] \in MutationType
      /\ mutations[1].kind = "move" /\ mutations[1].phase = "running"
  BY <1>0, SMTT(30) DEF MoveEnds, Running, ManagerTypeOK
<1>v. Reserves(mutations[1])
  <2>1. 1 \in DOMAIN mutations
    BY <1>0, <1>h DEF ManagerTypeOK
  <2> QED
    BY <1>0, <2>1 DEF QueueOK
<1>q. QueueOK' /\ \A q : CloseQueued(q) => CloseQueued(q)'
  BY <1>0, <1>h, EndKeepsQueue DEF MoveEnds
<1>r. (\A kind, t : ~RunsOn(kind, t)') /\ mutations' \in Seq(MutationType)
  BY <1>0, <1>h, QueueEnds DEF MoveEnds
<1>p. PICK p \in DocPaths, to \in DocPaths : p = mutations[1].from /\ to = mutations[1].to /\ p # to
  BY <1>h, <1>v DEF Reserves
<1>s. PICK s \in Sessions : s = mutations[1].session /\ RunsOn("move", s)
  <2>1. mutations[1].session # NoSession
    BY <1>0, <1>h DEF CreatedOK, RunsOn
  <2> QED
    BY <1>h, <2>1 DEF MutationType, RunsOn
<1>t. \A kind, t : RunsOn(kind, t) => kind = "move" /\ t = s
  BY <1>h, <1>s DEF RunsOn
<1>m. /\ \A q \in DocPaths \ {p} : sessionMap[q] # s
      /\ sessionMap[p] \in {NoSession, s} /\ sessionMap[to] = NoSession
      /\ session[s].path # "none"
  BY <1>0, <1>p, <1>s DEF MapOK, CreatedOK, Changing, MapTyped
<1>u. UNCHANGED <<user, asked, managerState>>
  BY DEF MoveEnds
<1>o. session \in [Sessions -> SessionType] /\ p \in DocPaths /\ to \in DocPaths /\ \A q \in {p, to} : q \in DocPaths
  BY <1>0 DEF ManagerTypeOK
<1>e. \/ UNCHANGED <<session, sessionMap, idleTimer, strayed>>
      \/ /\ session' \in [Sessions -> SessionType]
         /\ \A t \in Sessions \ {s} : session'[t] = session[t]
         /\ session'[s].path \in {p, to} /\ session'[s].opened /\ session'[s].listening /\ ~session'[s].deleted
         /\ session'[s].refused = session[s].refused
         /\ \/ strayed' /\ UNCHANGED <<sessionMap, idleTimer>>
            \/ /\ session'[s].path = to /\ strayed' = strayed
               /\ RekeySession(p, to, s)
  <2>1. CASE UNCHANGED <<session, sessionMap, idleTimer, strayed>>
    BY <2>1
  <2>2. CASE /\ ~session[s].deleted
             /\ \E q \in {p, to} :
                  session' = [session EXCEPT ![s].path = q, ![s].opened = TRUE, ![s].listening = TRUE]
             /\ strayed' = TRUE /\ UNCHANGED <<sessionMap, idleTimer>>
    <3>1. PICK q \in {p, to} : session' = [session EXCEPT ![s].path = q, ![s].opened = TRUE, ![s].listening = TRUE]
      BY <2>2
    <3>2. /\ session' \in [Sessions -> SessionType]
          /\ \A t \in Sessions \ {s} : session'[t] = session[t]
          /\ session'[s].path = q /\ session'[s].opened /\ session'[s].listening /\ ~session'[s].deleted
          /\ session'[s].refused = session[s].refused
      <4> DEFINE r == [session[s] EXCEPT !.path = q, !.opened = TRUE, !.listening = TRUE]
      <4>0. session' = [session EXCEPT ![s] = r]
        BY <1>o, <3>1
      <4>1. /\ r \in SessionType /\ r.path = q /\ r.opened /\ r.listening
            /\ r.deleted = session[s].deleted /\ r.refused = session[s].refused
        BY <1>o DEF SessionType
      <4> HIDE DEF r
      <4>2. session' \in [Sessions -> SessionType] /\ session'[s] = r /\ \A t \in Sessions \ {s} : session'[t] = session[t]
        BY <1>o, <4>0, <4>1
      <4> QED
        BY <2>2, <3>1, <4>1, <4>2
    <3> QED
      BY <2>2, <3>1, <3>2
  <2>3. CASE /\ ~session[s].deleted
             /\ session' = [session EXCEPT ![s].path = to, ![s].opened = TRUE, ![s].listening = TRUE]
             /\ RekeySession(p, to, s) /\ UNCHANGED strayed
    <3>2. /\ session' \in [Sessions -> SessionType]
          /\ \A t \in Sessions \ {s} : session'[t] = session[t]
          /\ session'[s].path = to /\ session'[s].opened /\ session'[s].listening /\ ~session'[s].deleted
          /\ session'[s].refused = session[s].refused
      <4> DEFINE r == [session[s] EXCEPT !.path = to, !.opened = TRUE, !.listening = TRUE]
      <4>0. session' = [session EXCEPT ![s] = r]
        BY <1>o, <2>3
      <4>1. /\ r \in SessionType /\ r.path = to /\ r.opened /\ r.listening
            /\ r.deleted = session[s].deleted /\ r.refused = session[s].refused
        BY <1>o DEF SessionType
      <4> HIDE DEF r
      <4>2. session' \in [Sessions -> SessionType] /\ session'[s] = r /\ \A t \in Sessions \ {s} : session'[t] = session[t]
        BY <1>o, <4>0, <4>1
      <4> QED
        BY <2>3, <4>1, <4>2
    <3> QED
      BY <2>3, <3>2
  <2> QED
    BY <1>h, <1>p, <1>s, <2>1, <2>2, <2>3, ZenonT(40) DEF MoveEnds
<1>a. CASE UNCHANGED <<session, sessionMap, idleTimer, strayed>>
  BY <1>a, <1>h, <1>u, EndedStep DEF MoveEnds
<1> DEFINE moves == /\ session' \in [Sessions -> SessionType]
                    /\ \A t \in Sessions \ {s} : session'[t] = session[t]
                    /\ session'[s].path \in {p, to} /\ session'[s].opened /\ session'[s].listening
                    /\ ~session'[s].deleted /\ session'[s].refused = session[s].refused
<1>b. CASE moves /\ strayed' /\ UNCHANGED <<sessionMap, idleTimer>>
  <2>1. ManagerTypeOK'
    BY <1>0, <1>b, <1>u, <1>r DEF ManagerTypeOK
  <2>2. CreatedOK'
    BY <1>0, <1>b, <1>u, <1>r, <1>m DEF CreatedOK, Changing, MapTyped
  <2>3. MapOK'
    BY <1>0, <1>b, <1>u, <1>r, <1>m DEF MapOK, Changing, MapTyped
  <2>4. DetachedOK'
    BY <1>0, <1>b, <1>u, <1>r DEF DetachedOK, Changing, Holds
  <2>5. ClosingOK' /\ IdleOK'
    BY <1>0, <1>b, <1>u, <1>r, <1>q DEF ClosingOK, IdleOK, Holds, Active, MapTyped
  <2> QED
    BY <1>q, <1>b, <2>1, <2>2, <2>3, <2>4, <2>5 DEF ManagerInv
<1>c. CASE moves /\ session'[s].path = to /\ strayed' = strayed /\ RekeySession(p, to, s)
  <2>m. /\ sessionMap' \in [DocPaths -> Sessions \cup {NoSession}]
        /\ \A q \in DocPaths \ {p, to} : sessionMap'[q] = sessionMap[q]
        /\ sessionMap'[p] = NoSession /\ sessionMap'[to] = s
        /\ idleTimer' \in SUBSET DocPaths
        /\ \A q \in DocPaths \ {p, to} : q \in idleTimer => q \in idleTimer'
        /\ Active /\ (\A u \in Users : ~Holds(u, s)) => to \in idleTimer'
    <3> DEFINE map == [sessionMap EXCEPT ![p] = NoSession, ![to] = s]
    <3>1. /\ map \in [DocPaths -> Sessions \cup {NoSession}] /\ map[p] = NoSession /\ map[to] = s
          /\ \A q \in DocPaths \ {p, to} : map[q] = sessionMap[q]
      BY <1>0, <1>p DEF ManagerTypeOK
    <3>2. ScheduleIdleClose(to, map, idleTimer \ {p, to}, IsSessionInUse(s), TRUE)
      BY <1>c DEF RekeySession
    <3> HIDE DEF map
    <3>3. sessionMap' = map /\ idleTimer' \in {idleTimer \ {p, to}, (idleTimer \ {p, to}) \cup {to}}
          /\ (Active /\ ~IsSessionInUse(s) => to \in idleTimer')
      BY <1>0, <3>1, <3>2 DEF ScheduleIdleClose, MapTyped
    <3>4. IsSessionInUse(s) => ~\A u \in Users : ~Holds(u, s)
      BY DEF IsSessionInUse, HeldBy, Holds
    <3>5. idleTimer \in SUBSET DocPaths
      BY <1>0 DEF ManagerTypeOK
    <3> QED
      BY <3>1, <3>3, <3>4, <3>5
  <2>1. ManagerTypeOK'
    BY <1>0, <1>c, <1>u, <1>r, <2>m DEF ManagerTypeOK
  <2>2. CreatedOK'
    BY <1>0, <1>c, <1>u, <1>r, <1>m, <2>m, SMTT(30) DEF CreatedOK, Changing, MapTyped
  <2>3. MapOK'
    BY <1>0, <1>c, <1>u, <1>r, <1>m, <2>m DEF MapOK, Changing, MapTyped
  <2>4. DetachedOK'
    <3>1. \A q \in DocPaths, t \in Sessions \ {s} : sessionMap'[q] = t => sessionMap[q] = t
      BY <1>0, <2>m DEF MapTyped
    <3> QED
      BY <1>0, <1>c, <1>u, <1>r, <3>1 DEF DetachedOK, Changing, Holds
  <2>5. ClosingOK' /\ IdleOK'
    BY <1>0, <1>c, <1>u, <1>r, <1>q, <1>m, <2>m DEF ClosingOK, IdleOK, Holds, Active, MapTyped
  <2>6. ~strayed' => WriterOK'
    <3> SUFFICES ASSUME ~strayed PROVE WriterOK'
      BY <1>c
    <3>1. \A t \in Sessions \ {s} : Writer(t)' => Writer(t) /\ session'[t].path = session[t].path
      BY <1>c, <1>u DEF Writer, Holds
    <3>2. managerState # "closed"
      BY <1>0, <1>h DEF QueueOK
    <3>3. \A t \in Sessions \ {s} : Writer(t) => /\ sessionMap[session[t].path] = t
                                                 /\ session[t].path \in DocPaths \ {p, to}
      BY <1>0, <1>t, <1>m, <3>2 DEF WriterOK, MapTyped
    <3>4. \A q \in DocPaths : sessionMap'[q] # NoSession => session'[sessionMap'[q]].path = q
      BY <1>0, <1>c, <1>m, <2>m DEF WriterOK, MapTyped
    <3> QED
      BY <1>0, <1>c, <1>r, <2>m, <3>1, <3>3, <3>4 DEF WriterOK, Changing
  <2> QED
    BY <1>q, <2>1, <2>2, <2>3, <2>4, <2>5, <2>6 DEF ManagerInv
<1> QED
  BY <1>a, <1>b, <1>c, <1>e

\* A timer that fires in a manager that is not active any more only goes away.
LEMMA TimerLapsesStep ==
    ASSUME ManagerInv, ~Active, idleTimer' \in SUBSET DocPaths,
           UNCHANGED <<sessionMap, session, user, mutations, asked, managerState, strayed>>
    PROVE  ManagerInv'
<1>0. /\ ManagerTypeOK /\ QueueOK /\ CreatedOK /\ MapOK /\ DetachedOK /\ ClosingOK /\ IdleOK
      /\ (~strayed => WriterOK) /\ MapTyped /\ HeadReserved
  BY InvParts
<1>r. \A kind, t : RunsOn(kind, t)' = RunsOn(kind, t)
  BY DEF RunsOn
<1>1. ManagerTypeOK' /\ QueueOK'
  BY <1>0 DEF ManagerTypeOK, QueueOK, Reserves
<1>2. CreatedOK' /\ MapOK'
  BY <1>0, <1>r DEF CreatedOK, MapOK, Changing
<1>3. DetachedOK' /\ ClosingOK' /\ IdleOK'
  BY <1>0, <1>r DEF DetachedOK, ClosingOK, IdleOK, Changing, Holds, Active
<1>4. ~strayed' => WriterOK'
  BY <1>0, <1>r DEF WriterOK, Writer, Changing, Holds
<1> QED
  BY <1>1, <1>2, <1>3, <1>4 DEF ManagerInv

\* moveSession, deleteSession and withStablePath chain a mutation.
LEMMA RequestStep ==
    ASSUME ManagerInv, NEW kind \in {"move", "delete", "stable"}, NEW p \in DocPaths, NEW to \in DocPaths \cup {"none"},
           kind = "move" <=> to # "none", p # to, RequestMutation(Mutation(kind, p, to)), UNCHANGED strayed
    PROVE  ManagerInv'
<1> DEFINE m == Mutation(kind, p, to)
<1>1. /\ m \in MutationType /\ m.phase = "queued" /\ m.kind = kind
      /\ m.from = p /\ m.to = to /\ m.paths = {p, to} \ {"none"}
  BY MutationIsTyped DEF Kinds
<1> HIDE DEF m
<1>2. Reserves(m)
  BY <1>1 DEF Reserves
<1>3. /\ Active /\ mutations' = Append(mutations, m) /\ asked' = asked + 1
      /\ UNCHANGED <<sessionMap, session, user, idleTimer, managerState>>
  BY DEF RequestMutation, m
<1>4. asked' \in Nat /\ idleTimer' \in SUBSET DocPaths
  BY <1>3, InvParts DEF ManagerTypeOK
<1> QED
  BY <1>1, <1>2, <1>3, <1>4, ChainedStep

\* An idle timer fires: its close is chained.
LEMMA IdleTimerFiresStep ==
    ASSUME ManagerInv, NEW p \in DocPaths, IdleTimerFires(p), UNCHANGED strayed
    PROVE  ManagerInv'
<1> DEFINE m == Mutation("close", p, "none")
<1>0. idleTimer \in SUBSET DocPaths /\ asked \in Nat /\ "none" \notin DocPaths
  BY InvParts DEF ManagerTypeOK, MapTyped
<1>1. /\ m \in MutationType /\ m.phase = "queued" /\ m.kind = "close"
      /\ m.from = p /\ m.to = "none" /\ m.paths = {p, "none"} \ {"none"}
  BY MutationIsTyped DEF Kinds
<1>2. /\ idleTimer' = idleTimer \ {p}
      /\ mutations' = IF Active THEN Append(mutations, m) ELSE mutations
      /\ UNCHANGED <<sessionMap, session, user, asked, managerState>>
  BY DEF IdleTimerFires
<1> HIDE DEF m
<1>3. Reserves(m)
  BY <1>1 DEF Reserves
<1>4. CASE Active
  BY <1>0, <1>1, <1>2, <1>3, <1>4, ChainedStep
<1>5. CASE ~Active
  BY <1>0, <1>2, <1>5, TimerLapsesStep
<1> QED
  BY <1>4, <1>5

\* close() of the manager is chained behind the mutations that wait.
LEMMA RequestManagerCloseStep ==
    ASSUME ManagerInv, RequestManagerClose, UNCHANGED strayed
    PROVE  ManagerInv'
<1>0. /\ ManagerTypeOK /\ QueueOK /\ CreatedOK /\ MapOK /\ DetachedOK /\ ClosingOK /\ IdleOK
      /\ (~strayed => WriterOK) /\ MapTyped /\ HeadReserved
  BY InvParts
<1> DEFINE m == Mutation("manager", "none", "none")
<1>1. /\ m \in MutationType /\ m.phase = "queued" /\ m.kind = "manager"
      /\ m.from = "none" /\ m.to = "none" /\ m.paths = {"none", "none"} \ {"none"}
  BY MutationIsTyped DEF Kinds
<1>2. /\ managerState = "active" /\ managerState' = "closing" /\ mutations' = Append(mutations, m)
      /\ UNCHANGED <<sessionMap, session, user, idleTimer, asked, strayed>>
  BY DEF RequestManagerClose, Active
<1> HIDE DEF m
<1>r. /\ \A kind, t : RunsOn(kind, t)' = RunsOn(kind, t)
      /\ mutations' \in Seq(MutationType) /\ mutations' # <<>> /\ (mutations # <<>> => mutations'[1] = mutations[1])
      /\ DOMAIN mutations = 1..Len(mutations) /\ Len(mutations) \in Nat
      /\ DOMAIN mutations' = 1..(Len(mutations) + 1) /\ Len(mutations') = Len(mutations) + 1
      /\ \A k \in DOMAIN mutations : mutations'[k] = mutations[k]
      /\ mutations'[Len(mutations) + 1] = m
  BY <1>0, <1>1, <1>2, QueueAppends
<1>f. \A t : Changing(t) => mutations'[1] = mutations[1]
  BY <1>r DEF Changing, RunsOn
<1>q. QueueOK'
  <2>1. \A k \in DOMAIN mutations' : k \in DOMAIN mutations \/ k = Len(mutations) + 1
    BY <1>r
  <2>2. Reserves(m)
    BY <1>1 DEF Reserves
  <2>3. \A k \in DOMAIN mutations : mutations[k].kind # "manager"
    BY <1>0, <1>2 DEF QueueOK
  <2> QED
    BY <1>0, <1>1, <1>2, <1>r, <2>1, <2>2, <2>3 DEF QueueOK, Reserves
<1>a. ManagerTypeOK'
  BY <1>0, <1>2, <1>r DEF ManagerTypeOK
<1>b. CreatedOK' /\ MapOK'
  BY <1>0, <1>2, <1>r, <1>f DEF CreatedOK, MapOK, Changing
<1>c. DetachedOK' /\ ClosingOK' /\ IdleOK'
  BY <1>0, <1>2, <1>r DEF DetachedOK, ClosingOK, IdleOK, Changing, Holds, Active
<1>d. ~strayed' => WriterOK'
  BY <1>0, <1>2, <1>r, <1>f DEF WriterOK, Writer, Changing, Holds
<1> QED
  BY <1>q, <1>a, <1>b, <1>c, <1>d DEF ManagerInv

\* closeUnlocked clears the timers.
LEMMA ManagerCloseStartsStep ==
    ASSUME ManagerInv, ManagerCloseStarts, UNCHANGED strayed
    PROVE  ManagerInv'
<1>0. /\ ManagerTypeOK /\ QueueOK /\ CreatedOK /\ MapOK /\ DetachedOK /\ ClosingOK /\ IdleOK
      /\ (~strayed => WriterOK) /\ MapTyped /\ HeadReserved
  BY InvParts
<1>h. /\ mutations # <<>> /\ Head(mutations) = mutations[1] /\ mutations[1] \in MutationType
      /\ mutations[1].kind = "manager" /\ mutations[1].phase = "queued"
  BY <1>0 DEF ManagerCloseStarts, Running, ManagerTypeOK
<1>v. Reserves(mutations[1])
  <2>1. 1 \in DOMAIN mutations
    BY <1>0, <1>h DEF ManagerTypeOK
  <2> QED
    BY <1>0, <2>1 DEF QueueOK
<1>2. /\ Continues(NoSession) /\ idleTimer' = {} /\ UNCHANGED <<sessionMap, session, user, asked, managerState, strayed>>
  BY DEF ManagerCloseStarts
<1>q. QueueOK' /\ managerState = "closing"
  <2>1. 1 \in DOMAIN mutations
    BY <1>0, <1>h DEF ManagerTypeOK
  <2> QED
    BY <1>0, <1>h, <1>2, <2>1, ContinueKeepsQueue DEF QueueOK
<1>r. /\ \A kind, t : RunsOn(kind, t)' <=> kind = "manager" /\ t = NoSession
      /\ mutations' \in Seq(MutationType)
  <2>1. NoSession \in Sessions \cup {NoSession}
    OBVIOUS
  <2> QED
    BY <1>0, <1>h, <1>2, <2>1, QueueContinues
<1>f. \A kind \in {"move", "delete", "close"} : \A t : ~RunsOn(kind, t) /\ ~RunsOn(kind, t)'
  BY <1>h, <1>r DEF RunsOn
<1>a. ManagerTypeOK'
  BY <1>0, <1>2, <1>r DEF ManagerTypeOK
<1>b. CreatedOK' /\ MapOK'
  BY <1>0, <1>2, <1>f DEF CreatedOK, MapOK, Changing
<1>c. DetachedOK' /\ ClosingOK' /\ IdleOK'
  BY <1>0, <1>2, <1>q, <1>f DEF DetachedOK, ClosingOK, IdleOK, Changing, Holds, Active
<1>d. ~strayed' => WriterOK'
  BY <1>0, <1>2, <1>f DEF WriterOK, Writer, Changing, Holds
<1> QED
  BY <1>q, <1>a, <1>b, <1>c, <1>d DEF ManagerInv

\* close() of the manager ends: every session is detached, or one failed and
\* all of them listen again.
LEMMA ManagerCloseEndsStep ==
    ASSUME ManagerInv, ManagerCloseEnds, UNCHANGED strayed
    PROVE  ManagerInv'
<1>0. /\ ManagerTypeOK /\ QueueOK /\ CreatedOK /\ MapOK /\ DetachedOK /\ ClosingOK /\ IdleOK
      /\ (~strayed => WriterOK) /\ MapTyped /\ HeadReserved
  BY InvParts
<1>h. /\ mutations # <<>> /\ Head(mutations) = mutations[1] /\ mutations[1] \in MutationType
      /\ mutations[1].kind = "manager" /\ mutations[1].phase = "running"
  <2>1. Running("manager", "running")
    BY DEF ManagerCloseEnds
  <2> QED
    BY <1>0, <2>1 DEF Running, ManagerTypeOK
<1>v. Reserves(mutations[1])
  <2>1. 1 \in DOMAIN mutations
    BY <1>0, <1>h DEF ManagerTypeOK
  <2> QED
    BY <1>0, <2>1 DEF QueueOK
<1>g. managerState = "closing" /\ Len(mutations) = 1
  <2>1. 1 \in DOMAIN mutations
    BY <1>0, <1>h DEF ManagerTypeOK
  <2> QED
    BY <1>0, <1>h, <2>1 DEF QueueOK
<1>r. mutations' = <<>> /\ (\A kind, t : ~RunsOn(kind, t)') /\ mutations' \in Seq(MutationType)
  BY <1>0, <1>h, <1>g, QueueEnds DEF ManagerCloseEnds
<1>f. \A kind \in {"move", "delete", "close"} : \A t : ~RunsOn(kind, t)
  BY <1>h DEF RunsOn
<1>u. UNCHANGED <<user, asked, strayed>>
  BY DEF ManagerCloseEnds
<1>m. /\ Mapped \subseteq Sessions
      /\ \A p \in DocPaths : sessionMap[p] # NoSession => sessionMap[p] \in Mapped
      /\ \A s \in Mapped : \E p \in DocPaths : sessionMap[p] = s /\ s # NoSession
  BY <1>0 DEF Mapped, MapTyped
<1>q. ASSUME managerState' \in {"active", "closed"} PROVE QueueOK'
  BY <1>r, <1>q DEF QueueOK
<1>w. /\ \A s \in Mapped : ~session[s].deleted
      /\ \A s \in Mapped : session[s].opened => session[s].listening
  BY <1>0, <1>g, <1>m DEF MapOK, DetachedOK
<1>a. CASE /\ session' = [s \in Sessions |-> IF s \in Mapped
                             THEN [session[s] EXCEPT !.listening = FALSE] ELSE session[s]]
           /\ sessionMap' = [p \in DocPaths |-> NoSession]
           /\ managerState' = "closed"
           /\ UNCHANGED idleTimer
  <2>1. /\ session' \in [Sessions -> SessionType]
        /\ \A t \in Sessions : /\ session'[t].path = session[t].path /\ session'[t].opened = session[t].opened
                               /\ session'[t].deleted = session[t].deleted
                               /\ session'[t].listening => session[t].listening
    BY <1>0, <1>a DEF ManagerTypeOK, SessionType
  <2>2. /\ sessionMap' \in [DocPaths -> Sessions \cup {NoSession}] /\ \A p \in DocPaths : sessionMap'[p] = NoSession
    BY <1>a
  <2>3. ManagerTypeOK'
    BY <1>0, <1>a, <1>r, <1>u, <2>1, <2>2 DEF ManagerTypeOK
  <2>4. CreatedOK' /\ MapOK'
    BY <1>0, <1>a, <1>r, <1>u, <2>1, <2>2 DEF CreatedOK, MapOK, Changing
  <2>5. DetachedOK' /\ ClosingOK' /\ IdleOK'
    BY <1>a, <1>r DEF DetachedOK, ClosingOK, IdleOK, Active
  <2>6. ~strayed' => WriterOK'
    BY <1>0, <1>a, <1>r, <1>u, <2>1, <2>2 DEF WriterOK, Writer, Changing, Holds
  <2> QED
    BY <1>a, <1>q, <2>3, <2>4, <2>5, <2>6 DEF ManagerInv
<1>b. ASSUME NEW failed,
             session' = [s \in Sessions |-> IF s \notin Mapped THEN session[s]
                             ELSE [session[s] EXCEPT !.failing = s \in failed,
                                      !.listening = SessionResumeAfterCloseFailure(s, failed)]],
             managerState' = "active",
             idleTimer' = {p \in DocPaths : sessionMap[p] # NoSession /\ IsOpened(sessionMap[p])
                                             /\ ~IsSessionInUse(sessionMap[p])},
             sessionMap' = [p \in DocPaths |-> IF sessionMap[p] # NoSession
                                /\ ~IsOpened(sessionMap[p]) /\ ~IsSessionInUse(sessionMap[p])
                                THEN NoSession ELSE sessionMap[p]]
      PROVE  ManagerInv'
  <2>0. \A s : IsSessionInUse(s) <=> \E u \in Users : Holds(u, s)
    BY DEF IsSessionInUse, HeldBy, Holds
  <2>o. \A s \in Mapped : SessionResumeAfterCloseFailure(s, failed) = session[s].opened /\ IsOpened(s) = session[s].opened
    <3>1. \A s \in Mapped : session[s].opened \in BOOLEAN
      BY <1>0, <1>m DEF ManagerTypeOK, SessionType
    <3> QED
      BY <1>w, <3>1 DEF SessionResumeAfterCloseFailure, IsOpened
  <2>1. /\ session' \in [Sessions -> SessionType]
        /\ \A t \in Sessions : /\ session'[t].path = session[t].path /\ session'[t].opened = session[t].opened
                               /\ session'[t].deleted = session[t].deleted /\ session'[t].refused = session[t].refused
        /\ \A t \in Mapped : session'[t].listening = session[t].opened
        /\ \A t \in Sessions \ Mapped : session'[t] = session[t]
    <3> DEFINE r(t) == [session[t] EXCEPT !.failing = t \in failed, !.listening = session[t].opened]
    <3>0. session \in [Sessions -> SessionType]
      BY <1>0 DEF ManagerTypeOK
    <3>1. session' = [s \in Sessions |-> IF s \notin Mapped THEN session[s] ELSE r(s)]
      BY <1>b, <2>o
    <3>2. \A t \in Sessions : /\ r(t) \in SessionType /\ r(t).path = session[t].path /\ r(t).opened = session[t].opened
                              /\ r(t).deleted = session[t].deleted /\ r(t).refused = session[t].refused
                              /\ r(t).listening = session[t].opened
      <4>1. \A t \in Sessions, b \in BOOLEAN :
               LET rb == [session[t] EXCEPT !.failing = b, !.listening = session[t].opened]
               IN  /\ rb \in SessionType /\ rb.path = session[t].path /\ rb.opened = session[t].opened
                   /\ rb.deleted = session[t].deleted /\ rb.refused = session[t].refused
                   /\ rb.listening = session[t].opened
        BY <3>0 DEF SessionType
      <4>2. \A t \in Sessions : (t \in failed) \in BOOLEAN
        OBVIOUS
      <4> QED
        BY <4>1, <4>2, Zenon
    <3> HIDE DEF r
    <3> QED
      BY <1>m, <3>0, <3>1, <3>2
  <2>2. /\ sessionMap' \in [DocPaths -> Sessions \cup {NoSession}]
        /\ \A p \in DocPaths : \/ sessionMap'[p] = sessionMap[p]
                               \/ /\ sessionMap'[p] = NoSession /\ ~session[sessionMap[p]].opened
                                  /\ \A u \in Users : ~Holds(u, sessionMap[p])
        /\ \A p \in DocPaths : /\ sessionMap'[p] # NoSession
                               /\ \A u \in Users : ~Holds(u, sessionMap[p])
                               => session[sessionMap[p]].opened /\ p \in idleTimer'
        /\ idleTimer' \in SUBSET DocPaths
    BY <1>0, <1>b, <1>m, <2>0, <2>o DEF MapTyped
  <2>3. ManagerTypeOK'
    BY <1>0, <1>b, <1>r, <1>u, <2>1, <2>2 DEF ManagerTypeOK
  <2>4. CreatedOK' /\ MapOK'
    <3>1. \A t \in Sessions : session'[t].listening => session'[t].opened
      BY <1>0, <2>1 DEF CreatedOK
    <3>2. CreatedOK'
      BY <1>0, <1>r, <1>u, <2>1, <2>2, <3>1 DEF CreatedOK, Changing, MapTyped
    <3>3. MapOK'
      BY <1>0, <1>r, <2>1, <2>2 DEF MapOK, Changing, MapTyped
    <3> QED
      BY <3>2, <3>3
  <2>5. DetachedOK'
    <3>1. \A t \in Sessions : session'[t].opened /\ ~session'[t].deleted /\ ~session'[t].listening
             => t \notin Mapped /\ session[t].opened /\ ~session[t].deleted /\ ~session[t].listening
      BY <2>1
    <3> QED
      BY <1>0, <1>g, <1>r, <1>u, <1>m, <2>1, <2>2, <3>1 DEF DetachedOK, Changing, Holds, MapTyped
  <2>6. ClosingOK'
    BY <1>r DEF ClosingOK
  <2>7. IdleOK'
    <3> SUFFICES ASSUME NEW p \in DocPaths, sessionMap'[p] # NoSession,
                        (\A u \in Users : ~Holds(u, sessionMap[p]))'
                 PROVE  session'[sessionMap'[p]].opened /\ p \in idleTimer'
      BY DEF IdleOK
    <3>1. sessionMap'[p] = sessionMap[p] /\ sessionMap[p] \in Sessions
      BY <1>0, <2>2 DEF MapTyped
    <3>2. \A u \in Users : ~Holds(u, sessionMap[p])
      BY <1>u, <3>1 DEF Holds
    <3> QED
      BY <2>1, <2>2, <3>1, <3>2
  <2>8. ~strayed' => WriterOK'
    <3> SUFFICES ASSUME ~strayed PROVE WriterOK'
      BY <1>u
    <3>1. \A t \in Sessions : Writer(t)' => Writer(t)
      BY <1>u, <1>w, <2>1 DEF Writer, Holds
    <3>2. \A t \in Sessions : Writer(t) => sessionMap[session[t].path] = t /\ session[t].path \in DocPaths
      BY <1>0, <1>g, <1>f DEF WriterOK, MapTyped
    <3>3. \A t \in Sessions : Writer(t) => session[t].opened \/ \E u \in Users : Holds(u, t)
      BY <1>0 DEF Writer, CreatedOK
    <3>4. \A t \in Sessions : Writer(t)' => sessionMap'[session'[t].path] = t
      BY <2>1, <2>2, <3>1, <3>2, <3>3
    <3> QED
      BY <1>0, <1>r, <2>1, <2>2, <3>1, <3>4 DEF WriterOK, Changing, MapTyped
  <2> QED
    BY <1>b, <1>q, <2>3, <2>4, <2>5, <2>6, <2>7, <2>8 DEF ManagerInv
<1> QED
  BY <1>a, <1>b DEF ManagerCloseEnds

-----------------------------------------------------------------------------
(* The invariant holds, and with it what the runs check. *)

\* No session, no user and no mutation at the start.
LEMMA ManagerInitially == ManagerInit => ManagerInv
<1> SUFFICES ASSUME ManagerInit PROVE ManagerInv
  OBVIOUS
<1>1. /\ \A s \in Sessions : session[s] = Fresh
      /\ \A p \in DocPaths : sessionMap[p] = NoSession
      /\ \A u \in Users : user[u] = NoUse
      /\ mutations = <<>> /\ managerState = "active" /\ strayed = FALSE
  BY DEF ManagerInit
<1>2. \A kind, s : ~RunsOn(kind, s)
  BY <1>1 DEF RunsOn
<1>3. Fresh \in SessionType /\ NoUse \in UserType
  BY DEF Fresh, NoUse, SessionType, UserType
<1>4. ManagerTypeOK
  <2>0. mutations \in Seq(MutationType)
    BY <1>1, EmptySeq
  <2>1. asked \in Nat /\ managerState \in {"active", "closing", "closed"}
        /\ strayed \in BOOLEAN /\ idleTimer \in SUBSET DocPaths
    BY DEF ManagerInit
  <2>2. session \in [Sessions -> SessionType] /\ user \in [Users -> UserType]
        /\ sessionMap \in [DocPaths -> Sessions \cup {NoSession}]
    BY <1>3 DEF ManagerInit
  <2> QED
    BY <2>0, <2>1, <2>2 DEF ManagerTypeOK
<1>5. QueueOK
  BY <1>1 DEF QueueOK
<1>6. CreatedOK
  <2>1. {s \in Sessions : session[s].path # "none"} = 1..0 /\ 0 \in 0..MaxSessions
    BY <1>1, ManagerBounds DEF Fresh
  <2> QED
    BY <1>1, <1>2, <2>1 DEF CreatedOK, Changing, Fresh, NoUse
<1>7. MapOK /\ DetachedOK /\ ClosingOK /\ IdleOK
  BY <1>1, <1>2 DEF MapOK, DetachedOK, ClosingOK, IdleOK, Changing, Fresh
<1>8. WriterOK
  BY <1>1, <1>2 DEF WriterOK, Changing, Writer, Holds, Fresh, NoUse
<1> QED
  BY <1>4, <1>5, <1>6, <1>7, <1>8 DEF ManagerInv

\* A mutation that is no close starts, or has nothing to do.
LEMMA StartsStep ==
    ASSUME ManagerInv, MoveStarts \/ DeleteStarts \/ StableStarts \/ StableEnds, UNCHANGED strayed
    PROVE  ManagerInv'
<1>0. ManagerTypeOK /\ QueueOK /\ MapTyped
  BY InvParts
<1>1. /\ mutations # <<>> /\ Head(mutations) = mutations[1] /\ 1 \in DOMAIN mutations
      /\ mutations[1].kind \in {"move", "delete", "stable"}
      /\ UNCHANGED <<sessionMap, session, user, idleTimer, asked, managerState>>
  BY <1>0 DEF MoveStarts, DeleteStarts, StableStarts, StableEnds, Running, ManagerTypeOK
<1>2. mutations[1].from \in DocPaths
  BY <1>0, <1>1 DEF QueueOK, Reserves
<1>3. PICK s \in Sessions \cup {NoSession} : s = sessionMap[mutations[1].from]
  BY <1>0, <1>2 DEF MapTyped
<1>4. CASE Ends
  BY <1>1, <1>4, EndedStep
<1>5. CASE Continues(s) /\ mutations[1].kind \in {"delete", "stable"} /\ (mutations[1].kind = "delete" => s # NoSession)
  BY <1>1, <1>3, <1>5, StartedStep
<1>6. CASE Continues(s) /\ mutations[1].kind = "move" /\ s # NoSession
           /\ sessionMap[mutations[1].to] \in {NoSession, s}
  BY <1>1, <1>3, <1>6, StartedStep
<1> QED
  BY <1>1, <1>3, <1>4, <1>5, <1>6 DEF MoveStarts, DeleteStarts, StableStarts, StableEnds, Running

\* Every step of the manager keeps its invariant.
LEMMA ManagerInvStep == ManagerInv /\ [ManagerNext]_mgrVars => ManagerInv'
<1> SUFFICES ASSUME ManagerInv, [ManagerNext]_mgrVars PROVE ManagerInv'
  OBVIOUS
<1>0. "none" \notin DocPaths
  BY ManagerBounds
<1>1. CASE MoveEnds
  BY <1>1, MoveEndsStep
<1>2. CASE UNCHANGED strayed /\ \E u \in Users, kind \in {"client", "operation"}, p \in DocPaths : Ask(u, kind, p)
  BY <1>2, AskStep
<1>3. CASE UNCHANGED strayed /\ \E u \in Users : PathAvailable(u) \/ Acquire(u) \/ OpenHeld(u) \/ Release(u)
  BY <1>3, PathAvailableStep, AcquireStep, OpenHeldStep, ReleaseStep
<1>4. CASE UNCHANGED strayed /\ \E s \in Sessions : PersistFails(s) \/ PersistRecovers(s) \/ FoundDeleted(s)
  BY <1>4, PersistFailsStep, PersistRecoversStep, FoundDeletedStep
<1>5. CASE UNCHANGED strayed /\ \E from, to \in DocPaths : RequestMove(from, to)
  BY <1>0, <1>5, RequestStep DEF RequestMove
<1>6. CASE UNCHANGED strayed /\ \E p \in DocPaths : RequestDelete(p) \/ RequestStable(p)
  BY <1>0, <1>6, RequestStep DEF RequestDelete, RequestStable
<1>7. CASE UNCHANGED strayed /\ \E p \in DocPaths : IdleTimerFires(p)
  BY <1>7, IdleTimerFiresStep
<1>8. CASE UNCHANGED strayed /\ (CloseStarts \/ CloseEnds \/ DeleteEnds)
  BY <1>8, CloseStartsStep, CloseEndsStep, DeleteEndsStep
<1>9. CASE UNCHANGED strayed /\ (MoveStarts \/ DeleteStarts \/ StableStarts \/ StableEnds)
  BY <1>9, StartsStep
<1>10. CASE UNCHANGED strayed /\ (RequestManagerClose \/ ManagerCloseStarts \/ ManagerCloseEnds)
  BY <1>10, RequestManagerCloseStep, ManagerCloseStartsStep, ManagerCloseEndsStep
<1>11. CASE UNCHANGED mgrVars
  <2>0. ManagerTypeOK /\ QueueOK /\ CreatedOK /\ MapOK /\ DetachedOK /\ ClosingOK /\ IdleOK /\ (~strayed => WriterOK)
    BY DEF ManagerInv
  <2>r. \A kind, t : RunsOn(kind, t)' = RunsOn(kind, t)
    BY <1>11 DEF RunsOn, mgrVars
  <2>1. ManagerTypeOK' /\ QueueOK'
    BY <1>11, <2>0 DEF ManagerTypeOK, QueueOK, Reserves, mgrVars
  <2>2. CreatedOK' /\ MapOK'
    BY <1>11, <2>0, <2>r DEF CreatedOK, MapOK, Changing, mgrVars
  <2>3. DetachedOK' /\ ClosingOK' /\ IdleOK'
    BY <1>11, <2>0, <2>r DEF DetachedOK, ClosingOK, IdleOK, CloseQueued, Changing, Holds, Active, mgrVars
  <2>4. ~strayed' => WriterOK'
    BY <1>11, <2>0, <2>r DEF WriterOK, Writer, Changing, Holds, mgrVars
  <2> QED
    BY <2>1, <2>2, <2>3, <2>4 DEF ManagerInv
<1> QED
  BY <1>1, <1>2, <1>3, <1>4, <1>5, <1>6, <1>7, <1>8, <1>9, <1>10, <1>11 DEF ManagerNext

\* The invariant implies both properties.
LEMMA InvMakesOneWriter == ManagerInv => OneWriterPerFile
BY DEF ManagerInv, WriterOK, Writer, OneWriterPerFile

\* The invariant gives SessionsAreTended.
LEMMA InvTends == ManagerInv => SessionsAreTended
<1> SUFFICES ASSUME ManagerInv PROVE SessionsAreTended
  OBVIOUS
<1>0. CreatedOK /\ DetachedOK /\ IdleOK /\ MapTyped /\ QueueOK
  BY InvParts
<1>1. HeldSessionListens
  BY <1>0 DEF HeldSessionListens, Active, DetachedOK, CreatedOK, Holds
<1>2. \A p \in DocPaths : CloseQueued(p) => HasPathReservation(p)
  BY <1>0 DEF CloseQueued, HasPathReservation, QueueOK, Reserves, MapTyped
<1>3. \A s : IsSessionInUse(s) <=> \E u \in Users : Holds(u, s)
  BY DEF IsSessionInUse, HeldBy, Holds
<1>4. IdleSessionWillClose
  BY <1>0, <1>2, <1>3 DEF IdleSessionWillClose, IdleOK
<1> QED
  BY <1>1, <1>4 DEF SessionsAreTended

\* For every set of callers and of paths, and any number of sessions and of
\* mutations: two sessions that listen never have one file, unless a move
\* failed after it had opened or rebound its session (getSession, closeSession,
\* moveSession, deleteSession, withStablePath and close of manager.ts).
THEOREM SingleWriter == ManagerSpec => []OneWriterPerFile
<1>1. ManagerSpec => []ManagerInv
  BY ManagerInitially, ManagerInvStep, PTL DEF ManagerSpec
<1> QED
  BY <1>1, InvMakesOneWriter, PTL

\* Under the same constants: a session somebody holds listens until the
\* manager closes, and one nobody holds has a timer or a close on its way
\* unless a close of it was refused.
THEOREM SessionsTended == ManagerSpec => []SessionsAreTended
<1>1. ManagerSpec => []ManagerInv
  BY ManagerInitially, ManagerInvStep, PTL DEF ManagerSpec
<1> QED
  BY <1>1, InvTends, PTL

=============================================================================
