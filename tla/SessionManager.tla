--------------------------- MODULE SessionManager ---------------------------
(***************************************************************************)
(* DocumentSessionManager (packages/doc-session/src/manager.ts): the map   *)
(* from vault paths to live sessions, the clients and operations that hold *)
(* a session, idle timers, and the structure mutations (move, delete, a    *)
(* stable read, an idle close, the close of the manager) that run one at a *)
(* time on structureMutationTail while they reserve their paths.           *)
(*                                                                         *)
(* A session is a number; what happens inside one is module                *)
(* DocumentSession.  Here a session is bound to a path, is opened, listens *)
(* to its document and its file, fails to persist, is deleted.             *)
(***************************************************************************)
EXTENDS Naturals, Sequences, FiniteSets, SequencesExt

CONSTANTS Users,          \* callers of attachClientSession and withSession
          DocPaths,       \* vault paths
          MaxSessions,    \* bound: sessions created in a behaviour
          MaxMutations    \* bound: structure mutations asked for by callers

ASSUME ManagerBounds ==
    MaxSessions \in Nat \ {0} /\ MaxMutations \in Nat /\ "none" \notin DocPaths

VARIABLES
    sessionMap,  \* sessions: path -> session, 0 for none
    session,     \* per session: bound path, opened, listening, failing, deleted
    user,        \* per caller: what it holds or waits for
    idleTimer,   \* paths with an idle-close timer
    mutations,   \* the chain of structureMutationTail; the head runs
    asked,       \* structure mutations callers have asked for
    managerState, \* "active", "closing", "closed"
    strayed      \* history: a move failed after it opened or rebound its session

mgrVars == <<sessionMap, session, user, idleTimer, mutations, asked, managerState, strayed>>

Sessions == 1..MaxSessions
NoSession == 0
Fresh == [path |-> "none", opened |-> FALSE, listening |-> FALSE, failing |-> FALSE,
          deleted |-> FALSE, refused |-> FALSE]
NoUse == [phase |-> "idle", kind |-> "none", path |-> "none", session |-> NoSession]

Created == Cardinality({s \in Sessions : session[s].path # "none"})

ManagerInit ==
    /\ sessionMap = [p \in DocPaths |-> NoSession]
    /\ session = [s \in Sessions |-> Fresh]
    /\ user = [u \in Users |-> NoUse]
    /\ idleTimer = {}
    /\ mutations = <<>>
    /\ asked = 0
    /\ managerState = "active"
    /\ strayed = FALSE

IsOpened(s) == session[s].opened /\ ~session[s].deleted
HeldBy(s) == {u \in Users : user[u].phase = "holding" /\ user[u].session = s}
IsSessionInUse(s) == HeldBy(s) # {}
Active == managerState = "active"

\* A queued or running mutation reserves the paths it names until it ends.
HasPathReservation(p) == \E k \in DOMAIN mutations : p \in mutations[k].paths

\* findSessionPath(session) ?? vaultPath.
FindSessionPath(map, s, default) ==
    IF \E p \in DocPaths : map[p] = s THEN CHOOSE p \in DocPaths : map[p] = s ELSE default

\* scheduleIdleClose: an unopened session is dropped from the map, an open one
\* that nobody holds gets a timer.
ScheduleIdleClose(p, map, timers, inUse, opened) ==
    IF ~Active \/ map[p] = NoSession \/ inUse
    THEN sessionMap' = map /\ idleTimer' = timers
    ELSE IF ~opened
    THEN sessionMap' = [map EXCEPT ![p] = NoSession] /\ idleTimer' = timers \ {p}
    ELSE sessionMap' = map /\ idleTimer' = timers \cup {p}

-----------------------------------------------------------------------------
(* Callers.                                                                *)

\* attachClientSession and withSession begin to wait for their path.
Ask(u, kind, p) ==
    /\ user[u].phase = "idle"
    /\ Active
    /\ user' = [user EXCEPT ![u] = [NoUse EXCEPT !.phase = "waiting", !.kind = kind, !.path = p]]
    /\ UNCHANGED <<sessionMap, session, idleTimer, mutations, asked, managerState>>

\* waitForPathAvailability returns: no reservation matches at this moment.  It
\* throws once the manager is closing.
PathAvailable(u) ==
    /\ user[u].phase = "waiting"
    /\ ~HasPathReservation(user[u].path)
    /\ user' = [user EXCEPT ![u] = IF Active THEN [@ EXCEPT !.phase = "available"] ELSE NoUse]
    /\ UNCHANGED <<sessionMap, session, idleTimer, mutations, asked, managerState>>

\* getSession: the session of the path, or a new one.
GetSession(p) ==
    IF sessionMap[p] # NoSession
    THEN UNCHANGED <<sessionMap, session>>
    ELSE LET s == Created + 1
         IN  /\ s \in Sessions
             /\ session' = [session EXCEPT ![s] = [Fresh EXCEPT !.path = p]]
             /\ sessionMap' = [sessionMap EXCEPT ![p] = s]

\* Acquire without the second look at the reservations: the path may have
\* been reserved again since waitForPathAvailability returned.
AcquireUnchecked(u) ==
    LET p == user[u].path
    IN  /\ user[u].phase = "available"
        /\ GetSession(p)
        /\ idleTimer' = idleTimer \ {p}
        /\ user' = [user EXCEPT ![u].phase = "holding", ![u].session = sessionMap'[p]]
        /\ UNCHANGED <<mutations, asked, managerState>>

\* The operation of withAvailablePath: getSession throws when the path was
\* reserved in between, and the loop waits again; a closing manager throws for good.
Acquire(u) ==
    LET p == user[u].path
    IN  /\ user[u].phase = "available"
        /\ \/ /\ Active /\ ~HasPathReservation(p)
              /\ GetSession(p)
              /\ idleTimer' = idleTimer \ {p}
              /\ user' = [user EXCEPT ![u].phase = "holding", ![u].session = sessionMap'[p]]
           \/ /\ Active /\ HasPathReservation(p)
              /\ user' = [user EXCEPT ![u].phase = "waiting"]
              /\ UNCHANGED <<sessionMap, session, idleTimer>>
           \/ /\ ~Active
              /\ user' = [user EXCEPT ![u] = NoUse]
              /\ UNCHANGED <<sessionMap, session, idleTimer>>
        /\ UNCHANGED <<mutations, asked, managerState>>

\* A stable-path operation that runs holds back the opening of its session.
StableRuns(p) == mutations # <<>> /\ Head(mutations).kind = "stable"
                 /\ Head(mutations).phase = "running" /\ p \in Head(mutations).paths

\* session.open() of a session the caller holds.
OpenHeld(u) ==
    LET s == user[u].session
    IN  /\ user[u].phase = "holding"
        /\ ~session[s].opened /\ ~session[s].deleted
        /\ ~StableRuns(session[s].path)
        /\ session' = [session EXCEPT ![s].opened = TRUE, ![s].listening = TRUE]
        /\ UNCHANGED <<sessionMap, user, idleTimer, mutations, asked, managerState>>

\* release() of a client, the finally of runSessionOperation.
Release(u) ==
    LET s == user[u].session
        p == FindSessionPath(sessionMap, s, user[u].path)
        others == HeldBy(s) \ {u}
    IN  /\ user[u].phase = "holding"
        /\ user' = [user EXCEPT ![u] = NoUse]
        /\ IF others # {} THEN UNCHANGED <<sessionMap, idleTimer>>
           ELSE ScheduleIdleClose(p, sessionMap, idleTimer,
                    \E v \in Users \ {u} : user[v].phase = "holding" /\ user[v].session = sessionMap[p],
                    sessionMap[p] # NoSession /\ IsOpened(sessionMap[p]))
        /\ UNCHANGED <<session, mutations, asked, managerState>>

-----------------------------------------------------------------------------
(* What sessions do by themselves.                                         *)

PersistFails(s) ==
    /\ session[s].listening /\ ~session[s].failing /\ ~session[s].deleted
    /\ session' = [session EXCEPT ![s].failing = TRUE]
    /\ UNCHANGED <<sessionMap, user, idleTimer, mutations, asked, managerState>>

\* flushDirtySessions, or the next edit, persists again.
PersistRecovers(s) ==
    /\ session[s].failing
    /\ session' = [session EXCEPT ![s].failing = FALSE]
    /\ UNCHANGED <<sessionMap, user, idleTimer, mutations, asked, managerState>>

\* A watcher finds the file gone: markDeleted, and the doc-deleted handler of
\* getSession removes every entry of this session.
FoundDeleted(s) ==
    /\ session[s].listening /\ ~session[s].deleted
    /\ ~(mutations # <<>> /\ Head(mutations).session = s)
    /\ session' = [session EXCEPT ![s].deleted = TRUE, ![s].listening = FALSE]
    /\ sessionMap' = [p \in DocPaths |-> IF sessionMap[p] = s THEN NoSession ELSE sessionMap[p]]
    /\ UNCHANGED <<user, idleTimer, mutations, asked, managerState>>

-----------------------------------------------------------------------------
(* Structure mutations.                                                    *)

Mutation(kind, from, to) ==
    [kind |-> kind, from |-> from, to |-> to, paths |-> {from, to} \ {"none"},
     phase |-> "queued", session |-> NoSession]

\* moveSession, deleteSession, withStablePath: the reservation is made and the
\* mutation chained in one step.
RequestMutation(m) ==
    /\ Active /\ asked < MaxMutations
    /\ asked' = asked + 1
    /\ mutations' = Append(mutations, m)
    /\ UNCHANGED <<sessionMap, session, user, idleTimer, managerState>>

RequestMove(from, to) == from # to /\ RequestMutation(Mutation("move", from, to))
RequestDelete(p) == RequestMutation(Mutation("delete", p, "none"))
RequestStable(p) == RequestMutation(Mutation("stable", p, "none"))

\* The timer of scheduleIdleClose: closeSession.
IdleTimerFires(p) ==
    /\ p \in idleTimer
    /\ idleTimer' = idleTimer \ {p}
    /\ mutations' = IF Active THEN Append(mutations, Mutation("close", p, "none")) ELSE mutations
    /\ UNCHANGED <<sessionMap, session, user, asked, managerState>>

Running(kind, phase) ==
    mutations # <<>> /\ Head(mutations).kind = kind /\ Head(mutations).phase = phase
Ends == mutations' = Tail(mutations)
Continues(s) == mutations' = ReplaceAt(mutations, 1, [Head(mutations) EXCEPT !.phase = "running",
                                                                            !.session = s])

\* closeSessionUnlocked up to session.close(): the entry is removed first.
CloseStarts ==
    LET p == Head(mutations).from
        s == sessionMap[p]
    IN  /\ Running("close", "queued")
        /\ idleTimer' = idleTimer \ {p}
        /\ IF s = NoSession \/ IsSessionInUse(s) \/ session[s].failing
           THEN /\ Ends
                /\ session' = IF s # NoSession /\ session[s].failing /\ ~IsSessionInUse(s)
                              THEN [session EXCEPT ![s].refused = TRUE] ELSE session
                /\ UNCHANGED sessionMap
           ELSE /\ Continues(s)
                /\ sessionMap' = [sessionMap EXCEPT ![p] = NoSession]
                /\ UNCHANGED session
        /\ UNCHANGED <<user, asked, managerState>>

\* session.close(): flushed and detached, or the flush fails and the session is
\* put back where it was.
CloseEnds ==
    LET s == Head(mutations).session
        p == Head(mutations).from
    IN  /\ Running("close", "running")
        /\ Ends
        /\ \/ /\ ~session[s].failing
              /\ session' = [session EXCEPT ![s].listening = FALSE]
              /\ UNCHANGED sessionMap
           \/ /\ ~session[s].deleted
              /\ session' = [session EXCEPT ![s].failing = TRUE, ![s].refused = TRUE]
              /\ sessionMap' = [sessionMap EXCEPT ![p] = s]
        /\ UNCHANGED <<user, idleTimer, asked, managerState>>

\* moveSession up to session.moveTo: nothing moves in memory when the source is
\* not a file, the destination has a session, or the source has none.
MoveStarts ==
    LET m == Head(mutations)
        s == sessionMap[m.from]
        conflict == sessionMap[m.to] \notin {NoSession, s}
    IN  /\ Running("move", "queued")
        /\ \/ Ends
           \/ s # NoSession /\ ~conflict /\ Continues(s)
        /\ UNCHANGED <<sessionMap, session, user, idleTimer, asked, managerState>>

\* RekeySession that leaves a session nobody holds without a timer.
RekeyWithoutTimer(from, to, s) ==
    /\ sessionMap' = [sessionMap EXCEPT ![from] = NoSession, ![to] = s]
    /\ idleTimer' = idleTimer \ {from, to}

\* rekeySession.
RekeySession(from, to, s) ==
    ScheduleIdleClose(to, [sessionMap EXCEPT ![from] = NoSession, ![to] = s],
                      idleTimer \ {from, to}, IsSessionInUse(s), TRUE)

\* session.moveTo: prepareForPathTransition opens the session.  It may succeed,
\* fail at once, or fail after it opened or even rebound the session; only
\* success rekeys the map.
MoveEnds ==
    LET m == Head(mutations)
        s == m.session
    IN  /\ Running("move", "running")
        /\ Ends
        /\ \/ /\ ~session[s].deleted
              /\ session' = [session EXCEPT ![s].path = m.to, ![s].opened = TRUE, ![s].listening = TRUE]
              /\ RekeySession(m.from, m.to, s)
              /\ UNCHANGED strayed
           \/ UNCHANGED <<session, sessionMap, idleTimer, strayed>>
           \/ /\ ~session[s].deleted
              /\ \E p \in {m.from, m.to} :
                     session' = [session EXCEPT ![s].path = p, ![s].opened = TRUE, ![s].listening = TRUE]
              /\ strayed' = TRUE
              /\ UNCHANGED <<sessionMap, idleTimer>>
        /\ UNCHANGED <<user, asked, managerState>>

DeleteStarts ==
    LET s == sessionMap[Head(mutations).from]
    IN  /\ Running("delete", "queued")
        /\ IF s = NoSession THEN Ends ELSE Continues(s)
        /\ UNCHANGED <<sessionMap, session, user, idleTimer, asked, managerState>>

\* deleteSessionUnlocked: the entry goes only when deleteWith succeeded.
DeleteEnds ==
    LET m == Head(mutations)
    IN  /\ Running("delete", "running")
        /\ Ends
        /\ \/ /\ session' = [session EXCEPT ![m.session].deleted = TRUE, ![m.session].listening = FALSE]
              /\ sessionMap' = [sessionMap EXCEPT ![m.from] = NoSession]
           \/ UNCHANGED <<session, sessionMap>>
        /\ UNCHANGED <<user, idleTimer, asked, managerState>>

StableStarts ==
    /\ Running("stable", "queued")
    /\ Continues(sessionMap[Head(mutations).from])
    /\ UNCHANGED <<sessionMap, session, user, idleTimer, asked, managerState>>

StableEnds ==
    /\ Running("stable", "running")
    /\ Ends
    /\ UNCHANGED <<sessionMap, session, user, idleTimer, asked, managerState>>

-----------------------------------------------------------------------------
(* close() of the manager.                                                 *)

RequestManagerClose ==
    /\ Active
    /\ managerState' = "closing"
    /\ mutations' = Append(mutations, Mutation("manager", "none", "none"))
    /\ UNCHANGED <<sessionMap, session, user, idleTimer, asked>>

\* closeUnlocked: timers are cleared, then active operations are awaited.
ManagerCloseStarts ==
    /\ Running("manager", "queued")
    /\ Continues(NoSession)
    /\ idleTimer' = {}
    /\ UNCHANGED <<sessionMap, session, user, asked, managerState>>

Mapped == {sessionMap[p] : p \in DocPaths} \ {NoSession}

\* SessionResumeAfterCloseFailure that only attends to the sessions that failed.
ResumeFailed(s, failed) == IF s \in failed THEN session[s].listening ELSE FALSE

\* resumeAfterCloseFailure of every mapped session, whether its own close failed
\* or succeeded.
SessionResumeAfterCloseFailure(s, failed) == IsOpened(s)

\* close() of every session; if one fails the manager goes on.
ManagerCloseEnds ==
    /\ Running("manager", "running")
    /\ \A u \in Users : user[u].phase = "holding" => user[u].kind # "operation"
    /\ Ends
    /\ \E failed \in SUBSET {s \in Mapped : session[s].opened /\ ~session[s].deleted} :
           /\ {s \in Mapped : session[s].failing} \subseteq failed
           /\ \/ /\ failed = {}
                 /\ session' = [s \in Sessions |-> IF s \in Mapped
                                   THEN [session[s] EXCEPT !.listening = FALSE] ELSE session[s]]
                 /\ sessionMap' = [p \in DocPaths |-> NoSession]
                 /\ managerState' = "closed"
                 /\ UNCHANGED idleTimer
              \/ /\ failed # {}
                 /\ session' = [s \in Sessions |-> IF s \notin Mapped THEN session[s]
                                   ELSE [session[s] EXCEPT !.failing = s \in failed,
                                            !.listening = SessionResumeAfterCloseFailure(s, failed)]]
                 /\ managerState' = "active"
                 /\ idleTimer' = {p \in DocPaths : sessionMap[p] # NoSession /\ IsOpened(sessionMap[p])
                                                   /\ ~IsSessionInUse(sessionMap[p])}
                 /\ sessionMap' = [p \in DocPaths |-> IF sessionMap[p] # NoSession
                                      /\ ~IsOpened(sessionMap[p]) /\ ~IsSessionInUse(sessionMap[p])
                                      THEN NoSession ELSE sessionMap[p]]
    /\ UNCHANGED <<user, asked>>

ManagerNext ==
    \/ MoveEnds
    \/ /\ UNCHANGED strayed
       /\ \/ \E u \in Users, kind \in {"client", "operation"}, p \in DocPaths : Ask(u, kind, p)
          \/ \E u \in Users : PathAvailable(u)
          \/ \E u \in Users : Acquire(u)
          \/ \E u \in Users : OpenHeld(u)
          \/ \E u \in Users : Release(u)
          \/ \E s \in Sessions : PersistFails(s)
          \/ \E s \in Sessions : PersistRecovers(s)
          \/ \E s \in Sessions : FoundDeleted(s)
          \/ \E from, to \in DocPaths : RequestMove(from, to)
          \/ \E p \in DocPaths : RequestDelete(p)
          \/ \E p \in DocPaths : RequestStable(p)
          \/ \E p \in DocPaths : IdleTimerFires(p)
          \/ CloseStarts \/ CloseEnds
          \/ MoveStarts
          \/ DeleteStarts \/ DeleteEnds
          \/ StableStarts \/ StableEnds
          \/ RequestManagerClose \/ ManagerCloseStarts \/ ManagerCloseEnds

ManagerSpec == ManagerInit /\ [][ManagerNext]_mgrVars

-----------------------------------------------------------------------------

\* Two sessions that still listen never persist to one file: the map has one
\* entry per path, and a session leaves it only once it is detached, put back,
\* or deleted (single-writer-service-boundary: two code paths that can both
\* materialize edits to the same file).  The exception is a move that fails
\* after it opened or rebound its session: the map still has it under the old
\* path, or not at all, and the next caller gets a second session.
OneWriterPerFile ==
    ~strayed => \A s, t \in Sessions :
        s # t /\ session[s].listening /\ session[t].listening => session[s].path # session[t].path

\* A caller never holds a session that is detached behind its back: until the
\* manager closes or the note is deleted, an opened session somebody holds
\* listens to its document, however closes and failed closes interleave.
HeldSessionListens ==
    \A u \in Users :
        user[u].phase = "holding" /\ Active =>
            LET s == user[u].session
            IN  session[s].opened /\ ~session[s].deleted => session[s].listening

\* No idle session is forgotten: one that is open in the map and that nobody
\* holds has a timer or a mutation of its path under way, unless its close was
\* refused for a persist failure.
IdleSessionWillClose ==
    \A p \in DocPaths :
        LET s == sessionMap[p]
        IN  (s # NoSession /\ Active /\ IsOpened(s) /\ ~IsSessionInUse(s)
                /\ ~session[s].refused) =>
            p \in idleTimer \/ HasPathReservation(p)

\* The manager takes care of every session it keeps: held ones listen, idle
\* ones are on their way to a close.
SessionsAreTended == HeldSessionListens /\ IdleSessionWillClose
=============================================================================
