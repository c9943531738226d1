---------------------------- MODULE VaultEvents ----------------------------
(***************************************************************************)
(* What the clients of a vault see of its tree                             *)
(* (packages/vault-service/src/index.ts, createVaultService): tree reads   *)
(* that share one walk while no mutation intervenes, the change events of  *)
(* the service's own writes, and the poll that looks for changes made      *)
(* outside the service.                                                    *)
(*                                                                         *)
(* An entry of the tree is a number that every change of it increases, as  *)
(* size, times and inode of a file do.  A client that hears of a change    *)
(* reads the entry again.                                                  *)
(***************************************************************************)
EXTENDS Naturals, FiniteSets, FiniteSetsExt

CONSTANTS WatchedEntries,      \* paths of the vault
          Readers,      \* callers of listFiles
          Writers,      \* callers of mutating operations
          MaxChanges,   \* bound: changes of the tree
          MaxReads,     \* bound: walks of listFiles that run at a time
          MaxEventHandlers,  \* bound: subscribers at a time
          MaxWatches    \* bound: times the watch is started

ASSUME EventsBounds == MaxChanges \in Nat /\ MaxReads \in Nat
                       /\ MaxEventHandlers \in Nat /\ MaxWatches \in Nat

VARIABLES
    entry,        \* the tree on disk
    inFlight,     \* treeReadInFlight: the walk readers may join, 0 for none; it is
                  \* cleared whenever treeReadGeneration grows, so the generation
                  \* it stores is always the current one
    walks,        \* the walks that run, and what they have seen
    reader,       \* per reader: the walk it waits for, and what it must see
    writer,       \* per writer: where its operation stands
    eventHandlers,     \* eventHandlers: number of subscribers
    watchActive,     \* treeWatchTimer is set
    snapshot,     \* treeWatchSnapshot, or Unset
    knownPaths,   \* treeWatchKnownPaths
    pollBusy,     \* treeWatchInFlight
    polls,        \* the polls that run
    acked,        \* history: what the operations that returned left in the tree
    told,         \* history: the tree the subscribers know since the watch's first
                  \* snapshot, or Unset
    watches       \* times the watch was started

eventVars == <<entry, inFlight, walks, reader, writer, eventHandlers, watchActive, snapshot,
               knownPaths, pollBusy, polls, acked, told, watches>>
readVars == <<walks, reader>>
watchVars == <<watchActive, snapshot, pollBusy, polls, watches>>

Unset == [e \in WatchedEntries |-> MaxChanges + 1]
UnseenChange == [e \in WatchedEntries |-> 0]
NoWalk == [state |-> "none", saw |-> UnseenChange]
NoWrite == [at |-> "idle", kind |-> "none", entry |-> "none", left |-> 0]
Changes == CHOOSE n \in 0 .. MaxChanges :
              n = Cardinality({<<e, k>> \in WatchedEntries \X (1 .. MaxChanges) : k <= entry[e]})

EventsInit ==
    /\ entry = UnseenChange
    /\ inFlight = 0
    /\ walks = [w \in 1 .. MaxReads |-> NoWalk]
    /\ reader = [r \in Readers |-> [walk |-> 0, floor |-> UnseenChange, fresh |-> TRUE]]
    /\ writer = [c \in Writers |-> NoWrite]
    /\ eventHandlers = 0
    /\ watchActive = FALSE /\ snapshot = Unset /\ knownPaths = {} /\ pollBusy = FALSE
    /\ polls = {} /\ acked = UnseenChange /\ told = Unset /\ watches = 0

-----------------------------------------------------------------------------
(* Events.                                                                 *)

\* invalidateTreeReads.
InvalidateTreeReads == inFlight' = 0

\* Subscribers read what an event names.
Told(S) == told' = IF told = Unset THEN told
                   ELSE [e \in WatchedEntries |-> IF e \in S THEN entry[e] ELSE told[e]]

\* emitChange of an event of the service itself.
EmitChange(e) ==
    /\ InvalidateTreeReads
    /\ knownPaths' = IF eventHandlers > 0 THEN knownPaths \cup {e} ELSE knownPaths
    /\ IF eventHandlers > 0 THEN Told({e}) ELSE UNCHANGED told

-----------------------------------------------------------------------------
(* listFiles.                                                              *)

Free == {w \in 1 .. MaxReads : walks[w].state = "none"}
AtLeast(a, b) == \A e \in WatchedEntries : a[e] >= b[e]

\* coalescedTreeRead: join the walk of this generation or begin one.
CoalescedTreeRead(r) ==
    /\ reader[r].walk = 0
    /\ IF inFlight # 0
       THEN /\ reader' = [reader EXCEPT ![r].walk = inFlight, ![r].floor = acked]
            /\ UNCHANGED <<walks, inFlight>>
       ELSE LET w == Min(Free)
            IN  /\ Free # {}
                /\ walks' = [walks EXCEPT ![w].state = "begun"]
                /\ inFlight' = w
                /\ reader' = [reader EXCEPT ![r].walk = w, ![r].floor = acked]
    /\ UNCHANGED <<acked, entry, writer, eventHandlers, knownPaths, told, watchVars>>

\* listVaultTree walks the tree.
ListVaultTree(w) ==
    /\ walks[w].state = "begun"
    /\ walks' = [walks EXCEPT ![w] = [state |-> "walked", saw |-> entry]]
    /\ UNCHANGED <<acked, entry, inFlight, reader, writer, eventHandlers, knownPaths, told, watchVars>>

\* The read ends for everyone who waits for it.
TreeReadEnds(w) ==
    /\ walks[w].state = "walked"
    /\ walks' = [walks EXCEPT ![w] = NoWalk]
    /\ inFlight' = IF inFlight = w THEN 0 ELSE inFlight
    /\ reader' = [r \in Readers |->
          IF reader[r].walk = w
          THEN [walk |-> 0, floor |-> UnseenChange, fresh |-> AtLeast(walks[w].saw, reader[r].floor)]
          ELSE reader[r]]
    /\ UNCHANGED <<acked, entry, writer, eventHandlers, knownPaths, told, watchVars>>

-----------------------------------------------------------------------------
(* Mutations.  A tree mutation invalidates reads before and after; an edit *)
(* through a session only before, its session event does the rest.         *)

BeginMutation(c, kind, e) ==
    /\ writer[c].at = "idle" /\ Changes + Cardinality({d \in Writers : writer[d].at = "begun"}) < MaxChanges
    /\ writer' = [writer EXCEPT ![c] = [at |-> "begun", kind |-> kind, entry |-> e, left |-> 0]]
    /\ InvalidateTreeReads
    /\ UNCHANGED <<acked, entry, readVars, eventHandlers, knownPaths, told, watchVars>>

\* createNote, deleteNote, moveNote, createFolder, deleteFolder, moveFolder,
\* setFolderMetadata, writeRawFile: the disk changes, and the audit entry
\* becomes an event while someone is subscribed.
TreeMutation(c) ==
    LET e == writer[c].entry
    IN  /\ writer[c].at = "begun" /\ writer[c].kind = "tree"
        /\ entry' = [entry EXCEPT ![e] = @ + 1]
        /\ writer' = [writer EXCEPT ![c].at = "effected", ![c].left = entry'[e]]
        /\ UNCHANGED <<acked, inFlight, readVars, eventHandlers, knownPaths, told, watchVars>>

\* The operation returns.
ReturnRead(c) ==
    /\ writer' = [writer EXCEPT ![c] = NoWrite]
    /\ acked' = [acked EXCEPT ![writer[c].entry] = IF @ > writer[c].left THEN @ ELSE writer[c].left]

\* Without the second invalidation.
FinishQuietly(c) ==
    /\ writer[c].at = "effected" /\ writer[c].kind = "tree"
    /\ ReturnRead(c)
    /\ IF eventHandlers > 0 THEN EmitChange(writer[c].entry)
       ELSE UNCHANGED <<inFlight, knownPaths, told>>
    /\ UNCHANGED <<entry, readVars, eventHandlers, watchVars>>

\* emitAuditChange, then finishTreeMutation.
FinishTreeMutation(c) ==
    /\ writer[c].at = "effected" /\ writer[c].kind = "tree"
    /\ ReturnRead(c)
    /\ IF eventHandlers > 0 THEN EmitChange(writer[c].entry)
       ELSE InvalidateTreeReads /\ UNCHANGED <<knownPaths, told>>
    /\ UNCHANGED <<entry, readVars, eventHandlers, watchVars>>

\* editNote, appendNote, prependNote, flushDirtySessions: the session persists
\* and its event is emitted before the operation returns.
SessionEdit(c) ==
    LET e == writer[c].entry
    IN  /\ writer[c].at = "begun" /\ writer[c].kind = "session"
        /\ entry' = [entry EXCEPT ![e] = @ + 1]
        /\ writer' = [writer EXCEPT ![c].at = "effected", ![c].left = entry'[e]]
        /\ UNCHANGED <<acked, inFlight, readVars, eventHandlers, knownPaths, told, watchVars>>

SessionPersisted(c) ==
    /\ writer[c].at = "effected" /\ writer[c].kind = "session"
    /\ ReturnRead(c)
    /\ EmitChange(writer[c].entry)
    /\ UNCHANGED <<entry, readVars, eventHandlers, watchVars>>

\* Another program changes a file of the vault.
ExternalChange(e) ==
    /\ Changes + Cardinality({c \in Writers : writer[c].at = "begun"}) < MaxChanges
    /\ entry' = [entry EXCEPT ![e] = @ + 1]
    /\ UNCHANGED <<acked, inFlight, readVars, writer, eventHandlers, knownPaths, told, watchVars>>

-----------------------------------------------------------------------------
(* Subscriptions and the watch.                                            *)

NewPoll == [known |-> knownPaths, saw |-> Unset]

\* onEvent: the first subscriber starts the watch, which polls at once.
OnEvent ==
    /\ eventHandlers < MaxEventHandlers
    /\ eventHandlers' = eventHandlers + 1
    /\ IF watchActive
       THEN UNCHANGED <<watchVars, knownPaths, told>>
       ELSE /\ watches < MaxWatches
            /\ watches' = watches + 1
            /\ watchActive' = TRUE /\ snapshot' = Unset /\ knownPaths' = {} /\ told' = Unset
            /\ pollBusy' = TRUE
            /\ polls' = IF pollBusy THEN polls ELSE polls \cup {[known |-> {}, saw |-> Unset]}
    /\ UNCHANGED <<acked, entry, inFlight, readVars, writer>>

\* The last subscriber leaves: releaseEventSources.  A poll that runs is not
\* stopped.
ReleaseEventSources ==
    /\ eventHandlers > 0
    /\ eventHandlers' = eventHandlers - 1
    /\ IF eventHandlers > 1
       THEN UNCHANGED <<inFlight, watchVars, knownPaths, told>>
       ELSE /\ watchActive' = FALSE /\ snapshot' = Unset /\ knownPaths' = {} /\ pollBusy' = FALSE
            /\ told' = Unset
            /\ InvalidateTreeReads
            /\ UNCHANGED <<polls, watches>>
    /\ UNCHANGED <<acked, entry, readVars, writer>>

\* The interval of the watch.
PollTreeWatch ==
    /\ watchActive /\ ~pollBusy
    /\ pollBusy' = TRUE
    /\ polls' = polls \cup {NewPoll}
    /\ UNCHANGED <<acked, entry, inFlight, readVars, writer, eventHandlers, watchActive, snapshot,
                   knownPaths, told, watches>>

PollWalks(p) ==
    /\ p \in polls /\ p.saw = Unset
    /\ polls' = (polls \ {p}) \cup {[p EXCEPT !.saw = entry]}
    /\ UNCHANGED <<acked, entry, inFlight, readVars, writer, eventHandlers, watchActive, snapshot,
                   knownPaths, pollBusy, told, watches>>

ChangedTreeSnapshotPaths(previous, next) == {e \in WatchedEntries : previous[e] # next[e]}

\* A difference that the service's own events cover is not announced again.
AbsorbCovered(p, changed) == IF changed \subseteq p.known THEN {} ELSE WatchedEntries

\* Covered differences are announced path by path, others for the whole vault.
Announced(p, changed) == IF changed \subseteq p.known THEN changed ELSE WatchedEntries

\* The poll ends, or its walk failed.  A poll begun before the watch was
\* released may end after it, or into the next watch.
PollEnds(p) ==
    LET changed == ChangedTreeSnapshotPaths(snapshot, p.saw)
    IN  /\ p \in polls /\ p.saw # Unset
        /\ IF snapshot = Unset
           THEN /\ snapshot' = p.saw
                /\ told' = IF eventHandlers > 0 THEN p.saw ELSE told
                /\ UNCHANGED inFlight
           ELSE /\ snapshot' = IF changed = {} THEN snapshot ELSE p.saw
                /\ IF changed = {}
                   THEN UNCHANGED <<told, inFlight>>
                   ELSE /\ InvalidateTreeReads
                        /\ told' = IF told = Unset THEN told
                                   ELSE [e \in WatchedEntries |->
                                           IF e \in Announced(p, changed) THEN entry[e] ELSE told[e]]
        /\ knownPaths' = knownPaths \ p.known
        /\ pollBusy' = FALSE
        /\ polls' = polls \ {p}
        /\ UNCHANGED <<acked, entry, readVars, writer, eventHandlers, watchActive, watches>>

EventsNext ==
    \/ \E r \in Readers : CoalescedTreeRead(r)
    \/ \E w \in 1 .. MaxReads : ListVaultTree(w) \/ TreeReadEnds(w)
    \/ \E c \in Writers :
          \/ \E e \in WatchedEntries, kind \in {"tree", "session"} : BeginMutation(c, kind, e)
          \/ TreeMutation(c) \/ FinishTreeMutation(c) \/ SessionEdit(c) \/ SessionPersisted(c)
    \/ \E e \in WatchedEntries : ExternalChange(e)
    \/ OnEvent \/ ReleaseEventSources \/ PollTreeWatch
    \/ \E p \in polls : PollWalks(p) \/ PollEnds(p)

\* Timers fire, walks end and operations that began return; nobody has to
\* subscribe, unsubscribe or write.
EventsFairness ==
    /\ WF_eventVars(PollTreeWatch)
    /\ WF_eventVars(\E p \in polls : PollWalks(p) \/ PollEnds(p))
    /\ \A c \in Writers : WF_eventVars(TreeMutation(c) \/ FinishTreeMutation(c)
                                       \/ SessionEdit(c) \/ SessionPersisted(c))

EventsSpec == EventsInit /\ [][EventsNext]_eventVars /\ EventsFairness

-----------------------------------------------------------------------------
(* Properties.                                                             *)

\* A listing contains the effect of every operation that had returned when it
\* was asked for: a read never joins a walk that a mutation made stale.
ReadsAreFresh == \A r \in Readers : reader[r].fresh

\* While the watch stays up, its subscribers are told of every change of the
\* tree that follows its first snapshot, made by the service or by another
\* program, also when the two overlap and when a poll of an earlier watch ends
\* late (pollTreeWatch, emitChange).
ChangesAreTold == <>[]watchActive => <>[](told = entry)

\* Readers see what was done before they asked, subscribers hear of what is done.
ClientsSeeTheTree == []ReadsAreFresh /\ ChangesAreTold
=============================================================================
