---------------------------- MODULE VaultRegistry ---------------------------
(***************************************************************************)
(* The live registry of the vaults a daemon serves                         *)
(* (apps/daemon/src/vault-registry.ts, class VaultRegistry): create,       *)
(* rename, setMetadata and softDelete change a vault folder, its identity  *)
(* file and the registry's map in several awaited steps, and the registry  *)
(* serialises none of them; handlers come and go, the daemon restarts.     *)
(*                                                                         *)
(* The content of a vault is a number, its age; the registry's instances   *)
(* are numbered in the order they are built.                               *)
(***************************************************************************)
EXTENDS Naturals, Sequences, FiniteSets, SequencesExt

CONSTANTS Slugs,        \* well-formed slugs callers name
          Names,        \* display names
          VaultColors,       \* normalised colours
          RegistryCalls,        \* slots for concurrent calls: numbers
          MaxRegistryOps,       \* bound: calls, restarts and folders placed by hand
          MaxHandlers   \* bound: handlers of vault events

ASSUME VaultRegistryBounds ==
    MaxRegistryOps \in Nat /\ MaxHandlers \in Nat /\ IsFiniteSet(Slugs)

VARIABLES
    overlap,      \* whether calls (and coming handlers) overlap in this behaviour
    vaults,       \* vaultsHome: slug -> folder
    trashHome,        \* trashHome: <<slug, suffix>> -> folder
    instances,    \* slug -> instance number, 0 for none
    built,        \* every instance built since the start: its entry
    handlers,     \* number of event handlers
    subscribedTo,   \* eventUnsubscribers: slug -> instance number, 0 for none
    regOp,           \* per slot: the call it runs
    registryOps,         \* calls, restarts and placed folders so far
    contents,     \* history: contents ever made
    placed        \* history: folders placed by hand since the last start

regVars == <<overlap, vaults, trashHome, instances, built, handlers, subscribedTo, regOp, registryOps,
             contents, placed>>

NoVaultColor == "none"
NoVault == "absent"
Invalid == "not a colour"
NoName == "unnamed"
ByHand == "by hand"
NoFolder == [there |-> FALSE, name |-> NoName, color |-> NoVaultColor, content |-> 0]
VaultFolder(name, color, content) == [there |-> TRUE, name |-> name, color |-> color, content |-> content]
NoRegistryCall == [kind |-> "idle", at |-> "idle", slug |-> "", name |-> NoName, color |-> NoVaultColor,
                   instance |-> 0, to |-> <<>>]

RegistryInit ==
    /\ overlap \in BOOLEAN
    /\ vaults = [s \in Slugs |-> NoFolder]
    /\ trashHome = <<>>
    /\ instances = [s \in Slugs |-> 0]
    /\ built = <<>>
    /\ handlers = 0
    /\ subscribedTo = [s \in Slugs |-> 0]
    /\ regOp = [c \in RegistryCalls |-> NoRegistryCall]
    /\ registryOps = 0
    /\ contents = {}
    /\ placed = {}

(* No call is in flight.                                                   *)
RegistryQuiet == \A c \in RegistryCalls : regOp[c].kind = "idle"

-----------------------------------------------------------------------------
(* Events.                                                                 *)

(* subscribeInstance: only while someone listens, and once per slug.       *)
Subscribed(subs, listening, slug, instance) ==
    IF listening = 0 \/ subs[slug] # 0 THEN subs ELSE [subs EXCEPT ![slug] = instance]

(* onVaultEvent: the first handler subscribes every instance, the last one *)
(* to leave ends every subscription.                                       *)
OnVaultEvent ==
    /\ overlap \/ RegistryQuiet
    /\ handlers < MaxHandlers
    /\ handlers' = handlers + 1
    /\ subscribedTo' = IF handlers = 0
                       THEN [s \in Slugs |-> IF subscribedTo[s] = 0 THEN instances[s] ELSE subscribedTo[s]]
                       ELSE subscribedTo
    /\ UNCHANGED <<overlap, vaults, trashHome, instances, built, regOp, registryOps, contents, placed>>

HandlerLeaves ==
    /\ overlap \/ RegistryQuiet
    /\ handlers > 0
    /\ handlers' = handlers - 1
    /\ subscribedTo' = IF handlers = 1 THEN [s \in Slugs |-> 0] ELSE subscribedTo
    /\ UNCHANGED <<overlap, vaults, trashHome, instances, built, regOp, registryOps, contents, placed>>

-----------------------------------------------------------------------------
(* Calls.                                                                  *)

MayBegin(c) == regOp[c].kind = "idle" /\ registryOps < MaxRegistryOps /\ (overlap \/ RegistryQuiet)
Begins(c, call) == regOp' = [regOp EXCEPT ![c] = call] /\ registryOps' = registryOps + 1
CallGoes(c, at) == regOp' = [regOp EXCEPT ![c].at = at]
CallEnds(c) == regOp' = [regOp EXCEPT ![c] = NoRegistryCall]

(* writeVaultIdentity makes the folder again when it is gone.              *)
Identified(slug, name, color) ==
    [vaults EXCEPT ![slug] = VaultFolder(name, color, vaults[slug].content)]

Create(c, slug, name) ==
    /\ MayBegin(c)
    /\ instances[slug] = 0
    /\ Begins(c, [NoRegistryCall EXCEPT !.kind = "create", !.at = "stat", !.slug = slug, !.name = name])
    /\ UNCHANGED <<overlap, vaults, trashHome, instances, built, handlers, subscribedTo, contents, placed>>

(* Disk first: a folder that is there already refuses the call.            *)
CreateAnyway(c) ==
    /\ regOp[c].at = "stat"
    /\ CallGoes(c, "mkdir")
    /\ UNCHANGED <<overlap, vaults, trashHome, instances, built, handlers, subscribedTo, registryOps, contents, placed>>

CreateStat(c) ==
    /\ regOp[c].at = "stat"
    /\ IF vaults[regOp[c].slug].there THEN CallEnds(c) ELSE CallGoes(c, "mkdir")
    /\ UNCHANGED <<overlap, vaults, trashHome, instances, built, handlers, subscribedTo, registryOps, contents, placed>>

CreateMkdir(c) ==
    /\ regOp[c].at = "mkdir"
    /\ vaults' = [vaults EXCEPT ![regOp[c].slug].there = TRUE]
    /\ CallGoes(c, "identity")
    /\ UNCHANGED <<overlap, trashHome, instances, built, handlers, subscribedTo, registryOps, contents, placed>>

CreateIdentity(c) ==
    /\ regOp[c].at = "identity"
    /\ vaults' = Identified(regOp[c].slug, regOp[c].name, NoVaultColor)
    /\ CallGoes(c, "seed")
    /\ UNCHANGED <<overlap, trashHome, instances, built, handlers, subscribedTo, registryOps, contents, placed>>

(* seedVaultFromStarterKit leaves a vault with content alone.              *)
CreateSeed(c) ==
    /\ regOp[c].at = "seed"
    /\ LET kit == Cardinality(contents) + 1
           folder == vaults[regOp[c].slug] IN
       IF folder.content # 0
       THEN UNCHANGED <<vaults, contents>>
       ELSE /\ vaults' = [vaults EXCEPT ![regOp[c].slug] = [folder EXCEPT !.there = TRUE, !.content = kit]]
            /\ contents' = contents \cup {kit}
    /\ CallGoes(c, "register")
    /\ UNCHANGED <<overlap, trashHome, instances, built, handlers, subscribedTo, registryOps, placed>>

RegisterQuietly(c) ==
    /\ regOp[c].at = "register"
    /\ built' = Append(built, [name |-> regOp[c].name, color |-> NoVaultColor, closed |-> FALSE])
    /\ instances' = [instances EXCEPT ![regOp[c].slug] = Len(built) + 1]
    /\ CallEnds(c)
    /\ UNCHANGED <<overlap, vaults, trashHome, handlers, subscribedTo, registryOps, contents, placed>>

CreateRegister(c) ==
    /\ regOp[c].at = "register"
    /\ built' = Append(built, [name |-> regOp[c].name, color |-> NoVaultColor, closed |-> FALSE])
    /\ instances' = [instances EXCEPT ![regOp[c].slug] = Len(built) + 1]
    /\ subscribedTo' = Subscribed(subscribedTo, handlers, regOp[c].slug, Len(built) + 1)
    /\ CallEnds(c)
    /\ UNCHANGED <<overlap, vaults, trashHome, handlers, registryOps, contents, placed>>

(* rename and setMetadata read the other half of the identity from the     *)
(* entry, write the file, then change the entry.                           *)
RenameUncoloured(c, slug, name) ==
    /\ MayBegin(c)
    /\ instances[slug] # 0
    /\ Begins(c, [NoRegistryCall EXCEPT !.kind = "rename", !.at = "write", !.slug = slug, !.name = name,
                                        !.instance = instances[slug]])
    /\ UNCHANGED <<overlap, vaults, trashHome, instances, built, handlers, subscribedTo, contents, placed>>

RenameVault(c, slug, name) ==
    /\ MayBegin(c)
    /\ instances[slug] # 0
    /\ Begins(c, [NoRegistryCall EXCEPT !.kind = "rename", !.at = "write", !.slug = slug, !.name = name,
                                        !.color = built[instances[slug]].color,
                                        !.instance = instances[slug]])
    /\ UNCHANGED <<overlap, vaults, trashHome, instances, built, handlers, subscribedTo, contents, placed>>

(* normalizeVaultMetadataInput and applyVaultMetadataInput: a colour that  *)
(* does not normalise is refused, null removes the colour, a call without  *)
(* one keeps it.                                                           *)
NormalizeVaultMetadataInput(input) == input \in VaultColors \cup {NoVaultColor, NoVault}
ApplyVaultMetadataInput(current, input) == IF input = NoVault THEN current ELSE input

SetMetadata(c, slug, input) ==
    /\ MayBegin(c)
    /\ instances[slug] # 0
    /\ NormalizeVaultMetadataInput(input)
    /\ LET entry == built[instances[slug]] IN
       Begins(c, [NoRegistryCall EXCEPT !.kind = "setMetadata", !.at = "write", !.slug = slug,
                                        !.name = entry.name,
                                        !.color = ApplyVaultMetadataInput(entry.color, input),
                                        !.instance = instances[slug]])
    /\ UNCHANGED <<overlap, vaults, trashHome, instances, built, handlers, subscribedTo, contents, placed>>

WriteIdentity(c) ==
    /\ regOp[c].at = "write"
    /\ vaults' = Identified(regOp[c].slug, regOp[c].name, regOp[c].color)
    /\ CallGoes(c, "apply")
    /\ UNCHANGED <<overlap, trashHome, instances, built, handlers, subscribedTo, registryOps, contents, placed>>

RenameApplies(c) ==
    /\ regOp[c].at = "apply"
    /\ regOp[c].kind = "rename"
    /\ built' = [built EXCEPT ![regOp[c].instance].name = regOp[c].name]
    /\ CallEnds(c)
    /\ UNCHANGED <<overlap, vaults, trashHome, instances, handlers, subscribedTo, registryOps, contents, placed>>

SetMetadataApplies(c) ==
    /\ regOp[c].at = "apply"
    /\ regOp[c].kind = "setMetadata"
    /\ built' = [built EXCEPT ![regOp[c].instance].color = regOp[c].color]
    /\ CallEnds(c)
    /\ UNCHANGED <<overlap, vaults, trashHome, instances, handlers, subscribedTo, registryOps, contents, placed>>

(* softDelete: the vault falls silent, its sessions are closed, its folder *)
(* is renamed into a free place of the trash, the entry goes last.  Only   *)
(* overlapping calls make the rename fail: a non-empty target or a folder  *)
(* that is gone.                                                           *)
SoftDelete(c, slug) ==
    /\ MayBegin(c)
    /\ instances[slug] # 0
    /\ subscribedTo' = [subscribedTo EXCEPT ![slug] = 0]
    /\ Begins(c, [NoRegistryCall EXCEPT !.kind = "softDelete", !.at = "close", !.slug = slug,
                                        !.instance = instances[slug]])
    /\ UNCHANGED <<overlap, vaults, trashHome, instances, built, handlers, contents, placed>>

DeleteCloses(c) ==
    /\ regOp[c].at = "close"
    /\ built' = [built EXCEPT ![regOp[c].instance].closed = TRUE]
    /\ CallGoes(c, "destination")
    /\ UNCHANGED <<overlap, vaults, trashHome, instances, handlers, subscribedTo, registryOps, contents, placed>>

UniqueTrashDestination(slug) ==
    <<slug, CHOOSE n \in 0..Cardinality(DOMAIN trashHome) :
                /\ <<slug, n>> \notin DOMAIN trashHome
                /\ \A m \in 0..(n - 1) : <<slug, m>> \in DOMAIN trashHome>>

DeleteFindsPlace(c) ==
    /\ regOp[c].at = "destination"
    /\ regOp' = [regOp EXCEPT ![c].at = "move", ![c].to = UniqueTrashDestination(regOp[c].slug)]
    /\ UNCHANGED <<overlap, vaults, trashHome, instances, built, handlers, subscribedTo, registryOps, contents, placed>>

(* The folder appears in the trash; nothing else there changes.            *)
PutInTrash(place, folder) ==
    [t \in DOMAIN trashHome \cup {place} |-> IF t = place THEN folder ELSE trashHome[t]]

MoveReplaces(c) ==
    /\ regOp[c].at = "move"
    /\ vaults[regOp[c].slug].there
    /\ trashHome' = PutInTrash(<<regOp[c].slug, 0>>, vaults[regOp[c].slug])
    /\ vaults' = [vaults EXCEPT ![regOp[c].slug] = NoFolder]
    /\ instances' = [instances EXCEPT ![regOp[c].slug] = 0]
    /\ CallEnds(c)
    /\ UNCHANGED <<overlap, built, handlers, subscribedTo, registryOps, contents, placed>>

DeleteMoves(c) ==
    /\ regOp[c].at = "move"
    /\ LET slug == regOp[c].slug IN
       IF vaults[slug].there /\ regOp[c].to \notin DOMAIN trashHome
       THEN /\ trashHome' = PutInTrash(regOp[c].to, vaults[slug])
            /\ vaults' = [vaults EXCEPT ![slug] = NoFolder]
            /\ instances' = [instances EXCEPT ![slug] = 0]
       ELSE UNCHANGED <<vaults, trashHome, instances>>
    /\ CallEnds(c)
    /\ UNCHANGED <<overlap, built, handlers, subscribedTo, registryOps, contents, placed>>

-----------------------------------------------------------------------------
(* A folder a user puts into vaults/, and a restart: crash or close, then  *)
(* load finds every folder and mints the identities that are missing.      *)

PlaceFolder(slug) ==
    /\ registryOps < MaxRegistryOps
    /\ overlap \/ RegistryQuiet
    /\ ~vaults[slug].there
    /\ LET content == Cardinality(contents) + 1 IN
       /\ vaults' = [vaults EXCEPT ![slug] = VaultFolder(ByHand, NoVaultColor, content)]
       /\ contents' = contents \cup {content}
    /\ placed' = placed \cup {slug}
    /\ registryOps' = registryOps + 1
    /\ UNCHANGED <<overlap, trashHome, instances, built, handlers, subscribedTo, regOp>>

Minted(slug) ==
    IF vaults[slug].there /\ vaults[slug].name = NoName
    THEN [vaults[slug] EXCEPT !.name = slug]
    ELSE vaults[slug]

Load ==
    /\ registryOps < MaxRegistryOps
    /\ registryOps' = registryOps + 1
    /\ vaults' = [s \in Slugs |-> Minted(s)]
    /\ LET found == SetToSeq({s \in Slugs : vaults[s].there}) IN
       /\ built' = [i \in 1..Len(found) |->
                       [name |-> vaults'[found[i]].name, color |-> vaults'[found[i]].color,
                        closed |-> FALSE]]
       /\ instances' = [s \in Slugs |->
                           IF vaults[s].there THEN CHOOSE i \in 1..Len(found) : found[i] = s ELSE 0]
    /\ handlers' = 0
    /\ subscribedTo' = [s \in Slugs |-> 0]
    /\ regOp' = [c \in RegistryCalls |-> NoRegistryCall]
    /\ placed' = {}
    /\ UNCHANGED <<overlap, trashHome, contents>>

RegistryNext ==
    \/ OnVaultEvent \/ HandlerLeaves \/ Load
    \/ \E s \in Slugs : PlaceFolder(s)
    \/ \E c \in RegistryCalls :
        \/ \E s \in Slugs, n \in Names : Create(c, s, n) \/ RenameVault(c, s, n)
        \/ \E s \in Slugs, k \in VaultColors \cup {NoVaultColor, NoVault, Invalid} : SetMetadata(c, s, k)
        \/ \E s \in Slugs : SoftDelete(c, s)
        \/ CreateStat(c) \/ CreateMkdir(c) \/ CreateIdentity(c) \/ CreateSeed(c) \/ CreateRegister(c)
        \/ WriteIdentity(c) \/ RenameApplies(c) \/ SetMetadataApplies(c)
        \/ DeleteCloses(c) \/ DeleteFindsPlace(c) \/ DeleteMoves(c)

RegistrySpec == RegistryInit /\ [][RegistryNext]_regVars

-----------------------------------------------------------------------------
(* Properties.                                                             *)

(* Deleting is reversible: whatever calls overlap and wherever the daemon  *)
(* stops, every content a vault had is in vaults/ or in the trash, and no  *)
(* delete replaces what an earlier one put there.                          *)
ContentIsKept ==
    \A n \in contents : \/ \E s \in Slugs : vaults[s].content = n
                        \/ \E t \in DOMAIN trashHome : trashHome[t].content = n

(* create refuses a folder the registry does not know "rather than clobber *)
(* user data": it keeps its identity until a restart loads it.             *)
FolderByHandIsKept ==
    ~overlap => \A s \in placed : vaults[s].there /\ vaults[s].name = ByHand

(* "The filesystem stays the source of truth; the registry mirrors it":    *)
(* with no call in flight, the entry of every vault says what its identity *)
(* file says, which is what a restart would read.                          *)
RegistryMirrorsDisk ==
    RegistryQuiet => \A s \in Slugs : instances[s] # 0 =>
                /\ vaults[s].there
                /\ vaults[s].name = built[instances[s]].name
                /\ vaults[s].color = built[instances[s]].color

(* The same for calls that come one after another.                         *)
SerialRegistryMirrorsDisk == ~overlap => RegistryMirrorsDisk

(* A registered vault has open sessions, and while anyone listens to vault *)
(* events it is the one that is subscribed, across deletes, re-creations   *)
(* under the same slug, and handlers that come and go: calls one after     *)
(* another.                                                                *)
ServedVaultIsLive ==
    ~overlap /\ RegistryQuiet => \A s \in Slugs : instances[s] # 0 =>
        /\ ~built[instances[s]].closed
        /\ handlers > 0 => subscribedTo[s] = instances[s]

(* The registry loses no content, touches no folder it does not know, and  *)
(* serves live vaults that are what the disk says.                         *)
RegistryIsSound ==
    /\ ContentIsKept /\ FolderByHandIsKept
    /\ SerialRegistryMirrorsDisk /\ ServedVaultIsLive
=============================================================================
