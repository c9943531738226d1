---------------------------- MODULE DaemonProofs ----------------------------
(***************************************************************************)
(* Proofs about the daemon process.                                        *)
(*                                                                         *)
(* The vault registry loses no content, whatever calls overlap, and calls  *)
(* that come one after another keep what it serves live and as the disk    *)
(* says (module VaultRegistry).  That nothing is lost needs little: what a *)
(* folder that is not there holds (NothingHidden), and that softDelete     *)
(* looks at its place in the trash again when it moves.  The rest is about *)
(* one call at a time: every vault is Good, except the one the call under  *)
(* way is changing, of which CallOK says what each stage has done so far   *)
(* (Serial).                                                               *)
(*                                                                         *)
(* The shutdown closes the registry last (module DaemonLifecycle): what    *)
(* was drained stays drained, since a daemon that closes takes no          *)
(* connection (LifecycleInv).                                              *)
(*                                                                         *)
(* The MCP endpoint serves what it admitted and keeps a session in use     *)
(* (module McpSessions): a session counts exactly the requests its clients *)
(* follow, and a tool starts only behind a request (McpInv).               *)
(***************************************************************************)
EXTENDS VaultRegistry, DaemonLifecycle, McpSessions, FiniteSetTheorems, WellFoundedInduction, TLAPS

\* A non-empty set of numbers has a least one.
LEMMA LeastNatural ==
    ASSUME NEW T \in SUBSET Nat, T # {}
    PROVE  \E n \in T : \A m \in T : ~(m < n)
<1>1. \E n \in T : \A m \in T : ~(<<m, n>> \in OpToRel(<, Nat))
  BY NatLessThanWellFounded, WFMin
<1> QED
  BY <1>1 DEF OpToRel

\* uniqueTrashDestination finds a free place.
LEMMA FreePlace ==
    ASSUME IsFiniteSet(DOMAIN trashHome), NEW slug
    PROVE  /\ UniqueTrashDestination(slug) \notin DOMAIN trashHome
           /\ UniqueTrashDestination(slug) \in {slug} \X Nat
<1> DEFINE k == Cardinality(DOMAIN trashHome)
           T == {n \in 0..k : <<slug, n>> \notin DOMAIN trashHome}
<1>1. k \in Nat
  BY FS_CardinalityType
<1>2. T # {}
  <2>1. SUFFICES ASSUME T = {} PROVE FALSE
    OBVIOUS
  <2>2. \A n \in 0..k : <<slug, n>> \in DOMAIN trashHome
    BY <2>1
  <2> DEFINE f == [n \in 0..k |-> <<slug, n>>]
  <2>3. f \in Injection(0..k, DOMAIN trashHome)
    <3>1. f \in [0..k -> DOMAIN trashHome]
      BY <2>2
    <3>2. \A a, b \in 0..k : f[a] = f[b] => a = b
      OBVIOUS
    <3> HIDE DEF f
    <3> QED
      BY <3>1, <3>2 DEF Injection, IsInjective
  <2>4. Cardinality(0..k) <= k
    BY <2>3, FS_Injection
  <2>5. Cardinality(0..k) = k + 1
    BY <1>1, FS_Interval
  <2> QED
    BY <1>1, <2>4, <2>5
<1>3. T \in SUBSET Nat
  BY <1>1
<1>4. PICK n \in T : \A m \in T : ~(m < n)
  BY <1>2, <1>3, LeastNatural
<1>5. /\ <<slug, n>> \notin DOMAIN trashHome
      /\ \A m \in 0..(n - 1) : <<slug, m>> \in DOMAIN trashHome
  BY <1>1, <1>3, <1>4
<1>6. n \in 0..k
  BY <1>4
<1> QED
  BY <1>1, <1>5, <1>6 DEF UniqueTrashDestination

\* load numbers the vaults it finds.
LEMMA Found ==
    ASSUME NEW S, IsFiniteSet(S)
    PROVE  /\ SetToSeq(S) \in [1..Cardinality(S) -> S]
           /\ Cardinality(S) \in Nat
           /\ \A s \in S : \E i \in 1..Cardinality(S) : SetToSeq(S)[i] = s
<1>1. Cardinality(S) \in Nat /\ ExistsBijection(1..Cardinality(S), S)
  BY FS_CardinalityType
<1>2. PICK g \in [1..Cardinality(S) -> S] : IsInjective(g)
  BY <1>1 DEF ExistsBijection, Bijection, Injection, IsInjective
<1>3. SetToSeq(S) \in [1..Cardinality(S) -> S] /\ IsInjective(SetToSeq(S))
  BY <1>2 DEF SetToSeq
<1>4. SetToSeq(S) \in Injection(1..Cardinality(S), S)
  BY <1>3 DEF Injection, IsInjective
<1>5. Cardinality(1..Cardinality(S)) = Cardinality(S)
  BY <1>1, FS_Interval
<1>6. SetToSeq(S) \in Surjection(1..Cardinality(S), S)
  BY <1>4, <1>5, FS_Injection
<1> QED
  BY <1>1, <1>3, <1>6 DEF Surjection

------------------------------------------------------------------------------
(* The inductive invariant. *)

AnyName == Names \cup Slugs \cup {NoName, ByHand}
AnyColor == VaultColors \cup {NoVaultColor}
FolderType == [there : BOOLEAN, name : AnyName, color : AnyColor, content : Nat]
EntryType == [name : AnyName, color : AnyColor, closed : BOOLEAN]
CallStage == {"idle", "stat", "mkdir", "identity", "seed", "register", "write", "apply",
          "close", "destination", "move"}
CallType ==
    [kind : {"idle", "create", "rename", "setMetadata", "softDelete"}, at : CallStage,
     slug : Slugs \cup {""}, name : AnyName, color : AnyColor, instance : Nat,
     to : {<<>>} \cup (Slugs \X Nat)]

\* A call is at a stage of its kind, of a vault that was registered when it
\* began, except for the one that creates it.
StageOK(r) ==
    \/ r.kind = "idle" /\ r.at = "idle"
    \/ /\ r.kind = "create" /\ r.slug \in Slugs
       /\ r.at \in {"stat", "mkdir", "identity", "seed", "register"}
    \/ /\ r.kind \in {"rename", "setMetadata"} /\ r.slug \in Slugs
       /\ r.at \in {"write", "apply"} /\ r.instance \in 1..Len(built)
    \/ /\ r.kind = "softDelete" /\ r.slug \in Slugs
       /\ r.at \in {"close", "destination", "move"} /\ r.instance \in 1..Len(built)

RegistryTypeOK ==
    /\ overlap \in BOOLEAN
    /\ vaults \in [Slugs -> FolderType]
    /\ IsFiniteSet(DOMAIN trashHome)
    /\ instances \in [Slugs -> Nat]
    /\ built \in Seq(EntryType)
    /\ \A s \in Slugs : instances[s] <= Len(built)
    /\ handlers \in Nat
    /\ subscribedTo \in [Slugs -> Nat]
    /\ regOp \in [RegistryCalls -> CallType]
    /\ \A c \in RegistryCalls : StageOK(regOp[c])
    /\ IsFiniteSet(contents) /\ contents \subseteq Nat \ {0}
    /\ placed \subseteq Slugs

\* A folder that is not there has no content.
NothingHidden == \A s \in Slugs : ~vaults[s].there => vaults[s].content = 0

\* The entry of a vault says what its identity file says.
Mirrored(s) ==
    /\ vaults[s].name = built[instances[s]].name
    /\ vaults[s].color = built[instances[s]].color

\* The sessions of a vault are open and its events are heard.
Live(s) ==
    /\ ~built[instances[s]].closed
    /\ handlers > 0 => subscribedTo[s] = instances[s]

\* What holds of a vault that no call is changing.
Good(s) == instances[s] # 0 => Mirrored(s) /\ Live(s)

\* What holds of every vault at any time when calls come one after another.
SlugOK(s) ==
    /\ instances[s] = 0 \/ handlers = 0 => subscribedTo[s] = 0
    /\ instances[s] # 0 => vaults[s].there
    /\ s \in placed => vaults[s].there /\ vaults[s].name = ByHand /\ instances[s] = 0

Distinct == \A s, t \in Slugs : instances[s] = instances[t] /\ instances[s] # 0 => s = t

\* What holds of the vault the only call is changing.
CreateOK(r) ==
    /\ instances[r.slug] = 0
    /\ r.at # "stat" => r.slug \notin placed
    /\ r.at \in {"identity", "seed", "register"} => vaults[r.slug].there
    /\ r.at \in {"seed", "register"} => /\ vaults[r.slug].name = r.name
                                       /\ vaults[r.slug].color = NoVaultColor
IdentityOK(r) ==
    /\ instances[r.slug] = r.instance /\ Live(r.slug)
    /\ r.kind = "rename" => r.color = built[r.instance].color
    /\ r.kind = "setMetadata" => r.name = built[r.instance].name
    /\ r.at = "apply" => vaults[r.slug].name = r.name /\ vaults[r.slug].color = r.color
DeleteOK(r) ==
    /\ instances[r.slug] = r.instance /\ subscribedTo[r.slug] = 0
    /\ r.at = "move" => r.to \notin DOMAIN trashHome
CallOK(r) ==
    /\ r.kind = "create" => CreateOK(r)
    /\ r.kind \in {"rename", "setMetadata"} => IdentityOK(r)
    /\ r.kind = "softDelete" => DeleteOK(r)

QuietMode == RegistryQuiet /\ \A s \in Slugs : Good(s)
BusyMode(c) ==
    /\ regOp[c].kind # "idle" /\ CallOK(regOp[c])
    /\ \A d \in RegistryCalls \ {c} : regOp[d].kind = "idle"
    /\ \A s \in Slugs \ {regOp[c].slug} : Good(s)

Serial ==
    /\ \A s \in Slugs : SlugOK(s)
    /\ Distinct
    /\ QuietMode \/ \E c \in RegistryCalls : BusyMode(c)

RegistryInv ==
    RegistryTypeOK /\ NothingHidden /\ ContentIsKept /\ (~overlap => Serial)

------------------------------------------------------------------------------
(* Calls. *)

\* A call goes to its next stage; nothing else of it changes.
LEMMA Goes ==
    ASSUME RegistryTypeOK, NEW c \in RegistryCalls, NEW at \in CallStage, CallGoes(c, at)
    PROVE  /\ regOp' \in [RegistryCalls -> CallType]
           /\ regOp'[c].at = at /\ regOp'[c].kind = regOp[c].kind
           /\ regOp'[c].slug = regOp[c].slug /\ regOp'[c].name = regOp[c].name
           /\ regOp'[c].color = regOp[c].color /\ regOp'[c].instance = regOp[c].instance
           /\ regOp'[c].to = regOp[c].to
           /\ \A d \in RegistryCalls \ {c} : regOp'[d] = regOp[d]
<1>1. regOp \in [RegistryCalls -> CallType] /\ regOp[c] \in CallType
  BY DEF RegistryTypeOK
<1> DEFINE r == [regOp[c] EXCEPT !.at = at]
<1>2. regOp' = [regOp EXCEPT ![c] = r]
  BY <1>1 DEF CallGoes
<1>3. /\ r \in CallType /\ r.at = at /\ r.kind = regOp[c].kind /\ r.slug = regOp[c].slug
      /\ r.name = regOp[c].name /\ r.color = regOp[c].color
      /\ r.instance = regOp[c].instance /\ r.to = regOp[c].to
  BY <1>1 DEF CallType
<1> HIDE DEF r
<1> QED
  BY <1>1, <1>2, <1>3

\* The empty call is a call.
LEMMA NoCallType == NoRegistryCall \in CallType /\ StageOK(NoRegistryCall)
BY DEF NoRegistryCall, CallType, StageOK, CallStage, AnyName, AnyColor

\* A call ends.
LEMMA Ends ==
    ASSUME RegistryTypeOK, NEW c \in RegistryCalls, CallEnds(c)
    PROVE  /\ regOp' \in [RegistryCalls -> CallType]
           /\ regOp'[c] = NoRegistryCall /\ regOp'[c].kind = "idle" /\ regOp'[c].at = "idle"
           /\ \A d \in RegistryCalls \ {c} : regOp'[d] = regOp[d]
<1>1. regOp \in [RegistryCalls -> CallType]
  BY DEF RegistryTypeOK
<1>2. regOp' = [regOp EXCEPT ![c] = NoRegistryCall]
  BY DEF CallEnds
<1>3. NoRegistryCall.kind = "idle" /\ NoRegistryCall.at = "idle"
  BY DEF NoRegistryCall
<1> QED
  BY <1>1, <1>2, <1>3, NoCallType

\* A call begins.
LEMMA CallBegins ==
    ASSUME RegistryTypeOK, NEW c \in RegistryCalls, NEW r \in CallType, Begins(c, r)
    PROVE  /\ regOp' \in [RegistryCalls -> CallType]
           /\ regOp'[c] = r
           /\ \A d \in RegistryCalls \ {c} : regOp'[d] = regOp[d]
BY DEF RegistryTypeOK, Begins

\* rename and setMetadata begin with the entry of a registered vault.
LEMMA EntryIsThere ==
    ASSUME RegistryTypeOK, NEW s \in Slugs, instances[s] # 0
    PROVE  /\ instances[s] \in 1..Len(built)
           /\ built[instances[s]] \in EntryType
           /\ built[instances[s]].name \in AnyName /\ built[instances[s]].color \in AnyColor
<1>1. instances[s] \in 1..Len(built)
  BY DEF RegistryTypeOK
<1>2. built[instances[s]] \in EntryType
  BY <1>1 DEF RegistryTypeOK
<1> QED
  BY <1>1, <1>2 DEF EntryType

\* create() begins.
LEMMA CreateBegins ==
    ASSUME RegistryTypeOK, NEW c \in RegistryCalls, NEW s \in Slugs, NEW n \in Names,
           Create(c, s, n)
    PROVE  /\ regOp' \in [RegistryCalls -> CallType]
           /\ regOp'[c].kind = "create" /\ regOp'[c].at = "stat" /\ regOp'[c].slug = s
           /\ \A d \in RegistryCalls \ {c} : regOp'[d] = regOp[d]
<1> DEFINE r == [NoRegistryCall EXCEPT !.kind = "create", !.at = "stat", !.slug = s, !.name = n]
<1>1. Begins(c, r)
  BY DEF Create
<1>2. n \in AnyName /\ NoVaultColor \in AnyColor /\ 0 \in Nat
  BY DEF AnyName, AnyColor
<1>3. r \in CallType /\ r.kind = "create" /\ r.at = "stat" /\ r.slug = s
  BY <1>2 DEF NoRegistryCall, CallType, CallStage, AnyName, AnyColor
<1> HIDE DEF r
<1> QED
  BY <1>1, <1>3, CallBegins

\* rename() and setMetadata() begin, with the other half of the identity.
LEMMA IdentityBegins ==
    ASSUME RegistryTypeOK, NEW c \in RegistryCalls, NEW s \in Slugs,
           \/ \E n \in Names : RenameVault(c, s, n)
           \/ \E k \in VaultColors \cup {NoVaultColor, NoVault, Invalid} : SetMetadata(c, s, k)
    PROVE  /\ regOp' \in [RegistryCalls -> CallType]
           /\ regOp'[c].kind \in {"rename", "setMetadata"} /\ regOp'[c].at = "write"
           /\ regOp'[c].slug = s /\ regOp'[c].instance = instances[s] /\ instances[s] # 0
           /\ regOp'[c].kind = "rename" => regOp'[c].color = built[instances[s]].color
           /\ regOp'[c].kind = "setMetadata" => regOp'[c].name = built[instances[s]].name
           /\ \A d \in RegistryCalls \ {c} : regOp'[d] = regOp[d]
<1>0. instances[s] # 0 /\ instances[s] \in Nat
  BY DEF RenameVault, SetMetadata, RegistryTypeOK
<1>1. built[instances[s]].name \in AnyName /\ built[instances[s]].color \in AnyColor
  BY <1>0, EntryIsThere
<1>2. CASE \E n \in Names : RenameVault(c, s, n)
  <2> PICK n \in Names : RenameVault(c, s, n)
    BY <1>2
  <2>0. PICK color \in AnyColor : color = built[instances[s]].color
    BY <1>1
  <2> DEFINE r == [NoRegistryCall EXCEPT !.kind = "rename", !.at = "write", !.slug = s,
                                         !.name = n, !.color = color, !.instance = instances[s]]
  <2>1. Begins(c, r)
    BY <2>0 DEF RenameVault
  <2>2. n \in AnyName
    BY DEF AnyName
  <2>3. /\ r \in CallType /\ r.kind = "rename" /\ r.at = "write" /\ r.slug = s
        /\ r.color = color /\ r.instance = instances[s]
    BY <1>0, <2>2 DEF NoRegistryCall, CallType, CallStage, AnyName, AnyColor
  <2> HIDE DEF r
  <2>4. /\ regOp' \in [RegistryCalls -> CallType] /\ regOp'[c] = r
        /\ \A d \in RegistryCalls \ {c} : regOp'[d] = regOp[d]
    BY <2>1, <2>3, CallBegins
  <2> QED
    BY <1>0, <2>0, <2>3, <2>4
<1>3. CASE \E k \in VaultColors \cup {NoVaultColor, NoVault, Invalid} : SetMetadata(c, s, k)
  <2> PICK k \in VaultColors \cup {NoVaultColor, NoVault, Invalid} : SetMetadata(c, s, k)
    BY <1>3
  <2>0. PICK name \in AnyName : name = built[instances[s]].name
    BY <1>1
  <2>1. PICK color \in AnyColor :
           color = ApplyVaultMetadataInput(built[instances[s]].color, k)
    BY <1>1 DEF SetMetadata, NormalizeVaultMetadataInput, ApplyVaultMetadataInput, AnyColor
  <2> DEFINE r == [NoRegistryCall EXCEPT !.kind = "setMetadata", !.at = "write", !.slug = s,
                                         !.name = name, !.color = color, !.instance = instances[s]]
  <2>2. Begins(c, r)
    BY <2>0, <2>1 DEF SetMetadata
  <2>3. /\ r \in CallType /\ r.kind = "setMetadata" /\ r.at = "write" /\ r.slug = s
        /\ r.name = name /\ r.instance = instances[s]
    BY <1>0 DEF NoRegistryCall, CallType, CallStage, AnyName, AnyColor
  <2> HIDE DEF r
  <2>4. /\ regOp' \in [RegistryCalls -> CallType] /\ regOp'[c] = r
        /\ \A d \in RegistryCalls \ {c} : regOp'[d] = regOp[d]
    BY <2>2, <2>3, CallBegins
  <2> QED
    BY <1>0, <2>0, <2>3, <2>4
<1> QED
  BY <1>2, <1>3

\* softDelete() begins.
LEMMA DeleteBegins ==
    ASSUME RegistryTypeOK, NEW c \in RegistryCalls, NEW s \in Slugs, SoftDelete(c, s)
    PROVE  /\ regOp' \in [RegistryCalls -> CallType]
           /\ regOp'[c].kind = "softDelete" /\ regOp'[c].at = "close" /\ regOp'[c].slug = s
           /\ regOp'[c].instance = instances[s] /\ instances[s] # 0
           /\ \A d \in RegistryCalls \ {c} : regOp'[d] = regOp[d]
<1> DEFINE r == [NoRegistryCall EXCEPT !.kind = "softDelete", !.at = "close", !.slug = s,
                                       !.instance = instances[s]]
<1>1. Begins(c, r) /\ instances[s] # 0
  BY DEF SoftDelete
<1>2. NoName \in AnyName /\ NoVaultColor \in AnyColor /\ instances[s] \in Nat
  BY DEF AnyName, AnyColor, RegistryTypeOK
<1>3. /\ r \in CallType /\ r.kind = "softDelete" /\ r.at = "close" /\ r.slug = s
      /\ r.instance = instances[s]
  BY <1>2 DEF NoRegistryCall, CallType, CallStage, AnyName, AnyColor
<1> HIDE DEF r
<1> QED
  BY <1>1, <1>3, CallBegins

\* softDelete() has found its place in the trash.
LEMMA PlaceIsFound ==
    ASSUME RegistryTypeOK, NEW c \in RegistryCalls, DeleteFindsPlace(c)
    PROVE  /\ regOp' \in [RegistryCalls -> CallType]
           /\ regOp'[c].at = "move" /\ regOp'[c].kind = regOp[c].kind
           /\ regOp'[c].slug = regOp[c].slug /\ regOp'[c].instance = regOp[c].instance
           /\ regOp'[c].name = regOp[c].name /\ regOp'[c].color = regOp[c].color
           /\ regOp'[c].to \notin DOMAIN trashHome
           /\ \A d \in RegistryCalls \ {c} : regOp'[d] = regOp[d]
<1>1. /\ regOp \in [RegistryCalls -> CallType] /\ regOp[c] \in CallType
      /\ regOp[c].slug \in Slugs /\ IsFiniteSet(DOMAIN trashHome)
  BY DEF RegistryTypeOK, DeleteFindsPlace, StageOK
<1>2. PICK p \in {<<>>} \cup (Slugs \X Nat) :
         p = UniqueTrashDestination(regOp[c].slug) /\ p \notin DOMAIN trashHome
  <2>1. /\ UniqueTrashDestination(regOp[c].slug) \notin DOMAIN trashHome
        /\ UniqueTrashDestination(regOp[c].slug) \in {regOp[c].slug} \X Nat
    BY <1>1, FreePlace
  <2> QED
    BY <1>1, <2>1
<1> DEFINE r == [regOp[c] EXCEPT !.at = "move", !.to = p]
<1>3. regOp' = [regOp EXCEPT ![c] = r]
  BY <1>1, <1>2 DEF DeleteFindsPlace
<1>4. /\ r \in CallType /\ r.at = "move" /\ r.kind = regOp[c].kind /\ r.slug = regOp[c].slug
      /\ r.instance = regOp[c].instance /\ r.name = regOp[c].name
      /\ r.color = regOp[c].color /\ r.to = p
  BY <1>1 DEF CallType, CallStage
<1> HIDE DEF r
<1> QED
  BY <1>1, <1>2, <1>3, <1>4

------------------------------------------------------------------------------
(* Type correctness. *)

\* The steps of a call that is under way.
CallStep(c) ==
    \/ CreateStat(c) \/ CreateMkdir(c) \/ CreateIdentity(c) \/ CreateSeed(c) \/ CreateRegister(c)
    \/ WriteIdentity(c) \/ RenameApplies(c) \/ SetMetadataApplies(c)
    \/ DeleteCloses(c) \/ DeleteFindsPlace(c) \/ DeleteMoves(c)

CallBegin(c, s) ==
    \/ \E n \in Names : Create(c, s, n) \/ RenameVault(c, s, n)
    \/ \E k \in VaultColors \cup {NoVaultColor, NoVault, Invalid} : SetMetadata(c, s, k)
    \/ SoftDelete(c, s)

\* A new entry is appended.
LEMMA EntryAppended ==
    ASSUME RegistryTypeOK, NEW e \in EntryType, built' = Append(built, e)
    PROVE  /\ built' \in Seq(EntryType) /\ Len(built') = Len(built) + 1 /\ Len(built) \in Nat
           /\ built'[Len(built) + 1] = e
           /\ \A i \in 1..Len(built) : built'[i] = built[i]
BY DEF RegistryTypeOK

\* An entry is changed in place.
LEMMA EntryChanged ==
    ASSUME RegistryTypeOK, NEW i \in 1..Len(built), NEW e \in EntryType,
           built' = [built EXCEPT ![i] = e]
    PROVE  /\ built' \in Seq(EntryType) /\ Len(built') = Len(built)
           /\ built'[i] = e
           /\ \A j \in 1..Len(built) : j # i => built'[j] = built[j]
BY DEF RegistryTypeOK

\* What a step of a call does to the entries.
LEMMA EntriesStep ==
    ASSUME RegistryTypeOK, NEW c \in RegistryCalls, CallStep(c)
    PROVE  /\ built' \in Seq(EntryType)
           /\ Len(built) \in Nat /\ Len(built') \in Nat /\ Len(built) <= Len(built')
           /\ CreateRegister(c) => /\ Len(built') = Len(built) + 1
                                   /\ built'[Len(built) + 1].name = regOp[c].name
                                   /\ built'[Len(built) + 1].color = NoVaultColor
                                   /\ ~built'[Len(built) + 1].closed
                                   /\ \A i \in 1..Len(built) : built'[i] = built[i]
           /\ RenameApplies(c) => /\ built'[regOp[c].instance].name = regOp[c].name
                                  /\ built'[regOp[c].instance].color = built[regOp[c].instance].color
                                  /\ built'[regOp[c].instance].closed = built[regOp[c].instance].closed
           /\ SetMetadataApplies(c) =>
                                  /\ built'[regOp[c].instance].color = regOp[c].color
                                  /\ built'[regOp[c].instance].name = built[regOp[c].instance].name
                                  /\ built'[regOp[c].instance].closed = built[regOp[c].instance].closed
           /\ ~CreateRegister(c) => Len(built') = Len(built)
           /\ \A i \in 1..Len(built) : i # regOp[c].instance => built'[i] = built[i]
           /\ \/ RenameApplies(c) \/ SetMetadataApplies(c) \/ DeleteCloses(c)
              \/ \A i \in 1..Len(built) : built'[i] = built[i]
<1>0. /\ built \in Seq(EntryType) /\ Len(built) \in Nat
      /\ regOp[c] \in CallType /\ StageOK(regOp[c])
      /\ regOp[c].name \in AnyName /\ regOp[c].color \in AnyColor
  <2>1. built \in Seq(EntryType) /\ regOp[c] \in CallType /\ StageOK(regOp[c])
    BY DEF RegistryTypeOK
  <2>2. Len(built) \in Nat
    BY <2>1
  <2> QED
    BY <2>1, <2>2 DEF CallType
<1>1. CASE CreateRegister(c)
  <2> DEFINE e == [name |-> regOp[c].name, color |-> NoVaultColor, closed |-> FALSE]
  <2>1. e \in EntryType /\ e.name = regOp[c].name /\ e.color = NoVaultColor /\ e.closed = FALSE
    BY <1>0 DEF EntryType, AnyColor
  <2>2. built' = Append(built, e)
    BY <1>1 DEF CreateRegister
  <2> HIDE DEF e
  <2>3. /\ built' \in Seq(EntryType) /\ Len(built') = Len(built) + 1 /\ Len(built) \in Nat
        /\ built'[Len(built) + 1] = e
        /\ \A i \in 1..Len(built) : built'[i] = built[i]
    BY <2>1, <2>2, EntryAppended
  <2>4. ~RenameApplies(c) /\ ~SetMetadataApplies(c)
    BY <1>1 DEF CreateRegister, RenameApplies, SetMetadataApplies
  <2> QED
    BY <1>1, <2>1, <2>3, <2>4
<1>2. CASE RenameApplies(c) \/ SetMetadataApplies(c) \/ DeleteCloses(c)
  <2>1. PICK i \in 1..Len(built) : i = regOp[c].instance
    BY <1>0, <1>2 DEF RenameApplies, SetMetadataApplies, DeleteCloses, StageOK
  <2>2. built[i] \in EntryType
    BY <1>0
  <2>3. PICK e \in EntryType :
           /\ built' = [built EXCEPT ![i] = e]
           /\ RenameApplies(c) => /\ e.name = regOp[c].name /\ e.color = built[i].color
                                  /\ e.closed = built[i].closed
           /\ SetMetadataApplies(c) => /\ e.color = regOp[c].color /\ e.name = built[i].name
                                       /\ e.closed = built[i].closed
    <3>1. CASE RenameApplies(c)
      <4> DEFINE e == [built[i] EXCEPT !.name = regOp[c].name]
      <4>1. e \in EntryType /\ e.name = regOp[c].name /\ e.color = built[i].color
            /\ e.closed = built[i].closed
        BY <1>0, <2>2 DEF EntryType
      <4>2. built' = [built EXCEPT ![i] = e]
        BY <1>0, <2>1, <3>1 DEF RenameApplies
      <4>3. ~SetMetadataApplies(c)
        BY <3>1 DEF RenameApplies, SetMetadataApplies
      <4> HIDE DEF e
      <4> QED
        BY <4>1, <4>2, <4>3
    <3>2. CASE SetMetadataApplies(c)
      <4> DEFINE e == [built[i] EXCEPT !.color = regOp[c].color]
      <4>1. e \in EntryType /\ e.color = regOp[c].color /\ e.name = built[i].name
            /\ e.closed = built[i].closed
        BY <1>0, <2>2 DEF EntryType
      <4>2. built' = [built EXCEPT ![i] = e]
        BY <1>0, <2>1, <3>2 DEF SetMetadataApplies
      <4>3. ~RenameApplies(c)
        BY <3>2 DEF RenameApplies, SetMetadataApplies
      <4> HIDE DEF e
      <4> QED
        BY <4>1, <4>2, <4>3
    <3>3. CASE DeleteCloses(c)
      <4> DEFINE e == [built[i] EXCEPT !.closed = TRUE]
      <4>1. e \in EntryType
        BY <1>0, <2>2 DEF EntryType
      <4>2. built' = [built EXCEPT ![i] = e]
        BY <1>0, <2>1, <3>3 DEF DeleteCloses
      <4>3. ~RenameApplies(c) /\ ~SetMetadataApplies(c)
        BY <3>3 DEF DeleteCloses, RenameApplies, SetMetadataApplies
      <4> HIDE DEF e
      <4> QED
        BY <4>1, <4>2, <4>3
    <3> QED
      BY <1>2, <3>1, <3>2, <3>3
  <2>4. /\ built' \in Seq(EntryType) /\ Len(built') = Len(built)
        /\ built'[i] = e
        /\ \A j \in 1..Len(built) : j # i => built'[j] = built[j]
    BY <2>3, EntryChanged
  <2>5. ~CreateRegister(c)
    BY <1>2 DEF CreateRegister, RenameApplies, SetMetadataApplies, DeleteCloses
  <2>6. Len(built') \in Nat /\ Len(built) <= Len(built')
    BY <1>0, <2>4
  <2>7. \A j \in 1..Len(built) : j # regOp[c].instance => built'[j] = built[j]
    BY <2>1, <2>4
  <2>8. /\ RenameApplies(c) => /\ built'[regOp[c].instance].name = regOp[c].name
                               /\ built'[regOp[c].instance].color = built[regOp[c].instance].color
                               /\ built'[regOp[c].instance].closed = built[regOp[c].instance].closed
        /\ SetMetadataApplies(c) =>
                               /\ built'[regOp[c].instance].color = regOp[c].color
                               /\ built'[regOp[c].instance].name = built[regOp[c].instance].name
                               /\ built'[regOp[c].instance].closed = built[regOp[c].instance].closed
    BY <2>1, <2>3, <2>4
  <2> QED
    BY <1>0, <1>2, <2>4, <2>5, <2>6, <2>7, <2>8
<1>3. CASE \/ CreateStat(c) \/ CreateMkdir(c) \/ CreateIdentity(c) \/ CreateSeed(c)
           \/ WriteIdentity(c) \/ DeleteFindsPlace(c) \/ DeleteMoves(c)
  <2>1. built' = built
    BY <1>3 DEF CreateStat, CreateMkdir, CreateIdentity, CreateSeed, WriteIdentity,
                DeleteFindsPlace, DeleteMoves
  <2>2. ~CreateRegister(c) /\ ~RenameApplies(c) /\ ~SetMetadataApplies(c)
    BY <1>3 DEF CreateStat, CreateMkdir, CreateIdentity, CreateSeed, WriteIdentity,
                DeleteFindsPlace, DeleteMoves, CreateRegister, RenameApplies, SetMetadataApplies
  <2> QED
    BY <1>0, <2>1, <2>2
<1> QED
  BY <1>1, <1>2, <1>3 DEF CallStep

\* A call that takes a step is one that has begun.
LEMMA CallUnderWay ==
    ASSUME RegistryTypeOK, NEW c \in RegistryCalls, CallStep(c)
    PROVE  /\ regOp[c] \in CallType /\ StageOK(regOp[c])
           /\ regOp[c].kind # "idle" /\ regOp[c].slug \in Slugs
           /\ regOp[c].name \in AnyName /\ regOp[c].color \in AnyColor
<1>1. regOp[c] \in CallType /\ StageOK(regOp[c])
  BY DEF RegistryTypeOK
<1>2. regOp[c].at # "idle"
  BY DEF CallStep, CreateStat, CreateMkdir, CreateIdentity, CreateSeed, CreateRegister,
         WriteIdentity, RenameApplies, SetMetadataApplies, DeleteCloses, DeleteFindsPlace,
         DeleteMoves
<1> QED
  BY <1>1, <1>2 DEF StageOK, CallType

\* One folder of vaults/ is replaced.
LEMMA FolderChanged ==
    ASSUME RegistryTypeOK, NEW s \in Slugs, NEW f \in FolderType,
           vaults' = [vaults EXCEPT ![s] = f]
    PROVE  /\ vaults' \in [Slugs -> FolderType] /\ vaults'[s] = f
           /\ \A t \in Slugs \ {s} : vaults'[t] = vaults[t]
BY DEF RegistryTypeOK

\* A new content has a number of its own.
LEMMA NewContent ==
    ASSUME RegistryTypeOK
    PROVE  \E n \in Nat \ {0} :
              /\ n = Cardinality(contents) + 1
              /\ IsFiniteSet(contents \cup {n}) /\ contents \cup {n} \subseteq Nat \ {0}
<1>1. IsFiniteSet(contents) /\ contents \subseteq Nat \ {0}
  BY DEF RegistryTypeOK
<1>2. Cardinality(contents) \in Nat
  BY <1>1, FS_CardinalityType
<1>3. PICK n \in Nat \ {0} : n = Cardinality(contents) + 1
  BY <1>2
<1>4. IsFiniteSet(contents \cup {n})
  BY <1>1, FS_AddElement
<1> QED
  BY <1>1, <1>3, <1>4

\* What a step of a call does to the folder of its vault.
LEMMA VaultsStep ==
    ASSUME RegistryTypeOK, NEW c \in RegistryCalls, CallStep(c), NEW s, s = regOp[c].slug
    PROVE  /\ vaults' \in [Slugs -> FolderType]
           /\ \A t \in Slugs \ {s} : vaults'[t] = vaults[t]
           /\ IsFiniteSet(contents') /\ contents' \subseteq Nat \ {0}
           /\ IsFiniteSet(DOMAIN trashHome')
           /\ CreateMkdir(c) \/ CreateIdentity(c) \/ WriteIdentity(c) =>
                /\ vaults'[s].there /\ vaults'[s].content = vaults[s].content
                /\ contents' = contents /\ trashHome' = trashHome
           /\ CreateIdentity(c) => vaults'[s].name = regOp[c].name /\ vaults'[s].color = NoVaultColor
           /\ WriteIdentity(c) => vaults'[s].name = regOp[c].name /\ vaults'[s].color = regOp[c].color
           /\ CreateSeed(c) =>
                /\ trashHome' = trashHome
                /\ vaults'[s].name = vaults[s].name /\ vaults'[s].color = vaults[s].color
                /\ \/ vaults'[s] = vaults[s] /\ contents' = contents
                   \/ /\ vaults'[s].there /\ vaults[s].content = 0
                      /\ contents' = contents \cup {vaults'[s].content}
           /\ DeleteMoves(c) =>
                /\ contents' = contents
                /\ \/ vaults' = vaults /\ trashHome' = trashHome
                   \/ /\ vaults[s].there /\ vaults'[s] = NoFolder
                      /\ regOp[c].to \notin DOMAIN trashHome
                      /\ trashHome' = PutInTrash(regOp[c].to, vaults[s])
           /\ \/ CreateStat(c) \/ CreateRegister(c) \/ RenameApplies(c) \/ SetMetadataApplies(c)
              \/ DeleteCloses(c) \/ DeleteFindsPlace(c)
              => vaults' = vaults /\ trashHome' = trashHome /\ contents' = contents
<1>0. /\ s \in Slugs /\ regOp[c].name \in AnyName /\ regOp[c].color \in AnyColor
      /\ NoVaultColor \in AnyColor
  BY CallUnderWay DEF AnyColor
<1>1. /\ vaults \in [Slugs -> FolderType] /\ vaults[s] \in FolderType
      /\ IsFiniteSet(contents) /\ contents \subseteq Nat \ {0} /\ IsFiniteSet(DOMAIN trashHome)
  BY <1>0 DEF RegistryTypeOK
<1>2. /\ vaults[s].there \in BOOLEAN /\ vaults[s].name \in AnyName
      /\ vaults[s].color \in AnyColor /\ vaults[s].content \in Nat
  BY <1>1 DEF FolderType
<1>3. CASE CreateMkdir(c)
  <2> DEFINE f == [vaults[s] EXCEPT !.there = TRUE]
  <2>1. f \in FolderType /\ f.there /\ f.content = vaults[s].content
    BY <1>1, <1>2 DEF FolderType
  <2>2. vaults' = [vaults EXCEPT ![s] = f] /\ trashHome' = trashHome /\ contents' = contents
    BY <1>1, <1>3 DEF CreateMkdir
  <2>3. ~CreateIdentity(c) /\ ~WriteIdentity(c) /\ ~CreateSeed(c) /\ ~DeleteMoves(c)
    BY <1>3 DEF CreateMkdir, CreateIdentity, WriteIdentity, CreateSeed, DeleteMoves
  <2>4. ~(\/ CreateStat(c) \/ CreateRegister(c) \/ RenameApplies(c) \/ SetMetadataApplies(c)
          \/ DeleteCloses(c) \/ DeleteFindsPlace(c))
    BY <1>3 DEF CreateMkdir, CreateStat, CreateRegister, RenameApplies, SetMetadataApplies,
                DeleteCloses, DeleteFindsPlace
  <2> HIDE DEF f
  <2>5. /\ vaults' \in [Slugs -> FolderType] /\ vaults'[s] = f
        /\ \A t \in Slugs \ {s} : vaults'[t] = vaults[t]
    BY <1>0, <2>1, <2>2, FolderChanged
  <2> QED
    BY <1>1, <2>1, <2>2, <2>3, <2>4, <2>5
<1>4. CASE CreateIdentity(c)
  <2> DEFINE f == VaultFolder(regOp[c].name, NoVaultColor, vaults[s].content)
  <2>1. /\ f \in FolderType /\ f.there /\ f.content = vaults[s].content
        /\ f.name = regOp[c].name /\ f.color = NoVaultColor
    BY <1>0, <1>2 DEF FolderType, VaultFolder
  <2>2. vaults' = [vaults EXCEPT ![s] = f] /\ trashHome' = trashHome /\ contents' = contents
    BY <1>4 DEF CreateIdentity, Identified
  <2>3. ~WriteIdentity(c) /\ ~CreateSeed(c) /\ ~DeleteMoves(c)
    BY <1>4 DEF CreateIdentity, WriteIdentity, CreateSeed, DeleteMoves
  <2>4. ~(\/ CreateStat(c) \/ CreateRegister(c) \/ RenameApplies(c) \/ SetMetadataApplies(c)
          \/ DeleteCloses(c) \/ DeleteFindsPlace(c))
    BY <1>4 DEF CreateIdentity, CreateStat, CreateRegister, RenameApplies, SetMetadataApplies,
                DeleteCloses, DeleteFindsPlace
  <2> HIDE DEF f
  <2>5. /\ vaults' \in [Slugs -> FolderType] /\ vaults'[s] = f
        /\ \A t \in Slugs \ {s} : vaults'[t] = vaults[t]
    BY <1>0, <2>1, <2>2, FolderChanged
  <2> QED
    BY <1>1, <2>1, <2>2, <2>3, <2>4, <2>5
<1>5. CASE WriteIdentity(c)
  <2> DEFINE f == VaultFolder(regOp[c].name, regOp[c].color, vaults[s].content)
  <2>1. /\ f \in FolderType /\ f.there /\ f.content = vaults[s].content
        /\ f.name = regOp[c].name /\ f.color = regOp[c].color
    BY <1>0, <1>2 DEF FolderType, VaultFolder
  <2>2. vaults' = [vaults EXCEPT ![s] = f] /\ trashHome' = trashHome /\ contents' = contents
    BY <1>5 DEF WriteIdentity, Identified
  <2>3. ~CreateIdentity(c) /\ ~CreateSeed(c) /\ ~DeleteMoves(c)
    BY <1>5 DEF CreateIdentity, WriteIdentity, CreateSeed, DeleteMoves
  <2>4. ~(\/ CreateStat(c) \/ CreateRegister(c) \/ RenameApplies(c) \/ SetMetadataApplies(c)
          \/ DeleteCloses(c) \/ DeleteFindsPlace(c))
    BY <1>5 DEF WriteIdentity, CreateStat, CreateRegister, RenameApplies, SetMetadataApplies,
                DeleteCloses, DeleteFindsPlace
  <2> HIDE DEF f
  <2>5. /\ vaults' \in [Slugs -> FolderType] /\ vaults'[s] = f
        /\ \A t \in Slugs \ {s} : vaults'[t] = vaults[t]
    BY <1>0, <2>1, <2>2, FolderChanged
  <2> QED
    BY <1>1, <2>1, <2>2, <2>3, <2>4, <2>5
<1>6. CASE CreateSeed(c)
  <2>1. trashHome' = trashHome
    BY <1>6 DEF CreateSeed
  <2>2. ~CreateMkdir(c) /\ ~CreateIdentity(c) /\ ~WriteIdentity(c) /\ ~DeleteMoves(c)
    BY <1>6 DEF CreateMkdir, CreateIdentity, WriteIdentity, CreateSeed, DeleteMoves
  <2>3. ~(\/ CreateStat(c) \/ CreateRegister(c) \/ RenameApplies(c) \/ SetMetadataApplies(c)
          \/ DeleteCloses(c) \/ DeleteFindsPlace(c))
    BY <1>6 DEF CreateSeed, CreateStat, CreateRegister, RenameApplies, SetMetadataApplies,
                DeleteCloses, DeleteFindsPlace
  <2>4. CASE vaults[s].content # 0
    <3>1. vaults' = vaults /\ contents' = contents
      BY <1>6, <2>4 DEF CreateSeed
    <3> QED
      BY <1>1, <2>1, <2>2, <2>3, <3>1
  <2>5. CASE vaults[s].content = 0
    <3>1. PICK n \in Nat \ {0} :
             /\ n = Cardinality(contents) + 1
             /\ IsFiniteSet(contents \cup {n}) /\ contents \cup {n} \subseteq Nat \ {0}
      BY NewContent
    <3> DEFINE f == [vaults[s] EXCEPT !.there = TRUE, !.content = n]
    <3>2. /\ f \in FolderType /\ f.there /\ f.content = n /\ f.name = vaults[s].name
          /\ f.color = vaults[s].color
      BY <1>1, <1>2 DEF FolderType
    <3>3. vaults' = [vaults EXCEPT ![s] = f] /\ contents' = contents \cup {n}
      BY <1>6, <2>5, <3>1 DEF CreateSeed
    <3> HIDE DEF f
    <3>4. /\ vaults' \in [Slugs -> FolderType] /\ vaults'[s] = f
          /\ \A t \in Slugs \ {s} : vaults'[t] = vaults[t]
      BY <1>0, <3>2, <3>3, FolderChanged
    <3> QED
      BY <1>1, <2>1, <2>2, <2>3, <2>5, <3>1, <3>2, <3>3, <3>4
  <2> QED
    BY <2>4, <2>5
<1>7. CASE DeleteMoves(c)
  <2>1. contents' = contents
    BY <1>7 DEF DeleteMoves
  <2>2. ~CreateMkdir(c) /\ ~CreateIdentity(c) /\ ~WriteIdentity(c) /\ ~CreateSeed(c)
    BY <1>7 DEF CreateMkdir, CreateIdentity, WriteIdentity, CreateSeed, DeleteMoves
  <2>3. ~(\/ CreateStat(c) \/ CreateRegister(c) \/ RenameApplies(c) \/ SetMetadataApplies(c)
          \/ DeleteCloses(c) \/ DeleteFindsPlace(c))
    BY <1>7 DEF DeleteMoves, CreateStat, CreateRegister, RenameApplies, SetMetadataApplies,
                DeleteCloses, DeleteFindsPlace
  <2>4. CASE vaults[s].there /\ regOp[c].to \notin DOMAIN trashHome
    <3>1. /\ trashHome' = PutInTrash(regOp[c].to, vaults[s])
          /\ vaults' = [vaults EXCEPT ![s] = NoFolder]
      BY <1>7, <2>4 DEF DeleteMoves
    <3>2. NoFolder \in FolderType
      BY DEF NoFolder, FolderType, AnyName, AnyColor
    <3>3. /\ vaults' \in [Slugs -> FolderType] /\ vaults'[s] = NoFolder
          /\ \A t \in Slugs \ {s} : vaults'[t] = vaults[t]
      BY <1>0, <3>1, <3>2, FolderChanged
    <3>4. DOMAIN trashHome' = DOMAIN trashHome \cup {regOp[c].to}
      BY <3>1 DEF PutInTrash
    <3>5. IsFiniteSet(DOMAIN trashHome')
      BY <1>1, <3>4, FS_AddElement
    <3> QED
      BY <1>1, <2>1, <2>2, <2>3, <2>4, <3>1, <3>3, <3>5
  <2>5. CASE ~(vaults[s].there /\ regOp[c].to \notin DOMAIN trashHome)
    <3>1. vaults' = vaults /\ trashHome' = trashHome
      BY <1>7, <2>5 DEF DeleteMoves
    <3> QED
      BY <1>1, <2>1, <2>2, <2>3, <3>1
  <2> QED
    BY <2>4, <2>5
<1>8. CASE \/ CreateStat(c) \/ CreateRegister(c) \/ RenameApplies(c) \/ SetMetadataApplies(c)
           \/ DeleteCloses(c) \/ DeleteFindsPlace(c)
  <2>1. vaults' = vaults /\ trashHome' = trashHome /\ contents' = contents
    BY <1>8 DEF CreateStat, CreateRegister, RenameApplies, SetMetadataApplies, DeleteCloses,
                DeleteFindsPlace
  <2>2. /\ ~CreateMkdir(c) /\ ~CreateIdentity(c) /\ ~WriteIdentity(c) /\ ~CreateSeed(c)
        /\ ~DeleteMoves(c)
    BY <1>8 DEF CreateStat, CreateRegister, RenameApplies, SetMetadataApplies, DeleteCloses,
                DeleteFindsPlace, CreateMkdir, CreateIdentity, WriteIdentity, CreateSeed,
                DeleteMoves
  <2> QED
    BY <1>1, <2>1, <2>2
<1> QED
  BY <1>3, <1>4, <1>5, <1>6, <1>7, <1>8 DEF CallStep

\* A step of a call takes it to its next stage or ends it, and leaves the
\* other calls where they are.
LEMMA StagesStep ==
    ASSUME RegistryTypeOK, NEW c \in RegistryCalls, CallStep(c)
    PROVE  /\ regOp' \in [RegistryCalls -> CallType]
           /\ \A d \in RegistryCalls \ {c} : regOp'[d] = regOp[d]
           /\ \/ regOp'[c].kind = "idle" /\ regOp'[c].at = "idle"
              \/ /\ regOp'[c].kind = regOp[c].kind /\ regOp'[c].slug = regOp[c].slug
                 /\ regOp'[c].instance = regOp[c].instance
                 /\ regOp'[c].name = regOp[c].name /\ regOp'[c].color = regOp[c].color
                 /\ \/ CreateStat(c) /\ ~vaults[regOp[c].slug].there /\ regOp'[c].at = "mkdir"
                    \/ CreateMkdir(c) /\ regOp'[c].at = "identity"
                    \/ CreateIdentity(c) /\ regOp'[c].at = "seed"
                    \/ CreateSeed(c) /\ regOp'[c].at = "register"
                    \/ WriteIdentity(c) /\ regOp'[c].at = "apply"
                    \/ DeleteCloses(c) /\ regOp'[c].at = "destination"
                    \/ /\ DeleteFindsPlace(c) /\ regOp'[c].at = "move"
                       /\ regOp'[c].to \notin DOMAIN trashHome
           /\ CreateRegister(c) \/ RenameApplies(c) \/ SetMetadataApplies(c) \/ DeleteMoves(c)
              => regOp'[c].kind = "idle"
<1>0. {"mkdir", "identity", "seed", "register", "apply", "destination"} \subseteq CallStage
  BY DEF CallStage
<1>1. CASE \/ CreateStat(c) /\ vaults[regOp[c].slug].there
           \/ CreateRegister(c) \/ RenameApplies(c) \/ SetMetadataApplies(c) \/ DeleteMoves(c)
  <2>1. CallEnds(c)
    BY <1>1 DEF CreateStat, CreateRegister, RenameApplies, SetMetadataApplies, DeleteMoves
  <2> QED
    BY <2>1, Ends
<1>2. CASE \/ CreateStat(c) /\ ~vaults[regOp[c].slug].there
           \/ CreateMkdir(c) \/ CreateIdentity(c) \/ CreateSeed(c) \/ WriteIdentity(c)
           \/ DeleteCloses(c)
  <2>1. PICK at \in CallStage :
           /\ CallGoes(c, at)
           /\ \/ CreateStat(c) /\ ~vaults[regOp[c].slug].there /\ at = "mkdir"
              \/ CreateMkdir(c) /\ at = "identity"
              \/ CreateIdentity(c) /\ at = "seed"
              \/ CreateSeed(c) /\ at = "register"
              \/ WriteIdentity(c) /\ at = "apply"
              \/ DeleteCloses(c) /\ at = "destination"
    BY <1>0, <1>2 DEF CreateStat, CreateMkdir, CreateIdentity, CreateSeed, WriteIdentity,
                      DeleteCloses
  <2>2. ~(CreateRegister(c) \/ RenameApplies(c) \/ SetMetadataApplies(c) \/ DeleteMoves(c))
    BY <1>2 DEF CreateStat, CreateMkdir, CreateIdentity, CreateSeed, WriteIdentity, DeleteCloses,
                CreateRegister, RenameApplies, SetMetadataApplies, DeleteMoves
  <2>3. /\ regOp' \in [RegistryCalls -> CallType]
        /\ regOp'[c].at = at /\ regOp'[c].kind = regOp[c].kind
        /\ regOp'[c].slug = regOp[c].slug /\ regOp'[c].name = regOp[c].name
        /\ regOp'[c].color = regOp[c].color /\ regOp'[c].instance = regOp[c].instance
        /\ \A d \in RegistryCalls \ {c} : regOp'[d] = regOp[d]
    BY <2>1, Goes
  <2> QED
    BY <2>1, <2>2, <2>3
<1>3. CASE DeleteFindsPlace(c)
  <2>1. ~(CreateRegister(c) \/ RenameApplies(c) \/ SetMetadataApplies(c) \/ DeleteMoves(c))
    BY <1>3 DEF DeleteFindsPlace, CreateRegister, RenameApplies, SetMetadataApplies, DeleteMoves
  <2>2. /\ regOp' \in [RegistryCalls -> CallType]
        /\ regOp'[c].at = "move" /\ regOp'[c].kind = regOp[c].kind
        /\ regOp'[c].slug = regOp[c].slug /\ regOp'[c].instance = regOp[c].instance
        /\ regOp'[c].to \notin DOMAIN trashHome
        /\ regOp'[c].name = regOp[c].name /\ regOp'[c].color = regOp[c].color
        /\ \A d \in RegistryCalls \ {c} : regOp'[d] = regOp[d]
    BY <1>3, PlaceIsFound
  <2> QED
    BY <1>3, <2>1, <2>2
<1> QED
  BY <1>1, <1>2, <1>3 DEF CallStep

\* What a step of a call does to the registry's map and the subscriptions.
LEMMA MapStep ==
    ASSUME RegistryTypeOK, NEW c \in RegistryCalls, CallStep(c), NEW s, s = regOp[c].slug
    PROVE  /\ instances' \in [Slugs -> Nat] /\ \A t \in Slugs : instances'[t] <= Len(built')
           /\ subscribedTo' \in [Slugs -> Nat]
           /\ \A t \in Slugs \ {s} : instances'[t] = instances[t] /\ subscribedTo'[t] = subscribedTo[t]
           /\ overlap' = overlap /\ handlers' = handlers /\ placed' = placed
           /\ CreateRegister(c) =>
                /\ instances'[s] = Len(built) + 1
                /\ handlers = 0 \/ subscribedTo[s] # 0 => subscribedTo'[s] = subscribedTo[s]
                /\ ~(handlers = 0 \/ subscribedTo[s] # 0) => subscribedTo'[s] = Len(built) + 1
           /\ ~CreateRegister(c) => subscribedTo' = subscribedTo
           /\ DeleteMoves(c) =>
                IF vaults[s].there /\ regOp[c].to \notin DOMAIN trashHome
                THEN instances'[s] = 0 ELSE instances' = instances
           /\ ~CreateRegister(c) /\ ~DeleteMoves(c) => instances' = instances
<1>0. /\ s \in Slugs
      /\ built' \in Seq(EntryType) /\ Len(built) \in Nat /\ Len(built') \in Nat
      /\ Len(built) <= Len(built')
      /\ CreateRegister(c) => Len(built') = Len(built) + 1
  BY CallUnderWay, EntriesStep
<1>1. /\ instances \in [Slugs -> Nat] /\ subscribedTo \in [Slugs -> Nat]
      /\ \A t \in Slugs : instances[t] <= Len(built)
  BY DEF RegistryTypeOK
<1>2. overlap' = overlap /\ handlers' = handlers /\ placed' = placed
  BY DEF CallStep, CreateStat, CreateMkdir, CreateIdentity, CreateSeed, CreateRegister,
         WriteIdentity, RenameApplies, SetMetadataApplies, DeleteCloses, DeleteFindsPlace,
         DeleteMoves
<1>3. CASE CreateRegister(c)
  <2>1. /\ instances' = [instances EXCEPT ![s] = Len(built) + 1]
        /\ subscribedTo' = IF handlers = 0 \/ subscribedTo[s] # 0 THEN subscribedTo
                           ELSE [subscribedTo EXCEPT ![s] = Len(built) + 1]
    BY <1>3 DEF CreateRegister, Subscribed
  <2>2. ~DeleteMoves(c)
    BY <1>3 DEF CreateRegister, DeleteMoves
  <2> QED
    BY <1>0, <1>1, <1>2, <1>3, <2>1, <2>2
<1>4. CASE DeleteMoves(c)
  <2>1. /\ instances' = IF vaults[s].there /\ regOp[c].to \notin DOMAIN trashHome
                        THEN [instances EXCEPT ![s] = 0] ELSE instances
        /\ subscribedTo' = subscribedTo
    BY <1>4 DEF DeleteMoves
  <2>2. ~CreateRegister(c)
    BY <1>4 DEF CreateRegister, DeleteMoves
  <2> QED
    BY <1>0, <1>1, <1>2, <1>4, <2>1, <2>2
<1>5. CASE ~CreateRegister(c) /\ ~DeleteMoves(c)
  <2>1. instances' = instances /\ subscribedTo' = subscribedTo
    BY <1>5 DEF CallStep, CreateStat, CreateMkdir, CreateIdentity, CreateSeed, CreateRegister,
                WriteIdentity, RenameApplies, SetMetadataApplies, DeleteCloses, DeleteFindsPlace,
                DeleteMoves
  <2> QED
    BY <1>0, <1>1, <1>2, <1>5, <2>1
<1> QED
  BY <1>3, <1>4, <1>5

\* What a restart makes of the folders it finds.
LEMMA LoadStep ==
    ASSUME RegistryTypeOK, Load
    PROVE  /\ vaults' \in [Slugs -> FolderType]
           /\ \A s \in Slugs : /\ vaults'[s].there = vaults[s].there
                               /\ vaults'[s].content = vaults[s].content
           /\ built' \in Seq(EntryType)
           /\ instances' \in [Slugs -> Nat]
           /\ \A s \in Slugs : instances'[s] <= Len(built')
           /\ \A s \in Slugs : ~vaults[s].there => instances'[s] = 0
           /\ \A s \in Slugs : vaults[s].there =>
                /\ built'[instances'[s]].name = vaults'[s].name
                /\ built'[instances'[s]].color = vaults'[s].color
                /\ ~built'[instances'[s]].closed
           /\ \A s, t \in Slugs : instances'[s] = instances'[t] /\ instances'[s] # 0 => s = t
<1>0. vaults \in [Slugs -> FolderType] /\ IsFiniteSet(Slugs)
  BY VaultRegistryBounds DEF RegistryTypeOK
<1>1. vaults' = [s \in Slugs |-> Minted(s)]
  BY DEF Load
<1>2. ASSUME NEW s \in Slugs
      PROVE  /\ Minted(s) \in FolderType /\ Minted(s).there = vaults[s].there
             /\ Minted(s).content = vaults[s].content
  <2>1. vaults[s] \in FolderType /\ s \in AnyName
    BY <1>0 DEF AnyName
  <2> QED
    BY <2>1 DEF Minted, FolderType
<1>3. /\ vaults' \in [Slugs -> FolderType]
      /\ \A s \in Slugs : /\ vaults'[s].there = vaults[s].there
                          /\ vaults'[s].content = vaults[s].content
  BY <1>1, <1>2
<1> DEFINE S == {s \in Slugs : vaults[s].there}
           found == SetToSeq(S)
<1>4. IsFiniteSet(S)
  BY <1>0, FS_Subset
<1>5. PICK k \in Nat : /\ found \in [1..k -> S]
                       /\ \A s \in S : \E i \in 1..k : found[i] = s
  BY <1>4, Found
<1>6. PICK f \in [1..k -> Slugs] : f = found
  BY <1>5
<1>7. Len(f) = k
  <2>1. f \in Seq(Slugs) /\ DOMAIN f = 1..k
    BY <1>5, <1>6
  <2> QED
    BY <1>5, <2>1
<1>8. \A s \in Slugs : vaults[s].there => \E i \in 1..k : f[i] = s
  BY <1>5, <1>6
<1>9. /\ built' = [i \in 1..k |-> [name |-> vaults'[f[i]].name, color |-> vaults'[f[i]].color,
                                   closed |-> FALSE]]
      /\ instances' = [s \in Slugs |->
                          IF vaults[s].there THEN CHOOSE i \in 1..k : f[i] = s ELSE 0]
  <2>1. /\ built' = [i \in 1..Len(found) |->
                       [name |-> vaults'[found[i]].name, color |-> vaults'[found[i]].color,
                        closed |-> FALSE]]
        /\ instances' = [s \in Slugs |->
                           IF vaults[s].there THEN CHOOSE i \in 1..Len(found) : found[i] = s ELSE 0]
    BY Zenon DEF Load
  <2>2. found = f /\ Len(found) = k
    BY <1>6, <1>7
  <2> HIDE DEF found
  <2>3. built' = [i \in 1..k |-> [name |-> vaults'[f[i]].name, color |-> vaults'[f[i]].color,
                                  closed |-> FALSE]]
    BY <2>1, <2>2
  <2>4. instances' = [s \in Slugs |->
                          IF vaults[s].there THEN CHOOSE i \in 1..k : f[i] = s ELSE 0]
    BY <2>1, <2>2
  <2> QED
    BY <2>3, <2>4
<1> HIDE DEF found, S
<1>10. \A s \in Slugs : /\ ~vaults[s].there => instances'[s] = 0
                        /\ vaults[s].there => instances'[s] \in 1..k /\ f[instances'[s]] = s
  BY <1>8, <1>9
<1>11. ASSUME NEW i \in 1..k
       PROVE  /\ built'[i] \in EntryType /\ built'[i].name = vaults'[f[i]].name
              /\ built'[i].color = vaults'[f[i]].color /\ built'[i].closed = FALSE
  <2>1. vaults'[f[i]] \in FolderType
    BY <1>3, <1>6
  <2>2. PICK n, q : n = vaults'[f[i]].name /\ q = vaults'[f[i]].color
    OBVIOUS
  <2>3. n \in AnyName /\ q \in AnyColor
    BY <2>1, <2>2 DEF FolderType
  <2>4. built'[i] = [name |-> n, color |-> q, closed |-> FALSE]
    BY <1>9, <2>2
  <2> QED
    BY <2>2, <2>3, <2>4 DEF EntryType
<1>12. built' \in Seq(EntryType) /\ Len(built') = k
  <2>1. DOMAIN built' = 1..k /\ built' = [i \in 1..k |-> built'[i]]
    BY <1>9
  <2>2. built' \in [1..k -> EntryType]
    BY <1>11, <2>1
  <2> QED
    BY <1>5, <2>2
<1>13. instances' \in [Slugs -> Nat] /\ \A s \in Slugs : instances'[s] <= k
  <2>1. DOMAIN instances' = Slugs /\ instances' = [s \in Slugs |-> instances'[s]]
    BY <1>9
  <2>2. \A s \in Slugs : instances'[s] \in Nat /\ instances'[s] <= k
    BY <1>5, <1>10
  <2> QED
    BY <2>1, <2>2
<1>14. \A s, t \in Slugs : instances'[s] = instances'[t] /\ instances'[s] # 0 => s = t
  BY <1>10
<1>15. \A s \in Slugs : vaults[s].there =>
          /\ built'[instances'[s]].name = vaults'[s].name
          /\ built'[instances'[s]].color = vaults'[s].color
          /\ ~built'[instances'[s]].closed
  BY <1>10, <1>11
<1> QED
  BY <1>3, <1>10, <1>12, <1>13, <1>14, <1>15

\* A call begins: only softDelete() changes something at once.
LEMMA BeginStep ==
    ASSUME RegistryTypeOK, NEW c \in RegistryCalls, NEW s \in Slugs, CallBegin(c, s)
    PROVE  /\ overlap' = overlap /\ vaults' = vaults /\ trashHome' = trashHome
           /\ instances' = instances /\ built' = built /\ handlers' = handlers
           /\ contents' = contents /\ placed' = placed
           /\ overlap \/ RegistryQuiet
           /\ regOp' \in [RegistryCalls -> CallType] /\ StageOK(regOp[c])'
           /\ \A d \in RegistryCalls \ {c} : regOp'[d] = regOp[d]
           /\ regOp'[c].slug = s
           /\ subscribedTo' \in [Slugs -> Nat]
           /\ \A t \in Slugs \ {s} : subscribedTo'[t] = subscribedTo[t]
           /\ \/ /\ regOp'[c].kind = "create" /\ regOp'[c].at = "stat" /\ instances[s] = 0
                 /\ subscribedTo' = subscribedTo
              \/ /\ regOp'[c].kind \in {"rename", "setMetadata"} /\ regOp'[c].at = "write"
                 /\ regOp'[c].instance = instances[s] /\ instances[s] # 0
                 /\ regOp'[c].kind = "rename" => regOp'[c].color = built[instances[s]].color
                 /\ regOp'[c].kind = "setMetadata" => regOp'[c].name = built[instances[s]].name
                 /\ subscribedTo' = subscribedTo
              \/ /\ regOp'[c].kind = "softDelete" /\ regOp'[c].at = "close"
                 /\ regOp'[c].instance = instances[s] /\ instances[s] # 0
                 /\ subscribedTo'[s] = 0
<1>1. /\ overlap' = overlap /\ vaults' = vaults /\ trashHome' = trashHome
      /\ instances' = instances /\ built' = built /\ handlers' = handlers
      /\ contents' = contents /\ placed' = placed
      /\ overlap \/ RegistryQuiet
  BY DEF CallBegin, Create, RenameVault, SetMetadata, SoftDelete, MayBegin
<1>2. subscribedTo \in [Slugs -> Nat]
  BY DEF RegistryTypeOK
<1>3. CASE \E n \in Names : Create(c, s, n)
  <2>1. PICK n \in Names : Create(c, s, n)
    BY <1>3
  <2>2. subscribedTo' = subscribedTo /\ instances[s] = 0
    BY <2>1 DEF Create
  <2>3. /\ regOp' \in [RegistryCalls -> CallType]
        /\ regOp'[c].kind = "create" /\ regOp'[c].at = "stat" /\ regOp'[c].slug = s
        /\ \A d \in RegistryCalls \ {c} : regOp'[d] = regOp[d]
    BY <2>1, CreateBegins
  <2>4. StageOK(regOp[c])'
    BY <2>3 DEF StageOK
  <2> QED
    BY <1>1, <1>2, <2>2, <2>3, <2>4
<1>4. CASE \/ \E n \in Names : RenameVault(c, s, n)
           \/ \E k \in VaultColors \cup {NoVaultColor, NoVault, Invalid} : SetMetadata(c, s, k)
  <2>1. subscribedTo' = subscribedTo
    BY <1>4 DEF RenameVault, SetMetadata
  <2>2. /\ regOp' \in [RegistryCalls -> CallType]
        /\ regOp'[c].kind \in {"rename", "setMetadata"} /\ regOp'[c].at = "write"
        /\ regOp'[c].slug = s /\ regOp'[c].instance = instances[s] /\ instances[s] # 0
        /\ regOp'[c].kind = "rename" => regOp'[c].color = built[instances[s]].color
        /\ regOp'[c].kind = "setMetadata" => regOp'[c].name = built[instances[s]].name
        /\ \A d \in RegistryCalls \ {c} : regOp'[d] = regOp[d]
    BY <1>4, IdentityBegins
  <2>3. instances[s] \in 1..Len(built)
    BY <2>2, EntryIsThere
  <2>4. StageOK(regOp[c])'
    BY <1>1, <2>2, <2>3 DEF StageOK
  <2> QED
    BY <1>1, <1>2, <2>1, <2>2, <2>4
<1>5. CASE SoftDelete(c, s)
  <2>1. subscribedTo' = [subscribedTo EXCEPT ![s] = 0]
    BY <1>5 DEF SoftDelete
  <2>2. /\ regOp' \in [RegistryCalls -> CallType]
        /\ regOp'[c].kind = "softDelete" /\ regOp'[c].at = "close" /\ regOp'[c].slug = s
        /\ regOp'[c].instance = instances[s] /\ instances[s] # 0
        /\ \A d \in RegistryCalls \ {c} : regOp'[d] = regOp[d]
    BY <1>5, DeleteBegins
  <2>3. instances[s] \in 1..Len(built)
    BY <2>2, EntryIsThere
  <2>4. StageOK(regOp[c])'
    BY <1>1, <2>2, <2>3 DEF StageOK
  <2>5. /\ subscribedTo' \in [Slugs -> Nat] /\ subscribedTo'[s] = 0
        /\ \A t \in Slugs \ {s} : subscribedTo'[t] = subscribedTo[t]
    BY <1>2, <2>1
  <2> QED
    BY <1>1, <2>2, <2>4, <2>5
<1> QED
  BY <1>3, <1>4, <1>5 DEF CallBegin

\* The steps of the registry: events, a restart, a folder placed by hand, and
\* the beginnings and the steps of calls.
LEMMA RegistrySteps ==
    ASSUME [RegistryNext]_regVars
    PROVE  \/ OnVaultEvent \/ HandlerLeaves \/ Load
           \/ \E s \in Slugs : PlaceFolder(s)
           \/ \E c \in RegistryCalls : CallStep(c)
           \/ \E c \in RegistryCalls, s \in Slugs : CallBegin(c, s)
           \/ UNCHANGED regVars
<1>1. CASE RegistryNext
  <2>1. CASE OnVaultEvent \/ HandlerLeaves \/ Load \/ \E s \in Slugs : PlaceFolder(s)
    BY <2>1
  <2>2. ASSUME NEW c \in RegistryCalls,
               \/ \E s \in Slugs, n \in Names : Create(c, s, n) \/ RenameVault(c, s, n)
               \/ \E s \in Slugs, k \in VaultColors \cup {NoVaultColor, NoVault, Invalid} :
                     SetMetadata(c, s, k)
               \/ \E s \in Slugs : SoftDelete(c, s)
        PROVE  \E s \in Slugs : CallBegin(c, s)
    BY <2>2 DEF CallBegin
  <2> QED
    BY <1>1, <2>1, <2>2 DEF RegistryNext, CallStep
<1> QED
  BY <1>1

\* What a folder placed by hand changes.
LEMMA PlaceStep ==
    ASSUME RegistryTypeOK, NEW s \in Slugs, PlaceFolder(s)
    PROVE  /\ vaults' \in [Slugs -> FolderType]
           /\ vaults'[s].there /\ vaults'[s].name = ByHand /\ ~vaults[s].there
           /\ \A t \in Slugs \ {s} : vaults'[t] = vaults[t]
           /\ contents' = contents \cup {vaults'[s].content}
           /\ IsFiniteSet(contents') /\ contents' \subseteq Nat \ {0}
           /\ placed' = placed \cup {s} /\ (overlap \/ RegistryQuiet)
           /\ UNCHANGED <<overlap, trashHome, instances, built, handlers, subscribedTo, regOp>>
<1>1. PICK n \in Nat \ {0} :
         /\ n = Cardinality(contents) + 1
         /\ IsFiniteSet(contents \cup {n}) /\ contents \cup {n} \subseteq Nat \ {0}
  BY NewContent
<1> DEFINE f == VaultFolder(ByHand, NoVaultColor, n)
<1>2. f \in FolderType /\ f.there /\ f.name = ByHand /\ f.content = n
  BY DEF VaultFolder, FolderType, AnyName, AnyColor
<1>3. vaults' = [vaults EXCEPT ![s] = f] /\ contents' = contents \cup {n}
  BY <1>1 DEF PlaceFolder
<1> HIDE DEF f
<1>4. /\ vaults' \in [Slugs -> FolderType] /\ vaults'[s] = f
      /\ \A t \in Slugs \ {s} : vaults'[t] = vaults[t]
  BY <1>2, <1>3, FolderChanged
<1>5. /\ placed' = placed \cup {s} /\ (overlap \/ RegistryQuiet) /\ ~vaults[s].there
      /\ UNCHANGED <<overlap, trashHome, instances, built, handlers, subscribedTo, regOp>>
  BY DEF PlaceFolder
<1> QED
  BY <1>1, <1>2, <1>3, <1>4, <1>5

\* Type correctness is inductive.
LEMMA RegistryTypeStep ==
    ASSUME RegistryTypeOK, [RegistryNext]_regVars
    PROVE  RegistryTypeOK'
<1>0. /\ overlap \in BOOLEAN /\ handlers \in Nat /\ placed \subseteq Slugs
      /\ subscribedTo \in [Slugs -> Nat] /\ instances \in [Slugs -> Nat]
      /\ Len(built) \in Nat
      /\ \A d \in RegistryCalls : StageOK(regOp[d])
  BY DEF RegistryTypeOK
<1>1. ASSUME NEW c \in RegistryCalls, CallStep(c)
      PROVE  RegistryTypeOK'
  <2>1. PICK s : s = regOp[c].slug
    OBVIOUS
  <2>2. /\ regOp[c].slug \in Slugs /\ StageOK(regOp[c])
        /\ built' \in Seq(EntryType) /\ Len(built') \in Nat /\ Len(built) <= Len(built')
    BY <1>1, CallUnderWay, EntriesStep
  <2>3. /\ vaults' \in [Slugs -> FolderType] /\ IsFiniteSet(DOMAIN trashHome')
        /\ IsFiniteSet(contents') /\ contents' \subseteq Nat \ {0}
    BY <1>1, <2>1, VaultsStep
  <2>4. /\ instances' \in [Slugs -> Nat] /\ \A t \in Slugs : instances'[t] <= Len(built')
        /\ subscribedTo' \in [Slugs -> Nat]
        /\ overlap' = overlap /\ handlers' = handlers /\ placed' = placed
    BY <1>1, <2>1, MapStep
  <2>5. /\ regOp' \in [RegistryCalls -> CallType]
        /\ \A d \in RegistryCalls \ {c} : regOp'[d] = regOp[d]
    BY <1>1, StagesStep
  <2>6. StageOK(regOp[c])'
    <3>1. \/ regOp'[c].kind = "idle" /\ regOp'[c].at = "idle"
          \/ /\ regOp'[c].kind = regOp[c].kind /\ regOp'[c].slug = regOp[c].slug
             /\ regOp'[c].instance = regOp[c].instance
             /\ \/ regOp[c].at = "stat" /\ regOp'[c].at = "mkdir"
                \/ regOp[c].at = "mkdir" /\ regOp'[c].at = "identity"
                \/ regOp[c].at = "identity" /\ regOp'[c].at = "seed"
                \/ regOp[c].at = "seed" /\ regOp'[c].at = "register"
                \/ regOp[c].at = "write" /\ regOp'[c].at = "apply"
                \/ regOp[c].at = "close" /\ regOp'[c].at = "destination"
                \/ regOp[c].at = "destination" /\ regOp'[c].at = "move"
      BY <1>1, StagesStep DEF CreateStat, CreateMkdir, CreateIdentity, CreateSeed,
                              WriteIdentity, DeleteCloses, DeleteFindsPlace
    <3>2. regOp[c].instance \in 1..Len(built) => regOp[c].instance \in 1..Len(built')
      BY <1>0, <2>2
    <3> QED
      BY <2>2, <3>1, <3>2 DEF StageOK
  <2>7. ASSUME NEW d \in RegistryCalls \ {c}
        PROVE  StageOK(regOp[d])'
    <3>1. StageOK(regOp[d]) /\ regOp'[d] = regOp[d]
      BY <1>0, <2>5
    <3>2. regOp[d].instance \in 1..Len(built) => regOp[d].instance \in 1..Len(built')
      BY <1>0, <2>2
    <3> QED
      BY <3>1, <3>2 DEF StageOK
  <2> QED
    BY <1>0, <2>2, <2>3, <2>4, <2>5, <2>6, <2>7 DEF RegistryTypeOK
<1>2. ASSUME NEW c \in RegistryCalls, NEW s \in Slugs, CallBegin(c, s)
      PROVE  RegistryTypeOK'
  <2>1. /\ overlap' = overlap /\ vaults' = vaults /\ trashHome' = trashHome
        /\ instances' = instances /\ built' = built /\ handlers' = handlers
        /\ contents' = contents /\ placed' = placed
        /\ regOp' \in [RegistryCalls -> CallType] /\ StageOK(regOp[c])'
        /\ \A d \in RegistryCalls \ {c} : regOp'[d] = regOp[d]
        /\ subscribedTo' \in [Slugs -> Nat]
    BY <1>2, BeginStep
  <2>2. \A d \in RegistryCalls \ {c} : StageOK(regOp[d])'
    BY <1>0, <2>1 DEF StageOK
  <2> QED
    BY <2>1, <2>2 DEF RegistryTypeOK
<1>3. CASE Load
  <2>1. /\ vaults' \in [Slugs -> FolderType] /\ built' \in Seq(EntryType)
        /\ instances' \in [Slugs -> Nat] /\ \A s \in Slugs : instances'[s] <= Len(built')
    BY <1>3, LoadStep
  <2>2. /\ handlers' = 0 /\ subscribedTo' = [s \in Slugs |-> 0] /\ placed' = {}
        /\ regOp' = [c \in RegistryCalls |-> NoRegistryCall]
        /\ overlap' = overlap /\ trashHome' = trashHome /\ contents' = contents
    BY <1>3 DEF Load
  <2>3. regOp' \in [RegistryCalls -> CallType] /\ \A d \in RegistryCalls : StageOK(regOp[d])'
    BY <2>2, NoCallType DEF StageOK, NoRegistryCall
  <2> QED
    BY <2>1, <2>2, <2>3 DEF RegistryTypeOK
<1>4. ASSUME NEW s \in Slugs, PlaceFolder(s)
      PROVE  RegistryTypeOK'
  <2>1. /\ vaults' \in [Slugs -> FolderType]
        /\ IsFiniteSet(contents') /\ contents' \subseteq Nat \ {0} /\ placed' = placed \cup {s}
        /\ UNCHANGED <<overlap, trashHome, instances, built, handlers, subscribedTo, regOp>>
    BY <1>4, PlaceStep
  <2>2. \A d \in RegistryCalls : StageOK(regOp[d])'
    BY <1>0, <2>1 DEF StageOK
  <2> QED
    BY <2>1, <2>2 DEF RegistryTypeOK
<1>5. CASE OnVaultEvent \/ HandlerLeaves
  <2>1. /\ UNCHANGED <<overlap, vaults, trashHome, instances, built, regOp, contents, placed>>
        /\ handlers' \in Nat /\ subscribedTo' \in [Slugs -> Nat]
    BY <1>0, <1>5 DEF OnVaultEvent, HandlerLeaves
  <2>2. \A d \in RegistryCalls : StageOK(regOp[d])'
    BY <1>0, <2>1 DEF StageOK
  <2> QED
    BY <2>1, <2>2 DEF RegistryTypeOK
<1>6. CASE UNCHANGED regVars
  <2>1. UNCHANGED <<overlap, vaults, trashHome, instances, built, handlers, subscribedTo, regOp,
                    contents, placed>>
    BY <1>6 DEF regVars
  <2>2. \A d \in RegistryCalls : StageOK(regOp[d])'
    BY <1>0, <2>1 DEF StageOK
  <2> QED
    BY <2>1, <2>2 DEF RegistryTypeOK
<1> QED
  BY <1>1, <1>2, <1>3, <1>4, <1>5, <1>6, RegistrySteps

------------------------------------------------------------------------------
(* Nothing is lost, whatever calls overlap. *)

\* What is in vaults/ or in the trash stays in one of them.
LEMMA KeptStep ==
    ASSUME RegistryTypeOK, NothingHidden, ContentIsKept, [RegistryNext]_regVars
    PROVE  NothingHidden' /\ ContentIsKept'
<1>0. contents \subseteq Nat \ {0}
  BY DEF RegistryTypeOK
<1>1. ASSUME NEW c \in RegistryCalls, CallStep(c)
      PROVE  NothingHidden' /\ ContentIsKept'
  <2>1. PICK s \in Slugs : s = regOp[c].slug
    BY <1>1, CallUnderWay
  <2>2. \A t \in Slugs \ {s} : vaults'[t] = vaults[t]
    BY <1>1, <2>1, VaultsStep
  <2>3. \/ /\ vaults'[s].there /\ vaults'[s].content = vaults[s].content
           /\ contents' = contents /\ trashHome' = trashHome
        \/ vaults'[s] = vaults[s] /\ contents' = contents /\ trashHome' = trashHome
        \/ /\ vaults'[s].there /\ vaults[s].content = 0 /\ trashHome' = trashHome
           /\ contents' = contents \cup {vaults'[s].content}
        \/ /\ vaults'[s] = NoFolder /\ contents' = contents
           /\ regOp[c].to \notin DOMAIN trashHome
           /\ trashHome' = PutInTrash(regOp[c].to, vaults[s])
    BY <1>1, <2>1, VaultsStep DEF CallStep
  <2>4. NothingHidden'
    BY <2>2, <2>3 DEF NothingHidden, NoFolder
  <2>5. ASSUME NEW n \in contents, NEW t \in Slugs, vaults[t].content = n
        PROVE  \/ \E u \in Slugs : vaults'[u].content = n
               \/ \E u \in DOMAIN trashHome' : trashHome'[u].content = n
    <3>1. CASE t # s
      BY <2>2, <2>5, <3>1
    <3>2. CASE t = s /\ vaults'[s].content = vaults[s].content
      BY <2>5, <3>2
    <3>3. CASE t = s /\ vaults[s].content = 0
      BY <1>0, <2>5, <3>3
    <3>4. CASE t = s /\ trashHome' = PutInTrash(regOp[c].to, vaults[s])
      <4>1. regOp[c].to \in DOMAIN trashHome' /\ trashHome'[regOp[c].to] = vaults[s]
        BY <3>4 DEF PutInTrash
      <4> QED
        BY <2>5, <3>4, <4>1
    <3> QED
      BY <2>3, <3>1, <3>2, <3>3, <3>4
  <2>6. ASSUME NEW n, NEW t \in DOMAIN trashHome, trashHome[t].content = n
        PROVE  \E u \in DOMAIN trashHome' : trashHome'[u].content = n
    <3>1. CASE trashHome' = trashHome
      BY <2>6, <3>1
    <3>2. CASE /\ trashHome' = PutInTrash(regOp[c].to, vaults[s])
               /\ regOp[c].to \notin DOMAIN trashHome
      <4>1. t \in DOMAIN trashHome' /\ trashHome'[t] = trashHome[t]
        BY <3>2 DEF PutInTrash
      <4> QED
        BY <2>6, <4>1
    <3> QED
      BY <2>3, <3>1, <3>2
  <2>7. \A n \in contents' : n \in contents \/ n = vaults'[s].content
    BY <2>3
  <2> QED
    BY <2>4, <2>5, <2>6, <2>7 DEF ContentIsKept
<1>2. ASSUME NEW c \in RegistryCalls, NEW s \in Slugs, CallBegin(c, s)
      PROVE  NothingHidden' /\ ContentIsKept'
  <2>1. vaults' = vaults /\ trashHome' = trashHome /\ contents' = contents
    BY <1>2, BeginStep
  <2> QED
    BY <2>1 DEF NothingHidden, ContentIsKept
<1>3. CASE Load
  <2>1. \A s \in Slugs : vaults'[s].there = vaults[s].there /\ vaults'[s].content = vaults[s].content
    BY <1>3, LoadStep
  <2>2. trashHome' = trashHome /\ contents' = contents
    BY <1>3 DEF Load
  <2> QED
    BY <2>1, <2>2 DEF NothingHidden, ContentIsKept
<1>4. ASSUME NEW s \in Slugs, PlaceFolder(s)
      PROVE  NothingHidden' /\ ContentIsKept'
  <2>1. /\ vaults'[s].there /\ ~vaults[s].there
        /\ \A t \in Slugs \ {s} : vaults'[t] = vaults[t]
        /\ contents' = contents \cup {vaults'[s].content} /\ trashHome' = trashHome
    BY <1>4, PlaceStep
  <2>2. vaults[s].content = 0
    BY <2>1 DEF NothingHidden
  <2>3. NothingHidden'
    BY <2>1 DEF NothingHidden
  <2>4. ContentIsKept'
    BY <1>0, <2>1, <2>2 DEF ContentIsKept
  <2> QED
    BY <2>3, <2>4
<1>5. CASE OnVaultEvent \/ HandlerLeaves \/ UNCHANGED regVars
  <2>1. vaults' = vaults /\ trashHome' = trashHome /\ contents' = contents
    BY <1>5 DEF OnVaultEvent, HandlerLeaves, regVars
  <2> QED
    BY <2>1 DEF NothingHidden, ContentIsKept
<1> QED
  BY <1>1, <1>2, <1>3, <1>4, <1>5, RegistrySteps

------------------------------------------------------------------------------
(* Calls one after another. *)

\* The only call that may take a step is the one that is under way.
LEMMA OnlyCall ==
    ASSUME RegistryTypeOK, Serial, NEW c \in RegistryCalls, CallStep(c)
    PROVE  BusyMode(c)
<1>1. regOp[c].kind # "idle"
  BY CallUnderWay
<1> QED
  BY <1>1 DEF Serial, QuietMode, BusyMode, RegistryQuiet

\* A step of a call leaves the other vaults as they are.
LEMMA OtherVaults ==
    ASSUME RegistryTypeOK, Serial, NEW c \in RegistryCalls, CallStep(c),
           NEW t \in Slugs, t # regOp[c].slug
    PROVE  Good(t)' /\ SlugOK(t)'
<1>1. BusyMode(c) /\ SlugOK(t) /\ Good(t)
  BY OnlyCall DEF Serial, BusyMode
<1>2. PICK s \in Slugs : s = regOp[c].slug
  BY CallUnderWay
<1>3. /\ instances'[t] = instances[t] /\ subscribedTo'[t] = subscribedTo[t]
      /\ handlers' = handlers /\ placed' = placed
  BY <1>2, MapStep
<1>4. vaults'[t] = vaults[t]
  BY <1>2, VaultsStep
<1>5. ASSUME instances[t] # 0
      PROVE  built'[instances[t]] = built[instances[t]]
  <2>1. instances[t] \in 1..Len(built)
    BY <1>5, EntryIsThere
  <2>2. CASE RenameApplies(c) \/ SetMetadataApplies(c) \/ DeleteCloses(c)
    <3>1. StageOK(regOp[c]) /\ CallOK(regOp[c])
      BY <1>1, CallUnderWay DEF BusyMode
    <3>2. instances[s] = regOp[c].instance
      BY <1>2, <2>2, <3>1 DEF RenameApplies, SetMetadataApplies, DeleteCloses, StageOK, CallOK,
                              IdentityOK, DeleteOK
    <3>3. instances[t] # regOp[c].instance
      BY <1>2, <1>5, <3>2 DEF Serial, Distinct
    <3> QED
      BY <2>1, <3>3, EntriesStep
  <2>3. CASE \A i \in 1..Len(built) : built'[i] = built[i]
    BY <2>1, <2>3
  <2> QED
    BY <2>2, <2>3, EntriesStep
<1>6. SlugOK(t)'
  BY <1>1, <1>3, <1>4 DEF SlugOK
<1>7. Good(t)'
  BY <1>1, <1>3, <1>4, <1>5 DEF Good, Mirrored, Live
<1> QED
  BY <1>6, <1>7

\* A step of create() keeps what holds of its vault.
LEMMA CreateStep ==
    ASSUME RegistryTypeOK, Serial, NEW c \in RegistryCalls, NEW s \in Slugs,
           s = regOp[c].slug, CallStep(c),
           CreateStat(c) \/ CreateMkdir(c) \/ CreateIdentity(c) \/ CreateSeed(c) \/ CreateRegister(c)
    PROVE  /\ SlugOK(s)'
           /\ \/ regOp'[c].kind = "idle" /\ Good(s)'
              \/ regOp'[c].kind # "idle" /\ regOp'[c].slug = s /\ CallOK(regOp[c])'
<1>1. BusyMode(c) /\ SlugOK(s) /\ StageOK(regOp[c])
  BY OnlyCall, CallUnderWay DEF Serial
<1>2. regOp[c].kind = "create" /\ CreateOK(regOp[c])
  BY <1>1 DEF StageOK, CreateStat, CreateMkdir, CreateIdentity, CreateSeed, CreateRegister,
              BusyMode, CallOK
<1>3. /\ instances[s] = 0 /\ subscribedTo[s] = 0
      /\ regOp[c].at # "stat" => s \notin placed
      /\ regOp[c].at \in {"identity", "seed", "register"} => vaults[s].there
      /\ regOp[c].at \in {"seed", "register"} => /\ vaults[s].name = regOp[c].name
                                                 /\ vaults[s].color = NoVaultColor
  BY <1>1, <1>2 DEF CreateOK, SlugOK
<1>4. handlers' = handlers /\ placed' = placed /\ handlers \in Nat
  BY MapStep DEF RegistryTypeOK
<1>5. CASE CreateRegister(c)
  <2>1. /\ regOp[c].at = "register" /\ regOp'[c].kind = "idle" /\ vaults' = vaults
        /\ ~DeleteMoves(c)
    BY <1>5, StagesStep, VaultsStep DEF CreateRegister, DeleteMoves
  <2>2. PICK k \in Nat \ {0} : k = Len(built) + 1
    BY EntriesStep
  <2>3. /\ built'[k].name = regOp[c].name /\ built'[k].color = NoVaultColor /\ ~built'[k].closed
    BY <1>5, <2>2, EntriesStep
  <2>4. /\ instances'[s] = k
        /\ handlers = 0 => subscribedTo'[s] = 0
        /\ handlers # 0 => subscribedTo'[s] = k
    BY <1>3, <1>5, <2>2, MapStep
  <2>5. SlugOK(s)'
    BY <1>3, <1>4, <2>1, <2>4 DEF SlugOK
  <2>6. Good(s)'
    BY <1>3, <1>4, <2>1, <2>3, <2>4 DEF Good, Mirrored, Live
  <2> QED
    BY <2>1, <2>5, <2>6
<1>6. CASE ~CreateRegister(c)
  <2>1. instances'[s] = 0 /\ subscribedTo'[s] = 0
    <3>1. ~DeleteMoves(c)
      BY <1>6 DEF DeleteMoves, CreateStat, CreateMkdir, CreateIdentity, CreateSeed
    <3> QED
      BY <1>3, <1>6, <3>1, MapStep
  <2>2. CASE CreateStat(c)
    <3>1. vaults' = vaults
      BY <2>2, VaultsStep
    <3>2. SlugOK(s)' /\ Good(s)'
      BY <1>1, <1>4, <2>1, <3>1 DEF SlugOK, Good
    <3>3. \/ regOp'[c].kind = "idle"
          \/ /\ regOp'[c].kind = "create" /\ regOp'[c].slug = s /\ regOp'[c].at = "mkdir"
             /\ ~vaults[s].there
      BY <1>2, <2>2, StagesStep DEF CreateStat, CreateMkdir, CreateIdentity, CreateSeed,
                                    WriteIdentity, DeleteCloses, DeleteFindsPlace
    <3>4. ~vaults[s].there => s \notin placed'
      BY <1>1, <1>4 DEF SlugOK
    <3> QED
      BY <2>1, <3>2, <3>3, <3>4 DEF CallOK, CreateOK
  <2>3. CASE CreateMkdir(c)
    <3>1. vaults'[s].there /\ regOp[c].at = "mkdir" /\ s \notin placed'
      BY <1>3, <1>4, <2>3, VaultsStep DEF CreateMkdir
    <3>2. SlugOK(s)' /\ Good(s)'
      BY <2>1, <3>1 DEF SlugOK, Good
    <3>3. \/ regOp'[c].kind = "idle"
          \/ /\ regOp'[c].kind = "create" /\ regOp'[c].slug = s /\ regOp'[c].at = "identity"
      BY <1>2, <2>3, StagesStep DEF CreateStat, CreateMkdir, CreateIdentity, CreateSeed,
                                    WriteIdentity, DeleteCloses, DeleteFindsPlace
    <3> QED
      BY <2>1, <3>1, <3>2, <3>3 DEF CallOK, CreateOK
  <2>4. CASE CreateIdentity(c)
    <3>1. /\ vaults'[s].there /\ regOp[c].at = "identity" /\ s \notin placed'
          /\ vaults'[s].name = regOp[c].name /\ vaults'[s].color = NoVaultColor
      BY <1>3, <1>4, <2>4, VaultsStep DEF CreateIdentity
    <3>2. SlugOK(s)' /\ Good(s)'
      BY <2>1, <3>1 DEF SlugOK, Good
    <3>3. \/ regOp'[c].kind = "idle"
          \/ /\ regOp'[c].kind = "create" /\ regOp'[c].slug = s /\ regOp'[c].at = "seed"
             /\ regOp'[c].name = regOp[c].name
      BY <1>2, <2>4, StagesStep DEF CreateStat, CreateMkdir, CreateIdentity, CreateSeed,
                                    WriteIdentity, DeleteCloses, DeleteFindsPlace
    <3> QED
      BY <2>1, <3>1, <3>2, <3>3 DEF CallOK, CreateOK
  <2>5. CASE CreateSeed(c)
    <3>1. /\ vaults'[s].there /\ regOp[c].at = "seed" /\ s \notin placed'
          /\ vaults'[s].name = regOp[c].name /\ vaults'[s].color = NoVaultColor
      BY <1>3, <1>4, <2>5, VaultsStep, ZenonT(40) DEF CreateSeed
    <3>2. SlugOK(s)' /\ Good(s)'
      BY <2>1, <3>1 DEF SlugOK, Good
    <3>3. \/ regOp'[c].kind = "idle"
          \/ /\ regOp'[c].kind = "create" /\ regOp'[c].slug = s /\ regOp'[c].at = "register"
             /\ regOp'[c].name = regOp[c].name
      BY <1>2, <2>5, StagesStep DEF CreateStat, CreateMkdir, CreateIdentity, CreateSeed,
                                    WriteIdentity, DeleteCloses, DeleteFindsPlace
    <3> QED
      BY <2>1, <3>1, <3>2, <3>3 DEF CallOK, CreateOK
  <2> QED
    BY <1>6, <2>2, <2>3, <2>4, <2>5
<1> QED
  BY <1>5, <1>6

\* A step of rename() or setMetadata() keeps what holds of its vault.
LEMMA IdentityStep ==
    ASSUME RegistryTypeOK, Serial, NEW c \in RegistryCalls, NEW s \in Slugs,
           s = regOp[c].slug, CallStep(c),
           WriteIdentity(c) \/ RenameApplies(c) \/ SetMetadataApplies(c)
    PROVE  /\ SlugOK(s)'
           /\ \/ regOp'[c].kind = "idle" /\ Good(s)'
              \/ regOp'[c].kind # "idle" /\ regOp'[c].slug = s /\ CallOK(regOp[c])'
<1>1. BusyMode(c) /\ SlugOK(s) /\ StageOK(regOp[c])
  BY OnlyCall, CallUnderWay DEF Serial
<1>2. /\ regOp[c].kind \in {"rename", "setMetadata"} /\ IdentityOK(regOp[c])
      /\ regOp[c].instance \in 1..Len(built)
  BY <1>1 DEF StageOK, WriteIdentity, RenameApplies, SetMetadataApplies, BusyMode, CallOK
<1>3. PICK i \in 1..Len(built) : i = regOp[c].instance /\ instances[s] = i /\ i # 0
  BY <1>2, EntriesStep DEF IdentityOK
<1>4. vaults[s].there /\ s \notin placed
  BY <1>1, <1>3 DEF SlugOK
<1>5. ~CreateRegister(c) /\ ~DeleteMoves(c)
  BY DEF WriteIdentity, RenameApplies, SetMetadataApplies, CreateRegister, DeleteMoves
<1>6. /\ instances' = instances /\ subscribedTo' = subscribedTo
      /\ handlers' = handlers /\ placed' = placed
  BY <1>5, MapStep
<1>7. CASE WriteIdentity(c)
  <2>1. /\ vaults'[s].there /\ vaults'[s].name = regOp[c].name
        /\ vaults'[s].color = regOp[c].color
    BY <1>7, VaultsStep
  <2>2. built' = built
    BY <1>7 DEF WriteIdentity
  <2>3. \/ regOp'[c].kind = "idle"
        \/ /\ regOp'[c].kind = regOp[c].kind /\ regOp'[c].slug = s /\ regOp'[c].at = "apply"
           /\ regOp'[c].name = regOp[c].name /\ regOp'[c].color = regOp[c].color
           /\ regOp'[c].instance = i
    BY <1>3, <1>7, StagesStep DEF CreateStat, CreateMkdir, CreateIdentity, CreateSeed,
                                  WriteIdentity, DeleteCloses, DeleteFindsPlace
  <2>4. regOp'[c].kind # "idle"
    <3>1. CallGoes(c, "apply") /\ "apply" \in CallStage
      BY <1>7 DEF WriteIdentity, CallStage
    <3>2. regOp'[c].kind = regOp[c].kind
      BY <3>1, Goes
    <3> QED
      BY <1>2, <3>2
  <2>5. SlugOK(s)'
    BY <1>1, <1>3, <1>4, <1>6, <2>1 DEF SlugOK
  <2>6. Live(s)'
    BY <1>2, <1>6, <2>2 DEF IdentityOK, Live
  <2>7. IdentityOK(regOp[c])'
    BY <1>2, <1>3, <1>6, <2>1, <2>2, <2>3, <2>4, <2>6 DEF IdentityOK
  <2>8. CallOK(regOp[c])'
    BY <1>2, <2>3, <2>4, <2>7 DEF CallOK
  <2> QED
    BY <2>3, <2>4, <2>5, <2>8
<1>8. CASE RenameApplies(c) \/ SetMetadataApplies(c)
  <2>1. vaults' = vaults /\ regOp'[c].kind = "idle"
    BY <1>8, VaultsStep, StagesStep
  <2>2. SlugOK(s)'
    BY <1>1, <1>6, <2>1 DEF SlugOK
  <2>3. regOp[c].at = "apply" /\ vaults[s].name = regOp[c].name /\ vaults[s].color = regOp[c].color
    BY <1>2, <1>8 DEF IdentityOK, RenameApplies, SetMetadataApplies
  <2>4. built'[i].name = regOp[c].name /\ built'[i].color = regOp[c].color
    <3>1. CASE RenameApplies(c)
      <4>1. regOp[c].kind = "rename"
        BY <3>1 DEF RenameApplies
      <4>2. regOp[c].color = built[i].color
        BY <1>2, <1>3, <4>1 DEF IdentityOK
      <4>3. built'[i].color = built[i].color /\ built'[i].name = regOp[c].name
        BY <1>3, <3>1, EntriesStep
      <4> QED
        BY <4>2, <4>3
    <3>2. CASE SetMetadataApplies(c)
      <4>1. regOp[c].kind = "setMetadata"
        BY <3>2 DEF SetMetadataApplies
      <4>2. regOp[c].name = built[i].name
        BY <1>2, <1>3, <4>1 DEF IdentityOK
      <4>3. built'[i].name = built[i].name /\ built'[i].color = regOp[c].color
        BY <1>3, <3>2, EntriesStep
      <4> QED
        BY <4>2, <4>3
    <3> QED
      BY <1>8, <3>1, <3>2
  <2>5. built'[i].closed = built[i].closed
    BY <1>3, <1>8, EntriesStep
  <2>6. Live(s)'
    BY <1>2, <1>3, <1>6, <2>5 DEF IdentityOK, Live
  <2>7. Mirrored(s)'
    BY <1>3, <1>6, <2>1, <2>3, <2>4 DEF Mirrored
  <2> QED
    BY <2>1, <2>2, <2>6, <2>7 DEF Good
<1> QED
  BY <1>7, <1>8

\* A step of softDelete() keeps what holds of its vault.
LEMMA DeleteStep ==
    ASSUME RegistryTypeOK, Serial, NEW c \in RegistryCalls, NEW s \in Slugs,
           s = regOp[c].slug, CallStep(c),
           DeleteCloses(c) \/ DeleteFindsPlace(c) \/ DeleteMoves(c)
    PROVE  /\ SlugOK(s)'
           /\ \/ regOp'[c].kind = "idle" /\ Good(s)'
              \/ regOp'[c].kind # "idle" /\ regOp'[c].slug = s /\ CallOK(regOp[c])'
<1>1. BusyMode(c) /\ SlugOK(s) /\ StageOK(regOp[c])
  BY OnlyCall, CallUnderWay DEF Serial
<1>2. /\ regOp[c].kind = "softDelete" /\ DeleteOK(regOp[c])
      /\ regOp[c].instance \in 1..Len(built)
  BY <1>1 DEF StageOK, DeleteCloses, DeleteFindsPlace, DeleteMoves, BusyMode, CallOK
<1>3. /\ instances[s] = regOp[c].instance /\ instances[s] # 0 /\ subscribedTo[s] = 0
      /\ regOp[c].at = "move" => regOp[c].to \notin DOMAIN trashHome
  BY <1>2, EntriesStep DEF DeleteOK
<1>4. vaults[s].there /\ s \notin placed
  BY <1>1, <1>3 DEF SlugOK
<1>5. ~CreateRegister(c)
  BY DEF DeleteCloses, DeleteFindsPlace, DeleteMoves, CreateRegister
<1>6. subscribedTo'[s] = 0 /\ handlers' = handlers /\ placed' = placed
  BY <1>3, <1>5, MapStep
<1>7. CASE DeleteMoves(c)
  <2>1. regOp'[c].kind = "idle" /\ regOp[c].at = "move"
    BY <1>7, StagesStep DEF DeleteMoves
  <2>2. instances'[s] = 0
    BY <1>3, <1>4, <1>7, <2>1, MapStep
  <2>3. SlugOK(s)' /\ Good(s)'
    BY <1>4, <1>6, <2>2 DEF SlugOK, Good
  <2> QED
    BY <2>1, <2>3
<1>8. CASE DeleteCloses(c) \/ DeleteFindsPlace(c)
  <2>1. ~DeleteMoves(c)
    BY <1>8 DEF DeleteMoves, DeleteCloses, DeleteFindsPlace
  <2>2. vaults' = vaults /\ instances' = instances /\ trashHome' = trashHome
    BY <1>5, <1>8, <2>1, VaultsStep, MapStep
  <2>3. /\ regOp'[c].kind = regOp[c].kind /\ regOp'[c].slug = s
        /\ regOp'[c].instance = regOp[c].instance
        /\ regOp'[c].at = "move" => regOp'[c].to \notin DOMAIN trashHome
    <3>1. CASE DeleteCloses(c)
      <4>1. CallGoes(c, "destination") /\ "destination" \in CallStage
        BY <3>1 DEF DeleteCloses, CallStage
      <4> QED
        BY <4>1, Goes
    <3>2. CASE DeleteFindsPlace(c)
      BY <3>2, PlaceIsFound
    <3> QED
      BY <1>8, <3>1, <3>2
  <2>4. SlugOK(s)'
    BY <1>1, <1>3, <1>4, <1>6, <2>2 DEF SlugOK
  <2>5. CallOK(regOp[c])'
    BY <1>2, <1>3, <1>6, <2>2, <2>3 DEF CallOK, DeleteOK
  <2> QED
    BY <1>2, <2>3, <2>4, <2>5
<1> QED
  BY <1>7, <1>8

\* A step of the only call under way.
LEMMA SerialCallStep ==
    ASSUME RegistryTypeOK, Serial, NEW c \in RegistryCalls, CallStep(c)
    PROVE  Serial'
<1>1. PICK s \in Slugs : s = regOp[c].slug
  BY CallUnderWay
<1>2. BusyMode(c)
  BY OnlyCall
<1>3. \A t \in Slugs \ {s} : Good(t)' /\ SlugOK(t)'
  BY <1>1, OtherVaults
<1>4. /\ SlugOK(s)'
      /\ \/ regOp'[c].kind = "idle" /\ Good(s)'
         \/ regOp'[c].kind # "idle" /\ regOp'[c].slug = s /\ CallOK(regOp[c])'
  BY <1>1, CreateStep, IdentityStep, DeleteStep DEF CallStep
<1>5. \A d \in RegistryCalls \ {c} : regOp'[d].kind = "idle"
  BY <1>2, StagesStep DEF BusyMode
<1>6. Distinct'
  <2>1. /\ \A t \in Slugs \ {s} : instances'[t] = instances[t]
        /\ instances'[s] = instances[s] \/ instances'[s] = 0 \/ instances'[s] = Len(built) + 1
    BY <1>1, MapStep
  <2>2. /\ \A t \in Slugs : instances[t] <= Len(built) /\ instances[t] \in Nat
        /\ Len(built) \in Nat
    BY EntriesStep DEF RegistryTypeOK
  <2>3. Distinct
    BY DEF Serial
  <2> QED
    BY <2>1, <2>2, <2>3 DEF Distinct
<1>7. \A t \in Slugs : SlugOK(t)'
  BY <1>3, <1>4
<1>8. CASE regOp'[c].kind = "idle" /\ Good(s)'
  <2>1. QuietMode'
    BY <1>3, <1>5, <1>8 DEF QuietMode, RegistryQuiet
  <2> QED
    BY <1>6, <1>7, <2>1 DEF Serial
<1>9. CASE regOp'[c].kind # "idle" /\ regOp'[c].slug = s /\ CallOK(regOp[c])'
  <2>1. BusyMode(c)'
    BY <1>3, <1>5, <1>9 DEF BusyMode
  <2> QED
    BY <1>6, <1>7, <2>1 DEF Serial
<1> QED
  BY <1>4, <1>8, <1>9

\* A call begins when none is under way.
LEMMA SerialBeginStep ==
    ASSUME RegistryTypeOK, Serial, ~overlap, NEW c \in RegistryCalls, NEW s \in Slugs,
           CallBegin(c, s)
    PROVE  Serial'
<1>1. /\ vaults' = vaults /\ trashHome' = trashHome
      /\ instances' = instances /\ built' = built /\ handlers' = handlers
      /\ placed' = placed
      /\ RegistryQuiet
      /\ \A d \in RegistryCalls \ {c} : regOp'[d] = regOp[d]
      /\ regOp'[c].slug = s
      /\ \A t \in Slugs \ {s} : subscribedTo'[t] = subscribedTo[t]
      /\ \/ /\ regOp'[c].kind = "create" /\ regOp'[c].at = "stat" /\ instances[s] = 0
            /\ subscribedTo' = subscribedTo
         \/ /\ regOp'[c].kind \in {"rename", "setMetadata"} /\ regOp'[c].at = "write"
            /\ regOp'[c].instance = instances[s] /\ instances[s] # 0
            /\ regOp'[c].kind = "rename" => regOp'[c].color = built[instances[s]].color
            /\ regOp'[c].kind = "setMetadata" => regOp'[c].name = built[instances[s]].name
            /\ subscribedTo' = subscribedTo
         \/ /\ regOp'[c].kind = "softDelete" /\ regOp'[c].at = "close"
            /\ regOp'[c].instance = instances[s] /\ instances[s] # 0
            /\ subscribedTo'[s] = 0
  BY BeginStep
<1>2. QuietMode
  BY <1>1 DEF Serial, QuietMode, BusyMode, RegistryQuiet
<1>3. \A t \in Slugs : Good(t) /\ SlugOK(t)
  BY <1>2 DEF Serial, QuietMode
<1>4. \A t \in Slugs \ {s} : Good(t)'
  BY <1>1, <1>3 DEF Good, Mirrored, Live
<1>5. \A t \in Slugs : SlugOK(t)'
  BY <1>1, <1>3 DEF SlugOK
<1>6. Distinct'
  BY <1>1 DEF Serial, Distinct
<1>7. CallOK(regOp[c])'
  BY <1>1, <1>3 DEF CallOK, CreateOK, IdentityOK, DeleteOK, Good, Live
<1>8. BusyMode(c)'
  BY <1>1, <1>4, <1>7 DEF BusyMode, RegistryQuiet
<1> QED
  BY <1>5, <1>6, <1>8 DEF Serial

\* Calls, events, folders and restarts one after another keep every vault
\* good but the one the call under way is changing.
LEMMA SerialStep ==
    ASSUME RegistryTypeOK, Serial, ~overlap, [RegistryNext]_regVars
    PROVE  Serial'
<1>1. CASE Load
  <2>1. /\ \A s \in Slugs : vaults'[s].there = vaults[s].there
        /\ \A s \in Slugs : ~vaults[s].there => instances'[s] = 0
        /\ \A s \in Slugs : vaults[s].there =>
              /\ built'[instances'[s]].name = vaults'[s].name
              /\ built'[instances'[s]].color = vaults'[s].color
              /\ ~built'[instances'[s]].closed
        /\ \A s, t \in Slugs : instances'[s] = instances'[t] /\ instances'[s] # 0 => s = t
    BY <1>1, LoadStep
  <2>2. /\ handlers' = 0 /\ subscribedTo' = [s \in Slugs |-> 0] /\ placed' = {}
        /\ regOp' = [c \in RegistryCalls |-> NoRegistryCall]
    BY <1>1 DEF Load
  <2>3. \A s \in Slugs : SlugOK(s)'
    BY <2>1, <2>2 DEF SlugOK
  <2>4. \A s \in Slugs : Good(s)'
    BY <2>1, <2>2 DEF Good, Mirrored, Live
  <2>5. RegistryQuiet'
    BY <2>2 DEF RegistryQuiet, NoRegistryCall
  <2> QED
    BY <2>1, <2>3, <2>4, <2>5 DEF Serial, Distinct, QuietMode
<1>2. ASSUME NEW s \in Slugs, PlaceFolder(s)
      PROVE  Serial'
  <2>1. /\ vaults'[s].there /\ vaults'[s].name = ByHand /\ ~vaults[s].there
        /\ \A t \in Slugs \ {s} : vaults'[t] = vaults[t]
        /\ placed' = placed \cup {s} /\ RegistryQuiet
        /\ UNCHANGED <<instances, built, handlers, subscribedTo, regOp>>
    BY <1>2, PlaceStep
  <2>2. \A t \in Slugs : Good(t) /\ SlugOK(t)
    BY <2>1 DEF Serial, QuietMode, BusyMode, RegistryQuiet
  <2>3. instances[s] = 0
    BY <2>1, <2>2 DEF SlugOK
  <2>4. \A t \in Slugs : SlugOK(t)'
    BY <2>1, <2>2, <2>3 DEF SlugOK
  <2>5. \A t \in Slugs : Good(t)'
    BY <2>1, <2>2, <2>3 DEF Good, Mirrored, Live
  <2>6. Distinct' /\ RegistryQuiet'
    BY <2>1 DEF Serial, Distinct, RegistryQuiet
  <2> QED
    BY <2>4, <2>5, <2>6 DEF Serial, QuietMode
<1>3. CASE OnVaultEvent \/ HandlerLeaves
  <2>1. /\ UNCHANGED <<vaults, instances, built, regOp, placed>> /\ RegistryQuiet
        /\ handlers \in Nat /\ subscribedTo \in [Slugs -> Nat] /\ instances \in [Slugs -> Nat]
    BY <1>3 DEF OnVaultEvent, HandlerLeaves, RegistryTypeOK
  <2>2. \A t \in Slugs : Good(t) /\ SlugOK(t)
    BY <2>1 DEF Serial, QuietMode, BusyMode, RegistryQuiet
  <2>3. ASSUME NEW t \in Slugs
        PROVE  /\ instances[t] = 0 \/ handlers' = 0 => subscribedTo'[t] = 0
               /\ instances[t] # 0 /\ handlers' > 0 => subscribedTo'[t] = instances[t]
    BY <1>3, <2>1, <2>2 DEF OnVaultEvent, HandlerLeaves, Good, Live, SlugOK
  <2>4. \A t \in Slugs : SlugOK(t)'
    BY <2>1, <2>2, <2>3 DEF SlugOK
  <2>5. \A t \in Slugs : Good(t)'
    BY <2>1, <2>2, <2>3 DEF Good, Mirrored, Live
  <2>6. Distinct' /\ RegistryQuiet'
    BY <2>1 DEF Serial, Distinct, RegistryQuiet
  <2> QED
    BY <2>4, <2>5, <2>6 DEF Serial, QuietMode
<1>4. CASE UNCHANGED regVars
  <2>1. UNCHANGED <<vaults, trashHome, instances, built, handlers, subscribedTo, regOp, placed>>
    BY <1>4 DEF regVars
  <2>2. \A s \in Slugs : (Good(s) => Good(s)') /\ (SlugOK(s) => SlugOK(s)')
    BY <2>1 DEF Good, Mirrored, Live, SlugOK
  <2>3. (Distinct => Distinct') /\ (RegistryQuiet => RegistryQuiet')
    BY <2>1 DEF Distinct, RegistryQuiet
  <2>4. \A c \in RegistryCalls : CallOK(regOp[c]) => CallOK(regOp[c])'
    BY <2>1 DEF CallOK, CreateOK, IdentityOK, DeleteOK, Live
  <2>5. QuietMode => QuietMode'
    BY <2>2, <2>3 DEF QuietMode
  <2>6. \A c \in RegistryCalls : BusyMode(c) => BusyMode(c)'
    BY <2>1, <2>2, <2>4 DEF BusyMode
  <2> QED
    BY <2>2, <2>3, <2>5, <2>6 DEF Serial
<1> QED
  BY <1>1, <1>2, <1>3, <1>4, SerialCallStep, SerialBeginStep, RegistrySteps

------------------------------------------------------------------------------

\* The registry loses no content whatever calls overlap and wherever the
\* daemon stops, and calls that come one after another keep every vault it
\* serves live and as its identity file says, and never touch a folder placed
\* by hand: create(), rename(), setMetadata(), softDelete() and load() of
\* VaultRegistry, for any number of slugs, calls and handlers.
THEOREM RegistryKeepsVaults == RegistrySpec => []RegistryIsSound
<1>1. RegistryInit => RegistryInv
  <2> SUFFICES ASSUME RegistryInit PROVE RegistryInv
    OBVIOUS
  <2>1. RegistryTypeOK
    <3>1. NoFolder \in FolderType
      BY DEF NoFolder, FolderType, AnyName, AnyColor
    <3>2. regOp \in [RegistryCalls -> CallType] /\ \A c \in RegistryCalls : StageOK(regOp[c])
      BY NoCallType DEF RegistryInit
    <3>3. IsFiniteSet(DOMAIN trashHome) /\ IsFiniteSet(contents)
      <4>1. DOMAIN trashHome = {} /\ contents = {}
        BY DEF RegistryInit
      <4> QED
        BY <4>1, FS_EmptySet
    <3>4. built \in Seq(EntryType) /\ Len(built) = 0
      BY DEF RegistryInit
    <3> QED
      BY <3>1, <3>2, <3>3, <3>4 DEF RegistryInit, RegistryTypeOK
  <2>2. NothingHidden /\ ContentIsKept
    BY DEF RegistryInit, NothingHidden, ContentIsKept, NoFolder
  <2>3. Serial
    BY DEF RegistryInit, Serial, SlugOK, Distinct, QuietMode, RegistryQuiet, NoRegistryCall, Good
  <2> QED
    BY <2>1, <2>2, <2>3 DEF RegistryInv
<1>2. RegistryInv /\ [RegistryNext]_regVars => RegistryInv'
  <2> SUFFICES ASSUME RegistryInv, [RegistryNext]_regVars PROVE RegistryInv'
    OBVIOUS
  <2>1. RegistryTypeOK /\ NothingHidden /\ ContentIsKept /\ (~overlap => Serial)
    BY DEF RegistryInv
  <2>2. RegistryTypeOK' /\ NothingHidden' /\ ContentIsKept'
    BY <2>1, RegistryTypeStep, KeptStep
  <2>3. overlap' = overlap
    BY DEF RegistryNext, regVars, OnVaultEvent, HandlerLeaves, Load, PlaceFolder, Create,
           RenameVault, SetMetadata, SoftDelete, CreateStat, CreateMkdir, CreateIdentity,
           CreateSeed, CreateRegister, WriteIdentity, RenameApplies, SetMetadataApplies,
           DeleteCloses, DeleteFindsPlace, DeleteMoves
  <2>4. ~overlap => Serial'
    BY <2>1, SerialStep
  <2> QED
    BY <2>2, <2>3, <2>4 DEF RegistryInv
<1>3. RegistryInv => RegistryIsSound
  <2> SUFFICES ASSUME RegistryInv PROVE RegistryIsSound
    OBVIOUS
  <2>1. ContentIsKept /\ (~overlap => Serial)
    BY DEF RegistryInv
  <2>2. FolderByHandIsKept
    BY <2>1 DEF FolderByHandIsKept, Serial, SlugOK, RegistryInv, RegistryTypeOK
  <2>3. ~overlap /\ RegistryQuiet => \A s \in Slugs : SlugOK(s) /\ Good(s)
    BY <2>1 DEF Serial, QuietMode, BusyMode, RegistryQuiet
  <2>4. SerialRegistryMirrorsDisk
    BY <2>3 DEF SerialRegistryMirrorsDisk, RegistryMirrorsDisk, SlugOK, Good, Mirrored
  <2>5. ServedVaultIsLive
    BY <2>3 DEF ServedVaultIsLive, Good, Live
  <2> QED
    BY <2>1, <2>2, <2>4, <2>5 DEF RegistryIsSound
<1> QED
  BY <1>1, <1>2, <1>3, PTL DEF RegistrySpec

-----------------------------------------------------------------------------
(* The shutdown of the daemon.                                             *)

LifecycleTypeOK ==
    /\ daemonPhase \in {"listening", "started"}
    /\ daemonClosing \in {"no", "transports", "registry", "closed"}
    /\ http \in [AppRequests -> {"none", "active", "done"}]
    /\ stream \in [Streams -> {"none", "active", "done"}]
    /\ doc \in [Sockets -> {"none", "attaching", "bound", "ended"}]

\* A connection is tracked from its upgrade to the end of its binding, and only a
\* bound one has a lease.
ConnectionsAreTracked ==
    /\ \A w \in Sockets : doc[w] \in {"attaching", "bound"} => w \in tracked
    /\ \A w \in lease : w \in Sockets /\ doc[w] = "bound"

\* A daemon that closes takes no connection, and its relay client does not come
\* back: the start is over, or has seen the request.
ClosingIsOneWay ==
    daemonClosing # "no" =>
        /\ ~listening
        /\ ~relay
        /\ shutdownRequested \/ daemonPhase = "started"

\* What was drained stays so.
DrainedStays ==
    daemonClosing \in {"registry", "closed"} => ServerClosed /\ StreamsClosed /\ tracked = {}

LifecycleInv == LifecycleTypeOK /\ ConnectionsAreTracked /\ ClosingIsOneWay /\ DrainedStays

LEMMA LifecycleInvInit == LifecycleInit => LifecycleInv
  BY DEF LifecycleInit, LifecycleInv, LifecycleTypeOK, ConnectionsAreTracked, ClosingIsOneWay,
         DrainedStays

\* The start and the shutdown.
LEMMA ClosingStepKept ==
    ASSUME LifecycleInv,
           \/ Started \/ RequestShutdown \/ CompleteShutdownRequest \/ TransportsDrained
           \/ RegistryCloses \/ \E s \in {"SIGINT", "SIGTERM"} : Signal(s)
    PROVE  LifecycleInv'
<1> USE DEF LifecycleInv, LifecycleTypeOK, ConnectionsAreTracked, ClosingIsOneWay, DrainedStays,
            ServerClosed, StreamsClosed, transportVars
<1>1. CASE Started
  BY <1>1 DEF Started
<1>2. CASE RequestShutdown
  BY <1>2 DEF RequestShutdown
<1>3. CASE CompleteShutdownRequest
  BY <1>3 DEF CompleteShutdownRequest, CloseDaemon
<1>4. CASE TransportsDrained
  BY <1>4 DEF TransportsDrained, WebSocketsClosed
<1>5. CASE RegistryCloses
  BY <1>5 DEF RegistryCloses
<1>6. ASSUME NEW s \in {"SIGINT", "SIGTERM"}, Signal(s) PROVE LifecycleInv'
  <2>1. CASE daemonPhase = "started" /\ signalled = {}
    BY <1>6, <2>1 DEF Signal, CloseDaemon
  <2>2. CASE ~(daemonPhase = "started" /\ signalled = {})
    BY <1>6, <2>2 DEF Signal
  <2> QED
    BY <2>1, <2>2
<1> QED
  BY <1>1, <1>2, <1>3, <1>4, <1>5, <1>6

\* Requests and streams.
LEMMA TrafficStepKept ==
    ASSUME LifecycleInv,
           \/ \E r \in AppRequests : AppRequest(r) \/ HttpResponse(r)
           \/ \E s \in Streams : OpenStream(s) \/ StreamEnds(s)
    PROVE  LifecycleInv'
<1> USE DEF LifecycleInv, LifecycleTypeOK, ConnectionsAreTracked, ClosingIsOneWay, DrainedStays,
            ServerClosed, StreamsClosed
<1>1. ASSUME NEW r \in AppRequests, AppRequest(r) PROVE LifecycleInv'
  BY <1>1 DEF AppRequest, Accepting
<1>2. ASSUME NEW r \in AppRequests, HttpResponse(r) PROVE LifecycleInv'
  BY <1>2 DEF HttpResponse
<1>3. ASSUME NEW s \in Streams, OpenStream(s) PROVE LifecycleInv'
  BY <1>3 DEF OpenStream, Accepting
<1>4. ASSUME NEW s \in Streams, StreamEnds(s) PROVE LifecycleInv'
  BY <1>4 DEF StreamEnds
<1> QED
  BY <1>1, <1>2, <1>3, <1>4

\* Sockets.
LEMMA SocketStepKept ==
    ASSUME LifecycleInv, NEW w \in Sockets,
           Upgrade(w) \/ SocketCloses(w) \/ Attached(w) \/ AttachFails(w) \/ BindingEnds(w)
    PROVE  LifecycleInv'
<1> USE DEF LifecycleInv, LifecycleTypeOK, ConnectionsAreTracked, ClosingIsOneWay, DrainedStays,
            ServerClosed, StreamsClosed
<1>1. CASE Upgrade(w)
  BY <1>1 DEF Upgrade, Accepting
<1>2. CASE SocketCloses(w)
  BY <1>2 DEF SocketCloses
<1>3. CASE Attached(w)
  BY <1>3 DEF Attached
<1>4. CASE AttachFails(w)
  BY <1>4 DEF AttachFails
<1>5. CASE BindingEnds(w)
  BY <1>5 DEF BindingEnds
<1> QED
  BY <1>1, <1>2, <1>3, <1>4, <1>5

\* In every behaviour of the daemon the registry closes last, when no request, stream
\* or attach is under way and no socket holds a session, and no relay client is left:
\* however a shutdown by request or by signal meets the start and the connections.
THEOREM ShutdownInOrder == LifecycleSpec => [](RegistryClosesLast /\ RelayEndsWithDaemon)
<1>1. LifecycleInit => LifecycleInv
  BY LifecycleInvInit
<1>2. LifecycleInv /\ [LifecycleNext]_lifeVars => LifecycleInv'
  <2>1. ASSUME LifecycleInv, UNCHANGED lifeVars PROVE LifecycleInv'
    BY <2>1 DEF LifecycleInv, LifecycleTypeOK, ConnectionsAreTracked, ClosingIsOneWay,
                DrainedStays, ServerClosed, StreamsClosed, lifeVars
  <2> QED
    BY <2>1, ClosingStepKept, TrafficStepKept, SocketStepKept DEF LifecycleNext
<1>3. LifecycleInv => RegistryClosesLast /\ RelayEndsWithDaemon
  BY DEF LifecycleInv, LifecycleTypeOK, ConnectionsAreTracked, ClosingIsOneWay, DrainedStays,
         RegistryClosesLast, RelayEndsWithDaemon
<1> QED
  BY <1>1, <1>2, <1>3, PTL DEF LifecycleSpec

-----------------------------------------------------------------------------
(* The sessions of the MCP endpoint.                                       *)

SessionRecord ==
    [known : BOOLEAN, open : BOOLEAN, active : Nat, initTimer : BOOLEAN, idleTimer : BOOLEAN,
     acknowledged : BOOLEAN]
McpRequestRecord ==
    [kind : McpKinds, session : Sessions,
     stage : {"none", "admitted", "streaming", "done", "cancelled"}]

McpTypeOK ==
    /\ session \in [Sessions -> SessionRecord]
    /\ init \in [Sessions -> {"none", "admitted", "streaming", "done"}]
    /\ mcpRequest \in [McpRequests -> McpRequestRecord]
    /\ operation \in [McpRequests -> {"none", "queued", "running", "settled", "over", "refused"}]
    /\ accepting \in [requests : BOOLEAN, operations : BOOLEAN]
    /\ mcpClosing \in {"no", "requests", "operations", "closed"}

\* The two gates of close().
GatesOK ==
    /\ accepting.requests <=> mcpClosing = "no"
    /\ accepting.operations <=> mcpClosing \in {"no", "requests"}

\* The requests of a session that are counted.
ActiveOf(s) ==
    {r \in McpRequests : mcpRequest[r].session = s /\ mcpRequest[r].stage \in {"admitted", "streaming"}}
Initializing(s) == IF init[s] = "streaming" THEN 1 ELSE 0

\* A session: its transport is open as long as it is in the map; it counts the
\* requests its clients follow; an acknowledged one has no initialization timer; and
\* before its initialize request is answered nothing has been admitted to it.
SessionOK(s) ==
    /\ session[s].known = session[s].open
    /\ init[s] \in {"none", "admitted"} => session[s] = NoSession
    /\ session[s].active = Cardinality(ActiveOf(s)) + Initializing(s)
    /\ session[s].acknowledged => ~session[s].initTimer
    /\ mcpClosing \in {"operations", "closed"} => init[s] \notin {"admitted", "streaming"}
    /\ mcpClosing = "closed" =>
         ~session[s].known /\ ~session[s].initTimer /\ ~session[s].idleTimer

\* A request and its tool.
RequestOK(r) ==
    LET s == mcpRequest[r].session IN
    /\ init[s] \in {"none", "admitted"} => operation[r] = "none" /\ mcpRequest[r].stage \in {"none", "done"}
    /\ operation[r] # "none" =>
         mcpRequest[r].kind = "call" /\ mcpRequest[r].stage \in {"streaming", "done", "cancelled"}
    /\ operation[r] \in {"queued", "running", "refused"} /\ mcpRequest[r].stage = "done" => ~session[s].open
    /\ operation[r] = "refused" => mcpRequest[r].stage \in {"done", "cancelled"}
    /\ mcpClosing \in {"operations", "closed"} /\ mcpRequest[r].kind \in Posts =>
         mcpRequest[r].stage \notin {"admitted", "streaming"}
    /\ mcpClosing = "closed" => operation[r] # "running"

McpInv ==
    /\ McpTypeOK /\ GatesOK
    /\ \A s \in Sessions : SessionOK(s)
    /\ \A r \in McpRequests : RequestOK(r)
    /\ BusySessionIsKept

LEMMA ActiveIsFinite ==
    ASSUME NEW s
    PROVE  IsFiniteSet(ActiveOf(s)) /\ Cardinality(ActiveOf(s)) \in Nat
  BY McpBounds, FS_Subset, FS_CardinalityType DEF ActiveOf

LEMMA McpInvInit == McpInit => McpInv
<1> SUFFICES ASSUME McpInit PROVE McpInv
  OBVIOUS
<1>1. McpTypeOK
  BY DEF McpInit, McpTypeOK, SessionRecord, McpRequestRecord, NoSession
<1>2. GatesOK
  BY DEF McpInit, GatesOK
<1>3. ASSUME NEW s \in Sessions PROVE SessionOK(s)
  <2>1. ActiveOf(s) = {}
    BY DEF McpInit, ActiveOf
  <2>2. Cardinality(ActiveOf(s)) = 0
    BY <2>1, FS_EmptySet
  <2>3. session[s] = NoSession /\ init[s] = "none" /\ mcpClosing = "no"
    BY DEF McpInit
  <2>4. Initializing(s) = 0
    BY <2>3 DEF Initializing
  <2> QED
    BY <2>2, <2>3, <2>4 DEF SessionOK, NoSession
<1>4. ASSUME NEW r \in McpRequests PROVE RequestOK(r)
  BY DEF McpInit, RequestOK
<1>5. BusySessionIsKept
  BY DEF McpInit, BusySessionIsKept
<1> QED
  BY <1>1, <1>2, <1>3, <1>4, <1>5 DEF McpInv

-----------------------------------------------------------------------------
(* Counting.                                                               *)

\* A request that is admitted is counted, ...
LEMMA OneMoreActive ==
    ASSUME McpTypeOK, NEW r \in McpRequests, mcpRequest[r].stage \notin {"admitted", "streaming"},
           NEW st \in {"admitted", "streaming"}, Stage(r, st), NEW s \in Sessions
    PROVE  Cardinality(ActiveOf(s)') =
             Cardinality(ActiveOf(s)) + (IF s = mcpRequest[r].session THEN 1 ELSE 0)
<1>1. /\ mcpRequest'[r].stage = st /\ mcpRequest'[r].session = mcpRequest[r].session
      /\ \A q \in McpRequests : q # r => mcpRequest'[q] = mcpRequest[q]
  BY DEF McpTypeOK, McpRequestRecord, Stage
<1>2. CASE s = mcpRequest[r].session
  <2>1. ActiveOf(s)' = ActiveOf(s) \cup {r} /\ r \notin ActiveOf(s)
    BY <1>1, <1>2 DEF ActiveOf
  <2> QED
    BY <1>2, <2>1, ActiveIsFinite, FS_AddElement
<1>3. CASE s # mcpRequest[r].session
  <2>1. ActiveOf(s)' = ActiveOf(s)
    BY <1>1, <1>3 DEF ActiveOf
  <2> QED
    BY <1>3, <2>1, ActiveIsFinite
<1> QED
  BY <1>2, <1>3

\* ... one that ends is not counted any more, ...
LEMMA OneLessActive ==
    ASSUME McpTypeOK, NEW r \in McpRequests, mcpRequest[r].stage \in {"admitted", "streaming"},
           NEW st \in {"none", "done", "cancelled"}, Stage(r, st), NEW s \in Sessions
    PROVE  Cardinality(ActiveOf(s)) =
             Cardinality(ActiveOf(s)') + (IF s = mcpRequest[r].session THEN 1 ELSE 0)
<1>1. /\ mcpRequest'[r].stage = st /\ mcpRequest'[r].session = mcpRequest[r].session
      /\ \A q \in McpRequests : q # r => mcpRequest'[q] = mcpRequest[q]
  BY DEF McpTypeOK, McpRequestRecord, Stage
<1>2. CASE s = mcpRequest[r].session
  <2>1. ActiveOf(s) = ActiveOf(s)' \cup {r} /\ r \notin ActiveOf(s)'
    BY <1>1, <1>2 DEF ActiveOf
  <2>2. IsFiniteSet(ActiveOf(s)')
    BY McpBounds, FS_Subset DEF ActiveOf
  <2> QED
    BY <1>2, <2>1, <2>2, FS_AddElement
<1>3. CASE s # mcpRequest[r].session
  <2>1. ActiveOf(s)' = ActiveOf(s)
    BY <1>1, <1>3 DEF ActiveOf
  <2> QED
    BY <1>3, <2>1, ActiveIsFinite
<1> QED
  BY <1>2, <1>3

\* ... and the others are where they were.
LEMMA SameActive ==
    ASSUME McpTypeOK, NEW s \in Sessions,
           \/ mcpRequest' = mcpRequest
           \/ \E r \in McpRequests, st \in {"none", "admitted", "streaming", "done", "cancelled"} :
                 /\ Stage(r, st)
                 /\ mcpRequest[r].stage \in {"admitted", "streaming"} <=> st \in {"admitted", "streaming"}
    PROVE  ActiveOf(s)' = ActiveOf(s)
<1>1. CASE mcpRequest' = mcpRequest
  BY <1>1 DEF ActiveOf
<1>2. ASSUME NEW r \in McpRequests, NEW st \in {"none", "admitted", "streaming", "done", "cancelled"},
             Stage(r, st),
             mcpRequest[r].stage \in {"admitted", "streaming"} <=> st \in {"admitted", "streaming"}
      PROVE  ActiveOf(s)' = ActiveOf(s)
  <2>1. /\ mcpRequest'[r].stage = st /\ mcpRequest'[r].session = mcpRequest[r].session
        /\ \A q \in McpRequests : q # r => mcpRequest'[q] = mcpRequest[q]
    BY <1>2 DEF McpTypeOK, McpRequestRecord, Stage
  <2> QED
    BY <1>2, <2>1 DEF ActiveOf
<1> QED
  BY <1>1, <1>2

-----------------------------------------------------------------------------
(* Steps of a session.                                                     *)

\* A step of the session s that moves no request, and what it has to show.
SessionMoves(s, rec, i) ==
    /\ session' = [session EXCEPT ![s] = rec] /\ init' = [init EXCEPT ![s] = i]
    /\ UNCHANGED <<mcpRequest, operation, accepting, mcpClosing>>
    /\ rec \in SessionRecord /\ rec.known = rec.open
    /\ i \in {"none", "admitted", "streaming", "done"}
    /\ rec.active + Initializing(s) = session[s].active + (IF i = "streaming" THEN 1 ELSE 0)
    /\ i \in {"none", "admitted"} => init[s] \in {"none", "admitted"} /\ rec = NoSession
    /\ rec.acknowledged => ~rec.initTimer
    /\ mcpClosing \in {"operations", "closed"} => i \notin {"admitted", "streaming"}
    /\ mcpClosing = "closed" => ~rec.known /\ ~rec.initTimer /\ ~rec.idleTimer
    /\ rec.open => session[s].open \/ init[s] = "admitted"
    /\ \A r \in McpRequests :
           /\ mcpRequest[r].session = s /\ mcpRequest[r].stage \in {"admitted", "streaming"}
           /\ rec.acknowledged /\ mcpClosing # "closed"
           => session[s].acknowledged /\ (session[s].known => rec.known)

LEMMA SessionStep ==
    ASSUME McpInv, NEW s \in Sessions, NEW rec, NEW i, SessionMoves(s, rec, i)
    PROVE  McpInv'
<1> USE DEF SessionMoves
<1>0. /\ McpTypeOK /\ GatesOK /\ BusySessionIsKept
      /\ \A t \in Sessions : SessionOK(t)
      /\ \A r \in McpRequests : RequestOK(r)
  BY DEF McpInv
<1>1. McpTypeOK'
  BY <1>0 DEF McpTypeOK
<1>2. GatesOK'
  BY <1>0 DEF GatesOK
<1>3. /\ session'[s] = rec /\ init'[s] = i
      /\ \A t \in Sessions : t # s => session'[t] = session[t] /\ init'[t] = init[t]
  BY <1>0 DEF McpTypeOK
<1>4. ASSUME NEW t \in Sessions PROVE SessionOK(t)'
  <2>1. ActiveOf(t)' = ActiveOf(t)
    BY DEF ActiveOf
  <2>2. Cardinality(ActiveOf(t)) \in Nat
    BY ActiveIsFinite
  <2>3. SessionOK(t)
    BY <1>0
  <2>4. CASE t # s
    BY <1>3, <2>1, <2>3, <2>4 DEF SessionOK, Initializing
  <2>5. CASE t = s
    <3>1. session[s].active \in Nat /\ rec.active \in Nat
      BY <1>0 DEF McpTypeOK, SessionRecord
    <3>2. rec.active = Cardinality(ActiveOf(s)) + (IF i = "streaming" THEN 1 ELSE 0)
      BY <2>2, <2>3, <2>5, <3>1 DEF SessionOK, Initializing
    <3>3. session'[s].active = Cardinality(ActiveOf(s)') + Initializing(s)'
      BY <1>3, <2>1, <2>5, <3>2 DEF Initializing
    <3> QED
      BY <1>3, <2>5, <3>3 DEF SessionOK
  <2> QED
    BY <2>4, <2>5
<1>5. ASSUME NEW r \in McpRequests PROVE RequestOK(r)'
  <2>1. RequestOK(r) /\ mcpRequest[r].session \in Sessions
    BY <1>0 DEF McpTypeOK, McpRequestRecord
  <2>2. CASE mcpRequest[r].session # s
    BY <1>3, <2>1, <2>2 DEF RequestOK
  <2>3. CASE mcpRequest[r].session = s
    BY <1>3, <2>1, <2>3 DEF RequestOK
  <2> QED
    BY <2>2, <2>3
<1>6. BusySessionIsKept'
  <2>1. \A r \in McpRequests : mcpRequest[r].session \in Sessions
    BY <1>0 DEF McpTypeOK, McpRequestRecord
  <2> QED
    BY <1>0, <1>3, <2>1 DEF BusySessionIsKept
<1> QED
  BY <1>1, <1>2, <1>4, <1>5, <1>6 DEF McpInv

\* The last request to finish starts the idle timer of a session that is known.
LEMMA FinishFacts ==
    ASSUME NEW r \in SessionRecord, NEW rec, rec = FinishSessionRequest(r)
    PROVE  /\ rec \in SessionRecord /\ rec.known = r.known /\ rec.open = r.open
           /\ rec.initTimer = r.initTimer /\ rec.acknowledged = r.acknowledged
           /\ rec.idleTimer => r.idleTimer \/ r.known
           /\ r.active > 0 => rec.active = r.active - 1
<1> DEFINE left == IF r.active > 0 THEN r.active - 1 ELSE 0
           idle == r.idleTimer \/ (r.known /\ left = 0)
<1>1. r.active \in Nat /\ left \in Nat /\ idle \in BOOLEAN /\ (r.active > 0 => left = r.active - 1)
  BY DEF SessionRecord
<1>2. idle => r.idleTimer \/ r.known
  OBVIOUS
<1>3. rec = [r EXCEPT !.active = left, !.idleTimer = idle]
  BY DEF FinishSessionRequest
<1> HIDE DEF left, idle
<1> QED
  BY <1>1, <1>2, <1>3 DEF SessionRecord

\* Its initialize request, ...
LEMMA InitializeKept ==
    ASSUME McpInv, NEW s \in Sessions,
           Initialize(s) \/ Initialized(s) \/ InitializeFails(s) \/ InitializeConsumed(s)
    PROVE  McpInv'
<1>0. /\ session[s] \in SessionRecord /\ session[s].active \in Nat /\ SessionOK(s) /\ GatesOK
      /\ session = [session EXCEPT ![s] = session[s]]
      /\ \A r \in McpRequests : RequestOK(r)
  BY DEF McpInv, McpTypeOK, SessionRecord
<1>n. NoSession \in SessionRecord
  BY DEF NoSession, SessionRecord
<1>1. CASE Initialize(s)
  <2>1. SessionMoves(s, session[s], IF accepting.requests THEN "admitted" ELSE "done")
    BY <1>0, <1>1 DEF SessionMoves, Initialize, SessionOK, GatesOK, NoSession, Initializing
  <2> QED
    BY <2>1, SessionStep
<1>2. CASE Initialized(s)
  <2> DEFINE rec == [NoSession EXCEPT !.known = TRUE, !.open = TRUE, !.active = 1, !.initTimer = TRUE]
  <2>1. /\ rec \in SessionRecord /\ rec.known = TRUE /\ rec.open = TRUE /\ rec.active = 1
        /\ rec.acknowledged = FALSE
    BY DEF NoSession, SessionRecord
  <2>2. session' = [session EXCEPT ![s] = rec] /\ init' = [init EXCEPT ![s] = "streaming"]
        /\ init[s] = "admitted" /\ UNCHANGED <<mcpRequest, operation, accepting, mcpClosing>>
    BY <1>2 DEF Initialized
  <2>3. session[s].active = 0 /\ Initializing(s) = 0 /\ mcpClosing \notin {"operations", "closed"}
    BY <1>0, <2>2 DEF SessionOK, NoSession, Initializing
  <2> HIDE DEF rec
  <2>4. rec.active + Initializing(s)
          = session[s].active + (IF "streaming" = "streaming" THEN 1 ELSE 0)
    BY <2>1, <2>3
  <2>5. SessionMoves(s, rec, "streaming")
    BY <2>1, <2>2, <2>3, <2>4, ZenonT(30) DEF SessionMoves
  <2> QED
    BY <2>5, SessionStep
<1>3. CASE InitializeFails(s)
  <2>1. SessionMoves(s, session[s], "done")
    BY <1>0, <1>3 DEF SessionMoves, InitializeFails, SessionOK, Initializing
  <2> QED
    BY <2>1, SessionStep
<1>4. CASE InitializeConsumed(s)
  <2> DEFINE rec == FinishSessionRequest(session[s])
  <2>0. Cardinality(ActiveOf(s)) \in Nat
    BY ActiveIsFinite
  <2>1. init[s] = "streaming" /\ session[s].active > 0 /\ Initializing(s) = 1
    BY <1>0, <1>4, <2>0 DEF InitializeConsumed, SessionOK, Initializing
  <2>2. /\ rec \in SessionRecord /\ rec.active = session[s].active - 1
        /\ rec.known = session[s].known /\ rec.open = session[s].open
        /\ rec.initTimer = session[s].initTimer /\ rec.acknowledged = session[s].acknowledged
        /\ rec.idleTimer => session[s].idleTimer \/ session[s].known
    BY <1>0, <2>1, FinishFacts
  <2>3. session' = [session EXCEPT ![s] = rec] /\ init' = [init EXCEPT ![s] = "done"]
        /\ UNCHANGED <<mcpRequest, operation, accepting, mcpClosing>>
    BY <1>4 DEF InitializeConsumed
  <2> HIDE DEF rec
  <2>4. SessionMoves(s, rec, "done")
    BY <1>0, <2>1, <2>2, <2>3 DEF SessionMoves, SessionOK
  <2> QED
    BY <2>4, SessionStep
<1> QED
  BY <1>1, <1>2, <1>3, <1>4

\* ... and its timers: the idle timer ends no session whose requests are followed.
LEMMA TimersKept ==
    ASSUME McpInv, NEW s \in Sessions, InitializationTimerFires(s) \/ IdleTimerFires(s)
    PROVE  McpInv'
<1>0. /\ session[s] \in SessionRecord /\ session[s].active \in Nat /\ SessionOK(s)
      /\ init[s] \in {"none", "admitted", "streaming", "done"}
      /\ init = [init EXCEPT ![s] = init[s]]
      /\ Initializing(s) = IF init[s] = "streaming" THEN 1 ELSE 0
  BY DEF McpInv, McpTypeOK, SessionRecord, Initializing
<1>1. session[s].initTimer \/ session[s].idleTimer => init[s] \notin {"none", "admitted"}
  BY <1>0 DEF SessionOK, NoSession
<1>2. CASE InitializationTimerFires(s)
  <2> DEFINE rec == IF session[s].known
                    THEN [session[s] EXCEPT !.known = FALSE, !.open = FALSE, !.initTimer = FALSE]
                    ELSE [session[s] EXCEPT !.initTimer = FALSE]
  <2>1. /\ rec \in SessionRecord /\ rec.known = FALSE /\ rec.open = FALSE /\ rec.initTimer = FALSE
        /\ rec.active = session[s].active /\ rec.acknowledged = session[s].acknowledged
    <3>1. session[s].known = session[s].open /\ session[s].known \in BOOLEAN
      BY <1>0 DEF SessionRecord, SessionOK
    <3>2. CASE session[s].known = TRUE
      BY <1>0, <3>2 DEF SessionRecord
    <3>3. CASE session[s].known = FALSE
      BY <1>0, <3>1, <3>3 DEF SessionRecord
    <3> QED
      BY <3>1, <3>2, <3>3
  <2>s. session' = [session EXCEPT ![s] = rec]
    BY <1>2 DEF InitializationTimerFires
  <2> HIDE DEF rec
  <2>2. ~session[s].acknowledged /\ mcpClosing # "closed" /\ session[s].initTimer
    BY <1>0, <1>2 DEF InitializationTimerFires, SessionOK
  <2>3. init' = init /\ UNCHANGED <<mcpRequest, operation, accepting, mcpClosing>>
    BY <1>2 DEF InitializationTimerFires
  <2>4. SessionMoves(s, rec, init[s])
    BY <1>0, <1>1, <2>1, <2>s, <2>2, <2>3 DEF SessionMoves, SessionOK
  <2> QED
    BY <2>4, SessionStep
<1>3. CASE IdleTimerFires(s)
  <2> DEFINE rec == IF session[s].known /\ session[s].active = 0
                    THEN [session[s] EXCEPT !.known = FALSE, !.open = FALSE, !.idleTimer = FALSE]
                    ELSE [session[s] EXCEPT !.idleTimer = FALSE]
  <2>1. /\ rec \in SessionRecord /\ rec.known = rec.open /\ rec.idleTimer = FALSE
        /\ rec.active = session[s].active /\ rec.initTimer = session[s].initTimer
        /\ rec.acknowledged = session[s].acknowledged
        /\ rec.known => session[s].known
        /\ session[s].known /\ session[s].active # 0 => rec.known
    <3>1. session[s].known = session[s].open /\ session[s].known \in BOOLEAN
      BY <1>0 DEF SessionRecord, SessionOK
    <3>2. CASE session[s].known = TRUE /\ session[s].active = 0
      BY <1>0, <3>2 DEF SessionRecord
    <3>3. CASE ~(session[s].known /\ session[s].active = 0)
      BY <1>0, <3>1, <3>3 DEF SessionRecord
    <3> QED
      BY <3>1, <3>2, <3>3
  <2>s. session' = [session EXCEPT ![s] = rec]
    BY <1>3 DEF IdleTimerFires
  <2> HIDE DEF rec
  <2>2. session[s].idleTimer /\ mcpClosing # "closed"
    BY <1>0, <1>3 DEF IdleTimerFires, SessionOK
  <2>3. init' = init /\ UNCHANGED <<mcpRequest, operation, accepting, mcpClosing>>
    BY <1>3 DEF IdleTimerFires
  <2>4. ASSUME NEW r \in McpRequests, mcpRequest[r].session = s,
               mcpRequest[r].stage \in {"admitted", "streaming"}
        PROVE  session[s].active # 0
    <3>1. r \in ActiveOf(s)
      BY <2>4 DEF ActiveOf
    <3>2. Cardinality(ActiveOf(s)) # 0 /\ Cardinality(ActiveOf(s)) \in Nat
      BY <3>1, ActiveIsFinite, FS_EmptySet
    <3> QED
      BY <1>0, <3>2 DEF SessionOK
  <2>5. SessionMoves(s, rec, init[s])
    BY <1>0, <1>1, <2>1, <2>s, <2>2, <2>3, <2>4 DEF SessionMoves, SessionOK
  <2> QED
    BY <2>5, SessionStep
<1> QED
  BY <1>2, <1>3

-----------------------------------------------------------------------------
(* Steps of a request.                                                     *)

\* The session counts the request while its client follows it.
Counted(r, st, rec) ==
    rec.active + (IF mcpRequest[r].stage \in {"admitted", "streaming"} THEN 1 ELSE 0)
      = session[mcpRequest[r].session].active + (IF st \in {"admitted", "streaming"} THEN 1 ELSE 0)

\* A step that moves the request r to st, changes its session to rec and what its
\* tool does to op, ...
MovesTo(r, st, rec, op) ==
    /\ Stage(r, st) /\ session' = [session EXCEPT ![mcpRequest[r].session] = rec]
    /\ operation' = [operation EXCEPT ![r] = op]
    /\ UNCHANGED <<init, accepting, mcpClosing>>
    /\ st \in {"none", "admitted", "streaming", "done", "cancelled"}
    /\ op \in {"none", "queued", "running", "settled", "over", "refused"}
    /\ rec \in SessionRecord

\* ... and what it has to show: of the session, ...
SessionFits(r, rec) ==
    LET s == mcpRequest[r].session IN
    /\ rec.known = rec.open
    /\ init[s] \in {"none", "admitted"} => rec = NoSession
    /\ rec.acknowledged => ~rec.initTimer
    /\ mcpClosing = "closed" => ~rec.known /\ ~rec.initTimer /\ ~rec.idleTimer
    /\ rec.open => session[s].open

\* ... of the request itself, ...
RequestFits(r, st, rec, op) ==
    LET s == mcpRequest[r].session IN
    /\ init[s] \in {"none", "admitted"} => op = "none" /\ st \in {"none", "done"}
    /\ op # "none" => mcpRequest[r].kind = "call" /\ st \in {"streaming", "done", "cancelled"}
    /\ op \in {"queued", "running", "refused"} /\ st = "done" => ~rec.open
    /\ op = "refused" => st \in {"done", "cancelled"}
    /\ mcpClosing \in {"operations", "closed"} /\ mcpRequest[r].kind \in Posts =>
         st \notin {"admitted", "streaming"}
    /\ mcpClosing = "closed" => op # "running"

\* ... and of the other requests of the session.
OthersFit(r, st, rec) ==
    LET s == mcpRequest[r].session IN
    /\ st \in {"admitted", "streaming"} =>
         mcpRequest[r].stage \in {"admitted", "streaming"} \/ rec.known
    /\ ~rec.known => ~session[s].known \/ (mcpRequest[r].kind = "delete" /\ st = "done")
    /\ mcpRequest[r].stage = "done" => st = "done"
    /\ rec.acknowledged => session[s].acknowledged \/ rec.known

LEMMA RequestStep ==
    ASSUME McpInv, NEW r \in McpRequests, NEW st, NEW rec, NEW op, MovesTo(r, st, rec, op),
           Counted(r, st, rec), SessionFits(r, rec), RequestFits(r, st, rec, op), OthersFit(r, st, rec)
    PROVE  McpInv'
<1> DEFINE s == mcpRequest[r].session
<1>0. /\ McpTypeOK /\ GatesOK /\ BusySessionIsKept
      /\ \A t \in Sessions : SessionOK(t)
      /\ \A q \in McpRequests : RequestOK(q)
  BY DEF McpInv
<1>s. s \in Sessions /\ \A q \in McpRequests : mcpRequest[q].session \in Sessions
  BY <1>0 DEF McpTypeOK, McpRequestRecord
<1>1. McpTypeOK'
  <2>1. /\ Stage(r, st) /\ session' = [session EXCEPT ![s] = rec]
        /\ operation' = [operation EXCEPT ![r] = op]
        /\ UNCHANGED <<init, accepting, mcpClosing>>
        /\ st \in {"none", "admitted", "streaming", "done", "cancelled"}
        /\ op \in {"none", "queued", "running", "settled", "over", "refused"}
        /\ rec \in SessionRecord
    BY DEF MovesTo
  <2>2. mcpRequest' \in [McpRequests -> McpRequestRecord]
    BY <1>0, <2>1 DEF Stage, McpTypeOK, McpRequestRecord
  <2> QED
    BY <1>0, <1>s, <2>1, <2>2 DEF McpTypeOK
<1>2. GatesOK'
  BY <1>0 DEF GatesOK, MovesTo
<1>3. /\ session'[s] = rec
      /\ \A t \in Sessions : t # s => session'[t] = session[t]
      /\ mcpRequest'[r].stage = st /\ operation'[r] = op
      /\ mcpRequest'[r].kind = mcpRequest[r].kind /\ mcpRequest'[r].session = s
      /\ \A q \in McpRequests : q # r => mcpRequest'[q] = mcpRequest[q] /\ operation'[q] = operation[q]
      /\ init' = init /\ mcpClosing' = mcpClosing
  BY <1>0, <1>s DEF MovesTo, McpTypeOK, McpRequestRecord, Stage
<1>4. ASSUME NEW t \in Sessions PROVE SessionOK(t)'
  <2> DEFINE wasActive == mcpRequest[r].stage \in {"admitted", "streaming"}
             isActive == st \in {"admitted", "streaming"}
  <2>0. SessionOK(t) /\ Stage(r, st) /\ st \in {"none", "admitted", "streaming", "done", "cancelled"}
        /\ Cardinality(ActiveOf(t)) \in Nat /\ Cardinality(ActiveOf(t)') \in Nat
    <3>1. IsFiniteSet(ActiveOf(t)')
      BY McpBounds, FS_Subset DEF ActiveOf
    <3> QED
      BY <1>0, <3>1, ActiveIsFinite, FS_CardinalityType DEF MovesTo
  <2>1. Cardinality(ActiveOf(t)') + (IF t = s /\ wasActive THEN 1 ELSE 0)
          = Cardinality(ActiveOf(t)) + (IF t = s /\ isActive THEN 1 ELSE 0)
    <3>1. CASE ~wasActive /\ isActive
      BY <1>0, <2>0, <3>1, OneMoreActive
    <3>2. CASE wasActive /\ ~isActive
      BY <1>0, <2>0, <3>2, OneLessActive
    <3>3. CASE wasActive <=> isActive
      <4>1. ActiveOf(t)' = ActiveOf(t)
        BY <1>0, <2>0, <3>3, SameActive
      <4> QED
        BY <2>0, <3>3, <4>1
    <3> QED
      BY <3>1, <3>2, <3>3
  <2>2. Initializing(t)' = Initializing(t) /\ Initializing(t) \in Nat
    BY <1>3 DEF Initializing
  <2>3. CASE t # s
    BY <1>3, <2>0, <2>1, <2>2, <2>3 DEF SessionOK
  <2>4. CASE t = s
    <3>1. session[t].active \in Nat /\ rec.active \in Nat
          /\ rec.active + (IF wasActive THEN 1 ELSE 0) = session[t].active + (IF isActive THEN 1 ELSE 0)
      BY <1>0, <1>s, <2>4 DEF McpTypeOK, SessionRecord, MovesTo, Counted
    <3>2. session[t].active = Cardinality(ActiveOf(t)) + Initializing(t)
      BY <2>0 DEF SessionOK
    <3>3. PICK before \in Nat, after \in Nat :
              before = Cardinality(ActiveOf(t)) /\ after = Cardinality(ActiveOf(t)')
      BY <2>0
    <3>4. after + (IF wasActive THEN 1 ELSE 0) = before + (IF isActive THEN 1 ELSE 0)
      BY <2>1, <2>4, <3>3
    <3>5. rec.active = after + Initializing(t)
      BY <2>2, <3>1, <3>2, <3>3, <3>4
    <3>6. session'[t].active = Cardinality(ActiveOf(t)') + Initializing(t)'
      BY <1>3, <2>2, <2>4, <3>3, <3>5
    <3> QED
      BY <1>3, <2>0, <2>4, <3>6 DEF SessionOK, SessionFits
  <2> QED
    BY <2>3, <2>4
<1>5. ASSUME NEW q \in McpRequests PROVE RequestOK(q)'
  <2>1. RequestOK(q) /\ mcpRequest[q].session \in Sessions
    BY <1>0, <1>s
  <2>2. CASE q = r
    BY <1>3, <2>2 DEF RequestOK, RequestFits
  <2>3. CASE q # r /\ mcpRequest[q].session # s
    BY <1>3, <2>1, <2>3 DEF RequestOK
  <2>4. CASE q # r /\ mcpRequest[q].session = s
    BY <1>3, <2>1, <2>4 DEF RequestOK, SessionFits
  <2> QED
    BY <2>2, <2>3, <2>4
<1>6. BusySessionIsKept'
  <2>1. SUFFICES ASSUME NEW q \in McpRequests,
                        mcpRequest'[q].stage \in {"admitted", "streaming"},
                        session'[mcpRequest'[q].session].acknowledged, mcpClosing' # "closed",
                        ~\E d \in McpRequests :
                            /\ mcpRequest'[d].kind = "delete"
                            /\ mcpRequest'[d].session = mcpRequest'[q].session
                            /\ mcpRequest'[d].stage = "done"
                 PROVE  session'[mcpRequest'[q].session].known
    BY DEF BusySessionIsKept
  <2>2. mcpRequest'[q].session = mcpRequest[q].session
    BY <1>3
  <2>3. ~\E d \in McpRequests : /\ mcpRequest[d].kind = "delete"
                                /\ mcpRequest[d].session = mcpRequest[q].session
                                /\ mcpRequest[d].stage = "done"
    BY <1>3, <2>1, <2>2 DEF OthersFit
  <2>4. CASE mcpRequest[q].session # s
    BY <1>0, <1>s, <1>3, <2>1, <2>2, <2>3, <2>4 DEF BusySessionIsKept
  <2>5. CASE mcpRequest[q].session = s
    <3>1. CASE rec.known
      BY <1>3, <2>2, <2>5, <3>1
    <3>2. CASE ~rec.known
      <4>1. mcpRequest[q].stage \in {"admitted", "streaming"}
        BY <1>3, <2>1, <3>2 DEF OthersFit
      <4>2. rec.acknowledged
        BY <1>3, <2>1, <2>2, <2>5
      <4>3. session[s].acknowledged
        BY <2>5, <3>2, <4>1, <4>2 DEF OthersFit
      <4>4. session[s].known
        BY <1>0, <1>3, <2>1, <2>3, <2>5, <4>1, <4>3 DEF BusySessionIsKept
      <4>5. mcpRequest[r].kind = "delete" /\ st = "done"
        BY <3>2, <4>4 DEF OthersFit
      <4> QED
        BY <1>3, <2>1, <2>2, <2>5, <4>5
    <3> QED
      BY <3>1, <3>2
  <2> QED
    BY <2>4, <2>5
<1> QED
  BY <1>1, <1>2, <1>4, <1>5, <1>6 DEF McpInv

\* A request that comes, is dispatched, is answered or is given up.
LEMMA RequestsKept ==
    ASSUME McpInv, NEW r \in McpRequests,
           \/ HandleRequest(r) \/ DispatchCall(r) \/ DispatchAck(r) \/ DispatchDelete(r)
           \/ DispatchStream(r) \/ BodyConsumed(r) \/ ClientCancels(r)
    PROVE  McpInv'
<1> DEFINE s == mcpRequest[r].session
<1>0. /\ s \in Sessions /\ session[s] \in SessionRecord /\ session[s].active \in Nat
      /\ SessionOK(s) /\ RequestOK(r) /\ GatesOK
      /\ operation[r] \in {"none", "queued", "running", "settled", "over", "refused"}
      /\ mcpRequest[r].stage \in {"none", "admitted", "streaming", "done", "cancelled"}
      /\ session = [session EXCEPT ![s] = session[s]]
      /\ operation = [operation EXCEPT ![r] = operation[r]]
  BY DEF McpInv, McpTypeOK, SessionRecord, McpRequestRecord
<1>a. mcpRequest[r].stage \in {"admitted", "streaming"} =>
        session[s].active > 0 /\ init[s] \notin {"none", "admitted"}
  <2>1. SUFFICES ASSUME mcpRequest[r].stage \in {"admitted", "streaming"}
                 PROVE  session[s].active > 0 /\ init[s] \notin {"none", "admitted"}
    OBVIOUS
  <2>2. r \in ActiveOf(s)
    BY <2>1 DEF ActiveOf
  <2>3. Cardinality(ActiveOf(s)) # 0 /\ Cardinality(ActiveOf(s)) \in Nat
    BY <2>2, ActiveIsFinite, FS_EmptySet
  <2>4. Initializing(s) \in Nat
    BY DEF Initializing
  <2> QED
    BY <1>0, <2>1, <2>3, <2>4 DEF SessionOK, RequestOK
\* A request that ends.
<1>f. ASSUME mcpRequest[r].stage \in {"admitted", "streaming"}, NEW st \in {"done", "cancelled"},
             Stage(r, st), session' = [session EXCEPT ![s] = FinishSessionRequest(session[s])],
             operation' = operation, UNCHANGED <<init, accepting, mcpClosing>>,
             st = "done" => ~session[s].open \/ operation[r] \in {"settled", "over"}
                            \/ operation[r] = "none"
      PROVE  McpInv'
  <2> DEFINE rec == FinishSessionRequest(session[s])
  <2>1. /\ rec \in SessionRecord /\ rec.known = session[s].known /\ rec.open = session[s].open
        /\ rec.initTimer = session[s].initTimer /\ rec.acknowledged = session[s].acknowledged
        /\ rec.idleTimer => session[s].idleTimer \/ session[s].known
        /\ rec.active = session[s].active - 1
    BY <1>0, <1>a, <1>f, FinishFacts
  <2>2. session' = [session EXCEPT ![s] = rec]
    BY <1>f
  <2> HIDE DEF rec
  <2>3. Counted(r, st, rec)
    BY <1>0, <1>a, <1>f, <2>1 DEF Counted
  <2>4. MovesTo(r, st, rec, operation[r])
    BY <1>0, <1>a, <1>f, <2>1, <2>2, <2>3 DEF MovesTo
  <2>5. SessionFits(r, rec)
    BY <1>0, <1>a, <1>f, <2>1, <2>2, <2>3 DEF SessionFits, SessionOK
  <2>6. RequestFits(r, st, rec, operation[r])
    BY <1>0, <1>a, <1>f, <2>1, <2>2, <2>3 DEF RequestFits, RequestOK, Posts
  <2>7. OthersFit(r, st, rec)
    BY <1>0, <1>a, <1>f, <2>1, <2>2, <2>3 DEF OthersFit
  <2> QED
    BY <2>3, <2>4, <2>5, <2>6, <2>7, RequestStep
<1>1. CASE HandleRequest(r)
  <2>1. mcpRequest[r].stage = "none" /\ UNCHANGED <<init, operation, accepting, mcpClosing>>
        /\ operation[r] = "none"
    BY <1>0, <1>1 DEF HandleRequest, RequestOK
  <2>2. CASE accepting.requests /\ session[s].known
    <3> DEFINE rec == TrackSessionRequest(session[s])
    <3>1. /\ rec \in SessionRecord /\ rec.known = session[s].known /\ rec.open = session[s].open
          /\ rec.initTimer = session[s].initTimer /\ rec.acknowledged = session[s].acknowledged
          /\ rec.idleTimer = FALSE /\ rec.active = session[s].active + 1
      <4>1. PICK n \in Nat : n = session[s].active + 1
        BY <1>0
      <4>2. rec = [session[s] EXCEPT !.idleTimer = FALSE, !.active = n]
        BY <4>1 DEF TrackSessionRequest
      <4> HIDE DEF rec
      <4> QED
        BY <1>0, <4>1, <4>2 DEF SessionRecord
    <3>2. session' = [session EXCEPT ![s] = rec] /\ Stage(r, "admitted")
      BY <1>1, <2>2 DEF HandleRequest
    <3>3. mcpClosing = "no" /\ init[s] \notin {"none", "admitted"}
      BY <1>0, <2>2 DEF GatesOK, SessionOK, NoSession
    <3> HIDE DEF rec
    <3>4. Counted(r, "admitted", rec)
      BY <1>0, <2>1, <3>1 DEF Counted
    <3>5. MovesTo(r, "admitted", rec, "none")
      BY <1>0, <2>1, <2>2, <3>1, <3>2, <3>3, <3>4 DEF MovesTo
    <3>6. SessionFits(r, rec)
      BY <1>0, <2>1, <2>2, <3>1, <3>2, <3>3, <3>4 DEF SessionFits, SessionOK
    <3>7. RequestFits(r, "admitted", rec, "none")
      BY <1>0, <2>1, <2>2, <3>1, <3>2, <3>3, <3>4 DEF RequestFits, RequestOK, Posts
    <3>8. OthersFit(r, "admitted", rec)
      BY <1>0, <2>1, <2>2, <3>1, <3>2, <3>3, <3>4 DEF OthersFit
    <3> QED
      BY <3>4, <3>5, <3>6, <3>7, <3>8, RequestStep
  <2>3. CASE ~(accepting.requests /\ session[s].known)
    <3>1. session' = session /\ Stage(r, "done")
      BY <1>1, <2>3 DEF HandleRequest
    <3>2. Counted(r, "done", session[s])
      BY <1>0, <2>1 DEF Counted
    <3>3. MovesTo(r, "done", session[s], "none")
      BY <1>0, <2>1, <3>1, <3>2 DEF MovesTo
    <3>4. SessionFits(r, session[s])
      BY <1>0, <2>1, <3>1, <3>2 DEF SessionFits, SessionOK
    <3>5. RequestFits(r, "done", session[s], "none")
      BY <1>0, <2>1, <3>1, <3>2 DEF RequestFits, RequestOK, Posts
    <3>6. OthersFit(r, "done", session[s])
      BY <1>0, <2>1, <3>1, <3>2 DEF OthersFit
    <3> QED
      BY <3>2, <3>3, <3>4, <3>5, <3>6, RequestStep
  <2> QED
    BY <2>2, <2>3
<1>2. CASE DispatchCall(r)
  <2>1. mcpRequest[r].stage = "admitted" /\ mcpRequest[r].kind = "call" /\ operation[r] = "none"
        /\ UNCHANGED <<init, accepting, mcpClosing>>
    BY <1>0, <1>2 DEF DispatchCall, RequestOK
  <2>2. CASE Stage(r, "streaming") /\ operation' = [operation EXCEPT ![r] = "queued"] /\ session' = session
    <3>1. Counted(r, "streaming", session[s])
      BY <1>0, <2>1 DEF Counted
    <3>2. MovesTo(r, "streaming", session[s], "queued")
      BY <1>0, <1>a, <2>1, <2>2, <3>1 DEF MovesTo
    <3>3. SessionFits(r, session[s])
      BY <1>0, <1>a, <2>1, <2>2, <3>1 DEF SessionFits, SessionOK
    <3>4. RequestFits(r, "streaming", session[s], "queued")
      BY <1>0, <1>a, <2>1, <2>2, <3>1 DEF RequestFits, RequestOK, Posts
    <3>5. OthersFit(r, "streaming", session[s])
      BY <1>0, <1>a, <2>1, <2>2, <3>1 DEF OthersFit
    <3> QED
      BY <3>1, <3>2, <3>3, <3>4, <3>5, RequestStep
  <2>3. CASE /\ Stage(r, "done") /\ operation' = operation
             /\ session' = [session EXCEPT ![s] = FinishSessionRequest(session[s])]
    BY <1>f, <2>1, <2>3
  <2> QED
    BY <1>2, <2>2, <2>3 DEF DispatchCall
<1>3. CASE DispatchAck(r)
  <2>1. mcpRequest[r].stage = "admitted" /\ mcpRequest[r].kind = "ack" /\ operation[r] = "none"
        /\ UNCHANGED <<init, operation, accepting, mcpClosing>> /\ Stage(r, "done")
    BY <1>0, <1>3 DEF DispatchAck, RequestOK
  <2>2. CASE session[s].open
    <3> DEFINE mid == [session[s] EXCEPT !.initTimer = FALSE, !.acknowledged = TRUE]
               rec == FinishSessionRequest(mid)
    <3>1. /\ mid \in SessionRecord /\ mid.known = session[s].known /\ mid.open = session[s].open
          /\ mid.initTimer = FALSE /\ mid.acknowledged = TRUE
          /\ mid.idleTimer = session[s].idleTimer /\ mid.active = session[s].active
      BY <1>0 DEF SessionRecord
    <3>2. session' = [session EXCEPT ![s] = rec]
      BY <1>3, <2>2 DEF DispatchAck
    <3> HIDE DEF mid
    <3>3. /\ rec \in SessionRecord /\ rec.known = session[s].known /\ rec.open = session[s].open
          /\ rec.initTimer = FALSE /\ rec.acknowledged = TRUE
          /\ rec.idleTimer => session[s].idleTimer \/ session[s].known
          /\ rec.active = session[s].active - 1
      BY <1>a, <2>1, <3>1, FinishFacts
    <3> HIDE DEF rec
    <3>4. session[s].known
      BY <1>0, <2>2 DEF SessionOK
    <3>5. Counted(r, "done", rec)
      BY <1>0, <1>a, <2>1, <3>3 DEF Counted
    <3>6. MovesTo(r, "done", rec, "none")
      BY <1>0, <1>a, <2>1, <2>2, <3>2, <3>3, <3>4, <3>5 DEF MovesTo
    <3>7. SessionFits(r, rec)
      BY <1>0, <1>a, <2>1, <2>2, <3>2, <3>3, <3>4, <3>5 DEF SessionFits, SessionOK
    <3>8. RequestFits(r, "done", rec, "none")
      BY <1>0, <1>a, <2>1, <2>2, <3>2, <3>3, <3>4, <3>5 DEF RequestFits, RequestOK, Posts
    <3>9. OthersFit(r, "done", rec)
      BY <1>0, <1>a, <2>1, <2>2, <3>2, <3>3, <3>4, <3>5 DEF OthersFit
    <3> QED
      BY <3>5, <3>6, <3>7, <3>8, <3>9, RequestStep
  <2>3. CASE ~session[s].open
    <3>1. session' = [session EXCEPT ![s] = FinishSessionRequest(session[s])]
      BY <1>3, <2>3 DEF DispatchAck
    <3> QED
      BY <1>f, <2>1, <2>3, <3>1
  <2> QED
    BY <2>2, <2>3
<1>4. CASE DispatchDelete(r)
  <2>1. mcpRequest[r].stage = "admitted" /\ mcpRequest[r].kind = "delete" /\ operation[r] = "none"
        /\ UNCHANGED <<init, operation, accepting, mcpClosing>> /\ Stage(r, "done")
    BY <1>0, <1>4 DEF DispatchDelete, RequestOK
  <2> DEFINE mid == OnClose(session[s])
             rec == FinishSessionRequest(mid)
  <2>2. /\ mid \in SessionRecord /\ mid.known = FALSE /\ mid.open = FALSE /\ mid.initTimer = FALSE
        /\ mid.idleTimer = FALSE /\ mid.acknowledged = session[s].acknowledged
        /\ mid.active = session[s].active
    BY <1>0 DEF OnClose, SessionRecord
  <2>3. session' = [session EXCEPT ![s] = rec]
    BY <1>4 DEF DispatchDelete
  <2> HIDE DEF mid
  <2>4. /\ rec \in SessionRecord /\ rec.known = FALSE /\ rec.open = FALSE /\ rec.initTimer = FALSE
        /\ ~rec.idleTimer /\ rec.acknowledged = session[s].acknowledged
        /\ rec.active = session[s].active - 1
    BY <1>a, <2>1, <2>2, FinishFacts
  <2> HIDE DEF rec
  <2>5. Counted(r, "done", rec)
    BY <1>0, <1>a, <2>1, <2>4 DEF Counted
  <2>6. MovesTo(r, "done", rec, "none")
    BY <1>0, <1>a, <2>1, <2>3, <2>4, <2>5 DEF MovesTo
  <2>7. SessionFits(r, rec)
    BY <1>0, <1>a, <2>1, <2>3, <2>4, <2>5 DEF SessionFits, SessionOK
  <2>8. RequestFits(r, "done", rec, "none")
    BY <1>0, <1>a, <2>1, <2>3, <2>4, <2>5 DEF RequestFits, RequestOK, Posts
  <2>9. OthersFit(r, "done", rec)
    BY <1>0, <1>a, <2>1, <2>3, <2>4, <2>5 DEF OthersFit
  <2> QED
    BY <2>5, <2>6, <2>7, <2>8, <2>9, RequestStep
<1>5. CASE DispatchStream(r)
  <2>1. mcpRequest[r].stage = "admitted" /\ mcpRequest[r].kind = "stream" /\ operation[r] = "none"
        /\ UNCHANGED <<session, init, operation, accepting, mcpClosing>> /\ Stage(r, "streaming")
    BY <1>0, <1>5 DEF DispatchStream, RequestOK
  <2>2. Counted(r, "streaming", session[s])
    BY <1>0, <2>1 DEF Counted
  <2>3. MovesTo(r, "streaming", session[s], "none")
    BY <1>0, <1>a, <2>1, <2>2 DEF MovesTo
  <2>4. SessionFits(r, session[s])
    BY <1>0, <1>a, <2>1, <2>2 DEF SessionFits, SessionOK
  <2>5. RequestFits(r, "streaming", session[s], "none")
    BY <1>0, <1>a, <2>1, <2>2 DEF RequestFits, RequestOK, Posts
  <2>6. OthersFit(r, "streaming", session[s])
    BY <1>0, <1>a, <2>1, <2>2 DEF OthersFit
  <2> QED
    BY <2>2, <2>3, <2>4, <2>5, <2>6, RequestStep
<1>6. CASE BodyConsumed(r)
  <2>1. ~(operation[r] = "refused" /\ mcpRequest[r].stage = "streaming")
    BY <1>0 DEF RequestOK
  <2> QED
    BY <1>f, <1>6, <2>1 DEF BodyConsumed
<1>7. CASE ClientCancels(r)
  BY <1>f, <1>7 DEF ClientCancels
<1> QED
  BY <1>1, <1>2, <1>3, <1>4, <1>5, <1>6, <1>7

\* A tool that starts, is refused, settles or is over.
LEMMA OperationsKept ==
    ASSUME McpInv, NEW r \in McpRequests,
           StartOperation(r) \/ OperationSettles(r) \/ OperationOver(r)
    PROVE  McpInv'
<1>0. /\ McpTypeOK /\ GatesOK /\ BusySessionIsKept /\ RequestOK(r)
      /\ \A t \in Sessions : SessionOK(t)
      /\ \A q \in McpRequests : RequestOK(q)
  BY DEF McpInv
<1>1. PICK op \in {"running", "refused", "settled", "over"} :
          /\ operation' = [operation EXCEPT ![r] = op]
          /\ UNCHANGED <<session, init, mcpRequest, accepting, mcpClosing>>
          /\ operation[r] # "none"
          /\ op = "running" => operation[r] = "queued" /\ mcpClosing \notin {"operations", "closed"}
          /\ op = "refused" => operation[r] = "queued" /\ mcpClosing \in {"operations", "closed"}
  BY <1>0 DEF StartOperation, OperationSettles, OperationOver, GatesOK, McpTypeOK
<1>2. operation'[r] = op /\ \A q \in McpRequests : q # r => operation'[q] = operation[q]
  BY <1>0, <1>1 DEF McpTypeOK
<1>3. McpTypeOK' /\ GatesOK' /\ BusySessionIsKept'
  BY <1>0, <1>1 DEF McpTypeOK, GatesOK, BusySessionIsKept
<1>4. ASSUME NEW t \in Sessions PROVE SessionOK(t)'
  <2>1. ActiveOf(t)' = ActiveOf(t)
    BY <1>1 DEF ActiveOf
  <2> QED
    BY <1>0, <1>1, <2>1 DEF SessionOK, Initializing
<1>5. ASSUME NEW q \in McpRequests PROVE RequestOK(q)'
  <2>1. CASE q # r
    BY <1>0, <1>1, <1>2, <2>1 DEF RequestOK
  <2>2. CASE q = r
    BY <1>0, <1>1, <1>2, <2>2 DEF RequestOK, Posts
  <2> QED
    BY <2>1, <2>2
<1> QED
  BY <1>3, <1>4, <1>5 DEF McpInv

\* close(): what was admitted is drained before its tools are, and these before the
\* sessions end.
LEMMA CloseKept ==
    ASSUME McpInv, CloseEndpoint \/ RequestsDrained \/ OperationsDrained
    PROVE  McpInv'
<1>0. /\ McpTypeOK /\ GatesOK /\ BusySessionIsKept
      /\ \A t \in Sessions : SessionOK(t)
      /\ \A q \in McpRequests : RequestOK(q)
  BY DEF McpInv
<1>a. ASSUME NEW t, UNCHANGED <<mcpRequest, init>>
      PROVE  ActiveOf(t)' = ActiveOf(t) /\ Initializing(t)' = Initializing(t)
  BY <1>a DEF ActiveOf, Initializing
<1>1. CASE CloseEndpoint
  <2>1. McpTypeOK' /\ GatesOK' /\ BusySessionIsKept'
    BY <1>0, <1>1 DEF CloseEndpoint, McpTypeOK, GatesOK, BusySessionIsKept
  <2>2. \A t \in Sessions : SessionOK(t)'
    BY <1>0, <1>a, <1>1 DEF CloseEndpoint, SessionOK
  <2>3. \A q \in McpRequests : RequestOK(q)'
    BY <1>0, <1>1 DEF CloseEndpoint, RequestOK
  <2> QED
    BY <2>1, <2>2, <2>3 DEF McpInv
<1>2. CASE RequestsDrained
  <2>1. McpTypeOK' /\ GatesOK' /\ BusySessionIsKept'
    BY <1>0, <1>2 DEF RequestsDrained, McpTypeOK, GatesOK, BusySessionIsKept
  <2>2. \A t \in Sessions : SessionOK(t)'
    BY <1>0, <1>a, <1>2 DEF RequestsDrained, SessionOK, ActiveInitializes
  <2>3. \A q \in McpRequests : RequestOK(q)'
    BY <1>0, <1>2 DEF RequestsDrained, RequestOK, ActiveHttpRequests
  <2> QED
    BY <2>1, <2>2, <2>3 DEF McpInv
<1>3. CASE OperationsDrained
  <2>0. /\ mcpClosing = "operations" /\ mcpClosing' = "closed" /\ ActiveOperations = {}
        /\ session' = [t \in Sessions |-> OnClose(session[t])]
        /\ UNCHANGED <<init, mcpRequest, operation, accepting>>
    BY <1>3 DEF OperationsDrained
  <2>1. ASSUME NEW t \in Sessions
        PROVE  /\ session'[t] \in SessionRecord /\ session'[t].known = FALSE /\ session'[t].open = FALSE
               /\ session'[t].initTimer = FALSE /\ session'[t].idleTimer = FALSE
               /\ session'[t].active = session[t].active
               /\ session[t] = NoSession => session'[t] = NoSession
    <3>1. session[t] \in SessionRecord /\ session'[t] = OnClose(session[t])
      BY <1>0, <2>0 DEF McpTypeOK
    <3>2. session[t] = NoSession => OnClose(session[t]) = NoSession
      <4>1. NoSession \in SessionRecord
        BY DEF NoSession, SessionRecord
      <4>2. /\ NoSession.known = FALSE /\ NoSession.open = FALSE /\ NoSession.initTimer = FALSE
            /\ NoSession.idleTimer = FALSE
        BY DEF NoSession
      <4>3. OnClose(NoSession) = NoSession
        BY <4>1, <4>2 DEF OnClose, SessionRecord
      <4> QED
        BY <4>3
    <3> QED
      BY <3>1, <3>2 DEF OnClose, SessionRecord
  <2>2. McpTypeOK' /\ GatesOK'
    BY <1>0, <2>0, <2>1 DEF McpTypeOK, GatesOK
  <2>3. BusySessionIsKept'
    BY <2>0 DEF BusySessionIsKept
  <2>4. ASSUME NEW t \in Sessions PROVE SessionOK(t)'
    <3>1. SessionOK(t) /\ ActiveOf(t)' = ActiveOf(t) /\ Initializing(t)' = Initializing(t)
      BY <1>0, <1>a, <2>0
    <3>2. session'[t].active = Cardinality(ActiveOf(t)') + Initializing(t)'
      BY <2>1, <3>1 DEF SessionOK
    <3> QED
      BY <2>0, <2>1, <3>1, <3>2 DEF SessionOK
  <2>5. ASSUME NEW q \in McpRequests PROVE RequestOK(q)'
    <3>1. RequestOK(q) /\ mcpRequest[q].session \in Sessions
      BY <1>0 DEF McpTypeOK, McpRequestRecord
    <3> QED
      BY <2>0, <2>1, <3>1 DEF RequestOK, ActiveOperations
  <2> QED
    BY <2>2, <2>3, <2>4, <2>5 DEF McpInv
<1> QED
  BY <1>1, <1>2, <1>3

\* In every behaviour of the MCP endpoint a tool call that was admitted is served
\* unless nobody waits for it, close() resolves when no tool runs and no session is
\* left, and a session whose requests a client follows is kept: for any number of
\* sessions and requests and however timers, clients and close() meet.
THEOREM McpSessionsAreSafe == McpSpec => [](AdmittedIsServed /\ ClosedIsQuiet /\ BusySessionIsKept)
<1>1. McpInit => McpInv
  BY McpInvInit
<1>2. McpInv /\ [McpNext]_mcpVars => McpInv'
  <2>1. ASSUME McpInv, UNCHANGED mcpVars PROVE McpInv'
    <3>1. UNCHANGED <<session, init, mcpRequest, operation, accepting, mcpClosing>>
      BY <2>1 DEF mcpVars
    <3>2. \A t : ActiveOf(t)' = ActiveOf(t)
      BY <3>1 DEF ActiveOf
    <3>3. \A t \in Sessions : SessionOK(t)'
      BY <2>1, <3>1, <3>2 DEF McpInv, SessionOK, Initializing
    <3>4. \A q \in McpRequests : RequestOK(q)'
      BY <2>1, <3>1 DEF McpInv, RequestOK
    <3>5. McpTypeOK' /\ GatesOK' /\ BusySessionIsKept'
      BY <2>1, <3>1 DEF McpInv, McpTypeOK, GatesOK, BusySessionIsKept
    <3> QED
      BY <3>3, <3>4, <3>5 DEF McpInv
  <2> QED
    BY <2>1, InitializeKept, TimersKept, RequestsKept, OperationsKept, CloseKept DEF McpNext
<1>3. McpInv => AdmittedIsServed /\ ClosedIsQuiet /\ BusySessionIsKept
  BY DEF McpInv, SessionOK, RequestOK, AdmittedIsServed, ClosedIsQuiet
<1> QED
  BY <1>1, <1>2, <1>3, PTL DEF McpSpec
=============================================================================
