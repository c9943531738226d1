----------------------------- MODULE Interfaces -----------------------------
(***************************************************************************)
(* The ways into a vault: what the web application asks                    *)
(* (apps/web/src/lib/kb-service.ts, the document provider's URL), the      *)
(* daemon's routes (apps/daemon/src/app.ts, request-helpers.ts, the        *)
(* upgrade path of main.ts) and the MCP tools                              *)
(* (packages/local-mcp/src/server.ts).  A user's intent goes through one   *)
(* of these doors as a request, a call of the vault service and an answer. *)
(* A path is a sequence of words and separators; a word that needs         *)
(* escaping in a URL is one symbol, its escape another.                    *)
(***************************************************************************)
EXTENDS Naturals, Sequences, SequencesExt, FiniteSets

CONSTANTS NoteNames,    \* note paths the intents name
          FolderNames,  \* folder paths
          ActorDefault  \* KB1_ACTOR_DEFAULT: "user" or "unknown"

(* No word of a name is an escape of another, and the name of a note ends   *)
(* in its extension.                                                       *)
ASSUME NamesAreWords ==
    /\ NoteNames \subseteq Seq(STRING) /\ FolderNames \subseteq Seq(STRING)
    /\ \A n \in NoteNames \cup FolderNames : \A k \in 1..Len(n) : n[k] \notin {"%20", "%25", "%23"}
    /\ \A n \in NoteNames : n # <<>> /\ n[Len(n)] \notin {"history", "content"}

VARIABLES intent,   \* what a user or an agent wants done
          door,     \* "web", "socket" or "tool"
          header,   \* the x-kb1-actor header of the request (of initialize, for a tool)
          body,     \* what becomes of the JSON body on the way
          verdict,  \* what the vault service will answer
          stage,    \* "wanted", "handled", "answered"
          handled,  \* the call a handler made, or its early answer
          reply    \* what the asker is told: "done" or "failed"

doorVars == <<intent, door, header, body, verdict, stage, handled, reply>>

-----------------------------------------------------------------------------
(* Paths in URLs.                                                          *)

Escaped == [c \in {" ", "%", "#"} |->
               CASE c = " " -> "%20" [] c = "%" -> "%25" [] c = "#" -> "%23"]

EncodeVaultPath(path) ==
    [i \in DOMAIN path |-> IF path[i] \in DOMAIN Escaped THEN Escaped[path[i]] ELSE path[i]]

(* context.req.path: the framework undoes the escapes that are not         *)
(* significant in a URL and keeps the others.                              *)
RequestPath(url) == [i \in DOMAIN url |-> IF url[i] = "%20" THEN " " ELSE url[i]]

DecodeURIComponent(text) ==
    [i \in DOMAIN text |->
        IF \E c \in DOMAIN Escaped : Escaped[c] = text[i]
        THEN CHOOSE c \in DOMAIN Escaped : Escaped[c] = text[i]
        ELSE text[i]]

NameEndsWith(text, suffix) == IsSuffix(suffix, text)

StripAnywhere(text, suffix) ==
    DecodeURIComponent(ReplaceFirstSubSeq(<<>>, suffix, text))

FilePathParam(text, suffix) ==
    DecodeURIComponent(IF suffix # <<>> /\ NameEndsWith(text, suffix)
                       THEN SubSeq(text, 1, Len(text) - Len(suffix))
                       ELSE text)

-----------------------------------------------------------------------------
(* Intents and the calls they stand for.  "flags" are the boolean options  *)
(* that are set.                                                           *)

Call(op, path, to, flags) == [op |-> op, path |-> path, to |-> to, flags |-> flags]
Nowhere == <<>>

Intents ==
    [op : {"readNote", "appendNote", "prependNote", "editNote", "listNoteHistory",
           "readNoteHistoryVersion", "createNoteHistoryBoundary", "openDocument"},
     path : NoteNames, to : {Nowhere}, flags : {{}}]
    \cup [op : {"createNote", "writeRawFile"}, path : NoteNames, to : {Nowhere},
          flags : {{}, {"overwrite"}}]
    \cup [op : {"deleteNote"}, path : NoteNames, to : {Nowhere}, flags : {{}, {"permanent"}}]
    \cup [op : {"moveNote"}, path : NoteNames, to : NoteNames, flags : {{}}]
    \cup [op : {"createFolder", "getFolderMetadata", "setFolderMetadata"}, path : FolderNames,
          to : {Nowhere}, flags : {{}}]
    \cup [op : {"deleteFolder"}, path : FolderNames, to : {Nowhere},
          flags : {{"recursive"}, {"recursive", "permanent"}}]
    \cup [op : {"moveFolder"}, path : FolderNames, to : FolderNames, flags : {{}}]
    \cup [op : {"listFiles", "vaultInfo", "search", "flushDirtySessions", "listVaults",
                "createVault", "renameVault", "deleteVault", "setVaultMetadata"},
          path : {Nowhere}, to : {Nowhere}, flags : {{}}]
    \cup [op : {"readRawFile"}, path : NoteNames, to : {Nowhere}, flags : {{}}]

(* Calls that write and carry the actor they are recorded under.           *)
Attributed == {"createNote", "writeRawFile", "deleteNote", "moveNote", "editNote", "appendNote",
               "prependNote", "createFolder", "setFolderMetadata", "deleteFolder", "moveFolder",
               "setVaultMetadata", "openDocument"}

-----------------------------------------------------------------------------
(* The web application builds requests.                                    *)

HttpCall(method, area, url, flags, json) ==
    [method |-> method, area |-> area, url |-> url, flags |-> flags, json |-> json]

NoBody == [field |-> "", value |-> Nowhere]
Body(field, value) == [field |-> field, value |-> value]

WebCreateNote(i) == HttpCall("PUT", "files", EncodeVaultPath(i.path), i.flags, NoBody)
WebWriteRawFile(i) == HttpCall("PUT", "raw", EncodeVaultPath(i.path), i.flags, NoBody)
WebDeleteNote(i) == HttpCall("DELETE", "files", EncodeVaultPath(i.path), i.flags, NoBody)
WebMoveNote(i) ==
    HttpCall("POST", "files", EncodeVaultPath(i.path) \o <<"/", "move">>, {}, Body("to", i.to))
WebListNoteHistory(i) ==
    HttpCall("GET", "files", EncodeVaultPath(i.path) \o <<"/", "history">>, {}, NoBody)
WebCreateFolder(i) == HttpCall("POST", "folders", <<>>, {}, Body("path", i.path))
WebDeleteFolder(i) == HttpCall("DELETE", "folders", EncodeVaultPath(i.path), i.flags, NoBody)
WebMoveFolder(i) ==
    HttpCall("POST", "folders", EncodeVaultPath(i.path) \o <<"/", "move">>, {}, Body("to", i.to))
WebSetFolderMetadata(i) ==
    HttpCall("PUT", "folders", EncodeVaultPath(i.path) \o <<"/", "metadata">>, {},
             Body("color", Nowhere))
WebTree(i) == HttpCall("GET", "tree", <<>>, {}, NoBody)
WebVaultInfo(i) == HttpCall("GET", "vault", <<>>, {}, NoBody)
WebSearch(i) == HttpCall("GET", "search", <<>>, {}, NoBody)
WebRawSrc(i) == HttpCall("GET", "raw", EncodeVaultPath(i.path), {}, NoBody)
WebListVaults(i) == HttpCall("GET", "vaults", <<>>, {}, NoBody)
WebCreateVault(i) == HttpCall("POST", "vaults", <<>>, {}, Body("displayName, slug", Nowhere))
WebRenameVault(i) == HttpCall("PUT", "vaults", <<"v">>, {}, Body("displayName", Nowhere))
WebDeleteVault(i) == HttpCall("DELETE", "vaults", <<"v">>, {}, NoBody)
WebSetVaultMetadata(i) ==
    HttpCall("PUT", "vaults", <<"v", "/", "metadata">>, {}, Body("color", Nowhere))

(* Requests of other clients of the same routes (the relay, scripts).      *)
OtherRequest(i) ==
    CASE i.op = "readNote" -> HttpCall("GET", "files", EncodeVaultPath(i.path), {}, NoBody)
      [] i.op = "readNoteHistoryVersion" ->
             HttpCall("GET", "files", EncodeVaultPath(i.path) \o <<"/", "history", "/", "content">>,
                      {"id"}, NoBody)
      [] i.op = "createNoteHistoryBoundary" ->
             HttpCall("POST", "files", EncodeVaultPath(i.path) \o <<"/", "history", "/", "boundary">>,
                      {}, NoBody)
      [] i.op = "editNote" ->
             HttpCall("POST", "files", EncodeVaultPath(i.path) \o <<"/", "splice">>, {},
                      Body("splice", Nowhere))
      [] i.op = "appendNote" ->
             HttpCall("POST", "files", EncodeVaultPath(i.path) \o <<"/", "append">>, {},
                      Body("content", Nowhere))
      [] i.op = "prependNote" ->
             HttpCall("POST", "files", EncodeVaultPath(i.path) \o <<"/", "prepend">>, {},
                      Body("content", Nowhere))
      [] i.op = "getFolderMetadata" ->
             HttpCall("GET", "folders", EncodeVaultPath(i.path) \o <<"/", "metadata">>, {}, NoBody)
      [] i.op = "flushDirtySessions" -> HttpCall("POST", "ops", <<"flush">>, {}, NoBody)

WebRequest(i) ==
    CASE i.op = "createNote" -> WebCreateNote(i)
      [] i.op = "writeRawFile" -> WebWriteRawFile(i)
      [] i.op = "deleteNote" -> WebDeleteNote(i)
      [] i.op = "moveNote" -> WebMoveNote(i)
      [] i.op = "listNoteHistory" -> WebListNoteHistory(i)
      [] i.op = "createFolder" -> WebCreateFolder(i)
      [] i.op = "deleteFolder" -> WebDeleteFolder(i)
      [] i.op = "moveFolder" -> WebMoveFolder(i)
      [] i.op = "setFolderMetadata" -> WebSetFolderMetadata(i)
      [] i.op = "listFiles" -> WebTree(i)
      [] i.op = "vaultInfo" -> WebVaultInfo(i)
      [] i.op = "search" -> WebSearch(i)
      [] i.op = "readRawFile" -> WebRawSrc(i)
      [] i.op = "listVaults" -> WebListVaults(i)
      [] i.op = "createVault" -> WebCreateVault(i)
      [] i.op = "renameVault" -> WebRenameVault(i)
      [] i.op = "deleteVault" -> WebDeleteVault(i)
      [] i.op = "setVaultMetadata" -> WebSetVaultMetadata(i)
      [] OTHER -> OtherRequest(i)

(* The document socket's URL, from the vault id on.                        *)
YjsWebSocketUrl(i) == <<"v", "/", "files", "/">> \o EncodeVaultPath(i.path) \o <<"/", "yjs">>

-----------------------------------------------------------------------------
(* Who asks.  A header is absent, an actor, or not one: too long, no JSON, *)
(* no object, an unknown kind, a field that is no string.                  *)

Headers == {"none", "user", "integration", "unreadable"}

LenientHeader(h) == IF h = "unreadable" THEN "none" ELSE h

ActorFromHeader(h) == IF h = "unreadable" THEN "invalid_actor" ELSE h

DefaultActor == IF ActorDefault = "unknown" THEN "unknown" ELSE "local user"

ActorFromRequest(h) == IF ActorFromHeader(h) = "none" THEN DefaultActor ELSE ActorFromHeader(h)

(* The actor of a tool: the one initialize named, or the client it is.     *)
ToolActor(h) == IF ActorFromHeader(h) = "none" THEN "local agent" ELSE ActorFromHeader(h)

(* A document socket without a header has no attribution.                  *)
SocketAttribution(h) == ActorFromHeader(h)

-----------------------------------------------------------------------------
(* The routes.  Each answers with a call of the service or an early error. *)

CallFails(error) == [call |-> Call("none", Nowhere, Nowhere, {}), actor |-> "none", error |-> error]
InterfaceCalls(call, actor) == [call |-> call, actor |-> actor, error |-> "none"]

(* Reads resolve the vault only; mutations read the actor, the path and    *)
(* then the body.                                                          *)
Reads(call) == InterfaceCalls(call, "none")

MutationRequest(call) ==
    IF ActorFromRequest(header) = "invalid_actor" THEN CallFails("invalid_actor")
    ELSE InterfaceCalls(call, ActorFromRequest(header))

(* readMutationJson, then readRequiredString for the field that is needed: *)
(* a body that is no JSON object, or whose field is missing or no string,  *)
(* is refused.                                                             *)
JsonMutationRequest(call) ==
    IF ActorFromRequest(header) = "invalid_actor" THEN CallFails("invalid_actor")
    ELSE IF body # "whole" THEN CallFails("invalid_request")
    ELSE MutationRequest(call)

GetFiles(r, text) ==
    IF NameEndsWith(text, <<"/", "history", "/", "content">>)
    THEN IF "id" \in r.flags
         THEN Reads(Call("readNoteHistoryVersion",
                         FilePathParam(text, <<"/", "history", "/", "content">>), Nowhere, {}))
         ELSE CallFails("invalid_request")
    ELSE IF NameEndsWith(text, <<"/", "history">>)
    THEN Reads(Call("listNoteHistory", FilePathParam(text, <<"/", "history">>), Nowhere, {}))
    ELSE Reads(Call("readNote", FilePathParam(text, <<>>), Nowhere, {}))

PutFiles(r, text) ==
    MutationRequest(Call("createNote", FilePathParam(text, <<>>), Nowhere,
                         r.flags \cap {"overwrite"}))

DeleteFiles(r, text) ==
    MutationRequest(Call("deleteNote", FilePathParam(text, <<>>), Nowhere,
                         r.flags \cap {"permanent"}))

PostSplice(text) ==
    JsonMutationRequest(Call("editNote", FilePathParam(text, <<"/", "splice">>), Nowhere, {}))
PostAppend(text) ==
    JsonMutationRequest(Call("appendNote", FilePathParam(text, <<"/", "append">>), Nowhere, {}))
PostPrepend(text) ==
    JsonMutationRequest(Call("prependNote", FilePathParam(text, <<"/", "prepend">>), Nowhere, {}))
PostMove(r, text) ==
    JsonMutationRequest(Call("moveNote", FilePathParam(text, <<"/", "move">>), r.json.value, {}))

PostFiles(r, text) ==
    CASE NameEndsWith(text, <<"/", "history", "/", "boundary">>) ->
                 Reads(Call("createNoteHistoryBoundary",
                            FilePathParam(text, <<"/", "history", "/", "boundary">>), Nowhere, {}))
      [] NameEndsWith(text, <<"/", "splice">>) -> PostSplice(text)
      [] NameEndsWith(text, <<"/", "append">>) -> PostAppend(text)
      [] NameEndsWith(text, <<"/", "prepend">>) -> PostPrepend(text)
      [] NameEndsWith(text, <<"/", "move">>) -> PostMove(r, text)
      [] OTHER -> CallFails("not_found")

PutRaw(r, text) ==
    MutationRequest(Call("writeRawFile", FilePathParam(text, <<>>), Nowhere,
                         r.flags \cap {"overwrite"}))

PostFolders(r) ==
    JsonMutationRequest(Call("createFolder", r.json.value, Nowhere, {}))

GetFolders(text) ==
    IF NameEndsWith(text, <<"/", "metadata">>)
    THEN Reads(Call("getFolderMetadata", FilePathParam(text, <<"/", "metadata">>), Nowhere, {}))
    ELSE CallFails("not_found")

PutFolders(text) ==
    IF NameEndsWith(text, <<"/", "metadata">>)
    THEN JsonMutationRequest(Call("setFolderMetadata", FilePathParam(text, <<"/", "metadata">>),
                                  Nowhere, {}))
    ELSE CallFails("not_found")

DeleteFolders(r, text) ==
    MutationRequest(Call("deleteFolder", FilePathParam(text, <<>>), Nowhere,
                         r.flags \cap {"recursive", "permanent"}))

PostFoldersMove(r, text) ==
    IF NameEndsWith(text, <<"/", "move">>)
    THEN JsonMutationRequest(Call("moveFolder", FilePathParam(text, <<"/", "move">>),
                                  r.json.value, {}))
    ELSE CallFails("not_found")

GetRaw(text) == Reads(Call("readRawFile", FilePathParam(text, <<>>), Nowhere, {}))

(* Vault management reads the body first and asks for no actor, except for *)
(* the metadata of a vault.                                                *)
JsonRequest(call) == IF body # "whole" THEN CallFails("invalid_request") ELSE Reads(call)

PostVaults == JsonRequest(Call("createVault", Nowhere, Nowhere, {}))
PutVault == JsonRequest(Call("renameVault", Nowhere, Nowhere, {}))
DeleteVault == Reads(Call("deleteVault", Nowhere, Nowhere, {}))
PutVaultMetadata == JsonMutationRequest(Call("setVaultMetadata", Nowhere, Nowhere, {}))

Route(r) ==
    LET text == RequestPath(r.url)
    IN  CASE r.area = "files" /\ r.method = "GET" -> GetFiles(r, text)
          [] r.area = "files" /\ r.method = "PUT" -> PutFiles(r, text)
          [] r.area = "files" /\ r.method = "DELETE" -> DeleteFiles(r, text)
          [] r.area = "files" /\ r.method = "POST" -> PostFiles(r, text)
          [] r.area = "raw" /\ r.method = "PUT" -> PutRaw(r, text)
          [] r.area = "raw" /\ r.method = "GET" -> GetRaw(text)
          [] r.area = "vaults" /\ r.method = "GET" -> Reads(Call("listVaults", Nowhere, Nowhere, {}))
          [] r.area = "vaults" /\ r.method = "POST" -> PostVaults
          [] r.area = "vaults" /\ r.method = "PUT" /\ Len(text) = 1 -> PutVault
          [] r.area = "vaults" /\ r.method = "PUT" /\ Len(text) > 1 -> PutVaultMetadata
          [] r.area = "vaults" /\ r.method = "DELETE" -> DeleteVault
          [] r.area = "folders" /\ r.method = "POST" /\ text = <<>> -> PostFolders(r)
          [] r.area = "folders" /\ r.method = "POST" /\ text # <<>> -> PostFoldersMove(r, text)
          [] r.area = "folders" /\ r.method = "GET" -> GetFolders(text)
          [] r.area = "folders" /\ r.method = "PUT" -> PutFolders(text)
          [] r.area = "folders" /\ r.method = "DELETE" -> DeleteFolders(r, text)
          [] r.area = "tree" -> Reads(Call("listFiles", Nowhere, Nowhere, {}))
          [] r.area = "vault" -> Reads(Call("vaultInfo", Nowhere, Nowhere, {}))
          [] r.area = "search" -> Reads(Call("search", Nowhere, Nowhere, {}))
          [] r.area = "ops" -> Reads(Call("flushDirtySessions", Nowhere, Nowhere, {}))

(* The document socket: the id ends at the first "/files/", the rest up to *)
(* "/yjs" is the path.                                                     *)
FilesMarker == <<"/", "files", "/">>

MarkersIn(text) == {k \in 1..(Len(text) - 2) : SubSeq(text, k, k + 2) = FilesMarker}

LastMarker(text) ==
    LET at == CHOOSE k \in MarkersIn(text) : \A j \in MarkersIn(text) : j <= k
    IN  [id |-> SubSeq(text, 1, at - 1), rawPath |-> SubSeq(text, at + 3, Len(text))]

ParseScopedFilesPath(text) ==
    LET at == CHOOSE k \in MarkersIn(text) : \A j \in MarkersIn(text) : k <= j
    IN  [id |-> SubSeq(text, 1, at - 1), rawPath |-> SubSeq(text, at + 3, Len(text))]

(* The base name of a path, and whether its extension, which has a name     *)
(* before it, is that of a text document (classifyArtifactPath).           *)
Leaf(path) ==
    LET slashes == {k \in DOMAIN path : path[k] = "/"}
        from == IF slashes = {} THEN 1 ELSE (CHOOSE k \in slashes : \A j \in slashes : j <= k) + 1
    IN  SubSeq(path, from, Len(path))

Editable(path) ==
    LET name == Leaf(path) IN Len(name) > 2 /\ SubSeq(name, Len(name) - 1, Len(name)) = <<".", "md">>

SafeValidateFilePath(rawPath) == Editable(DecodeURIComponent(rawPath))

ResolveWebSocketTarget(url) ==
    LET scoped == ParseScopedFilesPath(SubSeq(url, 1, Len(url) - 2))
    IN  IF scoped.id # <<"v">> \/ ~SafeValidateFilePath(scoped.rawPath) THEN CallFails("not_found")
        ELSE IF SocketAttribution(header) = "invalid_actor" THEN CallFails("invalid_actor")
        ELSE InterfaceCalls(Call("openDocument", DecodeURIComponent(scoped.rawPath), Nowhere, {}),
                            SocketAttribution(header))

-----------------------------------------------------------------------------
(* The tools.  A session whose initialize carried an unreadable header     *)
(* does not exist; a tool passes its arguments on to the service.          *)

Tools == {"listVaults", "vaultInfo", "listFiles", "readRawFile", "writeRawFile",
          "getFolderMetadata", "setFolderMetadata", "readNote", "createNote", "editNote",
          "appendNote", "prependNote", "deleteNote", "moveNote", "createFolder", "deleteFolder",
          "moveFolder", "search"}

(* The input of a tool: the agent names a path, or from_path and to_path,  *)
(* and sets the boolean options it wants.                                  *)
ToolInput(i) == [path |-> i.path, from_path |-> i.path, to_path |-> i.to, options |-> i.flags]

Writes(call) == InterfaceCalls(call, ToolActor(header))

(* upload_attachment refuses a base name that ends in a text extension.    *)
DotAt(name) == {k \in DOMAIN name : name[k] = "."}
FirstDot(name) == CHOOSE k \in DotAt(name) : \A j \in DotAt(name) : k <= j
LastDot(name) == CHOOSE k \in DotAt(name) : \A j \in DotAt(name) : j <= k

EndsAtTheFirstDot(path) ==
    LET name == Leaf(path)
    IN  DotAt(name) = {} \/ SubSeq(name, FirstDot(name), Len(name)) # <<".", "md">>

IsAttachmentPath(path) ==
    LET name == Leaf(path)
    IN  DotAt(name) = {} \/ SubSeq(name, LastDot(name), Len(name)) # <<".", "md">>

ToolListVaults(t) == Reads(Call("listVaults", Nowhere, Nowhere, {}))
ToolVaultInfo(t) == Reads(Call("vaultInfo", Nowhere, Nowhere, {}))
ToolListFiles(t) == Reads(Call("listFiles", Nowhere, Nowhere, {}))
ToolReadAttachment(t) ==
    IF Editable(t.path) THEN CallFails("invalid_request")
    ELSE Reads(Call("readRawFile", t.path, Nowhere, {}))
ToolUploadAttachment(t) ==
    IF ~IsAttachmentPath(t.path) THEN CallFails("invalid_request")
    ELSE Writes(Call("writeRawFile", t.path, Nowhere, t.options))
ToolGetFolderMetadata(t) == Reads(Call("getFolderMetadata", t.path, Nowhere, {}))
ToolSetFolderMetadata(t) == Writes(Call("setFolderMetadata", t.path, Nowhere, {}))
ToolReadNote(t) == Reads(Call("readNote", t.path, Nowhere, {}))
ToolCreateNote(t) == Writes(Call("createNote", t.path, Nowhere, t.options))
ToolEditNote(t) == Writes(Call("editNote", t.path, Nowhere, {}))
ToolAppendNote(t) == Writes(Call("appendNote", t.path, Nowhere, {}))
ToolPrependNote(t) == Writes(Call("prependNote", t.path, Nowhere, {}))
ToolDeleteNote(t) == Writes(Call("deleteNote", t.path, Nowhere, t.options))
ToolMoveNote(t) == Writes(Call("moveNote", t.from_path, t.to_path, {}))
ToolCreateFolder(t) == Writes(Call("createFolder", t.path, Nowhere, {}))
ToolDeleteFolder(t) == Writes(Call("deleteFolder", t.path, Nowhere, t.options))
ToolMoveFolder(t) == Writes(Call("moveFolder", t.from_path, t.to_path, {}))
ToolSearch(t) == Reads(Call("search", Nowhere, Nowhere, {}))

CallTool(op, t) ==
    CASE op = "listVaults" -> ToolListVaults(t)
      [] op = "vaultInfo" -> ToolVaultInfo(t)
      [] op = "listFiles" -> ToolListFiles(t)
      [] op = "readRawFile" -> ToolReadAttachment(t)
      [] op = "writeRawFile" -> ToolUploadAttachment(t)
      [] op = "getFolderMetadata" -> ToolGetFolderMetadata(t)
      [] op = "setFolderMetadata" -> ToolSetFolderMetadata(t)
      [] op = "readNote" -> ToolReadNote(t)
      [] op = "createNote" -> ToolCreateNote(t)
      [] op = "editNote" -> ToolEditNote(t)
      [] op = "appendNote" -> ToolAppendNote(t)
      [] op = "prependNote" -> ToolPrependNote(t)
      [] op = "deleteNote" -> ToolDeleteNote(t)
      [] op = "moveNote" -> ToolMoveNote(t)
      [] op = "createFolder" -> ToolCreateFolder(t)
      [] op = "deleteFolder" -> ToolDeleteFolder(t)
      [] op = "moveFolder" -> ToolMoveFolder(t)
      [] op = "search" -> ToolSearch(t)

Tool(i) ==
    IF ActorFromHeader(header) = "invalid_actor" THEN CallFails("invalid_actor")
    ELSE CallTool(i.op, ToolInput(i))

-----------------------------------------------------------------------------
(* The vault service answers ok or one of its error codes.                 *)

ServiceErrors == {"invalid_actor", "invalid_path", "invalid_metadata", "invalid_request",
                  "not_editable", "metadata_parse_failed", "not_found", "already_exists",
                  "path_collision", "folder_not_empty", "entry_cap_exceeded", "too_large_splice",
                  "too_large_document", "persist_failed", "stale_doc", "ambiguous"}

StatusForServiceError(error) ==
    CASE error \in {"invalid_actor", "invalid_path", "invalid_metadata", "invalid_request"} -> 400
      [] error = "not_editable" -> 415
      [] error \in {"metadata_parse_failed", "persist_failed"} -> 500
      [] error = "not_found" -> 404
      [] error \in {"already_exists", "path_collision", "folder_not_empty"} -> 409
      [] error \in {"entry_cap_exceeded", "too_large_splice", "too_large_document"} -> 413
      [] error \in {"stale_doc", "ambiguous"} -> 409

Outcome(h) == IF h.error # "none" THEN h.error ELSE verdict

(* mapServiceResult; a body the client cannot read (cut short, or a proxy's *)
(* page) does not say ok.                                                  *)
MapServiceResult(h) ==
    [status |-> IF Outcome(h) = "ok" THEN 200 ELSE StatusForServiceError(Outcome(h)),
     ok |-> Outcome(h) = "ok"]

ResolvesUnlessToldFalse(response, readable) == ~(readable /\ ~response.ok)

(* request() of kb-service.ts resolves only for a 2xx whose body says ok.  *)
WebResolves(response, readable) == response.status = 200 /\ readable /\ response.ok

(* registerTool marks a failure as an error of the tool.                   *)
ToolSucceeds(h) == Outcome(h) = "ok"

-----------------------------------------------------------------------------

Doors(op) ==
    IF op = "openDocument" THEN {"socket"}
    ELSE {"web"} \cup (IF op \in Tools THEN {"tool"} ELSE {})

InterfacesInit ==
    /\ intent \in Intents
    /\ door \in Doors(intent.op)
    /\ header \in Headers
    /\ body \in {"whole", "no object", "field missing"}
    /\ verdict \in {"ok"} \cup ServiceErrors
    /\ stage = "wanted"
    /\ handled = CallFails("none")
    /\ reply = "none"

Handle ==
    /\ stage = "wanted"
    /\ stage' = "handled"
    /\ handled' = CASE door = "web" -> Route(WebRequest(intent))
                    [] door = "socket" -> ResolveWebSocketTarget(YjsWebSocketUrl(intent))
                    [] door = "tool" -> Tool(intent)
    /\ UNCHANGED <<intent, door, header, body, verdict, reply>>

AnswerFor ==
    /\ stage = "handled"
    /\ stage' = "answered"
    /\ \E readable \in BOOLEAN :
           reply' = IF \/ door = "web" /\ WebResolves(MapServiceResult(handled), readable)
                       \/ door # "web" /\ ToolSucceeds(handled)
                    THEN "done" ELSE "failed"
    /\ UNCHANGED <<intent, door, header, body, verdict, handled>>

InterfacesNext == Handle \/ AnswerFor

InterfacesSpec == InterfacesInit /\ [][InterfacesNext]_doorVars

-----------------------------------------------------------------------------
(* What is checked.                                                        *)

(* Whatever the names in a path are (a folder called "move", "history" or  *)
(* "files", a name with a percent sign), the call the service gets is the  *)
(* one that was meant: escaping, the framework's decoding, stripping of    *)
(* the prefix and of the operation's suffix and the decoding of the rest   *)
(* are the identity together, through every door.                          *)
IntentIsTheCall ==
    stage # "wanted" /\ handled.error = "none" =>
        handled.call = Call(intent.op, intent.path, intent.to, intent.flags)

(* A request that is well formed is not turned away: what fails early has  *)
(* an unreadable actor, a body that is not what the route needs, is a text *)
(* file for the attachment tools, or opens a document that is no text.    *)
WellFormedIsCalled ==
    stage # "wanted" /\ handled.error # "none" =>
        \/ handled.error = "invalid_actor" /\ header = "unreadable"
        \/ handled.error = "invalid_request" /\ body # "whole" /\ door = "web"
        \/ /\ door = "tool" /\ intent.op \in {"readRawFile", "writeRawFile"}
           /\ \E k \in 1..Len(intent.path) :
                  SubSeq(intent.path, k, Len(intent.path)) = <<".", "md">>
        \/ door = "socket" /\ ~Editable(intent.path)

(* What is written is recorded under the actor the request names, or the   *)
(* default of its door; a write whose actor cannot be read is not made.    *)
WritesAreAttributed ==
    stage # "wanted" /\ handled.error = "none" /\ intent.op \in Attributed =>
        /\ header # "unreadable"
        /\ header \in {"user", "integration"} => handled.actor = header
        /\ header = "none" => handled.actor = [web |-> DefaultActor, tool |-> "local agent",
                                               socket |-> "none"][door]

(* upload_attachment never writes a file that the editor would open as     *)
(* text, whatever dots its name and its folders have.                      *)
UploadIsNoText ==
    stage # "wanted" /\ door = "tool" /\ intent.op = "writeRawFile" /\ handled.error = "none" =>
        ~Editable(intent.path)

(* Nobody is told that something was done that was not: the service was    *)
(* called and said ok.                                                     *)
NoSilentFailure == reply = "done" => handled.error = "none" /\ verdict = "ok"

(* Through every door a caller gets the operation it meant, under its own  *)
(* name, and an honest answer.                                             *)
CallsAreHonest ==
    /\ IntentIsTheCall /\ WellFormedIsCalled /\ WritesAreAttributed
    /\ UploadIsNoText /\ NoSilentFailure
=============================================================================
