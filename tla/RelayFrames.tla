---------------------------- MODULE RelayFrames -----------------------------
(***************************************************************************)
(* parseRelayFrame (packages/tunnel-protocol/src/index.ts), the gate every *)
(* relay frame passes before the tunnel client acts on it.                 *)
(*                                                                         *)
(* A raw frame is what JSON.parse returned: a function from field names to *)
(* raw values.  Of a value only the class matters that some check tells    *)
(* apart: "absent", "number-2" and so on.  The frame types of the protocol *)
(* are sets of records over the same classes, so that parsing can be       *)
(* compared with them: the types say what a well-formed frame is, the      *)
(* parser says what is let through.                                        *)
(***************************************************************************)
EXTENDS Naturals

CONSTANT ExtraFields   \* whether raw frames may carry a field no type knows

VARIABLES rawFrame, parsed

frameVars == <<rawFrame, parsed>>

Rejected == [type |-> "rejected"]
NotParsed == [type |-> "not-parsed"]

\* The classes of raw values, per kind of field.
RawString == {"absent", "empty", "text", "number"}
RawInteger == {"absent", "negative", "zero", "positive", "fraction"}
RawPayload == {"absent", "json", "json-bad", "base64", "base64-bad", "array"}
RawObject == {"absent", "plain", "array", "holds-undefined"}
RawTarget == {"absent", "rpc", "rpc-no-id", "stream", "other-kind"}
RawError == {"absent", "known", "known-bad-data", "unknown-code", "no-message"}
RawCode == {"absent", "normal", "invented"}
RawOk == {"absent", "true", "false"}

\* expectString and its refinements, isRelayJsonValue, isPlainRecord.
IsString(v) == v \in {"empty", "text"}
IsNonEmptyString(v) == IsString(v) /\ v # "empty"
IsNonNegativeInteger(v) == v \in {"zero", "positive"}
IsPositiveInteger(v) == v = "positive"
IsRelayPayload(v) == v \in {"json", "base64"}
IsRelayJsonObject(v) == v = "plain"
IsRelayCancelTarget(v) == v \in {"rpc", "stream"}
IsRelayFrameError(v) == v = "known"
IsRelayStreamCloseCode(v) == v = "normal"

\* Optional(v, Is): an undefined field is left out, any other is checked.
Optional(v, Is(_)) == v = "absent" \/ Is(v)

-----------------------------------------------------------------------------
(* The frame types.                                                        *)

RelayRpcRequestFrame ==
    [type : {"rpc.request"}, id : {"text"}, capability : {"text"},
     deadlineMs : {"absent", "positive"}, payload : {"absent", "json", "base64"},
     context : {"absent", "plain"}]

RelayRpcResponseFrame ==
    [type : {"rpc.response"}, id : {"text"}, ok : {"true"},
     payload : {"json", "base64"}]
    \cup [type : {"rpc.response"}, id : {"text"}, ok : {"false"}, error : {"known"}]

RelayStreamOpenFrame ==
    [type : {"stream.open"}, id : {"text"}, capability : {"text"},
     payload : {"absent", "json", "base64"}, context : {"absent", "plain"}]

RelayStreamDataFrame ==
    [type : {"stream.data"}, id : {"text"}, sequence : {"zero", "positive"},
     payload : {"json", "base64"}]

RelayStreamCloseFrame ==
    [type : {"stream.close"}, id : {"text"}, code : {"normal"},
     reason : {"absent", "empty", "text"}]

RelayEventFrame ==
    [type : {"event"}, topic : {"text"}, id : {"absent", "text"},
     payload : {"absent", "json", "base64"}, resource : {"absent", "plain"}]

RelayCancelFrame ==
    [type : {"cancel"}, target : {"rpc", "stream"}, reason : {"absent", "empty", "text"}]

RelayErrorFrame ==
    [type : {"error"}, error : {"known"}, target : {"absent", "rpc", "stream"}]

RelayFrame ==
    RelayRpcRequestFrame \cup RelayRpcResponseFrame \cup RelayStreamOpenFrame
    \cup RelayStreamDataFrame \cup RelayStreamCloseFrame \cup RelayEventFrame
    \cup RelayCancelFrame \cup RelayErrorFrame

-----------------------------------------------------------------------------
(* The parser.  Each function builds its frame from the fields it names,   *)
(* so that a field it does not name is dropped.                            *)

\* ParseRelayRpcRequestFrame that lets a deadline of zero through.
ParseAnyDeadline(f) ==
    IF /\ IsNonEmptyString(f.id) /\ IsNonEmptyString(f.capability)
       /\ Optional(f.deadlineMs, IsNonNegativeInteger)
       /\ Optional(f.payload, IsRelayPayload)
       /\ Optional(f.context, IsRelayJsonObject)
    THEN [type |-> "rpc.request", id |-> f.id, capability |-> f.capability,
          deadlineMs |-> f.deadlineMs, payload |-> f.payload, context |-> f.context]
    ELSE Rejected

ParseRelayRpcRequestFrame(f) ==
    IF /\ IsNonEmptyString(f.id) /\ IsNonEmptyString(f.capability)
       /\ Optional(f.deadlineMs, IsPositiveInteger)
       /\ Optional(f.payload, IsRelayPayload)
       /\ Optional(f.context, IsRelayJsonObject)
    THEN [type |-> "rpc.request", id |-> f.id, capability |-> f.capability,
          deadlineMs |-> f.deadlineMs, payload |-> f.payload, context |-> f.context]
    ELSE Rejected

ParseRelayRpcResponseFrame(f) ==
    IF ~IsNonEmptyString(f.id) THEN Rejected
    ELSE IF f.ok = "true" /\ IsRelayPayload(f.payload)
    THEN [type |-> "rpc.response", id |-> f.id, ok |-> "true", payload |-> f.payload]
    ELSE IF f.ok = "false" /\ IsRelayFrameError(f.error)
    THEN [type |-> "rpc.response", id |-> f.id, ok |-> "false", error |-> f.error]
    ELSE Rejected

ParseRelayStreamOpenFrame(f) ==
    IF /\ IsNonEmptyString(f.id) /\ IsNonEmptyString(f.capability)
       /\ Optional(f.payload, IsRelayPayload) /\ Optional(f.context, IsRelayJsonObject)
    THEN [type |-> "stream.open", id |-> f.id, capability |-> f.capability,
          payload |-> f.payload, context |-> f.context]
    ELSE Rejected

ParseRelayStreamDataFrame(f) ==
    IF /\ IsNonEmptyString(f.id) /\ IsNonNegativeInteger(f.sequence)
       /\ IsRelayPayload(f.payload)
    THEN [type |-> "stream.data", id |-> f.id, sequence |-> f.sequence,
          payload |-> f.payload]
    ELSE Rejected

ParseRelayStreamCloseFrame(f) ==
    IF /\ IsNonEmptyString(f.id) /\ IsRelayStreamCloseCode(f.code)
       /\ Optional(f.reason, IsString)
    THEN [type |-> "stream.close", id |-> f.id, code |-> f.code, reason |-> f.reason]
    ELSE Rejected

ParseRelayEventFrame(f) ==
    IF /\ IsNonEmptyString(f.topic) /\ Optional(f.id, IsNonEmptyString)
       /\ Optional(f.payload, IsRelayPayload) /\ Optional(f.resource, IsRelayJsonObject)
    THEN [type |-> "event", topic |-> f.topic, id |-> f.id, payload |-> f.payload,
          resource |-> f.resource]
    ELSE Rejected

ParseRelayCancelFrame(f) ==
    IF IsRelayCancelTarget(f.target) /\ Optional(f.reason, IsString)
    THEN [type |-> "cancel", target |-> f.target, reason |-> f.reason]
    ELSE Rejected

ParseRelayErrorFrame(f) ==
    IF IsRelayFrameError(f.error) /\ Optional(f.target, IsRelayCancelTarget)
    THEN [type |-> "error", error |-> f.error, target |-> f.target]
    ELSE Rejected

\* parseRelayFrame: the version is checked before the type is looked at.
ParseRelayFrame(f) ==
    IF f.version # "current" THEN Rejected
    ELSE CASE f.type = "rpc.request"  -> ParseRelayRpcRequestFrame(f)
           [] f.type = "rpc.response" -> ParseRelayRpcResponseFrame(f)
           [] f.type = "stream.open"  -> ParseRelayStreamOpenFrame(f)
           [] f.type = "stream.data"  -> ParseRelayStreamDataFrame(f)
           [] f.type = "stream.close" -> ParseRelayStreamCloseFrame(f)
           [] f.type = "event"        -> ParseRelayEventFrame(f)
           [] f.type = "cancel"       -> ParseRelayCancelFrame(f)
           [] f.type = "error"        -> ParseRelayErrorFrame(f)
           [] OTHER                   -> Rejected

-----------------------------------------------------------------------------

FrameVersions == {"current", "other"}
ExtraField == IF ExtraFields THEN {"absent", "text"} ELSE {"absent"}

\* Raw frames: for every type the fields its parser reads, in every class.
RawFrame ==
    [type : {"rpc.request"}, version : FrameVersions, id : RawString, capability : RawString,
     deadlineMs : RawInteger, payload : RawPayload, context : RawObject, extra : ExtraField]
    \cup [type : {"rpc.response"}, version : FrameVersions, id : RawString, ok : RawOk,
          payload : RawPayload, error : RawError, extra : ExtraField]
    \cup [type : {"stream.open"}, version : FrameVersions, id : RawString, capability : RawString,
          payload : RawPayload, context : RawObject, extra : ExtraField]
    \cup [type : {"stream.data"}, version : FrameVersions, id : RawString, sequence : RawInteger,
          payload : RawPayload, extra : ExtraField]
    \cup [type : {"stream.close"}, version : FrameVersions, id : RawString, code : RawCode,
          reason : RawString, extra : ExtraField]
    \cup [type : {"event"}, version : FrameVersions, id : RawString, topic : RawString,
          payload : RawPayload, resource : RawObject, extra : ExtraField]
    \cup [type : {"cancel"}, version : FrameVersions, target : RawTarget, reason : RawString,
          extra : ExtraField]
    \cup [type : {"error"}, version : FrameVersions, error : RawError, target : RawTarget,
          extra : ExtraField]
    \cup [type : {"vault.list", "absent"}, version : FrameVersions, extra : ExtraField]

RelayFramesInit == rawFrame \in RawFrame /\ parsed = NotParsed

\* handleControlMessage of relay.frame: parseRelayFrame throws or returns.
ReceiveRelayFrame ==
    /\ parsed = NotParsed
    /\ parsed' = ParseRelayFrame(rawFrame)
    /\ UNCHANGED rawFrame

RelayFramesNext == ReceiveRelayFrame

RelayFramesSpec == RelayFramesInit /\ [][RelayFramesNext]_frameVars

-----------------------------------------------------------------------------

\* What parseRelayFrame lets through is exactly the frames the protocol's types
\* allow: an accepted frame is of its type, carries no field the type lacks,
\* and keeps the value of every field it has; and a raw frame that carries a
\* well-formed frame of the current version is never refused.
ParsesExactlyTheFrames ==
    parsed # NotParsed =>
        IF parsed = Rejected
        THEN ~ /\ rawFrame.version = "current"
               /\ \E f \in RelayFrame :
                      /\ DOMAIN f \subseteq DOMAIN rawFrame
                      /\ \A x \in DOMAIN f : f[x] = rawFrame[x]
        ELSE /\ parsed \in RelayFrame
             /\ rawFrame.version = "current"
             /\ \A x \in DOMAIN parsed : parsed[x] = rawFrame[x]
=============================================================================
