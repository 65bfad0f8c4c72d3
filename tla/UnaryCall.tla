------------------------------ MODULE UnaryCall ------------------------------
(***************************************************************************)
(* One non-streaming invocation: NewClient and Client.Invoke of client/,   *)
(* which calls the Gateway, and those of agent/client.go, which calls the  *)
(* Agent Router.  The two are steps of one shape that differ in what they  *)
(* refuse, and in who closes the response body: the client before it       *)
(* decodes, and its error counts, the agent when Invoke returns, and its   *)
(* error does not.  The caller's context may end at any time and the peer  *)
(* may answer anything, or break off, or never answer.                     *)
(***************************************************************************)
EXTENDS JSONMembers

CONSTANTS
  Root, Trace,  \* identifiers
  Platform,     \* the contexts of the agent's parent invocations
  MaxLimit,     \* contracts.RuntimeByteLimitMaximum
  Limit,        \* the response limits a deployment may configure
  Response      \* what the peer may answer

SDK == {"client", "agent"}

\* The body of a response: how many bytes it has, and how many of them the
\* JSON value takes that it begins with; that value as a text and by what
\* Invoke decodes of it.  "unknown" and "invalid" are members the SDK does not
\* know, and anything else that the contract's validators refuse.
Document ==
  [text : Seq(Token), faults : SUBSET {"unknown", "invalid"},
   hasInvocation : BOOLEAN, hasRootTask : BOOLEAN,
   root : Root, trace : Trace, code : STRING]

ResponseType ==
  [status : Nat, media : Seq(STRING), traces : Seq(Trace \cup {"malformed"}),
   size : Nat, value : Nat, doc : Document]

ASSUME ResponseAssumption == Response \subseteq ResponseType
ASSUME PlatformAssumption == Platform \subseteq [root : Root, trace : Trace]
ASSUME LimitAssumption == MaxLimit \in Nat \ {0} /\ Limit \subseteq Nat

VARIABLES
  sdk, limit,
  platform,     \* RootTaskID and TraceID of the agent's PlatformContext
  response,     \* what the peer answers, if it does
  pc,           \* "new", "idle", "waiting", "answered", "reading", "read", "returned"
  ctxDone,      \* the caller's context has ended
  taken,        \* bytes read from the body
  body,         \* the response body: "none", "open", "closed", "closed twice"
  closeFailed,  \* a Close of the body returned an error
  outcome       \* what the call returned

parties == <<sdk, limit, platform, response>>
bodyVars == <<body, closeFailed>>
vars == <<parties, pc, ctxDone, taken, bodyVars, outcome>>

\* A result, a typed *PlatformError or *RouterError, or another error with
\* what it wraps or tells.
Outcome == [kind : {"none", "result", "typed", "error"},
            wraps : SUBSET {"config", "request", "context", "transport", "limit",
                            "close", "invalid"}]
Nothing      == [kind |-> "none", wraps |-> {}]
Error(wraps) == [kind |-> "error", wraps |-> wraps]

Init ==
  /\ sdk \in SDK /\ limit \in Limit /\ response \in Response
  /\ platform \in Platform
  /\ pc = "new" /\ ctxDone = FALSE
  /\ taken = 0 /\ body = "none" /\ closeFailed = FALSE
  /\ outcome = Nothing

Cancel ==
  /\ pc # "returned" /\ ~ctxDone
  /\ ctxDone' = TRUE
  /\ UNCHANGED <<parties, pc, taken, bodyVars, outcome>>

\* What NewClient refuses next to a limit out of range.
ConfigFault ==
  [client |-> {"HTTP client", "origin", "workspace", "credential", "other limits"},
   agent  |-> {"HTTP doer", "router URL", "token", "event limit"}]

\* NewClient.  It sets CheckRedirect, so that a redirect is a response.
NewClient ==
  /\ pc = "new"
  /\ \E faults \in SUBSET ConfigFault[sdk] :
       IF faults = {} /\ limit \in 1 .. MaxLimit
       THEN pc' = "idle" /\ UNCHANGED outcome
       ELSE pc' = "returned" /\ outcome' = Error({"config"})
  /\ UNCHANGED <<parties, ctxDone, taken, bodyVars>>
------------------------------------------------------------------------------
(* do: the checks before anything is sent, and the round trip.              *)

\* A nil context counts as a fault of the request.
RequestFault ==
  [client |-> {"nil context", "agent ID", "capability", "size", "input"},
   agent  |-> {"nil context", "stream", "platform context", "target", "capability",
               "input"}]

\* The client looks at its context first, the agent leaves that to Do.
Send ==
  /\ pc = "idle"
  /\ \E faults \in SUBSET RequestFault[sdk] :
       \/ /\ sdk = "client" /\ ctxDone /\ "nil context" \notin faults
          /\ pc' = "returned" /\ outcome' = Error({"context"})
       \/ /\ ~(sdk = "client" /\ ctxDone) \/ "nil context" \in faults
          /\ IF faults = {} THEN pc' = "waiting" /\ UNCHANGED outcome
             ELSE pc' = "returned" /\ outcome' = Error({"request"})
  /\ UNCHANGED <<parties, ctxDone, taken, bodyVars>>

\* Why Do or a read of the body fails.
Failure == IF ctxDone THEN {"context"} ELSE {"transport"}

DoFails ==
  /\ pc = "waiting"
  /\ pc' = "returned" /\ outcome' = Error(Failure)
  /\ UNCHANGED <<parties, ctxDone, taken, bodyVars>>

Answer ==
  /\ pc = "waiting"
  /\ pc' = "answered" /\ body' = "open"
  /\ UNCHANGED <<parties, ctxDone, taken, closeFailed, outcome>>

\* body.Close().
CloseBody ==
  /\ body' = IF body = "open" THEN "closed" ELSE "closed twice"
  /\ closeFailed' \in BOOLEAN

\* The client's closeWithError and the error path of readAndCloseBounded join
\* the error of Close; the agent's deferred Close drops it.
Refuse(wraps) ==
  /\ pc' = "returned"
  /\ CloseBody
  /\ outcome' = Error(wraps \cup IF closeFailed' /\ sdk = "client" THEN {"close"} ELSE {})
------------------------------------------------------------------------------
(* The headers and the bounded read of the body.                            *)

JSON == "application/json"

\* requireMediaType and requireTraceHeader ask for exactly one header line.
ClientHeaders ==
  /\ response.media = <<JSON>>
  /\ Len(response.traces) = 1 /\ response.traces[1] \in Trace

\* Header.Get takes the first line; the Trace of an error is looked at later.
AgentHeaders == response.media # <<>> /\ response.media[1] = JSON

GoodHeaders == IF sdk = "client" THEN ClientHeaders ELSE AgentHeaders

\* Mutant: the client returns the error and leaves the body open.
CheckHeadersLeaks ==
  /\ pc = "answered"
  /\ IF GoodHeaders THEN pc' = "reading" /\ UNCHANGED <<bodyVars, outcome>>
     ELSE /\ pc' = "returned" /\ outcome' = Error({"invalid"})
          /\ IF sdk = "agent" THEN CloseBody ELSE UNCHANGED bodyVars
  /\ UNCHANGED <<parties, ctxDone, taken>>

CheckHeaders ==
  /\ pc = "answered"
  /\ IF GoodHeaders THEN pc' = "reading" /\ UNCHANGED <<bodyVars, outcome>>
     ELSE Refuse({"invalid"})
  /\ UNCHANGED <<parties, ctxDone, taken>>

\* Mutant: the limited reader ends at the limit, so that more is not seen.
WindowAtLimit == limit

\* io.LimitReader(reader, limit+1)
Window == limit + 1

\* io.ReadAll gets another byte.
ReadByte ==
  /\ pc = "reading" /\ taken < response.size /\ taken < Window
  /\ taken' = taken + 1
  /\ UNCHANGED <<parties, pc, ctxDone, bodyVars, outcome>>

\* Mutant: the request does not carry the context, so that it ends no read.
BreaksWithoutContext ==
  /\ pc = "reading" /\ ~ctxDone
  /\ Refuse({"transport"})
  /\ UNCHANGED <<parties, ctxDone, taken>>

\* A read fails.
ReadBreaks ==
  /\ pc = "reading"
  /\ Refuse(Failure)
  /\ UNCHANGED <<parties, ctxDone, taken>>

\* Mutant: the error of Close is dropped.
EndReadDropsClose ==
  /\ pc = "reading" /\ (taken = response.size \/ taken = Window)
  /\ IF taken > limit THEN Refuse({"limit"})
     ELSE /\ pc' = "read"
          /\ IF sdk = "client" THEN CloseBody ELSE UNCHANGED bodyVars
          /\ UNCHANGED outcome
  /\ UNCHANGED <<parties, ctxDone, taken>>

\* The body or the window ends: readBounded, and the client's Close after it.
EndRead ==
  /\ pc = "reading" /\ (taken = response.size \/ taken = Window)
  /\ \/ taken > limit /\ Refuse({"limit"})
     \/ /\ taken <= limit /\ sdk = "client"
        /\ CloseBody
        /\ IF closeFailed' THEN pc' = "returned" /\ outcome' = Error({"close"})
           ELSE pc' = "read" /\ UNCHANGED outcome
     \/ /\ taken <= limit /\ sdk = "agent"
        /\ pc' = "read" /\ UNCHANGED <<bodyVars, outcome>>
  /\ UNCHANGED <<parties, ctxDone, taken>>
------------------------------------------------------------------------------
(* What the body says.                                                      *)

Row(status, codes, correlated) ==
  [status |-> status, codes |-> codes, correlated |-> correlated]

Before == {FALSE}
After  == {TRUE}
Either == BOOLEAN

PlatformTable ==
  {Row(400, {"VALIDATION_ERROR"}, Before),
   Row(401, {"UNAUTHENTICATED"}, Before),
   Row(403, {"FORBIDDEN", "CAPABILITY_NOT_ALLOWED"}, Before),
   Row(404, {"NOT_FOUND", "AGENT_NOT_INSTALLED"}, Before),
   Row(406, {"NOT_ACCEPTABLE"}, Before),
   Row(409, {"CONFLICT", "INSTALLATION_DISABLED", "AGENT_DISABLED",
             "AGENT_RELEASE_UNPUBLISHED", "AGENT_RELEASE_SUSPENDED",
             "AGENT_RELEASE_REVOKED", "CANCELED"}, Either),
   Row(413, {"PAYLOAD_TOO_LARGE"}, Before),
   Row(500, {"INTERNAL"}, Either),
   Row(502, {"AGENT_AUTH_UNSUPPORTED", "AGENT_RESPONSE_TOO_LARGE",
             "AGENT_EXECUTION_FAILED", "A2A_PROTOCOL"}, After),
   Row(503, {"ROUTE_NOT_FOUND", "AGENT_UNAVAILABLE", "DEPENDENCY"}, Either),
   Row(504, {"TIMEOUT"}, Either)}

RouterTable ==
  {Row(400, {"VALIDATION_ERROR"}, Before),
   Row(401, {"UNAUTHENTICATED"}, Before),
   Row(403, {"FORBIDDEN"}, Before),
   Row(404, {"NOT_FOUND"}, Before),
   Row(406, {"NOT_ACCEPTABLE"}, Before),
   Row(409, {"CONFLICT"}, Before),
   Row(409, {"CANCELED"}, After),
   Row(413, {"PAYLOAD_TOO_LARGE"}, Before),
   Row(502, {"AGENT_AUTH_UNSUPPORTED", "AGENT_RESPONSE_TOO_LARGE",
             "A2A_PROTOCOL", "AGENT_EXECUTION_FAILED"}, After),
   Row(503, {"ROUTE_NOT_FOUND", "AGENT_UNAVAILABLE", "DEPENDENCY"}, Either),
   Row(504, {"TIMEOUT"}, Either)}

Admits(table, status, code, correlated) ==
  \E row \in table :
    row.status = status /\ code \in row.codes /\ correlated \in row.correlated

doc == response.doc

\* What the walk of rejectDuplicateJSONMembers, a decoder and the grammar make of
\* the texts that peers send.
Text       == {r.doc.text : r \in Response}
Unrepeated == {text \in Text : NoDuplicates(text)}
JSONTexts  == {text \in Text : IsJSON(text)}
CleanTexts == {text \in Text : IsClean(text)}

\* The bytes read are one JSON object: it is all there, and nothing follows.
OneObject == taken = response.value /\ doc.text # <<>> /\ doc.text[1] = "object"

\* Strict decoding, then the contract, then the Trace of the header.
GoodClientResult ==
  /\ OneObject /\ doc.text \in Unrepeated /\ doc.faults = {}
  /\ doc.trace = response.traces[1]

\* json.Unmarshal lets unknown and repeated members pass.
GoodAgentResult ==
  /\ OneObject /\ doc.text \in JSONTexts /\ "invalid" \notin doc.faults
  /\ doc.root = platform.root /\ doc.trace = platform.trace

\* Mutant: half a pair of identities counts as none.
GoodErrorHalfPair(table) ==
  /\ OneObject /\ doc.text \in Unrepeated /\ "invalid" \notin doc.faults
  /\ response.traces # <<>> /\ response.traces[1] = doc.trace
  /\ Admits(table, response.status, doc.code, doc.hasInvocation /\ doc.hasRootTask)

\* Both identities or none, the Trace of the header, and a row of the table.
GoodError(table) ==
  /\ OneObject /\ doc.text \in Unrepeated /\ "invalid" \notin doc.faults
  /\ doc.hasInvocation = doc.hasRootTask
  /\ response.traces # <<>> /\ response.traces[1] = doc.trace
  /\ Admits(table, response.status, doc.code, doc.hasInvocation)

\* decodePlatformError or routerError, or the result.
Decoded ==
  IF response.status = 200
  THEN IF IF sdk = "client" THEN GoodClientResult ELSE GoodAgentResult
       THEN "result" ELSE "error"
  ELSE IF GoodError(IF sdk = "client" THEN PlatformTable ELSE RouterTable)
       THEN "typed" ELSE "error"

Decode ==
  /\ pc = "read"
  /\ pc' = "returned"
  /\ outcome' = [kind |-> Decoded, wraps |-> IF Decoded = "error" THEN {"invalid"} ELSE {}]
  /\ IF sdk = "agent" THEN CloseBody ELSE UNCHANGED bodyVars
  /\ UNCHANGED <<parties, ctxDone, taken>>

Next ==
  \/ Cancel \/ NewClient \/ Send \/ DoFails \/ Answer
  \/ CheckHeaders \/ ReadByte \/ ReadBreaks \/ EndRead \/ Decode

Spec == Init /\ [][Next]_vars

\* The SDK's own steps are taken.  net/http returns from Do and from a read of
\* the body once the request's context has ended; nothing is assumed before.
FairSpec ==
  /\ Spec
  /\ WF_vars(NewClient \/ Send \/ CheckHeaders \/ EndRead \/ Decode)
  /\ WF_vars(ctxDone /\ (DoFails \/ ReadBreaks))
------------------------------------------------------------------------------
\* Type invariant of a call.
TypeOK ==
  /\ sdk \in SDK /\ limit \in Limit /\ response \in Response
  /\ platform \in Platform
  /\ pc \in {"new", "idle", "waiting", "answered", "reading", "read", "returned"}
  /\ ctxDone \in BOOLEAN /\ taken \in Nat /\ closeFailed \in BOOLEAN
  /\ body \in {"none", "open", "closed", "closed twice"}
  /\ outcome \in Outcome

\* Whoever owns the response body closes it, once, on every way out of Invoke:
\* refused headers, a failed or oversized read, a refused document, a typed
\* error, a result (client.go:40-53, errors.go:33-47, json.go:74-85,
\* agent/client.go:173).
BodyClosedOnce ==
  /\ body # "closed twice"
  /\ pc = "returned" => body # "open"
  /\ pc = "reading" => body = "open"

\* A result or a typed error is the whole answer to this call: all of a body
\* within the limit was read, however the limit cuts it, and is one JSON value,
\* whose Trace is that of the Gateway's only Trace header (a router's first), or
\* whose root Task and Trace are those of the parent's platform context
\* (client.go:44-77, errors.go:65-76, json.go:63-81, agent/client.go:174-200,
\* 370-432, 466-475).
AnswerIsOfThisCall ==
  outcome.kind \in {"result", "typed"} =>
    /\ taken = response.size /\ taken <= limit /\ taken = response.value
    /\ sdk = "client" => response.traces = <<doc.trace>>
    /\ sdk = "agent" /\ outcome.kind = "typed" => response.traces[1] = doc.trace
    /\ sdk = "agent" /\ outcome.kind = "result" =>
         platform = [root |-> doc.root, trace |-> doc.trace]

\* Whichever SDK returns it, a typed error is one of the Gateway's: its status,
\* code and phase are a row of the platform's table, and it names a complete
\* Invocation and root Task or neither, so that an agent can hand a router's
\* error on as its own (errors.go:53-113, agent/client.go:394-464).
TypedErrorIsAPlatformError ==
  outcome.kind = "typed" =>
    /\ doc.hasInvocation = doc.hasRootTask
    /\ Admits(PlatformTable, response.status, doc.code, doc.hasInvocation)

\* The application's Invoke never returns a result or a typed error when the
\* body could not be closed; the failure is in the error it returns
\* (client/json.go:74-85).
CloseFailureIsReported ==
  sdk = "client" /\ closeFailed =>
    pc = "returned" /\ outcome.kind = "error" /\ "close" \in outcome.wraps

\* The walk over the tokens accepts exactly the JSON values in which no object
\* repeats a member, at any depth (client/json.go:129-179,
\* agent/client.go:548-598).
WalkIsExact == doc.text \in Unrepeated <=> doc.text \in CleanTexts

\* When its context ends, a call returns, even from a peer that never answers
\* or never ends the body (client.go:98-108, agent/client.go:250-260).
CancelledCallReturns == ctxDone ~> (pc = "returned")
==============================================================================
