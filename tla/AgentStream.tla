----------------------------- MODULE AgentStream -----------------------------
(***************************************************************************)
(* Client.InvokeStream and NestedResultStream.Recv and Close of            *)
(* agent/client.go.  One consumer calls Recv and Close in any order; the   *)
(* router may send anything.  Unlike client/stream.go, a failed Recv       *)
(* leaves the stream open: the next Recv reads on.                         *)
(***************************************************************************)
EXTENDS Naturals, Sequences

CONSTANTS Id, Root, Trace, MaxSequence

ASSUME MaxSequenceAssumption == MaxSequence \in Nat

VARIABLES
  pc,            \* "opening", "refused" or "streaming"
  transport,     \* the response body: "open", at "eof" or "failed"
  context,       \* rootTaskID and traceID of the platform context
  sequence,      \* stream.sequence: {} is nil, else what it correlates with
  poisoned,      \* the validator refuses everything after a refusal
  invocationID,  \* {} until it is set
  finished, closed, closeOutcome, bodyClosed,
  body,          \* "none", "open", "closed", "closed twice"
  delivered      \* the events Recv returned

validation == <<sequence, poisoned, invocationID, delivered>>
closing    == <<closed, closeOutcome>>
bodyVars   == <<bodyClosed, body>>
vars == <<pc, transport, context, validation, closing, finished, bodyVars>>

Call  == [id : Id, root : Root, trace : Trace]
Event == [type : {"accepted", "chunk", "terminal"}, sequence : 0 .. MaxSequence,
          call : Call]

Init ==
  /\ pc = "opening" /\ transport = "open" /\ body = "none"
  /\ context \in [root : Root, trace : Trace]
  /\ sequence = {} /\ invocationID = {} /\ delivered = <<>>
  /\ closeOutcome = {} /\ poisoned = FALSE /\ finished = FALSE
  /\ closed = FALSE /\ bodyClosed = FALSE

\* The state of a body after a call of its Close.
Closing(b) == IF b = "open" THEN "closed" ELSE "closed twice"

\* Mutant: a response of another media type is left unclosed.
RefusedBodyLeaks == "open"

\* A response that is not a 200 or not an event stream is closed.
RefusedBody == Closing("open")

\* InvokeStream: Do fails, the response is refused, or the stream is returned.
Open ==
  /\ pc = "opening"
  /\ \/ pc' = "refused" /\ body' \in {"none", RefusedBody}
     \/ pc' = "streaming" /\ body' = "open"
  /\ UNCHANGED <<transport, context, validation, closing, finished, bodyClosed>>

Receiving == pc = "streaming" /\ ~closed /\ ~finished

CloseBody ==
  /\ bodyClosed' = TRUE
  /\ body' = IF bodyClosed THEN body ELSE Closing(body)

\* Mutant: the validator's Finish is not asked.
EndsAnywhere == sequence # {}

\* Finish succeeds: the validator accepted the terminal event.
EndsClean ==
  /\ sequence # {} /\ ~poisoned
  /\ delivered # <<>> /\ delivered[Len(delivered)].type = "terminal"

\* The body ends between two frames.
RecvEOF ==
  /\ Receiving
  /\ transport # "failed" /\ transport' = "eof"
  /\ IF EndsClean THEN finished' = TRUE /\ CloseBody
     ELSE UNCHANGED <<finished, bodyVars>>
  /\ UNCHANGED <<pc, context, validation, closing>>

\* The connection breaks, or a frame is malformed, holds no readable event or,
\* before the accepted event, one of another type.
RecvBad ==
  /\ Receiving
  /\ \/ transport = "open" /\ transport' \in {"open", "failed"}
     \/ transport = "failed" /\ UNCHANGED transport
  /\ UNCHANGED <<pc, context, validation, closing, finished, bodyVars>>

\* Mutant: the validator takes the root Task from the event.
BoundToEvent(e) == e.call

\* What the validator that the first event builds correlates with.
Bound(e) == [id |-> e.call.id, root |-> context.root, trace |-> context.trace]

\* The contract's sequence validator, built for call, as its use and the tests
\* show it; the events it accepted are those delivered.
Validates(e, call) ==
  /\ ~poisoned
  /\ e.call = call
  /\ e.sequence = Len(delivered)
  /\ e.type = "accepted" <=> delivered = <<>>
  /\ delivered # <<>> => delivered[Len(delivered)].type # "terminal"

\* An event: an accepted one builds the validator if there is none, and every
\* event must pass it.  Whether a refusal poisons the validator is its own.
RecvEvent(e) ==
  /\ Receiving
  /\ transport = "open"
  /\ sequence # {} \/ e.type = "accepted"
  /\ sequence' = IF sequence = {} THEN {Bound(e)} ELSE sequence
  /\ invocationID' = IF sequence = {} THEN {e.call.id} ELSE invocationID
  /\ \E call \in sequence' :
       \/ Validates(e, call) /\ delivered' = Append(delivered, e) /\ UNCHANGED poisoned
       \/ /\ ~Validates(e, call)
          /\ poisoned' \in {poisoned, TRUE}
          /\ UNCHANGED delivered
  /\ UNCHANGED <<pc, transport, context, closing, finished, bodyVars>>

\* What the first Close reports, next to the error of body.Close.
Interruption == IF finished THEN {} ELSE {"interrupted"}

\* The first Close; the later ones return nil and change nothing.
Close ==
  /\ pc = "streaming" /\ ~closed
  /\ closed' = TRUE
  /\ \E closeErr \in IF bodyClosed THEN {{}} ELSE {{}, {"close"}} :
       closeOutcome' = Interruption \cup closeErr
  /\ CloseBody
  /\ UNCHANGED <<pc, transport, context, validation, finished>>

Next ==
  \/ Open \/ Close \/ RecvEOF \/ RecvBad
  \/ \E e \in Event : RecvEvent(e)

Spec == Init /\ [][Next]_vars
------------------------------------------------------------------------------
\* Type invariant of the stream.
TypeOK ==
  /\ pc \in {"opening", "refused", "streaming"}
  /\ transport \in {"open", "eof", "failed"}
  /\ context \in [root : Root, trace : Trace]
  /\ sequence \in {{}} \cup {{c} : c \in Call}
  /\ invocationID \in {{}} \cup {{i} : i \in Id}
  /\ delivered \in Seq(Event)
  /\ poisoned \in BOOLEAN /\ finished \in BOOLEAN
  /\ closed \in BOOLEAN /\ bodyClosed \in BOOLEAN
  /\ closeOutcome \in SUBSET {"interrupted", "close"}
  /\ body \in {"none", "open", "closed", "closed twice"}

\* The SDK leaves no body open on any way out, refused response, clean EOF or
\* Close, and closes none twice (client.go:213-220, 301-303, 340-366).
BodyReleased ==
  /\ pc = "refused" \/ finished \/ closed => body # "open"
  /\ body # "closed twice"

\* Every delivered event belongs to the nested invocation that InvocationID
\* names and to the root Task and Trace of the parent's platform context,
\* also when Recv failed in between (client.go:320-335).
DeliveredBelongsToParent ==
  \A k \in DOMAIN delivered :
    /\ invocationID = {delivered[k].call.id}
    /\ delivered[k].call.root = context.root
    /\ delivered[k].call.trace = context.trace

\* "InvocationID returns the child ID after the accepted event has been read"
\* (client.go:265, 281): it is not known before an accepted event passed.
InvocationIDOnlyAfterAccepted == invocationID # {} => delivered # <<>>

Delivery == INSTANCE ResultDelivery WITH
  status <- IF closed THEN "ended" ELSE IF finished THEN "complete" ELSE "open"

\* Recv and Close deliver a result stream as ResultDelivery promises it, also
\* to a consumer that goes on after errors (client.go:286-359).
ImplementsResultDelivery == Delivery!Spec
==============================================================================
