---------------------------- MODULE ClientStream ----------------------------
(***************************************************************************)
(* Client.InvokeStream and Stream.Recv and Close of client/stream.go.  One *)
(* consumer calls Recv and Close in any order, the context may end at any  *)
(* time, also while Recv is blocked in a read, and the gateway may send    *)
(* anything.  An error is the set of what it wraps; the empty set is nil.  *)
(* Calls that only repeat a settled outcome change nothing: Recv on a      *)
(* closed, failed or finished stream, and a second Close.                  *)
(***************************************************************************)
EXTENDS Naturals, Sequences

CONSTANTS Id, Root, Trace, MaxSequence

ASSUME MaxSequenceAssumption == MaxSequence \in Nat

VARIABLES
  pc,            \* "opening", "refused", "idle" or "reading" (in Recv)
  ctxDone,       \* the context of InvokeStream ended
  trace,         \* stream.traceID, from the response header
  sequence,      \* stream.sequence: {} is nil, else what it correlates with
  terminal, finished, failure, closed, closeOutcome, bodyClosed,
  body,          \* the response body: "none", "open", "closed", "closed twice"
  delivered      \* the events Recv returned

environment == <<ctxDone, trace>>
progress    == <<sequence, terminal, delivered>>
closing     == <<closed, closeOutcome>>
vars == <<pc, environment, progress, closing, finished, failure, bodyClosed, body>>

Call  == [id : Id, root : Root, trace : Trace]
Event == [type : {"accepted", "chunk", "terminal"}, sequence : 0 .. MaxSequence,
          call : Call]

Init ==
  /\ pc = "opening" /\ body = "none"
  /\ ctxDone \in BOOLEAN /\ trace \in Trace
  /\ sequence = {} /\ delivered = <<>>
  /\ failure = {} /\ closeOutcome = {}
  /\ terminal = FALSE /\ finished = FALSE
  /\ closed = FALSE /\ bodyClosed = FALSE

Cancel ==
  /\ ~ctxDone /\ ctxDone' = TRUE
  /\ UNCHANGED <<pc, trace, progress, closing, finished, failure, bodyClosed, body>>

\* The state of a body after a call of its Close.
Closing(b) == IF b = "open" THEN "closed" ELSE "closed twice"

\* Mutant: a response without a valid Trace header is left unclosed.
RefusedBodyLeaks == "open"

\* A response that is not a 200, or has no valid media type or Trace header,
\* is closed by decodePlatformError or closeWithError.
RefusedBody == Closing("open")

\* InvokeStream: Do fails, the response is refused, or the stream is returned.
Open ==
  /\ pc = "opening"
  /\ \/ pc' = "refused" /\ body' \in {"none", RefusedBody}
     \/ ~ctxDone /\ pc' = "idle" /\ body' = "open"
  /\ UNCHANGED <<environment, progress, closing, finished, failure, bodyClosed>>

CloseBody ==
  /\ bodyClosed' = TRUE
  /\ body' = IF bodyClosed THEN body ELSE Closing(body)

\* What closeBody returns.
CloseErrors == IF bodyClosed THEN {{}} ELSE {{}, {"close"}}

\* Mutant: the error of a Recv is returned but not recorded.
Forgets(err) == pc' = "idle" /\ UNCHANGED <<failure, bodyClosed, body>>

\* return recordFailure(err); Recv has returned a failure recorded before.
RecordFailure(err) ==
  /\ pc' = "idle"
  /\ \E closeErr \in CloseErrors : failure' = err \cup closeErr
  /\ CloseBody

ContextEnded == {"context", "interrupted"}

\* Recv up to the read of a frame.
Recv ==
  /\ pc = "idle" /\ ~closed /\ failure = {} /\ ~finished
  /\ \/ ctxDone /\ RecordFailure(ContextEnded)
     \/ ~ctxDone /\ pc' = "reading" /\ UNCHANGED <<failure, bodyClosed, body>>
  /\ UNCHANGED <<environment, progress, closing, finished>>

\* Mutant: EOF after any accepted event is clean.
EndsAnywhere == sequence # {}

\* The terminal event was accepted, so that Finish succeeds.
EndsClean == sequence # {} /\ terminal

\* The body ends between two frames.  When its Close fails after a clean end,
\* recordFailure finds it closed.
ReadEOF ==
  /\ pc = "reading" /\ pc' = "idle"
  /\ \/ ~EndsClean /\ RecordFailure({"interrupted"}) /\ UNCHANGED finished
     \/ /\ EndsClean
        /\ CloseBody
        /\ failure' \in CloseErrors
        /\ finished' = (failure' = {})
  /\ UNCHANGED <<environment, progress, closing>>

\* The connection breaks, a frame is cut short, too long or malformed; or the
\* frame holds no event: duplicate or unknown members, trailing data.
ReadBad ==
  /\ pc = "reading"
  /\ \/ RecordFailure(IF ctxDone THEN ContextEnded ELSE {"read"})
     \/ RecordFailure({"invalid"})
  /\ UNCHANGED <<environment, progress, closing, finished>>

\* Mutant: the first event's Trace is not compared with the header.
BeginsAnyTrace(e) == e.type = "accepted"

Begins(e) == e.type = "accepted" /\ e.call.trace = trace

\* The contract's sequence validator, built for call, as its use and the tests
\* show it; the events it accepted are those delivered.
Validates(e, call) ==
  /\ e.call = call
  /\ e.sequence = Len(delivered)
  /\ e.type = "accepted" <=> delivered = <<>>
  /\ ~terminal

\* A frame with an event: the first one builds the validator, every one must
\* pass it.
ReadEvent(e) ==
  /\ pc = "reading"
  /\ \/ /\ sequence = {} /\ ~Begins(e)
        /\ RecordFailure({"invalid"})
        /\ UNCHANGED progress
     \/ /\ sequence # {} \/ Begins(e)
        /\ sequence' = IF sequence = {} THEN {e.call} ELSE sequence
        /\ \E call \in sequence' :
             \/ /\ ~Validates(e, call)
                /\ RecordFailure({"invalid"})
                /\ UNCHANGED <<terminal, delivered>>
             \/ /\ Validates(e, call)
                /\ delivered' = Append(delivered, e)
                /\ terminal' = (e.type = "terminal")
                /\ pc' = "idle"
                /\ UNCHANGED <<failure, bodyClosed, body>>
  /\ UNCHANGED <<environment, closing, finished>>

\* The outcome of the first Close, and what it does to the body.
CloseResult ==
  IF failure # {} \/ finished
  THEN closeOutcome' = failure /\ UNCHANGED <<bodyClosed, body>>
  ELSE /\ CloseBody
       /\ \E closeErr \in CloseErrors : closeOutcome' = {"interrupted"} \cup closeErr

Close ==
  /\ pc = "idle" /\ ~closed
  /\ closed' = TRUE
  /\ CloseResult
  /\ UNCHANGED <<pc, environment, progress, finished, failure>>

Next ==
  \/ Cancel \/ Open \/ Recv \/ Close
  \/ ReadEOF \/ ReadBad \/ \E e \in Event : ReadEvent(e)

Spec == Init /\ [][Next]_vars
------------------------------------------------------------------------------
Error == SUBSET {"context", "interrupted", "read", "invalid", "close"}

\* Type invariant of the stream.
TypeOK ==
  /\ pc \in {"opening", "refused", "idle", "reading"}
  /\ ctxDone \in BOOLEAN /\ trace \in Trace
  /\ sequence \in {{}} \cup {{c} : c \in Call}
  /\ delivered \in Seq(Event)
  /\ terminal \in BOOLEAN /\ finished \in BOOLEAN
  /\ closed \in BOOLEAN /\ bodyClosed \in BOOLEAN
  /\ failure \in Error /\ closeOutcome \in Error
  /\ body \in {"none", "open", "closed", "closed twice"}

\* The SDK leaves no body open on any way out, refused response, failed Recv,
\* clean EOF or Close, and closes none twice (stream.go:48-57, 83-94, 137-168).
BodyReleased ==
  /\ pc = "refused" \/ failure # {} \/ finished \/ closed => body # "open"
  /\ body # "closed twice"

\* A clean io.EOF comes only after the terminal event of the invocation whose
\* Trace the response header announced, and never together with a failure
\* (stream.go:66-68, 83-94, 115-127).
CleanEOFIsComplete ==
  finished =>
    /\ delivered # <<>> /\ delivered[Len(delivered)].type = "terminal"
    /\ \A k \in DOMAIN delivered : delivered[k].call.trace = trace
    /\ failure = {} /\ pc = "idle"

\* A Recv that returns neither an event nor io.EOF is recorded.  The record names
\* the context, and the interruption, only if the context ended, and no broken
\* read is recorded as such once it has, however its end falls between the check
\* and the read (stream.go:79-81, 97-101).  From then on the stream delivers
\* nothing, is never reported complete, and keeps that failure to the end,
\* through Close too (stream.go:73-75, 142-145, 155-161).
FailureIsFinal ==
  [][/\ (pc = "reading" /\ pc' = "idle" /\ UNCHANGED <<delivered, finished>>)
          => failure' # {}
     /\ failure = {} => /\ "context" \in failure' => ctxDone /\ "interrupted" \in failure'
                        /\ "read" \in failure' => ~ctxDone
     /\ failure # {} => /\ UNCHANGED <<failure, delivered, finished>>
                        /\ closed' => closeOutcome' = failure]_vars

\* Close returns nil exactly for a stream that was consumed to its end,
\* whatever failed before (stream.go:135-153).
CleanCloseMeansComplete ==
  closed => (closeOutcome = {} <=> finished /\ terminal)

\* "Calling Close before that EOF ... returns an error wrapping
\* contracts.ErrRuntimeStreamInterrupted" (client/README.md:107-110).
EarlyCloseIsInterrupted ==
  closed /\ ~finished => "interrupted" \in closeOutcome

\* What the consumer has been told of the stream.
Status ==
  IF closed \/ failure # {} THEN "ended"
  ELSE IF finished THEN "complete" ELSE "open"

Delivery == INSTANCE ResultDelivery WITH status <- Status

\* Recv and Close deliver a result stream as ResultDelivery promises it,
\* whatever the gateway sends (stream.go:69-153).
ImplementsResultDelivery == Delivery!Spec
==============================================================================
