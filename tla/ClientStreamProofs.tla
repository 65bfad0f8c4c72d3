------------------------- MODULE ClientStreamProofs -------------------------
(***************************************************************************)
(* Proofs about ClientStream for any identifiers and any bound on the      *)
(* sequence numbers.                                                       *)
(***************************************************************************)
EXTENDS ClientStream, TLAPS

\* What was delivered passed one validator, built for the header's Trace.
Validated ==
  /\ delivered # <<>> => sequence # {}
  /\ terminal <=> delivered # <<>> /\ delivered[Len(delivered)].type = "terminal"
  /\ \A c \in sequence : /\ c.trace = trace
                         /\ \A k \in DOMAIN delivered : delivered[k].call = c
  /\ \A k \in DOMAIN delivered :
       /\ delivered[k].sequence = k - 1
       /\ delivered[k].type = "accepted" <=> k = 1
       /\ delivered[k].type = "terminal" => k = Len(delivered)

\* How the control point and the flags of the stream go together.
Control ==
  /\ pc \in {"opening", "refused"} =>
       ~closed /\ ~finished /\ failure = {} /\ ~bodyClosed /\ delivered = <<>>
  /\ pc = "opening" => body = "none"
  /\ pc = "refused" => body \in {"none", "closed"}
  /\ pc = "reading" => ~closed /\ ~finished /\ failure = {}
  /\ pc \in {"idle", "reading"} => body = IF bodyClosed THEN "closed" ELSE "open"
  /\ finished => terminal /\ failure = {} /\ pc = "idle"
  /\ bodyClosed <=> closed \/ finished \/ failure # {}
  /\ closed => /\ closeOutcome = {} <=> finished
               /\ failure # {} => closeOutcome = failure

IInv == TypeOK /\ Validated /\ Control
------------------------------------------------------------------------------
LEMMA InitIInv == Init => IInv
<1> SUFFICES ASSUME Init PROVE IInv
  OBVIOUS
<1>1. TypeOK
  <2>1. {} \in Error /\ delivered \in Seq(Event)
    BY DEF Init, Error
  <2>2. sequence \in {{}} \cup {{c} : c \in Call}
    BY DEF Init
  <2> QED BY <2>1, <2>2 DEF Init, TypeOK
<1>2. Validated
  BY DEF Init, Validated
<1>3. Control
  BY DEF Init, Control
<1> QED BY <1>1, <1>2, <1>3 DEF IInv

\* The errors that occur, and what closeBody returns, are errors.
LEMMA ErrorsTyped ==
  /\ CloseErrors \subseteq Error
  /\ \A err \in Error : \A closeErr \in CloseErrors : err \cup closeErr \in Error
  /\ ContextEnded \in Error /\ {"interrupted"} \in Error /\ {"invalid"} \in Error
  /\ {"read"} \in Error
BY DEF CloseErrors, Error, ContextEnded

\* A recorded failure closes the body and is never nil.
LEMMA FailureStep ==
  ASSUME TypeOK, Control, pc \in {"idle", "reading"}, ~closed, failure = {}, ~finished,
         NEW err \in Error, err # {}, RecordFailure(err)
  PROVE  /\ pc' = "idle" /\ failure' \in Error /\ failure' # {}
         /\ bodyClosed' = TRUE /\ body' = "closed"
<1>1. ~bodyClosed /\ body = "open"
  BY DEF Control, TypeOK
<1> QED BY <1>1, ErrorsTyped DEF RecordFailure, CloseBody, Closing

LEMMA OpenStep ==
  ASSUME IInv, Cancel \/ Open \/ UNCHANGED vars
  PROVE  IInv'
<1> USE DEF IInv, environment, progress, closing
<1>1. CASE Cancel
  BY <1>1 DEF Cancel, TypeOK, Validated, Control
<1>2. CASE Open
  <2>1. TypeOK'
    BY <1>2 DEF Open, TypeOK, RefusedBody, Closing
  <2>2. Validated'
    BY <1>2 DEF Open, Validated
  <2>3. Control'
    BY <1>2 DEF Open, Control, RefusedBody, Closing
  <2> QED BY <2>1, <2>2, <2>3
<1>3. CASE UNCHANGED vars
  BY <1>3 DEF vars, TypeOK, Validated, Control
<1> QED BY <1>1, <1>2, <1>3

LEMMA RecvStep ==
  ASSUME IInv, Recv
  PROVE  IInv'
<1> USE DEF IInv, Recv, environment, progress, closing
<1>1. CASE ctxDone /\ RecordFailure(ContextEnded)
  <2>1. ContextEnded # {}
    BY DEF ContextEnded
  <2>2. /\ pc' = "idle" /\ failure' \in Error /\ failure' # {}
        /\ bodyClosed' = TRUE /\ body' = "closed"
    BY <1>1, <2>1, FailureStep, ErrorsTyped
  <2> QED BY <2>2 DEF TypeOK, Validated, Control
<1>2. CASE pc' = "reading" /\ UNCHANGED <<failure, bodyClosed, body>>
  BY <1>2 DEF TypeOK, Validated, Control
<1> QED BY <1>1, <1>2

LEMMA ReadBadStep ==
  ASSUME IInv, ReadBad
  PROVE  IInv'
<1> USE DEF IInv, environment, progress, closing
<1>1. PICK err \in Error : err # {} /\ RecordFailure(err)
  BY ErrorsTyped DEF ReadBad, ContextEnded
<1>2. pc = "reading" /\ UNCHANGED <<environment, progress, closing, finished>>
  BY DEF ReadBad
<1>3. /\ pc' = "idle" /\ failure' \in Error /\ failure' # {}
      /\ bodyClosed' = TRUE /\ body' = "closed"
  BY <1>1, <1>2, FailureStep DEF Control
<1> QED BY <1>2, <1>3 DEF TypeOK, Validated, Control

LEMMA ReadEOFStep ==
  ASSUME IInv, ReadEOF
  PROVE  IInv'
<1> USE DEF IInv, environment, progress, closing
<1>1. pc = "reading" /\ pc' = "idle" /\ UNCHANGED <<environment, progress, closing>>
  BY DEF ReadEOF
<1>2. CASE ~EndsClean /\ RecordFailure({"interrupted"}) /\ UNCHANGED finished
  <2>1. failure' \in Error /\ failure' # {} /\ bodyClosed' = TRUE /\ body' = "closed"
    BY <1>1, <1>2, FailureStep, ErrorsTyped DEF Control
  <2> QED BY <1>1, <1>2, <2>1 DEF TypeOK, Validated, Control
<1>3. CASE EndsClean /\ CloseBody /\ failure' \in CloseErrors /\ finished' = (failure' = {})
  <2>1. failure' \in Error /\ finished' \in BOOLEAN /\ bodyClosed' = TRUE /\ body' = "closed"
    BY <1>1, <1>3, ErrorsTyped DEF CloseBody, Closing, Control, TypeOK
  <2> QED BY <1>1, <1>3, <2>1 DEF TypeOK, Validated, Control, EndsClean
<1> QED BY <1>2, <1>3 DEF ReadEOF

\* An accepted event extends what was delivered by its next element.
LEMMA ReadEventStep ==
  ASSUME IInv, NEW e \in Event, ReadEvent(e)
  PROVE  IInv'
<1> USE DEF IInv, environment, closing
<1>1. pc = "reading" /\ UNCHANGED <<environment, closing, finished>>
  BY DEF ReadEvent
<1>2. e.call \in Call /\ e.type \in {"accepted", "chunk", "terminal"}
  BY DEF Event
<1>3. ASSUME RecordFailure({"invalid"})
      PROVE  /\ pc' = "idle" /\ failure' \in Error /\ failure' # {}
             /\ bodyClosed' = TRUE /\ body' = "closed"
  BY <1>1, <1>3, FailureStep, ErrorsTyped DEF Control
<1>4. CASE RecordFailure({"invalid"}) /\ UNCHANGED progress
  BY <1>1, <1>3, <1>4 DEF TypeOK, Validated, Control, progress
<1>5. ASSUME sequence # {} \/ Begins(e),
             sequence' = IF sequence = {} THEN {e.call} ELSE sequence
      PROVE  /\ sequence' \in {{c} : c \in Call}
             /\ \A c \in sequence' : /\ c.trace = trace
                                    /\ \A k \in DOMAIN delivered : delivered[k].call = c
  <2>1. sequence \in {{}} \cup {{c} : c \in Call}
    BY DEF TypeOK
  <2>2. CASE sequence = {}
    <3>1. e.call.trace = trace /\ sequence' = {e.call} /\ delivered = <<>>
      BY <1>5, <2>2 DEF Begins, Validated
    <3> QED BY <1>2, <3>1
  <2>3. CASE sequence # {}
    <3>1. sequence' = sequence
      BY <1>5, <2>3
    <3> QED BY <2>1, <2>3, <3>1 DEF Validated
  <2> QED BY <2>2, <2>3
<1>6. ASSUME sequence # {} \/ Begins(e),
             sequence' = IF sequence = {} THEN {e.call} ELSE sequence,
             RecordFailure({"invalid"}), UNCHANGED <<terminal, delivered>>
      PROVE  IInv'
  BY <1>1, <1>3, <1>5, <1>6 DEF TypeOK, Validated, Control
<1>7. ASSUME sequence # {} \/ Begins(e),
             sequence' = IF sequence = {} THEN {e.call} ELSE sequence,
             NEW call \in sequence', Validates(e, call),
             delivered' = Append(delivered, e),
             terminal' = (e.type = "terminal"),
             pc' = "idle", UNCHANGED <<failure, bodyClosed, body>>
      PROVE  IInv'
  <2>1. /\ delivered \in Seq(Event) /\ delivered' \in Seq(Event)
        /\ DOMAIN delivered' = 1 .. Len(delivered) + 1 /\ Len(delivered') = Len(delivered) + 1
        /\ delivered'[Len(delivered) + 1] = e
        /\ \A k \in DOMAIN delivered : k \in 1 .. Len(delivered) /\ delivered'[k] = delivered[k]
    <3>1. delivered \in Seq(Event) /\ delivered' = Append(delivered, e)
      BY <1>7 DEF TypeOK
    <3> HIDE DEF IInv
    <3> QED BY ONLY <3>1, e \in Event
  <2>2. /\ e.call = call /\ e.sequence = Len(delivered) /\ ~terminal
        /\ e.type = "accepted" <=> delivered = <<>>
    BY <1>7 DEF Validates
  <2>3. \A k \in DOMAIN delivered : delivered[k].type # "terminal"
    BY <2>1, <2>2 DEF Validated
  <2>4. TypeOK'
    BY <1>1, <1>5, <1>7, <2>1 DEF TypeOK
  <2>5. Validated'
    <3>1. sequence' = {call}
      BY <1>5, <1>7
    <3>2. call.trace = trace /\ \A k \in DOMAIN delivered : delivered[k].call = call
      BY <1>5, <1>7
    <3>3. \A k \in DOMAIN delivered' : k \in DOMAIN delivered \/ k = Len(delivered) + 1
      BY <2>1
    <3>4. \A k \in DOMAIN delivered' : delivered'[k].call = call
      BY <2>1, <2>2, <3>2, <3>3
    <3>5. \A k \in DOMAIN delivered' :
            /\ delivered'[k].sequence = k - 1
            /\ delivered'[k].type = "accepted" <=> k = 1
            /\ delivered'[k].type = "terminal" => k = Len(delivered')
      BY <2>1, <2>2, <2>3, <3>3 DEF Validated
    <3>6. terminal' <=> delivered'[Len(delivered')].type = "terminal"
      BY <1>7, <2>1
    <3>7. delivered' # <<>> /\ sequence' # {} /\ trace' = trace
      BY <1>1, <2>1, <3>1
    <3> QED
      <4>1. \A c \in sequence' : /\ c.trace = trace'
                                 /\ \A k \in DOMAIN delivered' : delivered'[k].call = c
        BY <3>1, <3>2, <3>4, <3>7
      <4> QED BY <3>5, <3>6, <3>7, <4>1 DEF Validated
  <2>6. Control'
    BY <1>1, <1>7 DEF Control
  <2> QED BY <2>4, <2>5, <2>6
<1> QED BY <1>4, <1>6, <1>7 DEF ReadEvent

LEMMA CloseStep ==
  ASSUME IInv, Close
  PROVE  IInv'
<1> USE DEF IInv, environment, progress, closing
<1>1. /\ pc = "idle" /\ ~closed /\ closed' = TRUE /\ CloseResult
      /\ UNCHANGED <<pc, environment, progress, finished, failure>>
  BY DEF Close
<1>2. CASE failure # {} \/ finished
  <2>1. closeOutcome' = failure /\ UNCHANGED <<bodyClosed, body>>
    BY <1>1, <1>2 DEF CloseResult
  <2> QED BY <1>1, <1>2, <2>1 DEF TypeOK, Validated, Control
<1>3. CASE failure = {} /\ ~finished
  <2>1. PICK closeErr \in CloseErrors : closeOutcome' = {"interrupted"} \cup closeErr
    BY <1>1, <1>3 DEF CloseResult
  <2>2. closeOutcome' \in Error /\ closeOutcome' # {}
    BY <2>1, ErrorsTyped
  <2>3. bodyClosed' = TRUE /\ body' = "closed"
    BY <1>1, <1>3 DEF CloseResult, CloseBody, Closing, Control, TypeOK
  <2> QED BY <1>1, <1>3, <2>2, <2>3 DEF TypeOK, Validated, Control
<1> QED BY <1>2, <1>3

\* The inductive invariant holds whatever the gateway sends and whenever the
\* context ends (stream.go:40-169).
THEOREM InductiveInvariant == Spec => []IInv
<1>1. ASSUME IInv, [Next]_vars PROVE IInv'
  BY <1>1, OpenStep, RecvStep, ReadBadStep, ReadEOFStep, ReadEventStep, CloseStep DEF Next
<1> QED BY <1>1, InitIInv, PTL DEF Spec

\* The state stays in its type
\* (stream.go:155-169).
THEOREM TypeCorrect == Spec => []TypeOK
BY InductiveInvariant, PTL DEF IInv

\* No way out of InvokeStream, Recv or Close leaves the body open
\* (stream.go:48-57, 83-94, 137-168).
THEOREM NoBodyLeak == Spec => []BodyReleased
<1>1. IInv => BodyReleased
  BY DEF IInv, TypeOK, Control, BodyReleased
<1> QED BY <1>1, InductiveInvariant, PTL

\* A clean io.EOF means a complete result of the announced Trace and no
\* failure (stream.go:83-94).
THEOREM CleanEOF == Spec => []CleanEOFIsComplete
<1>1. IInv => CleanEOFIsComplete
  BY DEF IInv, Validated, Control, CleanEOFIsComplete
<1> QED BY <1>1, InductiveInvariant, PTL

\* A nil from Close means that the stream was consumed to its end
\* (stream.go:137-153).
THEOREM CleanClose == Spec => []CleanCloseMeansComplete
<1>1. IInv => CleanCloseMeansComplete
  BY DEF IInv, Control, CleanCloseMeansComplete
<1> QED BY <1>1, InductiveInvariant, PTL
------------------------------------------------------------------------------
\* The last event was recorded as a failure, or it was delivered, or the
\* stream is complete.
LEMMA ReadOutcome ==
  ASSUME IInv, IInv', [Next]_vars, pc = "reading", pc' = "idle",
         UNCHANGED <<delivered, finished>>
  PROVE  failure' # {}
<1> USE DEF IInv
<1>1. ~finished /\ delivered \in Seq(Event)
  BY DEF Control, TypeOK
<1>2. \A err : RecordFailure(err) /\ err # {} => failure' # {}
  BY DEF RecordFailure
<1>3. CASE ReadEOF
  BY <1>1, <1>2, <1>3 DEF ReadEOF
<1>4. CASE ReadBad
  BY <1>2, <1>4 DEF ReadBad, ContextEnded
<1>5. ASSUME NEW e \in Event, ReadEvent(e) PROVE failure' # {}
  <2>1. delivered # Append(delivered, e)
    BY <1>1
  <2> QED BY <1>2, <1>5, <2>1 DEF ReadEvent
<1>6. CASE Cancel \/ Open \/ Recv \/ Close \/ UNCHANGED vars
  BY <1>6 DEF Cancel, Open, Recv, Close, vars
<1> QED BY <1>3, <1>4, <1>5, <1>6 DEF Next

\* A recorded failure is kept by every step, and Close returns it.
LEMMA FailureKept ==
  ASSUME IInv, [Next]_vars, failure # {}
  PROVE  /\ UNCHANGED <<failure, delivered, finished>>
         /\ closed' => closeOutcome' = failure
<1> USE DEF IInv, progress, closing
<1>1. pc = "idle"
  BY DEF Control, TypeOK
<1>2. CASE Cancel
  BY <1>2 DEF Cancel, Control
<1>3. CASE Close
  BY <1>3 DEF Close, CloseResult
<1>4. CASE UNCHANGED vars
  BY <1>4 DEF vars, Control
<1>5. ~(Open \/ Recv \/ ReadEOF \/ ReadBad) /\ \A e \in Event : ~ReadEvent(e)
  BY <1>1 DEF Open, Recv, ReadEOF, ReadBad, ReadEvent
<1> QED BY <1>2, <1>3, <1>4, <1>5 DEF Next

\* What is recorded first is of the context exactly when the context decides.
LEMMA FailureNamed ==
  ASSUME failure = {}, [Next]_vars
  PROVE  /\ "context" \in failure' => ctxDone /\ "interrupted" \in failure'
         /\ "read" \in failure' => ~ctxDone
<1>1. ASSUME NEW err, RecordFailure(err)
      PROVE  err \subseteq failure' /\ failure' \subseteq err \cup {"close"}
  BY <1>1 DEF RecordFailure, CloseErrors
<1>2. CASE Recv
  BY <1>1, <1>2 DEF Recv, ContextEnded
<1>3. CASE ReadEOF
  <2>1. RecordFailure({"interrupted"}) \/ failure' \in CloseErrors
    BY <1>3 DEF ReadEOF
  <2>2. "context" \notin failure' /\ "read" \notin failure'
    BY <1>1, <2>1 DEF CloseErrors
  <2> QED BY <2>2
<1>4. CASE ReadBad
  <2>1. CASE RecordFailure(IF ctxDone THEN ContextEnded ELSE {"read"})
    <3>1. CASE ctxDone
      BY <1>1, <2>1, <3>1 DEF ContextEnded
    <3>2. CASE ~ctxDone
      BY <1>1, <2>1, <3>2
    <3> QED BY <3>1, <3>2
  <2>2. CASE RecordFailure({"invalid"})
    BY <1>1, <2>2
  <2> QED BY <1>4, <2>1, <2>2 DEF ReadBad
<1>5. ASSUME NEW e \in Event, ReadEvent(e)
      PROVE  "context" \notin failure' /\ "read" \notin failure'
  <2>1. RecordFailure({"invalid"}) \/ UNCHANGED failure
    BY <1>5 DEF ReadEvent
  <2> QED BY <1>1, <2>1
<1>6. CASE Cancel \/ Open \/ Close \/ UNCHANGED vars
  BY <1>6 DEF Cancel, Open, Close, vars
<1> QED BY <1>2, <1>3, <1>4, <1>5, <1>6 DEF Next

\* A failed Recv is recorded, as the context's if that ended, and nothing comes
\* after it, through Close too (stream.go:73-75, 79-81, 97-101, 142-145, 155-161).
THEOREM FailuresStick == Spec => FailureIsFinal
<1>1. ASSUME IInv, IInv', [Next]_vars
      PROVE  /\ (pc = "reading" /\ pc' = "idle" /\ UNCHANGED <<delivered, finished>>)
                  => failure' # {}
             /\ failure = {} => /\ "context" \in failure' => ctxDone /\ "interrupted" \in failure'
                                /\ "read" \in failure' => ~ctxDone
             /\ failure # {} => /\ UNCHANGED <<failure, delivered, finished>>
                                /\ closed' => closeOutcome' = failure
  BY <1>1, ReadOutcome, FailureKept, FailureNamed
<1> QED BY <1>1, InductiveInvariant, PTL DEF Spec, FailureIsFinal
------------------------------------------------------------------------------
LEMMA ValidatedIsWellFormed ==
  ASSUME IInv' PROVE Delivery!WellFormed(delivered')
<1>1. Validated' /\ delivered' \in Seq(Event)
  BY DEF IInv, TypeOK
<1>2. DOMAIN delivered' = 1 .. Len(delivered')
  BY <1>1
<1>3. ASSUME NEW k \in DOMAIN delivered'
      PROVE  delivered'[k].call = delivered'[1].call
  <2>1. 1 \in DOMAIN delivered' /\ delivered' # <<>>
    BY <1>1, <1>2, <1>3
  <2>2. PICK c : c \in sequence'
    BY <1>1, <2>1 DEF Validated
  <2> QED BY <1>1, <1>3, <2>1, <2>2 DEF Validated
<1>4. \A k \in DOMAIN delivered' :
        /\ delivered'[k].sequence = k - 1
        /\ delivered'[k].type = "accepted" <=> k = 1
        /\ delivered'[k].type = "terminal" => k = Len(delivered')
  BY <1>1 DEF Validated
<1> QED BY <1>3, <1>4 DEF Delivery!WellFormed

\* A step that records a failure ends the abstract stream.
LEMMA FailureEnds ==
  ASSUME ~closed, failure = {}, failure' # {}, UNCHANGED delivered
  PROVE  Delivery!Next
BY DEF Status, Delivery!Next, Delivery!End

LEMMA ReadEventRefines ==
  ASSUME IInv, IInv', NEW e \in Event, ReadEvent(e)
  PROVE  Delivery!Next
<1> USE DEF IInv, progress, closing
<1>1. ~closed /\ failure = {} /\ ~finished /\ UNCHANGED <<closed, finished>>
  BY DEF ReadEvent, Control
<1>2. CASE RecordFailure({"invalid"}) /\ UNCHANGED delivered
  <2>1. failure' # {}
    BY <1>2 DEF RecordFailure
  <2> QED BY <1>1, <1>2, <2>1, FailureEnds
<1>3. CASE delivered' = Append(delivered, e) /\ UNCHANGED failure
  <2>1. Delivery!WellFormed(delivered')
    BY ValidatedIsWellFormed
  <2>2. e \in Delivery!Event
    BY DEF Event, Call, Delivery!Event, Delivery!Call
  <2>3. Status = "open" /\ Status' = "open"
    BY <1>1, <1>3 DEF Status
  <2> QED BY <1>3, <2>1, <2>2, <2>3 DEF Delivery!Next, Delivery!Deliver
<1> QED BY <1>2, <1>3 DEF ReadEvent

LEMMA ReadEOFRefines ==
  ASSUME IInv, ReadEOF
  PROVE  Delivery!Next
<1> USE DEF IInv, progress, closing
<1>1. ~closed /\ failure = {} /\ ~finished /\ UNCHANGED <<closed, delivered>>
  BY DEF ReadEOF, Control
<1>2. CASE failure' # {}
  BY <1>1, <1>2, FailureEnds
<1>3. CASE failure' = {}
  <2>1. EndsClean /\ finished'
    BY <1>3 DEF ReadEOF, RecordFailure
  <2>2. Delivery!Completed(delivered)
    BY <2>1 DEF EndsClean, Validated, Delivery!Completed
  <2> QED BY <1>1, <1>3, <2>1, <2>2 DEF Status, Delivery!Next, Delivery!Complete
<1> QED BY <1>2, <1>3

LEMMA StepRefines ==
  ASSUME IInv, IInv', [Next]_vars
  PROVE  [Delivery!Next]_(Delivery!vars)
<1> USE DEF IInv, progress, closing
<1>1. ASSUME UNCHANGED <<closed, failure, finished, delivered>>
      PROVE  UNCHANGED Delivery!vars
  BY <1>1 DEF Delivery!vars, Status
<1>2. CASE Cancel \/ Open \/ UNCHANGED vars
  BY <1>1, <1>2 DEF Cancel, Open, vars
<1>3. CASE Recv
  <2>1. CASE UNCHANGED failure
    BY <1>1, <1>3, <2>1 DEF Recv
  <2>2. CASE RecordFailure(ContextEnded)
    <3>1. failure' # {}
      BY <2>2 DEF RecordFailure, ContextEnded
    <3> QED BY <1>3, <3>1, FailureEnds DEF Recv
  <2> QED BY <1>3, <2>1, <2>2 DEF Recv
<1>4. CASE ReadBad
  <2>1. failure' # {}
    BY <1>4 DEF ReadBad, RecordFailure, ContextEnded
  <2> QED BY <1>4, <2>1, FailureEnds DEF ReadBad, Control
<1>5. CASE Close
  <2>1. CASE failure # {}
    BY <1>5, <2>1 DEF Close, Delivery!vars, Status
  <2>2. CASE failure = {}
    BY <1>5, <2>2 DEF Close, Status, Delivery!Next, Delivery!End
  <2> QED BY <2>1, <2>2
<1> QED BY <1>2, <1>3, <1>4, <1>5, ReadEventRefines, ReadEOFRefines DEF Next

\* Recv and Close implement the result stream that the consumer is promised
\* (stream.go:69-153).
THEOREM Refinement == Spec => ImplementsResultDelivery
<1>1. Init => Delivery!Init
  BY DEF Init, Status, Delivery!Init
<1> QED BY <1>1, StepRefines, InductiveInvariant, PTL
           DEF Spec, ImplementsResultDelivery, Delivery!Spec
==============================================================================
