-------------------------- MODULE AgentStreamProofs --------------------------
(***************************************************************************)
(* Proofs about AgentStream for any identifiers and any bound on the       *)
(* sequence numbers, and whatever a refusal does to the validator.         *)
(***************************************************************************)
EXTENDS AgentStream, TLAPS

\* What was delivered passed one validator, built for the parent's context and
\* the invocation that InvocationID names.
Validated ==
  /\ delivered # <<>> => sequence # {}
  /\ \A c \in sequence : /\ invocationID = {c.id}
                         /\ c.root = context.root /\ c.trace = context.trace
                         /\ \A k \in DOMAIN delivered : delivered[k].call = c
  /\ \A k \in DOMAIN delivered :
       /\ delivered[k].sequence = k - 1
       /\ delivered[k].type = "accepted" <=> k = 1
       /\ delivered[k].type = "terminal" => k = Len(delivered)

\* How the control point, the flags and the body go together.
Control ==
  /\ pc # "streaming" => ~closed /\ ~finished /\ ~bodyClosed
  /\ pc = "opening" => body = "none"
  /\ pc = "refused" => body \in {"none", "closed"}
  /\ pc = "streaming" => body = IF bodyClosed THEN "closed" ELSE "open"
  /\ bodyClosed <=> closed \/ finished

IInv == TypeOK /\ Validated /\ Control
------------------------------------------------------------------------------
LEMMA InitIInv == Init => IInv
<1> SUFFICES ASSUME Init PROVE IInv
  OBVIOUS
<1>1. TypeOK
  <2>1. delivered \in Seq(Event) /\ closeOutcome \in SUBSET {"interrupted", "close"}
    BY DEF Init
  <2>2. sequence \in {{}} \cup {{c} : c \in Call}
    BY DEF Init
  <2>3. invocationID \in {{}} \cup {{i} : i \in Id}
    BY DEF Init
  <2> QED BY <2>1, <2>2, <2>3 DEF Init, TypeOK
<1>2. Validated
  BY DEF Init, Validated
<1>3. Control
  BY DEF Init, Control
<1> QED BY <1>1, <1>2, <1>3 DEF IInv

LEMMA OpenStep ==
  ASSUME IInv, Open
  PROVE  IInv'
<1> USE DEF IInv, Open, validation, closing
<1>1. TypeOK'
  BY DEF TypeOK, RefusedBody, Closing
<1>2. Validated'
  BY DEF Validated
<1>3. Control'
  BY DEF Control, RefusedBody, Closing
<1> QED BY <1>1, <1>2, <1>3

LEMMA RecvBadStep ==
  ASSUME IInv, RecvBad \/ UNCHANGED vars
  PROVE  IInv'
<1> USE DEF IInv, validation, closing, bodyVars
<1>1. /\ transport' \in {"open", "eof", "failed"}
      /\ UNCHANGED <<pc, context, validation, closing, finished, bodyVars>>
  BY DEF RecvBad, vars, TypeOK
<1>2. TypeOK'
  BY <1>1 DEF TypeOK
<1>3. Validated'
  BY <1>1 DEF Validated
<1>4. Control'
  BY <1>1 DEF Control
<1> QED BY <1>2, <1>3, <1>4

\* closeBody ends with a closed body, whoever closed it.
LEMMA BodyIsClosed ==
  ASSUME Control, pc = "streaming", bodyClosed \in BOOLEAN, CloseBody
  PROVE  bodyClosed' = TRUE /\ body' = "closed"
BY DEF Control, CloseBody, Closing

LEMMA RecvEOFStep ==
  ASSUME IInv, RecvEOF
  PROVE  IInv'
<1> USE DEF IInv, validation, closing, bodyVars
<1>1. /\ pc = "streaming" /\ ~closed /\ ~finished
      /\ transport' = "eof" /\ UNCHANGED <<pc, context, validation, closing>>
  BY DEF RecvEOF, Receiving
<1>2. Validated'
  BY <1>1 DEF Validated
<1>3. CASE EndsClean
  <2>1. finished' = TRUE /\ bodyClosed' = TRUE /\ body' = "closed"
    BY <1>1, <1>3, BodyIsClosed DEF RecvEOF, TypeOK
  <2>2. TypeOK'
    BY <1>1, <2>1 DEF TypeOK
  <2> QED BY <1>1, <1>2, <2>1, <2>2 DEF Control
<1>4. CASE ~EndsClean
  <2>1. UNCHANGED <<finished, bodyVars>>
    BY <1>4 DEF RecvEOF
  <2>2. TypeOK'
    BY <1>1, <2>1 DEF TypeOK
  <2> QED BY <1>1, <1>2, <2>1, <2>2 DEF Control
<1> QED BY <1>3, <1>4

LEMMA CloseStep ==
  ASSUME IInv, Close
  PROVE  IInv'
<1> USE DEF IInv, validation, closing
<1>1. /\ pc = "streaming" /\ closed' = TRUE
      /\ UNCHANGED <<pc, transport, context, validation, finished>>
  BY DEF Close
<1>2. bodyClosed' = TRUE /\ body' = "closed"
  BY <1>1, BodyIsClosed DEF Close, TypeOK
<1>3. closeOutcome' \in SUBSET {"interrupted", "close"}
  BY DEF Close, Interruption
<1>4. TypeOK'
  BY <1>1, <1>2, <1>3 DEF TypeOK
<1>5. Validated'
  BY <1>1 DEF Validated
<1>6. Control'
  BY <1>1, <1>2 DEF Control
<1> QED BY <1>4, <1>5, <1>6

\* The validator is the one there is, or one that is built for the parent's
\* context and agrees with what was delivered, which is nothing.
LEMMA ValidatorStep ==
  ASSUME IInv, NEW e \in Event, RecvEvent(e)
  PROVE  /\ sequence' \in {{c} : c \in Call}
         /\ invocationID' \in {{i} : i \in Id}
         /\ \A c \in sequence' : /\ invocationID' = {c.id}
                                 /\ c.root = context.root /\ c.trace = context.trace
                                 /\ \A k \in DOMAIN delivered : delivered[k].call = c
<1> USE DEF IInv
<1>1. /\ sequence' = IF sequence = {} THEN {Bound(e)} ELSE sequence
      /\ invocationID' = IF sequence = {} THEN {e.call.id} ELSE invocationID
  BY DEF RecvEvent
<1>2. CASE sequence = {}
  <2>1. e.call.id \in Id /\ context.root \in Root /\ context.trace \in Trace
    BY DEF Event, Call, TypeOK
  <2>2. /\ Bound(e) \in Call /\ Bound(e).id = e.call.id
        /\ Bound(e).root = context.root /\ Bound(e).trace = context.trace
    BY <2>1 DEF Bound, Call
  <2>3. delivered = <<>>
    BY <1>2 DEF Validated
  <2>4. \A k \in DOMAIN delivered : FALSE
    BY <2>3
  <2>5. sequence' = {Bound(e)} /\ invocationID' = {e.call.id}
    BY <1>1, <1>2
  <2> QED BY <2>1, <2>2, <2>4, <2>5
<1>3. CASE sequence # {}
  <2>1. sequence' = sequence /\ invocationID' = invocationID
    BY <1>1, <1>3
  <2>2. PICK c \in Call : sequence = {c}
    BY <1>3 DEF TypeOK
  <2>3. /\ invocationID = {c.id} /\ c.root = context.root /\ c.trace = context.trace
        /\ \A k \in DOMAIN delivered : delivered[k].call = c
    BY <2>2 DEF Validated
  <2>4. c.id \in Id
    BY DEF Call
  <2> QED BY <2>1, <2>2, <2>3, <2>4
<1> QED BY <1>2, <1>3

\* An accepted event extends what was delivered by its next element.
LEMMA RecvEventStep ==
  ASSUME IInv, NEW e \in Event, RecvEvent(e)
  PROVE  IInv'
<1> USE DEF closing, bodyVars
<1>1. UNCHANGED <<pc, transport, context, closing, finished, bodyVars>>
  BY DEF RecvEvent
<1>2. Control'
  BY <1>1 DEF IInv, Control
<1>3. PICK call \in sequence' :
        \/ Validates(e, call) /\ delivered' = Append(delivered, e) /\ UNCHANGED poisoned
        \/ ~Validates(e, call) /\ poisoned' \in {poisoned, TRUE} /\ UNCHANGED delivered
  BY DEF RecvEvent
<1>4. poisoned' \in BOOLEAN
  BY <1>3 DEF IInv, TypeOK
<1>5. ASSUME delivered' \in Seq(Event) PROVE TypeOK'
  BY <1>1, <1>4, <1>5, ValidatorStep DEF IInv, TypeOK
<1>6. CASE UNCHANGED delivered
  <2>1. delivered' \in Seq(Event) /\ sequence' # {}
    BY <1>6, ValidatorStep DEF IInv, TypeOK
  <2>2. Validated'
    BY <1>1, <1>6, <2>1, ValidatorStep DEF IInv, Validated
  <2> QED BY <1>2, <1>5, <2>1, <2>2 DEF IInv
<1>7. CASE Validates(e, call) /\ delivered' = Append(delivered, e)
  <2>1. /\ delivered \in Seq(Event) /\ delivered' \in Seq(Event) /\ delivered' # <<>>
        /\ DOMAIN delivered' = 1 .. Len(delivered) + 1 /\ Len(delivered') = Len(delivered) + 1
        /\ delivered'[Len(delivered) + 1] = e
        /\ \A k \in DOMAIN delivered : k \in 1 .. Len(delivered) /\ delivered'[k] = delivered[k]
    <3>1. delivered \in Seq(Event) /\ delivered' = Append(delivered, e)
      BY <1>7 DEF IInv, TypeOK
    <3> QED BY ONLY <3>1, e \in Event
  <2>2. /\ e.call = call /\ e.sequence = Len(delivered)
        /\ e.type = "accepted" <=> delivered = <<>>
        /\ delivered # <<>> => delivered[Len(delivered)].type # "terminal"
    BY <1>7 DEF Validates
  <2>3. \A k \in DOMAIN delivered :
          /\ delivered[k].sequence = k - 1
          /\ delivered[k].type = "accepted" <=> k = 1
          /\ delivered[k].type # "terminal"
    BY <2>1, <2>2 DEF IInv, Validated
  <2>4. sequence' = {call} /\ \A k \in DOMAIN delivered : delivered[k].call = call
    BY <1>3, ValidatorStep
  <2>5. \A k \in DOMAIN delivered' : k \in DOMAIN delivered \/ k = Len(delivered) + 1
    BY <2>1
  <2>6. \A k \in DOMAIN delivered' : delivered'[k].call = call
    BY <2>1, <2>2, <2>4, <2>5
  <2>7. \A k \in DOMAIN delivered' :
          /\ delivered'[k].sequence = k - 1
          /\ delivered'[k].type = "accepted" <=> k = 1
          /\ delivered'[k].type = "terminal" => k = Len(delivered')
    BY <2>1, <2>2, <2>3, <2>5
  <2>8. /\ invocationID' = {call.id}
        /\ call.root = context'.root /\ call.trace = context'.trace
    BY <1>1, <1>3, ValidatorStep
  <2>9. Validated'
    <3>1. \A c \in sequence' : /\ invocationID' = {c.id}
                               /\ c.root = context'.root /\ c.trace = context'.trace
                               /\ \A k \in DOMAIN delivered' : delivered'[k].call = c
      BY <2>4, <2>6, <2>8
    <3> QED BY <2>4, <2>7, <3>1 DEF Validated
  <2> QED BY <1>2, <1>5, <2>1, <2>9 DEF IInv
<1> QED BY <1>3, <1>6, <1>7

\* The inductive invariant holds whatever the router sends and whenever the
\* consumer calls Recv and Close (agent/client.go:205-366).
THEOREM InductiveInvariant == Spec => []IInv
<1>1. ASSUME IInv, [Next]_vars PROVE IInv'
  BY <1>1, OpenStep, RecvBadStep, RecvEOFStep, CloseStep, RecvEventStep DEF Next
<1> QED BY <1>1, InitIInv, PTL DEF Spec

\* The state stays in its type (agent/client.go:266-279).
THEOREM TypeCorrect == Spec => []TypeOK
BY InductiveInvariant, PTL DEF IInv

\* No way out of InvokeStream, Recv or Close leaves the body open or closes it
\* twice (agent/client.go:213-220, 301-303, 340-366).
THEOREM NoBodyLeak == Spec => []BodyReleased
<1>1. IInv => BodyReleased
  BY DEF IInv, TypeOK, Control, BodyReleased
<1> QED BY <1>1, InductiveInvariant, PTL

\* Every delivered event is of the nested invocation that InvocationID names and
\* of the parent's root Task and Trace (agent/client.go:320-335).
THEOREM DeliversOwn == Spec => []DeliveredBelongsToParent
<1>1. ASSUME IInv, NEW k \in DOMAIN delivered
      PROVE  /\ invocationID = {delivered[k].call.id}
             /\ delivered[k].call.root = context.root
             /\ delivered[k].call.trace = context.trace
  <2>1. delivered # <<>>
    <3>1. delivered \in Seq(Event)
      BY <1>1 DEF IInv, TypeOK
    <3> QED BY <1>1, <3>1
  <2>2. PICK c : c \in sequence
    BY <1>1, <2>1 DEF IInv, Validated
  <2> QED BY <1>1, <2>2 DEF IInv, Validated
<1>2. IInv => DeliveredBelongsToParent
  BY <1>1 DEF DeliveredBelongsToParent
<1> QED BY <1>2, InductiveInvariant, PTL
------------------------------------------------------------------------------
LEMMA ValidatedIsWellFormed ==
  ASSUME IInv' PROVE Delivery!WellFormed(delivered')
<1>1. Validated' /\ delivered' \in Seq(Event)
  BY DEF IInv, TypeOK
<1>2. DOMAIN delivered' = 1 .. Len(delivered')
  BY <1>1
<1>3. ASSUME NEW k \in DOMAIN delivered'
      PROVE  delivered'[k].call = delivered'[1].call
  <2>1. 1 \in DOMAIN delivered' /\ delivered' # <<>>
    BY <1>1, <1>2, <1>3
  <2>2. PICK c : c \in sequence'
    BY <1>1, <2>1 DEF Validated
  <2> QED BY <1>1, <1>3, <2>1, <2>2 DEF Validated
<1>4. \A k \in DOMAIN delivered' :
        /\ delivered'[k].sequence = k - 1
        /\ delivered'[k].type = "accepted" <=> k = 1
        /\ delivered'[k].type = "terminal" => k = Len(delivered')
  BY <1>1 DEF Validated
<1> QED BY <1>3, <1>4 DEF Delivery!WellFormed

LEMMA StepRefines ==
  ASSUME IInv, IInv', [Next]_vars
  PROVE  [Delivery!Next]_(Delivery!vars)
<1> USE DEF validation, closing
<1>1. CASE Open \/ RecvBad \/ UNCHANGED vars
  BY <1>1 DEF Open, RecvBad, vars, Delivery!vars
<1>2. CASE RecvEOF
  <2>1. ~closed /\ ~finished /\ UNCHANGED <<closed, delivered>>
    BY <1>2 DEF RecvEOF, Receiving
  <2>2. CASE EndsClean
    <3>1. finished' = TRUE /\ Delivery!Completed(delivered)
      BY <1>2, <2>2 DEF RecvEOF, EndsClean, Delivery!Completed
    <3> QED BY <2>1, <3>1 DEF Delivery!Next, Delivery!Complete
  <2>3. CASE ~EndsClean
    BY <1>2, <2>1, <2>3 DEF RecvEOF, Delivery!vars
  <2> QED BY <2>2, <2>3
<1>3. CASE Close
  BY <1>3 DEF Close, Delivery!Next, Delivery!End
<1>4. ASSUME NEW e \in Event, RecvEvent(e)
      PROVE  [Delivery!Next]_(Delivery!vars)
  <2>1. ~closed /\ ~finished /\ UNCHANGED <<closed, finished>>
    BY <1>4 DEF RecvEvent, Receiving
  <2>2. delivered' = Append(delivered, e) \/ UNCHANGED delivered
    BY <1>4 DEF RecvEvent
  <2>3. CASE UNCHANGED delivered
    BY <2>1, <2>3 DEF Delivery!vars
  <2>4. CASE delivered' = Append(delivered, e)
    <3>1. Delivery!WellFormed(delivered')
      BY ValidatedIsWellFormed
    <3>2. e \in Delivery!Event
      BY DEF Event, Call, Delivery!Event, Delivery!Call
    <3> QED BY <2>1, <2>4, <3>1, <3>2 DEF Delivery!Next, Delivery!Deliver
  <2> QED BY <2>2, <2>3, <2>4
<1> QED BY <1>1, <1>2, <1>3, <1>4 DEF Next

\* Recv and Close implement the result stream that the consumer is promised,
\* also for one that goes on after errors (agent/client.go:286-359).
THEOREM Refinement == Spec => ImplementsResultDelivery
<1>1. Init => Delivery!Init
  BY DEF Init, Delivery!Init
<1> QED BY <1>1, StepRefines, InductiveInvariant, PTL
           DEF Spec, ImplementsResultDelivery, Delivery!Spec
==============================================================================
