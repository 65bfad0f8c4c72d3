--------------------------- MODULE ResultDelivery ---------------------------
(***************************************************************************)
(* What both SDKs promise of a result stream, whatever the peer and the    *)
(* network do: the consumer sees a prefix of one invocation's result       *)
(* stream, in order and without gaps, and is told that the stream is       *)
(* complete only when it has the terminal event.                           *)
(***************************************************************************)
EXTENDS Naturals, Sequences

CONSTANTS
  Id, Root, Trace,  \* Invocation IDs, root Task IDs, Trace IDs
  MaxSequence       \* bound on the sequence numbers a peer sends

VARIABLES
  delivered,  \* the events Recv returned, in order
  status      \* "open", "complete" (clean io.EOF) or "ended"

vars == <<delivered, status>>

Call == [id : Id, root : Root, trace : Trace]

\* The four terminal outcomes are one type here, and the chunk index, which
\* grows with the sequence number, is left out.
Event == [type : {"accepted", "chunk", "terminal"}, sequence : 0 .. MaxSequence,
          call : Call]

\* s is a prefix of the result stream of one invocation.
WellFormed(s) ==
  \A k \in DOMAIN s :
    /\ s[k].sequence = k - 1
    /\ s[k].call = s[1].call
    /\ s[k].type = "accepted" <=> k = 1
    /\ s[k].type = "terminal" => k = Len(s)

Completed(s) == s # <<>> /\ s[Len(s)].type = "terminal"

Init == delivered = <<>> /\ status = "open"

Deliver ==
  /\ status = "open"
  /\ \E e \in Event : delivered' = Append(delivered, e)
  /\ WellFormed(delivered')
  /\ UNCHANGED status

Complete ==
  /\ status = "open"
  /\ Completed(delivered)
  /\ status' = "complete"
  /\ UNCHANGED delivered

\* A failure, or Close.
End ==
  /\ status \in {"open", "complete"}
  /\ status' = "ended"
  /\ UNCHANGED delivered

Next == Deliver \/ Complete \/ End

Spec == Init /\ [][Next]_vars
==============================================================================
