------------------------------ MODULE SSEFrame ------------------------------
(***************************************************************************)
(* readSSEFrame and readSSELine, which client/stream.go and                *)
(* agent/client.go have in the same form: one frame is a line of data and  *)
(* a blank line, read through a bufio.Reader that hands out at most its    *)
(* buffer at a time.  After a failed Recv and after the end the consumer   *)
(* of agent/client.go may read on; that of client/stream.go may not, which *)
(* is one of the behaviours here.                                          *)
(***************************************************************************)
EXTENDS Naturals, SequencesExt

\* "d" is the prefix "data: ", one byte wide here, "n" the newline, "r" a
\* carriage return, "s" a byte that makes the JSON invalid or not compact, and
\* "x" any other.
Byte == {"d", "x", "r", "s", "n"}

CONSTANTS
  Wire,    \* what the peer may send until it ends the body
  Limit,   \* the configured limits
  Buffer   \* sizes of the reader's buffer

ASSUME WireAssumption == Wire \subseteq Seq(Byte)
ASSUME SizesAssumption == Limit \subseteq Nat /\ Buffer \subseteq Nat \ {0}

VARIABLES
  wire, limit, buffer,
  position,  \* number of bytes taken from the reader
  start,     \* where the frame that is being read begins
  pc,        \* "idle", in the "data line" or "blank line", "eof" or "failed"
  line,      \* the local variable line of readSSELine
  data,      \* the local variable line of readSSEFrame
  stopped,   \* the position at which the last Recv that failed left the reader
  delivered  \* the payloads that were returned, and where their frames began

config == <<wire, limit, buffer>>
vars   == <<config, position, start, pc, line, data, stopped, delivered>>

Init ==
  /\ wire \in Wire /\ limit \in Limit /\ buffer \in Buffer
  /\ position = 0 /\ start = 0
  /\ pc = "idle"
  /\ line = <<>> /\ data = <<>> /\ delivered = <<>>
  /\ stopped = {}

\* Mutant: what was read of a line by a Recv that failed is used again.
RecvKeepsLine ==
  /\ pc \in {"idle", "failed", "eof"}
  /\ pc' = "data line"
  /\ start' = position
  /\ UNCHANGED <<config, position, line, data, stopped, delivered>>

\* Recv calls readSSEFrame.
Recv ==
  /\ pc \in {"idle", "failed", "eof"}
  /\ pc' = "data line"
  /\ start' = position
  /\ line' = <<>>
  /\ UNCHANGED <<config, position, data, stopped, delivered>>

\* What ReadSlice('\n') returns: up to the newline, a full buffer, or the rest.
Slice ==
  LET n    == IF position + buffer < Len(wire) THEN buffer ELSE Len(wire) - position
      ends == {i \in 1 .. n : wire[position + i] = "n"}
  IN  SubSeq(wire, position + 1,
             position + IF ends = {} THEN n ELSE CHOOSE i \in ends : \A j \in ends : i <= j)

\* Mutant: the limit is looked at only when the line is complete.
TooLongWhenComplete(bytes) == Len(bytes) > limit /\ Last(bytes) = "n"

TooLong(bytes) == Len(bytes) > limit

\* The reader stays where it is then.
Fail ==
  /\ pc' = "failed" /\ stopped' = {position'}
  /\ UNCHANGED <<start, line, data, delivered>>

\* readSSELine returns io.EOF; in the blank line that is an error like others.
EndsBetweenFrames(read) == pc = "data line" /\ read = <<>>

GoodData(bytes) == bytes[1] = "d" /\ ~Contains(bytes, "r")

\* The line that ends a frame.
Blank(bytes) == bytes = <<"n">>

Payload == SubSeq(data, 2, Len(data) - 1)

Delivery == [at |-> start, payload |-> Payload]

Compact(payload) == payload # <<>> /\ ~Contains(payload, "s")

\* Mutant: a frame of exactly the limit is refused.
FitsBelowLimit(blank) ==
  Blank(blank) /\ Len(data) + Len(blank) < limit /\ Compact(Payload)

\* The checks of readSSEFrame when both lines are there.
Fits(blank) ==
  Blank(blank) /\ Len(data) + Len(blank) <= limit /\ Compact(Payload)

\* A line is complete: go on to the blank line, or return the payload.
EndLine(read) ==
  \/ /\ pc = "data line" /\ GoodData(read)
     /\ pc' = "blank line" /\ data' = read /\ line' = <<>>
     /\ UNCHANGED <<start, stopped, delivered>>
  \/ pc = "data line" /\ ~GoodData(read) /\ Fail
  \/ /\ pc = "blank line" /\ Fits(read)
     /\ pc' = "idle" /\ start' = position' /\ delivered' = Append(delivered, Delivery)
     /\ UNCHANGED <<line, data, stopped>>
  \/ pc = "blank line" /\ ~Fits(read) /\ Fail

\* One turn of the loop of readSSELine.
ReadSlice ==
  /\ pc \in {"data line", "blank line"}
  /\ position' = position + Len(Slice)
  /\ LET read == line \o Slice
     IN  \/ TooLong(read) /\ Fail
         \/ ~TooLong(read) /\ Contains(Slice, "n") /\ EndLine(read)
         \/ /\ ~TooLong(read) /\ ~Contains(Slice, "n") /\ Len(Slice) = buffer
            /\ line' = read
            /\ UNCHANGED <<pc, start, data, stopped, delivered>>
         \/ /\ ~TooLong(read) /\ ~Contains(Slice, "n") /\ Len(Slice) < buffer
            /\ \/ /\ EndsBetweenFrames(read) /\ pc' = "eof"
                  /\ UNCHANGED <<start, line, data, stopped, delivered>>
               \/ ~EndsBetweenFrames(read) /\ Fail
  /\ UNCHANGED config

\* ReadSlice returns another error, and what has arrived of the line: the
\* connection breaks.
Break ==
  /\ pc \in {"data line", "blank line"}
  /\ \E n \in 0 .. Len(Slice) :
       ~Contains(SubSeq(Slice, 1, n), "n") /\ position' = position + n
  /\ Fail
  /\ UNCHANGED config

Next == Recv \/ ReadSlice \/ Break

Spec == Init /\ [][Next]_vars
------------------------------------------------------------------------------
\* Type invariant of the framing.
TypeOK ==
  /\ wire \in Seq(Byte) /\ limit \in Limit /\ buffer \in Buffer
  /\ position \in 0 .. Len(wire) /\ start \in 0 .. position
  /\ pc \in {"idle", "data line", "blank line", "eof", "failed"}
  /\ line \in Seq(Byte) /\ data \in Seq(Byte)
  /\ stopped \subseteq Nat
  /\ delivered \in Seq([at : Nat, payload : Seq(Byte) \ {<<>>}])

\* A frame, as a peer writes it.
Frame(payload) == <<"d">> \o payload \o <<"n", "n">>

\* Where the frame of the k-th payload ends.
After(k) == IF k = 0 THEN 0 ELSE delivered[k].at + Len(delivered[k].payload) + 3

\* What is returned stands in the body as a frame, behind the one before.  No
\* byte is used twice and none is lost unseen: each Recv begins right behind the
\* last frame returned or where the Recv that failed last left the reader.  This
\* may be inside a line that was too long, and then the tail of that line, if it
\* reads as a frame, is returned.  A clean end leaves nothing unread.  All this
\* however the bytes fall into slices (stream.go:171-222, client.go:477-531).
DeliveredIsWhatWasSent ==
  /\ \A k \in DOMAIN delivered :
       /\ After(k - 1) <= delivered[k].at /\ After(k) <= start
       /\ SubSeq(wire, delivered[k].at + 1, After(k)) = Frame(delivered[k].payload)
  /\ pc # "failed" => start \in {After(Len(delivered))} \cup stopped
  /\ pc = "eof" => start = Len(wire)

\* A frame within the limit begins at start.
FrameAtStart ==
  \E n \in 4 .. limit :
    /\ start + n <= Len(wire)
    /\ \E payload \in {SubSeq(wire, start + 2, start + n - 2)} :
         /\ SubSeq(wire, start + 1, start + n) = Frame(payload)
         /\ \A bad \in {"n", "r", "s"} : ~Contains(payload, bad)

\* Unless the connection breaks, readSSEFrame does not refuse a frame within
\* the limit, one of exactly the limit included (stream.go:179-196, client.go:485-505).
RefusedForCause == [][ReadSlice /\ pc' = "failed" => ~FrameAtStart]_vars

\* The peer cannot make the reader keep a line that is longer than the limit,
\* complete or not: a line is over it only within the turn that appends the last
\* slice, by at most one buffer, and is dropped there (stream.go:200-213).
BoundedMemory == Len(line) <= limit /\ Len(data) <= limit
==============================================================================
