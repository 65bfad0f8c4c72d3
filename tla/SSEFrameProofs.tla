--------------------------- MODULE SSEFrameProofs ---------------------------
(***************************************************************************)
(* Proofs about SSEFrame: for every body the peer may send, every limit    *)
(* and every size of the reader's buffer.                                  *)
(***************************************************************************)
EXTENDS SSEFrame, SequenceTheorems, WellFoundedInduction, TLAPS

(***************************************************************************)
(* What has been read, as a part of the body: s stands in the wire behind  *)
(* its first from bytes.                                                   *)
(***************************************************************************)
Stands(s, from) ==
  from + Len(s) <= Len(wire) /\ \A i \in 1 .. Len(s) : s[i] = wire[from + i]

NoNewline(s) == \A i \in 1 .. Len(s) : s[i] # "n"

\* A complete line: one newline, at its end.
Line(s) == s # <<>> /\ s[Len(s)] = "n" /\ \A i \in 1 .. Len(s) - 1 : s[i] # "n"

\* Where readSSEFrame stands, in each of its two lines and outside.
DataLineRead ==
  pc = "data line" =>
    position = start + Len(line) /\ Stands(line, start) /\ NoNewline(line)

BlankLineRead ==
  pc = "blank line" =>
    /\ position = start + Len(data) + Len(line)
    /\ Stands(data, start) /\ Line(data) /\ GoodData(data)
    /\ Stands(line, start + Len(data)) /\ NoNewline(line)

Outside ==
  /\ pc \in {"idle", "eof"} => position = start
  /\ pc = "failed" => position \in stopped

IInv ==
  /\ TypeOK /\ BoundedMemory
  /\ DataLineRead /\ BlankLineRead /\ Outside
  /\ DeliveredIsWhatWasSent
------------------------------------------------------------------------------
\* A set of positions has a first one.
LEMMA First ==
  ASSUME NEW T, T \subseteq Nat, T # {}
  PROVE  \E i \in T : \A j \in T : i <= j
<1>1. PICK i \in T : \A j \in T : ~ (<<j, i>> \in OpToRel(<, Nat))
  BY WFMin, NatLessThanWellFounded
<1>2. ASSUME NEW j \in T PROVE i <= j
  <2>1. i \in Nat /\ j \in Nat
    OBVIOUS
  <2>2. ~ (<<j, i>> \in OpToRel(<, Nat))
    BY <1>1
  <2>3. ~ (j < i)
    BY <2>1, <2>2 DEF OpToRel
  <2> QED BY ONLY <2>1, <2>3
<1> QED BY <1>2

\* The sizes, as numbers.
LEMMA SizeFacts ==
  ASSUME TypeOK
  PROVE  /\ wire \in Seq(Byte) /\ Len(wire) \in Nat
         /\ limit \in Nat /\ buffer \in Nat /\ buffer > 0
         /\ position \in Nat /\ position <= Len(wire)
         /\ start \in Nat /\ start <= position
         /\ line \in Seq(Byte) /\ Len(line) \in Nat
         /\ data \in Seq(Byte) /\ Len(data) \in Nat
<1>1. /\ wire \in Seq(Byte) /\ line \in Seq(Byte) /\ data \in Seq(Byte)
      /\ limit \in Limit /\ buffer \in Buffer
      /\ position \in 0 .. Len(wire) /\ start \in 0 .. position
  BY DEF TypeOK
<1>2. Len(wire) \in Nat /\ Len(line) \in Nat /\ Len(data) \in Nat
  BY <1>1, LenProperties
<1>3. limit \in Nat /\ buffer \in Nat /\ buffer > 0
  <2>1. limit \in Nat /\ buffer \in Nat \ {0}
    BY <1>1, SizesAssumption
  <2> QED BY ONLY <2>1
<1>4. position \in Nat /\ position <= Len(wire)
  BY ONLY <1>1, <1>2
<1>5. start \in Nat /\ start <= position
  BY ONLY <1>1, <1>4
<1> QED BY <1>1, <1>2, <1>3, <1>4, <1>5

\* The l bytes behind the first a.
LEMMA Part ==
  ASSUME NEW s \in Seq(Byte), NEW a \in Nat, NEW l \in Nat, a + l <= Len(s)
  PROVE  LET part == SubSeq(s, a + 1, a + l)
         IN  /\ part \in Seq(Byte) /\ Len(part) = l
             /\ \A i \in 1 .. l : part[i] = s[a + i]
<1> DEFINE first == a + 1
           last  == a + l
<1>1. first \in Int /\ last \in Int /\ Len(s) \in Nat
  BY LenProperties
<1>2. \A i \in first .. last : s[i] \in Byte
  <2> SUFFICES ASSUME NEW i \in first .. last
               PROVE  i \in 1 .. Len(s)
    BY ElementOfSeq
  <2> QED BY <1>1
<1>3. last - first + 1 = l /\ (first <= last <=> l # 0) /\ \A i \in 1 .. l : first + i - 1 = a + i
  OBVIOUS
<1> HIDE DEF first, last
<1>4. /\ SubSeq(s, first, last) \in Seq(Byte)
      /\ Len(SubSeq(s, first, last)) = IF first <= last THEN last - first + 1 ELSE 0
      /\ \A i \in 1 .. last - first + 1 : SubSeq(s, first, last)[i] = s[first + i - 1]
  BY ONLY <1>1, <1>2, SubSeqProperties
<1>5. Len(SubSeq(s, first, last)) = l /\ \A i \in 1 .. l : SubSeq(s, first, last)[i] = s[a + i]
  BY ONLY <1>3, <1>4
<1> QED BY <1>4, <1>5 DEF first, last

\* What ReadSlice hands out is a part of the body behind what was read: it is
\* no longer than the buffer, a newline is its last byte, and when it has none
\* the buffer is full or the body is at its end.
LEMMA SliceFacts ==
  ASSUME TypeOK
  PROVE  /\ Slice \in Seq(Byte) /\ Len(Slice) \in Nat /\ Len(Slice) <= buffer
         /\ Stands(Slice, position)
         /\ Contains(Slice, "n") => Line(Slice)
         /\ ~Contains(Slice, "n") => NoNewline(Slice)
         /\ ~Contains(Slice, "n") /\ Len(Slice) < buffer => position + Len(Slice) = Len(wire)
<1> DEFINE n    == IF position + buffer < Len(wire) THEN buffer ELSE Len(wire) - position
           ends == {i \in 1 .. n : wire[position + i] = "n"}
           len  == IF ends = {} THEN n ELSE CHOOSE i \in ends : \A j \in ends : i <= j
<1>1. /\ wire \in Seq(Byte) /\ Len(wire) \in Nat /\ buffer \in Nat
      /\ position \in Nat /\ position <= Len(wire)
  BY SizeFacts
<1>2. n \in Nat /\ n <= buffer /\ position + n <= Len(wire) /\ (n < buffer => position + n = Len(wire))
  BY <1>1
<1> HIDE DEF n
<1>3. /\ len \in Nat /\ len <= n
      /\ \A i \in 1 .. len : i < len => wire[position + i] # "n"
      /\ \/ len > 0 /\ wire[position + len] = "n"
         \/ len = n /\ \A i \in 1 .. len : wire[position + i] # "n"
  <2>1. CASE ends = {}
    <3>1. len = n /\ \A i \in 1 .. n : wire[position + i] # "n"
      BY <2>1
    <3> HIDE DEF len, ends
    <3> QED BY ONLY <3>1, <1>2
  <2>2. CASE ends # {}
    <3>1. ends \subseteq Nat
      OBVIOUS
    <3>2. \E i \in ends : \A j \in ends : i <= j
      <4> HIDE DEF ends
      <4> QED BY ONLY <3>1, <2>2, First
    <3>3. len \in ends /\ \A j \in ends : len <= j
      <4>1. len = CHOOSE i \in ends : \A j \in ends : i <= j
        BY <2>2
      <4> HIDE DEF ends, len
      <4> QED BY ONLY <3>2, <4>1
    <3> HIDE DEF len
    <3>4. len \in 1 .. n /\ wire[position + len] = "n"
      BY ONLY <3>3
    <3>5. ASSUME NEW i \in 1 .. len, i < len
          PROVE  wire[position + i] # "n"
      <4>1. i \in 1 .. n
        BY ONLY <3>4, <1>2
      <4>2. ~ (len <= i)
        BY ONLY <3>4, <1>2, <3>5, <4>1
      <4> QED BY <3>3, <4>1, <4>2
    <3> QED BY ONLY <3>4, <3>5, <1>2
  <2> QED BY <2>1, <2>2
<1>4. Slice = SubSeq(wire, position + 1, position + len)
  BY DEF Slice, n
<1> HIDE DEF ends, len
<1>5. /\ Slice \in Seq(Byte) /\ Len(Slice) = len
      /\ \A i \in 1 .. len : Slice[i] = wire[position + i]
  <2>1. position + len <= Len(wire)
    BY ONLY <1>1, <1>2, <1>3
  <2> QED BY <1>1, <1>3, <1>4, <2>1, Part
<1>6. Stands(Slice, position)
  BY ONLY <1>1, <1>2, <1>3, <1>5 DEF Stands
<1>7. CASE len > 0 /\ wire[position + len] = "n"
  <2>1. Line(Slice)
    <3>1. Slice # <<>>
      BY ONLY <1>5, <1>7, <1>3
    <3>2. Slice[Len(Slice)] = "n"
      BY ONLY <1>5, <1>7, <1>3
    <3>3. \A i \in 1 .. Len(Slice) - 1 : Slice[i] # "n"
      BY ONLY <1>5, <1>7, <1>3
    <3> QED BY <3>1, <3>2, <3>3 DEF Line
  <2>2. Contains(Slice, "n")
    BY ONLY <1>5, <1>7, <1>3 DEF Contains
  <2>3. Len(Slice) \in Nat /\ Len(Slice) <= buffer
    BY ONLY <1>1, <1>2, <1>3, <1>5
  <2> QED BY <2>1, <2>2, <2>3, <1>5, <1>6
<1>8. CASE len = n /\ \A i \in 1 .. len : wire[position + i] # "n"
  <2>1. NoNewline(Slice) /\ ~Contains(Slice, "n")
    BY ONLY <1>5, <1>8 DEF Contains, NoNewline
  <2> QED BY ONLY <2>1, <1>2, <1>3, <1>5, <1>6, <1>8
<1> QED BY <1>3, <1>7, <1>8

Read == line \o Slice

\* What readSSELine has of a line after one more slice, when the line begins
\* behind the first from bytes of the body.
LEMMA ReadFacts ==
  ASSUME TypeOK, NEW from \in Nat,
         Stands(line, from), position = from + Len(line), NoNewline(line)
  PROVE  /\ Read \in Seq(Byte) /\ Len(Read) \in Nat /\ Len(Read) = Len(line) + Len(Slice)
         /\ from + Len(Read) = position + Len(Slice) /\ position + Len(Slice) <= Len(wire)
         /\ Stands(Read, from)
         /\ Contains(Slice, "n") => Line(Read)
         /\ ~Contains(Slice, "n") => NoNewline(Read)
<1>1. /\ position \in Nat /\ Len(wire) \in Nat
      /\ line \in Seq(Byte) /\ Len(line) \in Nat
  BY SizeFacts
<1>2. Slice \in Seq(Byte) /\ Len(Slice) \in Nat /\ Stands(Slice, position)
  BY SliceFacts
<1>3. /\ Read \in Seq(Byte) /\ Len(Read) = Len(line) + Len(Slice)
      /\ \A i \in 1 .. Len(line) + Len(Slice) :
           Read[i] = IF i <= Len(line) THEN line[i] ELSE Slice[i - Len(line)]
  BY <1>1, <1>2, ConcatProperties DEF Read
<1>4. position + Len(Slice) <= Len(wire) /\ from + Len(Read) = position + Len(Slice)
  BY ONLY <1>1, <1>2, <1>3, from \in Nat, position = from + Len(line) DEF Stands
<1>5. Stands(Read, from)
  <2> SUFFICES ASSUME NEW i \in 1 .. Len(Read)
               PROVE  Read[i] = wire[from + i]
    BY <1>1, <1>2, <1>3, <1>4 DEF Stands
  <2>1. CASE i <= Len(line)
    <3>1. i \in 1 .. Len(line) /\ Read[i] = line[i]
      BY ONLY <1>1, <1>2, <1>3, <2>1
    <3> QED BY <3>1 DEF Stands
  <2>2. CASE i > Len(line)
    <3>1. i - Len(line) \in 1 .. Len(Slice) /\ position + (i - Len(line)) = from + i
      BY ONLY <1>1, <1>2, <1>3, <2>2, from \in Nat, position = from + Len(line)
    <3>2. Read[i] = Slice[i - Len(line)]
      BY ONLY <1>1, <1>2, <1>3, <2>2
    <3> QED BY <1>2, <3>1, <3>2 DEF Stands
  <2> QED BY <1>1, <1>2, <1>3, <2>1, <2>2
<1>6. ASSUME Contains(Slice, "n")
      PROVE  Line(Read)
  <2>1. Slice # <<>> /\ Slice[Len(Slice)] = "n" /\ \A i \in 1 .. Len(Slice) - 1 : Slice[i] # "n"
    BY <1>6, SliceFacts DEF Line
  <2>2. Len(Slice) > 0
    BY <1>2, <2>1, EmptySeq
  <2>3. Read # <<>>
    BY ONLY <1>1, <1>2, <1>3, <2>2
  <2>4. Read[Len(Read)] = "n"
    <3>1. /\ Len(Read) \in 1 .. Len(line) + Len(Slice)
          /\ ~(Len(Read) <= Len(line)) /\ Len(Read) - Len(line) = Len(Slice)
      BY ONLY <1>1, <1>2, <1>3, <2>2
    <3> QED BY ONLY <1>3, <2>1, <3>1
  <2>5. ASSUME NEW i \in 1 .. Len(Read) - 1
        PROVE  Read[i] # "n"
    <3>1. CASE i <= Len(line)
      <4>1. i \in 1 .. Len(line) /\ i \in 1 .. Len(line) + Len(Slice)
        BY ONLY <1>1, <1>2, <1>3, <3>1
      <4> QED BY <1>1, <1>3, <3>1, <4>1 DEF NoNewline
    <3>2. CASE i > Len(line)
      <4>1. i - Len(line) \in 1 .. Len(Slice) - 1 /\ i \in 1 .. Len(line) + Len(Slice)
        BY ONLY <1>1, <1>2, <1>3, <3>2
      <4> QED BY ONLY <1>3, <2>1, <4>1, <3>2, <1>1
    <3> QED BY <1>1, <1>2, <1>3, <3>1, <3>2
  <2> QED BY <2>3, <2>4, <2>5 DEF Line
<1>7. ASSUME ~Contains(Slice, "n")
      PROVE  NoNewline(Read)
  <2>1. NoNewline(Slice)
    BY <1>7, SliceFacts
  <2> SUFFICES ASSUME NEW i \in 1 .. Len(Read)
               PROVE  Read[i] # "n"
    BY DEF NoNewline
  <2>2. CASE i <= Len(line)
    BY <1>1, <1>2, <1>3, <2>2 DEF NoNewline
  <2>3. CASE i > Len(line)
    <3>1. i - Len(line) \in 1 .. Len(Slice) /\ i \in 1 .. Len(line) + Len(Slice)
      BY ONLY <1>1, <1>2, <1>3, <2>3
    <3> QED BY ONLY <1>3, <2>1, <3>1, <2>3, <1>1 DEF NoNewline
  <2> QED BY <1>1, <1>2, <1>3, <2>2, <2>3
<1>8. Len(Read) \in Nat
  BY ONLY <1>1, <1>2, <1>3
<1> QED BY <1>3, <1>4, <1>5, <1>6, <1>7, <1>8

\* A frame byte by byte.
LEMMA FrameFacts ==
  ASSUME NEW payload \in Seq(Byte)
  PROVE  /\ Frame(payload) \in Seq(Byte) /\ Len(Frame(payload)) = Len(payload) + 3
         /\ Frame(payload)[1] = "d"
         /\ \A i \in 1 .. Len(payload) : Frame(payload)[i + 1] = payload[i]
         /\ Frame(payload)[Len(payload) + 2] = "n" /\ Frame(payload)[Len(payload) + 3] = "n"
<1>1. Len(payload) \in Nat
  BY LenProperties
<1> DEFINE front == <<"d">> \o payload
           d == <<"d">>
           nn == <<"n", "n">>
<1>2. d \in Seq(Byte) /\ Len(d) = 1 /\ d[1] = "d"
  BY DEF Byte
<1>3. nn \in Seq(Byte) /\ Len(nn) = 2 /\ nn[1] = "n" /\ nn[2] = "n"
  BY DEF Byte
<1> HIDE DEF d, nn
<1>4. /\ front \in Seq(Byte) /\ Len(front) = 1 + Len(payload)
      /\ \A i \in 1 .. 1 + Len(payload) : front[i] = IF i <= 1 THEN d[i] ELSE payload[i - 1]
  <2>1. front = d \o payload
    BY DEF d
  <2> HIDE DEF front
  <2>2. /\ d \o payload \in Seq(Byte) /\ Len(d \o payload) = Len(d) + Len(payload)
        /\ \A i \in 1 .. Len(d) + Len(payload) :
             (d \o payload)[i] = IF i <= Len(d) THEN d[i] ELSE payload[i - Len(d)]
    BY <1>2, ConcatProperties
  <2> QED BY ONLY <2>1, <2>2, <1>2
<1> HIDE DEF front
<1>5. /\ front \o nn \in Seq(Byte) /\ Len(front \o nn) = Len(front) + Len(nn)
      /\ \A i \in 1 .. Len(front) + Len(nn) :
           (front \o nn)[i] = IF i <= Len(front) THEN front[i] ELSE nn[i - Len(front)]
  BY <1>3, <1>4, ConcatProperties
<1>6. Frame(payload) = front \o nn
  BY DEF Frame, front, nn
<1>7. Len(Frame(payload)) = Len(payload) + 3
  BY ONLY <1>1, <1>3, <1>4, <1>5, <1>6
<1>8. Frame(payload)[1] = "d"
  BY ONLY <1>1, <1>2, <1>3, <1>4, <1>5, <1>6
<1>9. \A i \in 1 .. Len(payload) : Frame(payload)[i + 1] = payload[i]
  BY ONLY <1>1, <1>3, <1>4, <1>5, <1>6
<1>10. Frame(payload)[Len(payload) + 2] = "n" /\ Frame(payload)[Len(payload) + 3] = "n"
  BY ONLY <1>1, <1>3, <1>4, <1>5, <1>6
<1> QED BY <1>5, <1>6, <1>7, <1>8, <1>9, <1>10

\* A part of the body that has the bytes of a frame is that frame.
LEMMA FrameThere ==
  ASSUME NEW s \in Seq(Byte), NEW a \in Nat, NEW payload \in Seq(Byte),
         a + Len(payload) + 3 <= Len(s),
         s[a + 1] = "d",
         \A i \in 1 .. Len(payload) : s[a + 1 + i] = payload[i],
         s[a + Len(payload) + 2] = "n", s[a + Len(payload) + 3] = "n"
  PROVE  SubSeq(s, a + 1, a + Len(payload) + 3) = Frame(payload)
<1> DEFINE l == Len(payload) + 3
           part == SubSeq(s, a + 1, a + l)
           frame == Frame(payload)
<1>1. Len(payload) \in Nat /\ l \in Nat /\ a + l = a + Len(payload) + 3
  BY LenProperties
<1>2. part \in Seq(Byte) /\ Len(part) = l /\ \A i \in 1 .. l : part[i] = s[a + i]
  BY <1>1, Part
<1>3. /\ frame \in Seq(Byte) /\ Len(frame) = l /\ frame[1] = "d"
      /\ \A i \in 1 .. Len(payload) : frame[i + 1] = payload[i]
      /\ frame[Len(payload) + 2] = "n" /\ frame[Len(payload) + 3] = "n"
  BY FrameFacts
<1> HIDE DEF part, frame
<1>4. \A i \in 1 .. l : part[i] = frame[i]
  <2> SUFFICES ASSUME NEW i \in 1 .. l
               PROVE  s[a + i] = frame[i]
    BY <1>2
  <2>1. CASE i = 1
    BY <1>3, <2>1
  <2>2. CASE i \in 2 .. Len(payload) + 1
    <3>1. i - 1 \in 1 .. Len(payload) /\ a + 1 + (i - 1) = a + i /\ (i - 1) + 1 = i
      BY ONLY <1>1, <2>2, a \in Nat
    <3>2. s[a + 1 + (i - 1)] = payload[i - 1] /\ frame[(i - 1) + 1] = payload[i - 1]
      BY <1>3, <3>1
    <3> QED BY ONLY <3>1, <3>2
  <2>3. CASE i = Len(payload) + 2
    <3>1. a + i = a + Len(payload) + 2
      BY ONLY <1>1, <2>3, a \in Nat
    <3> QED BY <1>3, <2>3, <3>1
  <2>4. CASE i = Len(payload) + 3
    <3>1. a + i = a + Len(payload) + 3
      BY ONLY <1>1, <2>4, a \in Nat
    <3> QED BY <1>3, <2>4, <3>1
  <2>5. i = 1 \/ i \in 2 .. Len(payload) + 1 \/ i = Len(payload) + 2 \/ i = Len(payload) + 3
    BY ONLY <1>1, i \in 1 .. l
  <2> QED BY <2>1, <2>2, <2>3, <2>4, <2>5
<1>5. part = frame
  BY ONLY <1>2, <1>3, <1>4, SeqEqual
<1> QED BY <1>1, <1>5 DEF part, frame
------------------------------------------------------------------------------
\* A reader that has read nothing.
LEMMA InitIInv == Init => IInv
<1> SUFFICES ASSUME Init PROVE IInv
  OBVIOUS
<1>1. /\ wire \in Wire /\ limit \in Limit /\ buffer \in Buffer
      /\ position = 0 /\ start = 0 /\ pc = "idle" /\ stopped = {}
      /\ line = <<>> /\ data = <<>> /\ delivered = <<>>
  BY DEF Init
<1>2. wire \in Seq(Byte) /\ Len(wire) \in Nat /\ limit \in Nat
  <2>1. wire \in Seq(Byte)
    BY <1>1, WireAssumption
  <2>2. limit \in Nat
    BY <1>1, SizesAssumption
  <2> QED BY <2>1, <2>2, LenProperties
<1>3. TypeOK
  <2>1. position \in 0 .. Len(wire) /\ start \in 0 .. position
    BY ONLY <1>1, <1>2
  <2>2. line \in Seq(Byte) /\ data \in Seq(Byte) /\ delivered \in Seq([at : Nat, payload : Seq(Byte) \ {<<>>}])
    BY <1>1, EmptySeq
  <2> QED BY <1>1, <1>2, <2>1, <2>2 DEF TypeOK
<1>4. BoundedMemory
  <2>1. Len(line) = 0 /\ Len(data) = 0
    BY <1>1, EmptySeq
  <2> QED BY ONLY <1>2, <2>1 DEF BoundedMemory
<1>5. DataLineRead /\ BlankLineRead /\ Outside
  BY <1>1 DEF DataLineRead, BlankLineRead, Outside
<1>6. DeliveredIsWhatWasSent
  <2>1. DOMAIN delivered = {} /\ Len(delivered) = 0
    BY <1>1, EmptySeq
  <2>2. start = After(Len(delivered))
    BY <1>1, <2>1 DEF After
  <2> QED BY <1>1, <2>1, <2>2 DEF DeliveredIsWhatWasSent
<1> QED BY <1>3, <1>4, <1>5, <1>6 DEF IInv

\* The payloads delivered so far, and where their frames are.
LEMMA DeliveredFacts ==
  ASSUME TypeOK
  PROVE  /\ DOMAIN delivered = 1 .. Len(delivered) /\ Len(delivered) \in Nat
         /\ \A k \in DOMAIN delivered :
              /\ delivered[k].at \in Nat /\ delivered[k].payload \in Seq(Byte)
              /\ Len(delivered[k].payload) \in Nat
              /\ After(k) = delivered[k].at + Len(delivered[k].payload) + 3
<1> DEFINE D == [at : Nat, payload : Seq(Byte) \ {<<>>}]
<1>1. delivered \in Seq(D)
  BY DEF TypeOK
<1> HIDE DEF D
<1>2. DOMAIN delivered = 1 .. Len(delivered) /\ Len(delivered) \in Nat
  BY <1>1, LenProperties
<1>3. ASSUME NEW k \in DOMAIN delivered
      PROVE  /\ delivered[k].at \in Nat /\ delivered[k].payload \in Seq(Byte)
             /\ Len(delivered[k].payload) \in Nat
             /\ After(k) = delivered[k].at + Len(delivered[k].payload) + 3
  <2>1. delivered[k] \in D
    BY <1>1, <1>2, ElementOfSeq
  <2>2. delivered[k].at \in Nat /\ delivered[k].payload \in Seq(Byte)
    BY ONLY <2>1 DEF D
  <2>3. Len(delivered[k].payload) \in Nat
    BY <2>2, LenProperties
  <2>4. k # 0
    BY ONLY <1>2, k \in DOMAIN delivered
  <2> QED BY <2>2, <2>3, <2>4 DEF After
<1> QED BY <1>2, <1>3

\* A step fails, or leaves or begins a Recv where the one that failed last
\* stopped, or keeps where it began; and the end is that of the body.
Continues ==
  /\ \/ pc' = "failed" \/ start' \in stopped'
     \/ pc # "failed" /\ start' = start /\ stopped' = stopped
  /\ pc' = "eof" => start' = Len(wire)

\* A step that delivers nothing keeps what is said of the deliveries.
LEMMA NothingDelivered ==
  ASSUME IInv, wire' = wire, delivered' = delivered,
         start' \in Nat, start <= start', Continues
  PROVE  DeliveredIsWhatWasSent'
<1>1. TypeOK /\ DeliveredIsWhatWasSent
  BY DEF IInv
<1>2. start \in Nat
  BY <1>1, SizeFacts
<1>3. ASSUME NEW k \in DOMAIN delivered
      PROVE  /\ After(k - 1)' <= delivered'[k].at /\ After(k)' <= start'
             /\ SubSeq(wire', delivered'[k].at + 1, After(k)') = Frame(delivered'[k].payload)
  <2>1. /\ After(k - 1) <= delivered[k].at /\ After(k) <= start
        /\ SubSeq(wire, delivered[k].at + 1, After(k)) = Frame(delivered[k].payload)
    BY <1>1, <1>3 DEF DeliveredIsWhatWasSent
  <2>2. After(k - 1)' = After(k - 1) /\ After(k)' = After(k)
    BY DEF After
  <2>3. After(k) \in Nat
    BY <1>1, <1>3, DeliveredFacts
  <2>4. After(k)' <= start'
    BY ONLY <1>2, <2>1, <2>2, <2>3, start' \in Nat, start <= start'
  <2> QED BY <2>1, <2>2, <2>4
<1>4. pc' # "failed" => start' \in {After(Len(delivered))'} \cup stopped'
  <2>1. After(Len(delivered))' = After(Len(delivered))
    BY DEF After
  <2>2. pc # "failed" => start \in {After(Len(delivered))} \cup stopped
    BY <1>1 DEF DeliveredIsWhatWasSent
  <2> QED BY <2>1, <2>2 DEF Continues
<1>5. pc' = "eof" => start' = Len(wire')
  BY DEF Continues
<1> QED BY <1>3, <1>4, <1>5 DEF DeliveredIsWhatWasSent

\* Every error ends the same way.
LEMMA FailStep ==
  ASSUME IInv, Fail, UNCHANGED config, position' \in position .. Len(wire)
  PROVE  IInv'
<1>1. /\ wire' = wire /\ limit' = limit /\ buffer' = buffer
      /\ pc' = "failed" /\ stopped' = {position'} /\ start' = start
      /\ line' = line /\ data' = data /\ delivered' = delivered
  BY DEF Fail, config
<1>2. TypeOK /\ BoundedMemory
  BY DEF IInv
<1>3. position' \in 0 .. Len(wire') /\ start' \in 0 .. position' /\ stopped' \subseteq Nat
  BY <1>1, <1>2, SizeFacts
<1>4. TypeOK'
  BY <1>1, <1>2, <1>3 DEF TypeOK
<1>5. BoundedMemory'
  BY <1>1, <1>2 DEF BoundedMemory
<1>6. DataLineRead' /\ BlankLineRead' /\ Outside'
  BY <1>1 DEF DataLineRead, BlankLineRead, Outside
<1>7. DeliveredIsWhatWasSent'
  <2>1. start' \in Nat /\ start <= start'
    BY <1>1, <1>2, SizeFacts
  <2>2. Continues
    BY <1>1 DEF Continues
  <2> QED BY <1>1, <2>1, <2>2, NothingDelivered
<1> QED BY <1>4, <1>5, <1>6, <1>7 DEF IInv

\* A Recv begins behind what was read, wherever that is.
LEMMA RecvStep == IInv /\ Recv => IInv'
<1> SUFFICES ASSUME IInv, Recv PROVE IInv'
  OBVIOUS
<1>1. /\ wire' = wire /\ limit' = limit /\ buffer' = buffer
      /\ pc \in {"idle", "failed", "eof"} /\ pc' = "data line" /\ stopped' = stopped
      /\ start' = position /\ position' = position
      /\ line' = <<>> /\ data' = data /\ delivered' = delivered
  BY DEF Recv, config
<1>2. TypeOK /\ BoundedMemory /\ Outside
  BY DEF IInv
<1>3. /\ position \in Nat /\ position <= Len(wire) /\ start \in Nat /\ start <= position
      /\ Len(wire) \in Nat /\ limit \in Nat
  BY <1>2, SizeFacts
<1>4. line' \in Seq(Byte) /\ Len(line') = 0
  BY <1>1, EmptySeq
<1>5. position' = position /\ start' = position /\ Len(wire') = Len(wire) /\ limit' = limit
  BY <1>1
<1>6. TypeOK'
  <2>1. position' \in 0 .. Len(wire') /\ start' \in 0 .. position'
    BY ONLY <1>3, <1>5
  <2> QED BY <1>1, <1>2, <1>4, <2>1 DEF TypeOK
<1>7. BoundedMemory'
  <2>1. Len(line') <= limit'
    BY ONLY <1>3, <1>4, <1>5
  <2> QED BY <1>1, <1>2, <2>1 DEF BoundedMemory
<1>8. DataLineRead'
  <2>1. position' = start' + Len(line') /\ start' + Len(line') <= Len(wire') /\ 1 .. Len(line') = {}
    BY ONLY <1>3, <1>4, <1>5
  <2> QED BY <2>1 DEF DataLineRead, Stands, NoNewline
<1>9. BlankLineRead' /\ Outside'
  BY <1>1 DEF BlankLineRead, Outside
<1>10. DeliveredIsWhatWasSent'
  <2>1. Continues
    BY <1>1, <1>2 DEF Outside, Continues
  <2> QED BY <1>1, <1>3, <2>1, NothingDelivered
<1> QED BY <1>6, <1>7, <1>8, <1>9, <1>10 DEF IInv

\* A connection that breaks has handed out no more than a slice.
LEMMA BreakStep == IInv /\ Break => IInv'
<1> SUFFICES ASSUME IInv, Break PROVE IInv'
  OBVIOUS
<1>1. position' \in position .. Len(wire)
  <2>1. PICK n \in 0 .. Len(Slice) : position' = position + n
    BY DEF Break
  <2>2. /\ position \in Nat /\ position <= Len(wire) /\ Len(wire) \in Nat
        /\ Len(Slice) \in Nat /\ position + Len(Slice) <= Len(wire)
    BY SizeFacts, SliceFacts DEF IInv, Stands
  <2> QED BY ONLY <2>1, <2>2
<1> QED BY <1>1, FailStep DEF Break

\* Where the line that is being read begins.
LineStart == IF pc = "data line" THEN start ELSE start + Len(data)

\* ReadFacts for both lines of a frame.
LEMMA LineFacts ==
  ASSUME IInv, pc \in {"data line", "blank line"}
  PROVE  /\ LineStart \in Nat /\ start <= LineStart
         /\ Read \in Seq(Byte) /\ Len(Read) \in Nat /\ Len(Read) = Len(line) + Len(Slice)
         /\ LineStart + Len(Read) = position + Len(Slice) /\ position + Len(Slice) <= Len(wire)
         /\ Stands(Read, LineStart)
         /\ Contains(Slice, "n") => Line(Read)
         /\ ~Contains(Slice, "n") => NoNewline(Read)
<1>1. TypeOK /\ DataLineRead /\ BlankLineRead
  BY DEF IInv
<1>2. start \in Nat /\ Len(data) \in Nat
  BY <1>1, SizeFacts
<1>3. LineStart \in Nat /\ start <= LineStart
  <2>1. LineStart = start \/ LineStart = start + Len(data)
    BY DEF LineStart
  <2> QED BY ONLY <1>2, <2>1
<1>4. Stands(line, LineStart) /\ position = LineStart + Len(line) /\ NoNewline(line)
  BY <1>1 DEF LineStart, DataLineRead, BlankLineRead
<1> HIDE DEF LineStart
<1> QED BY <1>1, <1>3, <1>4, ReadFacts

\* The outcomes of one turn.
LEMMA Outcomes ==
  ASSUME ReadSlice
  PROVE  /\ pc \in {"data line", "blank line"}
         /\ position' = position + Len(Slice)
         /\ UNCHANGED config
         /\ \/ TooLong(Read) /\ Fail
            \/ ~TooLong(Read) /\ Contains(Slice, "n") /\ EndLine(Read)
            \/ /\ ~TooLong(Read) /\ ~Contains(Slice, "n") /\ Len(Slice) = buffer
               /\ line' = Read
               /\ UNCHANGED <<pc, start, data, stopped, delivered>>
            \/ /\ ~TooLong(Read) /\ ~Contains(Slice, "n") /\ Len(Slice) < buffer
               /\ \/ /\ EndsBetweenFrames(Read) /\ pc' = "eof"
                     /\ UNCHANGED <<start, line, data, stopped, delivered>>
                  \/ ~EndsBetweenFrames(Read) /\ Fail
  BY DEF ReadSlice, Read

\* The data line has its prefix and its newline.
LEMMA DataFacts ==
  ASSUME NEW s \in Seq(Byte), Line(s), GoodData(s)
  PROVE  Len(s) \in Nat /\ Len(s) >= 2 /\ s[1] = "d" /\ s[Len(s)] = "n"
<1>1. Len(s) \in Nat \ {0}
  BY EmptySeq DEF Line
<1>2. s[1] = "d" /\ s[Len(s)] = "n"
  BY DEF Line, GoodData
<1>3. Len(s) # 1
  BY <1>2
<1> QED BY <1>1, <1>2, <1>3

\* The payload is the data line without its prefix and its newline.
LEMMA PayloadFacts ==
  ASSUME data \in Seq(Byte), Len(data) \in Nat, Len(data) >= 2
  PROVE  /\ Payload \in Seq(Byte) /\ Len(Payload) = Len(data) - 2
         /\ \A i \in 1 .. Len(Payload) : Payload[i] = data[i + 1]
<1> DEFINE l == Len(data) - 2
<1>1. l \in Nat /\ 1 + l <= Len(data) /\ 1 + 1 = 2 /\ 1 + l = Len(data) - 1
  OBVIOUS
<1>2. Payload = SubSeq(data, 1 + 1, 1 + l)
  BY <1>1 DEF Payload
<1> HIDE DEF l
<1>3. /\ SubSeq(data, 1 + 1, 1 + l) \in Seq(Byte) /\ Len(SubSeq(data, 1 + 1, 1 + l)) = l
      /\ \A i \in 1 .. l : SubSeq(data, 1 + 1, 1 + l)[i] = data[1 + i]
  BY <1>1, Part
<1>4. \A i \in 1 .. l : 1 + i = i + 1
  BY <1>1
<1> QED BY <1>2, <1>3, <1>4 DEF l

\* The line goes on: the buffer was full.
LEMMA LongerStep ==
  ASSUME IInv, pc \in {"data line", "blank line"}, UNCHANGED config,
         position' = position + Len(Slice),
         ~TooLong(Read), ~Contains(Slice, "n"), line' = Read,
         UNCHANGED <<pc, start, data, stopped, delivered>>
  PROVE  IInv'
<1>1. /\ wire' = wire /\ limit' = limit /\ buffer' = buffer
      /\ pc' = pc /\ stopped' = stopped /\ start' = start
      /\ data' = data /\ delivered' = delivered
  BY DEF config
<1>2. TypeOK /\ BoundedMemory /\ DataLineRead /\ BlankLineRead
  BY DEF IInv
<1>3. /\ position \in Nat /\ position <= Len(wire) /\ start \in Nat /\ start <= position
      /\ Len(wire) \in Nat /\ limit \in Nat
  BY <1>2, SizeFacts
<1>4. /\ Read \in Seq(Byte) /\ Len(Read) \in Nat /\ Stands(Read, LineStart) /\ NoNewline(Read)
      /\ LineStart + Len(Read) = position' /\ position' <= Len(wire)
      /\ LineStart \in Nat /\ start <= LineStart
  BY LineFacts
<1>5. TypeOK'
  <2>1. position' \in 0 .. Len(wire) /\ start \in 0 .. position'
    BY ONLY <1>3, <1>4
  <2> QED BY <1>1, <1>2, <1>4, <2>1 DEF TypeOK
<1>6. BoundedMemory'
  <2>1. Len(Read) <= limit
    BY ONLY <1>3, <1>4, ~TooLong(Read) DEF TooLong
  <2> QED BY <1>1, <1>2, <2>1 DEF BoundedMemory
<1>7. ASSUME pc = "data line"
      PROVE  position' = start + Len(Read) /\ Stands(Read, start)
  BY <1>4, <1>7 DEF LineStart
<1>8. ASSUME pc = "blank line"
      PROVE  position' = start + Len(data) + Len(Read) /\ Stands(Read, start + Len(data))
  BY <1>4, <1>8 DEF LineStart
<1>9. DataLineRead'
  BY <1>1, <1>4, <1>7 DEF DataLineRead, Stands, NoNewline
<1>10. BlankLineRead'
  <2>1. ASSUME pc = "blank line"
        PROVE  Stands(data, start)' /\ Line(data)' /\ GoodData(data)'
    <3>1. Stands(data, start) /\ Line(data) /\ GoodData(data)
      BY <1>2, <2>1 DEF BlankLineRead
    <3> QED BY <1>1, <3>1 DEF Stands, Line, GoodData, Contains
  <2>2. ASSUME pc = "blank line"
        PROVE  Stands(line, start + Len(data))' /\ NoNewline(line)'
    BY <1>1, <1>4, <1>8, <2>2 DEF Stands, NoNewline
  <2> QED BY <1>1, <1>8, <2>1, <2>2 DEF BlankLineRead
<1>11. Outside'
  BY <1>1 DEF Outside
<1>12. DeliveredIsWhatWasSent'
  <2>1. start' \in Nat /\ start <= start'
    BY ONLY <1>3, start' = start
  <2>2. Continues
    BY <1>1 DEF Continues
  <2>3. wire' = wire /\ delivered' = delivered
    BY <1>1
  <2> QED BY ONLY IInv, <2>1, <2>2, <2>3, NothingDelivered
<1> QED BY <1>5, <1>6, <1>9, <1>10, <1>11, <1>12 DEF IInv

\* The data line is complete.
LEMMA DataLineStep ==
  ASSUME IInv, UNCHANGED config,
         position' = position + Len(Slice),
         ~TooLong(Read), Contains(Slice, "n"),
         pc = "data line", GoodData(Read),
         pc' = "blank line", data' = Read, line' = <<>>,
         UNCHANGED <<start, stopped, delivered>>
  PROVE  IInv'
<1>1. /\ wire' = wire /\ limit' = limit /\ buffer' = buffer
      /\ stopped' = stopped /\ start' = start /\ delivered' = delivered
  BY DEF config
<1>2. TypeOK
  BY DEF IInv
<1>3. /\ position \in Nat /\ position <= Len(wire) /\ start \in Nat /\ start <= position
      /\ Len(wire) \in Nat /\ limit \in Nat
  BY <1>2, SizeFacts
<1>4. /\ Read \in Seq(Byte) /\ Len(Read) \in Nat /\ Stands(Read, start) /\ Line(Read)
      /\ start + Len(Read) = position' /\ position' <= Len(wire)
  BY LineFacts DEF LineStart
<1>5. line' \in Seq(Byte) /\ Len(line') = 0
  BY EmptySeq
<1>6. TypeOK'
  <2>1. position' \in 0 .. Len(wire) /\ start \in 0 .. position'
    BY ONLY <1>3, <1>4
  <2> QED BY <1>1, <1>2, <1>4, <1>5, <2>1 DEF TypeOK
<1>7. BoundedMemory'
  <2>1. Len(Read) <= limit
    BY ONLY <1>3, <1>4, ~TooLong(Read) DEF TooLong
  <2>2. Len(line') <= limit
    BY ONLY <1>3, <1>5
  <2> QED BY <1>1, <2>1, <2>2 DEF BoundedMemory
<1>8. DataLineRead' /\ Outside'
  BY DEF DataLineRead, Outside
<1>9. BlankLineRead'
  <2>1. Stands(data, start)' /\ Line(data)' /\ GoodData(data)'
    BY <1>1, <1>4 DEF Stands, Line, GoodData, Contains
  <2>2. position' = start' + Len(data') + Len(line')
    <3>1. Len(data') = Len(Read) /\ start' = start
      BY <1>1
    <3> QED BY ONLY <1>3, <1>4, <1>5, <3>1
  <2>3. start' + Len(data') + Len(line') <= Len(wire') /\ 1 .. Len(line') = {}
    <3>1. position' <= Len(wire')
      BY <1>1, <1>4
    <3>2. start' + Len(data') + Len(line') <= Len(wire')
      BY ONLY <2>2, <3>1
    <3>3. 1 .. Len(line') = {}
      BY ONLY <1>5
    <3> QED BY <3>2, <3>3
  <2>4. Stands(line, start + Len(data))' /\ NoNewline(line)'
    BY <2>3 DEF Stands, NoNewline
  <2> QED BY <2>1, <2>2, <2>4 DEF BlankLineRead
<1>10. DeliveredIsWhatWasSent'
  <2>1. start' \in Nat /\ start <= start'
    BY ONLY <1>1, <1>3
  <2>2. Continues
    BY <1>1 DEF Continues
  <2>3. wire' = wire /\ delivered' = delivered
    BY <1>1
  <2> QED BY ONLY IInv, <2>1, <2>2, <2>3, NothingDelivered
<1> QED BY <1>6, <1>7, <1>8, <1>9, <1>10 DEF IInv

\* The body ends between two frames.
LEMMA EOFStep ==
  ASSUME IInv, UNCHANGED config,
         position' = position + Len(Slice),
         ~Contains(Slice, "n"), Len(Slice) < buffer,
         EndsBetweenFrames(Read), pc' = "eof",
         UNCHANGED <<start, line, data, stopped, delivered>>
  PROVE  IInv'
<1>1. /\ wire' = wire /\ limit' = limit /\ buffer' = buffer
      /\ stopped' = stopped /\ start' = start /\ delivered' = delivered
      /\ line' = line /\ data' = data
  BY DEF config
<1>2. TypeOK /\ BoundedMemory
  BY DEF IInv
<1>3. /\ position \in Nat /\ position <= Len(wire) /\ start \in Nat /\ start <= position
      /\ Len(wire) \in Nat
  BY <1>2, SizeFacts
<1>4. pc = "data line" /\ Read = <<>>
  BY DEF EndsBetweenFrames
<1>5. start + Len(Read) = position' /\ position' = Len(wire)
  BY <1>2, <1>4, LineFacts, SliceFacts DEF LineStart
<1>6. start = Len(wire) /\ position' = Len(wire)
  <2>1. Len(Read) = 0
    BY <1>4, EmptySeq
  <2> QED BY ONLY <1>3, <1>5, <2>1
<1>7. TypeOK'
  <2>1. position' \in 0 .. Len(wire) /\ start \in 0 .. position'
    BY ONLY <1>3, <1>6
  <2> QED BY <1>1, <1>2, <2>1 DEF TypeOK
<1>8. BoundedMemory'
  BY <1>1, <1>2 DEF BoundedMemory
<1>9. DataLineRead' /\ BlankLineRead' /\ Outside'
  BY <1>1, <1>6 DEF DataLineRead, BlankLineRead, Outside
<1>10. DeliveredIsWhatWasSent'
  <2>1. start' \in Nat /\ start <= start'
    BY ONLY <1>1, <1>3
  <2>2. Continues
    BY <1>1, <1>4, <1>6 DEF Continues
  <2>3. wire' = wire /\ delivered' = delivered
    BY <1>1
  <2> QED BY ONLY IInv, <2>1, <2>2, <2>3, NothingDelivered
<1> QED BY <1>7, <1>8, <1>9, <1>10 DEF IInv

(***************************************************************************)
(* DeliveredIsWhatWasSent once more, with the deliveries, the body and     *)
(* where the next frame begins as arguments, for the step that delivers.   *)
(***************************************************************************)
Deliveries == [at : Nat, payload : Seq(Byte) \ {<<>>}]

End(ds, k) == IF k = 0 THEN 0 ELSE ds[k].at + Len(ds[k].payload) + 3

InPlace(ds, w, next) ==
  \A k \in DOMAIN ds :
    /\ End(ds, k - 1) <= ds[k].at /\ End(ds, k) <= next
    /\ SubSeq(w, ds[k].at + 1, End(ds, k)) = Frame(ds[k].payload)

\* The definitions above say the same.
LEMMA Restated ==
  /\ DeliveredIsWhatWasSent => InPlace(delivered, wire, start)
  /\ InPlace(delivered', wire', start') /\ start' = End(delivered', Len(delivered')) /\ pc' # "eof"
       => DeliveredIsWhatWasSent'
<1>1. \A k : After(k) = End(delivered, k)
  BY DEF After, End
<1>2. \A k : After(k)' = End(delivered', k)
  BY DEF After, End
<1>3. After(Len(delivered))' = End(delivered', Len(delivered'))
  BY DEF After, End
<1>4. DeliveredIsWhatWasSent => InPlace(delivered, wire, start)
  BY <1>1 DEF DeliveredIsWhatWasSent, InPlace
<1>5. InPlace(delivered', wire', start') /\ start' = End(delivered', Len(delivered')) /\ pc' # "eof"
        => DeliveredIsWhatWasSent'
  BY <1>2, <1>3 DEF DeliveredIsWhatWasSent, InPlace
<1> QED BY <1>4, <1>5

\* One more frame, behind those that are there.
LEMMA Appended ==
  ASSUME NEW ds \in Seq(Deliveries), NEW d \in Deliveries,
         NEW w, NEW next \in Nat, NEW new \in Nat,
         InPlace(ds, w, next), d.at = next, new = next + Len(d.payload) + 3,
         SubSeq(w, next + 1, new) = Frame(d.payload)
  PROVE  /\ InPlace(Append(ds, d), w, new)
         /\ new = End(Append(ds, d), Len(Append(ds, d)))
<1> DEFINE es == Append(ds, d)
           l  == Len(ds)
<1>1. l \in Nat /\ DOMAIN ds = 1 .. l
  BY LenProperties
<1>2. /\ es \in Seq(Deliveries) /\ Len(es) = l + 1
      /\ \A k \in 1 .. l : es[k] = ds[k]
      /\ es[l + 1] = d
  BY AppendProperties
<1>3. DOMAIN es = 1 .. l + 1
  BY <1>2, LenProperties
<1> HIDE DEF es, l
<1>4. ASSUME NEW k \in 0 .. l
      PROVE  End(es, k) = End(ds, k)
  <2>1. CASE k = 0
    BY <2>1 DEF End
  <2>2. CASE k # 0
    <3>1. k \in 1 .. l
      BY ONLY <1>1, <2>2, k \in 0 .. l
    <3>2. es[k] = ds[k]
      BY <1>2, <3>1
    <3> QED BY ONLY <3>2 DEF End
  <2> QED BY <2>1, <2>2
<1>5. End(es, l + 1) = new
  <2>1. l + 1 # 0
    BY ONLY <1>1
  <2> QED BY <1>2, <2>1 DEF End
<1>6. \A k \in 1 .. l : ds[k].at \in Nat /\ Len(ds[k].payload) \in Nat
  <2> TAKE k \in 1 .. l
  <2>1. ds[k] \in Deliveries
    BY <1>1, ElementOfSeq DEF l
  <2> QED BY <2>1, LenProperties DEF Deliveries
<1>7. \A k \in 1 .. l : End(ds, k) \in Nat
  <2> TAKE k \in 1 .. l
  <2>1. k # 0
    BY <1>1
  <2>2. End(ds, k) = ds[k].at + Len(ds[k].payload) + 3
    BY <2>1 DEF End
  <2> QED BY ONLY <1>6, <2>2, k \in 1 .. l
<1>8. End(ds, l) <= next
  <2>1. CASE l = 0
    <3>1. End(ds, l) = 0
      BY <2>1 DEF End
    <3> QED BY ONLY <3>1, next \in Nat
  <2>2. CASE l # 0
    <3>1. l \in 1 .. l
      BY ONLY <1>1, <2>2
    <3> QED BY <1>1, <3>1 DEF InPlace
  <2> QED BY <2>1, <2>2
<1>9. Len(d.payload) \in Nat /\ next <= new
  <2>1. Len(d.payload) \in Nat
    BY LenProperties DEF Deliveries
  <2> QED BY ONLY <2>1, next \in Nat, new = next + Len(d.payload) + 3
<1>10. ASSUME NEW k \in 1 .. l + 1
       PROVE  \/ k \in 1 .. l /\ k - 1 \in 0 .. l
              \/ k = l + 1 /\ k - 1 = l /\ l \in 0 .. l
  BY ONLY <1>1, k \in 1 .. l + 1
<1>11. ASSUME NEW k \in 1 .. l + 1
       PROVE  /\ End(es, k - 1) <= es[k].at /\ End(es, k) <= new
              /\ SubSeq(w, es[k].at + 1, End(es, k)) = Frame(es[k].payload)
  <2>1. CASE k \in 1 .. l /\ k - 1 \in 0 .. l
    <3>1. k \in 0 .. l /\ es[k] = ds[k] /\ k \in DOMAIN ds
      BY <1>1, <1>2, <2>1
    <3>2. End(es, k) = End(ds, k) /\ End(es, k - 1) = End(ds, k - 1)
      BY <1>4, <2>1, <3>1
    <3>3. /\ End(ds, k - 1) <= ds[k].at /\ End(ds, k) <= next
          /\ SubSeq(w, ds[k].at + 1, End(ds, k)) = Frame(ds[k].payload)
      BY <3>1 DEF InPlace
    <3>4. End(ds, k) \in Nat
      BY <1>7, <2>1
    <3>5. End(ds, k) <= new
      BY ONLY <1>9, <3>3, <3>4, next \in Nat, new \in Nat
    <3> QED BY <3>1, <3>2, <3>3, <3>5
  <2>2. CASE k = l + 1 /\ k - 1 = l /\ l \in 0 .. l
    <3>1. End(es, k - 1) = End(ds, l) /\ End(es, k) = new /\ es[k] = d
      BY <1>2, <1>4, <1>5, <2>2
    <3>2. new <= new
      OBVIOUS
    <3> QED BY <1>8, <3>1, <3>2
  <2> QED BY <1>10, <2>1, <2>2
<1>12. InPlace(es, w, new)
  BY <1>3, <1>11 DEF InPlace
<1>13. new = End(es, Len(es))
  BY <1>2, <1>5
<1> QED BY <1>12, <1>13 DEF es

\* The frame is complete: its payload is returned.
LEMMA FrameStep ==
  ASSUME IInv, UNCHANGED config,
         position' = position + Len(Slice),
         pc = "blank line", Fits(Read),
         pc' = "idle", start' = position', delivered' = Append(delivered, Delivery),
         UNCHANGED <<line, data, stopped>>
  PROVE  IInv'
<1>1. /\ wire' = wire /\ limit' = limit /\ buffer' = buffer
      /\ stopped' = stopped /\ line' = line /\ data' = data
  BY DEF config
<1>2. TypeOK /\ BoundedMemory /\ BlankLineRead /\ DeliveredIsWhatWasSent
  BY DEF IInv
<1>3. /\ position \in Nat /\ position <= Len(wire) /\ start \in Nat /\ start <= position
      /\ wire \in Seq(Byte) /\ Len(wire) \in Nat
      /\ data \in Seq(Byte) /\ Len(data) \in Nat
  BY <1>2, SizeFacts
<1>4. /\ Stands(Read, start + Len(data)) /\ start + Len(data) + Len(Read) = position'
      /\ position' <= Len(wire)
  BY LineFacts DEF LineStart
<1>5. Read = <<"n">> /\ Len(Read) = 1 /\ Read[1] = "n"
  BY DEF Fits, Blank
<1>6. Stands(data, start) /\ Line(data) /\ GoodData(data)
  BY <1>2 DEF BlankLineRead
<1>7. Len(data) >= 2 /\ data[1] = "d" /\ data[Len(data)] = "n"
  BY <1>3, <1>6, DataFacts
<1>8. /\ Payload \in Seq(Byte) /\ Len(Payload) = Len(data) - 2
      /\ \A i \in 1 .. Len(Payload) : Payload[i] = data[i + 1]
  BY <1>3, <1>7, PayloadFacts
<1>9. position' = start + Len(data) + 1 /\ position' = start + Len(Payload) + 3
  BY ONLY <1>3, <1>4, <1>5, <1>8
<1>10. SubSeq(wire, start + 1, start + Len(Payload) + 3) = Frame(Payload)
  <2>1. start + Len(Payload) + 3 <= Len(wire)
    BY ONLY <1>3, <1>4, <1>9
  <2>2. \A i \in 1 .. Len(data) : data[i] = wire[start + i]
    BY <1>6 DEF Stands
  <2>3. wire[start + 1] = "d"
    BY ONLY <2>2, <1>3, <1>7
  <2>4. ASSUME NEW i \in 1 .. Len(Payload)
        PROVE  wire[start + 1 + i] = Payload[i]
    <3>1. i + 1 \in 1 .. Len(data) /\ start + (i + 1) = start + 1 + i
      BY ONLY <1>3, <1>8
    <3>2. data[i + 1] = wire[start + (i + 1)]
      BY <2>2, <3>1
    <3> QED BY <1>8, <3>1, <3>2
  <2>5. wire[start + Len(Payload) + 2] = "n"
    <3>1. Len(data) \in 1 .. Len(data) /\ start + Len(data) = start + Len(Payload) + 2
      BY ONLY <1>3, <1>7, <1>8
    <3>2. data[Len(data)] = wire[start + Len(data)]
      BY <2>2, <3>1
    <3> QED BY <1>7, <3>1, <3>2
  <2>6. wire[start + Len(Payload) + 3] = "n"
    <3>1. \A i \in 1 .. Len(Read) : Read[i] = wire[start + Len(data) + i]
      BY <1>4 DEF Stands
    <3>2. 1 \in 1 .. Len(Read)
      BY ONLY <1>5
    <3>3. Read[1] = wire[start + Len(data) + 1]
      BY ONLY <3>1, <3>2
    <3>4. start + Len(data) + 1 = start + Len(Payload) + 3
      BY ONLY <1>9
    <3> QED BY <1>5, <3>3, <3>4
  <2> QED BY <1>3, <1>8, <2>1, <2>3, <2>4, <2>5, <2>6, FrameThere
<1>11. Delivery \in Deliveries /\ Delivery.at = start /\ Delivery.payload = Payload
  <2>1. Payload # <<>>
    BY DEF Fits, Compact
  <2> QED BY <1>3, <1>8, <2>1 DEF Delivery, Deliveries
<1>12. delivered \in Seq(Deliveries)
  BY <1>2 DEF TypeOK, Deliveries
<1>13. TypeOK'
  <2>1. position' \in 0 .. Len(wire) /\ start' \in 0 .. position'
    BY ONLY <1>3, <1>4, <1>9, start' = position'
  <2>2. delivered' \in Seq(Deliveries)
    BY <1>11, <1>12, AppendProperties
  <2> QED BY <1>1, <1>2, <2>1, <2>2 DEF TypeOK, Deliveries
<1>14. BoundedMemory'
  BY <1>1, <1>2 DEF BoundedMemory
<1>15. DataLineRead' /\ BlankLineRead' /\ Outside'
  BY DEF DataLineRead, BlankLineRead, Outside
<1>16. DeliveredIsWhatWasSent'
  <2>1. InPlace(delivered, wire, start)
    BY <1>2, Restated
  <2>2. position' \in Nat /\ position' = start + Len(Delivery.payload) + 3
    <3>1. position' \in Nat
      BY ONLY <1>3, <1>9
    <3> QED BY <1>9, <1>11, <3>1
  <2>3. SubSeq(wire, start + 1, position') = Frame(Delivery.payload)
    BY <1>9, <1>10, <1>11
  <2>4. /\ InPlace(delivered', wire, position')
        /\ position' = End(delivered', Len(delivered'))
    BY <1>3, <1>11, <1>12, <2>1, <2>2, <2>3, Appended
  <2>5. InPlace(delivered', wire', start')
    BY <1>1, <2>4
  <2>6. start' = End(delivered', Len(delivered')) /\ pc' # "eof"
    BY <2>4
  <2> QED BY <2>5, <2>6, Restated
<1> QED BY <1>13, <1>14, <1>15, <1>16 DEF IInv

\* Every turn of the loop, from the lemmas on its outcomes.
LEMMA ReadSliceStep == IInv /\ ReadSlice => IInv'
<1> SUFFICES ASSUME IInv, ReadSlice PROVE IInv'
  OBVIOUS
<1>1. pc \in {"data line", "blank line"} /\ position' = position + Len(Slice) /\ UNCHANGED config
  BY Outcomes
<1>2. position' \in position .. Len(wire)
  <2>1. TypeOK
    BY DEF IInv
  <2>2. position \in Nat /\ Len(wire) \in Nat /\ Len(Slice) \in Nat
    BY <2>1, SizeFacts, SliceFacts
  <2>3. position + Len(Slice) <= Len(wire)
    BY <1>1, LineFacts
  <2>4. position' = position + Len(Slice)
    BY <1>1
  <2> QED BY ONLY <2>2, <2>3, <2>4
<1>3. CASE Fail
  BY <1>1, <1>2, <1>3, FailStep
<1>4. CASE ~TooLong(Read) /\ Contains(Slice, "n") /\ EndLine(Read)
  <2>1. CASE /\ pc = "data line" /\ GoodData(Read)
             /\ pc' = "blank line" /\ data' = Read /\ line' = <<>>
             /\ UNCHANGED <<start, stopped, delivered>>
    BY <1>1, <1>4, <2>1, DataLineStep
  <2>2. CASE /\ pc = "blank line" /\ Fits(Read)
             /\ pc' = "idle" /\ start' = position' /\ delivered' = Append(delivered, Delivery)
             /\ UNCHANGED <<line, data, stopped>>
    BY <1>1, <2>2, FrameStep
  <2> QED BY <1>3, <1>4, <2>1, <2>2 DEF EndLine
<1>5. CASE /\ ~TooLong(Read) /\ ~Contains(Slice, "n") /\ line' = Read
           /\ UNCHANGED <<pc, start, data, stopped, delivered>>
  BY <1>1, <1>5, LongerStep
<1>6. CASE /\ ~Contains(Slice, "n") /\ Len(Slice) < buffer
           /\ EndsBetweenFrames(Read) /\ pc' = "eof"
           /\ UNCHANGED <<start, line, data, stopped, delivered>>
  BY <1>1, <1>6, EOFStep
<1> QED BY <1>3, <1>4, <1>5, <1>6, Outcomes

\* Nothing moves.
LEMMA StutterStep == IInv /\ UNCHANGED vars => IInv'
<1> SUFFICES ASSUME IInv, UNCHANGED vars PROVE IInv'
  OBVIOUS
<1> USE DEF vars, config
<1>1. TypeOK' /\ BoundedMemory' /\ Outside'
  BY DEF IInv, TypeOK, BoundedMemory, Outside
<1>2. DataLineRead'
  BY DEF IInv, DataLineRead, Stands, NoNewline
<1>3. BlankLineRead'
  BY DEF IInv, BlankLineRead, Stands, NoNewline, Line, GoodData, Contains
<1>4. DeliveredIsWhatWasSent'
  BY DEF IInv, DeliveredIsWhatWasSent, After
<1> QED BY <1>1, <1>2, <1>3, <1>4 DEF IInv

\* The inductive invariant: for all bodies, limits and buffers.
THEOREM Invariant == Spec => []IInv
<1>1. IInv /\ [Next]_vars => IInv'
  BY RecvStep, ReadSliceStep, BreakStep, StutterStep DEF Next
<1> QED BY <1>1, InitIInv, PTL DEF Spec

\* The types of the reader, which stays inside the body.
THEOREM TypeCorrect == Spec => []TypeOK
<1>1. IInv => TypeOK
  BY DEF IInv
<1> QED BY <1>1, Invariant, PTL

\* Neither line is ever kept beyond the limit (stream.go:200-213).
THEOREM Bounded == Spec => []BoundedMemory
<1>1. IInv => BoundedMemory
  BY DEF IInv
<1> QED BY <1>1, Invariant, PTL

\* What is returned stands in the body as a frame, behind the one before; each
\* Recv begins there or where the one that failed last stopped, and a clean end
\* is the end of the body (stream.go:171-222, client.go:477-531).
THEOREM Faithful == Spec => []DeliveredIsWhatWasSent
<1>1. IInv => DeliveredIsWhatWasSent
  BY DEF IInv
<1> QED BY <1>1, Invariant, PTL
------------------------------------------------------------------------------
\* A frame within the limit, byte by byte.
AheadOf(n) ==
  /\ 4 <= n /\ n <= limit /\ start + n <= Len(wire)
  /\ wire[start + 1] = "d" /\ wire[start + (n - 1)] = "n" /\ wire[start + n] = "n"
  /\ \A i \in 2 .. n - 2 : wire[start + i] \notin {"n", "r", "s"}

\* FrameAtStart says that of some length.
LEMMA FrameAhead ==
  ASSUME TypeOK, FrameAtStart
  PROVE  \E n \in Nat : AheadOf(n)
<1>1. start \in Nat /\ limit \in Nat /\ wire \in Seq(Byte) /\ Len(wire) \in Nat
  BY SizeFacts
<1>2. PICK n \in 4 .. limit :
        /\ start + n <= Len(wire)
        /\ \E payload \in {SubSeq(wire, start + 2, start + n - 2)} :
             /\ SubSeq(wire, start + 1, start + n) = Frame(payload)
             /\ \A bad \in {"n", "r", "s"} : ~Contains(payload, bad)
  BY DEF FrameAtStart
<1> DEFINE payload == SubSeq(wire, start + 2, start + n - 2)
           l       == n - 3
<1>3. /\ SubSeq(wire, start + 1, start + n) = Frame(payload)
      /\ \A bad \in {"n", "r", "s"} : ~Contains(payload, bad)
  BY <1>2
<1>4. /\ n \in Nat /\ l \in Nat /\ 4 <= n /\ n <= limit /\ start + n <= Len(wire)
      /\ start + 1 \in Nat /\ start + 1 + l <= Len(wire)
      /\ (start + 1) + 1 = start + 2 /\ start + 1 + l = start + n - 2
  <2>1. n \in 4 .. limit /\ start + n <= Len(wire)
    BY <1>2
  <2> QED BY ONLY <1>1, <2>1
<1>5. payload \in Seq(Byte) /\ Len(payload) = l /\ \A i \in 1 .. l : payload[i] = wire[start + 1 + i]
  <2> DEFINE part == SubSeq(wire, (start + 1) + 1, start + 1 + l)
  <2>1. part \in Seq(Byte) /\ Len(part) = l /\ \A i \in 1 .. l : part[i] = wire[start + 1 + i]
    BY <1>1, <1>4, Part
  <2>2. payload = part
    BY <1>4
  <2> QED BY <2>1, <2>2
<1> HIDE DEF payload
<1>6. /\ Frame(payload)[1] = "d"
      /\ Frame(payload)[l + 2] = "n" /\ Frame(payload)[l + 3] = "n"
  BY <1>5, FrameFacts
<1>7. \A i \in 1 .. n : Frame(payload)[i] = wire[start + i]
  <2>1. \A i \in 1 .. n : SubSeq(wire, start + 1, start + n)[i] = wire[start + i]
    BY <1>1, <1>4, Part
  <2> QED BY <1>3, <2>1
<1>8. l + 2 = n - 1 /\ l + 3 = n /\ 1 \in 1 .. n /\ n - 1 \in 1 .. n /\ n \in 1 .. n
  BY <1>4
<1>9. wire[start + 1] = "d" /\ wire[start + (n - 1)] = "n" /\ wire[start + n] = "n"
  <2> HIDE DEF l
  <2> QED BY <1>6, <1>7, <1>8
<1>10. ASSUME NEW i \in 2 .. n - 2
       PROVE  wire[start + i] \notin {"n", "r", "s"}
  <2>1. i - 1 \in 1 .. l /\ start + 1 + (i - 1) = start + i
    BY ONLY <1>1, <1>4, i \in 2 .. n - 2
  <2>2. payload[i - 1] = wire[start + i]
    <3>1. payload[i - 1] = wire[start + 1 + (i - 1)]
      BY <1>5, <2>1
    <3> QED BY <2>1, <3>1
  <2>3. i - 1 \in 1 .. Len(payload)
    BY <1>5, <2>1
  <2>4. \A bad \in {"n", "r", "s"} : payload[i - 1] # bad
    BY <1>3, <2>3 DEF Contains
  <2> QED BY <2>2, <2>4
<1>11. AheadOf(n)
  BY <1>4, <1>9, <1>10 DEF AheadOf
<1> QED BY <1>4, <1>11

\* With a frame ahead, a line that is read of it from its first byte on does
\* not reach past its newline, and a complete one is all of it.
LEMMA DataLineOfFrame ==
  ASSUME NEW n \in Nat, AheadOf(n), start \in Nat,
         NEW s \in Seq(Byte), Stands(s, start), Line(s) \/ NoNewline(s)
  PROVE  /\ Len(s) \in Nat /\ Len(s) <= n - 1
         /\ Line(s) => Len(s) = n - 1 /\ GoodData(s)
<1>1. Len(s) \in Nat /\ 4 <= n
  BY LenProperties DEF AheadOf
<1>2. \A i \in 1 .. Len(s) : s[i] = wire[start + i]
  BY DEF Stands
<1>3. \A i \in 1 .. Len(s) - 1 : s[i] # "n"
  <2>1. CASE Line(s)
    BY <2>1 DEF Line
  <2>2. CASE NoNewline(s)
    <3>1. \A i \in 1 .. Len(s) - 1 : i \in 1 .. Len(s)
      BY <1>1
    <3> QED BY <2>2, <3>1 DEF NoNewline
  <2> QED BY <2>1, <2>2
<1>4. Len(s) <= n - 1
  <2> SUFFICES ASSUME ~ (Len(s) <= n - 1) PROVE FALSE
    OBVIOUS
  <2>1. n - 1 \in 1 .. Len(s) - 1 /\ n - 1 \in 1 .. Len(s)
    BY <1>1
  <2>2. s[n - 1] = wire[start + (n - 1)]
    BY <1>2, <2>1
  <2> QED BY <1>3, <2>1, <2>2 DEF AheadOf
<1>5. ASSUME Line(s)
      PROVE  Len(s) = n - 1 /\ GoodData(s)
  <2>1. s[Len(s)] = "n" /\ Len(s) > 0
    BY <1>1, <1>5, EmptySeq DEF Line
  <2>2. wire[start + Len(s)] = "n"
    <3>1. Len(s) \in 1 .. Len(s)
      BY ONLY <1>1, <2>1
    <3> QED BY <1>2, <2>1, <3>1
  <2>3. Len(s) = n - 1
    <3> SUFFICES ASSUME Len(s) # n - 1 PROVE FALSE
      OBVIOUS
    <3>1. Len(s) = 1 \/ Len(s) \in 2 .. n - 2
      <4>1. Len(s) > 0
        BY <2>1
      <4>2. Len(s) < n - 1
        BY ONLY <1>1, <1>4, n \in Nat, Len(s) # n - 1
      <4>3. CASE Len(s) # 1
        <5> DEFINE len == Len(s)
        <5>1. len \in Nat /\ len > 0 /\ len < n - 1 /\ len # 1
          BY <1>1, <4>1, <4>2, <4>3
        <5> HIDE DEF len
        <5>2. len \in 2 .. n - 2
          BY ONLY <5>1, n \in Nat
        <5> QED BY <5>2 DEF len
      <4> QED BY <4>3
    <3>2. CASE Len(s) = 1
      BY <2>2, <3>2 DEF AheadOf
    <3>3. CASE Len(s) \in 2 .. n - 2
      BY <2>2, <3>3 DEF AheadOf
    <3> QED BY <3>1, <3>2, <3>3
  <2>4. s[1] = "d"
    <3>1. 1 \in 1 .. Len(s)
      BY ONLY <1>1, <2>1
    <3> QED BY <1>2, <3>1 DEF AheadOf
  <2>5. ASSUME NEW i \in 1 .. Len(s)
        PROVE  s[i] # "r"
    <3>1. i = 1 \/ i \in 2 .. n - 2 \/ i = n - 1
      BY ONLY <1>1, <2>3, i \in 1 .. Len(s)
    <3>2. s[i] = wire[start + i]
      BY <1>2
    <3>3. CASE i = 1
      BY <2>4, <3>3
    <3>4. CASE i \in 2 .. n - 2
      BY <3>2, <3>4 DEF AheadOf
    <3>5. CASE i = n - 1
      BY <3>2, <3>5 DEF AheadOf
    <3> QED BY <3>1, <3>3, <3>4, <3>5
  <2> QED BY <2>3, <2>4, <2>5 DEF GoodData, Contains
<1> QED BY <1>1, <1>4, <1>5

\* Behind the data line of that frame stands its newline: it is all that is
\* read, and the checks of the complete frame hold.
LEMMA BlankLineOfFrame ==
  ASSUME IInv, pc = "blank line", NEW n \in Nat, AheadOf(n),
         NEW s \in Seq(Byte), Stands(s, start + Len(data)), Line(s) \/ NoNewline(s)
  PROVE  /\ Len(data) = n - 1 /\ Len(s) \in Nat /\ Len(s) <= 1
         /\ NoNewline(s) => Len(s) = 0
         /\ Line(s) => Fits(s)
<1>1. /\ start \in Nat /\ data \in Seq(Byte) /\ Len(data) \in Nat /\ limit \in Nat
  BY SizeFacts DEF IInv
<1>2. Stands(data, start) /\ Line(data)
  BY DEF IInv, BlankLineRead
<1>3. Len(data) = n - 1 /\ 4 <= n /\ n <= limit
  BY <1>1, <1>2, DataLineOfFrame DEF AheadOf
<1>4. Len(s) \in Nat
  BY LenProperties
<1>5. ASSUME Len(s) > 0
      PROVE  1 \in 1 .. Len(s) /\ s[1] = "n"
  <2>1. 1 \in 1 .. Len(s)
    BY ONLY <1>4, <1>5
  <2>2. start + Len(data) + 1 = start + n
    BY ONLY <1>1, <1>3, n \in Nat
  <2>3. s[1] = wire[start + Len(data) + 1]
    BY <2>1 DEF Stands
  <2> QED BY <2>1, <2>2, <2>3 DEF AheadOf
<1>6. Len(s) <= 1
  <2> SUFFICES ASSUME ~ (Len(s) <= 1) PROVE FALSE
    OBVIOUS
  <2>1. Len(s) > 0 /\ 1 \in 1 .. Len(s) /\ 1 \in 1 .. Len(s) - 1
    BY ONLY <1>4, ~ (Len(s) <= 1)
  <2>2. s[1] # "n"
    BY <2>1 DEF Line, NoNewline
  <2> QED BY <1>5, <2>1, <2>2
<1>7. NoNewline(s) => Len(s) = 0
  <2> SUFFICES ASSUME NoNewline(s), Len(s) # 0 PROVE FALSE
    OBVIOUS
  <2>1. Len(s) > 0
    BY ONLY <1>4, Len(s) # 0
  <2>2. s[1] # "n"
    BY <1>5, <2>1 DEF NoNewline
  <2> QED BY <1>5, <2>1, <2>2
<1>8. ASSUME Line(s)
      PROVE  Fits(s)
  <2>1. Len(s) = 1 /\ s[1] = "n"
    <3>1. Len(s) # 0
      <4>1. s # <<>>
        BY <1>8 DEF Line
      <4> QED BY <4>1, EmptySeq
    <3>2. Len(s) > 0
      BY ONLY <1>4, <3>1
    <3>3. Len(s) = 1
      <4> DEFINE len == Len(s)
      <4>1. len \in Nat /\ len <= 1 /\ len > 0
        BY <1>4, <1>6, <3>2
      <4> HIDE DEF len
      <4>2. len = 1
        BY ONLY <4>1
      <4> QED BY <4>2 DEF len
    <3> QED BY <1>5, <3>2, <3>3
  <2>2. s = <<"n">>
    <3> DEFINE t == <<"n">>
    <3>1. t \in Seq(Byte) /\ Len(t) = 1 /\ t[1] = "n"
      <4>1. "n" \in Byte
        BY DEF Byte
      <4> QED BY ONLY <4>1
    <3> HIDE DEF t
    <3>2. Len(s) = Len(t)
      BY ONLY <2>1, <3>1
    <3>3. \A i \in 1 .. Len(s) : s[i] = t[i]
      <4>1. \A i \in 1 .. Len(s) : i = 1
        BY ONLY <2>1
      <4> QED BY ONLY <2>1, <3>1, <4>1
    <3>4. s = t
      BY ONLY <3>1, <3>2, <3>3, s \in Seq(Byte), SeqEqual
    <3> QED BY <3>4 DEF t
  <2>3. Len(data) + Len(s) <= limit
    BY ONLY <1>1, <1>3, <2>1, n \in Nat
  <2>4. /\ Payload \in Seq(Byte) /\ Len(Payload) = n - 3
        /\ \A i \in 1 .. Len(Payload) : Payload[i] = data[i + 1]
    <3>1. Len(data) >= 2 /\ Len(data) - 2 = n - 3
      BY ONLY <1>3, n \in Nat
    <3>2. Payload \in Seq(Byte) /\ Len(Payload) = Len(data) - 2
      BY <1>1, <3>1, PayloadFacts
    <3>3. \A i \in 1 .. Len(Payload) : Payload[i] = data[i + 1]
      BY <1>1, <3>1, PayloadFacts
    <3> QED BY <3>1, <3>2, <3>3
  <2>5. Payload # <<>>
    <3>1. Len(Payload) # 0
      BY ONLY <1>3, <2>4, n \in Nat
    <3> QED BY <3>1, EmptySeq
  <2>6. ASSUME NEW i \in 1 .. Len(Payload)
        PROVE  Payload[i] # "s"
    <3>1. i + 1 \in 2 .. n - 2 /\ i + 1 \in 1 .. Len(data)
      BY ONLY <1>3, <2>4, n \in Nat, i \in 1 .. Len(Payload)
    <3>2. data[i + 1] = wire[start + (i + 1)]
      BY <1>2, <3>1 DEF Stands
    <3>3. wire[start + (i + 1)] # "s"
      BY <3>1 DEF AheadOf
    <3> QED BY <2>4, <3>2, <3>3
  <2> QED BY <2>2, <2>3, <2>5, <2>6 DEF Fits, Blank, Compact, Contains
<1> QED BY <1>3, <1>4, <1>6, <1>7, <1>8

\* A turn of the loop that fails does not have a frame within the limit ahead.
LEMMA FailsForCause ==
  ASSUME IInv, ReadSlice, pc' = "failed", FrameAtStart
  PROVE  FALSE
<1>1. TypeOK
  BY DEF IInv
<1>2. PICK n \in Nat : AheadOf(n)
  BY <1>1, FrameAhead
<1>3. /\ start \in Nat /\ Len(data) \in Nat /\ limit \in Nat /\ Len(wire) \in Nat
      /\ 4 <= n /\ n <= limit /\ start + n <= Len(wire)
  BY <1>1, <1>2, SizeFacts DEF AheadOf
<1>4. pc \in {"data line", "blank line"}
  BY Outcomes
<1>5. Len(Read) \in Nat
  BY <1>4, LineFacts
<1>6. /\ Read \in Seq(Byte)
      /\ Stands(Read, LineStart)
      /\ Contains(Slice, "n") => Line(Read)
      /\ ~Contains(Slice, "n") => NoNewline(Read)
      /\ ~Contains(Slice, "n") /\ Len(Slice) < buffer => LineStart + Len(Read) = Len(wire)
  <2>1. LineStart + Len(Read) = position + Len(Slice)
    BY <1>4, LineFacts
  <2>2. ~Contains(Slice, "n") /\ Len(Slice) < buffer => position + Len(Slice) = Len(wire)
    BY <1>1, SliceFacts
  <2> QED BY <1>4, <2>1, <2>2, LineFacts
<1>7. ASSUME Len(Read) <= limit,
             Contains(Slice, "n") =>
               (pc = "data line" /\ GoodData(Read)) \/ (pc = "blank line" /\ Fits(Read)),
             ~Contains(Slice, "n") => LineStart + Len(Read) # Len(wire)
      PROVE  FALSE
  <2>1. ~TooLong(Read)
    <3>1. ~ (Len(Read) > limit)
      BY ONLY <1>3, <1>5, Len(Read) <= limit
    <3> QED BY <3>1 DEF TooLong
  <2>2. pc # "failed"
    BY <1>4
  <2>3. CASE Contains(Slice, "n")
    <3>1. EndLine(Read)
      BY <2>1, <2>2, <2>3, Outcomes
    <3>2. CASE pc = "data line" /\ GoodData(Read)
      BY <3>1, <3>2 DEF EndLine
    <3>3. CASE pc = "blank line" /\ Fits(Read)
      BY <3>1, <3>3 DEF EndLine
    <3> QED BY <1>7, <2>3, <3>2, <3>3
  <2>4. CASE ~Contains(Slice, "n")
    <3>1. ~ (Len(Slice) < buffer)
      BY <1>6, <1>7, <2>4
    <3>2. pc' = pc
      BY <2>1, <2>4, <3>1, Outcomes
    <3> QED BY <2>2, <3>2
  <2> QED BY <2>3, <2>4
<1>8. CASE pc = "data line"
  <2>1. LineStart = start
    BY <1>8 DEF LineStart
  <2>2. /\ Len(Read) <= n - 1
        /\ Line(Read) => GoodData(Read)
    BY <1>2, <1>3, <1>6, <2>1, DataLineOfFrame
  <2>3. Len(Read) <= limit /\ start + Len(Read) # Len(wire)
    <3>1. Len(Read) <= n - 1
      BY <2>2
    <3> QED BY ONLY <1>3, <1>5, <3>1, n \in Nat
  <2>4. Contains(Slice, "n") => GoodData(Read)
    BY <1>6, <2>2
  <2>5. LineStart + Len(Read) # Len(wire)
    BY <2>1, <2>3
  <2> QED BY ONLY <1>7, <1>8, <2>3, <2>4, <2>5, Zenon
<1>9. CASE pc = "blank line"
  <2>1. LineStart = start + Len(data)
    BY <1>9 DEF LineStart
  <2>2. /\ Len(data) = n - 1 /\ Len(Read) <= 1
        /\ NoNewline(Read) => Len(Read) = 0
        /\ Line(Read) => Fits(Read)
    BY <1>2, <1>6, <1>9, <2>1, BlankLineOfFrame
  <2>3. Len(Read) <= limit /\ (Len(Read) = 0 => start + Len(data) + Len(Read) # Len(wire))
    <3>1. Len(data) = n - 1 /\ Len(Read) <= 1
      BY <2>2
    <3> QED BY ONLY <1>3, <1>5, <3>1, n \in Nat
  <2> QED BY <1>6, <1>7, <1>9, <2>1, <2>2, <2>3
<1> QED BY <1>8, <1>9, <1>4

\* Of every body, limit and buffer: unless the connection breaks, no frame
\* within the limit is refused (stream.go:179-196, client.go:485-505).
THEOREM NothingGoodRefused == Spec => RefusedForCause
<1>1. IInv /\ [Next]_vars => [ReadSlice /\ pc' = "failed" => ~FrameAtStart]_vars
  <2> SUFFICES ASSUME IInv, [Next]_vars, ~UNCHANGED vars
               PROVE  ReadSlice /\ pc' = "failed" => ~FrameAtStart
    OBVIOUS
  <2> QED BY FailsForCause
<1> QED BY <1>1, Invariant, PTL DEF Spec, RefusedForCause
==============================================================================
