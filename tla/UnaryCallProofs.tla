--------------------------- MODULE UnaryCallProofs ---------------------------
(***************************************************************************)
(* Proofs about a non-streaming invocation, for every answer of the peer   *)
(* and every limit.  The first half is about the walk that refuses         *)
(* duplicate members, over every text: it accepts exactly the texts of the *)
(* grammar whose objects name each member once.  The second is about the   *)
(* steps of an invocation.                                                 *)
(***************************************************************************)
EXTENDS UnaryCall, SequenceTheorems, WellFoundedInduction, TLAPS

\* A set of numbers has a least one: the form of induction used below.
LEMMA Least ==
  ASSUME NEW T, T \subseteq Nat, T # {}
  PROVE  \E i \in T : \A j \in T : i <= j
<1>1. PICK i \in T : \A j \in T : ~ (<<j, i>> \in OpToRel(<, Nat))
  BY WFMin, NatLessThanWellFounded
<1>2. ASSUME NEW j \in T PROVE i <= j
  <2>1. i \in Nat /\ j \in Nat
    OBVIOUS
  <2>2. ~ (<<j, i>> \in OpToRel(<, Nat))
    BY <1>1
  <2>3. ~ (j < i)
    BY <2>1, <2>2 DEF OpToRel
  <2> QED BY ONLY <2>1, <2>3
<1> QED BY <1>2

\* A function of the numbers up to N that a step computes from the one before.
Computes(f, X, x0, step, n) ==
  f \in [0 .. n -> X] /\ f[0] = x0 /\ \A k \in 1 .. n : f[k] = step[k][f[k - 1]]

\* There is one, for any steps.
LEMMA Recursion ==
  ASSUME NEW N \in Nat, NEW X, NEW x0 \in X, NEW step \in [1 .. N -> [X -> X]]
  PROVE  \E f : Computes(f, X, x0, step, N)
<1> DEFINE Bad == {n \in 0 .. N : ~ \E f : Computes(f, X, x0, step, n)}
<1>1. SUFFICES ASSUME Bad # {} PROVE FALSE
  OBVIOUS
<1>2. PICK n \in Bad : \A m \in Bad : n <= m
  BY <1>1, Least, Bad \subseteq Nat
<1>3. n # 0
  <2>1. Computes([k \in 0 .. 0 |-> x0], X, x0, step, 0)
    BY DEF Computes
  <2> QED BY <2>1
<1>4. PICK f : Computes(f, X, x0, step, n - 1)
  <2>1. n - 1 \in 0 .. N /\ ~ (n <= n - 1)
    BY <1>3
  <2> QED BY <1>2, <2>1
<1> DEFINE g == [k \in 0 .. n |-> IF k = n THEN step[n][f[n - 1]] ELSE f[k]]
<1>5. Computes(g, X, x0, step, n)
  <2>1. n \in 1 .. N /\ n - 1 \in 0 .. n - 1
    BY <1>3
  <2>2. f \in [0 .. n - 1 -> X] /\ f[0] = x0 /\ \A k \in 1 .. n - 1 : f[k] = step[k][f[k - 1]]
    BY <1>4 DEF Computes
  <2>3. step[n][f[n - 1]] \in X
    BY <2>1, <2>2
  <2>4. g \in [0 .. n -> X]
    BY <2>1, <2>2, <2>3
  <2>5. \A k \in 0 .. n - 1 : g[k] = f[k]
    BY <2>1
  <2>6. g[n] = step[n][f[n - 1]]
    BY <2>1
  <2>7. g[0] = x0
    BY <2>1, <2>2, <2>5
  <2>8. ASSUME NEW k \in 1 .. n PROVE g[k] = step[k][g[k - 1]]
    <3>1. k - 1 \in 0 .. n - 1 /\ (k = n \/ (k \in 1 .. n - 1 /\ k \in 0 .. n - 1))
      BY <2>1
    <3>2. g[k - 1] = f[k - 1]
      BY <3>1, <2>5
    <3> HIDE DEF g
    <3> QED BY <3>1, <3>2, <2>2, <2>5, <2>6
  <2> HIDE DEF g
  <2> QED BY <2>4, <2>7, <2>8 DEF Computes
<1> QED BY <1>5

\* The calls of walk that have opened something, and what they leave: only an
\* object names, and nothing is open once the walk is over or has refused.
Call     == {f \in Frame : f.named => f.open = "object"}
Position == {w \in [stack : Seq(Call), at : {"walking", "over", "refused"}] :
               w.at = "walking" \/ w.stack = <<>>}

\* The last of the open calls, and those before it.
LEMMA StackFacts ==
  ASSUME NEW s \in Seq(Call), s # <<>>
  PROVE  /\ Len(s) \in Nat /\ Len(s) >= 1 /\ Last(s) = s[Len(s)] /\ Last(s) \in Call
         /\ Front(s) \in Seq(Call) /\ Len(Front(s)) = Len(s) - 1
         /\ \A l \in 1 .. Len(s) - 1 : Front(s)[l] = s[l]
<1>1. Len(s) \in Nat /\ Len(s) >= 1
  BY EmptySeq, LenProperties
<1>2. Last(s) = s[Len(s)] /\ Last(s) \in Call
  BY <1>1, ElementOfSeq, Len(s) \in 1 .. Len(s) DEF Last
<1>3. \A l \in 1 .. Len(s) - 1 : s[l] \in Call
  BY <1>1, ElementOfSeq, \A l \in 1 .. Len(s) - 1 : l \in 1 .. Len(s)
<1>4. /\ Front(s) \in Seq(Call) /\ Len(Front(s)) = Len(s) - 1
      /\ \A l \in 1 .. Len(s) - 1 : Front(s)[l] = s[l]
  <2> DEFINE n == Len(s) - 1
  <2>1. n \in Nat /\ 1 \in Int /\ n \in Int /\ \A l \in 1 .. n : s[l] \in Call
    BY <1>1, <1>3
  <2>2. Front(s) = SubSeq(s, 1, n)
    BY DEF Front
  <2> HIDE DEF n
  <2>3. /\ SubSeq(s, 1, n) \in Seq(Call) /\ Len(SubSeq(s, 1, n)) = IF 1 <= n THEN n - 1 + 1 ELSE 0
        /\ \A l \in 1 .. n - 1 + 1 : SubSeq(s, 1, n)[l] = s[1 + l - 1]
    BY ONLY <2>1, SubSeqProperties
  <2>4. Len(SubSeq(s, 1, n)) = n /\ \A l \in 1 .. n : SubSeq(s, 1, n)[l] = s[l]
    BY ONLY <2>1, <2>3
  <2> QED BY <2>2, <2>3, <2>4 DEF n
<1> QED BY <1>1, <1>2, <1>4

\* The innermost call is replaced.
LEMMA WithInnerFacts ==
  ASSUME NEW s \in Seq(Call), s # <<>>, NEW f \in Call
  PROVE  /\ WithInner(s, f) \in Seq(Call) /\ Len(WithInner(s, f)) = Len(s)
         /\ \A l \in 1 .. Len(s) : WithInner(s, f)[l] = IF l = Len(s) THEN f ELSE s[l]
BY StackFacts, ExceptSeq, Len(s) \in 1 .. Len(s) DEF WithInner

\* A call that knows no name any more has its value.
Unnamed(f) == FrameOf(f.open, f.seen, FALSE)

\* A call without a name is one, and has what it was made of.
LEMMA FrameFacts ==
  ASSUME NEW open \in {"object", "array"}, NEW seen \in SUBSET Name
  PROVE  LET f == FrameOf(open, seen, FALSE)
         IN  f \in Call /\ f.open = open /\ f.seen = seen /\ ~f.named
BY DEF FrameOf, Call, Frame

\* A call of an object that has read a name.
LEMMA NamedFacts ==
  ASSUME NEW seen \in SUBSET Name
  PROVE  LET f == FrameOf("object", seen, TRUE)
         IN  f \in Call /\ f.open = "object" /\ f.seen = seen /\ f.named
BY DEF FrameOf, Call, Frame

\* What the calls have in common.
LEMMA CallFacts ==
  ASSUME NEW f \in Call
  PROVE  /\ f.open \in {"object", "array"} /\ f.seen \in SUBSET Name
         /\ f.open = "array" => ~f.named
BY DEF Call, Frame

\* Dropping the name of a call leaves the rest.
LEMMA UnnamedFacts ==
  ASSUME NEW f \in Call
  PROVE  /\ Unnamed(f) \in Call
         /\ Unnamed(f).open = f.open /\ Unnamed(f).seen = f.seen /\ ~Unnamed(f).named
<1>1. f.open \in {"object", "array"} /\ f.seen \in SUBSET Name
  BY CallFacts
<1> QED BY <1>1, FrameFacts DEF Unnamed

\* Completing a value leaves the calls open and drops the name of the innermost.
LEMMA CompleteFacts ==
  ASSUME NEW s \in Seq(Call)
  PROVE  LET w == Complete(s)
         IN  /\ w \in Position /\ w.at # "refused" /\ Len(w.stack) = Len(s)
             /\ s # <<>> => w.at = "walking"
             /\ \A l \in 1 .. Len(s) :
                  w.stack[l] = IF l = Len(s) THEN Unnamed(s[l]) ELSE s[l]
<1>1. CASE s = <<>>
  <2>1. Complete(s) = Over /\ <<>> \in Seq(Call) /\ Len(s) = 0
    BY <1>1, EmptySeq DEF Complete
  <2>2. Over.stack = <<>> /\ Over.at = "over" /\ Over \in Position
    BY <2>1 DEF Over, Position
  <2> QED BY <1>1, <2>1, <2>2
<1>2. CASE s # <<>>
  <2> DEFINE t == WithInner(s, Unnamed(Last(s)))
  <2>1. Complete(s) = Walking(t)
    BY <1>2 DEF Complete, Unnamed
  <2>2. Last(s) \in Call /\ Last(s) = s[Len(s)]
    BY <1>2, StackFacts
  <2>3. /\ t \in Seq(Call) /\ Len(t) = Len(s)
        /\ \A l \in 1 .. Len(s) : t[l] = IF l = Len(s) THEN Unnamed(Last(s)) ELSE s[l]
    BY <1>2, <2>2, UnnamedFacts, WithInnerFacts
  <2> HIDE DEF t
  <2> QED BY <1>2, <2>1, <2>2, <2>3 DEF Walking, Position
<1> QED BY <1>1, <1>2

\* What the walk makes of a token it does not refuse.
Fresh(t) == FrameOf(t, {}, FALSE)

Opens(u, t, v) ==
  /\ ~NameDue(u) /\ t \in {"object", "array"}
  /\ v = Walking(Append(u.stack, Fresh(t)))

Names(u, t, v) ==
  /\ NameDue(u) /\ t \in Name /\ t \notin Inner(u).seen
  /\ v = Walking(WithInner(u.stack, FrameOf("object", Inner(u).seen \cup {t}, TRUE)))

Scalar(u, t, v) == ~NameDue(u) /\ t \in Name /\ v = Complete(u.stack)

Closing(open) == IF open = "object" THEN "end_object" ELSE "end_array"

Closes(u, t, v) ==
  /\ u.stack # <<>> /\ ~Inner(u).named /\ t = Closing(Inner(u).open)
  /\ v = Complete(Front(u.stack))

\* A token that is not refused opens, names, is a scalar or closes.
LEMMA WalkCases ==
  ASSUME NEW u \in Position, NEW t \in Token, Walk(u, t) # Refused
  PROVE  /\ u.at = "walking"
         /\ \/ Opens(u, t, Walk(u, t)) \/ Names(u, t, Walk(u, t))
            \/ Scalar(u, t, Walk(u, t)) \/ Closes(u, t, Walk(u, t))
<1>1. u.at = "walking"
  BY DEF Walk
<1>2. u.stack # <<>> => Inner(u) \in Call
  BY StackFacts DEF Inner, Position
<1>3. t \in Name => t \notin {"object", "end_object", "array", "end_array"}
  BY NameAssumption DEF Delimiter
<1>4. CASE NameDue(u) /\ t \in Name
  <2>1. Walk(u, t) = IF Repeated(u, t) THEN Refused
                     ELSE Walking(WithInner(u.stack, FrameOf("object", Inner(u).seen \cup {t}, TRUE)))
    BY <1>1, <1>3, <1>4 DEF Walk
  <2>2. t \notin Inner(u).seen
    BY <2>1 DEF Repeated
  <2> QED BY <1>1, <1>4, <2>1, <2>2 DEF Names, Repeated
<1>5. CASE NameDue(u) /\ t \notin Name
  <2>1. t = "end_object" /\ Walk(u, t) = Complete(Front(u.stack))
    BY <1>1, <1>5 DEF Walk, NameDue, In
  <2> QED BY <1>1, <1>5, <2>1 DEF Closes, NameDue, In, Closing
<1>6. CASE ~NameDue(u) /\ t \in Name
  <2>1. Walk(u, t) = Complete(u.stack)
    BY <1>1, <1>3, <1>6 DEF Walk
  <2> QED BY <1>1, <1>6, <2>1 DEF Scalar
<1>7. CASE ~NameDue(u) /\ t \in {"object", "array"}
  <2>1. Walk(u, t) = Walking(Append(u.stack, Fresh(t)))
    BY <1>1, <1>3, <1>7 DEF Walk, Fresh
  <2> QED BY <1>1, <1>7, <2>1 DEF Opens
<1>8. CASE ~NameDue(u) /\ t \notin Name /\ t \notin {"object", "array"}
  <2>1. In(u, "array") /\ t = "end_array" /\ Walk(u, t) = Complete(Front(u.stack))
    BY <1>1, <1>8 DEF Walk
  <2>2. u.stack # <<>> /\ Inner(u).open = "array"
    BY <2>1 DEF In
  <2>3. ~Inner(u).named
    BY <1>2, <2>2, CallFacts
  <2> QED BY <1>1, <2>1, <2>2, <2>3 DEF Closes, Closing
<1> QED BY <1>1, <1>4, <1>5, <1>6, <1>7, <1>8

\* Positions follow one another.
LEMMA WalkType ==
  ASSUME NEW u \in Position, NEW t \in Token
  PROVE  Walk(u, t) \in Position
<1> DEFINE v == Walk(u, t)
<1>1. u.stack \in Seq(Call)
  BY DEF Position
<1>2. \A s \in Seq(Call) : Walking(s) \in Position
  BY DEF Walking, Position
<1> SUFFICES v \in Position
  OBVIOUS
<1> HIDE DEF v
<1>3. CASE v = Refused
  BY <1>3, EmptySeq DEF Refused, Position
<1>4. CASE Opens(u, t, v)
  <2>1. Fresh(t) \in Call
    BY <1>4, FrameFacts, {} \in SUBSET Name DEF Opens, Fresh
  <2> QED BY <1>1, <1>2, <1>4, <2>1, AppendProperties DEF Opens
<1>5. CASE Names(u, t, v)
  <2>1. u.stack # <<>> /\ Inner(u) \in Call
    BY <1>1, <1>5, StackFacts DEF Names, NameDue, In, Inner
  <2>2. Inner(u).seen \cup {t} \in SUBSET Name
    BY <1>5, <2>1, CallFacts DEF Names
  <2>3. FrameOf("object", Inner(u).seen \cup {t}, TRUE) \in Call
    BY <2>2, NamedFacts
  <2> QED BY <1>1, <1>2, <1>5, <2>1, <2>3, WithInnerFacts DEF Names
<1>6. CASE Scalar(u, t, v)
  BY <1>1, <1>6, CompleteFacts DEF Scalar
<1>7. CASE Closes(u, t, v)
  BY <1>1, <1>7, CompleteFacts, StackFacts DEF Closes
<1> QED BY <1>3, <1>4, <1>5, <1>6, <1>7, WalkCases DEF v

\* What one token does to the calls, level by level.
Depth(w) == Len(w.stack)

Same(u, v, m) == \A l \in 1 .. m : v.stack[l] = u.stack[l]

Completed(u, v) ==
  /\ Same(u, v, Depth(v) - 1)
  /\ Depth(v) > 0 => v.stack[Depth(v)] = Unnamed(u.stack[Depth(v)])

Opened(u, t, v) ==
  /\ ~NameDue(u) /\ t \in {"object", "array"}
  /\ Depth(v) = Depth(u) + 1 /\ v.stack[Depth(v)] = Fresh(t) /\ Same(u, v, Depth(u))

Named(u, t, v) ==
  LET seen == u.stack[Depth(u)].seen
  IN  /\ NameDue(u) /\ t \in Name /\ t \notin seen
      /\ Depth(u) > 0 /\ Depth(v) = Depth(u)
      /\ v.stack[Depth(u)] = FrameOf("object", seen \cup {t}, TRUE)
      /\ Same(u, v, Depth(u) - 1)

Told(u, t, v) ==
  ~NameDue(u) /\ t \in Name /\ Depth(v) = Depth(u) /\ Completed(u, v)

Closed(u, t, v) ==
  /\ Depth(u) > 0 /\ ~u.stack[Depth(u)].named
  /\ t = Closing(u.stack[Depth(u)].open)
  /\ Depth(v) = Depth(u) - 1 /\ Completed(u, v)

\* The walk's position by the depth of its calls.
LEMMA DepthFacts ==
  ASSUME NEW w \in Position
  PROVE  /\ w.stack \in Seq(Call) /\ Depth(w) \in Nat
         /\ \A l \in 1 .. Depth(w) : w.stack[l] \in Call
         /\ w.stack # <<>> <=> Depth(w) > 0
         /\ w.stack # <<>> => Inner(w) = w.stack[Depth(w)]
         /\ NameDue(w) <=> /\ Depth(w) > 0
                           /\ w.stack[Depth(w)].open = "object"
                           /\ ~w.stack[Depth(w)].named
<1>1. w.stack \in Seq(Call)
  BY DEF Position
<1>2. PICK s \in Seq(Call) : s = w.stack
  BY <1>1
<1>3. Len(s) \in Nat /\ (s # <<>> <=> Len(s) > 0) /\ \A l \in 1 .. Len(s) : s[l] \in Call
  BY EmptySeq, LenProperties, ElementOfSeq
<1>4. s # <<>> => Last(s) = s[Len(s)]
  BY StackFacts
<1> QED BY <1>2, <1>3, <1>4 DEF Depth, NameDue, In, Inner

\* A value is complete: what the stack s of the walk becomes.
LEMMA CompletedFacts ==
  ASSUME NEW s \in Seq(Call), NEW u, NEW v, v = Complete(s), v \in Position,
         \A l \in 1 .. Len(s) : s[l] = u.stack[l]
  PROVE  /\ Depth(v) = Len(s) /\ Completed(u, v)
         /\ v.at = "walking" => Depth(v) > 0
<1>1. Len(s) \in Nat /\ (s = <<>> => Len(s) = 0) /\ (s # <<>> => Len(s) > 0)
  BY EmptySeq, LenProperties
<1>2. /\ Len(v.stack) = Len(s)
      /\ \A l \in 1 .. Len(s) : v.stack[l] = IF l = Len(s) THEN Unnamed(s[l]) ELSE s[l]
  BY CompleteFacts
<1>3. \A l \in 1 .. Len(s) - 1 : v.stack[l] = u.stack[l]
  BY <1>1, <1>2
<1>4. Len(s) > 0 => v.stack[Len(s)] = Unnamed(u.stack[Len(s)])
  BY <1>1, <1>2
<1>5. v.at = "walking" => s # <<>>
  BY DEF Complete, Over
<1> QED BY <1>1, <1>2, <1>3, <1>4, <1>5 DEF Depth, Completed, Same

\* What a token does, level by level, when it is not refused.
LEMMA StepFacts ==
  ASSUME NEW u \in Position, NEW t \in Token, NEW v, v = Walk(u, t), v # Refused
  PROVE  /\ v \in Position /\ u.at = "walking"
         /\ v.at = "walking" => Depth(v) > 0
         /\ Opened(u, t, v) \/ Named(u, t, v) \/ Told(u, t, v) \/ Closed(u, t, v)
<1>1. v \in Position /\ u.at = "walking"
  BY WalkType, WalkCases
<1>2. Opens(u, t, v) \/ Names(u, t, v) \/ Scalar(u, t, v) \/ Closes(u, t, v)
  BY WalkCases
<1>3. PICK s \in Seq(Call) : s = u.stack
  BY DepthFacts
<1>4. Len(s) \in Nat /\ Len(s) = Depth(u) /\ (s # <<>> <=> Depth(u) > 0)
  BY <1>3, DepthFacts DEF Depth
<1>5. CASE Opens(u, t, v)
  <2>1. Fresh(t) \in Call
    BY <1>5, FrameFacts, {} \in SUBSET Name DEF Opens, Fresh
  <2>2. v.stack = Append(s, Fresh(t))
    <3>1. v = Walking(Append(s, Fresh(t)))
      BY <1>3, <1>5 DEF Opens
    <3> QED BY ONLY <3>1 DEF Walking
  <2>3. /\ Len(v.stack) = Len(s) + 1 /\ v.stack[Len(s) + 1] = Fresh(t)
        /\ \A l \in 1 .. Len(s) : v.stack[l] = s[l]
    BY <1>4, <2>1, <2>2, AppendProperties
  <2>4. Depth(v) = Depth(u) + 1 /\ v.stack[Depth(v)] = Fresh(t) /\ Depth(v) > 0
    BY <1>4, <2>3 DEF Depth
  <2>5. Same(u, v, Depth(u))
    BY <1>3, <1>4, <2>3 DEF Same
  <2> QED BY <1>1, <1>5, <2>4, <2>5 DEF Opens, Opened
<1>6. CASE Names(u, t, v)
  <2>1. s # <<>>
    BY <1>3, <1>6 DEF Names, NameDue, In
  <2>2. Inner(u) = s[Len(s)] /\ Inner(u) \in Call
    BY <1>3, <1>4, <2>1, StackFacts DEF Inner
  <2>3. PICK f \in Call : f = FrameOf("object", Inner(u).seen \cup {t}, TRUE)
    <3>1. Inner(u).seen \cup {t} \in SUBSET Name
      BY <1>6, <2>2, CallFacts DEF Names
    <3> QED BY <3>1, NamedFacts
  <2>4. v.stack = WithInner(s, f)
    <3>1. v = Walking(WithInner(s, f))
      BY <1>3, <1>6, <2>3 DEF Names
    <3> QED BY ONLY <3>1 DEF Walking
  <2>5. /\ Len(v.stack) = Len(s) /\ v.stack[Len(s)] = f
        /\ \A l \in 1 .. Len(s) - 1 : v.stack[l] = s[l]
    <3>1. /\ Len(v.stack) = Len(s)
          /\ \A l \in 1 .. Len(s) : v.stack[l] = IF l = Len(s) THEN f ELSE s[l]
      BY <2>1, <2>4, WithInnerFacts
    <3> QED BY <1>4, <2>1, <3>1
  <2> QED BY <1>1, <1>3, <1>4, <1>6, <2>1, <2>2, <2>3, <2>5 DEF Names, Named, Same, Depth
<1>7. CASE Scalar(u, t, v)
  <2>1. v = Complete(s)
    BY <1>3, <1>7 DEF Scalar
  <2>2. Depth(v) = Len(s) /\ Completed(u, v) /\ (v.at = "walking" => Depth(v) > 0)
    BY <1>1, <1>3, <2>1, CompletedFacts
  <2> QED BY <1>1, <1>4, <1>7, <2>2 DEF Scalar, Told
<1>8. CASE Closes(u, t, v)
  <2>1. s # <<>>
    BY <1>3, <1>8 DEF Closes
  <2>2. PICK r \in Seq(Call) : r = Front(s)
    BY <2>1, StackFacts
  <2>3. Len(r) = Len(s) - 1 /\ \A l \in 1 .. Len(r) : r[l] = s[l]
    BY <2>1, <2>2, StackFacts
  <2>4. v = Complete(r)
    BY <1>3, <1>8, <2>2 DEF Closes
  <2>5. Depth(v) = Len(r) /\ Completed(u, v) /\ (v.at = "walking" => Depth(v) > 0)
    BY <1>1, <1>3, <2>3, <2>4, CompletedFacts
  <2>6. Inner(u) = u.stack[Depth(u)]
    BY <1>3, <2>1, DepthFacts
  <2> QED BY <1>1, <1>4, <1>8, <2>1, <2>3, <2>5, <2>6 DEF Closes, Closed
<1> QED BY <1>2, <1>5, <1>6, <1>7, <1>8
------------------------------------------------------------------------------
\* The recursion has a solution.
LEMMA WalksFacts ==
  ASSUME NEW text \in Seq(Token)
  PROVE  /\ Walks(text)[0] = Walking(<<>>)
         /\ \A n \in 1 .. Len(text) : Walks(text)[n] = Walk(Walks(text)[n - 1], text[n])
         /\ \A n \in 0 .. Len(text) : Walks(text)[n] \in Position
<1> DEFINE N      == Len(text)
           step   == [n \in 1 .. N |-> [w \in Position |-> Walk(w, text[n])]]
           Eqn(f) == f = [n \in 0 .. N |-> IF n = 0 THEN Walking(<<>>) ELSE Walk(f[n - 1], text[n])]
           W      == Walks(text)
<1>1. N \in Nat /\ \A n \in 1 .. N : text[n] \in Token
  BY LenProperties, ElementOfSeq
<1>2. Walking(<<>>) \in Position
  BY EmptySeq DEF Walking, Position
<1> HIDE DEF N
<1>3. step \in [1 .. N -> [Position -> Position]]
  BY <1>1, WalkType
<1>4. PICK f : Computes(f, Position, Walking(<<>>), step, N)
  <2> HIDE DEF step
  <2> QED BY <1>1, <1>2, <1>3, Recursion
<1>5. f \in [0 .. N -> Position] /\ f[0] = Walking(<<>>) /\ \A n \in 1 .. N : f[n] = Walk(f[n - 1], text[n])
  <2>1. f \in [0 .. N -> Position] /\ f[0] = Walking(<<>>) /\ \A n \in 1 .. N : f[n] = step[n][f[n - 1]]
    BY <1>4 DEF Computes
  <2>2. \A n \in 1 .. N : n - 1 \in 0 .. N
    BY <1>1
  <2>3. \A n \in 1 .. N : f[n - 1] \in Position
    BY <2>1, <2>2
  <2> QED BY <2>1, <2>3
<1>6. Eqn(f)
  BY <1>1, <1>5
<1>7. W = CHOOSE g : Eqn(g)
  BY DEF Walks, N
<1>8. Eqn(W)
  <2> HIDE DEF Eqn, W
  <2> QED BY <1>6, <1>7
<1> HIDE DEF W
<1>9. W[0] = Walking(<<>>) /\ \A n \in 1 .. N : W[n] = Walk(W[n - 1], text[n])
  BY <1>1, <1>8
<1> HIDE DEF Eqn
<1>10. \A n \in 0 .. N : W[n] \in Position
  <2> DEFINE Bad == {n \in 0 .. N : W[n] \notin Position}
  <2>1. SUFFICES ASSUME Bad # {} PROVE FALSE
    OBVIOUS
  <2>2. PICK n \in Bad : \A m \in Bad : n <= m
    BY <2>1, Least, Bad \subseteq Nat
  <2>3. n \in 1 .. N /\ n - 1 \in 0 .. N /\ n - 1 \notin Bad
    BY <1>1, <1>2, <1>9, <2>2
  <2>4. W[n] \in Position
    BY <1>1, <1>9, <2>3, WalkType
  <2> QED BY <2>2, <2>4
<1> QED BY <1>9, <1>10 DEF N, W

------------------------------------------------------------------------------
\* W is the walk over a text.
IsWalk(W, text) ==
  /\ W[0] = Walking(<<>>)
  /\ \A n \in 1 .. Len(text) : W[n] = Walk(W[n - 1], text[n])
  /\ \A n \in 0 .. Len(text) : W[n] \in Position

\* A step of a walk that does not refuse.
LEMMA StepOf ==
  ASSUME NEW text \in Seq(Token), NEW W, IsWalk(W, text),
         NEW n \in 1 .. Len(text), W[n] # Refused
  PROVE  LET u == W[n - 1]
             t == text[n]
             v == W[n]
         IN  /\ u \in Position /\ v \in Position /\ t \in Token /\ v = Walk(u, t)
             /\ u.at = "walking" /\ (v.at = "walking" => Depth(v) > 0)
             /\ Opened(u, t, v) \/ Named(u, t, v) \/ Told(u, t, v) \/ Closed(u, t, v)
             /\ Depth(u) \in Nat /\ Depth(v) \in Nat
<1> DEFINE u == W[n - 1]
           t == text[n]
           v == W[n]
<1>1. n - 1 \in 0 .. Len(text) /\ n \in 0 .. Len(text) /\ t \in Token
  BY LenProperties, ElementOfSeq
<1>2. u \in Position /\ v \in Position /\ v = Walk(u, t)
  BY <1>1 DEF IsWalk
<1> SUFFICES /\ u \in Position /\ v \in Position /\ t \in Token /\ v = Walk(u, t)
             /\ u.at = "walking" /\ (v.at = "walking" => Depth(v) > 0)
             /\ Opened(u, t, v) \/ Named(u, t, v) \/ Told(u, t, v) \/ Closed(u, t, v)
             /\ Depth(u) \in Nat /\ Depth(v) \in Nat
  OBVIOUS
<1>3. v # Refused
  OBVIOUS
<1> HIDE DEF u, t, v
<1> QED BY <1>1, <1>2, <1>3, StepFacts, DepthFacts

\* Before a position that is not refused, the walk was walking.
LEMMA WalkingBefore ==
  ASSUME NEW text \in Seq(Token), NEW W, IsWalk(W, text),
         NEW q \in 0 .. Len(text), W[q] # Refused, NEW p \in 0 .. q, p < q
  PROVE  W[p].at = "walking" /\ W[p] # Refused
<1> DEFINE Bad == {k \in p + 1 .. q : W[k] # Refused}
<1>1. Len(text) \in Nat
  BY LenProperties
<1>2. q \in Bad /\ Bad \subseteq Nat
  BY <1>1
<1>3. PICK k \in Bad : \A j \in Bad : k <= j
  BY <1>2, Least
<1>4. k \in 1 .. Len(text) /\ W[k] # Refused
  BY <1>1, <1>3
<1>5. W[k - 1].at = "walking"
  BY <1>4, StepOf
<1>6. W[k - 1] # Refused
  BY <1>5 DEF Refused
<1>7. k - 1 = p
  <2>1. k - 1 \notin Bad
    BY <1>3
  <2>2. ~ (k - 1 \in p + 1 .. q)
    BY <1>6, <2>1
  <2> QED BY <1>1, <1>3, <2>2
<1> QED BY <1>5, <1>6, <1>7

\* One token leaves the calls below in place: what they opened stays, and so
\* do the names that they have seen.
LEMMA LevelStep ==
  ASSUME NEW u \in Position, NEW t \in Token, NEW v \in Position,
         Opened(u, t, v) \/ Named(u, t, v) \/ Told(u, t, v) \/ Closed(u, t, v),
         NEW l \in Nat, l > 0, l <= Depth(u), l <= Depth(v)
  PROVE  v.stack[l].open = u.stack[l].open /\ u.stack[l].seen \subseteq v.stack[l].seen
<1> DEFINE Goal == v.stack[l].open = u.stack[l].open /\ u.stack[l].seen \subseteq v.stack[l].seen
<1>1. /\ Depth(u) \in Nat /\ Depth(v) \in Nat /\ l \in 1 .. Depth(u)
      /\ u.stack[l] \in Call
  <2>1. Depth(u) \in Nat /\ Depth(v) \in Nat /\ \A k \in 1 .. Depth(u) : u.stack[k] \in Call
    BY DepthFacts
  <2>2. l \in 1 .. Depth(u)
    BY <2>1
  <2> QED BY <2>1, <2>2
<1>2. \A m \in Nat : l <= m /\ Same(u, v, m) => Goal
  BY DEF Same
<1>3. CASE Opened(u, t, v)
  BY <1>1, <1>2, <1>3 DEF Opened
<1>4. CASE Named(u, t, v)
  <2>1. CASE l < Depth(u)
    <3>1. Depth(u) - 1 \in Nat /\ l <= Depth(u) - 1
      BY <1>1, <2>1
    <3> QED BY <1>2, <1>4, <3>1 DEF Named
  <2>2. CASE l = Depth(u)
    <3>1. /\ v.stack[l] = FrameOf("object", u.stack[l].seen \cup {t}, TRUE)
          /\ u.stack[l].open = "object" /\ t \in Name
      BY <1>4, <2>2, DepthFacts DEF Named
    <3>2. u.stack[l].seen \cup {t} \in SUBSET Name
      BY <1>1, <3>1, CallFacts
    <3>3. v.stack[l].open = "object" /\ v.stack[l].seen = u.stack[l].seen \cup {t}
      BY <3>1, <3>2, NamedFacts
    <3> QED BY <3>1, <3>3
  <2> QED BY <1>1, <2>1, <2>2
<1>5. CASE Completed(u, v) /\ Depth(v) <= Depth(u)
  <2>1. CASE l < Depth(v)
    <3>1. Depth(v) - 1 \in Nat /\ l <= Depth(v) - 1
      BY <1>1, <2>1
    <3> QED BY <1>2, <1>5, <3>1 DEF Completed
  <2>2. CASE l = Depth(v)
    <3>1. v.stack[l] = Unnamed(u.stack[l])
      BY <1>5, <2>2 DEF Completed
    <3> QED BY <1>1, <3>1, UnnamedFacts
  <2> QED BY <1>1, <2>1, <2>2
<1> QED BY <1>1, <1>3, <1>4, <1>5 DEF Told, Closed

\* As long as a call is open.
LEMMA Level ==
  ASSUME NEW text \in Seq(Token), NEW W, IsWalk(W, text), NEW l \in Nat, l > 0,
         NEW p \in 0 .. Len(text), NEW q \in p .. Len(text), W[q] # Refused,
         \A k \in p .. q : Depth(W[k]) >= l
  PROVE  W[q].stack[l].open = W[p].stack[l].open /\ W[p].stack[l].seen \subseteq W[q].stack[l].seen
<1> DEFINE Good(k) == W[k].stack[l].open = W[p].stack[l].open /\ W[p].stack[l].seen \subseteq W[k].stack[l].seen
           Bad == {k \in p .. q : ~Good(k)}
<1>1. Len(text) \in Nat
  BY LenProperties
<1>2. SUFFICES ASSUME Bad # {} PROVE FALSE
  BY <1>1
<1>3. PICK k \in Bad : \A j \in Bad : k <= j
  BY <1>1, <1>2, Least, Bad \subseteq Nat
<1>4. k # p
  BY <1>3
<1>5. k \in 1 .. Len(text) /\ k - 1 \in p .. q /\ k \in p .. q /\ k - 1 \in 0 .. q
  BY <1>1, <1>3, <1>4
<1>6. Good(k - 1)
  BY <1>3, <1>5
<1>7. W[k] # Refused
  <2>1. CASE k = q
    BY <2>1
  <2>2. CASE k < q
    BY <1>5, <2>2, WalkingBefore, k \in 0 .. q, q \in 0 .. Len(text)
  <2> QED BY <1>5, <2>1, <2>2
<1>8. W[k].stack[l].open = W[k - 1].stack[l].open /\ W[k - 1].stack[l].seen \subseteq W[k].stack[l].seen
  <2>1. Depth(W[k - 1]) >= l /\ Depth(W[k]) >= l
    BY <1>5
  <2>2. /\ W[k - 1] \in Position /\ W[k] \in Position /\ text[k] \in Token
        /\ \/ Opened(W[k - 1], text[k], W[k]) \/ Named(W[k - 1], text[k], W[k])
           \/ Told(W[k - 1], text[k], W[k]) \/ Closed(W[k - 1], text[k], W[k])
        /\ Depth(W[k - 1]) \in Nat /\ Depth(W[k]) \in Nat
    BY <1>5, <1>7, StepOf
  <2>3. l <= Depth(W[k - 1]) /\ l <= Depth(W[k])
    BY <2>1, <2>2
  <2> QED BY <2>2, <2>3, LevelStep
<1>9. Good(k)
  BY <1>6, <1>8
<1> QED BY <1>3, <1>9
------------------------------------------------------------------------------
(* The grammar, as an equation.                                            *)

\* The recursion has a solution.
LEMMA ValuesFacts ==
  ASSUME NEW text \in Seq(Token), NEW unique
  PROVE  LET V == Values(text, unique)
         IN  /\ V[0] = {}
             /\ \A n \in 1 .. Len(text) :
                  V[n] = V[n - 1] \cup {<<i, i + n>> : i \in {k \in 0 .. Len(text) - n :
                                          Value(text, unique, k, k + n, V[n - 1])}}
<1> DEFINE N         == Len(text)
           Pairs     == SUBSET (Nat \X Nat)
           New(S, n) == {<<i, i + n>> : i \in {k \in 0 .. N - n : Value(text, unique, k, k + n, S)}}
           step      == [n \in 1 .. N |-> [S \in Pairs |-> S \cup New(S, n)]]
           Eqn(f)    == f = [n \in 0 .. N |-> IF n = 0 THEN {} ELSE f[n - 1] \cup New(f[n - 1], n)]
           V         == Values(text, unique)
<1>1. N \in Nat /\ {} \in Pairs
  BY LenProperties
<1> HIDE DEF N
<1>2. ASSUME NEW n \in 1 .. N, NEW S \in Pairs PROVE S \cup New(S, n) \in Pairs
  BY <1>1
<1>3. V = CHOOSE g : Eqn(g)
  BY DEF Values, N
<1> HIDE DEF New
<1>4. step \in [1 .. N -> [Pairs -> Pairs]]
  BY <1>2
<1>5. PICK f : Computes(f, Pairs, {}, step, N)
  <2> HIDE DEF step, Pairs
  <2> QED BY <1>1, <1>4, Recursion
<1>6. Eqn(f)
  <2>1. f \in [0 .. N -> Pairs] /\ f[0] = {} /\ \A n \in 1 .. N : f[n] = step[n][f[n - 1]]
    BY <1>5 DEF Computes
  <2>2. \A n \in 1 .. N : n - 1 \in 0 .. N
    BY <1>1
  <2>3. \A n \in 1 .. N : f[n - 1] \in Pairs
    BY <2>1, <2>2
  <2>4. \A n \in 1 .. N : f[n] = f[n - 1] \cup New(f[n - 1], n)
    <3> HIDE DEF Pairs
    <3> QED BY <2>1, <2>3
  <2> HIDE DEF step, Pairs
  <2> QED BY <1>1, <2>1, <2>4
<1>7. Eqn(V)
  <2> HIDE DEF Eqn, V
  <2> QED BY <1>3, <1>6
<1> HIDE DEF V
<1>8. \A n \in 0 .. N : V[n] = IF n = 0 THEN {} ELSE V[n - 1] \cup New(V[n - 1], n)
  BY <1>7
<1>9. 0 \in 0 .. N /\ \A n \in 1 .. N : n \in 0 .. N /\ n # 0
  BY <1>1
<1>10. V[0] = {} /\ \A n \in 1 .. N : V[n] = V[n - 1] \cup New(V[n - 1], n)
  <2> HIDE DEF Eqn
  <2> QED BY <1>8, <1>9
<1> QED BY <1>10 DEF New, N, V

\* The parts that are values of up to n tokens, apart from how far the
\* recursion is.
LEMMA Layers ==
  ASSUME NEW text \in Seq(Token), NEW unique,
         NEW i \in 0 .. Len(text), NEW j \in 0 .. Len(text), NEW n \in 0 .. Len(text)
  PROVE  LET V == Values(text, unique)
         IN  <<i, j>> \in V[n] <=>
               i < j /\ j - i <= n /\ Value(text, unique, i, j, V[j - i - 1])
<1> DEFINE N       == Len(text)
           V       == Values(text, unique)
           Good(m) == <<i, j>> \in V[m] <=>
                        i < j /\ j - i <= m /\ Value(text, unique, i, j, V[j - i - 1])
           Bad     == {m \in 0 .. N : ~Good(m)}
<1>1. N \in Nat /\ i \in Nat /\ j \in Nat /\ i <= N /\ j <= N
  BY LenProperties
<1>2. /\ V[0] = {}
      /\ \A m \in 1 .. N :
           V[m] = V[m - 1] \cup {<<k, k + m>> : k \in {h \in 0 .. N - m :
                                    Value(text, unique, h, h + m, V[m - 1])}}
  BY ValuesFacts
<1> HIDE DEF N, V
<1>3. SUFFICES ASSUME Bad # {} PROVE FALSE
  BY DEF N, V
<1>4. PICK m \in Bad : \A h \in Bad : m <= h
  BY <1>3, Least, Bad \subseteq Nat
<1>5. m # 0
  BY <1>1, <1>2, <1>4
<1>6. m \in 1 .. N /\ Good(m - 1)
  BY <1>1, <1>4, <1>5
<1>7. <<i, j>> \in V[m] <=> \/ <<i, j>> \in V[m - 1]
                            \/ j = i + m /\ Value(text, unique, i, j, V[m - 1])
  <2>1. <<i, j>> \in V[m] <=>
          \/ <<i, j>> \in V[m - 1]
          \/ \E k \in 0 .. N - m : <<i, j>> = <<k, k + m>> /\ Value(text, unique, k, k + m, V[m - 1])
    <3> DEFINE S == V[m - 1]
               new == {<<k, k + m>> : k \in {h \in 0 .. N - m : Value(text, unique, h, h + m, S)}}
    <3>1. V[m] = S \cup new
      BY <1>2, <1>6
    <3>2. <<i, j>> \in new <=>
            \E k \in 0 .. N - m : <<i, j>> = <<k, k + m>> /\ Value(text, unique, k, k + m, S)
      <4> HIDE DEF S
      <4> QED OBVIOUS
    <3> HIDE DEF new
    <3> QED BY <3>1, <3>2
  <2>2. (\E k \in 0 .. N - m : <<i, j>> = <<k, k + m>> /\ Value(text, unique, k, k + m, V[m - 1]))
          <=> j = i + m /\ Value(text, unique, i, j, V[m - 1])
    <3>1. j = i + m => i \in 0 .. N - m
      BY <1>1, <1>6
    <3>2. \A k : <<i, j>> = <<k, k + m>> <=> k = i /\ j = k + m
      OBVIOUS
    <3> QED BY <3>1, <3>2
  <2> QED BY <2>1, <2>2
<1>8. CASE j = i + m
  <2>1. i < j /\ j - i <= m /\ j - i - 1 = m - 1 /\ ~ (j - i <= m - 1)
    BY <1>1, <1>6, <1>8
  <2> QED BY <1>4, <1>6, <1>7, <1>8, <2>1
<1>9. CASE j # i + m
  <2>1. j - i <= m <=> j - i <= m - 1
    BY <1>1, <1>6, <1>9
  <2> QED BY <1>4, <1>6, <1>7, <1>9, <2>1
<1> QED BY <1>8, <1>9

\* The values of a text by the grammar.
Parts(text, unique) == Values(text, unique)[Len(text)]

\* The grammar is what the values satisfy.
LEMMA Grammar ==
  ASSUME NEW text \in Seq(Token), NEW unique,
         NEW i \in 0 .. Len(text), NEW j \in 0 .. Len(text)
  PROVE  <<i, j>> \in Parts(text, unique) <=>
           i < j /\ Value(text, unique, i, j, Parts(text, unique))
<1> DEFINE N == Len(text)
           V == Values(text, unique)
           m == j - i
<1>1. N \in Nat /\ i \in Nat /\ j \in Nat /\ i <= N /\ j <= N
  BY LenProperties
<1>2. <<i, j>> \in V[N] <=> i < j /\ Value(text, unique, i, j, V[m - 1])
  <2>1. N \in 0 .. N /\ m <= N
    BY <1>1
  <2> QED BY <2>1, Layers
<1>3. ASSUME i < j
      PROVE  Value(text, unique, i, j, V[m - 1]) <=> Value(text, unique, i, j, V[N])
  <2>1. m - 1 \in 0 .. N /\ N \in 0 .. N
    BY <1>1, <1>3
  <2>2. ASSUME NEW a \in i + 1 .. j - 1, NEW b \in i + 1 .. j - 1
        PROVE  <<a, b>> \in V[m - 1] <=> <<a, b>> \in V[N]
    <3>1. a \in 0 .. N /\ b \in 0 .. N /\ b - a <= m - 1 /\ b - a <= N
      BY <1>1
    <3> QED BY <2>1, <3>1, Layers
  <2>3. ASSUME NEW a \in i + 1 .. j - 1, NEW b \in i + 1 .. j - 1, a < b
        PROVE  <<a + 1, b>> \in V[m - 1] <=> <<a + 1, b>> \in V[N]
    <3>1. a + 1 \in i + 1 .. j - 1
      BY <1>1, <2>3
    <3> QED BY <2>2, <3>1
  <2> HIDE DEF V, m
  <2>4. Items(i + 1, j - 1, V[m - 1]) <=> Items(i + 1, j - 1, V[N])
    BY <2>2 DEF Items, Cuts, Adjacent
  <2>5. Members(text, unique, i + 1, j - 1, V[m - 1]) <=> Members(text, unique, i + 1, j - 1, V[N])
    BY <2>3 DEF Members, Cuts, Adjacent
  <2> QED BY <2>4, <2>5 DEF Value
<1> QED BY <1>2, <1>3 DEF Parts
------------------------------------------------------------------------------
(* Soundness: what the walk accepts has the shape of the grammar.          *)

\* From i to j the walk reads one value: it comes back to the depth it had.
Span(W, i, j) ==
  /\ i < j
  /\ W[i].at = "walking" /\ ~NameDue(W[i]) /\ W[j] # Refused
  /\ Depth(W[j]) = Depth(W[i])
  /\ \A k \in i + 1 .. j - 1 : Depth(W[k]) > Depth(W[i])

\* From p to q the walk is in the call at level l, which text[p] opened, and at
\* q the call may end.
Within(W, text, l, p, q) ==
  /\ W[p].stack[l] = Fresh(text[p]) /\ text[p] \in {"object", "array"}
  /\ Depth(W[p]) = l /\ Depth(W[q]) = l /\ ~W[q].stack[l].named
  /\ W[q] # Refused
  /\ \A k \in p .. q : Depth(W[k]) >= l

\* Where the call waits for another item or member, or its end.
Waits(W, l, p, q) == {k \in p .. q : Depth(W[k]) = l /\ ~W[k].stack[l].named}

\* A call that has just begun.
LEMMA FreshFacts ==
  ASSUME NEW t \in {"object", "array"}
  PROVE  Fresh(t) \in Call /\ Fresh(t).open = t /\ Fresh(t).seen = {} /\ ~Fresh(t).named
BY FrameFacts, {} \in SUBSET Name DEF Fresh

\* Up to the end of the call its level is there, as text[p] opened it.
LEMMA WithinFacts ==
  ASSUME NEW text \in Seq(Token), NEW W, IsWalk(W, text), NEW l \in Nat, l > 0,
         NEW p \in Nat, NEW q \in Nat, p <= q, q <= Len(text), Within(W, text, l, p, q),
         NEW k \in p .. q
  PROVE  /\ W[k] \in Position /\ W[k] # Refused /\ (k < q => W[k].at = "walking")
         /\ Depth(W[k]) \in Nat /\ Depth(W[k]) >= l /\ W[k].stack[l] \in Call
         /\ W[k].stack[l].open = text[p]
<1>1. Len(text) \in Nat /\ k \in 0 .. Len(text) /\ q \in 0 .. Len(text) /\ k \in 0 .. q
  BY LenProperties
<1>2. W[k] # Refused /\ (k < q => W[k].at = "walking")
  <2>0. W[q] # Refused
    BY DEF Within
  <2>1. CASE k = q
    BY <2>0, <2>1
  <2>2. CASE k < q
    BY <1>1, <2>0, <2>2, WalkingBefore
  <2> QED BY <1>1, <2>1, <2>2
<1>3. /\ W[k] \in Position /\ Depth(W[k]) \in Nat /\ Depth(W[k]) >= l
      /\ \A h \in 1 .. Depth(W[k]) : W[k].stack[h] \in Call
  BY <1>1, DepthFacts DEF IsWalk, Within
<1>4. l \in 1 .. Depth(W[k])
  BY <1>3
<1>5. W[k].stack[l].open = W[p].stack[l].open
  <2>1. \A h \in p .. k : Depth(W[h]) >= l
    <3>1. \A h \in p .. q : Depth(W[h]) >= l
      BY DEF Within
    <3> QED BY <3>1
  <2>2. k \in p .. Len(text) /\ p \in 0 .. Len(text)
    BY <1>1
  <2> QED BY <1>2, <2>1, <2>2, Level
<1>6. W[p].stack[l].open = text[p]
  BY FreshFacts DEF Within
<1> QED BY <1>2, <1>3, <1>4, <1>5, <1>6

\* The places where the call waits cut its part of the text.
LEMMA WaitsFacts ==
  ASSUME NEW text \in Seq(Token), NEW W, IsWalk(W, text), NEW l \in Nat, l > 0,
         NEW p \in Nat, NEW q \in Nat, p <= q, q <= Len(text), Within(W, text, l, p, q)
  PROVE  Waits(W, l, p, q) \in Cuts(p, q)
<1>1. p \in p .. q /\ q \in p .. q
  BY LenProperties
<1>2. ~W[p].stack[l].named
  BY FreshFacts DEF Within
<1> QED BY <1>1, <1>2 DEF Within, Waits, Cuts

\* The call of an array reads items.
LEMMA ReadsItems ==
  ASSUME NEW text \in Seq(Token), NEW W, IsWalk(W, text), NEW l \in Nat, l > 0,
         NEW p \in Nat, NEW q \in Nat, p <= q, q <= Len(text), Within(W, text, l, p, q),
         text[p] = "array", NEW values,
         \A a, b \in p .. q : Span(W, a, b) => <<a, b>> \in values
  PROVE  Items(p, q, values)
<1> DEFINE cuts == Waits(W, l, p, q)
<1>1. ASSUME NEW a \in cuts, NEW b \in cuts, Adjacent(cuts, a, b)
      PROVE  <<a, b>> \in values
  <2>1. a \in p .. q /\ b \in p .. q /\ a < b /\ a < q /\ p \in Nat /\ q \in Nat
    BY <1>1, LenProperties DEF Adjacent, Waits
  <2>2. /\ Depth(W[a]) = l /\ Depth(W[b]) = l
        /\ W[a].at = "walking" /\ W[a].stack[l].open = "array" /\ W[b] # Refused
        /\ W[a] \in Position
    BY <2>1, WithinFacts DEF Waits
  <2>3. ~NameDue(W[a])
    BY <2>2, DepthFacts
  <2>4. ASSUME NEW k \in a + 1 .. b - 1 PROVE Depth(W[k]) > l
    <3>1. k \in p .. q /\ a < k /\ k < b
      BY <2>1
    <3>2. k \notin cuts
      BY <1>1, <3>1 DEF Adjacent
    <3>3. Depth(W[k]) \in Nat /\ Depth(W[k]) >= l /\ W[k].stack[l] \in Call /\ W[k].stack[l].open = "array"
      BY <3>1, WithinFacts
    <3>4. ~W[k].stack[l].named
      BY <3>3, CallFacts
    <3>5. Depth(W[k]) # l
      BY <3>1, <3>2, <3>4 DEF Waits
    <3> QED BY <3>3, <3>5
  <2> QED BY <2>1, <2>2, <2>3, <2>4 DEF Span
<1>2. cuts \in Cuts(p, q)
  BY WaitsFacts
<1> HIDE DEF cuts
<1> QED BY <1>1, <1>2 DEF Items

\* Where the call of an object waits, a name follows that it has not seen.
LEMMA ReadsName ==
  ASSUME NEW text \in Seq(Token), NEW W, IsWalk(W, text), NEW l \in Nat, l > 0,
         NEW p \in Nat, NEW q \in Nat, p <= q, q <= Len(text), Within(W, text, l, p, q),
         text[p] = "object", NEW a \in Waits(W, l, p, q), a < q
  PROVE  /\ text[a + 1] \in Name /\ text[a + 1] \notin W[a].stack[l].seen
         /\ Depth(W[a + 1]) = l /\ W[a + 1].stack[l].named
         /\ text[a + 1] \in W[a + 1].stack[l].seen
         /\ ~NameDue(W[a + 1])
<1>1. Len(text) \in Nat /\ a \in p .. q /\ a + 1 \in p .. q /\ a + 1 \in 1 .. Len(text) /\ a + 1 - 1 = a
  <2>1. a \in p .. q
    BY DEF Waits
  <2>2. Len(text) \in Nat
    BY LenProperties
  <2> QED BY ONLY <2>1, <2>2, p \in Nat, q \in Nat, q <= Len(text), a < q
<1>2. PICK u, v, t : u = W[a] /\ v = W[a + 1] /\ t = text[a + 1]
  OBVIOUS
<1>3. /\ u \in Position /\ Depth(u) = l /\ u.stack[l] \in Call
      /\ u.stack[l].open = "object" /\ ~u.stack[l].named
  <2>1. Depth(u) = l /\ ~u.stack[l].named
    BY <1>2 DEF Waits
  <2>2. u \in Position /\ u.stack[l] \in Call /\ u.stack[l].open = "object"
    BY <1>1, <1>2, WithinFacts
  <2> QED BY <2>1, <2>2
<1>4. NameDue(u)
  BY <1>3, DepthFacts
<1>5. v # Refused /\ v \in Position /\ Depth(v) >= l /\ Depth(v) \in Nat
  BY <1>1, <1>2, WithinFacts
<1>6. Opened(u, t, v) \/ Named(u, t, v) \/ Told(u, t, v) \/ Closed(u, t, v)
  BY <1>1, <1>2, <1>5, StepOf
<1>7. Named(u, t, v)
  <2>1. ~Opened(u, t, v) /\ ~Told(u, t, v)
    BY <1>4 DEF Opened, Told
  <2>2. ~Closed(u, t, v)
    BY <1>3, <1>5 DEF Closed
  <2> QED BY <1>6, <2>1, <2>2
<1>8. /\ t \in Name /\ t \notin u.stack[l].seen /\ Depth(v) = l
      /\ v.stack[l] = FrameOf("object", u.stack[l].seen \cup {t}, TRUE)
  BY <1>3, <1>7 DEF Named
<1>9. v.stack[l].named /\ v.stack[l].seen = u.stack[l].seen \cup {t}
  <2>1. u.stack[l].seen \cup {t} \in SUBSET Name
    BY <1>3, <1>8, CallFacts
  <2> QED BY <1>8, <2>1, NamedFacts
<1>10. ~NameDue(v)
  BY <1>5, <1>8, <1>9, DepthFacts
<1> QED BY <1>2, <1>8, <1>9, <1>10

\* Two places where the call of an object waits are followed by two names.
LEMMA NamesDiffer ==
  ASSUME NEW text \in Seq(Token), NEW W, IsWalk(W, text), NEW l \in Nat, l > 0,
         NEW p \in Nat, NEW q \in Nat, p <= q, q <= Len(text), Within(W, text, l, p, q),
         text[p] = "object",
         NEW a \in Waits(W, l, p, q), NEW b \in Waits(W, l, p, q), a < b, b < q
  PROVE  text[a + 1] # text[b + 1]
<1>1. a \in p .. q /\ b \in p .. q /\ a < q
  <2>1. a \in p .. q /\ b \in p .. q
    BY DEF Waits
  <2> QED BY <2>1
<1>2. text[a + 1] \in W[a + 1].stack[l].seen
  BY <1>1, ReadsName
<1>3. W[a + 1].stack[l].seen \subseteq W[b].stack[l].seen
  <2>1. Len(text) \in Nat
    BY LenProperties
  <2>2. a + 1 \in 0 .. Len(text) /\ b \in a + 1 .. Len(text) /\ a + 1 \in p .. q
    BY <1>1, <2>1
  <2>3. W[b] # Refused
    BY <1>1, WithinFacts
  <2>4. \A k \in a + 1 .. b : Depth(W[k]) >= l
    <3>1. \A k \in p .. q : Depth(W[k]) >= l
      BY DEF Within
    <3> QED BY <1>1, <3>1
  <2> QED BY <2>2, <2>3, <2>4, Level
<1>4. text[b + 1] \notin W[b].stack[l].seen
  BY <1>1, ReadsName
<1> QED BY <1>2, <1>3, <1>4

\* The call of an object reads members.
LEMMA ReadsMembers ==
  ASSUME NEW text \in Seq(Token), NEW W, IsWalk(W, text), NEW l \in Nat, l > 0,
         NEW p \in Nat, NEW q \in Nat, p <= q, q <= Len(text), Within(W, text, l, p, q),
         text[p] = "object", NEW values,
         \A a, b \in p .. q : Span(W, a, b) => <<a, b>> \in values
  PROVE  Members(text, TRUE, p, q, values)
<1> DEFINE cuts == Waits(W, l, p, q)
<1>1. cuts \in Cuts(p, q) /\ \A k \in cuts : k \in p .. q /\ Depth(W[k]) = l /\ ~W[k].stack[l].named
  BY WaitsFacts DEF Waits
<1>2. ASSUME NEW a \in cuts, NEW b \in cuts, Adjacent(cuts, a, b)
      PROVE  text[a + 1] \in Name /\ <<a + 1, b>> \in values
  <2>1. a \in p .. q /\ b \in p .. q /\ a < b /\ a < q
    <3>1. a \in p .. q /\ b \in p .. q /\ a < b
      BY <1>1, <1>2 DEF Adjacent
    <3> QED BY <3>1
  <2>2. /\ text[a + 1] \in Name /\ Depth(W[a + 1]) = l /\ W[a + 1].stack[l].named
        /\ ~NameDue(W[a + 1])
    BY <2>1, ReadsName
  <2>3. a + 1 # b
    BY <1>1, <2>2
  <2>4. a + 1 \in p .. q /\ a + 1 < b /\ a + 1 < q
    BY <2>1, <2>3
  <2>5. W[a + 1].at = "walking" /\ W[b] # Refused /\ Depth(W[b]) = l
    BY <1>1, <2>1, <2>4, WithinFacts
  <2>6. ASSUME NEW k \in a + 1 + 1 .. b - 1 PROVE Depth(W[k]) > l
    <3>1. k \in p .. q /\ k - 1 \in p .. q /\ a < k /\ k < b /\ a < k - 1 /\ k - 1 < b
      BY <2>1
    <3>2. k \notin cuts /\ k - 1 \notin cuts
      BY <1>2, <3>1 DEF Adjacent
    <3>3. Depth(W[k]) \in Nat /\ Depth(W[k]) >= l /\ W[k].stack[l] \in Call /\ W[k] # Refused
      BY <3>1, WithinFacts
    <3>4. Depth(W[k - 1]) \in Nat /\ Depth(W[k - 1]) >= l /\ W[k - 1].stack[l] \in Call /\ W[k - 1] \in Position
      BY <3>1, WithinFacts
    <3>5. SUFFICES ASSUME Depth(W[k]) = l PROVE FALSE
      BY <3>3
    <3>6. W[k].stack[l].named
      BY <3>1, <3>2, <3>5 DEF Waits
    <3>7. k \in 1 .. Len(text)
      BY <3>1, LenProperties
    <3>8. PICK u, t, v : u = W[k - 1] /\ t = text[k] /\ v = W[k]
      OBVIOUS
    <3>9. Opened(u, t, v) \/ Named(u, t, v) \/ Told(u, t, v) \/ Closed(u, t, v)
      BY <3>3, <3>7, <3>8, StepOf
    <3>10. ~Opened(u, t, v)
      BY <3>5, <3>6, <3>8, FreshFacts DEF Opened
    <3>11. ~Completed(u, v)
      <4>1. ASSUME Completed(u, v) PROVE FALSE
        <5>1. v.stack[l] = Unnamed(u.stack[l])
          BY <3>5, <3>8, <4>1 DEF Completed
        <5> QED BY <3>4, <3>6, <3>8, <5>1, UnnamedFacts
      <4> QED BY <4>1
    <3>12. Depth(u) = l /\ NameDue(u)
      BY <3>5, <3>8, <3>9, <3>10, <3>11 DEF Named, Told, Closed
    <3>13. ~u.stack[l].named
      BY <3>4, <3>8, <3>12, DepthFacts
    <3> QED BY <3>1, <3>2, <3>8, <3>12, <3>13 DEF Waits
  <2>7. Span(W, a + 1, b)
    BY <2>2, <2>4, <2>5, <2>6 DEF Span
  <2> QED BY <2>1, <2>2, <2>4, <2>7
<1>3. ASSUME NEW a \in cuts \ {q}, NEW b \in cuts \ {q}, text[a + 1] = text[b + 1]
      PROVE  a = b
  <2>1. a \in p .. q /\ b \in p .. q /\ a < q /\ b < q
    BY <1>1
  <2> QED BY <1>3, <2>1, NamesDiffer
<1> HIDE DEF cuts
<1> QED BY <1>1, <1>2, <1>3 DEF Members

\* A span is a value if its shorter spans are.
LEMMA SpanStep ==
  ASSUME NEW text \in Seq(Token), NEW W, IsWalk(W, text),
         NEW i \in 0 .. Len(text), NEW j \in 0 .. Len(text), Span(W, i, j),
         \A a, b \in 0 .. Len(text) :
           Span(W, a, b) /\ b - a < j - i => <<a, b>> \in Parts(text, TRUE)
  PROVE  <<i, j>> \in Parts(text, TRUE)
<1> DEFINE P == Parts(text, TRUE)
<1>1. Len(text) \in Nat /\ i \in Nat /\ j \in Nat /\ i < j /\ j <= Len(text)
  BY LenProperties DEF Span
<1> SUFFICES Value(text, TRUE, i, j, P)
  BY <1>1, Grammar
<1> HIDE DEF P
<1>2. /\ W[i].at = "walking" /\ ~NameDue(W[i]) /\ W[j] # Refused
      /\ Depth(W[j]) = Depth(W[i])
      /\ \A k \in i + 1 .. j - 1 : Depth(W[k]) > Depth(W[i])
  BY DEF Span
<1>3. W[i + 1] # Refused
  <2>1. CASE i + 1 = j
    BY <1>2, <2>1
  <2>2. CASE i + 1 < j
    BY <1>1, <1>2, <2>2, WalkingBefore, i + 1 \in 0 .. j
  <2> QED BY <1>1, <2>1, <2>2
<1>4. i + 1 \in 1 .. Len(text) /\ i + 1 - 1 = i
  BY <1>1
<1>5. PICK u, t, v : u = W[i] /\ t = text[i + 1] /\ v = W[i + 1]
  OBVIOUS
<1>6. /\ Opened(u, t, v) \/ Named(u, t, v) \/ Told(u, t, v) \/ Closed(u, t, v)
      /\ Depth(u) \in Nat /\ Depth(v) \in Nat
  BY <1>3, <1>4, <1>5, StepOf
<1>7. Depth(v) <= Depth(u) => i + 1 = j
  <2>1. i + 1 # j => i + 1 \in i + 1 .. j - 1
    BY <1>1
  <2> QED BY <1>2, <1>5, <1>6, <2>1
<1>8. CASE Told(u, t, v)
  <2>1. Depth(v) <= Depth(u) /\ t \in Name
    BY <1>6, <1>8 DEF Told
  <2>2. j = i + 1 /\ text[j] \in Name
    BY <1>5, <1>7, <2>1
  <2> QED BY <2>2 DEF Value
<1>9. CASE Opened(u, t, v)
  <2> DEFINE l == Depth(u) + 1
             p == i + 1
             q == j - 1
  <2>1. l \in Nat /\ l > 0 /\ Depth(v) = l /\ t \in {"object", "array"} /\ v.stack[l] = Fresh(t)
    BY <1>6, <1>9 DEF Opened
  <2>2. i + 1 # j
    BY <1>2, <1>5, <1>6, <2>1
  <2>3. p \in Nat /\ q \in Nat /\ p <= q /\ q <= Len(text) /\ q < j /\ p < j
    BY <1>1, <2>2
  <2>4. \A k \in p .. q : Depth(W[k]) \in Nat /\ Depth(W[k]) >= l
    <3>1. ASSUME NEW k \in p .. q PROVE Depth(W[k]) \in Nat /\ Depth(W[k]) >= l
      <4>1. k \in 0 .. Len(text) /\ Depth(W[k]) > Depth(u)
        BY <1>1, <1>2, <1>5
      <4>2. Depth(W[k]) \in Nat
        BY <4>1, DepthFacts DEF IsWalk
      <4> QED BY <1>6, <4>1, <4>2
    <3> QED BY <3>1
  <2>5. W[q] # Refused
    BY <1>1, <1>2, <2>3, WalkingBefore, q \in 0 .. j
  <2>6. j \in 1 .. Len(text) /\ q \in p .. q /\ j - 1 = q
    BY <1>1, <2>3
  <2>7. PICK y, s, z : y = W[q] /\ s = text[j] /\ z = W[j]
    OBVIOUS
  <2>8. Opened(y, s, z) \/ Named(y, s, z) \/ Told(y, s, z) \/ Closed(y, s, z)
    BY <1>2, <2>6, <2>7, StepOf
  <2>9. Depth(z) = Depth(u) /\ Depth(y) \in Nat /\ Depth(y) >= l
    BY <1>2, <1>5, <2>4, <2>6, <2>7
  <2>10. Closed(y, s, z)
    <3>1. Depth(y) > Depth(z) /\ Depth(z) # Depth(y) /\ Depth(z) # Depth(y) + 1
      BY <1>6, <2>9
    <3> HIDE DEF l, p, q
    <3>2. ~Opened(y, s, z)
      BY <3>1 DEF Opened
    <3>3. ~Named(y, s, z)
      BY <3>1 DEF Named
    <3>4. ~Told(y, s, z)
      BY <3>1 DEF Told
    <3> QED BY <2>8, <3>2, <3>3, <3>4
  <2>11. Depth(y) = l /\ ~y.stack[l].named /\ s = Closing(y.stack[l].open)
    <3>1. Depth(z) = Depth(y) - 1
      BY <2>10 DEF Closed
    <3>2. Depth(y) = l
      BY <1>6, <2>9, <3>1
    <3> HIDE DEF l
    <3> QED BY <2>10, <3>2 DEF Closed
  <2> HIDE DEF l, p, q
  <2>12. Within(W, text, l, p, q)
    BY <1>5, <2>1, <2>4, <2>5, <2>7, <2>11 DEF Within, p
  <2>13. y.stack[l].open = text[p]
    BY <2>1, <2>3, <2>6, <2>7, <2>12, WithinFacts
  <2>14. \A a, b \in p .. q : Span(W, a, b) => <<a, b>> \in P
    <3>1. ASSUME NEW a \in p .. q, NEW b \in p .. q, Span(W, a, b)
          PROVE  <<a, b>> \in P
      <4>1. a \in 0 .. Len(text) /\ b \in 0 .. Len(text) /\ b - a < j - i
        BY <1>1, <2>3 DEF p, q
      <4> QED BY <3>1, <4>1 DEF P
    <3> QED BY <3>1
  <2>15. Between(text, i, j, t, s)
    BY <1>1, <1>5, <2>2, <2>7 DEF Between
  <2>16. t = text[p]
    BY <1>5 DEF p
  <2>17. CASE t = "array"
    <3>1. Items(p, q, P)
      BY <2>1, <2>3, <2>12, <2>14, <2>16, <2>17, ReadsItems
    <3>2. s = "end_array"
      BY <2>11, <2>13, <2>16, <2>17 DEF Closing
    <3> QED BY <2>15, <2>17, <3>1, <3>2 DEF Value, p, q
  <2>18. CASE t = "object"
    <3>1. Members(text, TRUE, p, q, P)
      BY <2>1, <2>3, <2>12, <2>14, <2>16, <2>18, ReadsMembers
    <3>2. s = "end_object"
      BY <2>11, <2>13, <2>16, <2>18 DEF Closing
    <3> QED BY <2>15, <2>18, <3>1, <3>2 DEF Value, p, q
  <2> QED BY <2>1, <2>17, <2>18
<1>10. CASE Closed(u, t, v)
  <2>1. Depth(v) = Depth(u) - 1 /\ Depth(v) < Depth(u)
    BY <1>6, <1>10 DEF Closed
  <2> QED BY <1>2, <1>5, <1>6, <1>7, <2>1
<1>11. CASE Named(u, t, v)
  BY <1>2, <1>5, <1>11 DEF Named
<1> QED BY <1>6, <1>8, <1>9, <1>10, <1>11

\* What the walk reads as a value is one.
LEMMA SpanIsValue ==
  ASSUME NEW text \in Seq(Token), NEW W, IsWalk(W, text),
         NEW i \in 0 .. Len(text), NEW j \in 0 .. Len(text), Span(W, i, j)
  PROVE  <<i, j>> \in Parts(text, TRUE)
<1> DEFINE N   == Len(text)
           Bad == {n \in Nat : \E a, b \in 0 .. N :
                     n = b - a /\ Span(W, a, b) /\ <<a, b>> \notin Parts(text, TRUE)}
<1>1. N \in Nat
  BY LenProperties
<1>2. SUFFICES ASSUME Bad # {} PROVE FALSE
  <2>1. j - i \in Nat
    BY <1>1 DEF Span
  <2> QED BY <2>1
<1>3. PICK n \in Bad : \A m \in Bad : n <= m
  BY <1>2, Least, Bad \subseteq Nat
<1>4. PICK a \in 0 .. N, b \in 0 .. N :
        n = b - a /\ Span(W, a, b) /\ <<a, b>> \notin Parts(text, TRUE)
  BY <1>3
<1>5. ASSUME NEW c \in 0 .. N, NEW d \in 0 .. N, Span(W, c, d), d - c < b - a
      PROVE  <<c, d>> \in Parts(text, TRUE)
  <2>1. d - c \in Nat
    BY <1>1, <1>5 DEF Span
  <2>2. ~ (n <= d - c)
    BY <1>1, <1>4, <1>5
  <2>3. d - c \notin Bad
    <3> HIDE DEF Bad
    <3> QED BY <1>3, <2>2
  <2> QED BY <1>5, <2>1, <2>3
<1> HIDE DEF Bad
<1> QED BY <1>4, <1>5, SpanStep
------------------------------------------------------------------------------
(* Completeness: the walk gets over every value of the grammar.            *)

\* What the walk does with a token that may come next.
LEMMA WalkForward ==
  ASSUME NEW u, u.at = "walking", NEW t \in Token
  PROVE  /\ ~NameDue(u) /\ t \in Name => Walk(u, t) = Complete(u.stack)
         /\ ~NameDue(u) /\ t \in {"object", "array"} => Walk(u, t) = Walking(Append(u.stack, Fresh(t)))
         /\ NameDue(u) /\ t \in Name /\ t \notin Inner(u).seen =>
              Walk(u, t) = Walking(WithInner(u.stack, FrameOf("object", Inner(u).seen \cup {t}, TRUE)))
         /\ NameDue(u) /\ t = "end_object" => Walk(u, t) = Complete(Front(u.stack))
         /\ ~NameDue(u) /\ In(u, "array") /\ t = "end_array" => Walk(u, t) = Complete(Front(u.stack))
<1>1. t \in Name => t \notin {"object", "end_object", "array", "end_array"}
  BY NameAssumption DEF Delimiter
<1>2. ~NameDue(u) /\ t \in Name => Walk(u, t) = Complete(u.stack)
  BY <1>1 DEF Walk
<1>3. ~NameDue(u) /\ t \in {"object", "array"} => Walk(u, t) = Walking(Append(u.stack, Fresh(t)))
  BY <1>1 DEF Walk, Fresh
<1>4. NameDue(u) /\ t \in Name /\ t \notin Inner(u).seen =>
        Walk(u, t) = Walking(WithInner(u.stack, FrameOf("object", Inner(u).seen \cup {t}, TRUE)))
  BY <1>1 DEF Walk, Repeated
<1>5. NameDue(u) /\ t = "end_object" => Walk(u, t) = Complete(Front(u.stack))
  BY <1>1 DEF Walk
<1>6. ~NameDue(u) /\ In(u, "array") /\ t = "end_array" => Walk(u, t) = Complete(Front(u.stack))
  BY <1>1 DEF Walk
<1> QED BY <1>2, <1>3, <1>4, <1>5, <1>6

\* The innermost of the calls.
LEMMA AppendFacts ==
  ASSUME NEW s \in Seq(Call), NEW f \in Call
  PROVE  /\ Append(s, f) \in Seq(Call) /\ Append(s, f) # <<>>
         /\ Last(Append(s, f)) = f /\ Front(Append(s, f)) = s
         /\ \A g \in Call : WithInner(Append(s, f), g) = Append(s, g)
<1> DEFINE n == Len(s)
           r == Append(s, f)
<1>1. /\ r \in Seq(Call) /\ r # <<>> /\ n \in Nat /\ Len(r) = n + 1
      /\ \A l \in 1 .. n : r[l] = s[l]
      /\ r[n + 1] = f
  <2>1. r # <<>> /\ r \in Seq(Call) /\ Len(r) = Len(s) + 1 /\ n \in Nat
    BY AppendProperties, LenProperties
  <2>2. \A l \in 1 .. n : r[l] = s[l]
    BY AppendProperties
  <2>3. r[n + 1] = f
    BY AppendProperties
  <2> QED BY <2>1, <2>2, <2>3
<1> HIDE DEF r
<1>2. /\ Last(r) = r[n + 1] /\ Front(r) \in Seq(Call) /\ Len(Front(r)) = n
      /\ \A l \in 1 .. n : Front(r)[l] = r[l]
  <2>1. /\ Last(r) = r[Len(r)] /\ Front(r) \in Seq(Call) /\ Len(Front(r)) = Len(r) - 1
        /\ \A l \in 1 .. Len(r) - 1 : Front(r)[l] = r[l]
    BY <1>1, StackFacts
  <2>2. Len(r) - 1 = n
    BY <1>1
  <2> QED BY <1>1, <2>1, <2>2
<1>3. Front(r) = s
  <2>1. PICK h \in Seq(Call) : h = Front(r)
    BY <1>2
  <2>2. Len(h) = Len(s) /\ \A l \in 1 .. Len(s) : h[l] = s[l]
    BY <1>1, <1>2, <2>1
  <2>3. h = s
    BY <2>2, SeqEqual, LenProperties
  <2> QED BY <2>1, <2>3
<1>4. ASSUME NEW g \in Call PROVE WithInner(r, g) = Append(s, g)
  <2>1. PICK h \in Seq(Call) : h = WithInner(r, g)
    BY <1>1, WithInnerFacts
  <2>2. Len(h) = n + 1 /\ \A l \in 1 .. n + 1 : h[l] = IF l = n + 1 THEN g ELSE r[l]
    <3>1. /\ Len(h) = Len(r)
          /\ \A l \in 1 .. Len(r) : h[l] = IF l = Len(r) THEN g ELSE r[l]
      BY <1>1, <2>1, WithInnerFacts
    <3> QED BY <1>1, <3>1
  <2>3. PICK k \in Seq(Call) : k = Append(s, g)
    BY AppendProperties
  <2>4. Len(k) = n + 1 /\ k[n + 1] = g /\ \A l \in 1 .. n : k[l] = s[l]
    BY <2>3, AppendProperties
  <2>5. \A l \in 1 .. n + 1 : l = n + 1 \/ l \in 1 .. n
    BY <1>1
  <2>6. \A l \in 1 .. n + 1 : h[l] = k[l]
    BY <1>1, <2>2, <2>4, <2>5
  <2>7. h = k
    BY <2>2, <2>4, <2>6, SeqEqual
  <2> QED BY <2>1, <2>3, <2>7
<1> QED BY <1>1, <1>2, <1>3, <1>4 DEF r

\* The walk in a call f, inside the calls s.
Inside(s, f) == Walking(Append(s, f))

\* What there is to know of a walk in the call f.
LEMMA InFacts ==
  ASSUME NEW s \in Seq(Call), NEW f \in Call, NEW w, w = Inside(s, f)
  PROVE  /\ w.at = "walking" /\ w.stack = Append(s, f) /\ Inner(w) = f
         /\ f.open = "array" => In(w, "array")
         /\ f.open = "object" /\ ~f.named => NameDue(w)
         /\ f.open = "array" \/ f.named => ~NameDue(w)
         /\ Complete(w.stack) = Inside(s, Unnamed(f))
         /\ Complete(Front(w.stack)) = Complete(s)
<1>1. w.at = "walking" /\ w.stack = Append(s, f)
  BY DEF Inside, Walking
<1>2. w.stack # <<>> /\ Last(w.stack) = f /\ Front(w.stack) = s
  BY <1>1, AppendFacts
<1>3. f.open = "array" => In(w, "array")
  BY <1>2 DEF In, Inner
<1>4. Complete(w.stack) = Inside(s, Unnamed(f))
  <2>1. Unnamed(f) \in Call
    BY UnnamedFacts
  <2>2. WithInner(w.stack, Unnamed(f)) = Append(s, Unnamed(f))
    BY <1>1, <2>1, AppendFacts
  <2> QED BY <1>2, <2>2 DEF Complete, Inside, Unnamed
<1>5. NameDue(w) <=> f.open = "object" /\ ~f.named
  BY <1>2 DEF NameDue, In, Inner
<1> QED BY <1>1, <1>2, <1>3, <1>4, <1>5 DEF Inner

\* The call of an object that has seen some names, where it waits for another
\* and where it has one.
Object(seen) == FrameOf("object", seen, FALSE)
Naming(seen) == FrameOf("object", seen, TRUE)

\* Calls of an object without and with a name.
LEMMA ObjectFacts ==
  ASSUME NEW seen \in SUBSET Name
  PROVE  /\ Object(seen) \in Call /\ Object(seen).open = "object"
         /\ Object(seen).seen = seen /\ ~Object(seen).named
         /\ Naming(seen) \in Call /\ Naming(seen).named
         /\ Unnamed(Naming(seen)) = Object(seen)
BY FrameFacts, NamedFacts DEF Object, Naming, Unnamed

\* The name of a member, and what is left once its value is complete.
LEMMA NameRead ==
  ASSUME NEW s \in Seq(Call), NEW seen \in SUBSET Name, NEW t \in Name, t \notin seen,
         NEW u, u = Inside(s, Object(seen)), NEW v, v = Walk(u, t)
  PROVE  /\ v.at = "walking" /\ ~NameDue(v)
         /\ Complete(v.stack) = Inside(s, Object(seen \cup {t}))
<1>1. PICK f \in Call : f = Object(seen) /\ f.open = "object" /\ f.seen = seen /\ ~f.named
  BY ObjectFacts
<1>2. PICK g \in Call : g = Naming(seen \cup {t}) /\ g.named /\ Unnamed(g) = Object(seen \cup {t})
  BY ObjectFacts, seen \cup {t} \in SUBSET Name
<1>3. u.at = "walking" /\ u.stack = Append(s, f) /\ Inner(u) = f /\ NameDue(u)
  BY <1>1, InFacts
<1>4. v = Walking(WithInner(u.stack, g))
  <2>1. t \in Token
    BY DEF Token
  <2>2. Walk(u, t) = Walking(WithInner(u.stack, FrameOf("object", seen \cup {t}, TRUE)))
    BY <1>1, <1>3, <2>1, WalkForward
  <2> QED BY <1>2, <2>2 DEF Naming
<1>5. v = Inside(s, g)
  <2>1. WithInner(u.stack, g) = Append(s, g)
    BY <1>3, AppendFacts
  <2> QED BY <1>4, <2>1 DEF Inside
<1>6. v.at = "walking" /\ ~NameDue(v) /\ Complete(v.stack) = Inside(s, Unnamed(g))
  BY <1>2, <1>5, InFacts
<1> QED BY <1>2, <1>6

\* The cut before another.
LEMMA CutBefore ==
  ASSUME NEW p \in Nat, NEW q \in Nat, NEW cuts \in Cuts(p, q), NEW c \in cuts, c # p
  PROVE  \E a \in cuts : Adjacent(cuts, a, c) /\ a \in p .. q /\ a < c /\ c <= q
<1> DEFINE D == {n \in Nat : \E a \in cuts : n = c - a /\ a < c}
<1>1. cuts \subseteq p .. q /\ p \in cuts
  BY DEF Cuts
<1>2. c - p \in D
  BY <1>1
<1>3. PICK n \in D : \A m \in D : n <= m
  BY <1>2, Least, D \subseteq Nat
<1>4. PICK a \in cuts : n = c - a /\ a < c
  BY <1>3
<1>5. ASSUME NEW b \in cuts, a < b, b < c PROVE FALSE
  <2>1. a \in Nat /\ b \in Nat /\ c \in Nat
    BY <1>1
  <2>2. c - b \in D
    BY <1>5, <2>1
  <2>3. c - a <= c - b
    <3> HIDE DEF D
    <3> QED BY <1>3, <1>4, <2>2
  <2> QED BY ONLY <1>5, <2>1, <2>3
<1> QED BY <1>1, <1>4, <1>5 DEF Adjacent

\* The parts of values that the walk gets over.
Reads(W, values, p, q) ==
  \A a, b \in p .. q :
    <<a, b>> \in values /\ W[a].at = "walking" /\ ~NameDue(W[a]) => W[b] = Complete(W[a].stack)

\* After its items an array is where it was before them.
LEMMA ReadItems ==
  ASSUME NEW W, NEW s \in Seq(Call), NEW p \in Nat, NEW q \in Nat, p <= q,
         NEW values, Reads(W, values, p, q), Items(p, q, values),
         W[p] = Inside(s, Fresh("array"))
  PROVE  W[q] = Inside(s, Fresh("array"))
<1>1. PICK cuts \in Cuts(p, q) : \A a, b \in cuts : Adjacent(cuts, a, b) => <<a, b>> \in values
  BY DEF Items
<1> DEFINE Bad == {c \in cuts : W[c] # Inside(s, Fresh("array"))}
<1>2. cuts \subseteq p .. q /\ q \in cuts
  BY DEF Cuts
<1>3. SUFFICES ASSUME Bad # {} PROVE FALSE
  BY <1>2
<1>4. PICK c \in Bad : \A k \in Bad : c <= k
  <2>1. Bad \subseteq Nat
    <3>1. cuts \subseteq Nat
      BY <1>2
    <3> QED BY <3>1
  <2> HIDE DEF Bad
  <2> QED BY <1>3, <2>1, Least
<1>5. PICK a \in cuts : Adjacent(cuts, a, c) /\ a \in p .. q /\ a < c /\ c <= q
  BY <1>4, CutBefore
<1>6. W[a] = Inside(s, Fresh("array"))
  <2>1. ~ (c <= a)
    BY <1>2, <1>4, <1>5
  <2> QED BY <1>4, <2>1
<1>7. PICK f \in Call : f = Fresh("array") /\ f.open = "array" /\ f.seen = {} /\ ~f.named
  BY FreshFacts
<1>8. W[a].at = "walking" /\ ~NameDue(W[a]) /\ Complete(W[a].stack) = Inside(s, Unnamed(f))
  BY <1>6, <1>7, InFacts
<1>9. Unnamed(f) = f
  BY <1>7 DEF Unnamed, Fresh
<1>10. W[c] = Inside(s, f)
  BY <1>1, <1>2, <1>4, <1>5, <1>8, <1>9 DEF Reads
<1> QED BY <1>4, <1>7, <1>10

\* The names of the members before the cut c.
SeenBefore(text, cuts, c) == {text[a + 1] : a \in {x \in cuts : x < c}}

\* After its members an object waits for another: no name was refused.
LEMMA ReadMembers ==
  ASSUME NEW text \in Seq(Token), NEW W, IsWalk(W, text), NEW s \in Seq(Call),
         NEW p \in Nat, NEW q \in Nat, p <= q, q <= Len(text),
         NEW values, Reads(W, values, p, q), Members(text, TRUE, p, q, values),
         W[p] = Inside(s, Fresh("object"))
  PROVE  \E seen \in SUBSET Name : W[q] = Inside(s, Object(seen))
<1>1. PICK cuts \in Cuts(p, q) :
        /\ \A a, b \in cuts :
             Adjacent(cuts, a, b) => text[a + 1] \in Name /\ <<a + 1, b>> \in values
        /\ \A a, b \in cuts \ {q} : text[a + 1] = text[b + 1] => a = b
  BY DEF Members
<1> DEFINE Seen(c) == SeenBefore(text, cuts, c)
           Good(c) == Seen(c) \in SUBSET Name /\ W[c] = Inside(s, Object(Seen(c)))
           Bad == {c \in cuts : ~Good(c)}
<1>2. cuts \subseteq p .. q /\ q \in cuts /\ cuts \subseteq Nat
  BY DEF Cuts
<1>3. SUFFICES ASSUME Bad # {} PROVE FALSE
  BY <1>2
<1>4. PICK c \in Bad : \A k \in Bad : c <= k
  <2>1. Bad \subseteq Nat
    <3>1. cuts \subseteq Nat
      BY <1>2
    <3> QED BY <3>1
  <2> HIDE DEF Bad
  <2> QED BY <1>3, <2>1, Least
<1>5. c # p
  <2>1. {x \in cuts : x < p} = {}
    <3>1. \A x \in cuts : ~ (x < p)
      BY <1>2
    <3> QED BY <3>1
  <2>2. Seen(p) = {}
    BY <2>1 DEF SeenBefore
  <2>3. Good(p)
    BY <2>2 DEF Fresh, Object
  <2> HIDE DEF Good
  <2> QED BY <1>4, <2>3
<1>6. PICK a \in cuts : Adjacent(cuts, a, c) /\ a \in p .. q /\ a < c /\ c <= q
  BY <1>4, <1>5, CutBefore
<1>7. Good(a)
  <2>1. ~ (c <= a)
    BY <1>2, <1>4, <1>6
  <2> HIDE DEF Good
  <2> QED BY <1>4, <2>1
<1>8. PICK t : t = text[a + 1] /\ t \in Name
  BY <1>1, <1>4, <1>6
<1>9. a + 1 \in 1 .. Len(text) /\ a + 1 \in p .. q /\ c \in p .. q /\ a + 1 - 1 = a /\ t \in Token
  <2>1. Len(text) \in Nat /\ c \in Nat /\ a \in Nat /\ a \in p .. q
    BY <1>2, <1>4, <1>6, LenProperties
  <2> QED BY <1>2, <1>4, <1>6, <1>8, <2>1 DEF Token
<1>10. t \notin Seen(a)
  <2>1. ASSUME NEW b \in cuts, b < a, t = text[b + 1] PROVE FALSE
    <3>1. a \in cuts \ {q} /\ b \in cuts \ {q}
      BY <1>2, <1>4, <1>6, <2>1
    <3>2. a = b
      BY <1>1, <1>8, <2>1, <3>1
    <3> QED BY <1>2, <2>1, <3>2
  <2> QED BY <2>1 DEF SeenBefore
<1>11. Seen(c) = Seen(a) \cup {t}
  <2>1. \A x \in cuts : x < c <=> x < a \/ x = a
    BY <1>2, <1>4, <1>6 DEF Adjacent
  <2> QED BY <1>6, <1>8, <2>1 DEF SeenBefore
<1> HIDE DEF Seen
<1>12. W[a + 1] = Walk(W[a], t)
  BY <1>8, <1>9 DEF IsWalk
<1>13. /\ W[a + 1].at = "walking" /\ ~NameDue(W[a + 1])
       /\ Complete(W[a + 1].stack) = Inside(s, Object(Seen(a) \cup {t}))
  <2>1. Seen(a) \in SUBSET Name /\ W[a] = Inside(s, Object(Seen(a)))
    BY <1>7
  <2>2. PICK h : h = Seen(a)
    OBVIOUS
  <2>3. PICK u, v : u = W[a] /\ v = W[a + 1]
    OBVIOUS
  <2>4. h \in SUBSET Name /\ t \in Name /\ t \notin h /\ u = Inside(s, Object(h)) /\ v = Walk(u, t)
    BY <1>8, <1>10, <1>12, <2>1, <2>2, <2>3
  <2>5. /\ v.at = "walking" /\ ~NameDue(v)
        /\ Complete(v.stack) = Inside(s, Object(h \cup {t}))
    BY <2>4, NameRead
  <2> QED BY <2>2, <2>3, <2>5
<1>14. W[c] = Inside(s, Object(Seen(c)))
  BY <1>1, <1>4, <1>6, <1>9, <1>11, <1>13 DEF Reads
<1>15. Good(c)
  BY <1>7, <1>8, <1>11, <1>14
<1> HIDE DEF Good
<1> QED BY <1>4, <1>15

\* The walk gets over a value if it gets over the values in it.
LEMMA ReadStep ==
  ASSUME NEW text \in Seq(Token), NEW W, IsWalk(W, text),
         NEW i \in 0 .. Len(text), NEW j \in 0 .. Len(text), <<i, j>> \in Parts(text, TRUE),
         W[i].at = "walking", ~NameDue(W[i]),
         Reads(W, Parts(text, TRUE), i + 1, j - 1)
  PROVE  W[j] = Complete(W[i].stack)
<1> DEFINE P == Parts(text, TRUE)
<1>1. Len(text) \in Nat /\ i \in Nat /\ j \in Nat /\ j <= Len(text) /\ i < j
  <2>1. Len(text) \in Nat
    BY LenProperties
  <2>2. i < j
    BY Grammar
  <2> QED BY <2>1, <2>2
<1>2. Value(text, TRUE, i, j, P)
  BY Grammar
<1> HIDE DEF P
<1>3. /\ i + 1 \in 1 .. Len(text) /\ i + 1 - 1 = i /\ text[i + 1] \in Token
      /\ j \in 1 .. Len(text) /\ text[j] \in Token
  BY <1>1, ElementOfSeq
<1>4. W[i + 1] = Walk(W[i], text[i + 1]) /\ W[j] = Walk(W[j - 1], text[j])
  BY <1>3 DEF IsWalk
<1>5. PICK s \in Seq(Call) : s = W[i].stack
  BY DepthFacts DEF IsWalk
<1>6. CASE j = i + 1 /\ text[j] \in Name
  BY <1>3, <1>4, <1>6, WalkForward
<1>7. ASSUME NEW open \in {"object", "array"}, i + 1 < j, text[i + 1] = open
      PROVE  /\ W[i + 1] = Inside(s, Fresh(open))
             /\ i + 1 \in Nat /\ j - 1 \in Nat /\ i + 1 <= j - 1 /\ j - 1 <= Len(text)
  <2>1. W[i + 1] = Walking(Append(s, Fresh(open)))
    BY <1>3, <1>4, <1>5, <1>7, WalkForward
  <2>2. i + 1 \in Nat /\ j - 1 \in Nat /\ i + 1 <= j - 1 /\ j - 1 <= Len(text)
    BY <1>1, <1>7
  <2> QED BY <2>1, <2>2 DEF Inside
<1>8. CASE Between(text, i, j, "array", "end_array") /\ Items(i + 1, j - 1, P)
  <2>1. i + 1 < j /\ text[i + 1] = "array" /\ text[j] = "end_array"
    BY <1>8 DEF Between
  <2>2. W[j - 1] = Inside(s, Fresh("array"))
    BY <1>7, <1>8, <2>1, ReadItems DEF P
  <2>3. PICK f \in Call : f = Fresh("array") /\ f.open = "array" /\ ~f.named
    BY FreshFacts
  <2>4. W[j - 1].at = "walking" /\ ~NameDue(W[j - 1]) /\ In(W[j - 1], "array")
        /\ Complete(Front(W[j - 1].stack)) = Complete(s)
    BY <2>2, <2>3, InFacts
  <2> QED BY <1>3, <1>4, <1>5, <2>1, <2>4, WalkForward
<1>9. CASE Between(text, i, j, "object", "end_object") /\ Members(text, TRUE, i + 1, j - 1, P)
  <2>1. i + 1 < j /\ text[i + 1] = "object" /\ text[j] = "end_object"
    BY <1>9 DEF Between
  <2>2. PICK seen \in SUBSET Name : W[j - 1] = Inside(s, Object(seen))
    <3>1. Reads(W, P, i + 1, j - 1) /\ Members(text, TRUE, i + 1, j - 1, P)
      BY <1>9 DEF P
    <3>2. /\ W[i + 1] = Inside(s, Fresh("object"))
          /\ i + 1 \in Nat /\ j - 1 \in Nat /\ i + 1 <= j - 1 /\ j - 1 <= Len(text)
      BY <1>7, <2>1
    <3> QED BY <3>1, <3>2, ReadMembers
  <2>3. PICK f \in Call : f = Object(seen) /\ f.open = "object" /\ ~f.named
    BY ObjectFacts
  <2>4. W[j - 1].at = "walking" /\ NameDue(W[j - 1]) /\ Complete(Front(W[j - 1].stack)) = Complete(s)
    BY <2>2, <2>3, InFacts
  <2> QED BY <1>3, <1>4, <1>5, <2>1, <2>4, WalkForward
<1> QED BY <1>6, <1>8, <1>9, <1>2 DEF Value

\* The walk gets over every value.
LEMMA ValueIsRead ==
  ASSUME NEW text \in Seq(Token), NEW W, IsWalk(W, text),
         NEW i \in 0 .. Len(text), NEW j \in 0 .. Len(text), <<i, j>> \in Parts(text, TRUE),
         W[i].at = "walking", ~NameDue(W[i])
  PROVE  W[j] = Complete(W[i].stack)
<1> DEFINE N == Len(text)
           Read(a, b) == <<a, b>> \in Parts(text, TRUE) /\ W[a].at = "walking" /\ ~NameDue(W[a])
                           => W[b] = Complete(W[a].stack)
           Bad == {n \in Nat : \E a, b \in 0 .. N : n = b - a /\ a < b /\ ~Read(a, b)}
<1>1. N \in Nat
  BY LenProperties
<1>2. \A a, b \in 0 .. N : <<a, b>> \in Parts(text, TRUE) => a < b
  BY Grammar
<1>3. SUFFICES ASSUME Bad # {} PROVE FALSE
  <2>1. i < j
    BY <1>2
  <2>2. j - i \in Nat
    BY <1>1, <2>1
  <2> QED BY <2>1, <2>2
<1>4. PICK n \in Bad : \A m \in Bad : n <= m
  BY <1>3, Least, Bad \subseteq Nat
<1>5. PICK a \in 0 .. N, b \in 0 .. N : n = b - a /\ a < b /\ ~Read(a, b)
  BY <1>4
<1>6. Reads(W, Parts(text, TRUE), a + 1, b - 1)
  <2>1. ASSUME NEW c \in a + 1 .. b - 1, NEW d \in a + 1 .. b - 1, <<c, d>> \in Parts(text, TRUE)
        PROVE  Read(c, d)
    <3>1. c \in 0 .. N /\ d \in 0 .. N
      BY <1>1
    <3>2. c < d
      BY <1>2, <2>1, <3>1
    <3>3. d - c \in Nat /\ ~ (n <= d - c)
      BY <1>1, <1>5, <3>1, <3>2
    <3>4. d - c \notin Bad
      <4> HIDE DEF Bad
      <4> QED BY <1>4, <3>3
    <3> HIDE DEF Read
    <3> QED BY <3>1, <3>2, <3>3, <3>4
  <2> QED BY <2>1 DEF Reads
<1> HIDE DEF Bad
<1> QED BY <1>5, <1>6, ReadStep

\* Whatever the text, the walk accepts it exactly if it is one JSON value in which
\* no object repeats a member (client/json.go:129-179, agent/client.go:548-598).
THEOREM WalkExact ==
  ASSUME NEW text \in Seq(Token)
  PROVE  NoDuplicates(text) <=> IsClean(text)
<1> DEFINE N == Len(text)
<1>1. PICK W : W = Walks(text)
  OBVIOUS
<1>2. N \in Nat /\ 0 \in 0 .. N /\ N \in 0 .. N
  BY LenProperties
<1>3. IsWalk(W, text)
  BY <1>1, WalksFacts DEF IsWalk
<1>4. /\ W[0].at = "walking" /\ W[0].stack = <<>> /\ ~NameDue(W[0]) /\ Depth(W[0]) = 0
      /\ Complete(W[0].stack) = Over
  BY <1>3, EmptySeq DEF IsWalk, Walking, NameDue, In, Depth, Complete
<1>5. /\ NoDuplicates(text) <=> W[N] = Over
      /\ IsClean(text) <=> <<0, N>> \in Parts(text, TRUE)
  BY <1>1 DEF NoDuplicates, IsClean, IsValue, Parts
<1>6. ASSUME W[N] = Over PROVE <<0, N>> \in Parts(text, TRUE)
  <2>1. Over.at = "over" /\ Over # Refused /\ Over.stack = <<>> /\ Depth(Over) = 0
    BY EmptySeq DEF Over, Refused, Depth
  <2>2. 0 < N
    BY <1>2, <1>4, <1>6, <2>1
  <2>3. ASSUME NEW k \in 0 + 1 .. N - 1 PROVE Depth(W[k]) > 0
    <3>1. k \in 1 .. N /\ k \in 0 .. N /\ k < N
      BY <1>2
    <3>2. W[k].at = "walking" /\ W[k] # Refused
      BY <1>2, <1>3, <1>6, <2>1, <3>1, WalkingBefore
    <3> QED BY <1>3, <3>1, <3>2, StepOf
  <2>4. Span(W, 0, N)
    BY <1>4, <1>6, <2>1, <2>2, <2>3 DEF Span
  <2> QED BY <1>2, <1>3, <2>4, SpanIsValue
<1>7. ASSUME <<0, N>> \in Parts(text, TRUE) PROVE W[N] = Over
  BY <1>2, <1>3, <1>4, <1>7, ValueIsRead
<1> QED BY <1>5, <1>6, <1>7
------------------------------------------------------------------------------
\* Where the body is at each control point, and that a client whose Close
\* failed has returned the failure.
Owned ==
  /\ pc \in {"new", "idle", "waiting"} => body = "none"
  /\ pc \in {"answered", "reading"} => body = "open"
  /\ pc = "read" => body = IF sdk = "client" THEN "closed" ELSE "open"
  /\ pc = "returned" => body \in {"none", "closed"}
  /\ pc # "returned" => outcome = Nothing
  /\ sdk = "client" /\ closeFailed =>
       pc = "returned" /\ outcome.kind = "error" /\ "close" \in outcome.wraps

\* What was read when, and under which headers.
ReadSoFar ==
  /\ pc \in {"new", "idle", "waiting", "answered"} => taken = 0
  /\ pc \in {"reading", "read"} => GoodHeaders
  /\ pc = "reading" => taken <= response.size /\ taken <= limit + 1
  /\ pc = "read" => taken = response.size /\ taken <= limit

IInv ==
  /\ TypeOK /\ Owned /\ ReadSoFar
  /\ AnswerIsOfThisCall /\ TypedErrorIsAPlatformError

\* Outcomes that are not an answer satisfy what is said of answers.
Silent == outcome.kind \in {"none", "error"}

LEMMA SilentIsSafe ==
  ASSUME Silent' PROVE AnswerIsOfThisCall' /\ TypedErrorIsAPlatformError'
BY DEF Silent, AnswerIsOfThisCall, TypedErrorIsAPlatformError

LEMMA InitIInv == Init => IInv
<1> SUFFICES ASSUME Init PROVE IInv
  OBVIOUS
<1>1. outcome \in Outcome /\ outcome.kind = "none"
  BY DEF Init, Outcome, Nothing
<1>2. TypeOK
  BY <1>1 DEF Init, TypeOK
<1>3. Owned /\ ReadSoFar
  BY DEF Init, Owned, ReadSoFar
<1>4. AnswerIsOfThisCall /\ TypedErrorIsAPlatformError
  BY <1>1 DEF AnswerIsOfThisCall, TypedErrorIsAPlatformError
<1> QED BY <1>2, <1>3, <1>4 DEF IInv

\* An error is an outcome, and a silent one.
LEMMA ErrorTyped ==
  ASSUME NEW wraps \in SUBSET {"config", "request", "context", "transport", "limit",
                               "close", "invalid"}
  PROVE  /\ Error(wraps) \in Outcome
         /\ Error(wraps).kind = "error" /\ Error(wraps).wraps = wraps
BY DEF Error, Outcome

\* Refusing an answered call closes its body, once, and reports a client's
\* failure to.
LEMMA RefuseStep ==
  ASSUME IInv, NEW wraps \in {{"invalid"}, {"limit"}, {"context"}, {"transport"}},
         body = "open", Refuse(wraps), UNCHANGED <<parties, ctxDone, taken>>
  PROVE  IInv'
<1> DEFINE joined == wraps \cup IF closeFailed' /\ sdk = "client" THEN {"close"} ELSE {}
<1>1. /\ pc' = "returned" /\ body' = "closed" /\ closeFailed' \in BOOLEAN
      /\ outcome' = Error(joined)
  BY DEF Refuse, CloseBody
<1>2. joined \in SUBSET {"config", "request", "context", "transport", "limit", "close",
                         "invalid"}
  OBVIOUS
<1>3. /\ outcome' \in Outcome /\ outcome'.kind = "error"
      /\ closeFailed' /\ sdk = "client" => "close" \in outcome'.wraps
  <2> HIDE DEF joined
  <2>1. outcome' \in Outcome /\ outcome'.kind = "error" /\ outcome'.wraps = joined
    BY <1>1, <1>2, ErrorTyped
  <2> QED BY <2>1 DEF joined
<1>4. TypeOK'
  BY <1>1, <1>3 DEF IInv, TypeOK, parties
<1>5. Owned' /\ ReadSoFar'
  BY <1>1, <1>3 DEF Owned, ReadSoFar, parties
<1>6. Silent'
  BY <1>3 DEF Silent
<1> QED BY <1>4, <1>5, <1>6, SilentIsSafe DEF IInv

\* A step that ends the call with an error before there is a body.
LEMMA EarlyError ==
  ASSUME IInv, NEW wraps \in {{"config"}, {"request"}, {"context"}, {"transport"}},
         body = "none", pc # "returned", pc' = "returned", outcome' = Error(wraps),
         UNCHANGED <<parties, ctxDone, taken, bodyVars>>
  PROVE  IInv'
<1>1. outcome' \in Outcome /\ outcome'.kind = "error"
  BY ErrorTyped
<1>2. TypeOK'
  BY <1>1 DEF IInv, TypeOK, parties, bodyVars
<1>3. Owned' /\ ReadSoFar'
  BY <1>1 DEF IInv, Owned, ReadSoFar, parties, bodyVars
<1>4. Silent'
  BY <1>1 DEF Silent
<1> QED BY <1>2, <1>3, <1>4, SilentIsSafe DEF IInv

\* A call that has not returned and goes on has no outcome yet.
LEMMA GoesOn ==
  ASSUME IInv, pc # "returned", UNCHANGED outcome
  PROVE  AnswerIsOfThisCall' /\ TypedErrorIsAPlatformError'
<1>1. Silent'
  BY DEF IInv, Owned, Silent, Nothing
<1> QED BY <1>1, SilentIsSafe
------------------------------------------------------------------------------
LEMMA CancelStep ==
  ASSUME IInv, Cancel PROVE IInv'
<1>1. AnswerIsOfThisCall' /\ TypedErrorIsAPlatformError'
  BY GoesOn DEF Cancel
<1>2. TypeOK' /\ Owned' /\ ReadSoFar'
  BY DEF IInv, Cancel, TypeOK, Owned, ReadSoFar, parties, bodyVars, GoodHeaders,
         ClientHeaders, AgentHeaders
<1> QED BY <1>1, <1>2 DEF IInv

LEMMA NewClientStep ==
  ASSUME IInv, NewClient PROVE IInv'
<1>1. pc = "new" /\ body = "none" /\ UNCHANGED <<parties, ctxDone, taken, bodyVars>>
  BY DEF IInv, NewClient, Owned
<1>2. CASE pc' = "idle" /\ UNCHANGED outcome
  <2>1. AnswerIsOfThisCall' /\ TypedErrorIsAPlatformError'
    BY <1>1, <1>2, GoesOn
  <2>2. TypeOK' /\ Owned' /\ ReadSoFar'
    BY <1>1, <1>2 DEF IInv, TypeOK, Owned, ReadSoFar, parties, bodyVars
  <2> QED BY <2>1, <2>2 DEF IInv
<1>3. CASE pc' = "returned" /\ outcome' = Error({"config"})
  BY <1>1, <1>3, EarlyError
<1> QED BY <1>2, <1>3 DEF NewClient

LEMMA SendStep ==
  ASSUME IInv, Send PROVE IInv'
<1>1. pc = "idle" /\ body = "none" /\ UNCHANGED <<parties, ctxDone, taken, bodyVars>>
  BY DEF IInv, Send, Owned
<1>2. CASE pc' = "waiting" /\ UNCHANGED outcome
  <2>1. AnswerIsOfThisCall' /\ TypedErrorIsAPlatformError'
    BY <1>1, <1>2, GoesOn
  <2>2. TypeOK' /\ Owned' /\ ReadSoFar'
    BY <1>1, <1>2 DEF IInv, TypeOK, Owned, ReadSoFar, parties, bodyVars
  <2> QED BY <2>1, <2>2 DEF IInv
<1>3. CASE pc' = "returned" /\ outcome' = Error({"context"})
  BY <1>1, <1>3, EarlyError
<1>4. CASE pc' = "returned" /\ outcome' = Error({"request"})
  BY <1>1, <1>4, EarlyError
<1> QED BY <1>2, <1>3, <1>4 DEF Send

LEMMA DoFailsStep ==
  ASSUME IInv, DoFails PROVE IInv'
<1>1. Failure \in {{"config"}, {"request"}, {"context"}, {"transport"}}
  BY DEF Failure
<1>2. /\ pc = "waiting" /\ body = "none" /\ pc' = "returned" /\ outcome' = Error(Failure)
      /\ UNCHANGED <<parties, ctxDone, taken, bodyVars>>
  BY DEF IInv, DoFails, Owned
<1> QED BY <1>1, <1>2, EarlyError

LEMMA AnswerStep ==
  ASSUME IInv, Answer PROVE IInv'
<1>1. AnswerIsOfThisCall' /\ TypedErrorIsAPlatformError'
  BY GoesOn DEF Answer
<1>2. TypeOK' /\ Owned' /\ ReadSoFar'
  BY DEF IInv, Answer, TypeOK, Owned, ReadSoFar, parties
<1> QED BY <1>1, <1>2 DEF IInv

LEMMA CheckHeadersStep ==
  ASSUME IInv, CheckHeaders PROVE IInv'
<1>1. pc = "answered" /\ body = "open" /\ taken = 0 /\ UNCHANGED <<parties, ctxDone, taken>>
  BY DEF IInv, CheckHeaders, Owned, ReadSoFar
<1>2. CASE GoodHeaders /\ pc' = "reading" /\ UNCHANGED <<bodyVars, outcome>>
  <2>1. AnswerIsOfThisCall' /\ TypedErrorIsAPlatformError'
    BY <1>1, <1>2, GoesOn
  <2>2. TypeOK' /\ Owned'
    BY <1>1, <1>2 DEF IInv, TypeOK, Owned, parties, bodyVars
  <2>3. GoodHeaders' /\ response.size \in Nat /\ limit \in Nat
    BY <1>1, <1>2, ResponseAssumption, LimitAssumption
    DEF IInv, TypeOK, ResponseType, GoodHeaders, ClientHeaders, AgentHeaders, parties
  <2>4. ReadSoFar'
    BY <1>1, <1>2, <2>3 DEF ReadSoFar, parties
  <2> QED BY <2>1, <2>2, <2>4 DEF IInv
<1>3. CASE Refuse({"invalid"})
  BY <1>1, <1>3, RefuseStep
<1> QED BY <1>2, <1>3 DEF CheckHeaders

LEMMA ReadByteStep ==
  ASSUME IInv, ReadByte PROVE IInv'
<1>1. /\ pc = "reading" /\ taken < response.size /\ taken < limit + 1 /\ taken' = taken + 1
      /\ UNCHANGED <<parties, pc, ctxDone, bodyVars, outcome>>
  BY DEF ReadByte, Window
<1>2. AnswerIsOfThisCall' /\ TypedErrorIsAPlatformError'
  BY <1>1, GoesOn
<1>3. response.size \in Nat /\ limit \in Nat /\ taken \in Nat
  BY ResponseAssumption, LimitAssumption DEF IInv, TypeOK, ResponseType
<1>4. TypeOK' /\ Owned'
  BY <1>1, <1>3 DEF IInv, TypeOK, Owned, parties, bodyVars
<1>5. GoodHeaders'
  BY <1>1 DEF IInv, ReadSoFar, GoodHeaders, ClientHeaders, AgentHeaders, parties
<1>6. ReadSoFar'
  BY <1>1, <1>3, <1>5 DEF ReadSoFar, parties
<1> QED BY <1>2, <1>4, <1>6 DEF IInv

LEMMA ReadBreaksStep ==
  ASSUME IInv, ReadBreaks PROVE IInv'
<1>1. Failure \in {{"invalid"}, {"limit"}, {"context"}, {"transport"}}
  BY DEF Failure
<1>2. body = "open" /\ Refuse(Failure) /\ UNCHANGED <<parties, ctxDone, taken>>
  BY DEF IInv, ReadBreaks, Owned
<1> QED BY <1>1, <1>2, RefuseStep

LEMMA EndReadStep ==
  ASSUME IInv, EndRead PROVE IInv'
<1>1. /\ pc = "reading" /\ body = "open" /\ UNCHANGED <<parties, ctxDone, taken>>
      /\ outcome = Nothing /\ (sdk = "client" => ~closeFailed)
      /\ response.size \in Nat /\ limit \in Nat /\ taken \in Nat
      /\ taken = response.size \/ taken = limit + 1
  BY ResponseAssumption, LimitAssumption
  DEF IInv, EndRead, Window, Owned, TypeOK, ResponseType
<1>2. CASE taken > limit /\ Refuse({"limit"})
  BY <1>1, <1>2, RefuseStep
<1>3. CASE /\ taken <= limit /\ sdk = "client" /\ CloseBody /\ closeFailed'
           /\ pc' = "returned" /\ outcome' = Error({"close"})
  <2>1. outcome' \in Outcome /\ outcome'.kind = "error" /\ "close" \in outcome'.wraps
    BY <1>3, ErrorTyped
  <2>2. TypeOK' /\ Owned' /\ ReadSoFar'
    BY <1>1, <1>3, <2>1 DEF IInv, TypeOK, Owned, ReadSoFar, CloseBody, parties
  <2>3. Silent'
    BY <2>1 DEF Silent
  <2> QED BY <2>2, <2>3, SilentIsSafe DEF IInv
<1>4. CASE /\ taken <= limit /\ pc' = "read" /\ UNCHANGED outcome
           /\ \/ sdk = "client" /\ CloseBody /\ ~closeFailed'
              \/ sdk = "agent" /\ UNCHANGED bodyVars
  <2>1. AnswerIsOfThisCall' /\ TypedErrorIsAPlatformError'
    BY <1>1, <1>4, GoesOn
  <2>2. TypeOK' /\ Owned'
    BY <1>1, <1>4 DEF IInv, TypeOK, Owned, CloseBody, parties, bodyVars, SDK
  <2>3. GoodHeaders' /\ taken = response.size
    BY <1>1, <1>4 DEF IInv, ReadSoFar, GoodHeaders, ClientHeaders, AgentHeaders, parties
  <2>4. ReadSoFar'
    BY <1>1, <1>4, <2>3 DEF ReadSoFar, parties
  <2> QED BY <2>1, <2>2, <2>4 DEF IInv
<1> QED BY <1>2, <1>3, <1>4 DEF EndRead
------------------------------------------------------------------------------
\* Every row of the router's table is within one of the platform's.
LEMMA RouterRows ==
  ASSUME NEW status, NEW code, NEW correlated, Admits(RouterTable, status, code, correlated)
  PROVE  Admits(PlatformTable, status, code, correlated)
<1>1. PICK row \in RouterTable :
        row.status = status /\ code \in row.codes /\ correlated \in row.correlated
  BY DEF Admits
<1> DEFINE Narrows(wide) ==
             /\ wide \in PlatformTable /\ wide.status = row.status
             /\ row.codes \subseteq wide.codes /\ row.correlated \subseteq wide.correlated
<1>2. ASSUME NEW wide, Narrows(wide) PROVE Admits(PlatformTable, status, code, correlated)
  BY <1>1, <1>2 DEF Admits
<1>3. CASE row \in {Row(400, {"VALIDATION_ERROR"}, Before), Row(401, {"UNAUTHENTICATED"}, Before),
                   Row(406, {"NOT_ACCEPTABLE"}, Before), Row(413, {"PAYLOAD_TOO_LARGE"}, Before),
                   Row(503, {"ROUTE_NOT_FOUND", "AGENT_UNAVAILABLE", "DEPENDENCY"}, Either),
                   Row(504, {"TIMEOUT"}, Either)}
  <2>1. row \in PlatformTable
    BY <1>3 DEF PlatformTable
  <2> QED BY <1>1, <2>1 DEF Admits
<1>4. CASE row = Row(403, {"FORBIDDEN"}, Before)
  <2>1. Narrows(Row(403, {"FORBIDDEN", "CAPABILITY_NOT_ALLOWED"}, Before))
    BY <1>4 DEF PlatformTable, Row
  <2> QED BY <1>2, <2>1
<1>5. CASE row = Row(404, {"NOT_FOUND"}, Before)
  <2>1. Narrows(Row(404, {"NOT_FOUND", "AGENT_NOT_INSTALLED"}, Before))
    BY <1>5 DEF PlatformTable, Row
  <2> QED BY <1>2, <2>1
<1>6. CASE row \in {Row(409, {"CONFLICT"}, Before), Row(409, {"CANCELED"}, After)}
  <2> DEFINE wide == Row(409, {"CONFLICT", "INSTALLATION_DISABLED", "AGENT_DISABLED",
                               "AGENT_RELEASE_UNPUBLISHED", "AGENT_RELEASE_SUSPENDED",
                               "AGENT_RELEASE_REVOKED", "CANCELED"}, Either)
  <2>1. wide \in PlatformTable
    BY DEF PlatformTable
  <2>2. wide.status = 409 /\ "CONFLICT" \in wide.codes /\ "CANCELED" \in wide.codes
        /\ wide.correlated = BOOLEAN
    BY DEF Row, Either
  <2>3. CASE row = Row(409, {"CONFLICT"}, Before)
    <3>1. row.status = 409 /\ row.codes = {"CONFLICT"} /\ row.correlated = {FALSE}
      BY <2>3 DEF Row, Before
    <3> HIDE DEF wide
    <3>2. code = "CONFLICT" /\ status = 409 /\ correlated \in BOOLEAN
      BY <1>1, <3>1
    <3>3. status = wide.status /\ code \in wide.codes /\ correlated \in wide.correlated
      BY <2>2, <3>2
    <3> QED BY <2>1, <3>3, Zenon DEF Admits
  <2>4. CASE row = Row(409, {"CANCELED"}, After)
    <3>1. row.status = 409 /\ row.codes = {"CANCELED"} /\ row.correlated = {TRUE}
      BY <2>4 DEF Row, After
    <3> HIDE DEF wide
    <3>2. code = "CANCELED" /\ status = 409 /\ correlated \in BOOLEAN
      BY <1>1, <3>1
    <3>3. status = wide.status /\ code \in wide.codes /\ correlated \in wide.correlated
      BY <2>2, <3>2
    <3> QED BY <2>1, <3>3, Zenon DEF Admits
  <2> QED BY <1>6, <2>3, <2>4
<1>7. CASE row = Row(502, {"AGENT_AUTH_UNSUPPORTED", "AGENT_RESPONSE_TOO_LARGE",
                         "A2A_PROTOCOL", "AGENT_EXECUTION_FAILED"}, After)
  <2>1. Narrows(Row(502, {"AGENT_AUTH_UNSUPPORTED", "AGENT_RESPONSE_TOO_LARGE",
                          "AGENT_EXECUTION_FAILED", "A2A_PROTOCOL"}, After))
    BY <1>7 DEF PlatformTable, Row
  <2> QED BY <1>2, <2>1
<1>8. row \in RouterTable
  BY <1>1
<1> QED BY <1>3, <1>4, <1>5, <1>6, <1>7, <1>8 DEF RouterTable

\* What decoding finds in a body that was read to its end.
LEMMA DecodedAnswer ==
  ASSUME IInv, pc = "read"
  PROVE  /\ Decoded = "result" /\ sdk = "client" => response.traces = <<doc.trace>>
         /\ Decoded = "result" /\ sdk = "agent" =>
              platform = [root |-> doc.root, trace |-> doc.trace]
         /\ Decoded \in {"result", "typed"} =>
              taken = response.size /\ taken <= limit /\ taken = response.value
         /\ Decoded = "typed" =>
              /\ response.traces[1] = doc.trace
              /\ sdk = "client" => response.traces = <<doc.trace>>
              /\ doc.hasInvocation = doc.hasRootTask
              /\ Admits(PlatformTable, response.status, doc.code, doc.hasInvocation)
<1>1. /\ GoodHeaders /\ taken = response.size /\ taken <= limit
      /\ response.traces \in Seq(Trace \cup {"malformed"}) /\ sdk \in {"client", "agent"}
      /\ platform \in [root : Root, trace : Trace]
  BY ResponseAssumption, PlatformAssumption DEF IInv, ReadSoFar, TypeOK, ResponseType, SDK
<1>2. sdk = "client" => response.traces = <<response.traces[1]>>
  <2>1. sdk = "client" => Len(response.traces) = 1
    BY <1>1 DEF GoodHeaders, ClientHeaders
  <2> QED BY <1>1, <2>1
<1>3. CASE Decoded = "result" /\ sdk = "client"
  BY <1>1, <1>2, <1>3 DEF Decoded, GoodClientResult, OneObject
<1>4. CASE Decoded = "result" /\ sdk = "agent"
  <2>1. taken = response.value /\ doc.root = platform.root /\ doc.trace = platform.trace
    BY <1>4 DEF Decoded, GoodAgentResult, OneObject
  <2> QED BY <1>1, <1>4, <2>1
<1>5. CASE Decoded = "typed"
  <2>1. GoodError(IF sdk = "client" THEN PlatformTable ELSE RouterTable)
    BY <1>5 DEF Decoded
  <2>2. /\ taken = response.value /\ doc.hasInvocation = doc.hasRootTask
        /\ response.traces[1] = doc.trace
    BY <2>1 DEF GoodError, OneObject
  <2>3. Admits(PlatformTable, response.status, doc.code, doc.hasInvocation)
    BY <1>1, <2>1, RouterRows DEF GoodError
  <2> QED BY <1>1, <1>2, <1>5, <2>2, <2>3
<1> QED BY <1>1, <1>3, <1>4, <1>5

LEMMA DecodeStep ==
  ASSUME IInv, Decode PROVE IInv'
<1>1. /\ pc = "read" /\ pc' = "returned" /\ UNCHANGED <<parties, ctxDone, taken>>
      /\ outcome' = [kind |-> Decoded,
                     wraps |-> IF Decoded = "error" THEN {"invalid"} ELSE {}]
      /\ IF sdk = "agent" THEN CloseBody ELSE UNCHANGED bodyVars
  BY DEF Decode
<1>2. Decoded \in {"result", "typed", "error"}
  BY DEF Decoded
<1>3. outcome' \in Outcome /\ outcome'.kind = Decoded
  BY <1>1, <1>2 DEF Outcome
<1>4. TypeOK'
  BY <1>1, <1>3 DEF IInv, TypeOK, CloseBody, parties, bodyVars
<1>5. sdk \in {"client", "agent"} /\ (sdk = "client" => ~closeFailed)
  BY <1>1 DEF IInv, TypeOK, Owned, SDK
<1>6. Owned' /\ ReadSoFar'
  BY <1>1, <1>5 DEF IInv, Owned, ReadSoFar, CloseBody, parties, bodyVars
<1>7. AnswerIsOfThisCall' /\ TypedErrorIsAPlatformError'
  BY <1>1, <1>3, <1>5, DecodedAnswer
  DEF AnswerIsOfThisCall, TypedErrorIsAPlatformError, doc, parties
<1> QED BY <1>4, <1>6, <1>7 DEF IInv

THEOREM InductiveInvariant == Spec => []IInv
<1>1. ASSUME IInv, [Next]_vars PROVE IInv'
  <2>1. CASE UNCHANGED vars
    BY <1>1, <2>1
    DEF vars, parties, bodyVars, IInv, TypeOK, Owned, ReadSoFar, AnswerIsOfThisCall,
        TypedErrorIsAPlatformError, GoodHeaders, ClientHeaders, AgentHeaders, doc
  <2> QED BY <1>1, <2>1, CancelStep, NewClientStep, SendStep, DoFailsStep, AnswerStep,
             CheckHeadersStep, ReadByteStep, ReadBreaksStep, EndReadStep, DecodeStep DEF Next
<1> QED BY <1>1, InitIInv, PTL DEF Spec
------------------------------------------------------------------------------
\* The state stays in its type (client.go:32-110, agent/client.go:165-262).
THEOREM TypeCorrect == Spec => []TypeOK
BY InductiveInvariant, PTL DEF IInv

\* No way out of Invoke leaves the response body open or closes it twice
\* (client.go:40-53, errors.go:33-47, json.go:74-85, agent/client.go:173).
THEOREM NoBodyLeak == Spec => []BodyClosedOnce
<1>1. IInv => BodyClosedOnce
  BY DEF IInv, TypeOK, Owned, BodyClosedOnce
<1> QED BY <1>1, InductiveInvariant, PTL

\* What Invoke returns is the whole answer to this call (client.go:44-77,
\* errors.go:65-76, json.go:63-81, agent/client.go:174-200, 370-432).
THEOREM AnswersThisCall == Spec => []AnswerIsOfThisCall
BY InductiveInvariant, PTL DEF IInv

\* A router's typed error is one that the Gateway could have returned
\* (errors.go:53-113, agent/client.go:394-464).
THEOREM ErrorsAreThePlatforms == Spec => []TypedErrorIsAPlatformError
BY InductiveInvariant, PTL DEF IInv

\* A failure to close the body is never lost (client/json.go:74-85).
THEOREM ReportsCloseFailure == Spec => []CloseFailureIsReported
<1>1. IInv => CloseFailureIsReported
  BY DEF IInv, Owned, CloseFailureIsReported
<1> QED BY <1>1, InductiveInvariant, PTL

\* The walk refuses the texts with duplicate members and those that are not one
\* JSON value, and no others, whatever the peer sends (client/json.go:129-179,
\* agent/client.go:548-598).
THEOREM ExactWalk == Spec => []WalkIsExact
<1>1. IInv => WalkIsExact
  <2> SUFFICES ASSUME IInv PROVE WalkIsExact
    OBVIOUS
  <2>1. response \in Response /\ response \in ResponseType
    BY ResponseAssumption DEF IInv, TypeOK
  <2>2. doc.text \in Text /\ doc.text \in Seq(Token)
    BY <2>1 DEF Text, ResponseType, Document, doc
  <2>3. NoDuplicates(doc.text) <=> IsClean(doc.text)
    BY <2>2, WalkExact
  <2> QED BY <2>2, <2>3 DEF WalkIsExact, Unrepeated, CleanTexts
<1> QED BY <1>1, InductiveInvariant, PTL
==============================================================================
