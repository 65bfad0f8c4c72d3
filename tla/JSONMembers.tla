----------------------------- MODULE JSONMembers -----------------------------
(***************************************************************************)
(* rejectDuplicateJSONMembers, which client/json.go and agent/client.go    *)
(* have in the same form: a recursive walk over the tokens of a JSON text  *)
(* that refuses an object with two members of one name, at any depth, and  *)
(* anything after the value.  The recursion is a stack here.  A string is  *)
(* one token, whether it names a member or is a value; the delimiters      *)
(* { } [ ] are the tokens "object", "end_object", "array", "end_array";    *)
(* commas, colons and other scalars, which json.Decoder checks, are left   *)
(* out.                                                                    *)
(***************************************************************************)
EXTENDS Naturals, SequencesExt

CONSTANT Name  \* strings

Delimiter == {"object", "end_object", "array", "end_array"}
Token     == Delimiter \cup Name

\* json.Delim and string are two types.
ASSUME NameAssumption == Name \cap Delimiter = {}

\* One call of walk that has opened an object or an array.
Frame == [open : {"object", "array"}, seen : SUBSET Name, named : BOOLEAN]
FrameOf(open, seen, named) == [open |-> open, seen |-> seen, named |-> named]

\* How far the walk is: its calls, and whether the value is over or refused.
Walking(stack)  == [stack |-> stack, at |-> "walking"]
Over            == [stack |-> <<>>, at |-> "over"]
Refused         == [stack |-> <<>>, at |-> "refused"]

Inner(w)     == Last(w.stack)
In(w, open)  == w.stack # <<>> /\ Inner(w).open = open
NameDue(w)   == In(w, "object") /\ ~Inner(w).named
WithInner(stack, frame) == [stack EXCEPT ![Len(stack)] = frame]

\* A value is complete: the top-level one, an item, or that of a member.
Complete(stack) ==
  IF stack = <<>> THEN Over
  ELSE Walking(WithInner(stack, FrameOf(Last(stack).open, Last(stack).seen, FALSE)))

\* Mutant: only the outermost object is checked.
RepeatedOutside(w, t) == Len(w.stack) = 1 /\ t \in Inner(w).seen

\* A member name the object has had before.
Repeated(w, t) == t \in Inner(w).seen

\* What the walk does with the next token.  After the value, requireEOF
\* refuses any.
Walk(w, t) ==
  CASE w.at # "walking" -> Refused
    [] w.at = "walking" /\ NameDue(w) /\ t \in Name ->
         IF Repeated(w, t) THEN Refused
         ELSE Walking(WithInner(w.stack, FrameOf("object", Inner(w).seen \cup {t}, TRUE)))
    [] w.at = "walking" /\ NameDue(w) /\ t = "end_object" -> Complete(Front(w.stack))
    [] w.at = "walking" /\ ~NameDue(w) /\ t \in Name -> Complete(w.stack)
    [] w.at = "walking" /\ ~NameDue(w) /\ t \in {"object", "array"} ->
         Walking(Append(w.stack, FrameOf(t, {}, FALSE)))
    [] w.at = "walking" /\ In(w, "array") /\ t = "end_array" -> Complete(Front(w.stack))
    [] OTHER -> Refused

\* The walk behind each number of tokens.
Walks(text) ==
  LET walk[n \in 0 .. Len(text)] ==
        IF n = 0 THEN Walking(<<>>) ELSE Walk(walk[n - 1], text[n])
  IN  walk

\* rejectDuplicateJSONMembers(text) = nil
NoDuplicates(text) == Walks(text)[Len(text)] = Over
------------------------------------------------------------------------------
(* The grammar of JSON, on the part of a text between two positions: part   *)
(* <<i, j>> has the tokens i + 1 to j.                                      *)

\* The ways to cut the part <<i, j>> into parts, and two cuts next to each other.
Cuts(i, j) == {cuts \in SUBSET (i .. j) : {i, j} \subseteq cuts}
Adjacent(cuts, a, b) == a < b /\ \A c \in cuts : ~(a < c /\ c < b)

Between(text, i, j, open, close) ==
  i + 1 < j /\ text[i + 1] = open /\ text[j] = close

\* Items are values.
Items(i, j, values) ==
  \E cuts \in Cuts(i, j) :
    \A a, b \in cuts : Adjacent(cuts, a, b) => <<a, b>> \in values

\* Members are names with values.  With unique, no two have one name.
Members(text, unique, i, j, values) ==
  \E cuts \in Cuts(i, j) :
    /\ \A a, b \in cuts :
         Adjacent(cuts, a, b) => text[a + 1] \in Name /\ <<a + 1, b>> \in values
    /\ unique => \A a, b \in cuts \ {j} : text[a + 1] = text[b + 1] => a = b

\* A value is a scalar, an array or an object; values are those of its parts.
Value(text, unique, i, j, values) ==
  \/ j = i + 1 /\ text[j] \in Name
  \/ Between(text, i, j, "array", "end_array") /\ Items(i + 1, j - 1, values)
  \/ Between(text, i, j, "object", "end_object") /\ Members(text, unique, i + 1, j - 1, values)

\* The parts of up to n tokens that are values.
Values(text, unique) ==
  LET upTo[n \in 0 .. Len(text)] ==
        IF n = 0 THEN {}
        ELSE upTo[n - 1] \cup
               {<<i, i + n>> : i \in {k \in 0 .. Len(text) - n :
                                       Value(text, unique, k, k + n, upTo[n - 1])}}
  IN  upTo

\* A text that is one value.
IsValue(text, unique) == <<0, Len(text)>> \in Values(text, unique)[Len(text)]

\* The JSON texts, and those without duplicate members.
IsJSON(text)  == IsValue(text, FALSE)
IsClean(text) == IsValue(text, TRUE)
==============================================================================
