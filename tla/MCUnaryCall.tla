---------------------------- MODULE MCUnaryCall ----------------------------
(***************************************************************************)
(* Small instances of UnaryCall: around a good result and a good error     *)
(* everything that one of the checks looks at varies.                      *)
(***************************************************************************)
EXTENDS UnaryCall

Parents == {[root |-> "t1", trace |-> "x1"]}

Documents(texts, faults, pairs, roots, traces, codes) ==
  {[text |-> text, faults |-> f, hasInvocation |-> pair[1], hasRootTask |-> pair[2],
    root |-> root, trace |-> trace, code |-> code] :
     text \in texts, f \in faults, pair \in pairs, root \in roots,
     trace \in traces, code \in codes}

Answers(statuses, medias, traces, sizes, docs) ==
  [status : statuses, media : medias, traces : traces, size : sizes, value : sizes,
   doc : docs]

Empty == <<"object", "end_object">>
Pairs == BOOLEAN \X BOOLEAN
Pair  == {<<TRUE, TRUE>>}
Codes == UNION {row.codes : row \in PlatformTable}
Statuses == {200, 302} \cup {row.status : row \in PlatformTable}

\* Every row of the tables and every combination that is not one.
Tables ==
  Answers(Statuses, {<<JSON>>}, {<<"x1">>}, {1},
          Documents({Empty}, {{}}, Pairs, {"t1"}, {"x1"}, Codes))

\* Headers that are missing, malformed, repeated, or about another Trace.
Headers ==
  Answers({200, 503, 504}, BoundedSeq({JSON, "text/html"}, 2),
          BoundedSeq(Trace \cup {"malformed"}, 2), {1},
          Documents({Empty}, {{}}, Pairs, {"t1"}, Trace, {"TIMEOUT"}))

\* Bodies below, at and above the limit, with more after the value, and of
\* other calls.
Bodies ==
  {r \in Answers({200, 504}, {<<JSON>>}, {<<"x1">>}, 0 .. 4,
                 Documents({Empty}, SUBSET {"unknown", "invalid"}, Pair, Root, Trace,
                           {"TIMEOUT"})) :
     r.value <= r.size}

\* All texts of up to four tokens, and longer ones with repeated members.
Structured ==
  BoundedSeq(Token, 4)
    \cup {<<"object", n, m, k, n, "end_object">> : n, m, k \in Name}
    \cup {<<"object", n, "object", m, n, k, n, "end_object", "end_object">> : n, m, k \in Name}
    \cup {<<"object", n, "array", "object", m, n, "end_object", "end_array", "end_object">> : n, m \in Name}

Structures ==
  Answers({200}, {<<JSON>>}, {<<"x1">>}, {1},
          Documents(Structured, {{}}, Pair, {"t1"}, {"x1"}, {"TIMEOUT"}))

Responses == Tables \cup Headers \cup Bodies \cup Structures
============================================================================
