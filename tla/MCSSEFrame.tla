----------------------------- MODULE MCSSEFrame -----------------------------
(***************************************************************************)
(* Small instances of SSEFrame: everything short, alone, after a frame, or *)
(* as the rest of a line of which the first 6 bytes exceed the limit.      *)
(***************************************************************************)
EXTENDS SSEFrame

Sent == {<<>>, <<"d", "x", "n", "n">>, <<"d", "x", "x", "x", "d", "x">>}

Wires == {sent \o rest : sent \in Sent, rest \in BoundedSeq(Byte, 5)}
==============================================================================
