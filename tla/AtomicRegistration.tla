------------------------- MODULE AtomicRegistration -------------------------
(***************************************************************************)
(* What the Registration of agent/registration/nacos promises, without its *)
(* lock and without the lease that a call has read: however the calls      *)
(* overlap, each takes effect in one instant, on the lease as it is then.  *)
(* NacosRegistration implements this specification.                        *)
(***************************************************************************)
CONSTANTS
  Caller,
  Calls   \* which mixes of calls are made

VARIABLES
  op,       \* what each goroutine calls
  ctxDone,  \* the context of each call ended
  lease,    \* "none", "active", "lost" or "closed"
  answer    \* what each call is sure of: its result, or how Close went

vars == <<op, ctxDone, lease, answer>>

Init ==
  /\ op \in Calls
  /\ ctxDone = [c \in Caller |-> FALSE]
  /\ lease = "none"
  /\ answer = [c \in Caller |-> "none"]

Answer(c, value) ==
  /\ answer[c] = "none"
  /\ answer' = [answer EXCEPT ![c] = value]
  /\ UNCHANGED <<op, ctxDone>>

\* A lease is obtained once, and never replaced.
Register(c) ==
  /\ op[c] = "register"
  /\ \/ lease = "none" /\ lease' = "active" /\ Answer(c, "nil")
     \/ lease = "none" /\ UNCHANGED lease /\ Answer(c, "failed")
     \/ lease # "none" /\ UNCHANGED lease /\ Answer(c, "already")

Run(c) ==
  /\ op[c] = "run"
  /\ \/ lease = "none" /\ Answer(c, "not started")
     \/ lease # "none" /\ ctxDone[c] /\ Answer(c, "nil")
     \/ lease \in {"lost", "closed"} /\ Answer(c, "lost")
  /\ UNCHANGED lease

Ready(c) ==
  /\ op[c] = "ready"
  /\ Answer(c, IF lease = "active" THEN "true" ELSE "false")
  /\ UNCHANGED lease

\* The lease is closed, or that failed and it may be active.
Deregister(c) ==
  /\ op[c] = "deregister"
  /\ LET ended == IF lease = "active" THEN "closed" ELSE lease
     IN  \/ lease' = ended /\ Answer(c, "closed")
         \/ lease # "none" /\ lease' \in {lease, ended} /\ Answer(c, "not closed")

\* The registrar is closed as well, and Deregister returns.
Finish(c) ==
  /\ \/ answer[c] = "closed" /\ answer' = [answer EXCEPT ![c] = "nil"]
     \/ /\ answer[c] \in {"closed", "not closed"}
        /\ answer' = [answer EXCEPT ![c] = "failed"]
  /\ UNCHANGED <<op, ctxDone, lease>>

LoseLease ==
  /\ lease = "active" /\ lease' = "lost"
  /\ UNCHANGED <<op, ctxDone, answer>>

EndContext(c) ==
  /\ ~ctxDone[c]
  /\ ctxDone' = [ctxDone EXCEPT ![c] = TRUE]
  /\ UNCHANGED <<op, lease, answer>>

Call(c) == Register(c) \/ Run(c) \/ Ready(c) \/ Deregister(c) \/ Finish(c)

Next == LoseLease \/ \E c \in Caller : Call(c) \/ EndContext(c)

Spec == Init /\ [][Next]_vars
------------------------------------------------------------------------------
\* Only a Deregister closes.
TypeOK ==
  /\ op \in Calls
  /\ ctxDone \in [Caller -> BOOLEAN]
  /\ lease \in {"none", "active", "lost", "closed"}
  /\ answer \in [Caller -> {"none", "nil", "already", "failed", "not started", "lost",
                            "true", "false", "closed", "not closed"}]
  /\ \A c \in Caller : answer[c] \in {"closed", "not closed"} => op[c] = "deregister"

\* This call was told that it has registered the agent.
Told(c) == op[c] = "register" /\ answer[c] = "nil"

\* The answers of all calls agree: there is a lease exactly if one call of Register,
\* and only one, is told so, and only then another Register hears that the
\* registration has started, a Run that its lease was lost, and a probe that the
\* agent is ready (registration.go:82-152).
AnswersAgree ==
  /\ lease # "none" <=> \E c \in Caller : Told(c)
  /\ \A c, d \in Caller : Told(c) /\ Told(d) => c = d
  /\ \A c \in Caller : answer[c] \in {"already", "lost", "true"} => lease # "none"
==============================================================================
