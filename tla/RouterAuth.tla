----------------------------- MODULE RouterAuth -----------------------------
(***************************************************************************)
(* Middleware.Handler and Verifier.Verify of agent/routerauth composed     *)
(* with their ReplayGuard: what happens to concurrent requests that carry  *)
(* router-signed invocation credentials.  A goroutine serves each request. *)
(* Verify reads the clock once itself and once more inside Accept.         *)
(***************************************************************************)
EXTENDS ReplayGuard

CONSTANT FaultSet  \* the combinations of faults that requests come with

\* Requests with a credential: each one makes at most one call of Accept.  The
\* router issues every jti in one credential.
Request == Caller

\* "credential": the Authorization header, the segments, the signature or a
\* claim other than the times is bad; the others fail the check of that name.
Fault == {"credential", "issuer", "audience", "context"}

ASSUME FaultSetAssumption == FaultSet \subseteq SUBSET Fault

VARIABLES
  issued,   \* iat and exp of each credential
  faults,   \* what is wrong with each request
  response  \* "served", or the status of a refusal

requestVars == <<issued, faults, response>>
routerVars  == <<vars, requestVars>>

Lifetime == {l \in [iat : 0 .. Horizon, exp : 0 .. Horizon] : l.iat < l.exp}

RouterInit ==
  /\ Init
  /\ issued \in [JwtID -> Lifetime]
  /\ \A p \in Request : cred[p].exp = issued[cred[p].jti].exp
  /\ faults \in [Request -> FaultSet]
  /\ response = [p \in Request |-> "none"]

\* What the contract validator says of the times in the claims at time t.
ValidAt(p, t) ==
  LET times == issued[cred[p].jti] IN times.iat <= t /\ t < times.exp

\* The first failing check of Verify answers 401.
Unauthenticated(p, t) ==
  "credential" \in faults[p] \/ ~ValidAt(p, t) \/ "issuer" \in faults[p]

\* Mutant: the signed context headers are not compared.
MisaddressedOnly(p) == "audience" \in faults[p]

\* The first failing check of Verify answers 403.
Misaddressed(p) == "audience" \in faults[p] \/ "context" \in faults[p]

\* Verify up to the replay check.
Refusal(p, t) ==
  IF Unauthenticated(p, t) THEN "401"
  ELSE IF Misaddressed(p) THEN "403" ELSE "none"

\* Verify reads the clock and returns an error before the replay check;
\* writeVerificationError answers, the next handler does not run.
Refuse(p) ==
  /\ pc[p] = "idle" /\ response[p] = "none"
  /\ Refusal(p, clock) # "none"
  /\ response' = [response EXCEPT ![p] = Refusal(p, clock)]
  /\ UNCHANGED <<vars, issued, faults>>

\* Mutant: the replay check comes before the issuer, audience and context.
CheckReplayFirst(p) ==
  /\ response[p] = "none"
  /\ "credential" \notin faults[p]
  /\ Call(p)
  /\ UNCHANGED requestVars

\* Verify reads the clock, finds nothing wrong and calls Accept.
CheckReplay(p) ==
  /\ response[p] = "none"
  /\ Refusal(p, clock) = "none"
  /\ Call(p)
  /\ UNCHANGED requestVars

\* The call of Accept goes on.
Redeem(p) ==
  /\ Accept(p)
  /\ UNCHANGED requestVars

\* Mutants: the result of Accept is ignored; its refusal is not answered.
RespondAlways(p) ==
  /\ Answered(p) /\ response[p] = "none"
  /\ response' = [response EXCEPT ![p] = "served"]
  /\ UNCHANGED <<vars, issued, faults>>

RespondAccepted(p) ==
  /\ pc[p] = "accepted" /\ response[p] = "none"
  /\ response' = [response EXCEPT ![p] = "served"]
  /\ UNCHANGED <<vars, issued, faults>>

\* Verify returns the claims and the next handler runs, or Accept was false.
Respond(p) ==
  /\ Answered(p) /\ response[p] = "none"
  /\ response' = [response EXCEPT ![p] =
                    IF pc[p] = "accepted" THEN "served" ELSE "401"]
  /\ UNCHANGED <<vars, issued, faults>>

Handle(p) == Refuse(p) \/ CheckReplay(p) \/ Redeem(p) \/ Respond(p)

Elapse == Tick /\ UNCHANGED requestVars

RouterNext == Elapse \/ \E p \in Request : Handle(p)

RouterSpec == RouterInit /\ [][RouterNext]_routerVars

\* A request's goroutine runs on; sync.Mutex does not starve it.
RouterFairSpec == RouterSpec /\ \A p \in Request : WF_routerVars(Handle(p))
------------------------------------------------------------------------------
\* The next handler runs at most once for each credential, whatever number of
\* copies arrives, together or over time (verifier.go:89-105,
\* middleware.go:26-34).
CredentialServedOnce ==
  \A p, q \in Request :
    /\ response[p] = "served"
    /\ response[q] = "served"
    /\ cred[p].jti = cred[q].jti
    => p = q

\* Every request the handler sees passed all checks, and its credential was
\* within its lifetime at the later of the two clock readings
\* (verifier.go:89-102, replay.go:25).
ServedRequestIsGenuine ==
  \A p \in Request : response[p] = "served" =>
    faults[p] = {} /\ ValidAt(p, now[p])

\* A request without faults is refused only outside its credential's lifetime
\* or when another request without faults was granted on that credential: a
\* rejected copy with a bad audience, context or issuer does not use it up
\* (verifier.go:93-104).
GenuineRefusedForCause ==
  [][\A p \in Request :
       (faults[p] = {} /\ response[p] = "none" /\ response'[p] \in {"401", "403"})
         => \/ ~ValidAt(p, clock)
            \/ \E q \in Request \ {p} : /\ faults[q] = {}
                                       /\ pc[q] = "accepted"
                                       /\ cred[q].jti = cred[p].jti]_routerVars

\* Every request gets an answer (middleware.go:26-34).
EveryRequestAnswered == \A p \in Request : <>(response[p] # "none")
==============================================================================
