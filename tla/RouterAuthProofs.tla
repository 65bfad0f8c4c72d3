-------------------------- MODULE RouterAuthProofs --------------------------
(***************************************************************************)
(* Proofs about agent/routerauth.  The replay guard for any set of callers *)
(* and of identifiers and any bound on the clock, and that it implements   *)
(* OneUse; then, from its invariant, the verifier and the middleware for   *)
(* any requests, credentials and combinations of faults.                   *)
(***************************************************************************)
EXTENDS RouterAuth, TLAPS

\* Only the caller that holds the lock is between Lock and its return.
LockDiscipline ==
  \A p \in Caller : pc[p] \in {"locked", "deciding"} <=> p \in mu

\* No reading is ahead of the clock, and the reading under the lock is the
\* latest one.
ReadingsInOrder ==
  /\ \A p \in Caller : now[p] <= clock
  /\ \A p, q \in Caller : Answered(p) /\ pc[q] = "deciding" => now[p] <= now[q]

\* A grant is in the map unless some answered call read a time at which it
\* had expired.
GrantsAreHeld ==
  \A p \in Caller : pc[p] = "accepted" =>
    \/ cred[p].jti \in DOMAIN expires /\ expires[cred[p].jti] = cred[p].exp
    \/ \E q \in Caller : Answered(q) /\ now[q] >= cred[p].exp

IInv ==
  /\ TypeOK
  /\ LockDiscipline
  /\ ReadingsInOrder
  /\ GrantsAreHeld
  /\ HoldsOnlyLiveGrants
  /\ GrantsNeverOverlap
  /\ RefusedForCause
------------------------------------------------------------------------------
\* What the purge leaves of the map.
LEMMA PurgedFacts ==
  ASSUME NEW t
  PROVE  /\ DOMAIN Purged(t) = {j \in DOMAIN expires : t < expires[j]}
         /\ \A j \in DOMAIN Purged(t) : Purged(t)[j] = expires[j]
BY DEF Purged, Unexpired

\* What the map holds after a call stored its entry.
LEMMA StoredFacts ==
  ASSUME NEW p \in Caller
  PROVE  /\ DOMAIN Stored(p) = {j \in DOMAIN expires : now[p] < expires[j]} \cup {cred[p].jti}
         /\ Stored(p)[cred[p].jti] = cred[p].exp
         /\ \A j \in DOMAIN Stored(p) \ {cred[p].jti} : Stored(p)[j] = expires[j]
BY PurgedFacts DEF Stored

\* A call is granted exactly when its credential has not expired and the map
\* holds no unexpired entry of the same identifier.
LEMMA AcceptsIff ==
  ASSUME NEW p \in Caller
  PROVE  Accepts(p) <=> /\ now[p] < cred[p].exp
                        /\ ~(/\ cred[p].jti \in DOMAIN expires
                             /\ now[p] < expires[cred[p].jti])
BY DEF Accepts, Purged, Unexpired

\* Initially nothing was called and the map is empty.
LEMMA InitIInv == Init => IInv
BY HorizonAssumption
   DEF Init, IInv, TypeOK, LockDiscipline, ReadingsInOrder, GrantsAreHeld,
       HoldsOnlyLiveGrants, GrantsNeverOverlap, RefusedForCause, Answered

\* Time passing, a call arriving, taking the lock and reading the clock leave
\* the map, the answers and the readings of answered calls alone.
LEMMA QuietStep ==
  ASSUME IInv,
         \/ Tick
         \/ \E p \in Caller : Call(p) \/ Lock(p) \/ ReadClock(p)
         \/ UNCHANGED vars
  PROVE  IInv'
<1> USE HorizonAssumption DEF IInv
<1>1. CASE Tick
  BY <1>1 DEF Tick, TypeOK, LockDiscipline, ReadingsInOrder, GrantsAreHeld,
              HoldsOnlyLiveGrants, GrantsNeverOverlap, RefusedForCause, Answered
<1>2. ASSUME NEW p \in Caller, Call(p) PROVE IInv'
  BY <1>2 DEF Call, TypeOK, LockDiscipline, ReadingsInOrder, GrantsAreHeld,
              HoldsOnlyLiveGrants, GrantsNeverOverlap, RefusedForCause, Answered
<1>3. ASSUME NEW p \in Caller, Lock(p) PROVE IInv'
  BY <1>3 DEF Lock, TypeOK, LockDiscipline, ReadingsInOrder, GrantsAreHeld,
              HoldsOnlyLiveGrants, GrantsNeverOverlap, RefusedForCause, Answered
<1>4. ASSUME NEW p \in Caller, ReadClock(p) PROVE IInv'
  BY <1>4 DEF ReadClock, TypeOK, LockDiscipline, ReadingsInOrder, GrantsAreHeld,
              HoldsOnlyLiveGrants, GrantsNeverOverlap, RefusedForCause, Answered
<1>5. CASE UNCHANGED vars
  BY <1>5 DEF vars, TypeOK, LockDiscipline, ReadingsInOrder, GrantsAreHeld,
              HoldsOnlyLiveGrants, GrantsNeverOverlap, RefusedForCause, Answered
<1> QED BY <1>1, <1>2, <1>3, <1>4, <1>5
\* A granted call leaves every invariant intact.
LEMMA GrantStep ==
  ASSUME IInv, NEW p \in Caller, Decide(p), Accepts(p)
  PROVE  IInv'
<1> USE HorizonAssumption DEF IInv
<1> DEFINE jti == cred[p].jti
<1>1. /\ pc[p] = "deciding"
      /\ pc' = [pc EXCEPT ![p] = "accepted"]
      /\ expires' = Stored(p)
      /\ mu' = mu \ {p}
      /\ UNCHANGED <<clock, cred, now>>
  BY DEF Decide
<1>2. /\ now[p] < cred[p].exp
      /\ ~(jti \in DOMAIN expires /\ now[p] < expires[jti])
  BY AcceptsIff
<1>3. /\ DOMAIN expires' = {j \in DOMAIN expires : now[p] < expires[j]} \cup {jti}
      /\ expires'[jti] = cred[p].exp
      /\ \A j \in DOMAIN expires' \ {jti} : expires'[j] = expires[j]
  BY <1>1, StoredFacts
<1>4. TypeOK'
  BY <1>1, <1>3 DEF TypeOK, LockDiscipline, Credential
<1>5. LockDiscipline'
  BY <1>1 DEF TypeOK, LockDiscipline
<1>6. ReadingsInOrder'
  BY <1>1 DEF TypeOK, LockDiscipline, ReadingsInOrder, Answered
<1>7. \A q \in Caller : Answered(q) => now[q] <= now[p]
  BY <1>1 DEF ReadingsInOrder
<1>8. \A q \in Caller : pc[q] = "accepted" /\ cred[q].jti = jti => now[p] >= cred[q].exp
  BY <1>2, <1>7 DEF GrantsAreHeld, TypeOK, Credential, Answered
<1>9. GrantsAreHeld'
  BY <1>1, <1>3, <1>8 DEF GrantsAreHeld, TypeOK, Credential, Answered
<1>10. HoldsOnlyLiveGrants'
  BY <1>1, <1>2, <1>3, <1>7 DEF HoldsOnlyLiveGrants, TypeOK, Credential, Answered
<1>11. GrantsNeverOverlap'
  BY <1>1, <1>8 DEF GrantsNeverOverlap, TypeOK
<1>12. RefusedForCause'
  BY <1>1 DEF RefusedForCause, TypeOK
<1> QED BY <1>4, <1>5, <1>6, <1>9, <1>10, <1>11, <1>12

\* A refused call only purges.
LEMMA RefusalStep ==
  ASSUME IInv, NEW p \in Caller, Decide(p), ~Accepts(p)
  PROVE  IInv'
<1> USE HorizonAssumption DEF IInv
<1> DEFINE jti == cred[p].jti
<1>1. /\ pc[p] = "deciding"
      /\ pc' = [pc EXCEPT ![p] = "refused"]
      /\ expires' = Purged(now[p])
      /\ mu' = mu \ {p}
      /\ UNCHANGED <<clock, cred, now>>
  BY DEF Decide
<1>2. \/ now[p] >= cred[p].exp
      \/ jti \in DOMAIN expires /\ now[p] < expires[jti]
  BY AcceptsIff DEF TypeOK, Credential
<1>3. /\ DOMAIN expires' = {j \in DOMAIN expires : now[p] < expires[j]}
      /\ \A j \in DOMAIN expires' : expires'[j] = expires[j]
  BY <1>1 DEF Purged, Unexpired
<1>4. TypeOK'
  BY <1>1, <1>3 DEF TypeOK, LockDiscipline
<1>5. LockDiscipline'
  BY <1>1 DEF TypeOK, LockDiscipline
<1>6. ReadingsInOrder'
  BY <1>1 DEF TypeOK, LockDiscipline, ReadingsInOrder, Answered
<1>7. \A q \in Caller : Answered(q) => now[q] <= now[p]
  BY <1>1 DEF ReadingsInOrder
<1>8. GrantsAreHeld'
  BY <1>1, <1>3 DEF GrantsAreHeld, TypeOK, Credential, Answered
<1>9. HoldsOnlyLiveGrants'
  BY <1>1, <1>3, <1>7 DEF HoldsOnlyLiveGrants, TypeOK, Answered
<1>10. GrantsNeverOverlap'
  BY <1>1 DEF GrantsNeverOverlap, TypeOK
<1>11. RefusedForCause'
  <2>1. \/ now[p] >= cred[p].exp
        \/ \E q \in Caller : /\ pc[q] = "accepted"
                             /\ cred[q].jti = jti
                             /\ now[q] <= now[p]
                             /\ now[p] < cred[q].exp
    BY <1>2, <1>7 DEF HoldsOnlyLiveGrants, Answered
  <2> QED BY <1>1, <2>1 DEF RefusedForCause, TypeOK
<1> QED BY <1>4, <1>5, <1>6, <1>8, <1>9, <1>10, <1>11

\* The inductive invariant holds in every behaviour: calls on any number of
\* goroutines, interleaved anyhow, over the whole of Accept (replay.go:22-39).
THEOREM InductiveInvariant == Spec => []IInv
<1>1. ASSUME IInv, [Next]_vars PROVE IInv'
  <2>1. ASSUME NEW p \in Caller, Decide(p) PROVE IInv'
    BY <1>1, <2>1, GrantStep, RefusalStep
  <2> QED BY <1>1, <2>1, QuietStep DEF Next, Accept
<1> QED BY <1>1, InitIInv, PTL DEF Spec

\* The state stays in its type and the lock has at most one holder
\* (replay.go:22-39).
THEOREM TypeCorrect == Spec => []TypeOK
BY InductiveInvariant, PTL DEF IInv

\* No two grants of one identifier are ever valid at the same time
\* (replay.go:31-37).
THEOREM NoReplay == Spec => []GrantsNeverOverlap
BY InductiveInvariant, PTL DEF IInv

\* A call is refused only for an expired credential or for a live earlier
\* grant of its identifier (replay.go:31-36).
THEOREM NoSpuriousRefusal == Spec => []RefusedForCause
BY InductiveInvariant, PTL DEF IInv

\* The map holds only granted credentials that were unexpired at the last
\* decision (replay.go:26-30).
THEOREM BoundedMemory == Spec => []HoldsOnlyLiveGrants
BY InductiveInvariant, PTL DEF IInv
------------------------------------------------------------------------------
\* The instant a call reads the clock is the instant at which it is decided:
\* the guard answers as OneUse does then.
LEMMA ReadDecides ==
  ASSUME IInv, NEW p \in Caller, ReadClock(p)
  PROVE  Promise!Answer(p)
<1> USE DEF IInv
<1>1. /\ pc[p] = "locked"
      /\ pc' = [pc EXCEPT ![p] = "deciding"]
      /\ now' = [now EXCEPT ![p] = clock]
      /\ UNCHANGED <<clock, cred, mu, expires>>
  BY DEF ReadClock
<1>2. \A q \in Caller : pc[q] # "deciding"
  BY <1>1 DEF TypeOK, LockDiscipline
<1>3. Verdict(p) = "pending" /\ \A q \in Caller : Verdict(q) = "accepted" <=> pc[q] = "accepted"
  BY <1>1, <1>2 DEF Verdict, Answered
<1>4. Accepts(p)' <=> /\ clock < cred[p].exp
                      /\ ~(cred[p].jti \in DOMAIN expires /\ clock < expires[cred[p].jti])
  BY <1>1 DEF Accepts, Purged, Unexpired, TypeOK
<1>5. Accepts(p)' <=> clock < cred[p].exp /\ ~Promise!Taken(p)
  <2>1. ASSUME cred[p].jti \in DOMAIN expires, clock < expires[cred[p].jti]
        PROVE  \E q \in Caller : pc[q] = "accepted" /\ cred[q].jti = cred[p].jti /\ clock < cred[q].exp
    BY <2>1 DEF HoldsOnlyLiveGrants
  <2>2. ASSUME NEW q \in Caller, pc[q] = "accepted", cred[q].jti = cred[p].jti, clock < cred[q].exp
        PROVE  cred[p].jti \in DOMAIN expires /\ clock < expires[cred[p].jti]
    BY <2>2 DEF GrantsAreHeld, ReadingsInOrder, TypeOK, Credential
  <2> QED BY <1>3, <1>4, <2>1, <2>2 DEF Promise!Taken
<1>6. Verdict(p)' = IF Accepts(p)' THEN "accepted" ELSE "refused"
  BY <1>1 DEF Verdict, Answered, TypeOK
<1>7. \A q \in Caller : q # p => Verdict(q)' = Verdict(q)
  BY <1>1, <1>2 DEF Verdict, Answered, TypeOK
<1> QED
  BY <1>1, <1>3, <1>5, <1>6, <1>7 DEF Promise!Answer

\* Storing, purging and unlocking change no answer that was already settled.
LEMMA DecideStutters ==
  ASSUME IInv, NEW p \in Caller, Decide(p)
  PROVE  UNCHANGED <<clock, cred, [q \in Caller |-> Verdict(q)]>>
<1>1. /\ pc[p] = "deciding"
      /\ pc' = [pc EXCEPT ![p] = IF Accepts(p) THEN "accepted" ELSE "refused"]
      /\ UNCHANGED <<clock, cred, now>>
  BY DEF Decide
<1>2. \A q \in Caller : q # p => pc[q] # "deciding"
  BY <1>1 DEF IInv, TypeOK, LockDiscipline
<1>3. \A q \in Caller : Verdict(q)' = Verdict(q)
  BY <1>1, <1>2 DEF Verdict, Answered, IInv, TypeOK
<1> QED BY <1>1, <1>3

\* Accept, with its lock, map and purge, implements the atomic one-use
\* specification for every number of callers and identifiers
\* (replay.go:22-39).
THEOREM Refinement == Spec => ImplementsOneUse
<1>1. Init => Promise!Init
  BY DEF Init, Promise!Init, Verdict, Answered, Credential, Promise!Credential
<1>2. ASSUME IInv, [Next]_vars PROVE [Promise!Next]_(Promise!vars)
  <2>1. CASE Tick
    BY <1>2, <2>1 DEF Tick, Verdict, Answered, Accepts, Purged, Promise!Next, Promise!Tick
  <2>2. ASSUME NEW p \in Caller, Call(p) \/ Lock(p) PROVE UNCHANGED Promise!vars
    BY <1>2, <2>2 DEF Call, Lock, Verdict, Answered, Accepts, Purged, IInv, TypeOK, Promise!vars
  <2>3. ASSUME NEW p \in Caller, ReadClock(p) PROVE Promise!Next
    BY <1>2, <2>3, ReadDecides DEF Promise!Next
  <2>4. ASSUME NEW p \in Caller, Decide(p) PROVE UNCHANGED Promise!vars
    BY <1>2, <2>4, DecideStutters DEF Promise!vars
  <2>5. CASE UNCHANGED vars
    BY <2>5 DEF vars, Verdict, Answered, Accepts, Purged, Promise!vars
  <2> QED BY <1>2, <2>1, <2>2, <2>3, <2>4, <2>5 DEF Next, Accept
<1> QED BY <1>1, <1>2, InductiveInvariant, PTL DEF Spec, ImplementsOneUse, Promise!Spec
------------------------------------------------------------------------------
\* The atomic specification keeps its promise: a grant is given only while its
\* identifier is free, and time only shortens the life of the grants there are
\* (replay.go:31-37).
THEOREM OneLive == Promise!Spec => [](Promise!TypeOK /\ Promise!OneLiveGrant)
<1> USE HorizonAssumption
<1>1. Promise!Init => Promise!TypeOK /\ Promise!OneLiveGrant
  BY DEF Promise!Init, Promise!TypeOK, Promise!OneLiveGrant
<1>2. ASSUME Promise!TypeOK, Promise!OneLiveGrant, [Promise!Next]_(Promise!vars)
      PROVE  Promise!TypeOK' /\ Promise!OneLiveGrant'
  <2>1. CASE Promise!Tick
    BY <1>2, <2>1 DEF Promise!Tick, Promise!TypeOK, Promise!OneLiveGrant, Promise!Credential
  <2>2. ASSUME NEW p \in Caller, Promise!Answer(p)
        PROVE  Promise!TypeOK' /\ Promise!OneLiveGrant'
    BY <1>2, <2>2
       DEF Promise!Answer, Promise!Taken, Promise!TypeOK, Promise!OneLiveGrant, Promise!Credential
  <2>3. CASE UNCHANGED Promise!vars
    BY <1>2, <2>3 DEF Promise!vars, Promise!TypeOK, Promise!OneLiveGrant
  <2> QED BY <1>2, <2>1, <2>2, <2>3 DEF Promise!Next
<1> QED BY <1>1, <1>2, PTL DEF Promise!Spec

\* So the guard keeps it, too: no credential has two live grants, whatever the
\* lock, the map and the purge are doing (replay.go:22-39).
THEOREM OneLiveInGuard == Spec => []Promise!OneLiveGrant
BY OneLive, Refinement, PTL DEF ImplementsOneUse

------------------------------------------------------------------------------
(* The verifier and the middleware.                                         *)

\* The middleware starts with the guard's initial state, and each of its steps
\* is a step of the guard or leaves the guard alone.
LEMMA StepsOfTheGuard ==
  /\ RouterInit => Init
  /\ [RouterNext]_routerVars => [Next]_vars
<1>1. ASSUME NEW p \in Request, Handle(p) PROVE [Next]_vars
  BY <1>1 DEF Handle, Refuse, CheckReplay, Redeem, Respond, Next, Request
<1> QED BY <1>1 DEF RouterInit, RouterNext, Elapse, Next, routerVars

\* The guard's inductive invariant holds in the composition.
THEOREM GuardInvariant == RouterSpec => []IInv
BY InductiveInvariant, StepsOfTheGuard, PTL DEF Spec, RouterSpec

\* Copies of a credential share its lifetime; a request reaches the guard
\* only without faults and after iat; a grant is made before exp; only a
\* granted request is served.
RInv ==
  /\ issued \in [JwtID -> Lifetime]
  /\ faults \in [Request -> FaultSet]
  /\ response \in [Request -> {"none", "served", "401", "403"}]
  /\ \A p \in Request :
       LET times == issued[cred[p].jti]
       IN  /\ cred[p].exp = times.exp
           /\ pc[p] # "idle" => faults[p] = {} /\ times.iat <= clock
           /\ pc[p] \in {"deciding", "accepted"} => times.iat <= now[p]
           /\ pc[p] = "accepted" => now[p] < times.exp
           /\ response[p] = "served" => pc[p] = "accepted"

LEMMA InitRInv == RouterInit => RInv
BY DEF Init, RInv, RouterInit, Request

\* A request that passes every check of Verify has no fault and a credential
\* within its lifetime.
LEMMA PassesOnlyGenuine ==
  ASSUME RInv, NEW p \in Request, Refusal(p, clock) = "none"
  PROVE  faults[p] = {} /\ issued[cred[p].jti].iat <= clock
<1>1. ~Unauthenticated(p, clock) /\ ~Misaddressed(p)
  BY DEF Refusal
<1>2. faults[p] \in SUBSET Fault
  BY FaultSetAssumption DEF RInv
<1>3. faults[p] = {}
  BY <1>1, <1>2 DEF Unauthenticated, Misaddressed, Fault
<1>4. ValidAt(p, clock)
  BY <1>1 DEF Unauthenticated
<1> QED BY <1>3, <1>4 DEF ValidAt

LEMMA RInvStep ==
  ASSUME RInv, TypeOK, [RouterNext]_routerVars
  PROVE  RInv'
<1> USE DEF RInv, TypeOK, Credential, Lifetime, Request, requestVars, vars
<1>1. CASE Elapse
  BY <1>1 DEF Elapse, Tick
<1>2. ASSUME NEW p \in Request, Refuse(p) PROVE RInv'
  BY <1>2 DEF Refuse, Refusal
<1>3. ASSUME NEW p \in Request, CheckReplay(p) PROVE RInv'
  BY <1>3, PassesOnlyGenuine DEF CheckReplay, Call
<1>4. ASSUME NEW p \in Request, Redeem(p) PROVE RInv'
  <2>1. CASE Lock(p)
    BY <1>4, <2>1 DEF Redeem, Lock
  <2>2. CASE ReadClock(p)
    BY <1>4, <2>2 DEF Redeem, ReadClock
  <2>3. CASE Decide(p)
    <3>1. Accepts(p) => now[p] < cred[p].exp
      BY DEF Accepts, Unexpired
    <3> QED BY <1>4, <2>3, <3>1 DEF Redeem, Decide
  <2> QED BY <1>4, <2>1, <2>2, <2>3 DEF Redeem, Accept
<1>5. ASSUME NEW p \in Request, Respond(p) PROVE RInv'
  BY <1>5 DEF Respond
<1>6. CASE UNCHANGED routerVars
  BY <1>6 DEF routerVars
<1> QED BY <1>1, <1>2, <1>3, <1>4, <1>5, <1>6 DEF RouterNext, Handle

\* The invariant of the composition: the guard's and the middleware's own.
THEOREM RequestInvariant == RouterSpec => [](IInv /\ RInv)
<1>1. IInv => TypeOK
  BY DEF IInv
<1> QED BY <1>1, InitRInv, RInvStep, GuardInvariant, PTL DEF RouterSpec

\* The handler runs at most once for each credential, for every number of
\* requests and credentials (verifier.go:89-105, middleware.go:26-34).
THEOREM ServedOnce == RouterSpec => []CredentialServedOnce
<1>1. IInv /\ RInv => CredentialServedOnce
  BY DEF IInv, GrantsNeverOverlap, TypeOK, Credential, RInv, Lifetime,
         CredentialServedOnce, Request
<1> QED BY <1>1, RequestInvariant, PTL

\* Whoever is served passed every check within the credential's lifetime
\* (verifier.go:89-102).
THEOREM ServedGenuine == RouterSpec => []ServedRequestIsGenuine
<1>1. RInv => ServedRequestIsGenuine
  BY DEF RInv, ServedRequestIsGenuine, ValidAt
<1> QED BY <1>1, RequestInvariant, PTL

\* Rejected copies never use up a credential (verifier.go:93-104).
THEOREM GenuineNotSpoiled == RouterSpec => GenuineRefusedForCause
<1> DEFINE RefusedForCauseNow ==
      \A p \in Request :
        (faults[p] = {} /\ response[p] = "none" /\ response'[p] \in {"401", "403"})
          => \/ ~ValidAt(p, clock)
             \/ \E q \in Request \ {p} : /\ faults[q] = {}
                                        /\ pc[q] = "accepted"
                                        /\ cred[q].jti = cred[p].jti
<1>1. ASSUME IInv, RInv, RouterNext PROVE RefusedForCauseNow
  <2> SUFFICES ASSUME NEW p \in Request, faults[p] = {}, response[p] = "none",
                      response'[p] \in {"401", "403"}, ValidAt(p, clock)
               PROVE  \E q \in Request \ {p} : /\ faults[q] = {}
                                             /\ pc[q] = "accepted"
                                             /\ cred[q].jti = cred[p].jti
    OBVIOUS
  <2>1. Refuse(p) \/ Respond(p)
    BY <1>1 DEF RouterNext, Elapse, Handle, Refuse, CheckReplay, Redeem, Respond, RInv, requestVars
  <2>2. ~Refuse(p)
    BY DEF Refuse, Refusal, Unauthenticated, Misaddressed
  <2>3. pc[p] = "refused"
    BY <1>1, <2>1, <2>2 DEF Respond, RInv, Answered
  <2>4. now[p] < cred[p].exp
    BY <1>1 DEF IInv, ReadingsInOrder, TypeOK, Credential, RInv, Lifetime, ValidAt, Request
  <2>5. PICK q \in Request : pc[q] = "accepted" /\ cred[q].jti = cred[p].jti
    BY <1>1, <2>3, <2>4 DEF IInv, RefusedForCause, TypeOK, Credential, Request
  <2> QED BY <1>1, <2>3, <2>5 DEF RInv
<1>2. IInv /\ RInv /\ [RouterNext]_routerVars => [RefusedForCauseNow]_routerVars
  BY <1>1
<1> QED BY <1>2, RequestInvariant, PTL DEF RouterSpec, GenuineRefusedForCause
==============================================================================
