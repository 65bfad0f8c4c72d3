-------------------------- MODULE NacosRegistration --------------------------
(***************************************************************************)
(* The Registration of agent/registration/nacos/registration.go, shared by *)
(* goroutines that each make one call of Register, Run, Deregister or      *)
(* Ready.  The registrar and its leases are Core's: a lease ends when its  *)
(* heartbeat fails or when it is closed.  value.mu is held for writing     *)
(* over the registrar's network call; the other calls hold it for reading  *)
(* while they read value.lease, which is one step here.                    *)
(***************************************************************************)
CONSTANTS
  Caller,
  Calls   \* which mixes of calls are made

Op == {"register", "run", "deregister", "ready"}

ASSUME CallsAssumption == Calls \subseteq [Caller -> Op]

VARIABLES
  op,       \* what each goroutine calls
  pc,       \* "called", "publishing", "unlocked", "closed", "not closed", "returned"
  ctxDone,  \* the context of each call ended
  mu,       \* the goroutines that hold value.mu for writing
  lease,    \* value.lease: {} is nil, else whose Register obtained it
  seen,     \* the local variable lease of the readers
  life,     \* what became of the lease that each Register obtained
  result    \* what each call returned

calls == <<op, ctxDone>>
vars  == <<calls, pc, mu, lease, seen, life, result>>

Init ==
  /\ op \in Calls
  /\ pc = [c \in Caller |-> "called"]
  /\ ctxDone = [c \in Caller |-> FALSE]
  /\ mu = {} /\ lease = {}
  /\ seen = [c \in Caller |-> {}]
  /\ life = [c \in Caller |-> "none"]
  /\ result = [c \in Caller |-> "none"]

Return(c, value) ==
  /\ pc' = [pc EXCEPT ![c] = "returned"]
  /\ result' = [result EXCEPT ![c] = value]

\* Mutant: Register holds the lock for reading only.
LockShared == TRUE

LockFree == mu = {}

\* Mutant: a lease that was lost may be replaced.
StartedIfActive == \E d \in lease : life[d] = "active"

\* Register has started a lease before.
Started == lease # {}

\* Register takes the lock and checks value.lease.
Lock(c) ==
  /\ op[c] = "register" /\ pc[c] = "called" /\ LockFree
  /\ \/ Started /\ Return(c, "already") /\ UNCHANGED mu
     \/ /\ ~Started
        /\ pc' = [pc EXCEPT ![c] = "publishing"]
        /\ mu' = mu \cup {c}
        /\ UNCHANGED result
  /\ UNCHANGED <<calls, lease, seen, life>>

\* Mutant: a failed Register does not unlock.
UnlockedIfPublished(c) == IF lease' = lease THEN mu ELSE mu \ {c}

\* The deferred Unlock.
Unlocked(c) == mu \ {c}

\* The registrar's Register returns a lease or an error.
Publish(c) ==
  /\ pc[c] = "publishing"
  /\ \/ Return(c, "failed") /\ UNCHANGED <<lease, life>>
     \/ /\ Return(c, "nil")
        /\ lease' = {c}
        /\ life' = [life EXCEPT ![c] = "active"]
  /\ mu' = Unlocked(c)
  /\ UNCHANGED <<calls, seen>>

\* Run, Deregister and Ready: RLock, read, RUnlock.
ReadLease(c) ==
  /\ op[c] # "register" /\ pc[c] = "called" /\ LockFree
  /\ pc' = [pc EXCEPT ![c] = "unlocked"]
  /\ seen' = [seen EXCEPT ![c] = lease]
  /\ UNCHANGED <<calls, mu, lease, life, result>>

\* lease.Done() is closed.
Done(c) == \E d \in seen[c] : life[d] \in {"lost", "closed"}

\* The select of Run takes either ready case.
Observe(c) ==
  /\ op[c] = "run" /\ pc[c] = "unlocked"
  /\ \/ seen[c] = {} /\ Return(c, "not started")
     \/ seen[c] # {} /\ ctxDone[c] /\ Return(c, "nil")
     \/ Done(c) /\ Return(c, "lost")
  /\ UNCHANGED <<calls, mu, lease, seen, life>>

\* Mutant: a probe does not look at lease.Done().
ReadyOnceRegistered(c) ==
  /\ op[c] = "ready" /\ pc[c] = "unlocked"
  /\ Return(c, IF seen[c] = {} THEN "false" ELSE "true")
  /\ UNCHANGED <<calls, mu, lease, seen, life>>

Ready(c) ==
  /\ op[c] = "ready" /\ pc[c] = "unlocked"
  /\ Return(c, IF seen[c] = {} \/ Done(c) THEN "false" ELSE "true")
  /\ UNCHANGED <<calls, mu, lease, seen, life>>

\* Deregister closes the lease it read, if any.  A Close that fails may leave
\* the lease active.
CloseLease(c) ==
  /\ op[c] = "deregister" /\ pc[c] = "unlocked"
  /\ LET ended == [d \in Caller |->
                     IF d \in seen[c] /\ life[d] = "active" THEN "closed" ELSE life[d]]
     IN  \/ life' = ended /\ pc' = [pc EXCEPT ![c] = "closed"]
         \/ /\ seen[c] # {}
            /\ life' \in {life, ended}
            /\ pc' = [pc EXCEPT ![c] = "not closed"]
  /\ UNCHANGED <<calls, mu, lease, seen, result>>

\* Mutant: the error of lease.Close is dropped.
RegistrarErrorOnly(c) == {"nil", "failed"}

\* errors.Join(leaseErr, registrar.Close())
Joined(c) == IF pc[c] = "closed" THEN {"nil", "failed"} ELSE {"failed"}

CloseRegistrar(c) ==
  /\ pc[c] \in {"closed", "not closed"}
  /\ \E value \in Joined(c) : Return(c, value)
  /\ UNCHANGED <<calls, mu, lease, seen, life>>

LoseLease(c) ==
  /\ life[c] = "active"
  /\ life' = [life EXCEPT ![c] = "lost"]
  /\ UNCHANGED <<calls, pc, mu, lease, seen, result>>

EndContext(c) ==
  /\ ~ctxDone[c]
  /\ ctxDone' = [ctxDone EXCEPT ![c] = TRUE]
  /\ UNCHANGED <<op, pc, mu, lease, seen, life, result>>

Step(c) ==
  \/ Lock(c) \/ Publish(c)
  \/ ReadLease(c) \/ Observe(c) \/ Ready(c) \/ CloseLease(c) \/ CloseRegistrar(c)

Next == \E c \in Caller : Step(c) \/ LoseLease(c) \/ EndContext(c)

Spec == Init /\ [][Next]_vars

\* Goroutines run on, the registrar and the lease answer, and a RWMutex
\* starves nobody.
FairSpec == Spec /\ \A c \in Caller : WF_vars(Step(c))
------------------------------------------------------------------------------
\* Type invariant; a Register that publishes is alone.
TypeOK ==
  /\ op \in Calls
  /\ pc \in [Caller -> {"called", "publishing", "unlocked", "closed", "not closed", "returned"}]
  /\ ctxDone \in [Caller -> BOOLEAN]
  /\ mu \in {{}} \cup {{c} : c \in Caller}
  /\ lease \in {{}} \cup {{c} : c \in Caller}
  /\ seen \in [Caller -> {{}} \cup {{c} : c \in Caller}]
  /\ life \in [Caller -> {"none", "active", "lost", "closed"}]
  /\ result \in [Caller -> {"none", "nil", "already", "failed", "not started",
                            "lost", "true", "false"}]

\* However calls of Register overlap, fail and are retried, one Registration
\* publishes one lease in its life, so that none is published that nobody
\* can close (registration.go:86-96).
OneLease ==
  \A c, d \in Caller : life[c] # "none" /\ life[d] # "none" => c = d

\* After a Deregister that found the lease returned nil, no lease is active,
\* and no later Register brings one back (registration.go:88-90, 124-136).
DeregisterIsFinal ==
  \A d \in Caller :
    (op[d] = "deregister" /\ result[d] = "nil" /\ seen[d] # {})
      => \A c \in Caller : life[c] # "active"

\* Ready does not come back: after a probe that found the lease ended, no
\* probe answers true (registration.go:139-152).
ReadinessNeverReturns ==
  [][(\E d \in Caller : op[d] = "ready" /\ result[d] = "false" /\ seen[d] # {})
       => ~\E c \in Caller : op[c] = "ready" /\ result[c] = "none" /\ result'[c] = "true"]_vars

\* Every call returns, also those that wait for a Register that fails; Run
\* only once its lease or its context has ended (registration.go:82-152).
EveryCallReturns ==
  \A c \in Caller :
    (op[c] # "run" \/ ctxDone[c] \/ Done(c)) ~> (pc[c] = "returned")

\* What has become of the one lease.
State == IF lease = {} THEN "none" ELSE life[CHOOSE c \in lease : TRUE]

\* A reader that has found no lease is sure of its answer when it unlocks; one
\* that has found the lease acts on it as it is later.
Without(call) ==
  CASE call = "ready" -> "false" [] call = "run" -> "not started" [] OTHER -> "closed"

Effect(c) ==
  CASE pc[c] = "returned"                 -> result[c]
    [] pc[c] \in {"closed", "not closed"} -> pc[c]
    [] pc[c] = "unlocked" /\ seen[c] = {}  -> Without(op[c])
    [] OTHER                              -> "none"

Atomic == INSTANCE AtomicRegistration
            WITH lease <- State, answer <- [c \in Caller |-> Effect(c)]

\* Although Run, Deregister and Ready use the lease after they have unlocked, and
\* Register holds the lock over a network call, each call takes effect at one
\* instant (registration.go:82-152).
ImplementsAtomicRegistration == Atomic!Spec
==============================================================================
