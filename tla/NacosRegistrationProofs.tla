---------------------- MODULE NacosRegistrationProofs ----------------------
(***************************************************************************)
(* Theorems about NacosRegistration, for any number of concurrent calls.   *)
(***************************************************************************)
EXTENDS NacosRegistration, TLAPS

Ended == {"lost", "closed"}

\* The lock is held by the one Register that publishes, and there is none yet.
Exclusive ==
  \A c \in Caller : pc[c] = "publishing" => mu = {c} /\ lease = {} /\ op[c] = "register"

\* The lease of the registration is the one ever obtained, and the only one a
\* reader can have seen.
Lone ==
  /\ \A c \in Caller : life[c] # "none" <=> c \in lease
  /\ \A c \in Caller : seen[c] \subseteq lease

\* What a reader acted upon remains true, because a lease never revives.
SettledAt(c) ==
  /\ pc[c] \in {"closed", "not closed"} => op[c] = "deregister" /\ result[c] = "none"
  /\ pc[c] = "closed" => \A d \in seen[c] : life[d] \in Ended
  /\ pc[c] # "returned" => result[c] = "none"
  /\ op[c] = "deregister" /\ result[c] = "nil" => \A d \in seen[c] : life[d] \in Ended
  /\ op[c] = "ready" /\ result[c] = "false" => \A d \in seen[c] : life[d] \in Ended

Settled == \A c \in Caller : SettledAt(c)

IInv == TypeOK /\ Exclusive /\ Lone /\ Settled

\* A reader has seen at most one lease.
LEMMA SeenOne ==
  ASSUME TypeOK, NEW c \in Caller
  PROVE  seen[c] = {} \/ \E e \in Caller : seen[c] = {e}
<1>1. seen[c] \in {{}} \cup {{e} : e \in Caller}
  BY DEF TypeOK
<1> QED BY <1>1

\* All that have seen a lease have seen the same.
LEMMA SameSeen ==
  ASSUME TypeOK, Lone, NEW c \in Caller, seen[c] # {}
  PROVE  seen[c] = lease
<1>1. PICK d \in Caller : lease \subseteq {d}
  BY DEF TypeOK
<1>2. PICK e \in Caller : seen[c] = {e}
  BY SeenOne
<1> QED BY <1>1, <1>2 DEF Lone

\* Deregister ends no other lease than the one it has read.
LEMMA ClosesSeen ==
  ASSUME TypeOK, NEW c \in Caller, CloseLease(c)
  PROVE  /\ life' \in [Caller -> {"none", "active", "lost", "closed"}]
         /\ \A d \in Caller : life'[d] = life[d] \/ (life[d] = "active" /\ life'[d] = "closed")
         /\ pc'[c] \in {"closed", "not closed"}
         /\ pc'[c] = "closed" => \A d \in seen[c] : life'[d] # "active"
<1> DEFINE ended == [d \in Caller |->
                       IF d \in seen[c] /\ life[d] = "active" THEN "closed" ELSE life[d]]
<1>1. /\ life' = ended \/ life' = life
      /\ pc' = [pc EXCEPT ![c] = "closed"] \/ pc' = [pc EXCEPT ![c] = "not closed"]
      /\ life' = ended \/ pc' = [pc EXCEPT ![c] = "not closed"]
  BY DEF CloseLease
<1>2. ended \in [Caller -> {"none", "active", "lost", "closed"}]
  BY DEF TypeOK
<1>3. \A d \in Caller : ended[d] = life[d] \/ (life[d] = "active" /\ ended[d] = "closed")
  OBVIOUS
<1>4. \A d \in seen[c] : ended[d] # "active"
  BY SeenOne
<1>5. pc'[c] \in {"closed", "not closed"} /\ (pc'[c] = "closed" => life' = ended)
  BY <1>1 DEF TypeOK
<1> HIDE DEF ended
<1> QED BY <1>1, <1>2, <1>3, <1>4, <1>5 DEF TypeOK

\* A lease that ended stays ended.
LEMMA EndedStays ==
  ASSUME TypeOK, Exclusive, Lone, Next, NEW d \in Caller, life[d] \in Ended
  PROVE  life'[d] \in Ended
<1> USE DEF TypeOK, Ended
<1>1. ASSUME NEW c \in Caller, Lock(c) \/ ReadLease(c) \/ Observe(c) \/ Ready(c)
                               \/ CloseRegistrar(c) \/ EndContext(c)
      PROVE  life'[d] \in Ended
  BY <1>1 DEF Lock, ReadLease, Observe, Ready, CloseRegistrar, EndContext
<1>2. ASSUME NEW c \in Caller, Publish(c)
      PROVE  life'[d] \in Ended
  BY <1>2 DEF Publish, Exclusive, Lone
<1>3. ASSUME NEW c \in Caller, CloseLease(c)
      PROVE  life'[d] \in Ended
  BY <1>3, ClosesSeen
<1>4. ASSUME NEW c \in Caller, LoseLease(c)
      PROVE  life'[d] \in Ended
  BY <1>4 DEF LoseLease
<1> QED BY <1>1, <1>2, <1>3, <1>4 DEF Next, Step

LEMMA Typing ==
  ASSUME TypeOK, Exclusive, Next
  PROVE  TypeOK'
<1> USE CallsAssumption DEF TypeOK, calls
<1>1. ASSUME NEW c \in Caller, Lock(c)
      PROVE  TypeOK'
  <2>1. mu' \in {{}} \cup {{d} : d \in Caller}
    <3>1. mu = {} /\ (mu' = mu \/ mu' = mu \cup {c})
      BY <1>1 DEF Lock, LockFree
    <3> QED BY <3>1
  <2>2. /\ pc' \in [Caller -> {"called", "publishing", "unlocked", "closed", "not closed", "returned"}]
        /\ result' \in [Caller -> {"none", "nil", "already", "failed", "not started",
                                   "lost", "true", "false"}]
    BY <1>1 DEF Lock, Return
  <2> QED BY <1>1, <2>1, <2>2 DEF Lock
<1>2. ASSUME NEW c \in Caller, Publish(c)
      PROVE  TypeOK'
  <2>1. mu' = {}
    BY <1>2 DEF Publish, Unlocked, Exclusive
  <2>2. /\ lease' \in {{}} \cup {{d} : d \in Caller}
        /\ life' \in [Caller -> {"none", "active", "lost", "closed"}]
    BY <1>2 DEF Publish
  <2>3. /\ pc' \in [Caller -> {"called", "publishing", "unlocked", "closed", "not closed", "returned"}]
        /\ result' \in [Caller -> {"none", "nil", "already", "failed", "not started",
                                   "lost", "true", "false"}]
    BY <1>2 DEF Publish, Return
  <2> QED BY <1>2, <2>1, <2>2, <2>3 DEF Publish
<1>3. ASSUME NEW c \in Caller, ReadLease(c)
      PROVE  TypeOK'
  BY <1>3 DEF ReadLease
<1>4. ASSUME NEW c \in Caller, Observe(c)
      PROVE  TypeOK'
  BY <1>4 DEF Observe, Return
<1>5. ASSUME NEW c \in Caller, Ready(c)
      PROVE  TypeOK'
  BY <1>5 DEF Ready, Return
<1>6. ASSUME NEW c \in Caller, CloseLease(c)
      PROVE  TypeOK'
  <2>1. pc' \in [Caller -> {"called", "publishing", "unlocked", "closed", "not closed", "returned"}]
    BY <1>6 DEF CloseLease
  <2>2. UNCHANGED <<op, ctxDone, mu, lease, seen, result>>
    BY <1>6 DEF CloseLease
  <2> QED BY <1>6, <2>1, <2>2, ClosesSeen
<1>7. ASSUME NEW c \in Caller, CloseRegistrar(c)
      PROVE  TypeOK'
  BY <1>7 DEF CloseRegistrar, Joined, Return
<1>8. ASSUME NEW c \in Caller, LoseLease(c) \/ EndContext(c)
      PROVE  TypeOK'
  BY <1>8 DEF LoseLease, EndContext
<1> QED BY <1>1, <1>2, <1>3, <1>4, <1>5, <1>6, <1>7, <1>8 DEF Next, Step

LEMMA ExclusiveKept ==
  ASSUME TypeOK, Exclusive, Next
  PROVE  Exclusive'
<1> USE DEF TypeOK, Exclusive, calls
<1>1. ASSUME NEW c \in Caller, Lock(c)
      PROVE  Exclusive'
  BY <1>1 DEF Lock, LockFree, Return, Started
<1>2. ASSUME NEW c \in Caller, Publish(c)
      PROVE  Exclusive'
  <2>1. \A d \in Caller : pc[d] = "publishing" => d = c
    <3> TAKE d \in Caller
    <3>1. pc[d] = "publishing" => {d} = {c}
      BY <1>2 DEF Publish
    <3> QED BY <3>1
  <2>2. \A d \in Caller : pc'[d] # "publishing"
    BY <1>2, <2>1 DEF Publish, Return
  <2> QED BY <2>2
<1>3. ASSUME NEW c \in Caller, ReadLease(c) \/ Observe(c) \/ Ready(c) \/ CloseRegistrar(c)
      PROVE  Exclusive'
  BY <1>3 DEF ReadLease, Observe, Ready, CloseRegistrar, Return
<1>4. ASSUME NEW c \in Caller, CloseLease(c) \/ LoseLease(c) \/ EndContext(c)
      PROVE  Exclusive'
  BY <1>4 DEF CloseLease, LoseLease, EndContext
<1> QED BY <1>1, <1>2, <1>3, <1>4 DEF Next, Step

LEMMA LoneKept ==
  ASSUME TypeOK, Exclusive, Lone, Next
  PROVE  Lone'
<1> USE DEF TypeOK, Lone, calls
<1>1. ASSUME NEW c \in Caller, Lock(c) \/ Observe(c) \/ Ready(c) \/ CloseRegistrar(c) \/ EndContext(c)
      PROVE  Lone'
  BY <1>1 DEF Lock, Observe, Ready, CloseRegistrar, EndContext
<1>2. ASSUME NEW c \in Caller, Publish(c)
      PROVE  Lone'
  BY <1>2 DEF Publish, Exclusive
<1>3. ASSUME NEW c \in Caller, ReadLease(c)
      PROVE  Lone'
  BY <1>3 DEF ReadLease
<1>4. ASSUME NEW c \in Caller, CloseLease(c)
      PROVE  Lone'
  BY <1>4, ClosesSeen DEF CloseLease
<1>5. ASSUME NEW c \in Caller, LoseLease(c)
      PROVE  Lone'
  BY <1>5 DEF LoseLease
<1> QED BY <1>1, <1>2, <1>3, <1>4, <1>5 DEF Next, Step

\* A call that does not move is settled by the lease that stays ended.
LEMMA OthersSettled ==
  ASSUME TypeOK, Exclusive, Lone, Next, NEW d \in Caller, SettledAt(d), op' = op,
         pc'[d] = pc[d], result'[d] = result[d], seen'[d] = seen[d]
  PROVE  SettledAt(d)'
<1>1. \A x \in seen[d] : life[x] \in Ended => life'[x] \in Ended
  BY EndedStays, SeenOne
<1> QED BY <1>1 DEF SettledAt

LEMMA SettledKept ==
  ASSUME TypeOK, Exclusive, Lone, Settled, Next
  PROVE  Settled'
<1> USE DEF Settled, calls
<1>1. ASSUME NEW c \in Caller, Step(c)
      PROVE  Settled'
  <2> USE <1>1 DEF TypeOK
  <2>1. /\ op' = op
        /\ \A d \in Caller \ {c} : pc'[d] = pc[d] /\ result'[d] = result[d] /\ seen'[d] = seen[d]
    BY DEF Step, Lock, Publish, ReadLease, Observe, Ready, CloseLease, CloseRegistrar, Return
  <2>2. SettledAt(c)'
    <3> USE DEF SettledAt
    <3>1. CASE Lock(c) \/ Publish(c)
      BY <3>1 DEF Lock, Publish, Exclusive, Return
    <3>2. CASE ReadLease(c)
      BY <3>2 DEF ReadLease
    <3>3. CASE Observe(c)
      BY <3>3 DEF Observe, Return
    <3>4. CASE Ready(c)
      <4>1. /\ op[c] = "ready" /\ pc'[c] = "returned" /\ seen' = seen /\ life' = life
            /\ result'[c] = "false" => seen[c] = {} \/ \E d \in seen[c] : life[d] \in Ended
        BY <3>4 DEF Ready, Return, Done, Ended
      <4>2. result'[c] = "false" => \A d \in seen[c] : life[d] \in Ended
        <5>1. CASE seen[c] = {}
          BY <5>1
        <5>2. CASE \E e \in Caller : seen[c] = {e}
          <6> PICK e \in Caller : seen[c] = {e}
            BY <5>2
          <6> QED BY <4>1
        <5> QED BY <5>1, <5>2, SeenOne
      <4> QED BY <2>1, <4>1, <4>2
    <3>5. CASE CloseLease(c)
      <4>1. op[c] = "deregister" /\ pc[c] = "unlocked" /\ result'[c] = "none" /\ seen' = seen
        BY <3>5 DEF CloseLease
      <4>2. pc'[c] \in {"closed", "not closed"}
        BY <3>5, ClosesSeen
      <4>3. pc'[c] = "closed" => \A d \in seen[c] : life'[d] \in Ended
        <5> SUFFICES ASSUME pc'[c] = "closed", NEW d \in seen[c] PROVE life'[d] \in Ended
          OBVIOUS
        <5>1. d \in Caller /\ life[d] # "none"
          BY SeenOne DEF Lone
        <5>2. life'[d] \notin {"none", "active"}
          BY <3>5, <5>1, ClosesSeen
        <5>3. life'[d] \in {"none", "active", "lost", "closed"}
          BY <3>5, <5>1, ClosesSeen
        <5> QED BY <5>2, <5>3 DEF Ended
      <4> QED BY <2>1, <4>1, <4>2, <4>3
    <3>6. CASE CloseRegistrar(c)
      BY <3>6 DEF CloseRegistrar, Joined, Return
    <3> QED BY <3>1, <3>2, <3>3, <3>4, <3>5, <3>6 DEF Step
  <2>3. \A d \in Caller \ {c} : SettledAt(d)'
    BY <2>1, OthersSettled
  <2> QED BY <2>2, <2>3
<1>2. ASSUME NEW c \in Caller, LoseLease(c) \/ EndContext(c)
      PROVE  Settled'
  <2>1. UNCHANGED <<op, pc, result, seen>>
    BY <1>2 DEF LoseLease, EndContext
  <2> QED BY <2>1, OthersSettled
<1> QED BY <1>1, <1>2 DEF Next

LEMMA Inductive == Spec => []IInv
<1>1. Init => IInv
  BY CallsAssumption DEF Init, IInv, TypeOK, Exclusive, Lone, Settled, SettledAt
<1>2. IInv /\ [Next]_vars => IInv'
  <2> SUFFICES ASSUME IInv, [Next]_vars PROVE IInv'
    OBVIOUS
  <2>1. CASE Next
    BY <2>1, Typing, ExclusiveKept, LoneKept, SettledKept DEF IInv
  <2>2. CASE UNCHANGED vars
    BY <2>2 DEF vars, calls, IInv, TypeOK, Exclusive, Lone, Settled, SettledAt
  <2> QED BY <2>1, <2>2
<1> QED BY <1>1, <1>2, PTL DEF Spec
------------------------------------------------------------------------------
\* The registration's state keeps its type, and its lock one writer
\* (registration.go:82-97).
THEOREM TypeCorrect == Spec => []TypeOK
<1>1. IInv => TypeOK
  BY DEF IInv
<1> QED BY <1>1, Inductive, PTL

\* One Registration publishes one lease in its life (registration.go:86-96).
THEOREM PublishesOnce == Spec => []OneLease
<1>1. IInv => OneLease
  BY DEF IInv, TypeOK, Lone, OneLease
<1> QED BY <1>1, Inductive, PTL

\* A Deregister that closed the lease is the end of the registration
\* (registration.go:124-136).
THEOREM StaysClosed == Spec => []DeregisterIsFinal
<1>1. IInv => DeregisterIsFinal
  <2> SUFFICES ASSUME IInv, NEW d \in Caller, NEW c \in Caller, op[d] = "deregister",
                      result[d] = "nil", seen[d] # {}, life[c] = "active"
               PROVE  FALSE
    BY DEF DeregisterIsFinal
  <2>1. c \in lease /\ seen[d] = lease
    BY SameSeen DEF IInv, Lone
  <2> QED BY <2>1 DEF IInv, Settled, SettledAt, Ended
<1> QED BY <1>1, Inductive, PTL

\* No probe answers true after one that found the lease ended
\* (registration.go:139-152).
THEOREM StaysUnready == Spec => ReadinessNeverReturns
<1> DEFINE Unready == \E d \in Caller : op[d] = "ready" /\ result[d] = "false" /\ seen[d] # {}
           Revived == \E c \in Caller : op[c] = "ready" /\ result[c] = "none" /\ result'[c] = "true"
<1>1. IInv /\ [Next]_vars => [Unready => ~Revived]_vars
  <2> SUFFICES ASSUME IInv, Next, NEW d \in Caller, NEW c \in Caller,
                      op[d] = "ready", result[d] = "false", seen[d] # {},
                      op[c] = "ready", result[c] = "none", result'[c] = "true"
               PROVE  FALSE
    BY DEF Unready, Revived
  <2> USE DEF IInv, TypeOK
  <2>1. Ready(c)
    <3>1. PICK e \in Caller : Step(e) \/ LoseLease(e) \/ EndContext(e)
      BY DEF Next
    <3>2. e # c => result'[c] = result[c]
      BY <3>1 DEF Step, Lock, Publish, ReadLease, Observe, Ready, CloseLease, CloseRegistrar,
                  LoseLease, EndContext, Return
    <3>3. ~(LoseLease(c) \/ EndContext(c) \/ ReadLease(c) \/ CloseLease(c))
      BY DEF LoseLease, EndContext, ReadLease, CloseLease
    <3>4. ~(Lock(c) \/ Publish(c) \/ Observe(c) \/ CloseRegistrar(c))
      BY DEF Lock, Publish, Exclusive, Observe, CloseRegistrar, Settled, SettledAt
    <3> QED BY <3>1, <3>2, <3>3, <3>4 DEF Step
  <2>2. seen[c] # {} /\ ~Done(c)
    BY <2>1 DEF Ready, Return
  <2>3. seen[c] = seen[d]
    BY <2>2, SameSeen
  <2>4. \A x \in seen[d] : life[x] \in Ended
    BY DEF Settled, SettledAt
  <2> QED BY <2>2, <2>3, <2>4 DEF Done, Ended
<1> QED BY <1>1, Inductive, PTL DEF Spec, ReadinessNeverReturns, Unready, Revived
------------------------------------------------------------------------------
(* Each call takes effect at one instant. *)

\* The lease that the registration has decides what the registration is.
LEMMA StateFacts ==
  /\ lease = {} => State = "none"
  /\ \A e \in Caller : lease = {e} => State = life[e]
<1>1. \A e \in Caller : (CHOOSE c \in {e} : TRUE) = e
  OBVIOUS
<1> QED BY <1>1 DEF State

\* What a call that has found the lease sees of it is what the registration is.
LEMMA SeenState ==
  ASSUME IInv, NEW c \in Caller, seen[c] # {}
  PROVE  /\ State \in {"active", "lost", "closed"}
         /\ Done(c) <=> State \in {"lost", "closed"}
<1>1. PICK e \in Caller : seen[c] = {e}
  BY SeenOne DEF IInv
<1>2. lease = {e} /\ State = life[e]
  BY <1>1, SameSeen, StateFacts DEF IInv
<1>3. life[e] \in {"active", "lost", "closed"}
  BY <1>2 DEF IInv, Lone, TypeOK
<1> QED BY <1>1, <1>2, <1>3 DEF Done

\* A call that does not move is as sure of its answer as it was.
LEMMA EffectKept ==
  ASSUME NEW d \in Caller, op' = op, pc'[d] = pc[d], result'[d] = result[d], seen'[d] = seen[d]
  PROVE  Effect(d)' = Effect(d)
BY DEF Effect

\* A step that makes a call sure of its answer.
LEMMA Answers ==
  ASSUME NEW c \in Caller, NEW value, Effect(c) = "none", Effect(c)' = value,
         \A d \in Caller \ {c} : Effect(d)' = Effect(d), UNCHANGED <<op, ctxDone>>
  PROVE  Atomic!Answer(c, value)
<1>1. [d \in Caller |-> Effect(d)]' = [[d \in Caller |-> Effect(d)] EXCEPT ![c] = value]
  OBVIOUS
<1> QED BY <1>1 DEF Atomic!Answer

\* Only the call that moves can become sure of its answer.
LEMMA OthersKept ==
  ASSUME IInv, NEW c \in Caller, Step(c)
  PROVE  /\ UNCHANGED <<op, ctxDone>>
         /\ \A d \in Caller \ {c} : Effect(d)' = Effect(d)
<1>1. /\ UNCHANGED <<op, ctxDone>>
      /\ \A d \in Caller \ {c} : pc'[d] = pc[d] /\ result'[d] = result[d] /\ seen'[d] = seen[d]
  BY DEF Step, Lock, Publish, ReadLease, Observe, Ready, CloseLease, CloseRegistrar, Return,
         calls, IInv, TypeOK
<1> QED BY <1>1, EffectKept

\* What the registration is depends on the lease and its life only.
LEMMA StateKept ==
  ASSUME UNCHANGED <<lease, life>>
  PROVE  State' = State
BY DEF State

\* A Register that finds a lease answers when it takes the lock; one that finds
\* none has no effect yet.
LEMMA LockIsAtomic ==
  ASSUME IInv, NEW c \in Caller, Lock(c)
  PROVE  Atomic!Register(c) \/ UNCHANGED Atomic!vars
<1>1. op[c] = "register" /\ pc[c] = "called" /\ UNCHANGED <<lease, life>>
  BY DEF Lock
<1>2. Step(c)
  BY DEF Step
<1>3. Effect(c) = "none"
  BY <1>1 DEF Effect
<1>4. CASE Started
  <2>1. Effect(c)' = "already"
    BY <1>4 DEF Lock, Return, Effect, IInv, TypeOK
  <2>2. State # "none"
    <3>1. PICK e \in Caller : lease = {e}
      BY <1>4 DEF Started, IInv, TypeOK
    <3> QED BY <3>1, StateFacts DEF IInv, Lone
  <2>3. Atomic!Answer(c, "already")
    BY <1>2, <1>3, <2>1, OthersKept, Answers
  <2> QED BY <1>1, <2>2, <2>3, StateKept DEF Atomic!Register
<1>5. CASE ~Started
  <2>1. Effect(c)' = "none"
    BY <1>5 DEF Lock, Effect, IInv, TypeOK
  <2> QED BY <1>1, <1>2, <1>3, <2>1, OthersKept, StateKept DEF Atomic!vars
<1> QED BY <1>4, <1>5

\* The registrar's answer is the effect of the Register that holds the lock.
LEMMA PublishIsAtomic ==
  ASSUME IInv, NEW c \in Caller, Publish(c)
  PROVE  Atomic!Register(c)
<1>1. op[c] = "register" /\ pc[c] = "publishing" /\ lease = {}
  BY DEF Publish, IInv, Exclusive
<1>2. Step(c)
  BY DEF Step
<1>3. Effect(c) = "none" /\ State = "none"
  BY <1>1, StateFacts DEF Effect
<1>4. CASE Return(c, "failed") /\ UNCHANGED <<lease, life>>
  <2>1. Effect(c)' = "failed"
    BY <1>4 DEF Return, Effect, IInv, TypeOK
  <2> QED BY <1>1, <1>2, <1>3, <1>4, <2>1, OthersKept, Answers, StateKept DEF Atomic!Register
<1>5. CASE /\ Return(c, "nil")
           /\ lease' = {c}
           /\ life' = [life EXCEPT ![c] = "active"]
  <2>1. Effect(c)' = "nil"
    BY <1>5 DEF Return, Effect, IInv, TypeOK
  <2>2. State' = "active"
    <3>1. life'[c] = "active"
      BY <1>5 DEF IInv, TypeOK
    <3>2. (CHOOSE e \in {c} : TRUE) = c
      OBVIOUS
    <3> QED BY <1>5, <3>1, <3>2 DEF State
  <2> QED BY <1>1, <1>2, <1>3, <2>1, <2>2, OthersKept, Answers DEF Atomic!Register
<1> QED BY <1>4, <1>5 DEF Publish

\* A reader that finds no lease answers when it reads; one that finds the lease
\* has no effect yet.
LEMMA ReadIsAtomic ==
  ASSUME IInv, NEW c \in Caller, ReadLease(c)
  PROVE  Atomic!Call(c) \/ UNCHANGED Atomic!vars
<1>1. /\ op[c] \in Op \ {"register"} /\ pc[c] = "called" /\ UNCHANGED <<op, lease, life>>
      /\ pc'[c] = "unlocked" /\ seen'[c] = lease
  BY CallsAssumption DEF ReadLease, IInv, TypeOK, calls
<1>2. Step(c)
  BY DEF Step
<1>3. Effect(c) = "none" /\ State' = State
  BY <1>1, StateKept DEF Effect
<1>4. CASE lease = {}
  <2>1. State = "none" /\ Effect(c)' = Without(op[c])
    BY <1>1, <1>4, StateFacts DEF Effect
  <2>2. Atomic!Answer(c, Without(op[c]))
    BY <1>2, <1>3, <2>1, OthersKept, Answers
  <2>3. CASE op[c] = "run"
    BY <1>3, <2>1, <2>2, <2>3 DEF Atomic!Call, Atomic!Run, Without
  <2>4. CASE op[c] = "ready"
    BY <1>3, <2>1, <2>2, <2>4 DEF Atomic!Call, Atomic!Ready, Without
  <2>5. CASE op[c] = "deregister"
    BY <1>3, <2>1, <2>2, <2>5 DEF Atomic!Call, Atomic!Deregister, Without
  <2> QED BY <1>1, <2>3, <2>4, <2>5 DEF Op
<1>5. CASE lease # {}
  <2>1. Effect(c)' = "none"
    BY <1>1, <1>5 DEF Effect
  <2> QED BY <1>2, <1>3, <2>1, OthersKept DEF Atomic!vars
<1> QED BY <1>4, <1>5

\* Run and Ready that have found no lease are sure already; else they take effect
\* when they look at Done.
LEMMA ObserveIsAtomic ==
  ASSUME IInv, NEW c \in Caller, Observe(c)
  PROVE  Atomic!Run(c) \/ UNCHANGED Atomic!vars
<1>1. op[c] = "run" /\ pc[c] = "unlocked" /\ UNCHANGED <<lease, life, ctxDone>>
  BY DEF Observe, calls
<1>2. Step(c) /\ State' = State
  BY <1>1, StateKept DEF Step
<1>3. PICK value \in {"not started", "nil", "lost"} :
        /\ Return(c, value)
        /\ value = "not started" <=> seen[c] = {}
        /\ value = "nil" => ctxDone[c]
        /\ value = "lost" => Done(c)
  BY DEF Observe, Done
<1>4. Effect(c)' = value
  BY <1>3 DEF Return, Effect, IInv, TypeOK
<1>5. CASE seen[c] = {}
  <2>1. Effect(c) = "not started"
    BY <1>1, <1>5 DEF Effect, Without
  <2> QED BY <1>2, <1>3, <1>4, <1>5, <2>1, OthersKept DEF Atomic!vars
<1>6. CASE seen[c] # {}
  <2>1. Effect(c) = "none"
    BY <1>1, <1>6 DEF Effect
  <2>2. Atomic!Answer(c, value)
    BY <1>2, <1>4, <2>1, OthersKept, Answers
  <2> QED BY <1>1, <1>2, <1>3, <1>6, <2>2, SeenState DEF Atomic!Run
<1> QED BY <1>5, <1>6

LEMMA ReadyIsAtomic ==
  ASSUME IInv, NEW c \in Caller, Ready(c)
  PROVE  Atomic!Ready(c) \/ UNCHANGED Atomic!vars
<1>1. /\ op[c] = "ready" /\ pc[c] = "unlocked" /\ UNCHANGED <<lease, life>>
      /\ Return(c, IF seen[c] = {} \/ Done(c) THEN "false" ELSE "true")
  BY DEF Ready
<1>2. Step(c) /\ State' = State
  BY <1>1, StateKept DEF Step
<1>3. Effect(c)' = IF seen[c] = {} \/ Done(c) THEN "false" ELSE "true"
  BY <1>1 DEF Return, Effect, IInv, TypeOK
<1>4. CASE seen[c] = {}
  <2>1. Effect(c) = "false"
    BY <1>1, <1>4 DEF Effect, Without
  <2> QED BY <1>2, <1>3, <1>4, <2>1, OthersKept DEF Atomic!vars
<1>5. CASE seen[c] # {}
  <2>1. Effect(c) = "none"
    BY <1>1, <1>5 DEF Effect
  <2>2. Effect(c)' = IF State = "active" THEN "true" ELSE "false"
    BY <1>3, <1>5, SeenState
  <2>3. Atomic!Answer(c, IF State = "active" THEN "true" ELSE "false")
    BY <1>2, <2>1, <2>2, OthersKept, Answers
  <2> QED BY <1>1, <1>2, <2>3 DEF Atomic!Ready
<1> QED BY <1>4, <1>5

\* Deregister takes effect when it closes the lease that it has found.
LEMMA CloseLeaseIsAtomic ==
  ASSUME IInv, NEW c \in Caller, CloseLease(c)
  PROVE  Atomic!Deregister(c) \/ UNCHANGED Atomic!vars
<1> DEFINE ended == [d \in Caller |->
                       IF d \in seen[c] /\ life[d] = "active" THEN "closed" ELSE life[d]]
<1>1. op[c] = "deregister" /\ pc[c] = "unlocked" /\ lease' = lease
  BY DEF CloseLease
<1>2. \/ life' = ended /\ pc' = [pc EXCEPT ![c] = "closed"]
      \/ seen[c] # {} /\ life' \in {life, ended} /\ pc' = [pc EXCEPT ![c] = "not closed"]
  BY DEF CloseLease
<1>3. Step(c)
  BY DEF Step
<1>4. Effect(c)' = pc'[c]
  BY <1>2 DEF Effect, IInv, TypeOK
<1>5. CASE seen[c] = {}
  <2>1. Effect(c) = "closed"
    BY <1>1, <1>5 DEF Effect, Without
  <2>2. life' = life /\ pc'[c] = "closed"
    BY <1>2, <1>5 DEF IInv, TypeOK
  <2> QED BY <1>1, <1>3, <1>4, <2>1, <2>2, OthersKept, StateKept DEF Atomic!vars
<1>6. CASE seen[c] # {}
  <2>1. Effect(c) = "none"
    BY <1>1, <1>6 DEF Effect
  <2>2. PICK e \in Caller : seen[c] = {e} /\ lease = {e} /\ lease' = {e}
    BY <1>1, <1>6, SeenOne, SameSeen DEF IInv
  <2>3. State = life[e] /\ State' = life'[e] /\ State # "none"
    <3>1. (CHOOSE d \in {e} : TRUE) = e
      OBVIOUS
    <3> QED BY <1>6, <2>2, <3>1, SeenState DEF State
  <2>4. ended[e] = IF State = "active" THEN "closed" ELSE State
    BY <2>2, <2>3
  <2>5. Atomic!Answer(c, pc'[c])
    BY <1>3, <1>4, <2>1, OthersKept, Answers
  <2>6. CASE life' = ended /\ pc'[c] = "closed"
    BY <1>1, <2>3, <2>4, <2>5, <2>6 DEF Atomic!Deregister
  <2>7. CASE life' \in {life, ended} /\ pc'[c] = "not closed"
    BY <1>1, <2>3, <2>4, <2>5, <2>7 DEF Atomic!Deregister
  <2> QED BY <1>2, <2>6, <2>7 DEF IInv, TypeOK
<1> QED BY <1>5, <1>6

\* Deregister returns.
LEMMA CloseRegistrarIsAtomic ==
  ASSUME IInv, NEW c \in Caller, CloseRegistrar(c)
  PROVE  Atomic!Finish(c)
<1>1. pc[c] \in {"closed", "not closed"} /\ UNCHANGED <<lease, life>>
  BY DEF CloseRegistrar
<1>2. Step(c) /\ State' = State
  BY <1>1, StateKept DEF Step
<1>3. Effect(c) = pc[c]
  BY <1>1 DEF Effect
<1>4. PICK value : /\ Return(c, value)
                   /\ value = "failed" \/ (pc[c] = "closed" /\ value = "nil")
  BY DEF CloseRegistrar, Joined
<1>5. Effect(c)' = value
  BY <1>4 DEF Return, Effect, IInv, TypeOK
<1>6. [d \in Caller |-> Effect(d)]' = [[d \in Caller |-> Effect(d)] EXCEPT ![c] = value]
  BY <1>2, <1>5, OthersKept
<1> QED BY <1>1, <1>2, <1>3, <1>4, <1>6, OthersKept DEF Atomic!Finish

\* The lease ends, or the context of a call.
LEMMA EnvironmentIsAtomic ==
  ASSUME IInv, NEW c \in Caller, LoseLease(c) \/ EndContext(c)
  PROVE  Atomic!LoseLease \/ Atomic!EndContext(c)
<1>1. UNCHANGED <<op, pc, lease, seen, result>>
  BY DEF LoseLease, EndContext, calls
<1>2. [d \in Caller |-> Effect(d)]' = [d \in Caller |-> Effect(d)]
  BY <1>1, EffectKept
<1>3. CASE LoseLease(c)
  <2>1. lease = {c}
    BY <1>3 DEF LoseLease, IInv, Lone, TypeOK
  <2>2. life[c] = "active" /\ life'[c] = "lost"
    BY <1>3 DEF LoseLease, IInv, TypeOK
  <2>3. (CHOOSE e \in {c} : TRUE) = c
    OBVIOUS
  <2>4. State = "active" /\ State' = "lost"
    BY <1>1, <2>1, <2>2, <2>3 DEF State
  <2> QED BY <1>1, <1>2, <1>3, <2>4 DEF LoseLease, calls, Atomic!LoseLease
<1>4. CASE EndContext(c)
  BY <1>1, <1>2, <1>4, StateKept DEF EndContext, Atomic!EndContext
<1> QED BY <1>3, <1>4

\* Although Run, Ready and Deregister use a lease after they have unlocked, and
\* Register holds the lock over a network call, every behaviour of the
\* registration is one in which each call takes effect at one instant
\* (registration.go:82-152).
THEOREM Refinement == Spec => ImplementsAtomicRegistration
<1>1. Init => Atomic!Init
  <2> SUFFICES ASSUME Init PROVE Atomic!Init
    OBVIOUS
  <2>1. \A c \in Caller : Effect(c) = "none"
    BY DEF Init, Effect
  <2>2. State = "none"
    BY StateFacts DEF Init
  <2> QED BY <2>1, <2>2 DEF Init, Atomic!Init
<1>2. ASSUME IInv, [Next]_vars PROVE [Atomic!Next]_(Atomic!vars)
  <2> USE <1>2
  <2>1. ASSUME NEW c \in Caller, Step(c)
        PROVE  Atomic!Call(c) \/ UNCHANGED Atomic!vars
    BY <2>1, LockIsAtomic, PublishIsAtomic, ReadIsAtomic, ObserveIsAtomic, ReadyIsAtomic,
       CloseLeaseIsAtomic, CloseRegistrarIsAtomic
       DEF Step, Atomic!Call
  <2>2. CASE UNCHANGED vars
    <3>1. [c \in Caller |-> Effect(c)]' = [c \in Caller |-> Effect(c)]
      BY <2>2, EffectKept DEF vars, calls
    <3> QED BY <2>2, <3>1, StateKept DEF vars, calls, Atomic!vars
  <2> QED BY <2>1, <2>2, EnvironmentIsAtomic DEF Next, Atomic!Next
<1> QED BY <1>1, <1>2, Inductive, PTL DEF Spec, ImplementsAtomicRegistration, Atomic!Spec
------------------------------------------------------------------------------

\* An answer agrees with those before if it is "nil" to a Register exactly when that
\* obtains the lease, and speaks of a lease only when there is one.
LEMMA AnswerAgrees ==
  ASSUME Atomic!TypeOK, Atomic!AnswersAgree, NEW c \in Caller, NEW value,
         Atomic!Answer(c, value),
         value \in {"nil", "already", "failed", "not started", "lost", "true", "false",
                    "closed", "not closed"},
         value \in {"closed", "not closed"} => op[c] = "deregister",
         value \in {"already", "lost", "true"} => State # "none",
         State' \in {"none", "active", "lost", "closed"},
         State # "none" => State' # "none",
         State' # State /\ State = "none" <=> op[c] = "register" /\ value = "nil"
  PROVE  Atomic!TypeOK' /\ Atomic!AnswersAgree'
<1>1. /\ Effect(c) = "none" /\ UNCHANGED <<op, ctxDone>>
      /\ [d \in Caller |-> Effect(d)]' = [[d \in Caller |-> Effect(d)] EXCEPT ![c] = value]
  BY DEF Atomic!Answer
<1>2. Effect(c)' = value /\ \A d \in Caller : d # c => Effect(d)' = Effect(d)
  <2>1. \A d \in Caller : [e \in Caller |-> Effect(e)]'[d] = Effect(d)'
    OBVIOUS
  <2>2. \A d \in Caller : [[e \in Caller |-> Effect(e)] EXCEPT ![c] = value][d]
                            = IF d = c THEN value ELSE Effect(d)
    OBVIOUS
  <2> QED BY <1>1, <2>1, <2>2
<1>3. Atomic!TypeOK'
  BY <1>1, <1>2 DEF Atomic!TypeOK
<1>4. \A d \in Caller : Atomic!Told(d)' <=> Atomic!Told(d) \/ (d = c /\ op[c] = "register" /\ value = "nil")
  BY <1>1, <1>2 DEF Atomic!Told
<1>5. Atomic!AnswersAgree'
  BY <1>2, <1>4 DEF Atomic!AnswersAgree
<1> QED BY <1>3, <1>5

\* The atomic specification keeps its promise: a lease is obtained once, by the
\* Register that is told so, and no answer is taken back but by the Deregister that
\* returns (registration.go:82-152).
THEOREM AnswersAgreeAtomically == Atomic!Spec => [](Atomic!TypeOK /\ Atomic!AnswersAgree)
<1>1. Atomic!Init => Atomic!TypeOK /\ Atomic!AnswersAgree
  BY DEF Atomic!Init, Atomic!TypeOK, Atomic!AnswersAgree, Atomic!Told
<1>2. ASSUME Atomic!TypeOK, Atomic!AnswersAgree, [Atomic!Next]_(Atomic!vars)
      PROVE  Atomic!TypeOK' /\ Atomic!AnswersAgree'
  <2> USE <1>2
  <2>0. State \in {"none", "active", "lost", "closed"}
    BY DEF Atomic!TypeOK
  <2>1. ASSUME NEW c \in Caller, Atomic!Register(c)
        PROVE  Atomic!TypeOK' /\ Atomic!AnswersAgree'
    BY <2>0, <2>1, AnswerAgrees DEF Atomic!Register
  <2>2. ASSUME NEW c \in Caller, Atomic!Run(c)
        PROVE  Atomic!TypeOK' /\ Atomic!AnswersAgree'
    BY <2>0, <2>2, AnswerAgrees DEF Atomic!Run
  <2>3. ASSUME NEW c \in Caller, Atomic!Ready(c)
        PROVE  Atomic!TypeOK' /\ Atomic!AnswersAgree'
    BY <2>0, <2>3, AnswerAgrees DEF Atomic!Ready
  <2>4. ASSUME NEW c \in Caller, Atomic!Deregister(c)
        PROVE  Atomic!TypeOK' /\ Atomic!AnswersAgree'
    BY <2>0, <2>4, AnswerAgrees DEF Atomic!Deregister
  <2>5. ASSUME NEW c \in Caller, Atomic!Finish(c)
        PROVE  Atomic!TypeOK' /\ Atomic!AnswersAgree'
    BY <2>5 DEF Atomic!Finish, Atomic!TypeOK, Atomic!AnswersAgree, Atomic!Told
  <2>6. CASE Atomic!LoseLease
    BY <2>6 DEF Atomic!LoseLease, Atomic!TypeOK, Atomic!AnswersAgree, Atomic!Told
  <2>7. ASSUME NEW c \in Caller, Atomic!EndContext(c)
        PROVE  Atomic!TypeOK' /\ Atomic!AnswersAgree'
    BY <2>7 DEF Atomic!EndContext, Atomic!TypeOK, Atomic!AnswersAgree, Atomic!Told
  <2>8. CASE UNCHANGED Atomic!vars
    BY <2>8 DEF Atomic!vars, Atomic!TypeOK, Atomic!AnswersAgree, Atomic!Told
  <2> QED BY <2>1, <2>2, <2>3, <2>4, <2>5, <2>6, <2>7, <2>8 DEF Atomic!Next, Atomic!Call
<1> QED BY <1>1, <1>2, PTL DEF Atomic!Spec

\* So it holds of the registration: what a goroutine is told by one call is never
\* contradicted by what another is told, whatever the lock and the leases that were
\* read before it are doing (registration.go:82-152).
THEOREM AnswersAgree == Spec => []Atomic!AnswersAgree
BY AnswersAgreeAtomically, Refinement, PTL DEF ImplementsAtomicRegistration
==============================================================================
