----------------------------- MODULE ReplayGuard -----------------------------
(***************************************************************************)
(* ReplayGuard.Accept of agent/routerauth/replay.go, called by concurrent  *)
(* request goroutines.  A call waits for guard.mu, reads the clock while   *)
(* it holds the lock, then purges, decides, stores and unlocks.  Time      *)
(* passes between any two of these steps.  A Caller makes one call; more   *)
(* calls are more callers.                                                 *)
(***************************************************************************)
EXTENDS Naturals

CONSTANTS Caller, JwtID, Horizon

ASSUME HorizonAssumption == Horizon \in Nat

VARIABLES
  clock,    \* what guard.now() returns, in Unix seconds; it never steps back
  cred,     \* jwtID and expiresAt of each call
  pc,       \* where each call is; the last two values are its result
  mu,       \* the holders of guard.mu
  now,      \* the local variable now of each call
  expires   \* guard.expires, a map: its domain is the keys present

vars == <<clock, cred, pc, mu, now, expires>>

Credential == [jti : JwtID, exp : 0 .. Horizon]

Init ==
  /\ clock = 0
  /\ cred \in [Caller -> Credential]
  /\ pc = [p \in Caller |-> "idle"]
  /\ mu = {}
  /\ now = [p \in Caller |-> 0]
  /\ expires = [j \in {} |-> 0]

Tick ==
  /\ clock < Horizon
  /\ clock' = clock + 1
  /\ UNCHANGED <<cred, pc, mu, now, expires>>

Call(p) ==
  /\ pc[p] = "idle"
  /\ pc' = [pc EXCEPT ![p] = "calling"]
  /\ UNCHANGED <<clock, cred, mu, now, expires>>

Lock(p) ==
  /\ pc[p] = "calling"
  /\ mu = {}
  /\ pc' = [pc EXCEPT ![p] = "locked"]
  /\ mu' = mu \cup {p}
  /\ UNCHANGED <<clock, cred, now, expires>>

ReadClock(p) ==
  /\ pc[p] = "locked"
  /\ pc' = [pc EXCEPT ![p] = "deciding"]
  /\ now' = [now EXCEPT ![p] = clock]
  /\ UNCHANGED <<clock, cred, mu, expires>>

\* Mutant: now > expiresAt instead of now >= expiresAt.
UnexpiredInclusive(t, e) == t <= e

Unexpired(t, e) == t < e

\* Mutants: nothing is purged; an entry is purged one second early.
NotPurged(t) == expires

PurgedEarly(t) ==
  LET kept == {j \in DOMAIN expires : t + 1 < expires[j]}
  IN  [j \in kept |-> expires[j]]

\* guard.expires after the loop that deletes the expired entries.
Purged(t) ==
  LET kept == {j \in DOMAIN expires : Unexpired(t, expires[j])}
  IN  [j \in kept |-> expires[j]]

\* Mutant: the lookup is made before the purge and ignores the expiry.
AcceptsUnseen(p) ==
  Unexpired(now[p], cred[p].exp) /\ cred[p].jti \notin DOMAIN expires

\* Neither early return is taken.
Accepts(p) ==
  LET live == Purged(now[p])
      jti  == cred[p].jti
  IN  /\ Unexpired(now[p], cred[p].exp)
      /\ ~(jti \in DOMAIN live /\ Unexpired(now[p], live[jti]))

\* The purged map with the call's own entry stored.
Stored(p) ==
  LET live == Purged(now[p])
  IN  [j \in DOMAIN live \cup {cred[p].jti} |->
         IF j = cred[p].jti THEN cred[p].exp ELSE live[j]]

\* The purge happens on every path, and so does the deferred Unlock.
Decide(p) ==
  /\ pc[p] = "deciding"
  /\ pc' = [pc EXCEPT ![p] = IF Accepts(p) THEN "accepted" ELSE "refused"]
  /\ expires' = IF Accepts(p) THEN Stored(p) ELSE Purged(now[p])
  /\ mu' = mu \ {p}
  /\ UNCHANGED <<clock, cred, now>>

Accept(p) == Lock(p) \/ ReadClock(p) \/ Decide(p)

Next == Tick \/ \E p \in Caller : Call(p) \/ Accept(p)

Spec == Init /\ [][Next]_vars
------------------------------------------------------------------------------
Answered(p) == pc[p] \in {"accepted", "refused"}

\* Type invariant; guard.mu has at most one holder, the caller inside.
TypeOK ==
  /\ clock \in 0 .. Horizon
  /\ cred \in [Caller -> Credential]
  /\ pc \in [Caller -> {"idle", "calling", "locked", "deciding",
                        "accepted", "refused"}]
  /\ mu \in {{}} \cup {{p} : p \in Caller}
  /\ now \in [Caller -> 0 .. Horizon]
  /\ DOMAIN expires \subseteq JwtID
  /\ \A j \in DOMAIN expires : expires[j] \in 0 .. Horizon

\* However calls interleave and wherever the purge falls, the lifetimes of
\* two grants of one identifier never overlap: one was made when the other
\* had expired already (replay.go:22-39).
GrantsNeverOverlap ==
  \A p, q \in Caller :
    (p # q /\ pc[p] = "accepted" /\ pc[q] = "accepted" /\ cred[p].jti = cred[q].jti)
      => \/ now[p] >= cred[q].exp
         \/ now[q] >= cred[p].exp

\* A refusal always has one of the two causes the code names, so a refused
\* call never spoils a later one: the credential had expired, or a grant of
\* the same identifier was live at the instant the clock was read
\* (replay.go:31-36).
RefusedForCause ==
  \A p \in Caller : pc[p] = "refused" =>
    \/ now[p] >= cred[p].exp
    \/ \E q \in Caller : /\ pc[q] = "accepted"
                         /\ cred[q].jti = cred[p].jti
                         /\ now[q] <= now[p]
                         /\ now[p] < cred[q].exp

\* The map does not grow without bound: every entry belongs to a granted
\* credential and outlives the clock reading of every answered call, so
\* expired entries do not survive the next call (replay.go:26-30, 37).
HoldsOnlyLiveGrants ==
  \A j \in DOMAIN expires :
    /\ \E p \in Caller : /\ pc[p] = "accepted"
                         /\ cred[p].jti = j
                         /\ cred[p].exp = expires[j]
    /\ \A p \in Caller : Answered(p) => now[p] < expires[j]

\* The answer a caller gets is settled when it reads the clock, because it
\* holds the lock from there to its return.
Verdict(p) ==
  CASE Answered(p)         -> pc[p]
    [] pc[p] = "deciding"  -> IF Accepts(p) THEN "accepted" ELSE "refused"
    [] OTHER               -> "pending"

Promise == INSTANCE OneUse WITH verdict <- [p \in Caller |-> Verdict(p)]

\* Lock, clock reading, purge and store together behave as one atomic
\* decision made at the clock reading (replay.go:23-38).
ImplementsOneUse == Promise!Spec
==============================================================================
