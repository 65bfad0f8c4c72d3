------------------------------- MODULE OneUse -------------------------------
(***************************************************************************)
(* What the replay guard of agent/routerauth promises, without its lock,   *)
(* its map or its purge: each call of Accept is decided in one instant,    *)
(* and a credential identifier is granted only while no earlier grant of   *)
(* it is still valid.  ReplayGuard implements this specification.          *)
(***************************************************************************)
EXTENDS Naturals

CONSTANTS
  Caller,   \* calls of Accept; each one carries one credential
  JwtID,    \* values of the jti claim
  Horizon   \* bound on the clock and on the expiry times

VARIABLES
  clock,    \* Unix seconds
  cred,     \* the jti and exp each call is made with
  verdict   \* the answer of each call

vars == <<clock, cred, verdict>>

Credential == [jti : JwtID, exp : 0 .. Horizon]

\* Another grant of p's identifier has not expired yet.
Taken(p) ==
  \E q \in Caller : /\ verdict[q] = "accepted"
                    /\ cred[q].jti = cred[p].jti
                    /\ clock < cred[q].exp

Init ==
  /\ clock = 0
  /\ cred \in [Caller -> Credential]
  /\ verdict = [p \in Caller |-> "pending"]

Tick ==
  /\ clock < Horizon
  /\ clock' = clock + 1
  /\ UNCHANGED <<cred, verdict>>

Answer(p) ==
  /\ verdict[p] = "pending"
  /\ verdict' = [verdict EXCEPT ![p] =
                   IF clock < cred[p].exp /\ ~Taken(p) THEN "accepted" ELSE "refused"]
  /\ UNCHANGED <<clock, cred>>

Next == Tick \/ \E p \in Caller : Answer(p)

Spec == Init /\ [][Next]_vars
------------------------------------------------------------------------------
TypeOK ==
  /\ clock \in 0 .. Horizon
  /\ cred \in [Caller -> Credential]
  /\ verdict \in [Caller -> {"pending", "accepted", "refused"}]

\* At no time are two grants of one identifier valid together: a credential
\* is used at most once in its lifetime (replay.go:22-39).
OneLiveGrant ==
  \A p, q \in Caller :
    /\ verdict[p] = "accepted"
    /\ verdict[q] = "accepted"
    /\ cred[p].jti = cred[q].jti
    /\ clock < cred[p].exp
    /\ clock < cred[q].exp
    => p = q
==============================================================================
