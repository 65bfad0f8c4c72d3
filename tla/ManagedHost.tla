----------------------------- MODULE ManagedHost -----------------------------
(***************************************************************************)
(* A process that comes up as AgentStartup says and then is in Host.Run of *)
(* agent/host with the two parts its package is made for: the default      *)
(* net/http server and the Registration of agent/registration/nacos.       *)
(* Every step of Run is one of Host's; what Host leaves open, when the     *)
(* children return and what Deregister achieves, is settled here by the    *)
(* server's shutdown and by the lease.                                     *)
(***************************************************************************)
EXTENDS AgentStartup

VARIABLES
  hasRegistration, pc, parentDone, hostCanceled, registered, child, channel,
  stopped, held, shutdownCtx, deregistrations, runErr,  \* see Host
  lease   \* of the registration: "none", "active", "lost" or "closed"

H == INSTANCE Host

hostVars == <<hasRegistration, pc, parentDone, hostCanceled, registered, child,
              channel, stopped, held, shutdownCtx, deregistrations, runErr>>
vars == <<startup, hostVars, lease>>

\* There is a registration in mode nacos, and none in mode disabled.
Init ==
  /\ StartupInit
  /\ H!Init /\ hasRegistration = (deployment.env.mode = "nacos")
  /\ lease = "none"

ComeUp == StartupNext /\ UNCHANGED <<hostVars, lease>>

\* Registration.Register stores the lease that the registrar returned.
Start ==
  /\ Leave
  /\ H!Start
  /\ lease' = IF registered' THEN "active" ELSE "none"

\* The heartbeat fails for good.
LoseLease ==
  /\ lease = "active"
  /\ lease' = "lost"
  /\ UNCHANGED hostVars

\* ListenAndServe fails, or Shutdown was called and it is http.ErrServerClosed.
ServerReturn ==
  /\ H!ChildReturn("server")
  /\ child'["server"].err = "nil" => shutdownCtx # "none"
  /\ UNCHANGED lease

\* Mutant: Run waits for its context only.
LeaseIgnored == FALSE

\* lease.Done() is closed.
LeaseDone == lease \in {"lost", "closed"}

\* The select of Registration.Run takes either ready case.
Observe ==
  /\ H!ChildReturn("lease")
  /\ \/ child'["lease"].err = "nil" /\ H!ContextDone
     \/ child'["lease"].err = "failed" /\ LeaseDone
  /\ UNCHANGED lease

\* Registration.Deregister; a Close that fails may leave the lease active.
Deregister ==
  /\ H!Deregister
  /\ LET ended == IF lease = "active" THEN "closed" ELSE lease
     IN  IF deregistrations' = deregistrations THEN UNCHANGED lease
         ELSE lease' \in {ended} \cup IF runErr' = runErr THEN {} ELSE {lease}

\* The steps that neither start nor end a lease.
Unleased ==
  /\ \/ H!SelectContext \/ \E c \in H!Child : H!SelectChild(c)
     \/ H!Classify \/ H!BeginShutdown \/ H!ShutdownReturn
     \/ H!DrainServer \/ H!DrainLease
  /\ UNCHANGED lease

Run == Start \/ ((Unleased \/ Deregister) /\ UNCHANGED startup)

Send(c) == H!ChildSend(c) /\ UNCHANGED <<lease, startup>>

Cancel   == H!CancelParent /\ UNCHANGED <<lease, startup>>
Deadline == H!ShutdownDeadline /\ UNCHANGED <<lease, startup>>

Next ==
  \/ ComeUp
  \/ Run \/ (\E c \in H!Child : Send(c))
  \/ ((ServerReturn \/ Observe \/ LoseLease) /\ UNCHANGED startup)
  \/ Cancel \/ Deadline

Spec == Init /\ [][Next]_vars

\* Host's fairness, and that of Registration.Run, whose select has a ready
\* case.  Nothing is assumed of the server's requests: its Shutdown may last
\* until the deadline.
FairSpec ==
  /\ Spec
  /\ WF_vars(pc # "shutdown" /\ Run)
  /\ WF_vars(shutdownCtx = "expired" /\ H!ShutdownReturn /\ UNCHANGED <<lease, startup>>)
  /\ WF_vars(Deadline)
  /\ WF_vars(Observe /\ UNCHANGED startup)
  /\ \A c \in H!Child : WF_vars(Send(c))
------------------------------------------------------------------------------
\* A nil from Run means that the caller stopped the host and that everything
\* is over: neither child runs, both results were read and the lease is not
\* active (host.go:107-163, registration.go:100-136).
CleanReturnIsComplete ==
  (pc = "returned" /\ runErr = <<>>) =>
    /\ parentDone
    /\ \A c \in H!Child : ~H!Running(c) /\ channel[c] = <<>>
    /\ lease # "active"

\* Whatever failed before, a lease that is still active when Run returns was
\* tried to be closed, and that failure is the last of the joined errors
\* (host.go:157-161, registration.go:124-136).
ActiveLeaseIsReported ==
  (pc = "returned" /\ lease = "active") =>
    /\ runErr # <<>>
    /\ runErr[Len(runErr)] = [stage |-> "shutdown", cause |-> "deregister"]

\* A host that loses its lease does not serve on: Run returns (host.go:110-128,
\* registration.go:110-119).
LostLeaseStopsHost == (lease = "lost") ~> (pc = "returned")
==============================================================================
