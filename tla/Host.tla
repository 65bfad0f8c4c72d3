-------------------------------- MODULE Host --------------------------------
(***************************************************************************)
(* Host.Run of agent/host/host.go: the lifecycle of one managed Runtime    *)
(* process.  Three goroutines share it: the one in Run (pc), one around    *)
(* server.ListenAndServe and one around Registration.Run.  The two last    *)
(* have the same shape, so they are one function over Child.  The caller's *)
(* context, the signals and the shutdown deadline are the environment.     *)
(***************************************************************************)
EXTENDS Integers, Sequences

VARIABLES
  hasRegistration,  \* config.Registration # nil
  pc,               \* control point of the goroutine in Run
  parentDone,       \* the caller's context ended or a signal arrived
  hostCanceled,     \* Run called cancel()
  registered,       \* Registration.Register returned nil
  child,            \* the two goroutines Run starts
  channel,          \* serverErrors and registrationErrors
  stopped,          \* serverStopped and registrationStopped
  held,             \* the value the first select received
  shutdownCtx,      \* the context that carries ShutdownTimeout
  deregistrations,  \* number of calls of Registration.Deregister
  runErr            \* staged errors in the order errors.Join holds them

config   == <<hasRegistration, parentDone>>
children == <<child, channel>>
locals   == <<registered, stopped, held, deregistrations>>
vars     == <<config, children, locals, pc, hostCanceled, shutdownCtx, runErr>>

Child  == {"server", "lease"}
Result == {"nil", "canceled", "failed"}       \* what a child's call returns
Stage  == {"config", "registration", "serve", "shutdown"}
Cause  == {"factory", "register", "stopped early", "failed", "deadline",
           "deregister"}
Staged == [stage : Stage, cause : Cause]
Goroutine == [at : {"idle", "running", "sending", "done"}, err : Result]

\* Mutant: unbuffered channels.
Unbuffered == 0

\* make(chan error, 1), twice.
ChannelCapacity == 1

\* runContext.Err() # nil
ContextDone == parentDone \/ hostCanceled

\* Mutant: the new error comes first.
JoinedFirst(stage, cause) == <<[stage |-> stage, cause |-> cause]>> \o runErr

\* errors.Join(runErr, Wrap(stage, ..., err)) for an err that is not nil.
Joined(stage, cause) == Append(runErr, [stage |-> stage, cause |-> cause])

\* errors.As finds the first joined error first.
StageOf(errs) == Head(errs).stage

Running(c) == child[c].at \in {"running", "sending"}
Drained(c) == child[c].at = "done" /\ channel[c] = <<>>
------------------------------------------------------------------------------
Init ==
  /\ hasRegistration \in BOOLEAN
  /\ parentDone \in BOOLEAN
  /\ pc = "start"
  /\ hostCanceled = FALSE
  /\ registered = FALSE
  /\ child = [c \in Child |-> [at |-> "idle", err |-> "nil"]]
  /\ channel = [c \in Child |-> <<>>]
  /\ stopped = [c \in Child |-> FALSE]
  /\ held = "nil"
  /\ shutdownCtx = "none"
  /\ deregistrations = 0
  /\ runErr = <<>>

\* The caller cancels, its deadline passes, or a configured signal arrives.
CancelParent ==
  /\ ~parentDone
  /\ parentDone' = TRUE
  /\ UNCHANGED <<hasRegistration, children, locals, pc, hostCanceled,
                 shutdownCtx, runErr>>

\* ShutdownTimeout elapses.
ShutdownDeadline ==
  /\ shutdownCtx = "armed"
  /\ shutdownCtx' = "expired"
  /\ UNCHANGED <<config, children, locals, pc, hostCanceled, runErr>>

(* ---------------------------- child goroutines -------------------------- *)

\* ListenAndServe (whose http.ErrServerClosed has become nil) or
\* Registration.Run returns.  Either may do so at any time, or never; only an
\* ended context makes the observer return context.Canceled.
ChildReturn(c) ==
  /\ child[c].at = "running"
  /\ \E r \in Result :
       /\ r = "canceled" => c = "lease" /\ ContextDone
       /\ child' = [child EXCEPT ![c] = [at |-> "sending", err |-> r]]
  /\ UNCHANGED <<config, channel, locals, pc, hostCanceled, shutdownCtx, runErr>>

ChildSend(c) ==
  /\ child[c].at = "sending"
  /\ Len(channel[c]) < ChannelCapacity
  /\ channel' = [channel EXCEPT ![c] = Append(@, child[c].err)]
  /\ child' = [child EXCEPT ![c].at = "done"]
  /\ UNCHANGED <<config, locals, pc, hostCanceled, shutdownCtx, runErr>>

(* ---------------------------- the Run goroutine ------------------------- *)

\* The deferred stop and cancel run with every return.
Return(errs) ==
  /\ pc' = "returned"
  /\ runErr' = errs
  /\ hostCanceled' = TRUE

\* Everything before the first select: create the server, Register, start the
\* goroutines.  A nil server and a failed Register return at once.
Start ==
  /\ pc = "start"
  /\ \/ /\ Return(Joined("config", "factory"))
        /\ UNCHANGED <<children, registered, stopped>>
     \/ /\ hasRegistration
        /\ Return(Joined("registration", "register"))
        /\ UNCHANGED <<children, registered, stopped>>
     \/ /\ pc' = "select"
        /\ registered' = hasRegistration
        /\ stopped' = [stopped EXCEPT !["lease"] = ~hasRegistration]
        /\ child' = [c \in Child |-> IF c = "lease" /\ ~hasRegistration
                                     THEN child[c]
                                     ELSE [child[c] EXCEPT !.at = "running"]]
        /\ UNCHANGED <<channel, hostCanceled, runErr>>
  /\ UNCHANGED <<config, held, deregistrations, shutdownCtx>>

\* case <-runContext.Done()
SelectContext ==
  /\ pc = "select"
  /\ ContextDone
  /\ pc' = "cancel"
  /\ UNCHANGED <<config, children, locals, hostCanceled, shutdownCtx, runErr>>

\* case err := <-serverErrors and case err := <-registrationErrors.  The
\* select takes any ready case.
SelectChild(c) ==
  /\ pc = "select"
  /\ channel[c] # <<>>
  /\ held' = Head(channel[c])
  /\ channel' = [channel EXCEPT ![c] = Tail(@)]
  /\ stopped' = [stopped EXCEPT ![c] = TRUE]
  /\ pc' = IF c = "server" THEN "classify server" ELSE "classify lease"
  /\ UNCHANGED <<config, child, registered, deregistrations, hostCanceled,
                 shutdownCtx, runErr>>

\* The received error, or an early nil, becomes runErr only if runContext has
\* not ended by the time its Err() is read.
Classify ==
  /\ pc \in {"classify server", "classify lease"}
  /\ pc' = "cancel"
  /\ runErr' = IF ContextDone THEN runErr
               ELSE Joined(IF pc = "classify server" THEN "serve" ELSE "registration",
                           IF held = "nil" THEN "stopped early" ELSE "failed")
  /\ UNCHANGED <<config, children, locals, hostCanceled, shutdownCtx>>

\* cancel(), arm the deadline, enter server.Shutdown.
BeginShutdown ==
  /\ pc = "cancel"
  /\ pc' = "shutdown"
  /\ hostCanceled' = TRUE
  /\ shutdownCtx' = "armed"
  /\ UNCHANGED <<config, children, locals, runErr>>

\* server.Shutdown returns nil, a failure of its own, or the deadline's.
ShutdownReturn ==
  /\ pc = "shutdown"
  /\ pc' = "drain server"
  /\ \/ UNCHANGED runErr
     \/ runErr' = Joined("shutdown", "failed")
     \/ shutdownCtx = "expired" /\ runErr' = Joined("shutdown", "deadline")
  /\ UNCHANGED <<config, children, locals, hostCanceled, shutdownCtx>>

\* Mutants: the drain's select has no deadline case; that case joins nothing.
NeverGivesUp == FALSE
JoinsNothing == runErr

\* case <-shutdownContext.Done() of the two drains, and what it joins.
GivesUp == shutdownCtx = "expired"
GivenUp == Joined("shutdown", "deadline")

\* Unless child c was already seen to stop, wait for its result, which is
\* joined under stage when it is in failures, or for the deadline.
Drain(c, failures, stage) ==
  \/ stopped[c] /\ UNCHANGED <<channel, runErr>>
  \/ /\ ~stopped[c]
     /\ channel[c] # <<>>
     /\ channel' = [channel EXCEPT ![c] = Tail(@)]
     /\ runErr' = IF Head(channel[c]) \in failures THEN Joined(stage, "failed")
                  ELSE runErr
  \/ /\ ~stopped[c]
     /\ GivesUp
     /\ runErr' = GivenUp
     /\ UNCHANGED channel

\* Mutant: the lease observer's result is not waited for.
DrainLeaseSkipped ==
  /\ pc = "drain lease"
  /\ pc' = "deregister"
  /\ UNCHANGED <<config, children, locals, hostCanceled, shutdownCtx, runErr>>

\* The server first, then the lease observer, whose context.Canceled is not
\* an error.
DrainServer ==
  /\ pc = "drain server"
  /\ pc' = "drain lease"
  /\ Drain("server", Result \ {"nil"}, "shutdown")
  /\ UNCHANGED <<config, child, locals, hostCanceled, shutdownCtx>>

DrainLease ==
  /\ pc = "drain lease"
  /\ pc' = "deregister"
  /\ Drain("lease", {"failed"}, "registration")
  /\ UNCHANGED <<config, child, locals, hostCanceled, shutdownCtx>>

\* Mutant: an earlier failure skips Deregister.
DeregistersIfClean == hasRegistration /\ runErr = <<>>

Deregisters == hasRegistration

\* Registration.Deregister(shutdownContext), then return runErr.
Deregister ==
  /\ pc = "deregister"
  /\ deregistrations' = deregistrations + (IF Deregisters THEN 1 ELSE 0)
  /\ \/ Return(runErr)
     \/ Deregisters /\ Return(Joined("shutdown", "deregister"))
  /\ UNCHANGED <<config, children, registered, stopped, held, shutdownCtx>>

Run ==
  \/ Start
  \/ SelectContext \/ \E c \in Child : SelectChild(c)
  \/ Classify
  \/ BeginShutdown \/ ShutdownReturn
  \/ DrainServer \/ DrainLease
  \/ Deregister

Next ==
  \/ Run
  \/ \E c \in Child : ChildReturn(c) \/ ChildSend(c)
  \/ CancelParent
  \/ ShutdownDeadline

Spec == Init /\ [][Next]_vars

\* The goroutine in Run is scheduled and Register and Deregister return;
\* Shutdown returns once its context has expired; the timer fires; a send to
\* a channel with room completes.  Nothing is assumed of ListenAndServe or of
\* Registration.Run: either may never return.
Fairness ==
  /\ WF_vars(pc # "shutdown" /\ Run)
  /\ WF_vars(shutdownCtx = "expired" /\ ShutdownReturn)
  /\ WF_vars(ShutdownDeadline)
  /\ \A c \in Child : WF_vars(ChildSend(c))

FairSpec == Spec /\ Fairness
------------------------------------------------------------------------------
ControlPoint ==
  {"start", "select", "classify server", "classify lease", "cancel",
   "shutdown", "drain server", "drain lease", "deregister", "returned"}

\* Type invariant of the lifecycle's state.
TypeOK ==
  /\ hasRegistration \in BOOLEAN
  /\ pc \in ControlPoint
  /\ parentDone \in BOOLEAN
  /\ hostCanceled \in BOOLEAN
  /\ registered \in BOOLEAN
  /\ child \in [Child -> Goroutine]
  /\ channel \in [Child -> Seq(Result)]
  /\ stopped \in [Child -> BOOLEAN]
  /\ held \in Result
  /\ shutdownCtx \in {"none", "armed", "expired"}
  /\ deregistrations \in Nat
  /\ runErr \in Seq(Staged)

\* A registration that was published is deregistered exactly once before Run
\* returns, whatever failed or timed out on the way, and one that was never
\* published is not deregistered (host.go:87-91, 157-161).
DeregisteredExactlyIfRegistered ==
  pc = "returned" => deregistrations = IF registered THEN 1 ELSE 0

\* When the caller never cancelled, Run does not return nil, and StageOf of
\* its error names what stopped the host: the component whose stop was seen
\* first, however many shutdown errors were joined after it (host.go:107-135).
UncancelledReturnNamesCause ==
  (pc = "returned" /\ ~parentDone) =>
    /\ runErr # <<>>
    /\ \/ StageOf(runErr) = "config" /\ ~registered /\ ~Running("server")
       \/ StageOf(runErr) = "serve" /\ Drained("server")
       \/ StageOf(runErr) = "registration" /\ (registered => Drained("lease"))

\* A child goroutine that outlives Run is never hidden behind a clean or an
\* unrelated result: the shutdown deadline is among the joined errors
\* (host.go:137-156).
AbandonedChildIsReported ==
  (pc = "returned" /\ \E c \in Child : Running(c)) =>
    \E i \in DOMAIN runErr :
       runErr[i] = [stage |-> "shutdown", cause |-> "deadline"]

\* Deregister runs after Shutdown was called and after both children's
\* results were consumed, unless the deadline has expired: a lease that is
\* being closed is not still being observed (host.go:133-161).
DeregisterAfterDrain ==
  [][deregistrations' # deregistrations =>
       \/ shutdownCtx = "expired"
       \/ shutdownCtx = "armed" /\ \A c \in Child : Drained(c)]_vars

\* Cancellation, or the end of either child, makes Run return, even when the
\* other child ignores its context and never ends (host.go:131-156).
StopLeadsToReturn ==
  (parentDone \/ \E c \in Child : child[c].at = "sending") ~> (pc = "returned")

\* A child that ends after Run stopped listening still terminates: its send
\* never blocks, so no goroutine leaks (host.go:93-105).
ChildrenNeverBlock ==
  \A c \in Child : (child[c].at = "sending") ~> (child[c].at = "done")

\* "server, lease, and shutdown failures remain staged errors" (host.go:68-69):
\* when the server's goroutine delivered a failure, Run does not return nil.
ServerFailureIsReported ==
  (pc = "returned" /\ child["server"] = [at |-> "done", err |-> "failed"])
    => runErr # <<>>
==============================================================================
