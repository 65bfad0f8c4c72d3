----------------------------- MODULE HostProofs -----------------------------
(***************************************************************************)
(* Theorems about Host: what Run's return says of the registration, of the *)
(* cause and of the children, and that deregistration comes last.          *)
(***************************************************************************)
EXTENDS Host, SequenceTheorems, TLAPS

Deadline == [stage |-> "shutdown", cause |-> "deadline"]

\* The missed deadline is among the joined errors.
Reported == \E i \in DOMAIN runErr : runErr[i] = Deadline

\* Child c has ended and its result was read, or it was never started.
Ended(c) == Drained(c) \/ (c = "lease" /\ ~registered)

Stopping == {"cancel", "shutdown", "drain server", "drain lease", "deregister"}

\* What the control point says of Run's own state.
Control ==
  /\ pc \in {"start", "select", "classify server", "classify lease"}
       => runErr = <<>> /\ ~hostCanceled
  /\ pc = "start" => ~registered
  /\ pc \notin {"start", "returned"} => registered = hasRegistration
  /\ deregistrations = IF pc = "returned" /\ registered THEN 1 ELSE 0
  /\ pc \in Stopping \ {"cancel"} => shutdownCtx \in {"armed", "expired"}

\* A child's channel holds at most its result, and a stop flag is set only for
\* a child that is over.
Children ==
  /\ pc = "start" => \A c \in Child : child[c].at = "idle" /\ ~stopped[c]
  /\ ~registered => child["lease"].at = "idle"
  /\ \A c \in Child : Len(channel[c]) <= 1
  /\ \A c \in Child : child[c].at # "done" => channel[c] = <<>>
  /\ \A c \in Child : stopped[c] => Ended(c)
  /\ pc = "classify server" => Drained("server")
  /\ pc = "classify lease" => Drained("lease")

\* A drain is left with the child's result or with the deadline's error.
Waited ==
  /\ pc \in {"drain lease", "deregister"} =>
       Ended("server") \/ (shutdownCtx = "expired" /\ Reported)
  /\ pc = "deregister" => Ended("lease") \/ (shutdownCtx = "expired" /\ Reported)
  /\ pc = "returned" => Reported \/ \A c \in Child : ~Running(c)

\* The first error is that of the component which stopped the host.
Blamed ==
  /\ runErr # <<>>
  /\ \/ StageOf(runErr) = "config" /\ ~registered /\ ~Running("server")
     \/ StageOf(runErr) = "serve" /\ Drained("server")
     \/ StageOf(runErr) = "registration" /\ (registered => Drained("lease"))

Named == pc \in Stopping \cup {"returned"} /\ ~parentDone => Blamed

IInv == TypeOK /\ Control /\ Children /\ Waited /\ Named
------------------------------------------------------------------------------
(* Facts about the errors and the channels.                                *)

LEMMA EmptyLength == Len(<<>>) <= 1
<1>1. <<>> \in Seq(Result) /\ Len(<<>>) = 0
  BY EmptySeq
<1>2. 0 <= 1
  OBVIOUS
<1> QED BY ONLY <1>1, <1>2, Zenon

\* Receiving from a channel of capacity one empties it.
LEMMA Receive ==
  ASSUME NEW s \in Seq(Result), Len(s) <= 1, s # <<>>
  PROVE  Head(s) \in Result /\ Tail(s) = <<>>
<1>0. Len(s) \in Nat \ {0}
  BY EmptySeq
<1>1. Len(s) = 1
  BY <1>0
<1>2. Head(s) \in Result /\ Tail(s) \in Seq(Result) /\ Len(Tail(s)) = 0
  BY <1>1, HeadTailProperties
<1>3. Tail(s) = <<>>
  BY <1>2, EmptySeq
<1> QED BY <1>2, <1>3

\* Sending to an empty channel leaves one result in it.
LEMMA Send ==
  ASSUME NEW s \in Seq(Result), NEW r \in Result, Len(s) < ChannelCapacity
  PROVE  Append(s, r) \in Seq(Result) /\ Len(Append(s, r)) <= 1
<1>1. Len(s) = 0
  BY LenProperties DEF ChannelCapacity
<1> QED BY <1>1, AppendProperties

\* Joining an error keeps those before it, the first one above all.
LEMMA Joining ==
  ASSUME runErr \in Seq(Staged), NEW stage \in Stage, NEW cause \in Cause
  PROVE  /\ Joined(stage, cause) \in Seq(Staged)
         /\ Joined(stage, cause) # <<>>
         /\ runErr = <<>> => StageOf(Joined(stage, cause)) = stage
         /\ runErr # <<>> => StageOf(Joined(stage, cause)) = StageOf(runErr)
         /\ Reported => \E i \in DOMAIN Joined(stage, cause) : Joined(stage, cause)[i] = Deadline
         /\ [stage |-> stage, cause |-> cause] = Deadline
              => \E i \in DOMAIN Joined(stage, cause) : Joined(stage, cause)[i] = Deadline
<1> DEFINE e == [stage |-> stage, cause |-> cause]
<1>1. e \in Staged
  BY DEF Staged
<1> HIDE DEF e
<1>2. /\ Append(runErr, e) \in Seq(Staged)
      /\ Append(runErr, e) # <<>>
      /\ Len(Append(runErr, e)) = Len(runErr) + 1
      /\ \A i \in 1 .. Len(runErr) : Append(runErr, e)[i] = runErr[i]
      /\ Append(runErr, e)[Len(runErr) + 1] = e
  BY <1>1, AppendProperties
<1>3. /\ Len(runErr) \in Nat
      /\ DOMAIN runErr = 1 .. Len(runErr)
      /\ DOMAIN Append(runErr, e) = 1 .. Len(runErr) + 1
  BY <1>2, LenProperties
<1>4. Head(Append(runErr, e)) = Append(runErr, e)[1]
  BY <1>2
<1>5. runErr # <<>> => Len(runErr) >= 1 /\ Head(runErr) = runErr[1]
  BY <1>3, EmptySeq
<1>6. runErr = <<>> => Head(Append(runErr, e)) = e
  BY <1>2, <1>4
<1>7. runErr # <<>> => Head(Append(runErr, e)) = Head(runErr)
  BY <1>2, <1>3, <1>4, <1>5
<1>8. Len(runErr) + 1 \in 1 .. Len(runErr) + 1 /\ DOMAIN runErr \subseteq 1 .. Len(runErr) + 1
  BY <1>3
<1>9. Joined(stage, cause) = Append(runErr, e) /\ e.stage = stage
  BY DEF Joined, e
<1> QED BY <1>2, <1>3, <1>6, <1>7, <1>8, <1>9 DEF Reported, StageOf, e
------------------------------------------------------------------------------
(* The inductive invariant, one lemma per conjunct.                        *)

LEMMA Typing ==
  ASSUME TypeOK, Children, Next
  PROVE  TypeOK'
<1> USE DEF TypeOK
<1>1. CASE Start
  <2>1. Joined("config", "factory") \in Seq(Staged) /\ Joined("registration", "register") \in Seq(Staged)
    BY Joining DEF Stage, Cause
  <2>2. child' \in [Child -> Goroutine]
    <3>1. \A c \in Child : [child[c] EXCEPT !.at = "running"] \in Goroutine
      BY DEF Goroutine
    <3> QED BY <1>1, <3>1 DEF Start, children
  <2>3. stopped' \in [Child -> BOOLEAN]
    BY <1>1 DEF Start
  <2> QED BY <1>1, <2>1, <2>2, <2>3 DEF Start, Return, config, children, ControlPoint
<1>2. CASE SelectContext
  BY <1>2 DEF SelectContext, config, children, locals, ControlPoint
<1>3. ASSUME NEW c \in Child, SelectChild(c)
      PROVE  TypeOK'
  <2>1. Head(channel[c]) \in Result /\ Tail(channel[c]) = <<>>
    BY <1>3, Receive DEF SelectChild, Children
  <2>2. channel' \in [Child -> Seq(Result)]
    BY <1>3, <2>1, EmptySeq DEF SelectChild
  <2> QED BY <1>3, <2>1, <2>2 DEF SelectChild, config, ControlPoint
<1>4. CASE Classify
  <2>1. \A stage \in Stage, cause \in Cause : Joined(stage, cause) \in Seq(Staged)
    BY Joining
  <2> QED BY <1>4, <2>1 DEF Classify, config, children, locals, ControlPoint, Stage, Cause
<1>5. CASE BeginShutdown
  BY <1>5 DEF BeginShutdown, config, children, locals, ControlPoint
<1>6. CASE ShutdownReturn
  <2>1. \A stage \in Stage, cause \in Cause : Joined(stage, cause) \in Seq(Staged)
    BY Joining
  <2> QED BY <1>6, <2>1 DEF ShutdownReturn, config, children, locals, ControlPoint, Stage, Cause
<1>7. ASSUME NEW c \in Child, NEW failures, NEW stage \in Stage, Drain(c, failures, stage)
      PROVE  channel' \in [Child -> Seq(Result)] /\ runErr' \in Seq(Staged)
  <2>1. channel[c] # <<>> => Tail(channel[c]) = <<>>
    BY Receive DEF Children
  <2>2. Joined(stage, "failed") \in Seq(Staged) /\ Joined("shutdown", "deadline") \in Seq(Staged)
    BY Joining DEF Stage, Cause
  <2> QED BY <1>7, <2>1, <2>2, EmptySeq DEF Drain, GivenUp
<1>8. CASE DrainServer
  BY <1>7, <1>8 DEF DrainServer, config, locals, ControlPoint, Child, Stage
<1>9. CASE DrainLease
  BY <1>7, <1>9 DEF DrainLease, config, locals, ControlPoint, Child, Stage
<1>10. CASE Deregister
  <2>1. Joined("shutdown", "deregister") \in Seq(Staged)
    BY Joining DEF Stage, Cause
  <2>2. deregistrations' \in Nat
    BY <1>10 DEF Deregister
  <2> QED BY <1>10, <2>1, <2>2 DEF Deregister, Return, config, children, ControlPoint
<1>11. ASSUME NEW c \in Child, ChildReturn(c)
       PROVE  TypeOK'
  BY <1>11 DEF ChildReturn, config, locals, Goroutine
<1>12. ASSUME NEW c \in Child, ChildSend(c)
       PROVE  TypeOK'
  <2>1. child[c].err \in Result
    BY DEF Goroutine
  <2>2. Append(channel[c], child[c].err) \in Seq(Result)
    BY <1>12, <2>1, Send DEF ChildSend
  <2>3. channel' \in [Child -> Seq(Result)]
    BY <1>12, <2>2 DEF ChildSend
  <2> QED BY <1>12, <2>3 DEF ChildSend, config, locals, Goroutine
<1>13. CASE CancelParent
  BY <1>13 DEF CancelParent, children, locals
<1>14. CASE ShutdownDeadline
  BY <1>14 DEF ShutdownDeadline, config, children, locals
<1> QED
  BY <1>1, <1>2, <1>3, <1>4, <1>5, <1>6, <1>8, <1>9, <1>10, <1>11, <1>12, <1>13, <1>14 DEF Next, Run

LEMMA Controlling ==
  ASSUME TypeOK, Control, Next
  PROVE  Control'
<1> USE DEF TypeOK, Control, Stopping
<1>1. CASE Start
  <2>1. /\ pc = "start" /\ pc' \in {"select", "returned"}
        /\ UNCHANGED <<hasRegistration, deregistrations>>
    BY <1>1 DEF Start, Return, config
  <2>2. pc' = "returned" => ~registered'
    BY <1>1 DEF Start, Return
  <2>3. pc' = "select" => UNCHANGED <<runErr, hostCanceled>> /\ registered' = hasRegistration
    BY <1>1 DEF Start, Return
  <2>4. deregistrations' = 0
    BY <2>1
  <2>5. CASE pc' = "returned"
    BY <2>2, <2>4, <2>5
  <2>6. CASE pc' = "select"
    BY <2>1, <2>3, <2>4, <2>6
  <2> QED BY <2>1, <2>5, <2>6
<1>2. CASE SelectContext
  BY <1>2 DEF SelectContext, config, children, locals
<1>3. ASSUME NEW c \in Child, SelectChild(c)
      PROVE  Control'
  BY <1>3 DEF SelectChild, config
<1>4. CASE Classify
  BY <1>4 DEF Classify, config, children, locals
<1>5. CASE BeginShutdown
  BY <1>5 DEF BeginShutdown, config, children, locals
<1>6. CASE ShutdownReturn
  BY <1>6 DEF ShutdownReturn, config, children, locals
<1>7. CASE DrainServer
  BY <1>7 DEF DrainServer, config, locals
<1>8. CASE DrainLease
  BY <1>8 DEF DrainLease, config, locals
<1>9. CASE Deregister
  <2>1. pc = "deregister" /\ pc' = "returned" /\ UNCHANGED <<hasRegistration, registered>>
    BY <1>9 DEF Deregister, Return, config
  <2>2. deregistrations = 0 /\ registered = hasRegistration
    BY <2>1
  <2>3. deregistrations' = IF hasRegistration THEN 1 ELSE 0
    BY <1>9, <2>2 DEF Deregister, Deregisters
  <2> QED BY <2>1, <2>2, <2>3
<1>10. ASSUME NEW c \in Child, ChildReturn(c) \/ ChildSend(c)
       PROVE  Control'
  <2>1. UNCHANGED <<hasRegistration, registered, deregistrations, pc, hostCanceled,
                    shutdownCtx, runErr>>
    BY <1>10 DEF ChildReturn, ChildSend, config, locals
  <2> QED BY <2>1
<1>11. CASE CancelParent
  BY <1>11 DEF CancelParent, children, locals
<1>12. CASE ShutdownDeadline
  BY <1>12 DEF ShutdownDeadline, config, children, locals
<1> QED
  BY <1>1, <1>2, <1>3, <1>4, <1>5, <1>6, <1>7, <1>8, <1>9, <1>10, <1>11, <1>12 DEF Next, Run

LEMMA ChildrenKept ==
  ASSUME TypeOK, Control, Children, Next
  PROVE  Children'
<1> USE DEF TypeOK, Children, Ended, Drained, Child
<1>1. CASE Start
  <2>1. /\ pc = "start" /\ pc' \in {"select", "returned"}
        /\ UNCHANGED channel
        /\ \A c \in Child : child[c].at = "idle" /\ ~stopped[c] /\ channel[c] = <<>>
    BY <1>1 DEF Start, Return, children
  <2>2. CASE pc' = "returned"
    BY <1>1, <2>1, <2>2 DEF Start, Return, children
  <2>3. CASE pc' = "select"
    <3>1. /\ child'["server"].at = "running" /\ ~stopped'["server"]
          /\ child'["lease"].at = IF registered' THEN "running" ELSE "idle"
          /\ stopped'["lease"] => ~registered'
      BY <1>1, <2>1, <2>3 DEF Start, Return, Goroutine
    <3> QED BY <2>1, <2>3, <3>1, EmptySeq
  <2> QED BY <2>1, <2>2, <2>3
<1>2. CASE SelectContext
  BY <1>2 DEF SelectContext, config, children, locals
<1>3. ASSUME NEW c \in Child, SelectChild(c)
      PROVE  Children'
  <2>1. Tail(channel[c]) = <<>>
    BY <1>3, Receive DEF SelectChild
  <2>2. child[c].at = "done"
    BY <1>3 DEF SelectChild
  <2>3. /\ channel'[c] = <<>> /\ child' = child /\ registered' = registered
        /\ \A d \in Child \ {c} : channel'[d] = channel[d] /\ stopped'[d] = stopped[d]
    BY <1>3, <2>1 DEF SelectChild
  <2>4. pc' = IF c = "server" THEN "classify server" ELSE "classify lease"
    BY <1>3 DEF SelectChild
  <2>5. \A d \in Child : /\ Len(channel'[d]) <= 1
                         /\ child'[d].at # "done" => channel'[d] = <<>>
                         /\ stopped'[d] => \/ child'[d].at = "done" /\ channel'[d] = <<>>
                                           \/ d = "lease" /\ ~registered'
    BY <2>2, <2>3, EmptyLength
  <2>6. Drained(c)'
    BY <2>2, <2>3
  <2> QED BY <2>3, <2>4, <2>5, <2>6
<1>4. CASE Classify
  BY <1>4 DEF Classify, config, children, locals
<1>5. CASE BeginShutdown
  BY <1>5 DEF BeginShutdown, config, children, locals
<1>6. CASE ShutdownReturn
  BY <1>6 DEF ShutdownReturn, config, children, locals
<1>7. ASSUME NEW c \in Child, NEW failures, NEW stage, Drain(c, failures, stage),
             pc' \notin {"start", "classify server", "classify lease"},
             UNCHANGED <<child, registered, stopped>>
      PROVE  Children'
  <2>1. channel[c] # <<>> => Tail(channel[c]) = <<>> /\ child[c].at = "done"
    BY Receive
  <2>2. /\ channel'[c] = channel[c] \/ (channel'[c] = <<>> /\ child[c].at = "done")
        /\ \A d \in Child \ {c} : channel'[d] = channel[d]
    BY <1>7, <2>1 DEF Drain
  <2>3. \A d \in Child : /\ Len(channel'[d]) <= 1
                         /\ child'[d].at # "done" => channel'[d] = <<>>
                         /\ stopped'[d] => \/ child'[d].at = "done" /\ channel'[d] = <<>>
                                           \/ d = "lease" /\ ~registered'
    BY <1>7, <2>2, EmptyLength
  <2> QED BY <1>7, <2>3
<1>8. CASE DrainServer
  BY <1>7, <1>8 DEF DrainServer, locals
<1>9. CASE DrainLease
  BY <1>7, <1>9 DEF DrainLease, locals
<1>10. CASE Deregister
  BY <1>10 DEF Deregister, Return, config, children
<1>11. ASSUME NEW c \in Child, ChildReturn(c)
       PROVE  Children'
  BY <1>11 DEF ChildReturn, config, locals, Control
<1>12. ASSUME NEW c \in Child, ChildSend(c)
       PROVE  Children'
  <2>1. Len(Append(channel[c], child[c].err)) <= 1
    BY <1>12, Send DEF ChildSend, Goroutine
  <2>2. /\ child[c].at = "sending" /\ child'[c].at = "done" /\ Len(channel'[c]) <= 1
        /\ \A d \in Child \ {c} : channel'[d] = channel[d] /\ child'[d] = child[d]
    BY <1>12, <2>1 DEF ChildSend, Goroutine
  <2>3. UNCHANGED <<registered, stopped, pc>>
    BY <1>12 DEF ChildSend, locals
  <2>4. ~stopped[c]
    BY <2>2
  <2>5. \A d \in Child : /\ Len(channel'[d]) <= 1
                         /\ child'[d].at # "done" => channel'[d] = <<>>
                         /\ stopped'[d] => \/ child'[d].at = "done" /\ channel'[d] = <<>>
                                           \/ d = "lease" /\ ~registered'
    <3> TAKE d \in Child
    <3>1. CASE d = c
      BY <2>2, <2>3, <2>4, <3>1
    <3>2. CASE d # c
      BY <2>2, <2>3, <3>2
    <3> QED BY <3>1, <3>2
  <2> QED BY <2>2, <2>3, <2>5
<1>13. CASE CancelParent
  BY <1>13 DEF CancelParent, children, locals
<1>14. CASE ShutdownDeadline
  BY <1>14 DEF ShutdownDeadline, config, children, locals
<1> QED
  BY <1>1, <1>2, <1>3, <1>4, <1>5, <1>6, <1>8, <1>9, <1>10, <1>11, <1>12, <1>13, <1>14 DEF Next, Run

\* What has ended stays ended, and its result is read once.
LEMMA EndedStays ==
  ASSUME TypeOK, Children, Next, NEW c \in Child, Drained(c)
  PROVE  Drained(c)'
<1> USE DEF TypeOK, Children, Drained
<1>1. CASE Start
  BY <1>1 DEF Start, children
<1>2. CASE SelectContext \/ Classify \/ BeginShutdown \/ ShutdownReturn
  BY <1>2 DEF SelectContext, Classify, BeginShutdown, ShutdownReturn, children
<1>3. ASSUME NEW d \in Child, SelectChild(d)
      PROVE  Drained(c)'
  BY <1>3 DEF SelectChild
<1>4. CASE DrainServer \/ DrainLease
  BY <1>4 DEF DrainServer, DrainLease, Drain
<1>5. CASE Deregister
  BY <1>5 DEF Deregister, children
<1>6. ASSUME NEW d \in Child, ChildReturn(d) \/ ChildSend(d)
      PROVE  Drained(c)'
  BY <1>6 DEF ChildReturn, ChildSend
<1>7. CASE CancelParent \/ ShutdownDeadline
  BY <1>7 DEF CancelParent, ShutdownDeadline, children
<1> QED
  BY <1>1, <1>2, <1>3, <1>4, <1>5, <1>6, <1>7 DEF Next, Run

\* Run returns or goes on from a drain with Ended or with the deadline.
LEMMA DrainEnds ==
  ASSUME TypeOK, Children, NEW c \in Child, NEW failures, NEW stage \in Stage,
         Drain(c, failures, stage), UNCHANGED <<child, registered, shutdownCtx>>
  PROVE  /\ Ended(c)' \/ (shutdownCtx = "expired" /\ Reported')
         /\ Reported => Reported'
<1> USE DEF TypeOK, Children
<1>1. CASE stopped[c] /\ UNCHANGED <<channel, runErr>>
  BY <1>1 DEF Ended, Drained, Reported
<1>2. CASE /\ channel[c] # <<>>
           /\ channel' = [channel EXCEPT ![c] = Tail(@)]
           /\ runErr' = IF Head(channel[c]) \in failures THEN Joined(stage, "failed") ELSE runErr
  <2>1. Tail(channel[c]) = <<>> /\ child[c].at = "done"
    BY <1>2, Receive
  <2>2. Ended(c)'
    BY <1>2, <2>1 DEF Ended, Drained
  <2>3. Reported => Reported'
    BY <1>2, Joining DEF Reported, Cause
  <2> QED BY <2>2, <2>3
<1>3. CASE GivesUp /\ runErr' = GivenUp
  <2>1. Reported'
    BY <1>3, Joining DEF GivenUp, Reported, Deadline, Stage, Cause
  <2> QED BY <1>3, <2>1 DEF GivesUp
<1> QED BY <1>1, <1>2, <1>3 DEF Drain

LEMMA WaitedKept ==
  ASSUME TypeOK, Control, Children, Waited, Next
  PROVE  Waited'
<1> USE DEF TypeOK, Waited
<1>1. CASE Start
  BY <1>1 DEF Start, Return, children, Children, Running
<1>2. CASE SelectContext \/ Classify \/ BeginShutdown \/ ShutdownReturn
  BY <1>2 DEF SelectContext, Classify, BeginShutdown, ShutdownReturn
<1>3. ASSUME NEW c \in Child, SelectChild(c)
      PROVE  Waited'
  BY <1>3 DEF SelectChild
<1>4. CASE DrainServer
  BY <1>4, DrainEnds DEF DrainServer, locals, Child, Stage
<1>5. CASE DrainLease
  <2>1. Drain("lease", {"failed"}, "registration") /\ UNCHANGED <<child, registered, shutdownCtx>>
    BY <1>5 DEF DrainLease, locals
  <2>2. Ended("lease")' \/ (shutdownCtx = "expired" /\ Reported')
    BY <2>1, DrainEnds DEF Child, Stage
  <2>3. Reported => Reported'
    BY <2>1, DrainEnds DEF Child, Stage
  <2>4. Ended("server") => Ended("server")'
    BY <2>1, EndedStays DEF Ended, Child
  <2>5. pc = "drain lease" /\ pc' = "deregister"
    BY <1>5 DEF DrainLease
  <2> QED BY <2>1, <2>2, <2>3, <2>4, <2>5
<1>6. CASE Deregister
  <2>1. Reported \/ (Ended("server") /\ Ended("lease"))
    BY <1>6 DEF Deregister
  <2>2. Reported => Reported'
    BY <1>6, Joining DEF Deregister, Return, Reported, Stage, Cause
  <2>3. Ended("server") /\ Ended("lease") => \A c \in Child : ~Running(c)
    BY DEF Ended, Drained, Running, Children, Child
  <2> QED BY <1>6, <2>1, <2>2, <2>3 DEF Deregister, Return, children, Running
<1>7. ASSUME NEW c \in Child, ChildReturn(c) \/ ChildSend(c)
      PROVE  Waited'
  <2>1. UNCHANGED <<pc, registered, runErr, shutdownCtx>>
    BY <1>7 DEF ChildReturn, ChildSend, locals
  <2>2. \A d \in Child : Ended(d) => Ended(d)'
    BY <2>1, EndedStays DEF Ended
  <2>3. \A d \in Child : ~Running(d) => ~Running(d)'
    BY <1>7 DEF ChildReturn, ChildSend, Running
  <2>4. Reported' <=> Reported
    BY <2>1 DEF Reported
  <2> QED BY <2>1, <2>2, <2>3, <2>4 DEF Child
<1>8. CASE CancelParent \/ ShutdownDeadline
  <2>1. UNCHANGED <<pc, child, channel, registered, runErr>>
    BY <1>8 DEF CancelParent, ShutdownDeadline, children, locals
  <2>2. shutdownCtx = "expired" => shutdownCtx' = "expired"
    BY <1>8 DEF CancelParent, ShutdownDeadline
  <2>3. \A c \in Child : (Ended(c)' <=> Ended(c)) /\ (Running(c)' <=> Running(c))
    BY <2>1 DEF Ended, Drained, Running
  <2>4. Reported' <=> Reported
    BY <2>1 DEF Reported
  <2> QED BY <2>1, <2>2, <2>3, <2>4 DEF Child
<1> QED
  BY <1>1, <1>2, <1>3, <1>4, <1>5, <1>6, <1>7, <1>8 DEF Next, Run

\* A step after the first select that at most joins an error keeps the blame.
LEMMA BlameKept ==
  ASSUME TypeOK, Children, Next, Blamed, UNCHANGED registered,
         ~Running("server") => ~Running("server")',
         \/ runErr' = runErr
         \/ \E stage \in Stage, cause \in Cause : runErr' = Joined(stage, cause)
  PROVE  Blamed'
<1>1. runErr' # <<>> /\ StageOf(runErr') = StageOf(runErr)
  BY Joining DEF Blamed, TypeOK
<1>2. StageOf(runErr)' = StageOf(runErr)
  BY <1>1 DEF StageOf
<1>3. \A c \in Child : Drained(c) => Drained(c)'
  BY EndedStays
<1> QED BY <1>1, <1>2, <1>3 DEF Blamed, Child

LEMMA NamedKept ==
  ASSUME TypeOK, Control, Children, Named, Next
  PROVE  Named'
<1> USE DEF Named, Stopping
<1>1. CASE Start
  <2>1. CASE pc' = "returned"
    <3>1. /\ ~registered' /\ ~Running("server")'
          /\ \/ runErr' = Joined("config", "factory")
             \/ runErr' = Joined("registration", "register")
      BY <1>1, <2>1 DEF Start, Return, Control, Children, Running, children, Child
    <3>2. runErr' # <<>> /\ StageOf(runErr') \in {"config", "registration"}
      <4>1. runErr = <<>> /\ runErr \in Seq(Staged)
        BY <1>1 DEF Start, Control, TypeOK
      <4> QED BY <3>1, <4>1, Joining DEF Stage, Cause
    <3> QED BY <3>1, <3>2 DEF Blamed, StageOf
  <2> QED BY <1>1, <2>1 DEF Start, Return
<1>2. CASE SelectContext
  BY <1>2 DEF SelectContext, ContextDone, Control, config
<1>3. ASSUME NEW c \in Child, SelectChild(c)
      PROVE  Named'
  BY <1>3 DEF SelectChild
<1>4. CASE Classify
  <2>1. SUFFICES ASSUME ~parentDone PROVE Blamed'
    BY <1>4, <2>1 DEF Classify, config
  <2>2. ~ContextDone /\ runErr = <<>>
    BY <1>4, <2>1 DEF Classify, ContextDone, Control
  <2>3. PICK stage \in Stage, cause \in Cause :
          /\ runErr' = Joined(stage, cause)
          /\ stage = IF pc = "classify server" THEN "serve" ELSE "registration"
    BY <1>4, <2>2 DEF Classify, Stage, Cause
  <2>4. runErr' # <<>> /\ StageOf(runErr') = stage
    BY <2>2, <2>3, Joining DEF TypeOK
  <2>5. UNCHANGED <<child, channel, registered>>
    BY <1>4 DEF Classify, children, locals
  <2>6. IF pc = "classify server" THEN Drained("server") ELSE Drained("lease")
    BY <1>4 DEF Classify, Children
  <2> QED BY <2>3, <2>4, <2>5, <2>6 DEF Blamed, StageOf, Drained
<1>5. CASE BeginShutdown \/ ShutdownReturn
  BY <1>5, BlameKept
  DEF BeginShutdown, ShutdownReturn, config, children, locals, Running, Stage, Cause
<1>6. CASE DrainServer \/ DrainLease
  <2>1. /\ UNCHANGED <<registered, parentDone, child>>
        /\ \/ runErr' = runErr
           \/ \E stage \in Stage, cause \in Cause : runErr' = Joined(stage, cause)
    BY <1>6 DEF DrainServer, DrainLease, Drain, GivenUp, config, locals, Stage, Cause
  <2> QED BY <1>6, <2>1, BlameKept DEF DrainServer, DrainLease, Running
<1>7. CASE Deregister
  BY <1>7, BlameKept DEF Deregister, Return, config, children, Running, Stage, Cause
<1>8. ASSUME NEW c \in Child, ChildReturn(c) \/ ChildSend(c)
      PROVE  Named'
  <2>1. UNCHANGED <<pc, parentDone, registered, runErr>>
    BY <1>8 DEF ChildReturn, ChildSend, config, locals
  <2>2. ~Running("server") => ~Running("server")'
    <3>1. ~Running("server") => c # "server"
      BY <1>8 DEF ChildReturn, ChildSend, Running
    <3>2. c # "server" => child'["server"] = child["server"]
      BY <1>8 DEF ChildReturn, ChildSend, TypeOK, Child
    <3> QED BY <3>1, <3>2 DEF Running
  <2> QED BY <2>1, <2>2, BlameKept
<1>9. CASE CancelParent
  BY <1>9 DEF CancelParent
<1>10. CASE ShutdownDeadline
  BY <1>10, BlameKept DEF ShutdownDeadline, config, children, locals, Running
<1> QED
  BY <1>1, <1>2, <1>3, <1>4, <1>5, <1>6, <1>7, <1>8, <1>9, <1>10 DEF Next, Run

LEMMA Inductive == Spec => []IInv
<1>1. Init => IInv
  <2> SUFFICES ASSUME Init PROVE IInv
    OBVIOUS
  <2>1. TypeOK
    BY EmptySeq DEF Init, TypeOK, ControlPoint, Goroutine, Result
  <2>2. Children
    BY EmptyLength DEF Init, Children, Child
  <2> QED BY <2>1, <2>2 DEF Init, IInv, Control, Waited, Named, Stopping
<1>2. IInv /\ [Next]_vars => IInv'
  <2> SUFFICES ASSUME IInv, [Next]_vars PROVE IInv'
    OBVIOUS
  <2>1. CASE Next
    BY <2>1, Typing, Controlling, ChildrenKept, WaitedKept, NamedKept DEF IInv
  <2>2. CASE UNCHANGED vars
    <3>1. UNCHANGED <<hasRegistration, pc, parentDone, hostCanceled, registered, child, channel,
                      stopped, held, shutdownCtx, deregistrations, runErr>>
      BY <2>2 DEF vars, config, children, locals
    <3>2. TypeOK' /\ Control' /\ Children'
      BY <3>1 DEF IInv, TypeOK, Control, Children, Ended, Drained
    <3>3. Waited' /\ Named'
      BY <3>1 DEF IInv, Waited, Named, Blamed, StageOf, Reported, Ended, Drained, Running
    <3> QED BY <3>2, <3>3 DEF IInv
  <2> QED BY <2>1, <2>2
<1> QED BY <1>1, <1>2, PTL DEF Spec
------------------------------------------------------------------------------
\* The lifecycle's state keeps its type (host.go:70-163).
THEOREM TypeCorrect == Spec => []TypeOK
<1>1. IInv => TypeOK
  BY DEF IInv
<1> QED BY <1>1, Inductive, PTL

\* On every path a published registration is deregistered once, and only a
\* published one (host.go:87-91, 157-161).
THEOREM DeregistersOnce == Spec => []DeregisteredExactlyIfRegistered
<1>1. IInv => DeregisteredExactlyIfRegistered
  BY DEF IInv, Control, DeregisteredExactlyIfRegistered
<1> QED BY <1>1, Inductive, PTL

\* Without a cancellation Run returns an error whose stage is that of the
\* component that stopped the host (host.go:107-135).
THEOREM NamesCause == Spec => []UncancelledReturnNamesCause
<1>1. IInv => UncancelledReturnNamesCause
  BY DEF IInv, Named, Blamed, UncancelledReturnNamesCause
<1> QED BY <1>1, Inductive, PTL

\* A child goroutine that outlives Run is reported (host.go:137-156).
THEOREM ReportsAbandoned == Spec => []AbandonedChildIsReported
<1>1. IInv => AbandonedChildIsReported
  BY DEF IInv, Waited, Reported, Deadline, AbandonedChildIsReported
<1> QED BY <1>1, Inductive, PTL

\* Deregister comes after Shutdown and both drains (host.go:133-161).
THEOREM DrainsFirst == Spec => DeregisterAfterDrain
<1>1. IInv /\ [Next]_vars
        => [deregistrations' # deregistrations =>
              \/ shutdownCtx = "expired"
              \/ shutdownCtx = "armed" /\ \A c \in Child : Drained(c)]_vars
  <2> SUFFICES ASSUME IInv, Next, deregistrations' # deregistrations
               PROVE  \/ shutdownCtx = "expired"
                      \/ shutdownCtx = "armed" /\ \A c \in Child : Drained(c)
    OBVIOUS
  <2>1. Deregister
    BY DEF Next, Run, Start, SelectContext, SelectChild, Classify, BeginShutdown, ShutdownReturn,
           DrainServer, DrainLease, ChildReturn, ChildSend, CancelParent, ShutdownDeadline, locals
  <2>2. pc = "deregister" /\ hasRegistration
    BY <2>1 DEF Deregister, Deregisters, IInv, TypeOK
  <2>3. registered /\ shutdownCtx \in {"armed", "expired"}
    BY <2>2 DEF IInv, Control, Stopping
  <2>4. shutdownCtx = "expired" \/ (Ended("server") /\ Ended("lease"))
    BY <2>2 DEF IInv, Waited
  <2> QED BY <2>3, <2>4 DEF Ended, Child
<1> QED BY <1>1, Inductive, PTL DEF Spec, DeregisterAfterDrain
==============================================================================
