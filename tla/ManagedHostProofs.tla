-------------------------- MODULE ManagedHostProofs --------------------------
(***************************************************************************)
(* Proofs about ManagedHost: that it is a Host, from the theorems about    *)
(* Host what a return says of the lease, and what a process that came up   *)
(* has read, for any deployments, files and rotations.                     *)
(***************************************************************************)
EXTENDS ManagedHost, SequenceTheorems, TLAPS

HP == INSTANCE HostProofs

\* The process starts with Host's initial state, and each of its steps is one
\* of Host's or leaves Host's state alone.
LEMMA StepsOfTheHost ==
  /\ Init => HP!Init
  /\ [Next]_vars => [HP!Next]_(HP!vars)
<1> USE DEF HP!vars, HP!config, HP!children, HP!locals, H!config, H!children, H!locals,
            HP!Child, H!Child, H!Result, HP!Result
<1>1. Init => HP!Init
  BY DEF Init, H!Init, HP!Init
<1>2. StartupNext /\ UNCHANGED hostVars => UNCHANGED HP!vars
  BY DEF hostVars
<1>3. H!Start => HP!Start
  BY DEF H!Start, HP!Start, H!Return, HP!Return, H!Joined, HP!Joined
<1>4. \A c \in H!Child : H!ChildReturn(c) => HP!ChildReturn(c)
  BY DEF H!ChildReturn, HP!ChildReturn, H!ContextDone, HP!ContextDone
<1>5. \A c \in H!Child : H!ChildSend(c) => HP!ChildSend(c)
  BY DEF H!ChildSend, HP!ChildSend, H!ChannelCapacity, HP!ChannelCapacity
<1>6. H!CancelParent => HP!CancelParent
  BY DEF H!CancelParent, HP!CancelParent
<1>7. H!ShutdownDeadline => HP!ShutdownDeadline
  BY DEF H!ShutdownDeadline, HP!ShutdownDeadline
<1>8. H!Deregister => HP!Deregister
  BY DEF H!Deregister, HP!Deregister, H!Return, HP!Return, H!Joined, HP!Joined,
         H!Deregisters, HP!Deregisters
<1>9. Unleased => HP!Run
  <2>1. H!SelectContext => HP!SelectContext
    BY DEF H!SelectContext, HP!SelectContext, H!ContextDone, HP!ContextDone
  <2>2. \A c \in H!Child : H!SelectChild(c) => HP!SelectChild(c)
    BY DEF H!SelectChild, HP!SelectChild
  <2>3. H!Classify => HP!Classify
    BY DEF H!Classify, HP!Classify, H!ContextDone, HP!ContextDone, H!Joined, HP!Joined
  <2>4. H!BeginShutdown => HP!BeginShutdown
    BY DEF H!BeginShutdown, HP!BeginShutdown
  <2>5. H!ShutdownReturn => HP!ShutdownReturn
    BY DEF H!ShutdownReturn, HP!ShutdownReturn, H!Joined, HP!Joined
  <2>6. H!DrainServer => HP!DrainServer
    BY DEF H!DrainServer, HP!DrainServer, H!Drain, HP!Drain, H!GivesUp, HP!GivesUp,
           H!GivenUp, HP!GivenUp, H!Joined, HP!Joined
  <2>7. H!DrainLease => HP!DrainLease
    BY DEF H!DrainLease, HP!DrainLease, H!Drain, HP!Drain, H!GivesUp, HP!GivesUp,
           H!GivenUp, HP!GivenUp, H!Joined, HP!Joined
  <2> QED BY <2>1, <2>2, <2>3, <2>4, <2>5, <2>6, <2>7 DEF Unleased, HP!Run
<1>10. UNCHANGED vars => UNCHANGED HP!vars
  BY DEF vars, hostVars
<1>11. ASSUME Next PROVE [HP!Next]_(HP!vars)
  <2>1. CASE ComeUp
    BY <1>2, <2>1 DEF ComeUp
  <2>2. CASE Run
    BY <1>3, <1>8, <1>9, <2>2 DEF Run, Start, Deregister, HP!Next, HP!Run
  <2>3. CASE \E c \in H!Child : Send(c)
    BY <1>5, <2>3 DEF Send, HP!Next
  <2>4. CASE ServerReturn \/ Observe
    BY <1>4, <2>4 DEF ServerReturn, Observe, HP!Next
  <2>5. CASE LoseLease
    BY <2>5 DEF LoseLease, hostVars
  <2>6. CASE Cancel \/ Deadline
    BY <1>6, <1>7, <2>6 DEF Cancel, Deadline, HP!Next
  <2> QED BY <1>11, <2>1, <2>2, <2>3, <2>4, <2>5, <2>6 DEF Next
<1> QED BY <1>1, <1>10, <1>11

\* A process with a host runs as Host says, with its inductive invariant.
THEOREM ImplementsHost == Spec => HP!Spec /\ []HP!IInv
<1>1. HP!Spec => []HP!IInv
  BY HP!Inductive
<1> QED BY <1>1, StepsOfTheHost, PTL DEF Spec, HP!Spec

\* So what Host.Run promises alone it keeps with the registration in place: one
\* deregistration for a published lease, after the drains, errors that name the
\* cause, and no child goroutine left behind unreported (host.go:70-163).
THEOREM KeepsHostPromises ==
  Spec => /\ []HP!DeregisteredExactlyIfRegistered
          /\ []HP!UncancelledReturnNamesCause
          /\ []HP!AbandonedChildIsReported
          /\ HP!DeregisterAfterDrain
<1>1. HP!Spec => []HP!DeregisteredExactlyIfRegistered
  BY HP!DeregistersOnce
<1>2. HP!Spec => []HP!UncancelledReturnNamesCause
  BY HP!NamesCause
<1>3. HP!Spec => []HP!AbandonedChildIsReported
  BY HP!ReportsAbandoned
<1>4. HP!Spec => HP!DeregisterAfterDrain
  BY HP!DrainsFirst
<1> QED BY <1>1, <1>2, <1>3, <1>4, ImplementsHost, PTL
------------------------------------------------------------------------------
(* The lease.                                                               *)

DeregisterFailed == [stage |-> "shutdown", cause |-> "deregister"]

\* Only a published lease is active, and no return leaves it so without saying
\* it; a clean return leaves nothing in the channels.
LInv ==
  /\ lease = "active" => registered
  /\ ActiveLeaseIsReported
  /\ pc = "returned" /\ runErr = <<>> => \A c \in H!Child : channel[c] = <<>>

\* What Joined appends is the last error.
LEMMA JoinsLast ==
  ASSUME HP!TypeOK, NEW stage \in HP!Stage, NEW cause \in HP!Cause,
         runErr' = HP!Joined(stage, cause)
  PROVE  runErr' # <<>> /\ runErr'[Len(runErr')] = [stage |-> stage, cause |-> cause]
<1> DEFINE e == [stage |-> stage, cause |-> cause]
<1>1. runErr \in Seq(HP!Staged) /\ e \in HP!Staged
  BY DEF HP!TypeOK, HP!Staged
<1>2. runErr' = Append(runErr, e)
  BY DEF HP!Joined
<1> HIDE DEF e
<1>3. Append(runErr, e) # <<>> /\ Append(runErr, e)[Len(Append(runErr, e))] = e
  BY <1>1, AppendProperties
<1> QED BY <1>2, <1>3 DEF e

LEMMA InitLInv == Init => LInv
BY DEF Init, H!Init, LInv, ActiveLeaseIsReported

\* Deregister ends the lease, or says that it did not.
LEMMA DeregisterStep ==
  ASSUME HP!IInv, LInv, Deregister
  PROVE  LInv'
<1> USE DEF LInv, ActiveLeaseIsReported, HP!IInv, HP!Child, H!Child
<1>1. /\ pc = "deregister" /\ pc' = "returned"
      /\ UNCHANGED <<registered, channel, child>>
      /\ deregistrations' = deregistrations + (IF hasRegistration THEN 1 ELSE 0)
      /\ runErr' = runErr \/ runErr' = HP!Joined("shutdown", "deregister")
  BY DEF Deregister, H!Deregister, H!Deregisters, H!Return, H!config, H!children,
         H!Joined, HP!Joined
<1>2. registered = hasRegistration /\ deregistrations \in Nat /\ hasRegistration \in BOOLEAN
  BY <1>1 DEF HP!Control, HP!TypeOK
<1>3. lease' = "active" => registered /\ deregistrations' # deregistrations /\ runErr' # runErr
  BY <1>1, <1>2 DEF Deregister
<1>4. runErr' # runErr => runErr' # <<>> /\ runErr'[Len(runErr')] = DeregisterFailed
  BY <1>1, JoinsLast DEF HP!Stage, HP!Cause, DeregisterFailed
<1>5. ASSUME runErr' = <<>> PROVE \A c \in H!Child : channel'[c] = <<>>
  <2>1. runErr = <<>>
    BY <1>4, <1>5
  <2>2. ~HP!Reported
    BY <2>1 DEF HP!Reported
  <2>3. HP!Ended("server") /\ HP!Ended("lease")
    BY <1>1, <2>2 DEF HP!Waited
  <2>4. channel["server"] = <<>>
    BY <2>3 DEF HP!Ended, HP!Drained
  <2>5. channel["lease"] = <<>>
    BY <2>3 DEF HP!Ended, HP!Drained, HP!Children
  <2> QED BY <1>1, <2>4, <2>5
<1> QED BY <1>1, <1>3, <1>4, <1>5 DEF DeregisterFailed

LEMMA LInvStep ==
  ASSUME HP!IInv, LInv, [Next]_vars
  PROVE  LInv'
<1> USE DEF LInv, ActiveLeaseIsReported
<1>1. CASE ComeUp \/ Cancel \/ Deadline
  BY <1>1 DEF ComeUp, Cancel, Deadline, hostVars, H!CancelParent, H!ShutdownDeadline, H!children,
              H!locals, H!config
<1>2. CASE Start
  <2>1. pc' = "select" \/ (pc' = "returned" /\ registered' = registered)
    BY <1>2 DEF Start, H!Start, H!Return
  <2>2. ~registered
    BY <1>2 DEF Start, H!Start, HP!IInv, HP!Control
  <2>3. pc' = "returned" => runErr' # <<>>
    BY <1>2, JoinsLast DEF Start, H!Start, H!Return, H!Joined, HP!Joined, HP!IInv, HP!Stage, HP!Cause
  <2>4. lease' = IF registered' THEN "active" ELSE "none"
    BY <1>2 DEF Start
  <2> QED BY <2>1, <2>2, <2>3, <2>4
<1>3. CASE Unleased
  <2>1. pc' # "returned" /\ registered' = registered /\ lease' = lease
    BY <1>3 DEF Unleased, H!SelectContext, H!SelectChild, H!Classify, H!BeginShutdown,
                H!ShutdownReturn, H!DrainServer, H!DrainLease, H!locals
  <2> QED BY <2>1
<1>4. CASE Deregister
  BY <1>4, DeregisterStep
<1>5. ASSUME NEW c \in H!Child, Send(c) PROVE LInv'
  <2>1. UNCHANGED <<lease, registered, pc, runErr>> /\ child[c].at = "sending"
    BY <1>5 DEF Send, H!ChildSend, H!locals
  <2>2. pc = "returned" => HP!Reported
    BY <2>1 DEF HP!IInv, HP!Waited, HP!Running, HP!Child, H!Child
  <2>3. HP!Reported => runErr # <<>>
    BY DEF HP!Reported
  <2> QED BY <2>1, <2>2, <2>3
<1>6. CASE ServerReturn \/ Observe
  BY <1>6 DEF ServerReturn, Observe, H!ChildReturn, H!locals
<1>7. CASE LoseLease
  BY <1>7 DEF LoseLease, hostVars
<1>8. CASE UNCHANGED vars
  BY <1>8 DEF vars, hostVars
<1> QED BY <1>1, <1>2, <1>3, <1>4, <1>5, <1>6, <1>7, <1>8 DEF Next, Run

\* The invariant of the composition: the host's and the lease's.
THEOREM LeaseInvariant == Spec => [](HP!IInv /\ LInv)
BY InitLInv, LInvStep, ImplementsHost, PTL DEF Spec

\* A nil from Run means that the caller stopped it and that nothing is left
\* (host.go:107-163, registration.go:100-136).
THEOREM CleanReturn == Spec => []CleanReturnIsComplete
<1>1. HP!IInv /\ LInv => CleanReturnIsComplete
  <2> SUFFICES ASSUME HP!IInv, LInv, pc = "returned", runErr = <<>>
               PROVE  /\ parentDone
                      /\ \A c \in H!Child : ~H!Running(c) /\ channel[c] = <<>>
                      /\ lease # "active"
    BY DEF CleanReturnIsComplete
  <2>1. parentDone
    BY DEF HP!IInv, HP!Named, HP!Blamed
  <2>2. \A c \in H!Child : ~H!Running(c)
    BY DEF HP!IInv, HP!Waited, HP!Reported, HP!Running, H!Running, HP!Child, H!Child
  <2> QED BY <2>1, <2>2 DEF LInv, ActiveLeaseIsReported
<1> QED BY <1>1, LeaseInvariant, PTL

\* A lease that Run could not close is the last thing it reports
\* (host.go:157-161, registration.go:124-136).
THEOREM ReportsActiveLease == Spec => []ActiveLeaseIsReported
BY LeaseInvariant, PTL DEF LInv
------------------------------------------------------------------------------
(* What a process has read when it comes up.                               *)

Reading  == {"lstat", "open", "stat", "read"}
Composed == {"build", "host", "ready"}

\* A content that New holds was the whole of a file that the path named.
HasRead(p) == \E i \in named[p] : material[p] \in past[i] /\ Fits(Len(material[p]))

HasRoots == HasRead("TLS_CA_FILE") /\ TrustsAll(material["TLS_CA_FILE"])

Secure == env.mode = "nacos" /\ env.scheme = "https"

StartupTypeOK ==
  /\ deployment \in Deployment
  /\ dir \in [Path -> Entry]
  /\ disk \in [Inode -> Seq(Block)]
  /\ named \in [Path -> SUBSET Inode]
  /\ past \in [Inode -> SUBSET Seq(Block)]
  /\ path \in Path
  /\ inode \in [lstat : SUBSET Inode, opened : SUBSET Inode]
  /\ size \in Nat
  /\ material \in [Path -> Seq(Block)]

\* The history holds what there is now.
Recorded ==
  at # "running" =>
    /\ \A p \in Path : Names(dir[p]) \subseteq named[p]
    /\ \A i \in Inode : disk[i] \in past[i]

\* Between its checks readTLSMaterial holds a file that the path itself named.
Checked ==
  /\ at \in {"open", "stat", "read"} => inode.lstat \subseteq named[path]
  /\ at = "read" => inode.opened = inode.lstat /\ Fits(size)

\* The files are read in their order, each after the one before was found good.
InOrder ==
  /\ at \in {"verifier", "load"} => material = Unread /\ path = "TLS_CA_FILE"
  /\ at \in Reading \cup Composed => Loads(env)
  /\ at \in Reading => Secure
  /\ at \in Reading /\ path # "TLS_CA_FILE" => HasRoots /\ ClientPair \subseteq config.fields
  /\ at \in Reading /\ path = "TLS_CLIENT_KEY_FILE" => HasRead("TLS_CLIENT_CERT_FILE")

\* What was read when New has all it needs.
Complete ==
  at \in Composed =>
    /\ Secure => HasRoots
    /\ Secure /\ ClientPair \subseteq config.fields =>
         /\ HasRead("TLS_CLIENT_CERT_FILE") /\ HasRead("TLS_CLIENT_KEY_FILE")
         /\ KeyPair(material["TLS_CLIENT_CERT_FILE"], material["TLS_CLIENT_KEY_FILE"])
    /\ ~Secure => material = Unread

\* Only files that the configuration names are read.
NamedOnly ==
  at \in Reading \cup Composed =>
    /\ Secure => \A p \in Path \ config.fields : material[p] = <<>>
    /\ at \in Reading => path \in config.fields

SInv == StartupTypeOK /\ Recorded /\ Checked /\ InOrder /\ Complete /\ NamedOnly

\* What the checks of LoadConfig and Validate say together of the variables.
LEMMA LoadsFacts ==
  ASSUME deployment \in Deployment, Loads(env)
  PROVE  /\ config.fields = Exists(env)
         /\ env.mode \in {"disabled", "nacos"}
         /\ env.mode = "disabled" => Exists(env) = {}
         /\ ~Secure => Path \cap config.fields = {}
         /\ Secure => /\ "TLS_CA_FILE" \in config.fields
                      /\ ClientPair \cap config.fields \in {{}, ClientPair}
         /\ env.mode = "nacos" =>
              /\ \E pair \in Optional(env) : Exists(env) = Needed(env) \cup pair
              /\ Exists(env) \subseteq Usable(env)
              /\ env.ms["HEARTBEAT_INTERVAL"] < env.ms["HEARTBEAT_TIMEOUT"]
              /\ env.ms["HEARTBEAT_TIMEOUT"] < env.ms["IP_DELETE_TIMEOUT"]
<1>1. env \in Environment
  BY DeploymentAssumption DEF env
<1>2. Accepts(env) /\ Valid(config)
  BY DEF Loads, config
<1>3. /\ config.mode = env.mode /\ config.scheme = env.scheme /\ config.ms = env.ms
      /\ config.fields = Exists(env) \cap Read(env)
      /\ config.formed = Usable(env) \cap Read(env)
  BY DEF config, Loaded
<1> HIDE DEF env, config
<1>4. CASE env.mode = "disabled"
  <2>1. Exists(env) = {}
    BY <1>2, <1>4 DEF Accepts
  <2> QED BY <1>3, <1>4, <2>1 DEF Secure
<1>5. CASE env.mode = "nacos"
  <2> DEFINE Base == Release \cup Identifiers \cup Endpoint \cup Timing \cup {"API_ORIGIN", "AUTH_MODE"}
  <2>1. /\ AcceptsScheme(env) /\ AcceptsAuth(env)
        /\ env.scheme \in {"http", "https"} /\ env.auth \in {"none", "access_token"}
    BY <1>1, <1>2, <1>5 DEF Accepts, Environment
  <2>2. env.scheme = "http" => TLS \cap Exists(env) = {}
    BY <2>1 DEF AcceptsScheme
  <2>3. IF env.auth = "none" THEN "ACCESS_TOKEN" \notin Exists(env)
        ELSE "ACCESS_TOKEN" \in Exists(env) \cap Usable(env)
    BY <2>1 DEF AcceptsAuth, Usable, Filled, Exists
  <2>4. config.fields = Exists(env)
    BY <1>3, <2>2, <2>3 DEF Read, Exists
  <2>5. Staggered(env.ms) /\ ValidScheme(config) /\ Base \subseteq config.formed
    BY <1>2, <1>3, <1>5 DEF Valid
  <2>6. Usable(env) \subseteq Exists(env) /\ config.formed \subseteq Usable(env)
    BY <1>3 DEF Usable, Good, Filled, Exists
  <2>7. ASSUME env.scheme = "https"
        PROVE  /\ {"TLS_CA_FILE", "TLS_SERVER_NAME"} \subseteq Usable(env)
               /\ ClientPair \cap Exists(env) \subseteq Usable(env)
               /\ ClientPair \cap Exists(env) \in {{}, ClientPair}
    BY <1>3, <2>4, <2>5, <2>6, <2>7 DEF ValidScheme
  <2>8. Exists(env) \subseteq Suffix /\ Suffix = Base \cup TLS \cup {"ACCESS_TOKEN"}
    BY DEF Exists, Suffix
  <2>9. /\ Base \subseteq Exists(env) \cap Usable(env)
        /\ Base \cap (TLS \cup {"ACCESS_TOKEN"}) = {} /\ "ACCESS_TOKEN" \notin TLS
    BY <2>5, <2>6 DEF Release, Identifiers, Endpoint, Timing, TLS, ClientPair
  <2> HIDE DEF Base
  <2>10. Exists(env) \subseteq Usable(env)
    BY <2>1, <2>2, <2>3, <2>7, <2>8, <2>9 DEF TLS
  <2>11. Suffix \ (TLS \cup {"ACCESS_TOKEN"}) = Base
    BY <2>8, <2>9
  <2>12. \E pair \in Optional(env) : Exists(env) = Needed(env) \cup pair
    <3>1. ClientPair \cap Exists(env) \in Optional(env)
      BY <2>1, <2>2, <2>7 DEF Optional, TLS
    <3>2. Exists(env) = Needed(env) \cup (ClientPair \cap Exists(env))
      BY <2>1, <2>2, <2>3, <2>6, <2>7, <2>8, <2>9, <2>11 DEF Needed, TLS
    <3> QED BY <3>1, <3>2
  <2>13. Secure => /\ "TLS_CA_FILE" \in config.fields
                   /\ ClientPair \cap config.fields \in {{}, ClientPair}
    BY <2>4, <2>6, <2>7 DEF Secure
  <2>14. ~Secure => Path \cap config.fields = {}
    BY <1>5, <2>1, <2>2, <2>4 DEF Secure, Path, TLS
  <2> QED BY <1>5, <2>4, <2>5, <2>10, <2>12, <2>13, <2>14 DEF Staggered
<1> QED BY <1>2, <1>4, <1>5 DEF Accepts

LEMMA InitSInv == Init => SInv
<1> SUFFICES ASSUME Init PROVE SInv
  OBVIOUS
<1>1. /\ deployment \in Deployment /\ dir = deployment.dir /\ disk = deployment.disk
      /\ named = [p \in Path |-> Names(dir[p])] /\ past = [i \in Inode |-> {disk[i]}]
      /\ at = "verifier" /\ path = "TLS_CA_FILE" /\ inode = None /\ size = 0
      /\ material = Unread
  BY DEF Init, StartupInit
<1>2. dir \in [Path -> Entry] /\ disk \in [Inode -> Seq(Block)]
  BY <1>1, DeploymentAssumption
<1>3. \A entry \in Entry : Names(entry) \subseteq Inode
  BY DEF Entry, Names
<1>4. named \in [Path -> SUBSET Inode] /\ past \in [Inode -> SUBSET Seq(Block)]
  BY <1>1, <1>2, <1>3
<1>5. Unread \in [Path -> Seq(Block)] /\ "TLS_CA_FILE" \in Path
  BY EmptySeq DEF Unread, Path
<1>6. StartupTypeOK
  BY <1>1, <1>2, <1>4, <1>5 DEF StartupTypeOK, None
<1>7. Recorded
  BY <1>1 DEF Recorded
<1> QED BY <1>1, <1>6, <1>7 DEF SInv, Checked, InOrder, Complete, NamedOnly, Reading, Composed

\* Files change, and the history with them.
LEMMA RotateStep ==
  ASSUME SInv, Rotate
  PROVE  SInv'
<1> USE DEF SInv, StartupTypeOK
<1>1. UNCHANGED <<deployment, at, path, inode, size, material>> /\ at \in Reading
  BY DEF Rotate, new, Reading
<1>2. \A entry \in Entry : Names(entry) \subseteq Inode
  BY DEF Entry, Names
<1>3. /\ dir' \in [Path -> Entry] /\ disk' \in [Inode -> Seq(Block)]
      /\ named' \in [Path -> SUBSET Inode] /\ past' \in [Inode -> SUBSET Seq(Block)]
      /\ \A p \in Path : named[p] \subseteq named'[p] 
      /\ \A i \in Inode : past[i] \subseteq past'[i] 
      /\ Recorded'
  <2>1. ASSUME NEW p \in Path, Replace(p) 
        PROVE  <1>3!:
    BY <1>1, <1>2, <2>1 DEF Replace, Recorded
  <2>2. ASSUME NEW i \in Inode, Grow(i) 
        PROVE  <1>3!:
    <3>1. PICK block \in Block :
            /\ disk' = [disk EXCEPT ![i] = Append(@, block)]
            /\ past' = [past EXCEPT ![i] = @ \cup {Append(disk[i], block)}]
            /\ UNCHANGED <<dir, named>>
      BY <2>2 DEF Grow
    <3>2. Append(disk[i], block) \in Seq(Block)
      BY AppendProperties
    <3> QED BY <1>1, <3>1, <3>2 DEF Recorded
  <2> QED BY <2>1, <2>2 DEF Rotate
<1>4. \A p \in Path : HasRead(p) => HasRead(p)'
  BY <1>1, <1>3 DEF HasRead
<1>5. Checked'
  BY <1>1, <1>3 DEF Checked
<1>6. (Loads(env)' <=> Loads(env)) /\ (Secure' <=> Secure) /\ config' = config
  BY <1>1 DEF env, config, Secure
<1>7. HasRoots => HasRoots'
  BY <1>1, <1>4 DEF HasRoots, Path
<1>8. InOrder'
  BY <1>1, <1>4, <1>6, <1>7 DEF InOrder, Reading, Composed, Path, ClientPair
<1>9. Complete'
  BY <1>1 DEF Complete, Reading, Composed
<1>10. NamedOnly'
  BY <1>1, <1>6 DEF NamedOnly
<1> QED BY <1>1, <1>3, <1>5, <1>8, <1>9, <1>10
\* A read that got as many bytes as the file had, got the file.
LEMMA WholeContent ==
  ASSUME NEW bytes \in Seq(Block), Fits(Len(Content(bytes)))
  PROVE  Content(bytes) = bytes
<1>1. Len(bytes) \in Nat /\ MaxMaterial \in Nat
  BY MaterialAssumption, LenProperties
<1>2. CASE Len(bytes) <= MaxMaterial
  BY <1>1, <1>2, SubSeqProperties DEF Content
<1>3. CASE Len(bytes) > MaxMaterial
  <2>1. Len(Content(bytes)) = MaxMaterial + 1
    BY <1>1, <1>3, SubSeqProperties DEF Content
  <2> QED BY <1>1, <2>1 DEF Fits
<1> QED BY <1>1, <1>2, <1>3

\* New reads one file to its end.
LEMMA ReadAllStep ==
  ASSUME SInv, ReadAll
  PROVE  SInv'
<1> USE DEF SInv, StartupTypeOK
<1>1. at = "read" /\ UNCHANGED <<deployment, dir, disk, rotations, named, past>>
  BY DEF ReadAll, files
<1>2. (Loads(env)' <=> Loads(env)) /\ (Secure' <=> Secure) /\ config' = config
  BY <1>1 DEF env, config, Secure
<1>3. Recorded'
  BY <1>1 DEF Recorded
<1>4. CASE at' = "failed" /\ UNCHANGED <<path, inode, size, material>>
  BY <1>1, <1>3, <1>4 DEF Checked, InOrder, Complete, NamedOnly, Reading, Composed
<1>5. ASSUME NEW i \in inode.opened, Len(Content(disk[i])) = size,
             material' = [material EXCEPT ![path] = Content(disk[i])],
             IF Following(material') \in Path
             THEN at' = "lstat" /\ path' = Following(material')
             ELSE at' = Following(material') /\ UNCHANGED path,
             inode' = None, size' = 0
      PROVE  SInv'
  <2>1. i \in named[path] /\ i \in Inode /\ Fits(size)
    BY <1>1, <1>5 DEF Checked
  <2>2. Content(disk[i]) = disk[i] /\ disk[i] \in Seq(Block)
    BY <1>5, <2>1, WholeContent
  <2>3. material' \in [Path -> Seq(Block)]
    BY <1>5, <2>2
  <2>4. \A p \in Path : p = path \/ HasRead(p) => HasRead(p)'
    <3> TAKE p \in Path
    <3>1. CASE p = path
      <4>1. i \in named'[p] /\ material'[p] = disk[i] /\ disk[i] \in past'[i]
        BY <1>1, <1>5, <2>1, <2>2, <3>1 DEF Recorded
      <4>2. Fits(Len(material'[p]))
        BY <1>5, <2>1, <2>2, <3>1
      <4> QED BY <4>1, <4>2 DEF HasRead, Fits
    <3>2. CASE p # path
      BY <1>1, <1>5, <3>2 DEF HasRead
    <3> QED BY <3>1, <3>2
  <2>5. Secure /\ Loads(env)
    BY <1>1 DEF InOrder, Reading
  <2>6. StartupTypeOK'
    BY <1>1, <1>5, <2>3 DEF None
  <2>7. \A p \in Path \ config.fields : material'[p] = <<>>
    BY <1>1, <1>5, <2>5 DEF NamedOnly, Reading
  <2>8. CASE path = "TLS_CA_FILE"
    <3>1. CASE ~TrustsAll(material'[path])
      <4>1. at' = "failed"
        BY <1>5, <2>8, <3>1 DEF Following, Path, ClientPair
      <4> QED BY <1>3, <2>6, <4>1 DEF Checked, InOrder, Complete, NamedOnly, Reading, Composed
    <3>2. CASE TrustsAll(material'[path])
      <4>1. HasRoots'
        BY <2>4, <2>8, <3>2 DEF HasRoots
      <4>2. CASE ClientPair \subseteq config.fields
        <5>1. at' = "lstat" /\ path' = "TLS_CLIENT_CERT_FILE"
          BY <1>5, <2>8, <3>2, <4>2 DEF Following, Path, ClientPair
        <5>2. NamedOnly'
          BY <1>2, <2>7, <4>2, <5>1 DEF NamedOnly, ClientPair
        <5> QED
          BY <1>2, <1>3, <2>5, <2>6, <4>1, <4>2, <5>1, <5>2
             DEF Checked, InOrder, Complete, Reading, Composed
      <4>3. CASE ~(ClientPair \subseteq config.fields)
        <5>1. at' = "build"
          BY <1>5, <2>8, <3>2, <4>3 DEF Following, Path, ClientPair
        <5>2. NamedOnly'
          BY <1>2, <2>7, <5>1 DEF NamedOnly, Reading
        <5> QED
          BY <1>2, <1>3, <2>5, <2>6, <4>1, <4>3, <5>1, <5>2
             DEF Checked, InOrder, Complete, Reading, Composed
      <4> QED BY <4>2, <4>3
    <3> QED BY <3>1, <3>2
  <2>9. ASSUME path # "TLS_CA_FILE"
        PROVE  HasRoots' /\ ClientPair \subseteq config.fields
    <3>1. HasRead("TLS_CA_FILE")' /\ material'["TLS_CA_FILE"] = material["TLS_CA_FILE"]
      BY <1>1, <1>5, <2>4, <2>9 DEF InOrder, HasRoots, Path, Reading
    <3> QED BY <1>1, <2>9, <3>1 DEF InOrder, HasRoots, Reading
  <2>10. CASE path = "TLS_CLIENT_CERT_FILE"
    <3>1. at' = "lstat" /\ path' = "TLS_CLIENT_KEY_FILE"
      BY <1>5, <2>10 DEF Following, Path, ClientPair
    <3>2. HasRead("TLS_CLIENT_CERT_FILE")'
      BY <2>4, <2>10
    <3>3. NamedOnly'
      BY <1>2, <2>9, <2>10, <2>7, <3>1 DEF NamedOnly, ClientPair
    <3> QED
      BY <1>2, <1>3, <2>5, <2>6, <2>9, <2>10, <3>1, <3>2, <3>3
         DEF Checked, InOrder, Complete, Reading, Composed
  <2>11. CASE path = "TLS_CLIENT_KEY_FILE"
    <3>1. HasRead("TLS_CLIENT_CERT_FILE")' /\ HasRead("TLS_CLIENT_KEY_FILE")'
      BY <1>1, <2>4, <2>11 DEF InOrder, Reading, Path, ClientPair
    <3> DEFINE Fitting == KeyPair(material'["TLS_CLIENT_CERT_FILE"], material'[path])
    <3>2. at' = IF Fitting THEN "build" ELSE "failed"
      BY <1>5, <2>11 DEF Following, Path, ClientPair
    <3> HIDE DEF Fitting
    <3>3. CASE Fitting
      <4>1. at' = "build"
        BY <3>2, <3>3
      <4>2. KeyPair(material["TLS_CLIENT_CERT_FILE"], material["TLS_CLIENT_KEY_FILE"])'
        BY <2>11, <3>3 DEF Fitting
      <4>3. Complete'
        BY <1>2, <2>5, <2>9, <2>11, <3>1, <4>1, <4>2 DEF Complete
      <4>4. NamedOnly'
        BY <1>2, <2>7, <4>1 DEF NamedOnly, Reading
      <4> QED BY <1>2, <1>3, <2>5, <2>6, <4>1, <4>3, <4>4 DEF Checked, InOrder, Reading, Composed
    <3>4. CASE ~Fitting
      BY <1>3, <2>6, <3>2, <3>4 DEF Checked, InOrder, Complete, NamedOnly, Reading, Composed
    <3> QED BY <3>3, <3>4
  <2> QED BY <2>8, <2>10, <2>11 DEF Path, ClientPair
<1> QED BY <1>4, <1>5 DEF ReadAll, Fail
\* Everything else but Leave only moves on, when its checks pass.
LEMMA QuietStartupStep ==
  ASSUME SInv,
         \/ NewVerifier \/ LoadConfig \/ Lstat \/ Open \/ Stat
         \/ BuildRegistration \/ NewHost \/ UNCHANGED startup
  PROVE  SInv'
<1> DEFINE Same == /\ UNCHANGED <<material, path>>
                   /\ Loads(env)' <=> Loads(env)
                   /\ Secure' <=> Secure
                   /\ config' = config
                   /\ HasRoots' <=> HasRoots
                   /\ \A p \in Path : HasRead(p)' <=> HasRead(p)
<1>1. UNCHANGED <<deployment, dir, disk, rotations, named, past, path, material>>
  BY DEF NewVerifier, LoadConfig, Lstat, Open, Stat, BuildRegistration, NewHost, Fail,
         startup, files, new
<1>2. Same
  <2>1. (Loads(env)' <=> Loads(env)) /\ (Secure' <=> Secure) /\ config' = config
    BY <1>1 DEF env, config, Secure
  <2>2. /\ \A p \in Path : HasRead(p)' <=> HasRead(p)
        /\ HasRoots' <=> HasRoots
    BY <1>1 DEF HasRead, HasRoots
  <2> QED BY <1>1, <2>1, <2>2
<1> HIDE DEF Same
<1>3. StartupTypeOK /\ Recorded /\ Checked /\ InOrder /\ Complete /\ NamedOnly
  BY DEF SInv
<1>4. at' # "running" => at # "running"
  BY DEF NewVerifier, LoadConfig, Lstat, Open, Stat, BuildRegistration, NewHost, startup, files, new
<1>5. Recorded'
  BY <1>1, <1>3, <1>4 DEF Recorded
<1>6. inode' \in [lstat : SUBSET Inode, opened : SUBSET Inode] /\ size' \in Nat
  <2>1. dir[path].file \subseteq Inode
    <3>1. dir \in [Path -> Entry] /\ path \in Path
      BY <1>3, Zenon DEF StartupTypeOK
    <3>2. dir[path] \in Entry
      BY <3>1
    <3> QED BY <3>2 DEF Entry
  <2>2. CASE Lstat \/ Open
    BY <1>3, <2>1, <2>2 DEF Lstat, Open, Fail, StartupTypeOK
  <2>3. CASE Stat
    <3>1. \A i \in Inode : Len(disk[i]) \in Nat
      BY <1>3, LenProperties DEF StartupTypeOK
    <3> QED BY <1>3, <2>3, <3>1 DEF Stat, Fail, StartupTypeOK
  <2> QED
    BY <1>3, <2>2, <2>3
       DEF NewVerifier, LoadConfig, BuildRegistration, NewHost, Fail, startup, new, StartupTypeOK
<1>7. StartupTypeOK'
  BY <1>1, <1>3, <1>6 DEF StartupTypeOK
\* The files' part is as it was; the rest follows from where the step leads.
<1>8. SUFFICES Checked' /\ InOrder' /\ Complete' /\ NamedOnly'
  BY <1>5, <1>7 DEF SInv
<1>9. CASE at' = "failed"
  BY <1>9 DEF Checked, InOrder, Complete, NamedOnly, Reading, Composed
<1>10. CASE UNCHANGED startup
  <2>1. UNCHANGED <<at, inode, size>>
    BY <1>10 DEF startup, new
  <2> QED BY <1>1, <1>2, <1>3, <2>1 DEF Same, Checked, InOrder, Complete, NamedOnly, Path, ClientPair
<1>11. CASE NewVerifier /\ at' # "failed"
  <2>1. at = "verifier" /\ at' = "load"
    BY <1>11 DEF NewVerifier, Fail
  <2> QED BY <1>2, <1>3, <2>1 DEF Same, Checked, InOrder, Complete, NamedOnly, Reading, Composed
<1>12. CASE LoadConfig /\ at' # "failed"
  <2>1. at = "load" /\ Loads(env) /\ material = Unread /\ path = "TLS_CA_FILE"
    BY <1>3, <1>12 DEF LoadConfig, Fail, InOrder
  <2>2. at' = IF config.mode = "disabled" THEN "host"
              ELSE IF config.scheme = "https" THEN "lstat" ELSE "build"
    BY <1>12 DEF LoadConfig, Fail
  <2>3. env.mode \in {"disabled", "nacos"} /\ config.mode = env.mode /\ config.scheme = env.scheme
    BY <2>1 DEF Loads, Accepts, config, Loaded
  <2>4. at' = IF Secure THEN "lstat" ELSE IF env.mode = "disabled" THEN "host" ELSE "build"
    BY <2>2, <2>3 DEF Secure
  <2>5. Unread' = Unread
    BY DEF Unread
  <2>6. Secure => "TLS_CA_FILE" \in config.fields
    BY <1>3, <2>1, LoadsFacts DEF StartupTypeOK
  <2>7. NamedOnly'
    BY <1>2, <2>1, <2>4, <2>6 DEF Same, NamedOnly, Reading, Composed, Unread
  <2> QED
    BY <1>2, <2>1, <2>4, <2>5, <2>7 DEF Same, Checked, InOrder, Complete, Reading, Composed
<1>13. CASE Lstat /\ at' # "failed"
  <2>1. at = "lstat" /\ at' = "open" /\ inode'.lstat = dir[path].file /\ dir[path].kind = "file"
    BY <1>3, <1>13 DEF Lstat, Fail, StartupTypeOK
  <2>2. dir[path].file \subseteq named[path]
    BY <1>3, <2>1 DEF Recorded, Names, StartupTypeOK
  <2>3. Checked'
    BY <1>1, <2>1, <2>2 DEF Checked
  <2>4. InOrder' /\ Complete' /\ NamedOnly'
    BY <1>2, <1>3, <2>1 DEF Same, InOrder, Complete, NamedOnly, Reading, Composed, Path, ClientPair
  <2> QED BY <2>3, <2>4
<1>14. CASE Open /\ at' # "failed"
  <2>1. at = "open" /\ at' = "stat" /\ inode'.lstat = inode.lstat
    BY <1>3, <1>14 DEF Open, Fail, StartupTypeOK
  <2>2. Checked'
    BY <1>1, <1>3, <2>1 DEF Checked
  <2>3. InOrder' /\ Complete' /\ NamedOnly'
    BY <1>2, <1>3, <2>1 DEF Same, InOrder, Complete, NamedOnly, Reading, Composed, Path, ClientPair
  <2> QED BY <2>2, <2>3
<1>15. CASE Stat /\ at' # "failed"
  <2>1. /\ at = "stat" /\ at' = "read" /\ inode' = inode /\ inode.opened = inode.lstat
        /\ \E i \in inode.opened : size' = Len(disk[i]) /\ Fits(Len(disk[i]))
    BY <1>15 DEF Stat, Fail, SameFile
  <2>2. Checked'
    BY <1>1, <1>3, <2>1 DEF Checked, Fits
  <2>3. InOrder' /\ Complete' /\ NamedOnly'
    BY <1>2, <1>3, <2>1 DEF Same, InOrder, Complete, NamedOnly, Reading, Composed, Path, ClientPair
  <2> QED BY <2>2, <2>3
<1>16. CASE (BuildRegistration \/ NewHost) /\ at' # "failed"
  <2>1. at \in Composed /\ at' \in {"host", "ready"}
    BY <1>16 DEF BuildRegistration, NewHost, Fail, Composed
  <2>2. Checked' /\ InOrder'
    BY <1>2, <1>3, <2>1 DEF Same, Checked, InOrder, Reading, Composed
  <2>3. Complete' /\ NamedOnly'
    BY <1>2, <1>3, <2>1 DEF Same, Complete, NamedOnly, Reading, Composed, Path, ClientPair
  <2> QED BY <2>2, <2>3
<1> QED BY <1>9, <1>10, <1>11, <1>12, <1>13, <1>14, <1>15, <1>16

\* When Run starts, what New used is set back.
LEMMA LeaveStep ==
  ASSUME SInv, Leave
  PROVE  SInv'
<1>1. /\ at' = "running" /\ path' = "TLS_CA_FILE" /\ material' = Unread
      /\ dir' = deployment.dir /\ disk' = deployment.disk
      /\ named' = [p \in Path |-> {}] /\ past' = [i \in Inode |-> {}]
      /\ UNCHANGED <<deployment, inode, size>>
  BY DEF Leave
<1>2. dir' \in [Path -> Entry] /\ disk' \in [Inode -> Seq(Block)]
  BY <1>1, DeploymentAssumption DEF SInv, StartupTypeOK
<1>3. Unread \in [Path -> Seq(Block)] /\ "TLS_CA_FILE" \in Path
  BY EmptySeq DEF Unread, Path
<1>4. StartupTypeOK'
  BY <1>1, <1>2, <1>3 DEF SInv, StartupTypeOK
<1> QED BY <1>1, <1>4 DEF SInv, Recorded, Checked, InOrder, Complete, NamedOnly, Reading, Composed

\* The invariant of the way to the start of Run.
THEOREM StartupInvariant == Spec => []SInv
<1>1. ASSUME SInv, [Next]_vars PROVE SInv'
  <2>1. ComeUp \/ Start \/ UNCHANGED startup
    BY <1>1 DEF Next, Run, Send, Cancel, Deadline, vars
  <2>2. CASE ComeUp
    BY <1>1, <2>2, RotateStep, ReadAllStep, QuietStartupStep DEF ComeUp, StartupNext
  <2>3. CASE Start
    BY <1>1, <2>3, LeaveStep DEF Start
  <2> QED BY <1>1, <2>1, <2>2, <2>3, QuietStartupStep
<1> QED BY <1>1, InitSInv, PTL DEF Spec

\* The files that a process that came up has read.
LEMMA ReadFiles ==
  ASSUME SInv, at = "ready"
  PROVE  /\ \A p \in Path \cap config.fields : HasRead(p)
         /\ \A p \in Path \ config.fields : material[p] = <<>>
         /\ ClientPair \subseteq config.fields =>
              KeyPair(material["TLS_CLIENT_CERT_FILE"], material["TLS_CLIENT_KEY_FILE"])
<1>1. Complete /\ NamedOnly /\ deployment \in Deployment /\ Loads(env) /\ at \in Composed
  BY DEF SInv, StartupTypeOK, InOrder, Composed
<1>2. CASE ~Secure
  BY <1>1, <1>2, LoadsFacts DEF Complete, Unread, Path, ClientPair
<1>3. CASE Secure
  <2>1. HasRead("TLS_CA_FILE") /\ \A p \in Path \ config.fields : material[p] = <<>>
    BY <1>1, <1>3 DEF Complete, NamedOnly, HasRoots
  <2>2. CASE ClientPair \subseteq config.fields
    <3>1. /\ HasRead("TLS_CLIENT_CERT_FILE") /\ HasRead("TLS_CLIENT_KEY_FILE")
          /\ KeyPair(material["TLS_CLIENT_CERT_FILE"], material["TLS_CLIENT_KEY_FILE"])
      BY <1>1, <1>3, <2>2 DEF Complete
    <3> QED BY <2>1, <3>1 DEF Path, ClientPair
  <2>3. CASE ClientPair \cap config.fields = {}
    BY <2>1, <2>3 DEF Path, ClientPair
  <2> QED BY <1>1, <1>3, <2>2, <2>3, LoadsFacts
<1> QED BY <1>2, <1>3

\* What a process that came up has read is what its configuration names, as
\* whole files and in keeping with each other, however the files were rotated
\* (http_client.go:26-41, 89-111).
THEOREM ReadsItsPaths == Spec => []MaterialIsOfItsPath
<1>1. SInv => MaterialIsOfItsPath
  BY ReadFiles DEF MaterialIsOfItsPath, HasRead
<1> QED BY <1>1, StartupInvariant, PTL

\* The pool of a process that came up with https holds a CA, and no certificate
\* of another kind.
LEMMA OnlyCAs ==
  ASSUME SInv, at = "ready", Secure
  PROVE  /\ "ca" \in Range(material["TLS_CA_FILE"])
         /\ Pair \cap Range(material["TLS_CA_FILE"]) = {}
<1> DEFINE roots == material["TLS_CA_FILE"]
<1>1. Complete /\ at \in Composed /\ roots \in Seq(Block)
  BY DEF SInv, StartupTypeOK, Composed, Path
<1>2. TrustsAll(roots)
  BY <1>1 DEF Complete, HasRoots
<1>3. DOMAIN roots = 1 .. Len(roots)
  BY <1>1, LenProperties
<1> HIDE DEF roots
<1>4. "ca" \in Range(roots)
  BY <1>2, <1>3 DEF TrustsAll, Contains, Range
<1>5. Range(roots) \subseteq {"ca", "text"}
  BY <1>2 DEF TrustsAll, Range
<1> QED BY <1>4, <1>5, PairAssumption DEF roots

\* A process that came up has the variables that its modes need and no others,
\* has read the files they name and no others, and trusts CAs only
\* (config.go:30-32, 65-226, http_client.go:17-87).
THEOREM IgnoresNothing == Spec => []NothingIgnored
<1>1. ASSUME SInv, at = "ready" PROVE NothingIgnored
  <2>1. /\ Complete /\ at \in Composed /\ material \in [Path -> Seq(Block)]
        /\ deployment \in Deployment /\ Loads(env)
    BY <1>1 DEF SInv, StartupTypeOK, InOrder, Composed
  <2>2. CASE env.mode = "disabled"
    <3>1. ~Secure /\ Exists(env) = {}
      BY <2>1, <2>2, LoadsFacts DEF Secure
    <3>2. material = Unread
      BY <2>1, <3>1 DEF Complete
    <3> QED BY <2>2, <3>1, <3>2 DEF NothingIgnored
  <2>3. CASE env.mode = "nacos"
    <3>1. /\ config.fields = Exists(env) /\ Exists(env) \subseteq Usable(env)
          /\ \E pair \in Optional(env) : Exists(env) = Needed(env) \cup pair
          /\ env.ms["HEARTBEAT_INTERVAL"] < env.ms["HEARTBEAT_TIMEOUT"]
          /\ env.ms["HEARTBEAT_TIMEOUT"] < env.ms["IP_DELETE_TIMEOUT"]
      BY <2>1, <2>3, LoadsFacts
    <3>2. ASSUME NEW p \in Path
          PROVE  material[p] # <<>> <=> p \in Exists(env)
      <4>1. HasRead(p) => material[p] # <<>>
        <5>1. Len(<<>>) = 0
          BY EmptySeq
        <5> QED BY <5>1, MaterialAssumption DEF HasRead, Fits
      <4> QED BY <1>1, <3>1, <4>1, ReadFiles
    <3>3. env.scheme = "https" =>
            /\ "ca" \in Range(material["TLS_CA_FILE"])
            /\ Pair \cap Range(material["TLS_CA_FILE"]) = {}
      BY <1>1, <2>3, OnlyCAs DEF Secure
    <3> QED BY <2>3, <3>1, <3>2, <3>3 DEF NothingIgnored
  <2> QED BY <2>1, <2>2, <2>3, LoadsFacts
<1>2. SInv => NothingIgnored
  BY <1>1 DEF NothingIgnored
<1> QED BY <1>2, StartupInvariant, PTL
==============================================================================
