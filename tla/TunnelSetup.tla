---------------------------- MODULE TunnelSetup ----------------------------
(***************************************************************************)
(* Standard setup with a dedicated tunnel connector: TunnelInstallation of *)
(* src/src/tunnel_setup.rs over the connector effects of                   *)
(* src/src/tunnel_native.rs and the Standard effects it reuses through     *)
(* src/src/host/linux/tunnel.rs.  The record, its checkpoints, the proxy   *)
(* resources and the publication of a record are those of StandardSetup.   *)
(*                                                                         *)
(* Three others act beside the journey: the Owner, who may replace or      *)
(* remove the token and the cloudflared binary at any time; systemd, which *)
(* starts an enabled connector at boot and restarts one that failed; and   *)
(* the fault that ends the process.  The token, the binary and the image   *)
(* of a running connector are named relative to the digests the record     *)
(* holds.                                                                  *)
(***************************************************************************)
EXTENDS StandardSetup

VARIABLES
    conn,       \* what exists of the connector's unit
    svc,        \* sbxr-tunnel.service: "off", "restarting" or its running image
    token,      \* /etc/cloudflared/sbxr.token
    binary,     \* /usr/bin/cloudflared
    launched    \* the image of the process the last StartConnector left, until it ends

connvars == <<conn, svc, token, binary, launched>>
tunnelVars == <<rec, staged, exposed, host, mode, step, faults, conn, svc, token, binary, launched>>

Contents == {"recorded", "other"}

-----------------------------------------------------------------------------
(* The connector.                                                          *)

\* "next" is a whole staged unit and "torn" a part of one; "cached" is a unit
\* systemd remembers although its file is gone.
ConnectorFiles == {"unit", "next", "torn", "link", "cached"}

Loaded == conn \cap {"unit", "cached"} # {}

Installed == {"unit", "link"} \subseteq conn /\ conn \cap {"next", "torn"} = {}

ConnectorEmpty == conn = {} /\ svc = "off"

\* Mutant: a running connector is compared with the file it was started from.
ConnectorObservableByFile(image) ==
    /\ "torn" \notin conn
    /\ svc \in {"off", binary}
    /\ svc # "off" => Installed

\* inspect_with_digest of an owned connector: the staged unit is whole, the
\* service is stopped, or it runs the given image from an installed unit.
ConnectorObservable(image) ==
    /\ "torn" \notin conn
    /\ svc \in {"off", image}
    /\ svc # "off" => Installed

\* prerequisites_match: both files are there with the recorded digests.
PrerequisitesMatch == token = "recorded" /\ binary = "recorded"

\* The Standard part of an inspection: a proxy that is up is wholly running.
HostObservable == Observable(host) /\ ("active" \in host => IsRunning(host))

\* The inspection under a record; without a record everything must be absent.
TunnelObservable == HostObservable /\ ConnectorObservable("recorded")
Empty == host = {} /\ ConnectorEmpty

-----------------------------------------------------------------------------
(* Reviewed actions, executed while their facts are unchanged.             *)

\* recovery_record: a staged record is tolerated only while it and the
\* installed one both say Cleanup.
TunnelRecovery ==
    IF staged = None THEN Direction(rec)
    ELSE IF \/ staged = Torn
            \/ rec = None
            \/ Direction(rec) # "Cleanup" \/ Direction(staged) # "Cleanup"
            \/ ~PermitsSuccessor(rec, staged)
    THEN "Refused" ELSE "Cleanup"

\* StartSetup: the prerequisites present now are the ones recorded.
TunnelStartSetup ==
    /\ mode = "idle" /\ rec = None /\ staged = None /\ Empty
    /\ token \in Contents /\ binary \in Contents
    /\ token' = "recorded" /\ binary' = "recorded" /\ launched' = "off"
    /\ \/ PublishSucceeds(First) /\ mode' = "setup" /\ step' = "synchronize" /\ UNCHANGED faults
       \/ Fault /\ PublishFails(First) /\ Idle
    /\ UNCHANGED <<host, conn, svc>>

\* Mutant: Finish setup wants the connector that an earlier attempt started
\* to be stopped first.
FinishSetupFromStopped ==
    /\ mode = "idle" /\ TunnelRecovery = "FinishSetup" /\ TunnelObservable /\ svc = "off"
    /\ PrerequisitesMatch /\ "config" \in host
    /\ mode' = "setup" /\ step' = "synchronize" /\ launched' = "off"
    /\ UNCHANGED <<rec, staged, exposed, host, faults, conn, svc, token, binary>>

TunnelFinishSetup ==
    /\ mode = "idle" /\ TunnelRecovery = "FinishSetup" /\ TunnelObservable
    /\ PrerequisitesMatch /\ "config" \in host
    /\ mode' = "setup" /\ step' = "synchronize" /\ launched' = "off"
    /\ UNCHANGED <<rec, staged, exposed, host, faults, conn, svc, token, binary>>

\* Mutant: cleanup wants to see the reviewed prerequisites too.
FinishCleanupWithPrerequisites ==
    /\ mode = "idle" /\ TunnelRecovery = "Cleanup" /\ TunnelObservable
    /\ PrerequisitesMatch
    /\ mode' = "cleanup" /\ step' = "promote"
    /\ UNCHANGED <<rec, staged, exposed, host, faults, connvars>>

\* Cleanup reads neither the token nor the binary.
TunnelFinishCleanup ==
    /\ mode = "idle" /\ TunnelRecovery = "Cleanup" /\ TunnelObservable
    /\ mode' = "cleanup" /\ step' = "promote"
    /\ UNCHANGED <<rec, staged, exposed, host, faults, connvars>>

-----------------------------------------------------------------------------
(* drive: the effects of the next checkpoint, then its publication.        *)

Ahead(phase) == rec.phase + 1 = phase

\* Before a cleanup the staged checkpoint of its own direction is published.
TunnelPromote ==
    /\ step = "promote"
    /\ \/ staged = None /\ step' = "synchronize" /\ UNCHANGED <<rec, staged, exposed, mode, faults>>
       \/ staged # None /\ PublishSucceeds(staged) /\ step' = "synchronize" /\ UNCHANGED <<mode, faults>>
       \/ staged # None /\ Fault /\ PublishFails(staged) /\ Idle
    /\ UNCHANGED <<host, connvars>>

\* Mutant: each recovery picks cleanup up at its checkpoint.
SynchronizeSkippingConnector ==
    /\ step = "synchronize"
    /\ \/ /\ exposed' = {rec} /\ UNCHANGED <<mode, faults>>
          /\ step' = "effect"
       \/ Fault /\ Idle /\ UNCHANGED exposed
    /\ UNCHANGED <<rec, staged, host, connvars>>

TunnelSynchronize ==
    /\ step = "synchronize"
    /\ \/ /\ exposed' = {rec} /\ UNCHANGED <<mode, faults>>
          /\ step' = IF mode = "cleanup" THEN "remove" ELSE "effect"
       \/ Fault /\ Idle /\ UNCHANGED exposed
    /\ UNCHANGED <<rec, staged, host, connvars>>

\* What the Standard effect of a checkpoint demands.  The start goes through
\* the runtime, which asks for the held package and the known unit only.
TunnelAdmitted(phase) ==
    CASE phase = ServiceStarted -> {"package", "hold"} \subseteq host /\ "mask" \notin host
      [] phase \in {ActivationCommitted, Running} -> TRUE
      [] OTHER -> Admitted(phase, host)

AfterEffect(phase) == IF phase \in {ActivationCommitted, Running} THEN "install" ELSE "checkpoint"

\* host.effect refuses to act from a record that is not exactly installed.
EffectSucceeds ==
    /\ mode = "setup" /\ step = "effect" /\ staged = None
    /\ LET effect == SetupEffect(rec.phase + 1) IN
         /\ TunnelAdmitted(rec.phase + 1)
         /\ host' = (host \cup effect.adds) \ effect.drops
    /\ step' = AfterEffect(rec.phase + 1)
    /\ UNCHANGED <<rec, staged, exposed, mode, faults, connvars>>

\* An effect may fail halfway, or do all of its work and then not get the
\* package locks back.  Nothing is cleaned up by itself.
EffectFails ==
    /\ mode = "setup" /\ step = "effect"
    /\ \/ /\ Fault /\ TunnelAdmitted(rec.phase + 1)
          /\ host' \in SetupFragments(rec.phase + 1, host)
       \/ ~TunnelAdmitted(rec.phase + 1) /\ UNCHANGED <<host, faults>>
    /\ Idle
    /\ UNCHANGED <<rec, staged, exposed, connvars>>

\* The states of the unit that publish_bytes, the link and the reload pass
\* through; a unit that is not there yet is staged first.
InstalledUnit == (conn \ {"next"}) \cup {"unit", "link"}

InstallStages ==
    LET staging == IF conn \cap {"unit", "next"} # {} THEN {} ELSE {conn \cup {"torn"}, conn \cup {"next"}}
    IN staging \cup {conn, (conn \ {"next"}) \cup {"unit"}, InstalledUnit}

\* InstallConnector.  Before Activation committed the host must then be ready
\* and everything stopped.
InstallConnector ==
    /\ mode = "setup" /\ step = "install"
    /\ IF PrerequisitesMatch /\ ConnectorObservable(binary) /\ "cached" \notin conn
       THEN \/ /\ conn' = InstalledUnit
               /\ IF Ahead(Running) THEN step' = "start" /\ UNCHANGED mode
                  ELSE IF Ready(host) /\ Stopped(host) /\ svc = "off"
                  THEN step' = "checkpoint" /\ UNCHANGED mode ELSE Idle
               /\ UNCHANGED faults
            \/ Fault /\ conn' \in InstallStages /\ Idle
       ELSE Idle /\ UNCHANGED <<conn, faults>>
    /\ UNCHANGED <<rec, staged, exposed, host, svc, token, binary, launched>>

\* StartConnector reads the prerequisites ...
CheckPrerequisites ==
    /\ mode = "setup" /\ step = "start"
    /\ IF PrerequisitesMatch /\ ConnectorObservable(binary) /\ Installed
       THEN step' = "launch" /\ UNCHANGED mode ELSE Idle
    /\ UNCHANGED <<rec, staged, exposed, host, faults, connvars>>

\* Mutant: the service is taken to run whatever the path names.
ImageUnchecked == binary

\* ... and then starts whatever binary and token are there by now: a service
\* that runs keeps its image, and a missing file makes systemd try again.
Image == IF token = "missing" \/ binary = "missing" THEN "restarting" ELSE binary

StartConnector ==
    /\ mode = "setup" /\ step = "launch"
    /\ svc' = IF svc \in Contents THEN svc ELSE Image
    /\ launched' = svc'
    /\ IF svc' = binary THEN step' = "prove" /\ UNCHANGED mode ELSE Idle
    /\ UNCHANGED <<rec, staged, exposed, host, faults, conn, token, binary>>

\* Mutant: the running connector is proved by the file on disk only.
ProveRunningByFile ==
    /\ mode = "setup" /\ step = "prove"
    /\ IF HostObservable /\ IsRunning(host) /\ ConnectorObservableByFile("recorded") /\ svc # "off"
       THEN step' = "checkpoint" /\ UNCHANGED mode ELSE Idle
    /\ UNCHANGED <<rec, staged, exposed, host, faults, connvars>>

\* The last inspection: the proxy runs, and the connector runs the image whose
\* digest the record holds.
ProveRunning ==
    /\ mode = "setup" /\ step = "prove"
    /\ IF TunnelObservable /\ IsRunning(host) /\ svc = "recorded"
       THEN step' = "checkpoint" /\ UNCHANGED mode ELSE Idle
    /\ UNCHANGED <<rec, staged, exposed, host, faults, connvars>>

\* Mutant: a publication that failed after its rename is taken for done.
SetupCheckpointUncertain ==
    /\ mode = "setup" /\ step = "checkpoint"
    /\ \/ PublishSucceeds(NextSetup(rec)) /\ UNCHANGED faults
       \/ Fault /\ PublishFails(NextSetup(rec)) /\ rec' = NextSetup(rec)
    /\ IF rec'.phase = Running THEN Idle ELSE step' = "effect" /\ UNCHANGED mode
    /\ UNCHANGED <<host, connvars>>

\* A publication that is not certain ends the journey.
TunnelSetupCheckpoint ==
    /\ mode = "setup" /\ step = "checkpoint"
    /\ \/ /\ PublishSucceeds(NextSetup(rec)) /\ UNCHANGED faults
          /\ IF rec'.phase = Running THEN Idle ELSE step' = "effect" /\ UNCHANGED mode
       \/ Fault /\ PublishFails(NextSetup(rec)) /\ Idle
    /\ UNCHANGED <<host, connvars>>

-----------------------------------------------------------------------------
(* cleanup: the connector first, then the recorded Standard steps.         *)

\* The states remove_scoped passes through: stop, unlink the link, the unit
\* (systemd may still remember it) and the staged unit, reload.
RemoveStages ==
    LET bare == conn \ {"link", "unit"}
        known == IF Loaded THEN {"cached"} ELSE {}
    IN {conn, conn \ {"link"}, bare \cup known, known, {}}

RemoveConnector ==
    /\ mode = "cleanup" /\ step = "remove"
    /\ IF ConnectorObservable("recorded")
       THEN \/ conn' = {} /\ svc' = "off" /\ step' = "effect" /\ UNCHANGED <<mode, faults>>
            \/ /\ Fault /\ Idle
               /\ \/ svc' = "off" /\ conn' \in RemoveStages
                  \/ UNCHANGED <<conn, svc>>
       ELSE Idle /\ UNCHANGED <<conn, svc, faults>>
    /\ UNCHANGED <<rec, staged, exposed, host, token, binary, launched>>

TunnelCleanupEffect ==
    /\ mode = "cleanup" /\ step = "effect" /\ rec.cleanup < CleanupSteps
    /\ \/ HostObservable /\ host' = host \ CleanupEffect(rec.cleanup) /\ step' = "checkpoint" /\ UNCHANGED <<mode, faults>>
       \/ HostObservable /\ Fault /\ host' \in CleanupFragments(rec.cleanup, host) /\ Idle
       \/ ~HostObservable /\ Idle /\ UNCHANGED <<host, faults>>
    /\ UNCHANGED <<rec, staged, exposed, connvars>>

TunnelCleanupCheckpoint ==
    /\ mode = "cleanup" /\ step = "checkpoint"
    /\ \/ PublishSucceeds(NextCleanup(rec)) /\ step' = "effect" /\ UNCHANGED <<mode, faults>>
       \/ Fault /\ PublishFails(NextCleanup(rec)) /\ Idle
    /\ UNCHANGED <<host, connvars>>

\* Mutant: the record goes one step early and unproved.
RemoveRecordEarly ==
    /\ mode = "cleanup" /\ step = "effect" /\ rec.cleanup >= CleanupSteps - 1
    /\ rec' = None /\ exposed' = {None} /\ Idle
    /\ UNCHANGED <<staged, host, faults, connvars>>

\* remove_completed_cleanup, after a fresh proof that nothing is left.
TunnelRemoveRecord ==
    /\ mode = "cleanup" /\ step = "effect" /\ rec.cleanup = CleanupSteps
    /\ \/ Empty /\ rec' = None /\ exposed' = {None} /\ UNCHANGED faults
       \/ Empty /\ Fault /\ rec' \in {rec, None} /\ exposed' = {rec, rec'}
       \/ ~Empty /\ UNCHANGED <<rec, exposed, faults>>
    /\ Idle
    /\ UNCHANGED <<staged, host, connvars>>

-----------------------------------------------------------------------------
(* The others.                                                             *)

\* The process dies, or its cancellation is noticed, between two steps.
TunnelKill ==
    /\ mode # "idle" /\ Fault /\ Idle
    /\ UNCHANGED <<rec, staged, exposed, host, connvars>>

\* The Owner replaces, removes or restores the token or the binary.
OwnerChangesFiles ==
    /\ rec # None /\ Fault
    /\ \/ token' \in (Contents \cup {"missing"}) \ {token} /\ UNCHANGED binary
       \/ binary' \in (Contents \cup {"missing"}) \ {binary} /\ UNCHANGED token
    /\ UNCHANGED <<rec, staged, exposed, host, mode, step, conn, svc, launched>>

\* Restart=on-failure.
ConnectorFails ==
    /\ svc \in Contents /\ Fault
    /\ svc' \in {"off", "restarting"} /\ launched' = "off"
    /\ UNCHANGED <<rec, staged, exposed, host, mode, step, conn, token, binary>>

ConnectorRestarts ==
    /\ svc = "restarting" /\ Image # "restarting"
    /\ svc' = Image
    /\ UNCHANGED <<rec, staged, exposed, host, mode, step, faults, conn, token, binary, launched>>

ProxyStops ==
    /\ "active" \in host /\ Fault
    /\ host' = host \ {"active"}
    /\ UNCHANGED <<rec, staged, exposed, mode, step, connvars>>

\* A boot starts what is enabled, the connector included.
TunnelPowerLoss ==
    /\ PowerLoss
    /\ conn' = conn \ {"cached"}
    /\ svc' = IF {"unit", "link"} \subseteq conn THEN Image ELSE "off"
    /\ UNCHANGED <<token, binary, launched>>

TunnelInit ==
    /\ Init
    /\ conn = {} /\ svc = "off" /\ launched = "off"
    /\ token = "recorded" /\ binary = "recorded"

TunnelJourneyStep ==
    \/ TunnelPromote \/ TunnelSynchronize
    \/ EffectSucceeds \/ EffectFails
    \/ InstallConnector \/ CheckPrerequisites \/ StartConnector \/ ProveRunning \/ TunnelSetupCheckpoint
    \/ RemoveConnector \/ TunnelCleanupEffect \/ TunnelCleanupCheckpoint \/ TunnelRemoveRecord

Others == TunnelKill \/ OwnerChangesFiles \/ ConnectorFails \/ ConnectorRestarts \/ ProxyStops \/ TunnelPowerLoss

TunnelNext == TunnelStartSetup \/ TunnelFinishSetup \/ TunnelFinishCleanup \/ TunnelJourneyStep \/ Others

\* A journey that runs takes its next step, the Owner keeps choosing the one
\* recovery action on offer, and systemd keeps restarting a failed connector.
TunnelSpec == TunnelInit /\ [][TunnelNext]_tunnelVars
TunnelFairSpec ==
    /\ TunnelSpec
    /\ WF_tunnelVars(TunnelJourneyStep) /\ WF_tunnelVars(ConnectorRestarts)
    /\ WF_tunnelVars(TunnelFinishSetup) /\ WF_tunnelVars(TunnelFinishCleanup)

-----------------------------------------------------------------------------
(* Properties.                                                             *)

TunnelTypeOK ==
    /\ TypeOK \/ step \in {"remove", "install", "start", "launch", "prove"}
    /\ rec \in Records \cup {None} /\ staged \in Records \cup {None, Torn}
    /\ conn \subseteq ConnectorFiles
    /\ svc \in Contents \cup {"off", "restarting"} /\ launched \in Contents \cup {"off", "restarting"}
    /\ token \in Contents \cup {"missing"} /\ binary \in Contents \cup {"missing"}

\* Nothing of the proxy or of the connector, not even a unit systemd still
\* remembers, is ever on the host without a record no power loss can take.
TunnelResourcesAreOwned == host # {} \/ ~ConnectorEmpty => None \notin exposed

\* Every recorded cleanup step finds the connector gone: no interruption of a
\* cleanup leaves a connector in front of a proxy that is being taken apart.
ConnectorGoesFirst == \A r \in exposed \ {None} : r.cleanup > 0 => ConnectorEmpty

\* Setup never records Running while the connector process it started runs a
\* binary other than the reviewed one, whenever the Owner replaces the file.
ImageIsReviewed == [][rec' # rec /\ Direction(rec') = "Running" => launched \in {"recorded", "off"}]_tunnelVars

\* What recovery leaves for inspection: a staged record it may not publish, a
\* fragment of a proxy resource or of the connector's unit, a connector that
\* runs another image.
TunnelPreserved ==
    TunnelRecovery = "Refused" \/ "fragment" \in host \/ "torn" \in conn \/ svc = "other"

\* systemd keeps trying to start a connector whose token or binary is gone;
\* an inspection takes it for neither stopped nor running.
TryingForever == svc = "restarting" /\ Image = "restarting"

\* An uncommitted setup is cleaned up down to no record at all, whatever the
\* Owner does to the token and the binary, unless a missing one of them is never
\* put back.
TunnelCleanupCompletes ==
    []<>~TryingForever =>
        ((TunnelRecovery = "Cleanup" /\ mode = "idle")
            ~> (rec = None \/ Direction(rec) # "Cleanup" \/ TunnelPreserved))

\* A durably committed setup is finished once the reviewed prerequisites are
\* back, unless the proxy or the connector is in the way or a staged record
\* was left behind.
TunnelFinishCompletes ==
    DurablyCommitted
        ~> (Direction(rec) = "Running" \/ TunnelPreserved \/ ~PrerequisitesMatch \/ ServiceInTheWay)

\* Wherever a tunnel setup or its cleanup is interrupted, a record owns what is
\* left, no live proxy is open to cleanup, and no connector is left in front of
\* a proxy that is being taken apart.
OwnedInOrder == TunnelTypeOK /\ TunnelResourcesAreOwned /\ LiveProxyIsCommitted /\ ConnectorGoesFirst

\* Both recovery directions come to their end.
TunnelRecoveryCompletes == TunnelCleanupCompletes /\ TunnelFinishCompletes

-----------------------------------------------------------------------------
(* The inductive strengthening.                                            *)

\* The variables that are StandardSetup's, with the steps of the connector.
RecordTypes ==
    /\ rec \in Records \cup {None} /\ staged \in Records \cup {None, Torn}
    /\ exposed \subseteq Records \cup {None} /\ rec \in exposed
    /\ host \subseteq Resources /\ faults \in 0 .. MaxFaults
    /\ mode \in {"idle", "setup", "cleanup"}
    /\ step \in {"done", "promote", "synchronize", "effect", "checkpoint",
                 "remove", "install", "start", "launch", "prove"}

\* A journey works from an installed record of its own direction, durably once
\* it acts on the host, and a cleanup that took the connector away finds it
\* gone at every later step.
TunnelJourneyInv ==
    /\ mode = "idle" <=> step = "done"
    /\ step \in {"promote", "remove"} => mode = "cleanup"
    /\ step \in {"install", "start", "launch", "prove"} => mode = "setup"
    /\ mode # "idle" => rec # None
    /\ mode # "idle" /\ step \notin {"promote", "synchronize"} => exposed = {rec}
    /\ mode = "setup" => rec.phase < Running /\ rec.cleanup = 0 /\ staged = None
    /\ mode = "cleanup" => rec.phase < ActivationCommitted
    /\ mode = "cleanup" /\ staged # None => staged \in Records /\ staged.phase < ActivationCommitted
    /\ mode = "cleanup" /\ step = "checkpoint" => rec.cleanup < CleanupSteps
    /\ mode = "cleanup" /\ step \in {"effect", "checkpoint"} => ConnectorEmpty

\* A staged record of a cleanup may yet be published.
TunnelStagedInv == staged \in Records /\ staged.cleanup > 0 => ConnectorEmpty

\* What a setup started still runs, or has ended; it is the reviewed image
\* once that was proved.  Only the installed record can say Running.
LaunchInv ==
    /\ mode = "setup" => launched = "off" \/ (launched = svc /\ svc \in Contents)
    /\ mode = "setup" /\ step = "checkpoint" /\ Ahead(Running) => launched \in {"recorded", "off"}
    /\ \A r \in exposed \ {None} : r.phase = Running => r = rec

TunnelInv ==
    /\ RecordTypes /\ TunnelTypeOK /\ TunnelResourcesAreOwned /\ LiveProxyIsCommitted /\ ConnectorGoesFirst
    /\ TunnelJourneyInv /\ TunnelStagedInv /\ LaunchInv
=============================================================================
