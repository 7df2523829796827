--------------------------- MODULE StandardSetup ---------------------------
(***************************************************************************)
(* The Standard setup journey: StandardInstallation of                     *)
(* src/src/proxyinstallation/fixture.rs over the checkpoints of            *)
(* src/src/records/ownership.rs and the host effects of                    *)
(* src/src/host/linux/effects.rs.  Each effect is performed first and its  *)
(* checkpoint published afterwards; a failed effect before Activation      *)
(* committed turns into cleanup, a later one waits for Finish setup.       *)
(*                                                                         *)
(* The record store is used through what OwnershipStore establishes: a     *)
(* publication either succeeds and is durable, leaves the old record with  *)
(* perhaps a staged one, or shows the new record without being durable.    *)
(* An effect that fails, or in which the process dies, may have done any   *)
(* part of its changes.                                                    *)
(***************************************************************************)
EXTENDS Naturals

CONSTANTS
    None,       \* no record
    Torn,       \* a staged file that does not decode
    MaxFaults   \* bound on the failures of one behaviour

VARIABLES
    rec,        \* the installed record, [phase, cleanup], or None
    staged,     \* the staged record, Torn or None
    exposed,    \* the records a power loss could leave installed
    host,       \* the proxy resources present on the host
    mode,       \* "idle", "setup" or "cleanup": the journey in execution
    step,       \* its next step
    faults

vars == <<rec, staged, exposed, host, mode, step, faults>>

-----------------------------------------------------------------------------
(* Records and recovery directions.                                        *)

\* The phases after OwnershipRecorded (0), in order.
AptKeyInstalled == 1
AptSourceInstalled == 2
ServiceMasked == 3
PackageInstalled == 4
PackageHeld == 5
StateDirectoryCreated == 6
ConfigurationInstalled == 7
ConfigurationValidated == 8
ServiceUnmasked == 9
ActivationCommitted == 10
ServiceEnabled == 11
ServiceStarted == 12
Running == 13

CleanupSteps == 8

Records ==
    [phase : 0 .. ActivationCommitted - 1, cleanup : 0 .. CleanupSteps]
        \cup [phase : ActivationCommitted .. Running, cleanup : {0}]

ASSUME SetupAssumption ==
    /\ MaxFaults \in Nat
    /\ None \notin Records
    /\ Torn \notin Records \cup {None}

First == [phase |-> 0, cleanup |-> 0]

Direction(r) ==
    IF r = None THEN "Absent"
    ELSE IF r.phase < ActivationCommitted THEN "Cleanup"
    ELSE IF r.phase < Running THEN "FinishSetup" ELSE "Running"

NextSetup(r) == [r EXCEPT !.phase = @ + 1]

NextCleanup(r) == [r EXCEPT !.cleanup = @ + 1]

PermitsSuccessor(r, n) ==
    \/ n = r
    \/ r.cleanup = 0 /\ r.phase < Running /\ n = NextSetup(r)
    \/ Direction(r) = "Cleanup" /\ r.cleanup < CleanupSteps /\ n = NextCleanup(r)

\* Snapshot::recovery: a staged record never carries a cleanup or a running
\* installation across its commit barrier.
Recovery ==
    IF staged = None THEN Direction(rec)
    ELSE IF \/ staged = Torn
            \/ rec = None
            \/ Direction(rec) \in {"Cleanup", "Running"} /\ Direction(staged) # Direction(rec)
            \/ ~PermitsSuccessor(rec, staged)
    THEN "Refused" ELSE Direction(rec)

-----------------------------------------------------------------------------
(* The host.                                                               *)

\* A "fragment" is what an effect cut short leaves and every later inspection
\* refuses: a torn ".sbxr-next" stage, the state directory not yet handed over,
\* a package that dpkg has half installed or half purged.
Resources == {"fragment", "key", "source", "lock", "mask", "artifact", "package", "identity", "hold",
              "statedir", "configdir", "config", "enabled", "active"}

Ready(h) ==
    /\ {"key", "source", "lock", "package", "identity", "hold", "statedir",
        "configdir", "config"} \subseteq h
    /\ h \cap {"mask", "artifact"} = {}

IsRunning(h) == Ready(h) /\ {"enabled", "active"} \subseteq h

Stopped(h) == h \cap {"enabled", "active"} = {}

\* The observation refuses package-owned files without the package account.
Observable(h) ==
    /\ "fragment" \notin h
    /\ h \cap {"config", "statedir"} # {} => "identity" \in h

\* [needs, adds, drops] of each setup checkpoint's effect.
Effect(needs, adds, drops) == [needs |-> needs, adds |-> adds, drops |-> drops]

SetupEffect(phase) ==
    CASE phase = AptKeyInstalled -> Effect({}, {"key"}, {})
      [] phase = AptSourceInstalled -> Effect({}, {"source"}, {})
      [] phase = ServiceMasked -> Effect({}, {"mask", "lock"}, {})
      [] phase = PackageInstalled ->
            Effect({"mask"}, {"artifact", "package", "identity", "configdir"}, {"artifact"})
      [] phase = PackageHeld -> Effect({"package"}, {"hold"}, {})
      [] phase = StateDirectoryCreated -> Effect({"identity"}, {"statedir"}, {})
      [] phase = ConfigurationInstalled -> Effect({"identity"}, {"config"}, {})
      [] phase = ConfigurationValidated -> Effect({"config"}, {}, {})
      [] phase = ServiceUnmasked -> Effect({}, {}, {"mask"})
      [] phase = ServiceEnabled -> Effect({}, {"enabled"}, {})
      [] phase = ServiceStarted -> Effect({"enabled"}, {"active"}, {})
      [] OTHER -> Effect({}, {}, {})

\* The setup effects that publish a file by way of a stage, unpack the package
\* or create the state directory: half of that is a fragment.
LeavesFragment ==
    {AptKeyInstalled, AptSourceInstalled, ServiceMasked, PackageInstalled,
     StateDirectoryCreated, ConfigurationInstalled}

\* The hosts that an effect of a setup checkpoint may leave when it is cut short.
SetupFragments(phase, h) ==
    LET effect == SetupEffect(phase) IN
      {(h \cup added) \ dropped : added \in SUBSET effect.adds, dropped \in SUBSET effect.drops}
        \cup {h \cup added \cup {"fragment"} :
                 added \in {a \in SUBSET effect.adds : phase \in LeavesFragment /\ a # effect.adds}}

\* Mutant: the package account is removed before the files it owns.
CleanupEffectIdentityFirst(checkpoint) ==
    CASE checkpoint = 0 -> {"active", "enabled", "lock"}
      [] checkpoint = 1 -> {"mask"}
      [] checkpoint = 2 -> {"artifact"}
      [] checkpoint = 3 -> {"package", "hold"}
      [] checkpoint = 4 -> {"identity"}
      [] checkpoint = 5 -> {"config", "configdir", "statedir"}
      [] checkpoint = 6 -> {"source"}
      [] checkpoint = 7 -> {"key"}
      [] OTHER -> {}

\* What the cleanup step at a checkpoint removes: STEPS[checkpoint].
CleanupEffect(checkpoint) ==
    CASE checkpoint = 0 -> {"active", "enabled", "lock"}
      [] checkpoint = 1 -> {"mask"}
      [] checkpoint = 2 -> {"artifact"}
      [] checkpoint = 3 -> {"package", "hold"}
      [] checkpoint = 4 -> {"config", "configdir", "statedir"}
      [] checkpoint = 5 -> {"identity"}
      [] checkpoint = 6 -> {"source"}
      [] checkpoint = 7 -> {"key"}
      [] OTHER -> {}

\* The hosts a cleanup step may leave when it is cut short, a purge included.
CleanupFragments(checkpoint, h) ==
    {h \ dropped : dropped \in SUBSET CleanupEffect(checkpoint)}
        \cup {(h \ dropped) \cup {"fragment"} :
                 dropped \in {d \in SUBSET {"hold"} : checkpoint = 3 /\ "package" \in h}}

\* Mutant: an interrupted enable is not admitted a second time.
AdmittedOnce(phase, h) ==
    /\ Observable(h)
    /\ SetupEffect(phase).needs \subseteq h
    /\ phase \in {ActivationCommitted, ServiceEnabled} => Ready(h) /\ Stopped(h)
    /\ phase = ServiceStarted => Ready(h)
    /\ phase = Running => IsRunning(h)

\* What the effect of a checkpoint, or the fresh inspection that stands in its
\* place, demands of the host.
Admitted(phase, h) ==
    /\ Observable(h)
    /\ SetupEffect(phase).needs \subseteq h
    /\ phase = PackageInstalled => "active" \notin h
    /\ phase = ActivationCommitted => Ready(h) /\ Stopped(h)
    /\ phase = ServiceEnabled => Ready(h) /\ "active" \notin h
    /\ phase = ServiceStarted => Ready(h)
    /\ phase = Running => IsRunning(h)

-----------------------------------------------------------------------------
(* Publication.                                                            *)

Fault == faults < MaxFaults /\ faults' = faults + 1

Idle == mode' = "idle" /\ step' = "done"

PublishSucceeds(n) ==
    /\ staged \in {None, n}
    /\ rec' = n /\ staged' = None /\ exposed' = {n}

\* publish failed and the reread did not find the target durable.
PublishFails(n) ==
    \/ /\ staged' \in IF staged = None THEN {None, n, Torn} ELSE {staged}
       /\ UNCHANGED <<rec, exposed>>
    \/ /\ staged \in {None, n}
       /\ rec' = n /\ staged' = None
       /\ exposed' = (IF rec = None THEN exposed ELSE {rec}) \cup {n}

-----------------------------------------------------------------------------
(* The Owner's actions, each reviewed and executed with unchanged facts.   *)

\* Start setup: no record, an empty footprint.
StartSetup ==
    /\ mode = "idle" /\ Recovery = "Absent" /\ host = {}
    /\ \/ PublishSucceeds(First) /\ mode' = "setup" /\ step' = "synchronize" /\ UNCHANGED faults
       \/ Fault /\ PublishFails(First) /\ Idle
    /\ UNCHANGED host

FinishSetup ==
    /\ mode = "idle" /\ Recovery = "FinishSetup"
    /\ Observable(host) /\ Ready(host)
    /\ rec.phase = ServiceEnabled => "enabled" \in host
    /\ rec.phase = ServiceStarted => IsRunning(host)
    /\ mode' = "setup" /\ step' = "synchronize"
    /\ UNCHANGED <<rec, staged, exposed, host, faults>>

FinishCleanup ==
    /\ mode = "idle" /\ Recovery = "Cleanup" /\ Observable(host)
    /\ mode' = "cleanup" /\ step' = "promote"
    /\ UNCHANGED <<rec, staged, exposed, host, faults>>

-----------------------------------------------------------------------------
(* run_setup and cleanup.                                                  *)

\* A staged checkpoint of the cleanup direction is published before cleanup.
Promote ==
    /\ step = "promote"
    /\ \/ staged = None /\ step' = "synchronize" /\ UNCHANGED <<rec, staged, exposed, mode, faults>>
       \/ staged # None /\ PublishSucceeds(staged) /\ step' = "synchronize" /\ UNCHANGED <<mode, faults>>
       \/ staged # None /\ Fault /\ PublishFails(staged) /\ Idle
    /\ UNCHANGED host

Synchronize ==
    /\ step = "synchronize"
    /\ \/ exposed' = {rec} /\ step' = "effect" /\ UNCHANGED <<mode, faults>>
       \/ Fault /\ Idle /\ UNCHANGED exposed
    /\ UNCHANGED <<rec, staged, host>>

SetupEffectSucceeds ==
    /\ mode = "setup" /\ step = "effect"
    /\ Admitted(rec.phase + 1, host)
    /\ host' = (host \cup SetupEffect(rec.phase + 1).adds) \ SetupEffect(rec.phase + 1).drops
    /\ step' = "checkpoint"
    /\ UNCHANGED <<rec, staged, exposed, mode, faults>>

\* Mutant: a failed effect is cleaned up at any phase.
FailedEffectLeadsToCleanup(phase) ==
    IF phase \notin {ActivationCommitted, Running} THEN mode' = "cleanup" /\ step' = "promote" ELSE Idle

\* A failed effect enters cleanup while that is the direction; a failed
\* inspection (before the commit or before Running) only ends the journey.
AfterFailedEffect(phase) ==
    IF phase < ActivationCommitted THEN mode' = "cleanup" /\ step' = "promote" ELSE Idle

\* Mutant: the failure of an effect is not looked at.
SetupEffectFailureIgnored ==
    /\ mode = "setup" /\ step = "effect"
    /\ Fault
    /\ step' = "checkpoint"
    /\ UNCHANGED <<rec, staged, exposed, host, mode>>

SetupEffectFails ==
    /\ mode = "setup" /\ step = "effect"
    /\ Fault
    /\ Admitted(rec.phase + 1, host)
    /\ host' \in SetupFragments(rec.phase + 1, host)
    /\ AfterFailedEffect(rec.phase + 1)
    /\ UNCHANGED <<rec, staged, exposed>>

\* The effect refuses because of what it finds on the host.
SetupEffectRefused ==
    /\ mode = "setup" /\ step = "effect"
    /\ ~Admitted(rec.phase + 1, host)
    /\ AfterFailedEffect(rec.phase + 1)
    /\ UNCHANGED <<rec, staged, exposed, host, faults>>

\* Mutant: a visible target is taken for a durable one.
SetupCheckpointUnconfirmed ==
    /\ mode = "setup" /\ step = "checkpoint"
    /\ \/ PublishSucceeds(NextSetup(rec)) /\ UNCHANGED faults
       \/ Fault /\ PublishFails(NextSetup(rec)) /\ rec' = NextSetup(rec)
    /\ IF rec'.phase = Running THEN Idle ELSE step' = "effect" /\ UNCHANGED mode
    /\ UNCHANGED host

SetupCheckpoint ==
    /\ mode = "setup" /\ step = "checkpoint"
    /\ \/ /\ PublishSucceeds(NextSetup(rec))
          /\ IF rec'.phase = Running THEN Idle ELSE step' = "effect" /\ UNCHANGED mode
          /\ UNCHANGED faults
       \/ Fault /\ PublishFails(NextSetup(rec)) /\ Idle
    /\ UNCHANGED host

CleanupEffectSucceeds ==
    /\ mode = "cleanup" /\ step = "effect" /\ rec.cleanup < CleanupSteps
    /\ Observable(host)
    /\ host' = host \ CleanupEffect(rec.cleanup)
    /\ step' = "checkpoint"
    /\ UNCHANGED <<rec, staged, exposed, mode, faults>>

CleanupEffectFails ==
    /\ mode = "cleanup" /\ step = "effect" /\ rec.cleanup < CleanupSteps
    /\ \/ Observable(host) /\ Fault /\ host' \in CleanupFragments(rec.cleanup, host)
       \/ ~Observable(host) /\ UNCHANGED <<host, faults>>
    /\ Idle
    /\ UNCHANGED <<rec, staged, exposed>>

CleanupCheckpoint ==
    /\ mode = "cleanup" /\ step = "checkpoint"
    /\ \/ PublishSucceeds(NextCleanup(rec)) /\ step' = "effect" /\ UNCHANGED <<mode, faults>>
       \/ Fault /\ PublishFails(NextCleanup(rec)) /\ Idle
    /\ UNCHANGED host

\* Mutant: the record is removed without the fresh proof of an empty host.
RemoveRecordUnproved ==
    /\ mode = "cleanup" /\ step = "effect" /\ rec.cleanup >= CleanupSteps - 1
    /\ rec' = None /\ exposed' = {None} /\ Idle
    /\ UNCHANGED <<staged, host, faults>>

\* remove_completed_cleanup, after a fresh proof that nothing is left.  An
\* error may come before or after the record was unlinked.
RemoveRecord ==
    /\ mode = "cleanup" /\ step = "effect" /\ rec.cleanup = CleanupSteps
    /\ \/ host = {} /\ rec' = None /\ exposed' = {None} /\ UNCHANGED faults
       \/ host = {} /\ Fault /\ rec' \in {rec, None} /\ exposed' = {rec, rec'}
       \/ host # {} /\ UNCHANGED <<rec, exposed, faults>>
    /\ Idle
    /\ UNCHANGED <<staged, host>>

-----------------------------------------------------------------------------
(* Interruptions.                                                          *)

\* The process dies; death inside an effect or a publication leaves what a
\* failure of it may leave.
Kill ==
    /\ mode # "idle"
    /\ Fault
    /\ Idle
    /\ UNCHANGED <<rec, staged, exposed, host>>

\* The started service ends.
ServiceStops ==
    /\ "active" \in host
    /\ Fault
    /\ host' = host \ {"active"}
    /\ UNCHANGED <<rec, staged, exposed, mode, step>>

\* The boot after a power loss may start a service that is enabled.
PowerLoss ==
    /\ Fault
    /\ rec' \in exposed
    /\ exposed' = {rec'}
    /\ \/ rec' = rec /\ staged' \in IF staged = None THEN {None} ELSE {None, Torn, staged}
       \/ rec' # rec /\ staged' \in {None, rec}
    /\ \/ host' = host \ {"active"}
       \/ /\ {"enabled", "package"} \subseteq host /\ "mask" \notin host
          /\ host' = host \cup {"active"}
    /\ Idle

Init ==
    /\ rec = None /\ staged = None /\ exposed = {None}
    /\ host = {}
    /\ mode = "idle" /\ step = "done"
    /\ faults = 0

JourneyStep ==
    \/ Promote \/ Synchronize
    \/ SetupEffectSucceeds \/ SetupEffectFails \/ SetupEffectRefused \/ SetupCheckpoint
    \/ CleanupEffectSucceeds \/ CleanupEffectFails \/ CleanupCheckpoint \/ RemoveRecord

Next == StartSetup \/ FinishSetup \/ FinishCleanup \/ JourneyStep \/ Kill \/ ServiceStops \/ PowerLoss

Spec == Init /\ [][Next]_vars

\* A journey that runs takes its next step, and the Owner keeps choosing the
\* one recovery action that Review offers.
FairSpec == Spec /\ WF_vars(JourneyStep) /\ WF_vars(FinishSetup) /\ WF_vars(FinishCleanup)

-----------------------------------------------------------------------------
(* Properties.                                                             *)

TypeOK ==
    /\ rec \in Records \cup {None}
    /\ staged \in Records \cup {None, Torn}
    /\ exposed \in SUBSET (Records \cup {None}) /\ rec \in exposed
    /\ host \in SUBSET Resources
    /\ mode \in {"idle", "setup", "cleanup"}
    /\ step \in {"done", "promote", "synchronize", "effect", "checkpoint"}
    /\ faults \in 0 .. MaxFaults

\* No proxy resource is ever on the host without an ownership record that a
\* power loss cannot take away: whatever is interrupted, something records
\* that it must be cleaned up or finished.
ResourcesAreOwned == host # {} => None \notin exposed

\* No power loss could leave a record of before Activation committed.
DurablyCommitted == \A r \in exposed : r # None /\ r.phase >= ActivationCommitted

\* The service is enabled or started only under a durable Activation
\* committed: no interruption leaves a live proxy that recovery would clean up.
LiveProxyIsCommitted ==
    ~Stopped(host) => DurablyCommitted

\* What the host holds once checkpoint `phase` is recorded.
Expected(phase) ==
    (UNION {SetupEffect(i).adds : i \in 1 .. phase}) \ (UNION {SetupEffect(i).drops : i \in 1 .. phase})

\* Every record recovery could find tells the truth.  The effects of a
\* committed record, and of the one a setup is working from, are in place
\* except for what the next effect takes away again (the service may stop by
\* itself); what the recorded cleanup steps remove is gone.
RecordNeverAhead ==
    \A r \in exposed \ {None} :
        /\ r.phase >= ActivationCommitted \/ mode = "setup" =>
              Expected(r.phase) \ (SetupEffect(r.phase + 1).drops \cup {"active"}) \subseteq host
        /\ \A i \in 1 .. r.cleanup : CleanupEffect(i - 1) \cap host = {}

\* Once Activation committed is durable, no step returns to the cleanup
\* direction or removes the record.
NoReversal == [][DurablyCommitted => DurablyCommitted']_vars

\* The states the code preserves for inspection instead of acting on them: a
\* staged record it may not publish, and what an effect cut short left behind.
Preserved == Recovery = "Refused" \/ "fragment" \in host

\* An interrupted setup is always cleaned up down to no record at all, or it
\* had been committed; only a torn or barrier-crossing staged record, or a
\* fragment of a resource, stops it.
CleanupCompletes ==
    (Recovery = "Cleanup" /\ mode = "idle") ~> (rec = None \/ Direction(rec) # "Cleanup" \/ Preserved)

\* Review offers nothing: EnableService refuses a service that a boot started
\* before ServiceEnabled was recorded, and a service that ended after
\* ServiceStarted was recorded does not pass as running.
ServiceInTheWay ==
    /\ rec # None
    /\ \/ rec.phase = ActivationCommitted /\ "active" \in host
       \/ rec.phase = ServiceStarted /\ "active" \notin host

\* A durably committed activation is finished, unless a staged record is torn or
\* the service itself started or ended between two checkpoints.  No fragment is
\* ever in its way.
FinishCompletes ==
    DurablyCommitted ~> (Direction(rec) = "Running" \/ Recovery = "Refused" \/ ServiceInTheWay)

\* Every interrupted setup comes to its end in the direction it is committed to.
RecoveryCompletes == CleanupCompletes /\ FinishCompletes

-----------------------------------------------------------------------------
(* The inductive strengthening.                                            *)

\* A running journey works from an installed record of its own direction, has
\* synchronized it before any effect, and never holds a staged record that
\* cleanup could not publish.
JourneyInv ==
    /\ step = "promote" => mode = "cleanup"
    /\ mode # "idle" => rec # None /\ step # "done"
    /\ mode = "setup" => rec.phase < Running /\ rec.cleanup = 0
    /\ mode = "cleanup" => rec.phase < ActivationCommitted
    /\ mode = "cleanup" /\ step = "checkpoint" => rec.cleanup < CleanupSteps
    /\ mode # "idle" /\ step \in {"effect", "checkpoint"} => exposed = {rec}
    /\ mode = "setup" /\ rec.phase < ActivationCommitted => staged = None
    /\ mode = "cleanup" /\ staged # None => staged \in Records /\ staged.phase < ActivationCommitted
    /\ mode = "idle" => step = "done"

SetupInv == TypeOK /\ ResourcesAreOwned /\ LiveProxyIsCommitted /\ JourneyInv

\* What the record is about to say is already so when it is published, and a
\* committed record is exposed together with at most its predecessor.
CheckpointInv ==
    /\ mode = "setup" /\ step = "checkpoint" =>
          Expected(rec.phase + 1) \ (SetupEffect(rec.phase + 2).drops \cup {"active"}) \subseteq host
    /\ mode = "cleanup" /\ step = "checkpoint" => CleanupEffect(rec.cleanup) \cap host = {}
    /\ rec # None /\ rec.phase >= ActivationCommitted =>
          \A r \in exposed : r # None /\ r.phase >= ActivationCommitted - 1

\* A staged record tells the truth as well: cleanup may yet publish it.
StagedInv ==
    staged \in Records =>
        /\ \A i \in 1 .. staged.cleanup : CleanupEffect(i - 1) \cap host = {}
        /\ mode = "setup" => staged.cleanup = 0

RecordInv == SetupInv /\ RecordNeverAhead /\ CheckpointInv /\ StagedInv
=============================================================================
