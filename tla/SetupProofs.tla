---------------------------- MODULE SetupProofs ----------------------------
(***************************************************************************)
(* Standard setup, setup with a dedicated tunnel and the check of the      *)
(* tunnel's connection.                                                    *)
(*                                                                         *)
(* The first part is StandardSetup: SetupInv is inductive, so that         *)
(* whatever fails or is interrupted, and however often, what is on the     *)
(* host is durably recorded, a live proxy is durably committed, and a      *)
(* committed activation is never reversed; RecordInv adds that no record   *)
(* is ahead of its host.                                                   *)
(*                                                                         *)
(* The second part is TunnelSetup, over the same record and host: a        *)
(* connector, the Owner's files and systemd act beside the journey.  The   *)
(* third is TunnelCheck: the probe of a connection check, its process      *)
(* group and its clocks.                                                   *)
(***************************************************************************)
EXTENDS TunnelSetup, TunnelCheck, TLAPS

-----------------------------------------------------------------------------
(* Standard setup.                                                         *)

\* Nothing is installed, recorded or under way on a fresh server.
LEMMA SetupInvInit == Init => SetupInv
  BY SetupAssumption
  DEF Init, SetupInv, TypeOK, ResourcesAreOwned, LiveProxyIsCommitted, DurablyCommitted,
      Stopped, JourneyInv

\* A power loss keeps one of the records that were exposed, and takes no
\* resource that was not there: what every exposed record promised still holds.
LEMMA PowerLossKeepsSetupInv == ASSUME SetupInv, PowerLoss PROVE SetupInv'
<1> USE SetupAssumption DEF SetupInv, TypeOK
<1>1. /\ rec' \in exposed /\ exposed' = {rec'}
      /\ mode' = "idle" /\ step' = "done"
      /\ faults' = faults + 1 /\ faults < MaxFaults
  BY DEF PowerLoss, Idle, Fault
<1>2. \/ host' = host \ {"active"}
      \/ "enabled" \in host /\ host' = host \cup {"active"}
  BY DEF PowerLoss
<1>3. staged' \in Records \cup {None, Torn}
  BY DEF PowerLoss
<1>4. TypeOK'
  <2>1. host' \in SUBSET Resources
    BY <1>2 DEF Resources
  <2>2. faults' \in 0 .. MaxFaults
    BY <1>1
  <2>3. rec' \in Records \cup {None} /\ exposed' \in SUBSET (Records \cup {None})
    BY <1>1
  <2> QED BY <1>1, <1>3, <2>1, <2>2, <2>3
<1>5. ResourcesAreOwned'
  BY <1>1, <1>2 DEF ResourcesAreOwned
<1>6. LiveProxyIsCommitted'
  BY <1>1, <1>2 DEF LiveProxyIsCommitted, DurablyCommitted, Stopped
<1>7. JourneyInv'
  BY <1>1 DEF JourneyInv
<1> QED BY <1>4, <1>5, <1>6, <1>7

\* The effects of setup add known resources only, and those of a live proxy
\* only from Activation committed on.
LEMMA EffectFacts ==
    ASSUME NEW p \in 1 .. 13
    PROVE  /\ SetupEffect(p).adds \subseteq Resources
           /\ p <= 10 => SetupEffect(p).adds \cap {"enabled", "active"} = {}
<1> USE DEF SetupEffect, Effect, Resources, AptKeyInstalled, AptSourceInstalled,
     ServiceMasked, PackageInstalled, PackageHeld, StateDirectoryCreated,
     ConfigurationInstalled, ConfigurationValidated, ServiceUnmasked,
     ServiceEnabled, ServiceStarted
<1>1. CASE p \in {1, 2, 3, 4}
  BY <1>1
<1>2. CASE p \in {5, 6, 7, 8}
  BY <1>2
<1>3. CASE p \in {9, 10}
  BY <1>3
<1>4. CASE p \in {11, 12, 13}
  BY <1>4
<1> QED
  BY <1>1, <1>2, <1>3, <1>4

\* A setup effect that is cut short leaves a part of its resources, or a
\* fragment in place of one.
LEMMA SetupFragmentFacts ==
    ASSUME NEW p \in 1 .. 13, NEW h \in SUBSET Resources, NEW g \in SetupFragments(p, h)
    PROVE  /\ g \subseteq h \cup SetupEffect(p).adds \cup {"fragment"}
           /\ h \ SetupEffect(p).drops \subseteq g
  BY DEF SetupFragments

\* A cleanup step that is cut short brings nothing back but a fragment, and no
\* cleanup step is said to remove one.
LEMMA CleanupFragmentFacts ==
    /\ \A c, h : \A g \in CleanupFragments(c, h) : g \subseteq h \cup {"fragment"}
    /\ \A c : "fragment" \notin CleanupEffect(c)
<1>1. \A c, h : \A g \in CleanupFragments(c, h) : g \subseteq h \cup {"fragment"}
  BY DEF CleanupFragments
<1>2. \A c : "fragment" \notin CleanupEffect(c)
  BY DEF CleanupEffect
<1> QED BY <1>1, <1>2

\* Every action of the journey, the Owner and the environment preserves
\* SetupInv.
LEMMA SetupInvStep == ASSUME SetupInv, [Next]_vars PROVE SetupInv'
<1> USE SetupAssumption
    DEF SetupInv, TypeOK, ResourcesAreOwned, LiveProxyIsCommitted, DurablyCommitted, JourneyInv,
        Stopped, Records, CleanupSteps, ActivationCommitted, Running
<1>1. CASE StartSetup
  BY <1>1 DEF StartSetup, PublishSucceeds, PublishFails, Recovery, Direction, First, Fault, Idle
<1>2. CASE FinishSetup
  BY <1>2 DEF FinishSetup, Recovery, Direction
<1>3. CASE FinishCleanup
  BY <1>3 DEF FinishCleanup, Recovery, Direction, PermitsSuccessor
<1>4. CASE Promote
  BY <1>4 DEF Promote, PublishSucceeds, PublishFails, Fault, Idle
<1>5. CASE Synchronize
  BY <1>5 DEF Synchronize, Fault, Idle
<1>6. CASE SetupEffectSucceeds
  BY <1>6 DEF SetupEffectSucceeds, Admitted, SetupEffect, Effect, Resources,
      AptKeyInstalled, AptSourceInstalled, ServiceMasked, PackageInstalled, PackageHeld,
      StateDirectoryCreated, ConfigurationInstalled, ConfigurationValidated, ServiceUnmasked,
      ServiceEnabled, ServiceStarted
<1>7. CASE SetupEffectFails
  <2>1. rec.phase + 1 \in 1 .. 13 /\ host' \in SetupFragments(rec.phase + 1, host)
    BY <1>7 DEF SetupEffectFails
  <2>2. /\ host' \subseteq host \cup SetupEffect(rec.phase + 1).adds \cup {"fragment"}
        /\ SetupEffect(rec.phase + 1).adds \subseteq Resources
        /\ rec.phase + 1 <= 10 => SetupEffect(rec.phase + 1).adds \cap {"enabled", "active"} = {}
    BY <2>1, SetupFragmentFacts, EffectFacts
  <2>3. "fragment" \in Resources
    BY DEF Resources
  <2> QED BY <1>7, <2>2, <2>3 DEF SetupEffectFails, AfterFailedEffect, Fault, Idle
<1>8. CASE SetupEffectRefused
  BY <1>8 DEF SetupEffectRefused, AfterFailedEffect, Idle
<1>9. CASE SetupCheckpoint
  BY <1>9 DEF SetupCheckpoint, PublishSucceeds, PublishFails, NextSetup, Fault, Idle
<1>10. CASE CleanupEffectSucceeds
  BY <1>10 DEF CleanupEffectSucceeds
<1>11. CASE CleanupEffectFails
  <2>1. host' \subseteq host \cup {"fragment"} /\ "fragment" \in Resources
    BY <1>11, CleanupFragmentFacts DEF CleanupEffectFails, Resources
  <2> QED BY <1>11, <2>1 DEF CleanupEffectFails, Fault, Idle
<1>12. CASE CleanupCheckpoint
  BY <1>12 DEF CleanupCheckpoint, PublishSucceeds, PublishFails, NextCleanup, Fault, Idle
<1>13. CASE RemoveRecord
  BY <1>13 DEF RemoveRecord, Fault, Idle
<1>14. CASE Kill
  BY <1>14 DEF Kill, Fault, Idle
<1>15. CASE ServiceStops
  BY <1>15 DEF ServiceStops, Fault
<1>16. CASE PowerLoss
  BY <1>16, PowerLossKeepsSetupInv
<1>17. CASE UNCHANGED vars
  BY <1>17 DEF vars
<1> QED
  BY <1>1, <1>2, <1>3, <1>4, <1>5, <1>6, <1>7, <1>8, <1>9, <1>10, <1>11, <1>12, <1>13, <1>14,
     <1>15, <1>16, <1>17 DEF Next, JourneyStep

\* The strengthened invariant holds in every reachable state.
LEMMA SetupInvariant == Spec => []SetupInv
  BY SetupInvInit, SetupInvStep, PTL DEF Spec

\* Type correctness: the record, the staged file and the host stay in their
\* ranges for any number of faults.
THEOREM SetupTyped == Spec => []TypeOK
<1>1. SetupInv => TypeOK
  BY DEF SetupInv
<1> QED BY <1>1, SetupInvariant, PTL

\* However many effects, publications and processes fail, no proxy resource is
\* ever on the host unless a record that a power loss cannot take away owns it.
THEOREM NothingIsOrphaned == Spec => []ResourcesAreOwned
<1>1. SetupInv => ResourcesAreOwned
  BY DEF SetupInv
<1> QED BY <1>1, SetupInvariant, PTL

\* The service is enabled or started only under a durable Activation committed.
THEOREM LiveProxyIsNeverCleanedUp == Spec => []LiveProxyIsCommitted
<1>1. SetupInv => LiveProxyIsCommitted
  BY DEF SetupInv
<1> QED BY <1>1, SetupInvariant, PTL

\* A step taken from a durably committed activation keeps it committed.
LEMMA CommitIsKept ==
  ASSUME SetupInv, [Next]_vars PROVE DurablyCommitted => DurablyCommitted'
<1> USE SetupAssumption
    DEF SetupInv, TypeOK, DurablyCommitted, JourneyInv, Records, CleanupSteps,
        ActivationCommitted, Running
<1> SUFFICES ASSUME DurablyCommitted PROVE DurablyCommitted'
  OBVIOUS
<1>1. CASE StartSetup
  BY <1>1 DEF StartSetup, Recovery, Direction
<1>2. CASE Promote
  BY <1>2 DEF Promote
<1>3. CASE Synchronize
  BY <1>3 DEF Synchronize
<1>4. CASE SetupCheckpoint
  BY <1>4 DEF SetupCheckpoint, PublishSucceeds, PublishFails, NextSetup
<1>5. CASE CleanupCheckpoint
  BY <1>5 DEF CleanupCheckpoint
<1>6. CASE RemoveRecord
  BY <1>6 DEF RemoveRecord
<1>7. CASE PowerLoss
  BY <1>7 DEF PowerLoss
<1>8. CASE UNCHANGED <<rec, exposed>>
  BY <1>8
<1> QED
  BY <1>1, <1>2, <1>3, <1>4, <1>5, <1>6, <1>7, <1>8
  DEF Next, JourneyStep, FinishSetup, FinishCleanup, SetupEffectSucceeds, SetupEffectFails,
      SetupEffectRefused, CleanupEffectSucceeds, CleanupEffectFails, Kill, ServiceStops, vars

\* Once Activation committed is durable nothing the program or a crash does
\* returns to the cleanup direction or loses the record.
THEOREM ActivationIsIrreversible == Spec => NoReversal
<1>1. SetupInv /\ [Next]_vars => [DurablyCommitted => DurablyCommitted']_vars
  BY CommitIsKept
<1> QED BY <1>1, SetupInvariant, PTL DEF Spec, NoReversal

-----------------------------------------------------------------------------
(* What the record says is so: RecordInv, on top of SetupInv.              *)

\* A resource is expected at a checkpoint when an effect up to there adds it
\* and none drops it.
LEMMA ExpectedElement ==
    ASSUME NEW phase, NEW x
    PROVE  x \in Expected(phase) <=>
              /\ \E i \in 1 .. phase : x \in SetupEffect(i).adds
              /\ \A j \in 1 .. phase : x \notin SetupEffect(j).drops
<1> DEFINE A(i) == SetupEffect(i).adds
           D(i) == SetupEffect(i).drops
           S == 1 .. phase
           Added == UNION {A(i) : i \in S}
           Dropped == UNION {D(i) : i \in S}
<1>1. Expected(phase) = Added \ Dropped
  BY DEF Expected
<1> HIDE DEF A, D, S
<1>2. x \in Added <=> \E i \in S : x \in A(i)
  BY Zenon
<1>3. x \in Dropped <=> \E i \in S : x \in D(i)
  BY Zenon
<1> HIDE DEF Added, Dropped
<1>4. x \in Expected(phase) <=> (\E i \in S : x \in A(i)) /\ ~(\E i \in S : x \in D(i))
  BY <1>1, <1>2, <1>3
<1> QED BY <1>4 DEF A, D, S

\* Before the first effect nothing is expected; each later checkpoint expects
\* what its own effect adds and no longer what it drops.
LEMMA ExpectedStep ==
    /\ Expected(0) = {}
    /\ \A p \in Nat : Expected(p + 1) \subseteq (Expected(p) \cup SetupEffect(p + 1).adds) \ SetupEffect(p + 1).drops
<1>1. \A x : x \notin Expected(0)
  BY ExpectedElement
<1>2. ASSUME NEW p \in Nat, NEW x \in Expected(p + 1)
      PROVE  x \in (Expected(p) \cup SetupEffect(p + 1).adds) \ SetupEffect(p + 1).drops
  <2>1. PICK i \in 1 .. p + 1 : x \in SetupEffect(i).adds
    BY <1>2, ExpectedElement
  <2>2. \A j \in 1 .. p + 1 : x \notin SetupEffect(j).drops
    BY <1>2, ExpectedElement
  <2>3. x \notin SetupEffect(p + 1).drops
    BY <2>2
  <2>4. CASE i = p + 1
    BY <2>1, <2>3, <2>4
  <2>5. CASE i \in 1 .. p
    <3>1. \A j \in 1 .. p : x \notin SetupEffect(j).drops
      BY <2>2
    <3>2. x \in Expected(p)
      BY <2>1, <2>5, <3>1, ExpectedElement
    <3> QED BY <2>3, <3>2
  <2> QED BY <2>1, <2>4, <2>5
<1> QED BY <1>1, <1>2

\* Everything the last checkpoint before the commit expects is demanded of a
\* ready host.
LEMMA ReadyIsExpected == ASSUME NEW h, Ready(h) PROVE Expected(ActivationCommitted - 1) \subseteq h
<1> USE DEF SetupEffect, Effect, AptKeyInstalled, AptSourceInstalled, ServiceMasked, PackageInstalled,
        PackageHeld, StateDirectoryCreated, ConfigurationInstalled, ConfigurationValidated,
        ServiceUnmasked, ServiceEnabled, ServiceStarted
<1> SUFFICES ASSUME NEW x \in Expected(9) PROVE x \in h
  BY DEF ActivationCommitted
<1>1. PICK i \in 1 .. 9 : x \in SetupEffect(i).adds
  BY ExpectedElement
<1>2. \A j \in 1 .. 9 : x \notin SetupEffect(j).drops
  BY ExpectedElement
<1>3. x # "artifact" /\ x # "mask"
  <2>1. x \notin SetupEffect(4).drops /\ x \notin SetupEffect(9).drops
    BY <1>2
  <2>2. SetupEffect(4).drops = {"artifact"}
    OBVIOUS
  <2>3. SetupEffect(9).drops = {"mask"}
    OBVIOUS
  <2> QED BY <2>1, <2>2, <2>3
<1>4. x \in {"key", "source", "lock", "mask", "artifact", "package", "identity", "hold", "statedir",
             "configdir", "config"}
  <2>1. \/ i = 1 \/ i = 2 \/ i = 3 \/ i = 4 \/ i = 5 \/ i = 6 \/ i = 7 \/ i = 8 \/ i = 9
    OBVIOUS
  <2> QED BY <1>1, <2>1
<1> QED BY <1>3, <1>4 DEF Ready

\* Before the first record nothing is promised, nothing staged and no checkpoint due.
LEMMA RecordInvInit == Init => RecordInv
<1> SUFFICES ASSUME Init PROVE RecordInv
  OBVIOUS
<1>1. SetupInv
  BY SetupInvInit
<1>2. RecordNeverAhead
  BY DEF Init, RecordNeverAhead
<1>3. CheckpointInv
  BY DEF Init, CheckpointInv
<1>4. StagedInv
  BY SetupAssumption DEF Init, StagedInv
<1> QED BY <1>1, <1>2, <1>3, <1>4 DEF RecordInv

\* What a publication leaves: the same records, or only the published one and
\* the one before it.
LEMMA PublishExposes ==
    ASSUME NEW n, PublishSucceeds(n) \/ PublishFails(n)
    PROVE  \/ UNCHANGED <<rec, exposed>>
           \/ rec' = n /\ exposed' \subseteq (IF rec = None THEN exposed ELSE {rec}) \cup {n}
  BY DEF PublishSucceeds, PublishFails

\* A setup checkpoint is published when its effect is in place.
LEMMA SetupCheckpointTrue ==
    ASSUME RecordInv, SetupCheckpoint PROVE RecordNeverAhead' /\ CheckpointInv'
<1> USE SetupAssumption DEF RecordInv, SetupInv, TypeOK, JourneyInv, Records, CleanupSteps,
        ActivationCommitted, Running
<1> DEFINE n == NextSetup(rec)
<1>1. /\ mode = "setup" /\ step = "checkpoint" /\ exposed = {rec} /\ rec # None
      /\ rec.phase \in 0 .. 12 /\ rec.cleanup = 0
  BY DEF SetupCheckpoint
<1>2. n.phase = rec.phase + 1 /\ n.cleanup = 0 /\ n # None /\ n \in Records
  BY <1>1 DEF NextSetup
<1>3. \/ UNCHANGED <<rec, exposed>>
      \/ rec' = n /\ exposed' \subseteq {rec, n}
  BY <1>1, PublishExposes DEF SetupCheckpoint
<1>4. Expected(n.phase) \ (SetupEffect(n.phase + 1).drops \cup {"active"}) \subseteq host
  <2>1. rec.phase + 1 + 1 = rec.phase + 2
    BY <1>1
  <2> QED BY <1>1, <1>2, <2>1 DEF CheckpointInv
<1>5. Expected(rec.phase) \ (SetupEffect(rec.phase + 1).drops \cup {"active"}) \subseteq host
  BY <1>1 DEF RecordNeverAhead
<1>6. host' = host /\ step' # "checkpoint"
  BY <1>1 DEF SetupCheckpoint, Idle
<1> HIDE DEF n
<1>7. RecordNeverAhead'
  BY <1>1, <1>2, <1>3, <1>4, <1>5, <1>6 DEF RecordNeverAhead
<1>8. CheckpointInv'
  BY <1>1, <1>2, <1>3, <1>6 DEF CheckpointInv
<1> QED BY <1>7, <1>8

\* A cleanup checkpoint is published when its step's resources are gone.
LEMMA CleanupCheckpointTrue ==
    ASSUME RecordInv, CleanupCheckpoint PROVE RecordNeverAhead' /\ CheckpointInv'
<1> USE SetupAssumption DEF RecordInv, SetupInv, TypeOK, JourneyInv, Records, CleanupSteps,
        ActivationCommitted, Running
<1> DEFINE n == NextCleanup(rec)
<1>1. /\ mode = "cleanup" /\ step = "checkpoint" /\ exposed = {rec} /\ rec # None
      /\ rec.phase \in 0 .. 9 /\ rec.cleanup \in 0 .. 7
  BY DEF CleanupCheckpoint
<1>2. n.phase = rec.phase /\ n.cleanup = rec.cleanup + 1 /\ n # None /\ n \in Records
  BY <1>1 DEF NextCleanup
<1>3. \/ UNCHANGED <<rec, exposed>>
      \/ rec' = n /\ exposed' \subseteq {rec, n}
  BY <1>1, PublishExposes DEF CleanupCheckpoint
<1>4. \A i \in 1 .. n.cleanup : CleanupEffect(i - 1) \cap host = {}
  <2>1. \A i \in 1 .. rec.cleanup : CleanupEffect(i - 1) \cap host = {}
    BY <1>1 DEF RecordNeverAhead
  <2>2. CleanupEffect(n.cleanup - 1) \cap host = {}
    <3>1. n.cleanup - 1 = rec.cleanup
      BY <1>1, <1>2
    <3> QED BY <1>1, <3>1 DEF CheckpointInv
  <2>3. \A i \in 1 .. n.cleanup : i \in 1 .. rec.cleanup \/ i = n.cleanup
    BY <1>1, <1>2
  <2> QED BY <2>1, <2>2, <2>3
<1>5. host' = host /\ step' # "checkpoint" /\ mode' # "setup"
  BY <1>1 DEF CleanupCheckpoint, Idle
<1>6. \A i \in 1 .. rec.cleanup : CleanupEffect(i - 1) \cap host = {}
  BY <1>1 DEF RecordNeverAhead
<1> HIDE DEF n
<1>7. \A r \in exposed' : r = rec \/ r = n
  BY <1>1, <1>3
<1>8. RecordNeverAhead'
  BY <1>1, <1>2, <1>4, <1>5, <1>6, <1>7 DEF RecordNeverAhead
<1>9. CheckpointInv'
  BY <1>1, <1>2, <1>3, <1>5 DEF CheckpointInv
<1> QED BY <1>8, <1>9

\* The effect of a setup checkpoint completes what that checkpoint expects,
\* and takes away only what the checkpoint before it allows to be missing.
LEMMA SetupEffectTrue ==
    ASSUME RecordInv, SetupEffectSucceeds PROVE RecordNeverAhead' /\ CheckpointInv'
<1> USE SetupAssumption DEF RecordInv, SetupInv, TypeOK, JourneyInv, Records, CleanupSteps,
        ActivationCommitted, Running
<1> DEFINE p == rec.phase
           adds == SetupEffect(p + 1).adds
           drops == SetupEffect(p + 1).drops
<1>1. /\ mode = "setup" /\ step = "effect" /\ exposed = {rec} /\ rec # None
      /\ p \in 0 .. 12 /\ rec.cleanup = 0
      /\ host' = (host \cup adds) \ drops /\ step' = "checkpoint" /\ UNCHANGED <<rec, exposed, mode>>
  BY DEF SetupEffectSucceeds
<1>2. Expected(p) \ (drops \cup {"active"}) \subseteq host
  BY <1>1 DEF RecordNeverAhead
<1> HIDE DEF p
<1>3. Expected(p + 1) \subseteq (Expected(p) \cup adds) \ drops
  <2>1. p \in Nat
    BY <1>1
  <2> QED BY <2>1, ExpectedStep
<1> HIDE DEF adds, drops
<1>4. Expected(p + 1) \ {"active"} \subseteq host'
  BY <1>1, <1>2, <1>3
<1>5. Expected(p) \ (drops \cup {"active"}) \subseteq host'
  BY <1>1, <1>2
<1>6. RecordNeverAhead'
  BY <1>1, <1>5 DEF RecordNeverAhead, p, drops
<1>7. CheckpointInv'
  <2>1. Expected(rec'.phase + 1) \ (SetupEffect(rec'.phase + 2).drops \cup {"active"}) \subseteq host'
    BY <1>1, <1>4 DEF p
  <2>2. rec'.phase >= ActivationCommitted => \A r \in exposed' : r # None /\ r.phase >= ActivationCommitted - 1
    BY <1>1
  <2> QED BY <1>1, <2>1, <2>2 DEF CheckpointInv
<1> QED BY <1>6, <1>7

\* The host shrinks, or a part of an effect remains of a failure: nothing that
\* some record promises is lost, and nothing a cleanup removed comes back.
LEMMA SetupFailureTrue ==
    ASSUME RecordInv, SetupEffectFails PROVE RecordNeverAhead' /\ CheckpointInv'
<1> USE SetupAssumption DEF RecordInv, SetupInv, TypeOK, JourneyInv, Records, CleanupSteps,
        ActivationCommitted, Running
<1> DEFINE p == rec.phase
<1>1. /\ mode = "setup" /\ step = "effect" /\ exposed = {rec} /\ rec # None
      /\ p \in 0 .. 12 /\ rec.cleanup = 0 /\ UNCHANGED <<rec, exposed>>
      /\ mode' # "setup" /\ step' \notin {"effect", "checkpoint"}
  BY DEF SetupEffectFails, AfterFailedEffect, Idle
<1>2. Expected(p) \ (SetupEffect(p + 1).drops \cup {"active"}) \subseteq host
  BY <1>1 DEF RecordNeverAhead
<1>3. host \ SetupEffect(p + 1).drops \subseteq host'
  BY <1>1, SetupFragmentFacts DEF SetupEffectFails
<1> HIDE DEF p
<1>4. Expected(p) \ (SetupEffect(p + 1).drops \cup {"active"}) \subseteq host'
  BY <1>2, <1>3
<1>5. RecordNeverAhead'
  BY <1>1, <1>4 DEF RecordNeverAhead, p
<1>6. CheckpointInv'
  BY <1>1 DEF CheckpointInv
<1> QED BY <1>5, <1>6

\* Finish setup starts from a committed record whose effects Review has just
\* seen in place.
LEMMA FinishSetupTrue ==
    ASSUME RecordInv, FinishSetup PROVE RecordNeverAhead' /\ CheckpointInv'
<1> USE SetupAssumption DEF RecordInv, SetupInv, TypeOK, JourneyInv, Records, CleanupSteps,
        ActivationCommitted, Running
<1>1. /\ rec # None /\ rec.phase >= ActivationCommitted /\ Ready(host)
      /\ step' = "synchronize" /\ UNCHANGED <<rec, exposed, host>>
  BY DEF FinishSetup, Recovery, Direction
<1>2. \A r \in exposed : r \in Records /\ r.phase >= 9
  BY <1>1 DEF CheckpointInv
<1>3. ASSUME NEW r \in exposed
      PROVE  /\ Expected(r.phase) \ (SetupEffect(r.phase + 1).drops \cup {"active"}) \subseteq host
             /\ \A i \in 1 .. r.cleanup : CleanupEffect(i - 1) \cap host = {}
  <2>1. \A i \in 1 .. r.cleanup : CleanupEffect(i - 1) \cap host = {}
    BY <1>2 DEF RecordNeverAhead
  <2>2. CASE r.phase >= ActivationCommitted
    BY <1>2, <2>1, <2>2 DEF RecordNeverAhead
  <2>3. CASE ~(r.phase >= ActivationCommitted)
    <3>1. r.phase = 9
      BY <1>2, <2>3
    <3>2. Expected(9) \subseteq host
      BY <1>1, ReadyIsExpected
    <3> QED BY <2>1, <3>1, <3>2
  <2> QED BY <2>2, <2>3
<1>4. RecordNeverAhead'
  BY <1>1, <1>3 DEF RecordNeverAhead
<1>5. CheckpointInv'
  BY <1>1 DEF CheckpointInv
<1> QED BY <1>4, <1>5

\* A boot can only start a service that is enabled, and then every record a
\* power loss could have left is committed and has no cleanup behind it.
LEMMA PowerLossTrue ==
    ASSUME RecordInv, PowerLoss PROVE RecordNeverAhead' /\ CheckpointInv'
<1> USE SetupAssumption DEF RecordInv, SetupInv, TypeOK, JourneyInv, Records, CleanupSteps,
        ActivationCommitted, Running
<1>1. rec' \in exposed /\ exposed' = {rec'} /\ mode' = "idle" /\ step' = "done"
  BY DEF PowerLoss, Idle
<1>2. \/ host' = host \ {"active"}
      \/ "enabled" \in host /\ host' = host \cup {"active"}
  BY DEF PowerLoss
<1>3. RecordNeverAhead'
  <2> SUFFICES ASSUME rec' # None
               PROVE  /\ rec'.phase >= ActivationCommitted =>
                            Expected(rec'.phase) \ (SetupEffect(rec'.phase + 1).drops \cup {"active"}) \subseteq host'
                      /\ \A i \in 1 .. rec'.cleanup : CleanupEffect(i - 1) \cap host' = {}
    BY <1>1 DEF RecordNeverAhead
  <2>1. rec'.phase >= ActivationCommitted =>
            Expected(rec'.phase) \ (SetupEffect(rec'.phase + 1).drops \cup {"active"}) \subseteq host
    BY <1>1 DEF RecordNeverAhead
  <2>2. \A i \in 1 .. rec'.cleanup : CleanupEffect(i - 1) \cap host = {}
    BY <1>1 DEF RecordNeverAhead
  <2>3. CASE host' = host \ {"active"}
    BY <2>1, <2>2, <2>3
  <2>4. CASE "enabled" \in host /\ host' = host \cup {"active"}
    <3>1. rec'.phase >= ActivationCommitted
      BY <1>1, <2>4 DEF LiveProxyIsCommitted, DurablyCommitted, Stopped
    <3>2. rec'.cleanup = 0
      BY <1>1, <3>1
    <3> QED BY <2>1, <2>4, <3>1, <3>2
  <2> QED BY <1>2, <2>3, <2>4
<1>4. CheckpointInv'
  BY <1>1 DEF CheckpointInv
<1> QED BY <1>3, <1>4

\* What cleanup publishes of an interrupted journey was true when it was staged.
LEMMA PromoteTrue ==
    ASSUME RecordInv, Promote PROVE RecordNeverAhead' /\ CheckpointInv'
<1> USE SetupAssumption DEF RecordInv, SetupInv, TypeOK, JourneyInv, Records, CleanupSteps,
        ActivationCommitted, Running
<1>1. /\ mode = "cleanup" /\ rec # None /\ rec.phase < ActivationCommitted /\ rec \in exposed
      /\ mode' # "setup" /\ step' # "checkpoint" /\ host' = host
  BY DEF Promote, Idle
<1>2. CASE UNCHANGED <<rec, exposed>>
  BY <1>1, <1>2 DEF RecordNeverAhead, CheckpointInv
<1>3. CASE staged # None /\ rec' = staged /\ exposed' \subseteq {rec, staged}
  <2>1. staged \in Records /\ staged.phase < ActivationCommitted
    BY <1>1, <1>3
  <2>2. \A i \in 1 .. staged.cleanup : CleanupEffect(i - 1) \cap host = {}
    BY <2>1 DEF StagedInv
  <2>3. \A i \in 1 .. rec.cleanup : CleanupEffect(i - 1) \cap host = {}
    BY <1>1 DEF RecordNeverAhead
  <2>4. RecordNeverAhead'
    BY <1>1, <1>3, <2>1, <2>2, <2>3 DEF RecordNeverAhead
  <2>5. CheckpointInv'
    BY <1>1, <1>3, <2>1 DEF CheckpointInv
  <2> QED BY <2>4, <2>5
<1> QED BY <1>1, <1>2, <1>3, PublishExposes DEF Promote

\* A cleanup step only takes away, from a host that no committed record owns.
LEMMA CleanupEffectTrue ==
    ASSUME RecordInv, CleanupEffectSucceeds \/ CleanupEffectFails PROVE RecordNeverAhead' /\ CheckpointInv'
<1> USE SetupAssumption DEF RecordInv, SetupInv, TypeOK, JourneyInv, Records, CleanupSteps,
        ActivationCommitted, Running
<1>1. /\ mode = "cleanup" /\ step = "effect" /\ exposed = {rec} /\ rec # None
      /\ rec.phase < ActivationCommitted /\ UNCHANGED <<rec, exposed>>
      /\ mode' # "setup" /\ host' \subseteq host \cup {"fragment"}
      /\ step' = "checkpoint" => host' = host \ CleanupEffect(rec.cleanup)
  BY CleanupFragmentFacts DEF CleanupEffectSucceeds, CleanupEffectFails, Idle
<1>2. \A i \in 1 .. rec.cleanup : CleanupEffect(i - 1) \cap host' = {}
  <2>1. \A i \in 1 .. rec.cleanup : CleanupEffect(i - 1) \cap host = {}
    BY <1>1 DEF RecordNeverAhead
  <2> QED BY <1>1, <2>1, CleanupFragmentFacts
<1>3. RecordNeverAhead'
  BY <1>1, <1>2 DEF RecordNeverAhead
<1>4. step' = "checkpoint" => CleanupEffect(rec.cleanup) \cap host' = {}
  BY <1>1
<1>5. CheckpointInv'
  BY <1>1, <1>4 DEF CheckpointInv
<1> QED BY <1>3, <1>5

\* A staged record is written after the effect it stands for, and resources
\* only come to the host when no cleanup is staged.
LEMMA StagedInvStep == ASSUME RecordInv, [Next]_vars PROVE StagedInv'
<1> USE SetupAssumption
<1> DEFINE Gone(r, h) == \A i \in 1 .. r.cleanup : CleanupEffect(i - 1) \cap h = {}
<1>1. \A r, h, k : Gone(r, h) /\ k \subseteq h \cup {"fragment"} => Gone(r, k)
  BY CleanupFragmentFacts
<1>2. \A r, h : r.cleanup = 0 => Gone(r, h)
  OBVIOUS
<1>3. staged \in Records => Gone(staged, host) /\ (mode = "setup" => staged.cleanup = 0)
  BY DEF RecordInv, StagedInv
<1>4. rec # None => Gone(rec, host)
  BY DEF RecordInv, SetupInv, TypeOK, RecordNeverAhead
<1> SUFFICES staged' \in Records => Gone(staged', host') /\ (mode' = "setup" => staged'.cleanup = 0)
  BY DEF StagedInv
<1>5. mode # "idle" => rec \in Records
  BY DEF RecordInv, SetupInv, TypeOK, JourneyInv
<1>6. staged' = None \/ staged' = Torn => staged' \notin Records
  OBVIOUS
<1> HIDE DEF Gone
<1>7. ASSUME NEW n, PublishSucceeds(n) \/ PublishFails(n) PROVE staged' \in {staged, n, None, Torn}
  BY <1>7 DEF PublishSucceeds, PublishFails
<1>8. CASE UNCHANGED staged /\ host' \subseteq host \cup {"fragment"} /\ (mode' = "setup" => mode = "setup")
  BY <1>1, <1>3, <1>8
<1>9. CASE StartSetup
  <2>1. First.cleanup = 0
    BY DEF First
  <2>2. UNCHANGED host /\ staged = None
    BY <1>9 DEF StartSetup, Recovery, Direction
  <2>3. staged' \in {None, First, Torn}
    BY <1>7, <1>9, <2>2 DEF StartSetup
  <2> QED BY <1>2, <1>6, <2>1, <2>2, <2>3
<1>10. CASE FinishSetup
  <2>1. staged \in Records => staged.cleanup = 0
    BY <1>10, SetupAssumption DEF FinishSetup, Recovery, PermitsSuccessor, NextSetup, Direction, RecordInv, SetupInv, TypeOK, Records,
       ActivationCommitted, Running
  <2> QED BY <1>3, <1>10, <2>1 DEF FinishSetup
<1>11. CASE Promote
  <2>1. host' = host /\ mode' # "setup" /\ staged' \in {staged, None, Torn}
    BY <1>7, <1>11 DEF Promote, Idle, RecordInv, SetupInv, JourneyInv
  <2> QED BY <1>3, <1>6, <2>1
<1>12. CASE SetupEffectSucceeds \/ SetupEffectFails
  <2>1. mode = "setup" /\ UNCHANGED staged
    BY <1>12 DEF SetupEffectSucceeds, SetupEffectFails
  <2> QED BY <1>2, <1>3, <2>1
<1>13. CASE SetupCheckpoint
  <2>1. mode = "setup" /\ host' = host /\ staged' \in {staged, NextSetup(rec), None, Torn}
    BY <1>7, <1>13 DEF SetupCheckpoint
  <2>2. NextSetup(rec).cleanup = 0
    BY <1>5, <2>1 DEF NextSetup, Records, RecordInv, SetupInv, JourneyInv
  <2> QED BY <1>2, <1>3, <1>6, <2>1, <2>2
<1>14. CASE CleanupCheckpoint
  <2>1. /\ mode = "cleanup" /\ mode' # "setup" /\ host' = host /\ rec # None
        /\ staged' \in {staged, NextCleanup(rec), None, Torn}
    BY <1>7, <1>14 DEF CleanupCheckpoint, Idle, RecordInv, SetupInv, JourneyInv
  <2>2. NextCleanup(rec).cleanup = rec.cleanup + 1 /\ rec.cleanup \in Nat
    BY <1>5, <2>1 DEF NextCleanup, Records
  <2>3. CleanupEffect(rec.cleanup) \cap host = {}
    BY <1>14 DEF CleanupCheckpoint, RecordInv, CheckpointInv
  <2>4. Gone(NextCleanup(rec), host)
    <3>1. \A i \in 1 .. rec.cleanup + 1 : i \in 1 .. rec.cleanup \/ i - 1 = rec.cleanup
      BY <2>2
    <3> QED BY <1>4, <2>1, <2>2, <2>3, <3>1 DEF Gone
  <2> QED BY <1>3, <1>6, <2>1, <2>4
<1>15. CASE PowerLoss
  <2>1. mode' = "idle" /\ staged' \in {staged, rec, None, Torn}
    BY <1>15 DEF PowerLoss, Idle
  <2>2. CASE host' = host \ {"active"}
    BY <1>1, <1>3, <1>4, <1>6, <2>1, <2>2
  <2>3. CASE "enabled" \in host /\ host' = host \cup {"active"}
    <3>1. \A r \in Records : Gone(r, host) => r.cleanup = 0
      <4>1. "enabled" \in CleanupEffect(0)
        BY DEF CleanupEffect
      <4>2. ASSUME NEW r \in Records, Gone(r, host), r.cleanup # 0 PROVE FALSE
        <5>1. 1 \in 1 .. r.cleanup
          BY <4>2 DEF Records, ActivationCommitted, CleanupSteps
        <5>2. CleanupEffect(1 - 1) \cap host = {}
          BY <4>2, <5>1 DEF Gone
        <5> QED BY <2>3, <4>1, <5>2
      <4> QED BY <4>2
    <3>2. rec \in Records \cup {None}
      BY DEF RecordInv, SetupInv, TypeOK
    <3> QED BY <1>2, <1>3, <1>4, <1>6, <2>1, <3>1, <3>2
  <2> QED BY <1>15, <2>2, <2>3 DEF PowerLoss
<1>16. CASE FinishCleanup \/ Synchronize \/ SetupEffectRefused \/ Kill \/ ServiceStops \/ RemoveRecord
  BY <1>8, <1>16 DEF FinishCleanup, Synchronize, SetupEffectRefused, AfterFailedEffect, Kill, ServiceStops,
     RemoveRecord, Idle
<1>17. CASE CleanupEffectSucceeds \/ CleanupEffectFails
  BY <1>8, <1>17, CleanupFragmentFacts DEF CleanupEffectSucceeds, CleanupEffectFails, Idle
<1>18. CASE UNCHANGED vars
  BY <1>8, <1>18 DEF vars
<1> QED
  BY <1>9, <1>10, <1>11, <1>12, <1>13, <1>14, <1>15, <1>16, <1>17, <1>18 DEF Next, JourneyStep

\* Every step keeps every record it leaves behind true.
LEMMA RecordInvStep == ASSUME RecordInv, [Next]_vars PROVE RecordInv'
<1> USE SetupAssumption
<1>0. SetupInv'
  BY SetupInvStep DEF RecordInv
<1> SUFFICES RecordNeverAhead' /\ CheckpointInv'
  BY <1>0, StagedInvStep DEF RecordInv
<1>1. CASE StartSetup
  <2>1. /\ rec = None /\ host = {} /\ host' = host /\ step' # "checkpoint"
        /\ \/ UNCHANGED <<rec, exposed>> /\ mode' = "idle"
           \/ rec' = First /\ exposed' \subseteq exposed \cup {First} /\ mode' = "idle"
           \/ rec' = First /\ exposed' = {First}
    BY <1>1 DEF StartSetup, PublishSucceeds, PublishFails, Recovery, Direction, Idle, RecordInv,
        SetupInv, TypeOK, Records
  <2>2. First.phase = 0 /\ First.cleanup = 0 /\ First # None
    BY DEF First, Records, ActivationCommitted, CleanupSteps
  <2>3. Expected(0) = {} /\ 1 .. 0 = {}
    BY ExpectedStep
  <2>4. \A r \in exposed' : r = None \/ r = First \/ r \in exposed
    BY <2>1
  <2>5. \A r \in exposed' \ {None} : r # First => mode' = "idle" /\ r \in exposed
    BY <2>1
  <2>6. RecordNeverAhead'
    <3> SUFFICES ASSUME NEW r \in exposed', r # None
                 PROVE  /\ r.phase >= ActivationCommitted \/ mode' = "setup" =>
                              Expected(r.phase) \ (SetupEffect(r.phase + 1).drops \cup {"active"}) \subseteq host'
                        /\ \A i \in 1 .. r.cleanup : CleanupEffect(i - 1) \cap host' = {}
      BY DEF RecordNeverAhead
    <3>1. CASE r = First
      BY <2>1, <2>2, <2>3, <3>1
    <3>2. CASE r # First
      BY <2>1, <2>5, <3>2 DEF RecordNeverAhead, RecordInv
    <3> QED BY <3>1, <3>2
  <2>7. CheckpointInv'
    BY <2>1, <2>2 DEF CheckpointInv, ActivationCommitted
  <2> QED BY <2>6, <2>7
<1>2. CASE FinishSetup
  BY <1>2, FinishSetupTrue
<1>3. CASE FinishCleanup
  BY <1>3 DEF FinishCleanup, RecordInv, RecordNeverAhead, CheckpointInv
<1>4. CASE Promote
  BY <1>4, PromoteTrue
<1>5. CASE Synchronize
  BY <1>5 DEF Synchronize, Idle, RecordInv, RecordNeverAhead, CheckpointInv, SetupInv, TypeOK
<1>6. CASE SetupEffectSucceeds
  BY <1>6, SetupEffectTrue
<1>7. CASE SetupEffectFails
  BY <1>7, SetupFailureTrue
<1>8. CASE SetupEffectRefused
  BY <1>8 DEF SetupEffectRefused, AfterFailedEffect, Idle, RecordInv, RecordNeverAhead, CheckpointInv
<1>9. CASE SetupCheckpoint
  BY <1>9, SetupCheckpointTrue
<1>10. CASE CleanupEffectSucceeds
  BY <1>10, CleanupEffectTrue
<1>11. CASE CleanupEffectFails
  BY <1>11, CleanupEffectTrue
<1>12. CASE CleanupCheckpoint
  BY <1>12, CleanupCheckpointTrue
<1>13. CASE RemoveRecord
  BY <1>13 DEF RemoveRecord, Idle, RecordInv, RecordNeverAhead, CheckpointInv, SetupInv, JourneyInv, TypeOK
<1>14. CASE Kill
  BY <1>14 DEF Kill, Idle, RecordInv, RecordNeverAhead, CheckpointInv
<1>15. CASE ServiceStops
  BY <1>15 DEF ServiceStops, RecordInv, RecordNeverAhead, CheckpointInv
<1>16. CASE PowerLoss
  BY <1>16, PowerLossTrue
<1>17. CASE UNCHANGED vars
  BY <1>17 DEF vars, RecordInv, RecordNeverAhead, CheckpointInv
<1> QED
  BY <1>1, <1>2, <1>3, <1>4, <1>5, <1>6, <1>7, <1>8, <1>9, <1>10, <1>11, <1>12, <1>13, <1>14,
     <1>15, <1>16, <1>17 DEF Next, JourneyStep

\* Whatever record recovery finds, the effects it stands for are in place and
\* what its cleanup steps removed is gone, for any number of failures.
THEOREM RecordTellsTheTruth == Spec => []RecordNeverAhead
<1>1. Spec => []RecordInv
  BY RecordInvInit, RecordInvStep, PTL DEF Spec
<1>2. RecordInv => RecordNeverAhead
  BY DEF RecordInv
<1> QED BY <1>1, <1>2, PTL

-----------------------------------------------------------------------------
(* Setup with a tunnel.                                                    *)

\* The connector's part of TypeOK.
ConnectorTypes ==
    /\ conn \subseteq ConnectorFiles
    /\ svc \in Contents \cup {"off", "restarting"} /\ launched \in Contents \cup {"off", "restarting"}
    /\ token \in Contents \cup {"missing"} /\ binary \in Contents \cup {"missing"}

\* What a record holds, and what its two successors hold.
LEMMA RecordFacts ==
    ASSUME NEW r \in Records
    PROVE  /\ r.phase \in 0 .. 13 /\ r.cleanup \in 0 .. 8
           /\ r.phase >= 10 => r.cleanup = 0
           /\ r.phase < 13 /\ r.cleanup = 0 =>
                 /\ NextSetup(r) \in Records
                 /\ NextSetup(r).phase = r.phase + 1 /\ NextSetup(r).cleanup = 0
           /\ r.phase < 10 /\ r.cleanup < 8 =>
                 /\ NextCleanup(r) \in Records
                 /\ NextCleanup(r).phase = r.phase /\ NextCleanup(r).cleanup = r.cleanup + 1
  BY DEF Records, NextSetup, NextCleanup, ActivationCommitted,
     CleanupSteps, Running

\* The record a setup starts with.
LEMMA FirstFacts ==
    First \in Records /\ First.phase = 0 /\ First.cleanup = 0
  BY DEF First, Records, ActivationCommitted, CleanupSteps, Running

\* The unit is made of the connector's files at every point of its
\* installation and of its removal.
LEMMA StageFacts ==
    ASSUME conn \subseteq ConnectorFiles
    PROVE  /\ InstalledUnit \subseteq ConnectorFiles
           /\ \A c \in InstallStages : c \subseteq ConnectorFiles
           /\ \A c \in RemoveStages : c \subseteq ConnectorFiles
<1> USE DEF ConnectorFiles, InstalledUnit
<1>1. InstalledUnit \subseteq ConnectorFiles
  OBVIOUS
<1>2. \A c \in InstallStages : c \subseteq ConnectorFiles
  BY DEF InstallStages
<1>3. \A c \in RemoveStages : c \subseteq ConnectorFiles
  BY DEF RemoveStages
<1> QED
  BY <1>1, <1>2, <1>3

\* The record, the staged record, the exposed ones and the host stay in their
\* sets, and the installed record is always one a power loss could leave.
LEMMA RecordTypesStep ==
    ASSUME TunnelInv, [TunnelNext]_tunnelVars PROVE RecordTypes'
<1> USE RecordFacts, SetupAssumption DEF TunnelInv, RecordTypes, TunnelTypeOK, Contents,
    TunnelJourneyInv, ConnectorEmpty, CleanupSteps, ActivationCommitted, Running
<1>1. CASE TunnelStartSetup
  BY <1>1, FirstFacts DEF TunnelStartSetup, Empty, PublishSucceeds, PublishFails,
      Fault, Idle
<1>2. CASE TunnelFinishSetup
  BY <1>2 DEF TunnelFinishSetup, PrerequisitesMatch, TunnelObservable, TunnelRecovery,
      ConnectorObservable, HostObservable, Direction, PermitsSuccessor,
      Installed
<1>3. CASE TunnelFinishCleanup
  BY <1>3 DEF TunnelFinishCleanup, TunnelObservable, TunnelRecovery, connvars, ConnectorObservable,
      HostObservable, Direction, PermitsSuccessor, Installed
<1>4. CASE TunnelPromote
  BY <1>4 DEF TunnelPromote, PublishSucceeds, PublishFails, Fault, Idle,
      connvars
<1>5. CASE TunnelSynchronize
  BY <1>5 DEF TunnelSynchronize, Fault, Idle, connvars
<1>6. CASE EffectSucceeds
  BY <1>6, EffectFacts DEF EffectSucceeds, AfterEffect, connvars
<1>7. CASE EffectFails
  <2>1. ASSUME TunnelAdmitted(rec.phase + 1), host' \in SetupFragments(rec.phase + 1, host)
        PROVE  /\ host' \subseteq host \cup SetupEffect(rec.phase + 1).adds \cup {"fragment"}
               /\ host' \subseteq Resources
    <3>1. rec.phase + 1 \in 1 .. 13
      BY <1>7 DEF EffectFails
    <3>2. host \in SUBSET Resources /\ "fragment" \in Resources
      BY DEF Resources
    <3>3. SetupEffect(rec.phase + 1).adds \subseteq Resources
      BY <3>1, EffectFacts
    <3> HIDE DEF TunnelInv, RecordTypes
    <3>4. host' \subseteq host \cup SetupEffect(rec.phase + 1).adds \cup {"fragment"}
      BY <2>1, <3>1, <3>2, SetupFragmentFacts
    <3> QED BY <3>2, <3>3, <3>4
  <2> QED BY <1>7, <2>1, EffectFacts DEF EffectFails, Fault, Idle, connvars
<1>8. CASE InstallConnector
  BY <1>8 DEF InstallConnector, ConnectorObservable, PrerequisitesMatch, Fault,
      Idle, Installed
<1>9. CASE CheckPrerequisites
  BY <1>9 DEF CheckPrerequisites, Installed, ConnectorObservable, PrerequisitesMatch,
      Idle, connvars
<1>10. CASE StartConnector
  BY <1>10 DEF StartConnector, Image, Idle
<1>11. CASE ProveRunning
  BY <1>11 DEF ProveRunning, TunnelObservable, Idle, connvars, ConnectorObservable,
      HostObservable, Installed
<1>12. CASE TunnelSetupCheckpoint
  BY <1>12 DEF TunnelSetupCheckpoint, PublishSucceeds, PublishFails, Fault,
      Idle, connvars
<1>13. CASE RemoveConnector
  BY <1>13 DEF RemoveConnector, RemoveStages, ConnectorObservable, Fault, Idle,
      Loaded, Installed
<1>14. CASE TunnelCleanupEffect
  <2>1. host' \subseteq host \cup {"fragment"} /\ "fragment" \in Resources
    BY <1>14, CleanupFragmentFacts DEF TunnelCleanupEffect, Resources
  <2> QED BY <1>14, <2>1 DEF TunnelCleanupEffect, HostObservable, Fault, Idle, connvars
<1>15. CASE TunnelCleanupCheckpoint
  BY <1>15 DEF TunnelCleanupCheckpoint, PublishSucceeds, PublishFails, Fault,
      Idle, connvars
<1>16. CASE TunnelRemoveRecord
  BY <1>16 DEF TunnelRemoveRecord, Empty, Fault, Idle, connvars
<1>17. CASE TunnelKill
  BY <1>17 DEF TunnelKill, Fault, Idle, connvars
<1>18. CASE OwnerChangesFiles
  BY <1>18 DEF OwnerChangesFiles, Fault
<1>19. CASE ConnectorFails
  BY <1>19 DEF ConnectorFails, Fault
<1>20. CASE ProxyStops
  BY <1>20 DEF ProxyStops, Fault, connvars
<1>21. CASE TunnelPowerLoss
  <2>1. rec' \in exposed /\ exposed' = {rec'} /\ mode' = "idle" /\ step' = "done" /\ faults' \in 0 .. MaxFaults
    BY <1>21 DEF TunnelPowerLoss, PowerLoss, Fault, Idle
  <2>2. staged' \in Records \cup {None, Torn}
    BY <1>21 DEF TunnelPowerLoss, PowerLoss
  <2>3. host' \subseteq Resources
    BY <1>21 DEF TunnelPowerLoss, PowerLoss, Resources
  <2> QED
    BY <2>1, <2>2, <2>3
<1>22. CASE UNCHANGED <<rec, staged, exposed, host, faults, mode, step>>
  BY <1>22
<1> QED
  BY <1>1, <1>2, <1>3, <1>4, <1>5, <1>6, <1>7, <1>8, <1>9, <1>10, <1>11, <1>12, <1>13, <1>14,
     <1>15, <1>16, <1>17, <1>18, <1>19, <1>20, <1>21, <1>22
  DEF TunnelNext, TunnelJourneyStep, Others, ConnectorRestarts, tunnelVars

\* The unit, the service and the Owner's two files stay in their sets.
LEMMA ConnectorTypesStep ==
    ASSUME TunnelInv, [TunnelNext]_tunnelVars PROVE ConnectorTypes'
<1> USE DEF TunnelInv, RecordTypes, TunnelTypeOK, Contents, TunnelJourneyInv, ConnectorEmpty,
    ConnectorTypes, ConnectorFiles
<1>1. CASE TunnelStartSetup
  BY <1>1 DEF TunnelStartSetup, Empty, PublishSucceeds, PublishFails, Fault,
      Idle
<1>2. CASE TunnelFinishSetup
  BY <1>2 DEF TunnelFinishSetup, PrerequisitesMatch, TunnelObservable, TunnelRecovery,
      ConnectorObservable, HostObservable, Direction, PermitsSuccessor,
      Installed
<1>3. CASE InstallConnector
  BY <1>3, StageFacts DEF InstallConnector, ConnectorObservable, PrerequisitesMatch,
      Fault, Idle, Installed
<1>4. CASE StartConnector
  BY <1>4 DEF StartConnector, Image, Idle
<1>5. CASE RemoveConnector
  BY <1>5, StageFacts DEF RemoveConnector, RemoveStages, ConnectorObservable, Fault,
      Idle, Loaded, Installed
<1>6. CASE OwnerChangesFiles
  BY <1>6 DEF OwnerChangesFiles, Fault
<1>7. CASE ConnectorFails
  BY <1>7 DEF ConnectorFails, Fault
<1>8. CASE ConnectorRestarts
  BY <1>8 DEF ConnectorRestarts, Image
<1>9. CASE TunnelPowerLoss
  BY <1>9 DEF TunnelPowerLoss, Image, PowerLoss, Fault, Idle
<1>10. CASE UNCHANGED <<conn, svc, launched, token, binary>>
  BY <1>10
<1> QED
  BY <1>1, <1>2, <1>3, <1>4, <1>5, <1>6, <1>7, <1>8, <1>9, <1>10
  DEF TunnelNext, TunnelJourneyStep, Others, TunnelFinishCleanup, TunnelPromote, TunnelSynchronize,
      EffectSucceeds, EffectFails, CheckPrerequisites, ProveRunning, TunnelSetupCheckpoint,
      TunnelCleanupEffect, TunnelCleanupCheckpoint, TunnelRemoveRecord, TunnelKill, ProxyStops, connvars,
      tunnelVars

\* Resources and a connector appear only under a synchronized record, and the
\* record goes only after the proof that nothing is left.
LEMMA OwnedStep ==
    ASSUME TunnelInv, [TunnelNext]_tunnelVars PROVE TunnelResourcesAreOwned'
<1> USE RecordFacts, SetupAssumption DEF TunnelInv, RecordTypes, TunnelTypeOK, Contents,
    TunnelJourneyInv, ConnectorEmpty, TunnelResourcesAreOwned, CleanupSteps,
    ActivationCommitted, Running
<1>1. CASE TunnelStartSetup
  BY <1>1, FirstFacts DEF TunnelStartSetup, Empty, PublishSucceeds, PublishFails,
      Fault, Idle
<1>2. CASE TunnelPromote
  BY <1>2 DEF TunnelPromote, PublishSucceeds, PublishFails, Fault, Idle,
      connvars
<1>3. CASE TunnelSynchronize
  BY <1>3 DEF TunnelSynchronize, Fault, Idle, connvars
<1>4. CASE EffectSucceeds
  BY <1>4, EffectFacts DEF EffectSucceeds, AfterEffect, connvars
<1>5. CASE EffectFails
  BY <1>5, EffectFacts DEF EffectFails, Fault, Idle, connvars
<1>6. CASE InstallConnector
  BY <1>6 DEF InstallConnector, ConnectorObservable, PrerequisitesMatch, Fault,
      Idle, Installed
<1>7. CASE StartConnector
  BY <1>7 DEF StartConnector, Image, Idle
<1>8. CASE TunnelSetupCheckpoint
  BY <1>8 DEF TunnelSetupCheckpoint, PublishSucceeds, PublishFails, Fault,
      Idle, connvars
<1>9. CASE RemoveConnector
  BY <1>9 DEF RemoveConnector, RemoveStages, ConnectorObservable, Fault, Idle,
      Loaded, Installed
<1>10. CASE TunnelCleanupEffect
  BY <1>10 DEF TunnelCleanupEffect, HostObservable, Fault, Idle, connvars
<1>11. CASE TunnelCleanupCheckpoint
  BY <1>11 DEF TunnelCleanupCheckpoint, PublishSucceeds, PublishFails, Fault,
      Idle, connvars
<1>12. CASE TunnelRemoveRecord
  BY <1>12 DEF TunnelRemoveRecord, Empty, Fault, Idle, connvars
<1>13. CASE ConnectorFails
  BY <1>13 DEF ConnectorFails, Fault
<1>14. CASE ConnectorRestarts
  BY <1>14 DEF ConnectorRestarts, Image
<1>15. CASE ProxyStops
  BY <1>15 DEF ProxyStops, Fault, connvars
<1>16. CASE TunnelPowerLoss
  BY <1>16 DEF TunnelPowerLoss, Image, PowerLoss, Fault, Idle
<1>17. CASE UNCHANGED <<host, conn, svc, exposed>>
  BY <1>17
<1> QED
  BY <1>1, <1>2, <1>3, <1>4, <1>5, <1>6, <1>7, <1>8, <1>9, <1>10, <1>11, <1>12, <1>13, <1>14,
     <1>15, <1>16, <1>17
  DEF TunnelNext, TunnelJourneyStep, Others, TunnelFinishSetup, TunnelFinishCleanup, CheckPrerequisites,
      ProveRunning, TunnelKill, OwnerChangesFiles, connvars, tunnelVars

\* The proxy is enabled or started only by the effects after Activation
\* committed, from a record no power loss can take.
LEMMA LiveStep ==
    ASSUME TunnelInv, [TunnelNext]_tunnelVars PROVE LiveProxyIsCommitted'
<1> USE RecordFacts, SetupAssumption DEF TunnelInv, RecordTypes, TunnelTypeOK, Contents,
    TunnelJourneyInv, ConnectorEmpty, LiveProxyIsCommitted,
    DurablyCommitted, Stopped, CleanupSteps, ActivationCommitted,
    Running
<1>1. CASE TunnelStartSetup
  BY <1>1, FirstFacts DEF TunnelStartSetup, Empty, PublishSucceeds, PublishFails,
      Fault, Idle
<1>2. CASE TunnelPromote
  BY <1>2 DEF TunnelPromote, PublishSucceeds, PublishFails, Fault, Idle,
      connvars
<1>3. CASE TunnelSynchronize
  BY <1>3 DEF TunnelSynchronize, Fault, Idle, connvars
<1>4. CASE EffectSucceeds
  BY <1>4, EffectFacts DEF EffectSucceeds, AfterEffect, connvars
<1>5. CASE EffectFails
  <2>1. ASSUME TunnelAdmitted(rec.phase + 1), host' \in SetupFragments(rec.phase + 1, host)
        PROVE  /\ host' \subseteq host \cup SetupEffect(rec.phase + 1).adds \cup {"fragment"}
               /\ host' \subseteq Resources
    <3>1. rec.phase + 1 \in 1 .. 13
      BY <1>5 DEF EffectFails
    <3>2. host \in SUBSET Resources /\ "fragment" \in Resources
      BY DEF Resources
    <3>3. SetupEffect(rec.phase + 1).adds \subseteq Resources
      BY <3>1, EffectFacts
    <3> HIDE DEF TunnelInv, RecordTypes
    <3>4. host' \subseteq host \cup SetupEffect(rec.phase + 1).adds \cup {"fragment"}
      BY <2>1, <3>1, <3>2, SetupFragmentFacts
    <3> QED BY <3>2, <3>3, <3>4
  <2> QED BY <1>5, <2>1, EffectFacts DEF EffectFails, Fault, Idle, connvars
<1>6. CASE TunnelSetupCheckpoint
  BY <1>6 DEF TunnelSetupCheckpoint, PublishSucceeds, PublishFails, Fault,
      Idle, connvars
<1>7. CASE TunnelCleanupEffect
  <2>1. host' \subseteq host \cup {"fragment"} /\ "fragment" \in Resources
    BY <1>7, CleanupFragmentFacts DEF TunnelCleanupEffect, Resources
  <2> QED BY <1>7, <2>1 DEF TunnelCleanupEffect, HostObservable, Fault, Idle, connvars
<1>8. CASE TunnelCleanupCheckpoint
  BY <1>8 DEF TunnelCleanupCheckpoint, PublishSucceeds, PublishFails, Fault,
      Idle, connvars
<1>9. CASE TunnelRemoveRecord
  BY <1>9 DEF TunnelRemoveRecord, Empty, Fault, Idle, connvars
<1>10. CASE ProxyStops
  BY <1>10 DEF ProxyStops, Fault, connvars
<1>11. CASE TunnelPowerLoss
  BY <1>11 DEF TunnelPowerLoss, Image, PowerLoss, Fault, Idle
<1>12. CASE UNCHANGED <<host, exposed>>
  BY <1>12
<1> QED
  BY <1>1, <1>2, <1>3, <1>4, <1>5, <1>6, <1>7, <1>8, <1>9, <1>10, <1>11, <1>12
  DEF TunnelNext, TunnelJourneyStep, Others, TunnelFinishSetup, TunnelFinishCleanup, InstallConnector,
      CheckPrerequisites, StartConnector, ProveRunning, RemoveConnector, TunnelKill,
      OwnerChangesFiles, ConnectorFails, ConnectorRestarts, tunnelVars

\* Cleanup takes the connector away before it works from any recorded step, and
\* a staged record with such a step was written after that.
LEMMA ConnectorStep ==
    ASSUME TunnelInv, [TunnelNext]_tunnelVars PROVE (ConnectorGoesFirst /\ TunnelStagedInv)'
<1> USE RecordFacts, SetupAssumption DEF TunnelInv, RecordTypes, TunnelTypeOK, Contents,
    TunnelJourneyInv, ConnectorEmpty, ConnectorGoesFirst, TunnelStagedInv, CleanupSteps,
    ActivationCommitted, Running
<1>1. CASE TunnelStartSetup
  BY <1>1, FirstFacts DEF TunnelStartSetup, Empty, PublishSucceeds, PublishFails,
      Fault, Idle
<1>2. CASE TunnelPromote
  BY <1>2 DEF TunnelPromote, PublishSucceeds, PublishFails, Fault, Idle,
      connvars
<1>3. CASE TunnelSynchronize
  BY <1>3 DEF TunnelSynchronize, Fault, Idle, connvars
<1>4. CASE InstallConnector
  BY <1>4 DEF InstallConnector, ConnectorObservable, PrerequisitesMatch, Fault,
      Idle, Installed
<1>5. CASE StartConnector
  BY <1>5 DEF StartConnector, Image, Idle
<1>6. CASE TunnelSetupCheckpoint
  BY <1>6 DEF TunnelSetupCheckpoint, PublishSucceeds, PublishFails, Fault,
      Idle, connvars
<1>7. CASE RemoveConnector
  BY <1>7 DEF RemoveConnector, RemoveStages, ConnectorObservable, Fault, Idle,
      Loaded, Installed
<1>8. CASE TunnelCleanupCheckpoint
  BY <1>8 DEF TunnelCleanupCheckpoint, PublishSucceeds, PublishFails, Fault,
      Idle, connvars
<1>9. CASE TunnelRemoveRecord
  BY <1>9 DEF TunnelRemoveRecord, Empty, Fault, Idle, connvars
<1>10. CASE ConnectorFails
  BY <1>10 DEF ConnectorFails, Fault
<1>11. CASE ConnectorRestarts
  BY <1>11 DEF ConnectorRestarts, Image
<1>12. CASE TunnelPowerLoss
  BY <1>12 DEF TunnelPowerLoss, Image, PowerLoss, Fault, Idle
<1>13. CASE UNCHANGED <<conn, svc, exposed, staged>>
  BY <1>13
<1> QED
  BY <1>1, <1>2, <1>3, <1>4, <1>5, <1>6, <1>7, <1>8, <1>9, <1>10, <1>11, <1>12, <1>13
  DEF TunnelNext, TunnelJourneyStep, Others, TunnelFinishSetup, TunnelFinishCleanup, EffectSucceeds,
      EffectFails, CheckPrerequisites, ProveRunning, TunnelCleanupEffect, TunnelKill,
      OwnerChangesFiles, ProxyStops, connvars, tunnelVars

\* A journey keeps to the direction of its record and has synchronized it
\* before it acts on the host.
LEMMA TunnelJourneyInvStep ==
    ASSUME TunnelInv, [TunnelNext]_tunnelVars PROVE TunnelJourneyInv'
<1> USE RecordFacts, SetupAssumption DEF TunnelInv, RecordTypes, TunnelTypeOK, Contents,
    TunnelJourneyInv, ConnectorEmpty, CleanupSteps, ActivationCommitted, Running
<1>1. CASE TunnelStartSetup
  BY <1>1, FirstFacts DEF TunnelStartSetup, Empty, PublishSucceeds, PublishFails,
      Fault, Idle
<1>2. CASE TunnelFinishSetup
  BY <1>2 DEF TunnelFinishSetup, PrerequisitesMatch, TunnelObservable, TunnelRecovery,
      ConnectorObservable, HostObservable, Direction, PermitsSuccessor,
      Installed
<1>3. CASE TunnelFinishCleanup
  BY <1>3 DEF TunnelFinishCleanup, TunnelObservable, TunnelRecovery, connvars, ConnectorObservable,
      HostObservable, Direction, PermitsSuccessor, Installed
<1>4. CASE TunnelPromote
  BY <1>4 DEF TunnelPromote, PublishSucceeds, PublishFails, Fault, Idle,
      connvars
<1>5. CASE TunnelSynchronize
  BY <1>5 DEF TunnelSynchronize, Fault, Idle, connvars
<1>6. CASE EffectSucceeds
  BY <1>6 DEF EffectSucceeds, AfterEffect, connvars
<1>7. CASE EffectFails
  BY <1>7 DEF EffectFails, Fault, Idle, connvars
<1>8. CASE InstallConnector
  BY <1>8 DEF InstallConnector, ConnectorObservable, PrerequisitesMatch, Fault,
      Idle, Installed
<1>9. CASE CheckPrerequisites
  BY <1>9 DEF CheckPrerequisites, Installed, ConnectorObservable, PrerequisitesMatch,
      Idle, connvars
<1>10. CASE StartConnector
  BY <1>10 DEF StartConnector, Image, Idle
<1>11. CASE ProveRunning
  BY <1>11 DEF ProveRunning, TunnelObservable, Idle, connvars, ConnectorObservable,
      HostObservable, Installed
<1>12. CASE TunnelSetupCheckpoint
  BY <1>12 DEF TunnelSetupCheckpoint, PublishSucceeds, PublishFails, Fault,
      Idle, connvars
<1>13. CASE RemoveConnector
  BY <1>13 DEF RemoveConnector, RemoveStages, ConnectorObservable, Fault, Idle,
      Loaded, Installed
<1>14. CASE TunnelCleanupEffect
  BY <1>14 DEF TunnelCleanupEffect, HostObservable, Fault, Idle, connvars
<1>15. CASE TunnelCleanupCheckpoint
  BY <1>15 DEF TunnelCleanupCheckpoint, PublishSucceeds, PublishFails, Fault,
      Idle, connvars
<1>16. CASE TunnelRemoveRecord
  BY <1>16 DEF TunnelRemoveRecord, Empty, Fault, Idle, connvars
<1>17. CASE TunnelKill
  BY <1>17 DEF TunnelKill, Fault, Idle, connvars
<1>18. CASE ConnectorFails
  BY <1>18 DEF ConnectorFails, Fault
<1>19. CASE ConnectorRestarts
  BY <1>19 DEF ConnectorRestarts, Image
<1>20. CASE TunnelPowerLoss
  BY <1>20 DEF TunnelPowerLoss, Image, PowerLoss, Fault, Idle
<1>21. CASE UNCHANGED <<rec, staged, exposed, mode, step, conn, svc>>
  BY <1>21
<1> QED
  BY <1>1, <1>2, <1>3, <1>4, <1>5, <1>6, <1>7, <1>8, <1>9, <1>10, <1>11, <1>12, <1>13, <1>14,
     <1>15, <1>16, <1>17, <1>18, <1>19, <1>20, <1>21
  DEF TunnelNext, TunnelJourneyStep, Others, OwnerChangesFiles, ProxyStops, connvars, tunnelVars

\* A setup knows the image it started for as long as the process lives, and a
\* checkpoint of Running is published only after that image was proved.
LEMMA TunnelLaunchStep ==
    ASSUME TunnelInv, [TunnelNext]_tunnelVars PROVE LaunchInv'
<1> USE RecordFacts, SetupAssumption DEF TunnelInv, RecordTypes, TunnelTypeOK, Contents,
    TunnelJourneyInv, ConnectorEmpty, LaunchInv, Ahead, CleanupSteps,
    ActivationCommitted, Running
<1>1. CASE TunnelStartSetup
  BY <1>1, FirstFacts DEF TunnelStartSetup, Empty, PublishSucceeds, PublishFails,
      Fault, Idle
<1>2. CASE TunnelFinishSetup
  BY <1>2 DEF TunnelFinishSetup, PrerequisitesMatch, TunnelObservable, TunnelRecovery,
      ConnectorObservable, HostObservable, Direction, PermitsSuccessor,
      Installed
<1>3. CASE TunnelFinishCleanup
  BY <1>3 DEF TunnelFinishCleanup, TunnelObservable, TunnelRecovery, connvars, ConnectorObservable,
      HostObservable, Direction, PermitsSuccessor, Installed
<1>4. CASE TunnelPromote
  BY <1>4 DEF TunnelPromote, PublishSucceeds, PublishFails, Fault, Idle,
      connvars
<1>5. CASE TunnelSynchronize
  BY <1>5 DEF TunnelSynchronize, Fault, Idle, connvars
<1>6. CASE EffectSucceeds
  BY <1>6 DEF EffectSucceeds, AfterEffect, connvars
<1>7. CASE EffectFails
  BY <1>7 DEF EffectFails, Fault, Idle, connvars
<1>8. CASE InstallConnector
  BY <1>8 DEF InstallConnector, ConnectorObservable, PrerequisitesMatch, Fault,
      Idle, Installed
<1>9. CASE CheckPrerequisites
  BY <1>9 DEF CheckPrerequisites, Installed, ConnectorObservable, PrerequisitesMatch,
      Idle, connvars
<1>10. CASE StartConnector
  BY <1>10 DEF StartConnector, Image, Idle
<1>11. CASE ProveRunning
  BY <1>11 DEF ProveRunning, TunnelObservable, Idle, connvars, ConnectorObservable,
      HostObservable, Installed
<1>12. CASE TunnelSetupCheckpoint
  BY <1>12 DEF TunnelSetupCheckpoint, PublishSucceeds, PublishFails, Fault,
      Idle, connvars
<1>13. CASE RemoveConnector
  BY <1>13 DEF RemoveConnector, RemoveStages, ConnectorObservable, Fault, Idle,
      Loaded, Installed
<1>14. CASE TunnelCleanupEffect
  BY <1>14 DEF TunnelCleanupEffect, HostObservable, Fault, Idle, connvars
<1>15. CASE TunnelCleanupCheckpoint
  BY <1>15 DEF TunnelCleanupCheckpoint, PublishSucceeds, PublishFails, Fault,
      Idle, connvars
<1>16. CASE TunnelRemoveRecord
  BY <1>16 DEF TunnelRemoveRecord, Empty, Fault, Idle, connvars
<1>17. CASE TunnelKill
  BY <1>17 DEF TunnelKill, Fault, Idle, connvars
<1>18. CASE ConnectorFails
  BY <1>18 DEF ConnectorFails, Fault
<1>19. CASE ConnectorRestarts
  BY <1>19 DEF ConnectorRestarts, Image
<1>20. CASE TunnelPowerLoss
  BY <1>20 DEF TunnelPowerLoss, Image, PowerLoss, Fault, Idle
<1>21. CASE UNCHANGED <<rec, exposed, mode, step, svc, launched>>
  BY <1>21
<1> QED
  BY <1>1, <1>2, <1>3, <1>4, <1>5, <1>6, <1>7, <1>8, <1>9, <1>10, <1>11, <1>12, <1>13, <1>14,
     <1>15, <1>16, <1>17, <1>18, <1>19, <1>20, <1>21
  DEF TunnelNext, TunnelJourneyStep, Others, OwnerChangesFiles, ProxyStops, connvars, tunnelVars

\* TypeOK is RecordTypes together with the types of the connector's variables.
LEMMA TunnelTypeStep ==
    ASSUME TunnelInv, [TunnelNext]_tunnelVars PROVE TunnelTypeOK'
<1>1. RecordTypes'
  BY RecordTypesStep
<1>2. ConnectorTypes'
  BY ConnectorTypesStep
<1>3. (TypeOK \/ step \in {"remove", "install", "start", "launch", "prove"})'
  BY <1>1 DEF RecordTypes, TypeOK
<1> QED
  BY <1>1, <1>2, <1>3 DEF TunnelTypeOK, RecordTypes, ConnectorTypes

\* A host with no record, no proxy and no connector satisfies the invariant.
LEMMA TunnelInvInit == TunnelInit => TunnelInv
<1> SUFFICES ASSUME TunnelInit PROVE TunnelInv
  OBVIOUS
<1> USE SetupAssumption DEF TunnelInit, Init
<1>1. RecordTypes
  BY DEF RecordTypes
<1>2. TypeOK
  BY <1>1 DEF RecordTypes, TypeOK
<1>3. TunnelTypeOK
  BY <1>1, <1>2 DEF TunnelTypeOK, RecordTypes, ConnectorFiles, Contents
<1>4. TunnelResourcesAreOwned /\ LiveProxyIsCommitted /\ ConnectorGoesFirst
  BY DEF TunnelResourcesAreOwned, ConnectorEmpty, LiveProxyIsCommitted,
     Stopped, ConnectorGoesFirst
<1>5. TunnelJourneyInv /\ TunnelStagedInv /\ LaunchInv
  BY DEF TunnelJourneyInv, TunnelStagedInv, LaunchInv, ConnectorEmpty
<1> QED
  BY <1>1, <1>3, <1>4, <1>5 DEF TunnelInv

\* Every step of the journey, of the Owner, of systemd and of a fault keeps it.
LEMMA TunnelInvStep == TunnelInv /\ [TunnelNext]_tunnelVars => TunnelInv'
<1> SUFFICES ASSUME TunnelInv, [TunnelNext]_tunnelVars PROVE TunnelInv'
  OBVIOUS
<1>1. RecordTypes' /\ TunnelTypeOK'
  BY RecordTypesStep, TunnelTypeStep
<1>2. TunnelResourcesAreOwned' /\ LiveProxyIsCommitted'
  BY OwnedStep, LiveStep
<1>3. ConnectorGoesFirst' /\ TunnelStagedInv'
  BY ConnectorStep
<1>4. TunnelJourneyInv' /\ LaunchInv'
  BY TunnelJourneyInvStep, TunnelLaunchStep
<1> QED
  BY <1>1, <1>2, <1>3, <1>4 DEF TunnelInv

\* The invariant of a setup with a tunnel: the record, the journey in execution,
\* the proxy, the connector and the image it runs agree in every reachable
\* state, whatever fails, whatever the Owner replaces and whenever power is lost.
THEOREM TunnelInvariant == TunnelSpec => []TunnelInv
  BY TunnelInvInit, TunnelInvStep, PTL DEF TunnelSpec

\* Wherever a tunnel setup or its cleanup is interrupted, a record no power loss
\* can take owns what is left of proxy and connector, a live proxy is durably
\* committed, and no recorded cleanup step finds the connector still there.
THEOREM TunnelOwnedInOrder == TunnelSpec => []OwnedInOrder
<1>1. TunnelInv => OwnedInOrder
  BY DEF TunnelInv, OwnedInOrder
<1> QED
  BY <1>1, TunnelInvariant, PTL

\* A record starts to say Running only by the checkpoint after ProveRunning, or
\* by a boot that finds it already installed.
LEMMA RunningIsRecordedOnce ==
    ASSUME TunnelInv, [TunnelNext]_tunnelVars, rec' # rec, Direction(rec') = "Running"
    PROVE  launched \in {"recorded", "off"}
<1> USE RecordFacts, SetupAssumption DEF TunnelInv, RecordTypes, TunnelJourneyInv, LaunchInv, Ahead,
    Direction, CleanupSteps, ActivationCommitted, Running
<1>1. CASE TunnelStartSetup
  BY <1>1, FirstFacts DEF TunnelStartSetup, PublishSucceeds, PublishFails
<1>2. CASE TunnelPromote
  BY <1>2 DEF TunnelPromote, PublishSucceeds, PublishFails
<1>3. CASE TunnelSetupCheckpoint
  BY <1>3 DEF TunnelSetupCheckpoint, PublishSucceeds, PublishFails
<1>4. CASE TunnelCleanupCheckpoint
  BY <1>4 DEF TunnelCleanupCheckpoint, PublishSucceeds, PublishFails
<1>5. CASE TunnelRemoveRecord
  BY <1>5 DEF TunnelRemoveRecord
<1>6. CASE TunnelPowerLoss
  BY <1>6 DEF TunnelPowerLoss, PowerLoss
<1>7. CASE UNCHANGED rec
  BY <1>7
<1> QED
  BY <1>1, <1>2, <1>3, <1>4, <1>5, <1>6, <1>7
  DEF TunnelNext, TunnelJourneyStep, Others, TunnelFinishSetup, TunnelFinishCleanup, TunnelSynchronize, EffectSucceeds,
      EffectFails, InstallConnector, CheckPrerequisites, StartConnector, ProveRunning,
      RemoveConnector, TunnelCleanupEffect, TunnelKill, OwnerChangesFiles, ConnectorFails,
      ConnectorRestarts, ProxyStops, tunnelVars

\* Setup never records Running while the connector process it started runs a
\* binary other than the reviewed one: the proof of the running image stands
\* between the start and the last checkpoint, and a process that ended in
\* between is no longer the one it started.
THEOREM ImageAlwaysReviewed == TunnelSpec => ImageIsReviewed
<1>1. TunnelInv /\ [TunnelNext]_tunnelVars =>
        [rec' # rec /\ Direction(rec') = "Running" => launched \in {"recorded", "off"}]_tunnelVars
  BY RunningIsRecordedOnce
<1> QED
  BY <1>1, TunnelInvariant, PTL DEF TunnelSpec, ImageIsReviewed

-----------------------------------------------------------------------------
(* The connection check.                                                   *)

\* The parts of the type invariant.
Kinds ==
    /\ pc \in Waiting \cup {"idle", "reviewed", "port", "bound", "stop"}
    /\ site \in {"first", "before", "after", "last"} /\ seen \in {"unasked", "free", "probe", "other"}
    /\ problem \in Problems /\ report \in Problems \cup {"verified"}
    /\ record \in RecordStates /\ base \in RecordStates /\ runtime \subseteq Services
    /\ leader \in {"none", "alive", "dying", "zombie", "reaped"} /\ group \in {"none", "alive", "dying"}
    /\ port \in {"free", "probe", "other"} /\ peer \in {"free", "probe", "other"}

CheckFlags == {guarded, cancelled, clean, dropping, stranger, struck} \subseteq BOOLEAN

Numbers == left \in 0 .. Budget /\ limit \in Nat /\ elapsed \in Nat /\ events \in 0 .. MaxEvents

\* The times are positive numbers, and the slack that Bounded allows is at least
\* an inspection begun in the last moment and two attempts to stop the probe.
LEMMA TimeFacts ==
    /\ Budget \in Nat /\ Exchange \in Nat /\ ReadyLimit \in Nat /\ Query \in Nat /\ Grace \in Nat
    /\ Budget > 0 /\ Exchange > 0 /\ ReadyLimit > 0 /\ Query > 0 /\ Grace > 0
    /\ MaxEvents \in Nat
    /\ Max({Query - 1, 2 * Grace}) \in Nat
    /\ Max({Query - 1, 2 * Grace}) >= Query - 1 /\ Max({Query - 1, 2 * Grace}) >= 2 * Grace
<1>1. /\ Budget \in Nat /\ Exchange \in Nat /\ ReadyLimit \in Nat /\ Query \in Nat /\ Grace \in Nat
      /\ Budget > 0 /\ Exchange > 0 /\ ReadyLimit > 0 /\ Query > 0 /\ Grace > 0
      /\ MaxEvents \in Nat
  BY TimesAssumption
<1>2. PICK m \in {Query - 1, 2 * Grace} : \A y \in {Query - 1, 2 * Grace} : m >= y
  BY <1>1
<1>3. /\ Max({Query - 1, 2 * Grace}) \in {Query - 1, 2 * Grace}
      /\ \A y \in {Query - 1, 2 * Grace} : Max({Query - 1, 2 * Grace}) >= y
  BY <1>2 DEF Max
<1> QED
  BY <1>1, <1>3

\* within: a wait is never given more than what is left of the budget.
LEMMA WithinFacts ==
    ASSUME NEW t \in Nat, left \in Nat
    PROVE  Within(t) \in Nat /\ Within(t) <= left
<1>1. PICK m \in {t, left} : \A y \in {t, left} : m <= y
  OBVIOUS
<1>2. Min({t, left}) \in {t, left} /\ \A y \in {t, left} : Min({t, left}) <= y
  BY <1>1 DEF Min
<1> QED
  BY <1>2 DEF Within

\* The places, outcomes, records and processes of a check stay in their sets.
LEMMA KindsStep ==
    ASSUME CheckInv, [CheckNext]_checkVars PROVE Kinds'
<1> USE DEF CheckInv, CheckTypeOK, Waiting, Problems, RecordStates, Kinds, ProbeInv, Spawned,
    Services
<1>1. CASE Review
  BY <1>1 DEF Review, Services, time, outcome, probe, world
<1>2. CASE Execute
  BY <1>2 DEF Execute, Pending, request, world, Timeless, probe, time
<1>3. CASE Authority
  BY <1>3 DEF Authority, Over, OverProblem, Pending, Proceed, Services, world,
      Timeless, request, probe, outcome, time
<1>4. CASE WebSocket("local", "public", Within(Exchange))
  BY <1>4 DEF WebSocket, Over, OverProblem, Pending, Proceed, ReplyProblem, Replies,
      request, world, Timeless, probe, outcome, time
<1>5. CASE WebSocket("public", "port", 0)
  BY <1>5 DEF WebSocket, Over, OverProblem, Pending, Proceed, ReplyProblem, Replies,
      request, world, Timeless, probe, outcome, time
<1>6. CASE ProbePort
  BY <1>6 DEF ProbePort, Over, OverProblem, Pending, Proceed, request, world,
      Timeless, probe, outcome, time
<1>7. CASE SpawnProbe
  BY <1>7 DEF SpawnProbe, Over, OverProblem, Pending, request, outcome, world,
      Timeless, probe, time
<1>8. CASE SendPlan
  BY <1>8 DEF SendPlan, Over, OverProblem, Abandon, TrafficEnds, Proceed, world,
      Timeless, request, outcome, probe, time
<1>9. CASE AskListener
  BY <1>9 DEF AskListener, Over, OverProblem, TrafficEnds, time, outcome, probe,
      world, request
<1>10. CASE ProveListener
  BY <1>10 DEF ProveListener, TrafficEnds, Listened, time, outcome, probe, world,
      Timeless, request, Proceed, AfterListener
<1>11. CASE Egress
  BY <1>11 DEF Egress, Over, OverProblem, TrafficEnds, Proceed, ReplyProblem,
      Replies, world, Timeless, request, outcome, probe, time
<1>12. CASE Bound
  BY <1>12 DEF Bound, TrafficEnds, time, world, request
<1>13. CASE KillGroup
  BY <1>13 DEF KillGroup, ProbeStopped, request, world, FinalBegins, Over, OverProblem
<1>14. CASE Reap
  BY <1>14 DEF Reap, ProbeStopped, request, world, FinalBegins, Over, OverProblem
<1>15. CASE ProveGroupGone
  BY <1>15 DEF ProveGroupGone, ProbeStopped, request, world, FinalBegins, Over,
      OverProblem
<1>16. CASE FinalProof
  BY <1>16 DEF FinalProof, Over, OverProblem, Pending, Services, request, time,
      probe, world
<1>17. CASE ProbeBinds
  BY <1>17 DEF ProbeBinds, probe, world, Unwatched, request, time, outcome
<1>18. CASE ProbeDies
  BY <1>18 DEF ProbeDies, probe, world, Unwatched, request, time, outcome
<1>19. CASE ProbeExits
  BY <1>19 DEF ProbeExits, Event, probe, Unwatched, request, time, outcome
<1>20. CASE ProbeForks
  BY <1>20 DEF ProbeForks, Event, Unwatched, request, time, outcome
<1>21. CASE OtherListens
  BY <1>21 DEF OtherListens, Event, probe, Unwatched, request, time, outcome
<1>22. CASE RuntimeStops
  BY <1>22 DEF RuntimeStops, Event, probe, Unwatched, request, time, outcome
<1>23. CASE RuntimeStarts
  BY <1>23 DEF RuntimeStarts, Services, probe, Unwatched, request, time, outcome
<1>24. CASE RecordChanges
  BY <1>24 DEF RecordChanges, Event, probe, Unwatched, request, time, outcome
<1>25. CASE UNCHANGED <<pc, site, seen, problem, report, record, base, runtime, leader, group, port, peer>>
  BY <1>25
<1> QED
  BY <1>1, <1>2, <1>3, <1>4, <1>5, <1>6, <1>7, <1>8, <1>9, <1>10, <1>11, <1>12, <1>13, <1>14,
     <1>15, <1>16, <1>17, <1>18, <1>19, <1>20, <1>21, <1>22, <1>23, <1>24, <1>25
  DEF CheckNext, CheckStep, OtherSteps, GroupNumberReused, GuardLost, Cancel, Tick,
      request, outcome, probe, world, checkVars, Unwatched

\* The flags stay Boolean.
LEMMA CheckFlagsStep ==
    ASSUME CheckInv, [CheckNext]_checkVars PROVE CheckFlags'
<1> USE DEF CheckInv, CheckTypeOK, CheckFlags
<1>1. CASE Execute
  BY <1>1 DEF Execute, Pending, request, world, Timeless, probe, time
<1>2. CASE Authority
  BY <1>2 DEF Authority, Over, OverProblem, Pending, Proceed, Services, world,
      Timeless, request, probe, outcome, time
<1>3. CASE WebSocket("local", "public", Within(Exchange))
  BY <1>3 DEF WebSocket, Over, OverProblem, Pending, Proceed, ReplyProblem, Replies,
      request, world, Timeless, probe, outcome, time
<1>4. CASE WebSocket("public", "port", 0)
  BY <1>4 DEF WebSocket, Over, OverProblem, Pending, Proceed, ReplyProblem, Replies,
      request, world, Timeless, probe, outcome, time
<1>5. CASE ProbePort
  BY <1>5 DEF ProbePort, Over, OverProblem, Pending, Proceed, request, world,
      Timeless, probe, outcome, time
<1>6. CASE SpawnProbe
  BY <1>6 DEF SpawnProbe, Over, OverProblem, Pending, request, outcome, world,
      Timeless, probe, time
<1>7. CASE SendPlan
  BY <1>7 DEF SendPlan, Over, OverProblem, Abandon, TrafficEnds, Proceed, world,
      Timeless, request, outcome, probe, time
<1>8. CASE AskListener
  BY <1>8 DEF AskListener, Over, OverProblem, TrafficEnds, time, outcome, probe,
      world, request
<1>9. CASE ProveListener
  BY <1>9 DEF ProveListener, TrafficEnds, Listened, time, outcome, probe, world,
      Timeless, request, Proceed, AfterListener
<1>10. CASE Egress
  BY <1>10 DEF Egress, Over, OverProblem, TrafficEnds, Proceed, ReplyProblem,
      Replies, world, Timeless, request, outcome, probe, time
<1>11. CASE Bound
  BY <1>11 DEF Bound, TrafficEnds, time, world, request
<1>12. CASE KillGroup
  BY <1>12 DEF KillGroup, ProbeStopped, request, world, FinalBegins, Over, OverProblem
<1>13. CASE Reap
  BY <1>13 DEF Reap, ProbeStopped, request, world, FinalBegins, Over, OverProblem
<1>14. CASE ProveGroupGone
  BY <1>14 DEF ProveGroupGone, ProbeStopped, request, world, FinalBegins, Over,
      OverProblem
<1>15. CASE FinalProof
  BY <1>15 DEF FinalProof, Over, OverProblem, Pending, Services, request, time,
      probe, world
<1>16. CASE GroupNumberReused
  BY <1>16 DEF GroupNumberReused, Event, Unwatched, request, time, outcome
<1>17. CASE GuardLost
  BY <1>17 DEF GuardLost, Event, probe, Unwatched, request, time, outcome
<1>18. CASE Cancel
  BY <1>18 DEF Cancel, Event, probe, Unwatched, request, time, outcome
<1>19. CASE UNCHANGED <<guarded, cancelled, clean, dropping, stranger, struck>>
  BY <1>19
<1> QED
  BY <1>1, <1>2, <1>3, <1>4, <1>5, <1>6, <1>7, <1>8, <1>9, <1>10, <1>11, <1>12, <1>13, <1>14,
     <1>15, <1>16, <1>17, <1>18, <1>19
  DEF CheckNext, CheckStep, OtherSteps, Review, ProbeBinds, ProbeDies, ProbeExits,
      ProbeForks, OtherListens, RuntimeStops, RuntimeStarts, RecordChanges, Tick,
      probe, world, checkVars

\* The clocks stay natural numbers, and what is left never exceeds the budget.
LEMMA NumbersStep ==
    ASSUME CheckInv, [CheckNext]_checkVars PROVE Numbers'
<1> USE WithinFacts, TimeFacts DEF CheckInv, CheckTypeOK, Numbers
<1>1. CASE Execute
  BY <1>1 DEF Execute, Pending, request, world, Timeless, probe, time
<1>2. CASE Authority
  BY <1>2 DEF Authority, Over, OverProblem, Pending, Proceed, Services, world,
      Timeless, request, probe, outcome, time
<1>3. CASE WebSocket("local", "public", Within(Exchange))
  BY <1>3 DEF WebSocket, Over, OverProblem, Pending, Proceed, ReplyProblem, Replies,
      request, world, Timeless, probe, outcome, time
<1>4. CASE WebSocket("public", "port", 0)
  BY <1>4 DEF WebSocket, Over, OverProblem, Pending, Proceed, ReplyProblem, Replies,
      request, world, Timeless, probe, outcome, time
<1>5. CASE ProbePort
  BY <1>5 DEF ProbePort, Over, OverProblem, Pending, Proceed, request, world,
      Timeless, probe, outcome, time
<1>6. CASE SpawnProbe
  BY <1>6 DEF SpawnProbe, Over, OverProblem, Pending, request, outcome, world,
      Timeless, probe, time
<1>7. CASE SendPlan
  BY <1>7 DEF SendPlan, Over, OverProblem, Abandon, TrafficEnds, Proceed, world,
      Timeless, request, outcome, probe, time
<1>8. CASE ProveListener
  BY <1>8 DEF ProveListener, TrafficEnds, Listened, time, outcome, probe, world,
      Timeless, request, Proceed, AfterListener
<1>9. CASE Egress
  BY <1>9 DEF Egress, Over, OverProblem, TrafficEnds, Proceed, ReplyProblem,
      Replies, world, Timeless, request, outcome, probe, time
<1>10. CASE KillGroup
  BY <1>10 DEF KillGroup, ProbeStopped, request, world, FinalBegins, Over, OverProblem
<1>11. CASE Reap
  BY <1>11 DEF Reap, ProbeStopped, request, world, FinalBegins, Over, OverProblem
<1>12. CASE ProveGroupGone
  BY <1>12 DEF ProveGroupGone, ProbeStopped, request, world, FinalBegins, Over,
      OverProblem
<1>13. CASE ProbeExits
  BY <1>13 DEF ProbeExits, Event, probe, Unwatched, request, time, outcome
<1>14. CASE ProbeForks
  BY <1>14 DEF ProbeForks, Event, Unwatched, request, time, outcome
<1>15. CASE OtherListens
  BY <1>15 DEF OtherListens, Event, probe, Unwatched, request, time, outcome
<1>16. CASE GroupNumberReused
  BY <1>16 DEF GroupNumberReused, Event, Unwatched, request, time, outcome
<1>17. CASE RuntimeStops
  BY <1>17 DEF RuntimeStops, Event, probe, Unwatched, request, time, outcome
<1>18. CASE GuardLost
  BY <1>18 DEF GuardLost, Event, probe, Unwatched, request, time, outcome
<1>19. CASE RecordChanges
  BY <1>19 DEF RecordChanges, Event, probe, Unwatched, request, time, outcome
<1>20. CASE Cancel
  BY <1>20 DEF Cancel, Event, probe, Unwatched, request, time, outcome
<1>21. CASE Tick
  BY <1>21 DEF Tick, Waiting, request, outcome, probe, world
<1>22. CASE UNCHANGED <<left, limit, elapsed, events>>
  BY <1>22
<1> QED
  BY <1>1, <1>2, <1>3, <1>4, <1>5, <1>6, <1>7, <1>8, <1>9, <1>10, <1>11, <1>12, <1>13, <1>14,
     <1>15, <1>16, <1>17, <1>18, <1>19, <1>20, <1>21, <1>22
  DEF CheckNext, CheckStep, OtherSteps, Review, AskListener, Bound, FinalProof, ProbeBinds,
      ProbeDies, RuntimeStarts, time, world, checkVars, Unwatched, Timeless

\* The probe lives from its spawn to the stop, is reaped at most once, and its
\* number becomes somebody else's only after that.
LEMMA ProbeStep ==
    ASSUME CheckInv, [CheckNext]_checkVars PROVE ProbeInv'
<1> USE DEF CheckInv, CheckTypeOK, ProbeInv, Spawned, Waiting
<1>1. CASE Review
  BY <1>1 DEF Review, Services, time, outcome, probe, world
<1>2. CASE Execute
  BY <1>2 DEF Execute, Pending, request, world, Timeless, probe, time
<1>3. CASE Authority
  BY <1>3 DEF Authority, Over, OverProblem, Pending, Proceed, Services, world,
      Timeless, request, probe, outcome, time
<1>4. CASE WebSocket("local", "public", Within(Exchange))
  BY <1>4 DEF WebSocket, Over, OverProblem, Pending, Proceed, ReplyProblem, Replies,
      request, world, Timeless, probe, outcome, time
<1>5. CASE WebSocket("public", "port", 0)
  BY <1>5 DEF WebSocket, Over, OverProblem, Pending, Proceed, ReplyProblem, Replies,
      request, world, Timeless, probe, outcome, time
<1>6. CASE ProbePort
  BY <1>6 DEF ProbePort, Over, OverProblem, Pending, Proceed, request, world,
      Timeless, probe, outcome, time
<1>7. CASE SpawnProbe
  BY <1>7 DEF SpawnProbe, Over, OverProblem, Pending, request, outcome, world,
      Timeless, probe, time
<1>8. CASE SendPlan
  BY <1>8 DEF SendPlan, Over, OverProblem, Abandon, TrafficEnds, Proceed, world,
      Timeless, request, outcome, probe, time
<1>9. CASE AskListener
  BY <1>9 DEF AskListener, Over, OverProblem, TrafficEnds, time, outcome, probe,
      world, request
<1>10. CASE ProveListener
  BY <1>10 DEF ProveListener, TrafficEnds, Listened, time, outcome, probe, world,
      Timeless, request, Proceed, AfterListener
<1>11. CASE Egress
  BY <1>11 DEF Egress, Over, OverProblem, TrafficEnds, Proceed, ReplyProblem,
      Replies, world, Timeless, request, outcome, probe, time
<1>12. CASE Bound
  BY <1>12 DEF Bound, TrafficEnds, time, world, request
<1>13. CASE KillGroup
  BY <1>13 DEF KillGroup, ProbeStopped, request, world, FinalBegins, Over, OverProblem
<1>14. CASE Reap
  BY <1>14 DEF Reap, ProbeStopped, request, world, FinalBegins, Over, OverProblem
<1>15. CASE ProveGroupGone
  BY <1>15 DEF ProveGroupGone, ProbeStopped, request, world, FinalBegins, Over,
      OverProblem
<1>16. CASE FinalProof
  BY <1>16 DEF FinalProof, Over, OverProblem, Pending, Services, request, time,
      probe, world
<1>17. CASE ProbeBinds
  BY <1>17 DEF ProbeBinds, probe, world, Unwatched, request, time, outcome
<1>18. CASE ProbeDies
  BY <1>18 DEF ProbeDies, probe, world, Unwatched, request, time, outcome
<1>19. CASE ProbeExits
  BY <1>19 DEF ProbeExits, Event, probe, Unwatched, request, time, outcome
<1>20. CASE ProbeForks
  BY <1>20 DEF ProbeForks, Event, Unwatched, request, time, outcome
<1>21. CASE GroupNumberReused
  BY <1>21 DEF GroupNumberReused, Event, Unwatched, request, time, outcome
<1>22. CASE UNCHANGED <<pc, leader, group, dropping, stranger>>
  BY <1>22
<1> QED
  BY <1>1, <1>2, <1>3, <1>4, <1>5, <1>6, <1>7, <1>8, <1>9, <1>10, <1>11, <1>12, <1>13, <1>14,
     <1>15, <1>16, <1>17, <1>18, <1>19, <1>20, <1>21, <1>22
  DEF CheckNext, CheckStep, OtherSteps, OtherListens, RuntimeStops, RuntimeStarts, GuardLost,
      RecordChanges, Cancel, Tick, probe, checkVars, Unwatched

\* A probe that lives has kept the port a query showed it on, so who answers
\* between two queries is who answered them.
LEMMA PeerStep ==
    ASSUME CheckInv, [CheckNext]_checkVars PROVE PeerInv'
<1> USE DEF CheckInv, CheckTypeOK, PeerInv, ProbeInv, Spawned, Stopping, Waiting,
    Problems
<1>1. CASE Review
  BY <1>1 DEF Review, Services, time, outcome, probe, world
<1>2. CASE Execute
  BY <1>2 DEF Execute, Pending, request, world, Timeless, probe, time
<1>3. CASE Authority
  BY <1>3 DEF Authority, Over, OverProblem, Pending, Proceed, Services, world,
      Timeless, request, probe, outcome, time
<1>4. CASE WebSocket("local", "public", Within(Exchange))
  BY <1>4 DEF WebSocket, Over, OverProblem, Pending, Proceed, ReplyProblem, Replies,
      request, world, Timeless, probe, outcome, time
<1>5. CASE WebSocket("public", "port", 0)
  BY <1>5 DEF WebSocket, Over, OverProblem, Pending, Proceed, ReplyProblem, Replies,
      request, world, Timeless, probe, outcome, time
<1>6. CASE ProbePort
  BY <1>6 DEF ProbePort, Over, OverProblem, Pending, Proceed, request, world,
      Timeless, probe, outcome, time
<1>7. CASE SpawnProbe
  BY <1>7 DEF SpawnProbe, Over, OverProblem, Pending, request, outcome, world,
      Timeless, probe, time
<1>8. CASE SendPlan
  BY <1>8 DEF SendPlan, Over, OverProblem, Abandon, TrafficEnds, Proceed, world,
      Timeless, request, outcome, probe, time
<1>9. CASE AskListener
  BY <1>9 DEF AskListener, Over, OverProblem, TrafficEnds, time, outcome, probe,
      world, request
<1>10. CASE ProveListener
  BY <1>10 DEF ProveListener, TrafficEnds, Listened, time, outcome, probe, world,
      Timeless, request, Proceed, AfterListener
<1>11. CASE Egress
  BY <1>11 DEF Egress, Over, OverProblem, TrafficEnds, Proceed, ReplyProblem,
      Replies, world, Timeless, request, outcome, probe, time
<1>12. CASE Bound
  BY <1>12 DEF Bound, TrafficEnds, time, world, request
<1>13. CASE KillGroup
  BY <1>13 DEF KillGroup, ProbeStopped, request, world, FinalBegins, Over, OverProblem
<1>14. CASE Reap
  BY <1>14 DEF Reap, ProbeStopped, request, world, FinalBegins, Over, OverProblem
<1>15. CASE ProveGroupGone
  BY <1>15 DEF ProveGroupGone, ProbeStopped, request, world, FinalBegins, Over,
      OverProblem
<1>16. CASE FinalProof
  BY <1>16 DEF FinalProof, Over, OverProblem, Pending, Services, request, time,
      probe, world
<1>17. CASE ProbeBinds
  BY <1>17 DEF ProbeBinds, probe, world, Unwatched, request, time, outcome
<1>18. CASE ProbeDies
  BY <1>18 DEF ProbeDies, probe, world, Unwatched, request, time, outcome
<1>19. CASE ProbeExits
  BY <1>19 DEF ProbeExits, Event, probe, Unwatched, request, time, outcome
<1>20. CASE OtherListens
  BY <1>20 DEF OtherListens, Event, probe, Unwatched, request, time, outcome
<1>21. CASE UNCHANGED <<pc, leader, seen, port, site, peer, dropping, problem, report>>
  BY <1>21
<1> QED
  BY <1>1, <1>2, <1>3, <1>4, <1>5, <1>6, <1>7, <1>8, <1>9, <1>10, <1>11, <1>12, <1>13, <1>14,
     <1>15, <1>16, <1>17, <1>18, <1>19, <1>20, <1>21
  DEF CheckNext, CheckStep, OtherSteps, ProbeForks, GroupNumberReused, RuntimeStops,
      RuntimeStarts, GuardLost, RecordChanges, Cancel, Tick, request, outcome,
      probe, checkVars, Unwatched

\* Each wait starts within what is left of the budget, or within its own limit
\* for an inspection and for the two attempts to stop the probe.
LEMMA TimeStep ==
    ASSUME CheckInv, [CheckNext]_checkVars PROVE TimeInv'
<1> USE WithinFacts, TimeFacts DEF CheckInv, CheckTypeOK, TimeInv, Spawned, Waiting,
    ProbeInv
<1>1. CASE Review
  BY <1>1 DEF Review, Services, time, outcome, probe, world
<1>2. CASE Execute
  BY <1>2 DEF Execute, Pending, request, world, Timeless, probe, time
<1>3. CASE Authority
  BY <1>3 DEF Authority, Over, OverProblem, Pending, Proceed, Services, world,
      Timeless, request, probe, outcome, time
<1>4. CASE WebSocket("local", "public", Within(Exchange))
  BY <1>4 DEF WebSocket, Over, OverProblem, Pending, Proceed, ReplyProblem, Replies,
      request, world, Timeless, probe, outcome, time
<1>5. CASE WebSocket("public", "port", 0)
  BY <1>5 DEF WebSocket, Over, OverProblem, Pending, Proceed, ReplyProblem, Replies,
      request, world, Timeless, probe, outcome, time
<1>6. CASE ProbePort
  BY <1>6 DEF ProbePort, Over, OverProblem, Pending, Proceed, request, world,
      Timeless, probe, outcome, time
<1>7. CASE SpawnProbe
  BY <1>7 DEF SpawnProbe, Over, OverProblem, Pending, request, outcome, world,
      Timeless, probe, time
<1>8. CASE SendPlan
  BY <1>8 DEF SendPlan, Over, OverProblem, Abandon, TrafficEnds, Proceed, world,
      Timeless, request, outcome, probe, time
<1>9. CASE AskListener
  BY <1>9 DEF AskListener, Over, OverProblem, TrafficEnds, time, outcome, probe,
      world, request
<1>10. CASE ProveListener
  BY <1>10 DEF ProveListener, TrafficEnds, Listened, time, outcome, probe, world,
      Timeless, request, Proceed, AfterListener
<1>11. CASE Egress
  BY <1>11 DEF Egress, Over, OverProblem, TrafficEnds, Proceed, ReplyProblem,
      Replies, world, Timeless, request, outcome, probe, time
<1>12. CASE Bound
  BY <1>12 DEF Bound, TrafficEnds, time, world, request
<1>13. CASE KillGroup
  BY <1>13 DEF KillGroup, ProbeStopped, request, world, FinalBegins, Over, OverProblem
<1>14. CASE Reap
  BY <1>14 DEF Reap, ProbeStopped, request, world, FinalBegins, Over, OverProblem
<1>15. CASE ProveGroupGone
  BY <1>15 DEF ProveGroupGone, ProbeStopped, request, world, FinalBegins, Over,
      OverProblem
<1>16. CASE FinalProof
  BY <1>16 DEF FinalProof, Over, OverProblem, Pending, Services, request, time,
      probe, world
<1>17. CASE Tick
  BY <1>17 DEF Tick, Waiting, request, outcome, probe, world
<1>18. CASE UNCHANGED <<pc, left, limit, elapsed, dropping>>
  BY <1>18
<1> QED
  BY <1>1, <1>2, <1>3, <1>4, <1>5, <1>6, <1>7, <1>8, <1>9, <1>10, <1>11, <1>12, <1>13, <1>14,
     <1>15, <1>16, <1>17, <1>18
  DEF CheckNext, CheckStep, OtherSteps, ProbeBinds, ProbeDies, ProbeExits, ProbeForks,
      OtherListens, GroupNumberReused, RuntimeStops, RuntimeStarts, GuardLost,
      RecordChanges, Cancel, time, probe, checkVars, Unwatched, Timeless

\* Time passes only inside a wait, so the bound on each wait bounds the check.
LEMMA BoundedStep ==
    ASSUME CheckInv, [CheckNext]_checkVars PROVE Bounded'
<1> USE TimeFacts DEF CheckInv, CheckTypeOK, TimeInv, Bounded, Spawned, Waiting
<1>1. CASE Execute
  BY <1>1 DEF Execute, Pending, request, world, Timeless, probe, time
<1>2. CASE Authority
  BY <1>2 DEF Authority, Over, OverProblem, Pending, Proceed, Services, world,
      Timeless, request, probe, outcome, time
<1>3. CASE WebSocket("local", "public", Within(Exchange))
  BY <1>3 DEF WebSocket, Over, OverProblem, Pending, Proceed, ReplyProblem, Replies,
      request, world, Timeless, probe, outcome, time
<1>4. CASE WebSocket("public", "port", 0)
  BY <1>4 DEF WebSocket, Over, OverProblem, Pending, Proceed, ReplyProblem, Replies,
      request, world, Timeless, probe, outcome, time
<1>5. CASE ProbePort
  BY <1>5 DEF ProbePort, Over, OverProblem, Pending, Proceed, request, world,
      Timeless, probe, outcome, time
<1>6. CASE SpawnProbe
  BY <1>6 DEF SpawnProbe, Over, OverProblem, Pending, request, outcome, world,
      Timeless, probe, time
<1>7. CASE SendPlan
  BY <1>7 DEF SendPlan, Over, OverProblem, Abandon, TrafficEnds, Proceed, world,
      Timeless, request, outcome, probe, time
<1>8. CASE ProveListener
  BY <1>8 DEF ProveListener, TrafficEnds, Listened, time, outcome, probe, world,
      Timeless, request, Proceed, AfterListener
<1>9. CASE Egress
  BY <1>9 DEF Egress, Over, OverProblem, TrafficEnds, Proceed, ReplyProblem,
      Replies, world, Timeless, request, outcome, probe, time
<1>10. CASE Tick
  BY <1>10 DEF Tick, Waiting, request, outcome, probe, world
<1>11. CASE UNCHANGED <<elapsed>>
  BY <1>11
<1> QED
  BY <1>1, <1>2, <1>3, <1>4, <1>5, <1>6, <1>7, <1>8, <1>9, <1>10, <1>11
  DEF CheckNext, CheckStep, OtherSteps, Review, AskListener, Bound, KillGroup, Reap,
      ProveGroupGone, FinalProof, ProbeBinds, ProbeDies, ProbeExits, ProbeForks,
      OtherListens, GroupNumberReused, RuntimeStops, RuntimeStarts, GuardLost,
      RecordChanges, Cancel, time, checkVars, Unwatched, Timeless

\* Only KillGroup signals, and it runs while the number is still the probe's.
LEMMA StrangersStep ==
    ASSUME CheckInv, [CheckNext]_checkVars PROVE NeverSignalsStrangers'
<1> USE DEF CheckInv, CheckTypeOK, NeverSignalsStrangers, ProbeInv, Spawned
<1>1. CASE Execute
  BY <1>1 DEF Execute, Pending, request, world, Timeless, probe, time
<1>2. CASE Authority
  BY <1>2 DEF Authority, Over, OverProblem, Pending, Proceed, Services, world,
      Timeless, request, probe, outcome, time
<1>3. CASE WebSocket("local", "public", Within(Exchange))
  BY <1>3 DEF WebSocket, Over, OverProblem, Pending, Proceed, ReplyProblem, Replies,
      request, world, Timeless, probe, outcome, time
<1>4. CASE WebSocket("public", "port", 0)
  BY <1>4 DEF WebSocket, Over, OverProblem, Pending, Proceed, ReplyProblem, Replies,
      request, world, Timeless, probe, outcome, time
<1>5. CASE ProbePort
  BY <1>5 DEF ProbePort, Over, OverProblem, Pending, Proceed, request, world,
      Timeless, probe, outcome, time
<1>6. CASE SpawnProbe
  BY <1>6 DEF SpawnProbe, Over, OverProblem, Pending, request, outcome, world,
      Timeless, probe, time
<1>7. CASE SendPlan
  BY <1>7 DEF SendPlan, Over, OverProblem, Abandon, TrafficEnds, Proceed, world,
      Timeless, request, outcome, probe, time
<1>8. CASE AskListener
  BY <1>8 DEF AskListener, Over, OverProblem, TrafficEnds, time, outcome, probe,
      world, request
<1>9. CASE ProveListener
  BY <1>9 DEF ProveListener, TrafficEnds, Listened, time, outcome, probe, world,
      Timeless, request, Proceed, AfterListener
<1>10. CASE Egress
  BY <1>10 DEF Egress, Over, OverProblem, TrafficEnds, Proceed, ReplyProblem,
      Replies, world, Timeless, request, outcome, probe, time
<1>11. CASE Bound
  BY <1>11 DEF Bound, TrafficEnds, time, world, request
<1>12. CASE KillGroup
  BY <1>12 DEF KillGroup, ProbeStopped, request, world, FinalBegins, Over, OverProblem
<1>13. CASE FinalProof
  BY <1>13 DEF FinalProof, Over, OverProblem, Pending, Services, request, time,
      probe, world
<1>14. CASE UNCHANGED <<struck>>
  BY <1>14
<1> QED
  BY <1>1, <1>2, <1>3, <1>4, <1>5, <1>6, <1>7, <1>8, <1>9, <1>10, <1>11, <1>12, <1>13, <1>14
  DEF CheckNext, CheckStep, OtherSteps, Review, Reap, ProveGroupGone, ProbeBinds,
      ProbeDies, ProbeExits, ProbeForks, OtherListens, GroupNumberReused,
      RuntimeStops, RuntimeStarts, GuardLost, RecordChanges, Cancel, Tick, probe,
      checkVars

\* Verified is reported only by the last proof, after the listener was last seen
\* to be the probe.
LEMMA VerifiedStep ==
    ASSUME CheckInv, [CheckNext]_checkVars PROVE VerifiedByTheProbe'
<1> USE DEF CheckInv, CheckTypeOK, VerifiedByTheProbe, PeerInv, Problems
<1>1. CASE Execute
  BY <1>1 DEF Execute, Pending, request, world, Timeless, probe, time
<1>2. CASE Authority
  BY <1>2 DEF Authority, Over, OverProblem, Pending, Proceed, Services, world,
      Timeless, request, probe, outcome, time
<1>3. CASE WebSocket("local", "public", Within(Exchange))
  BY <1>3 DEF WebSocket, Over, OverProblem, Pending, Proceed, ReplyProblem, Replies,
      request, world, Timeless, probe, outcome, time
<1>4. CASE WebSocket("public", "port", 0)
  BY <1>4 DEF WebSocket, Over, OverProblem, Pending, Proceed, ReplyProblem, Replies,
      request, world, Timeless, probe, outcome, time
<1>5. CASE ProbePort
  BY <1>5 DEF ProbePort, Over, OverProblem, Pending, Proceed, request, world,
      Timeless, probe, outcome, time
<1>6. CASE SpawnProbe
  BY <1>6 DEF SpawnProbe, Over, OverProblem, Pending, request, outcome, world,
      Timeless, probe, time
<1>7. CASE SendPlan
  BY <1>7 DEF SendPlan, Over, OverProblem, Abandon, TrafficEnds, Proceed, world,
      Timeless, request, outcome, probe, time
<1>8. CASE AskListener
  BY <1>8 DEF AskListener, Over, OverProblem, TrafficEnds, time, outcome, probe,
      world, request
<1>9. CASE ProveListener
  BY <1>9 DEF ProveListener, TrafficEnds, Listened, time, outcome, probe, world,
      Timeless, request, Proceed, AfterListener
<1>10. CASE Egress
  BY <1>10 DEF Egress, Over, OverProblem, TrafficEnds, Proceed, ReplyProblem,
      Replies, world, Timeless, request, outcome, probe, time
<1>11. CASE Bound
  BY <1>11 DEF Bound, TrafficEnds, time, world, request
<1>12. CASE KillGroup
  BY <1>12 DEF KillGroup, ProbeStopped, request, world, FinalBegins, Over, OverProblem
<1>13. CASE Reap
  BY <1>13 DEF Reap, ProbeStopped, request, world, FinalBegins, Over, OverProblem
<1>14. CASE ProveGroupGone
  BY <1>14 DEF ProveGroupGone, ProbeStopped, request, world, FinalBegins, Over,
      OverProblem
<1>15. CASE FinalProof
  BY <1>15 DEF FinalProof, Over, OverProblem, Pending, Services, request, time,
      probe, world
<1>16. CASE UNCHANGED <<report, peer>>
  BY <1>16
<1> QED
  BY <1>1, <1>2, <1>3, <1>4, <1>5, <1>6, <1>7, <1>8, <1>9, <1>10, <1>11, <1>12, <1>13, <1>14,
     <1>15, <1>16
  DEF CheckNext, CheckStep, OtherSteps, Review, ProbeBinds, ProbeDies, ProbeExits,
      ProbeForks, OtherListens, GroupNumberReused, RuntimeStops, RuntimeStarts,
      GuardLost, RecordChanges, Cancel, Tick, outcome, checkVars, Unwatched

\* The three parts make up TypeOK.
LEMMA CheckTypeStep ==
    ASSUME CheckInv, [CheckNext]_checkVars PROVE CheckTypeOK'
<1>1. Kinds' /\ CheckFlags' /\ Numbers'
  BY KindsStep, CheckFlagsStep, NumbersStep
<1> QED
  BY <1>1 DEF CheckTypeOK, Kinds, CheckFlags, Numbers

\* Before the first check nothing runs and no time has passed.
LEMMA CheckInvInit == ASSUME CheckInit PROVE CheckInv
<1>1. Kinds
  BY DEF CheckInit, Kinds, Waiting, Problems, RecordStates, Services
<1>2. CheckFlags
  BY DEF CheckInit, CheckFlags
<1>3. Numbers /\ TimeInv /\ Bounded
  BY TimeFacts DEF CheckInit, Numbers, TimeInv, Bounded, Spawned
<1>4. NeverSignalsStrangers /\ VerifiedByTheProbe /\ ProbeInv /\ PeerInv
  BY DEF CheckInit, NeverSignalsStrangers, VerifiedByTheProbe, ProbeInv, PeerInv, Spawned,
     Stopping
<1> QED
  BY <1>1, <1>2, <1>3, <1>4 DEF CheckInv, CheckTypeOK, Kinds, CheckFlags, Numbers

\* Every step of the check, of the probe and of the others keeps the invariant.
LEMMA CheckInvStep == ASSUME CheckInv, [CheckNext]_checkVars PROVE CheckInv'
  BY CheckTypeStep, StrangersStep, BoundedStep, VerifiedStep, ProbeStep, PeerStep, TimeStep
  DEF CheckInv

\* Where the probe is, who answered and how much time is gone agree in every
\* reachable state of the check, for all budgets, limits and numbers of events.
THEOREM CheckInvariant == CheckSpec => []CheckInv
  BY CheckInvInit, CheckInvStep, PTL DEF CheckSpec

\* stop and the destructor never signal a group that is not the probe's, a check
\* that reports anything but Cleanup leaves no process behind, and all waits
\* together stay within the budget and the slack of one inspection or two stops.
THEOREM ProbeAlwaysContained == CheckSpec => []ProbeIsContained
<1>1. CheckInv => ProbeIsContained
  BY DEF CheckInv, ProbeInv, ProbeIsContained, NothingLeftRunning
<1> QED
  BY <1>1, CheckInvariant, PTL

\* Verified is reported only by FinalProof, which has just compared the record
\* with the one the check began with and proved the lock.
LEMMA VerifiedAtTheEnd ==
    ASSUME CheckInv, [CheckNext]_checkVars, report' = "verified", report # "verified" PROVE record = base /\ guarded
<1> USE DEF CheckInv, CheckTypeOK, Problems
<1>1. CASE Execute
  BY <1>1 DEF Execute, Pending, request, world, Timeless, probe, time
<1>2. CASE Authority
  BY <1>2 DEF Authority, Over, OverProblem, Pending, Proceed, Services, world,
      Timeless, request, probe, outcome, time
<1>3. CASE WebSocket("local", "public", Within(Exchange))
  BY <1>3 DEF WebSocket, Over, OverProblem, Pending, Proceed, ReplyProblem, Replies,
      request, world, Timeless, probe, outcome, time
<1>4. CASE WebSocket("public", "port", 0)
  BY <1>4 DEF WebSocket, Over, OverProblem, Pending, Proceed, ReplyProblem, Replies,
      request, world, Timeless, probe, outcome, time
<1>5. CASE ProbePort
  BY <1>5 DEF ProbePort, Over, OverProblem, Pending, Proceed, request, world,
      Timeless, probe, outcome, time
<1>6. CASE SpawnProbe
  BY <1>6 DEF SpawnProbe, Over, OverProblem, Pending, request, outcome, world,
      Timeless, probe, time
<1>7. CASE SendPlan
  BY <1>7 DEF SendPlan, Over, OverProblem, Abandon, TrafficEnds, Proceed, world,
      Timeless, request, outcome, probe, time
<1>8. CASE AskListener
  BY <1>8 DEF AskListener, Over, OverProblem, TrafficEnds, time, outcome, probe,
      world, request
<1>9. CASE ProveListener
  BY <1>9 DEF ProveListener, TrafficEnds, Listened, time, outcome, probe, world,
      Timeless, request, Proceed, AfterListener
<1>10. CASE Egress
  BY <1>10 DEF Egress, Over, OverProblem, TrafficEnds, Proceed, ReplyProblem,
      Replies, world, Timeless, request, outcome, probe, time
<1>11. CASE Bound
  BY <1>11 DEF Bound, TrafficEnds, time, world, request
<1>12. CASE KillGroup
  BY <1>12 DEF KillGroup, ProbeStopped, request, world, FinalBegins, Over, OverProblem
<1>13. CASE Reap
  BY <1>13 DEF Reap, ProbeStopped, request, world, FinalBegins, Over, OverProblem
<1>14. CASE ProveGroupGone
  BY <1>14 DEF ProveGroupGone, ProbeStopped, request, world, FinalBegins, Over,
      OverProblem
<1>15. CASE FinalProof
  BY <1>15 DEF FinalProof, Over, OverProblem, Pending, Services, request, time,
      probe, world
<1>16. CASE UNCHANGED <<report>>
  BY <1>16
<1> QED
  BY <1>1, <1>2, <1>3, <1>4, <1>5, <1>6, <1>7, <1>8, <1>9, <1>10, <1>11, <1>12, <1>13, <1>14,
     <1>15, <1>16
  DEF CheckNext, CheckStep, OtherSteps, Review, ProbeBinds, ProbeDies, ProbeExits,
      ProbeForks, OtherListens, GroupNumberReused, RuntimeStops, RuntimeStarts,
      GuardLost, RecordChanges, Cancel, Tick, outcome, checkVars, Unwatched

\* What is reported verified was seen through the probe itself, under one record
\* unchanged from the first proof to the last, however the processes race for
\* the port and whoever else writes the record.
THEOREM VerifiedAlwaysTrue == CheckSpec => VerifiedIsTrue
<1>1. CheckInv => VerifiedByTheProbe
  BY DEF CheckInv
<1>2. ASSUME CheckInv, [CheckNext]_checkVars
      PROVE  [report' = "verified" /\ report # "verified" => record = base /\ guarded]_checkVars
  BY <1>2, VerifiedAtTheEnd
<1> QED
  BY <1>1, <1>2, CheckInvariant, PTL DEF CheckSpec, VerifiedIsTrue, VerifiedUnderOneRecord
=============================================================================
