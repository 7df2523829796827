--------------------------- MODULE ClientIdentity ---------------------------
(***************************************************************************)
(* Client Identity rotation and its recovery: src/src/client_identity.rs   *)
(* over the effects of src/src/host/identity.rs, together with what admits *)
(* a start of the proxy or of Subscription Serving meanwhile:              *)
(* authorize_proxy_start and select_http_authority of                      *)
(* src/src/runtime_handoff.rs.                                             *)
(*                                                                         *)
(* A rotation is eleven checkpoints in the ownership record.  Before       *)
(* "source revoked" an interrupted rotation is cleaned up, from there on   *)
(* it only goes forward.  From "cutover gated" on no ordinary start of the *)
(* proxy is admitted: a systemd drop-in asks the product on every start.   *)
(*                                                                         *)
(* A configuration is known by the identity it holds, a number; a rotation *)
(* takes the next one.  The record store is used through what              *)
(* OwnershipStore establishes, as in StandardSetup.  Files of the host are *)
(* durable as they are written.                                            *)
(***************************************************************************)
EXTENDS Naturals

CONSTANTS
    None,          \* no identity, no file, no staged record
    Torn,          \* a file that does not have the bytes it should have
    Subscribed,    \* does the installation serve a subscription
    MaxRotations,  \* bound on the identities ever generated
    MaxFailures,   \* bound on failed calls, kills and stops of the proxy
    MaxPowerLoss   \* bound on power losses

VARIABLES
    rec,        \* the current ownership record
    staged,     \* the staged record, Torn or None
    exposed,    \* the records a power loss could leave
    config,     \* /etc/sing-box/config.json
    candidate,  \* .config.json.sbxr-next beside it
    prepared,   \* client-identity-target.json and the staged artifact
    dropin,     \* the startup drop-in: None, Torn or "whole"
    directory,  \* its directory: None, "foreign" or "ours"
    loaded,     \* does systemd know the drop-in
    gate,       \* the one-use start authorization, or None
    running,    \* the identity the proxy runs with, or None
    served,     \* the identity whose artifact is served, or None
    pc,         \* where the Owner's process is
    generated,  \* identities generated
    failures,
    losses

record == <<rec, staged, exposed>>
files == <<config, candidate, prepared, dropin, directory>>
services == <<loaded, gate, running, served>>
bounds == <<generated, failures, losses>>
vars == <<record, files, services, pc, bounds>>

-----------------------------------------------------------------------------
(* The record.                                                             *)

Identities == 0 .. MaxRotations

\* Checkpoint; Idle stands for a record without a rotation.
Authorized == 0
TargetPrepared == 1
IntegrationPublished == 2
Reloaded == 3
RouteVerified == 4
Gated == 5
Stopped == 6
Quiescent == 7
Revoked == 8
TargetPublished == 9
TargetStarted == 10
Idle == 11

Records ==
    [cp : Authorized .. Idle, source : Identities, target : Identities,
     config : Identities, startup : {"none", "created", "found"}]

ASSUME IdentityAssumption ==
    /\ Subscribed \in BOOLEAN
    /\ MaxRotations \in Nat /\ MaxFailures \in Nat /\ MaxPowerLoss \in Nat
    /\ None # Torn
    /\ None \notin Records \cup Identities \cup {"whole", "foreign", "ours"}
    /\ Torn \notin Records \cup Identities \cup {"whole"}

Pending(r) == r.cp # Idle

\* Checkpoint::direction.
Forward(r) == r.cp \in Revoked .. TargetStarted

\* The sole identity a record authorizes.
Selected(r) == IF Forward(r) THEN r.target ELSE r.config

\* admit: the directory is the product's if it is not there yet.
Startup == IF directory = None THEN "created" ELSE "found"

BeginRecord ==
    [cp |-> Authorized, source |-> rec.config, target |-> generated + 1, config |-> rec.config,
     startup |-> Startup]

AdvanceRecord(r) ==
    [r EXCEPT !.cp = @ + 1, !.config = IF r.cp = Revoked THEN r.target ELSE @]

\* Mutant: the completed rotation records the configuration it began with.
ClearRecordToSource(r, retain) ==
    [cp |-> Idle, source |-> r.source, target |-> r.source, config |-> r.source,
     startup |-> IF retain THEN r.startup ELSE "none"]

ClearRecord(r, retain) ==
    [cp |-> Idle, source |-> r.config, target |-> r.config, config |-> r.config,
     startup |-> IF retain THEN r.startup ELSE "none"]

-----------------------------------------------------------------------------
(* Observations.                                                           *)

\* inspect_record.
Inspected(r) ==
    /\ IF r.cp = Revoked THEN config \in {r.source, r.target} ELSE config = r.config
    /\ prepared \in {None, r.target}
    /\ r.cp \in {Revoked, TargetPublished} => prepared = r.target
    /\ candidate \in {None, r.target} /\ (candidate # None => Forward(r))
    /\ dropin # Torn

\* verify_startup: the recorded drop-in is on disk and in effect.
Routes == rec.startup # "none" /\ dropin = "whole" /\ loaded

\* known_unit: systemd has loaded exactly what is on disk.
UnitKnown == loaded <=> dropin = "whole"

VerifyRunning == UnitKnown /\ running # None /\ config = rec.config

\* Quiescence::accepted.
Quiescence == running = None /\ served = None

\* admit, with the comparison begin_record makes.
Admitted ==
    /\ ~Pending(rec) /\ staged = None
    /\ config = rec.config /\ prepared = None /\ candidate = None /\ dropin # Torn
    /\ VerifyRunning
    /\ rec.startup \in {"none", Startup}

-----------------------------------------------------------------------------
(* Starts.                                                                 *)

Ordinary(r) == r.cp \in Authorized .. RouteVerified \cup {Idle}

\* Mutant: ordinary starts stay open after the cutover gate.
StartAuthorizedAlways(borrowed) ==
    rec.startup # "none" /\ dropin = "whole" /\ config = rec.config

\* authorize_proxy_start and cutover_configuration; only the Owner lends its
\* lock, and then the gate must name the recorded configuration.
StartAuthorized(borrowed) ==
    /\ rec.startup # "none" /\ dropin = "whole" /\ config = rec.config
    /\ \/ Ordinary(rec)
       \/ rec.cp # Revoked /\ borrowed

\* systemctl start by the Owner: it succeeds only if a start is asked for and
\* the product, started by the drop-in, takes the lock that is lent.
StartSucceeds ==
    /\ running = None /\ loaded /\ StartAuthorized(TRUE)
    /\ running' = config

StartRefused ==
    \/ running # None /\ UNCHANGED running
    \/ running = None /\ loaded /\ ~StartAuthorized(TRUE) /\ UNCHANGED running
    \/ running = None /\ ~loaded /\ running' = config

\* prepare_cutover, which refuses another token that is still there.
GatePrepared == Routes /\ config = rec.config /\ rec.cp # Revoked /\ gate \in {None, rec.config}

\* select_http_authority, and the configuration check of prepare.
ServingAuthorized(borrowed) ==
    /\ config = rec.config
    /\ Ordinary(rec) \/ (borrowed /\ rec.cp # Revoked)

-----------------------------------------------------------------------------
(* Publication and failures.                                               *)

Fails == failures < MaxFailures /\ failures' = failures + 1 /\ UNCHANGED <<generated, losses>>

Refuse == pc' = "idle" /\ UNCHANGED <<record, files, services, bounds>>

\* Mutant: the publication is not synchronized.
PublishUnsynchronized(n) ==
    /\ staged \in {None, n}
    /\ rec' = n /\ staged' = None /\ UNCHANGED exposed

PublishSucceeds(n) ==
    /\ staged \in {None, n}
    /\ rec' = n /\ staged' = None /\ exposed' = {n}

PublishFails(n) ==
    \/ /\ staged' \in IF staged = None THEN {None, n, Torn} ELSE {staged}
       /\ UNCHANGED <<rec, exposed>>
    \/ /\ staged \in {None, n}
       /\ rec' = n /\ staged' = None
       /\ exposed' = {rec, n}

-----------------------------------------------------------------------------
(* The Owner's operations.                                                 *)

\* review and execute up to the first publication, with a fresh identity.
Rotate ==
    /\ pc = "idle" /\ generated < MaxRotations
    /\ Admitted
    /\ generated' = generated + 1
    /\ \/ PublishSucceeds(BeginRecord) /\ pc' = "prepare" /\ UNCHANGED failures
       \/ /\ failures < MaxFailures /\ failures' = failures + 1
          /\ PublishFails(BeginRecord) /\ pc' = "idle"
    /\ UNCHANGED <<files, services, losses>>

\* finish: the record is synchronized; a staged successor is looked at first.
Finish ==
    /\ pc = "idle" /\ Pending(rec) /\ staged # Torn
    /\ Inspected(rec)
    /\ exposed' = {rec}
    /\ pc' = IF staged = None THEN (IF Forward(rec) THEN "forward" ELSE "restore")
             ELSE IF staged.cp = Idle THEN "staged_completion"
             ELSE "staged"
    /\ UNCHANGED <<rec, staged, files, services, bounds>>

\* The staged completion is published after fresh proofs only.
StagedCompletion ==
    /\ pc = "staged_completion"
    /\ \/ /\ Subscribed => ServingAuthorized(TRUE)
          /\ served' = (IF Subscribed THEN config ELSE served)
          /\ pc' = (IF VerifyRunning /\ config = Selected(rec) THEN "staged" ELSE "idle")
          /\ UNCHANGED bounds
       \/ Fails /\ pc' = "idle" /\ UNCHANGED served
    /\ UNCHANGED <<record, files, loaded, gate, running>>

\* A staged revocation needs fresh quiescence.
PublishStaged ==
    /\ pc = "staged"
    /\ \/ /\ Forward(staged) /\ ~Forward(rec) => Routes /\ Quiescence
          /\ \/ /\ PublishSucceeds(staged) /\ UNCHANGED bounds
                /\ pc' = CASE ~Pending(staged) -> "idle"
                           [] Forward(staged) -> "forward"
                           [] OTHER -> "restore"
             \/ PublishFails(staged) /\ Fails /\ pc' = "idle"
          /\ UNCHANGED <<files, services>>
       \/ Forward(staged) /\ ~Forward(rec) /\ ~(Routes /\ Quiescence) /\ Refuse

-----------------------------------------------------------------------------
(* forward: effect, then checkpoint.                                       *)

PrepareTarget ==
    /\ pc = "prepare"
    /\ \/ prepared' = rec.target /\ pc' = "advance" /\ UNCHANGED bounds
       \/ prepared' \in {None, Torn, rec.target} /\ Fails /\ pc' = "idle"
    /\ UNCHANGED <<record, config, candidate, dropin, directory, services>>

PublishStartup ==
    /\ pc = "forward" /\ rec.cp = TargetPrepared
    /\ \/ dropin' = "whole" /\ pc' = "advance" /\ UNCHANGED bounds
       \/ dropin' \in {dropin, "whole"} \cup (IF dropin = None THEN {Torn} ELSE {}) /\ Fails /\ pc' = "idle"
    /\ directory' = IF directory = None THEN "ours" ELSE directory
    /\ UNCHANGED <<record, config, candidate, prepared, services>>

Reload ==
    /\ pc = "forward" /\ rec.cp = IntegrationPublished
    /\ \/ loaded' = (dropin = "whole") /\ pc' = "advance" /\ UNCHANGED bounds
       \/ loaded' = loaded /\ Fails /\ pc' = "idle"
    /\ UNCHANGED <<record, files, gate, running, served>>

\* "systemd reloaded", "startup route verified", "source stopped" and "source
\* quiescent" have no effect, only a fresh observation.
Observe ==
    /\ pc = "forward" /\ rec.cp \in {Reloaded, RouteVerified, Stopped, Quiescent}
    /\ IF Routes /\ (rec.cp \in {Stopped, Quiescent} => Quiescence)
       THEN pc' = "advance" /\ UNCHANGED <<record, files, services, bounds>>
       ELSE Refuse

\* stop_identity_source, Subscription Serving first, under the gate.
StopSource ==
    /\ pc = "forward" /\ rec.cp = Gated
    /\ \/ /\ GatePrepared
          /\ gate' = None /\ running' = None /\ served' = None
          /\ pc' = "advance" /\ UNCHANGED bounds
       \/ /\ GatePrepared /\ Fails /\ pc' = "idle"
          /\ gate' \in {None, rec.config}
          /\ served' \in {served, None}
          /\ running' \in {running} \cup (IF served' = None THEN {None} ELSE {})
       \/ ~GatePrepared /\ pc' = "idle" /\ UNCHANGED <<gate, running, served, bounds>>
    /\ UNCHANGED <<record, files, loaded>>

\* The candidate is written beside the configuration and renamed over it.
PublishTarget ==
    /\ pc = "forward" /\ rec.cp = Revoked
    /\ IF ~Routes THEN Refuse
       ELSE /\ \/ config' = rec.target /\ candidate' = None /\ pc' = "advance" /\ UNCHANGED bounds
               \/ /\ Fails /\ pc' = "idle"
                  /\ \/ config' = config
                        /\ candidate' \in {candidate, rec.target} \cup (IF candidate = None THEN {Torn} ELSE {})
                     \/ config' = rec.target /\ candidate' = None
            /\ UNCHANGED <<record, prepared, dropin, directory, services>>

StartTarget ==
    /\ pc = "forward" /\ rec.cp = TargetPublished
    /\ IF ~GatePrepared THEN Refuse
       ELSE /\ \/ StartSucceeds /\ gate' = None /\ pc' = "advance" /\ UNCHANGED bounds
               \/ StartRefused /\ gate' = None /\ pc' = "idle" /\ UNCHANGED bounds
               \/ /\ Fails /\ pc' = "idle" /\ gate' \in {None, config}
                  /\ running' \in {running} \cup (IF StartAuthorized(TRUE) THEN {config} ELSE {})
            /\ UNCHANGED <<record, files, loaded, served>>

VerifyTarget ==
    /\ pc = "forward" /\ rec.cp = TargetStarted
    /\ IF Routes /\ VerifyRunning
       THEN pc' = "subscription" /\ UNCHANGED <<record, files, services, bounds>>
       ELSE Refuse

\* Mutant: the checkpoint does not select the target's configuration.
AdvanceKeepsSource ==
    /\ pc = "advance"
    /\ \/ PublishSucceeds([rec EXCEPT !.cp = @ + 1]) /\ pc' = "forward" /\ UNCHANGED bounds
       \/ PublishFails([rec EXCEPT !.cp = @ + 1]) /\ Fails /\ pc' = "idle"
    /\ UNCHANGED <<files, services>>

Advance ==
    /\ pc = "advance"
    /\ \/ PublishSucceeds(AdvanceRecord(rec)) /\ pc' = "forward" /\ UNCHANGED bounds
       \/ PublishFails(AdvanceRecord(rec)) /\ Fails /\ pc' = "idle"
    /\ UNCHANGED <<files, services>>

-----------------------------------------------------------------------------
(* Cleanup, and what both directions end with.                             *)

\* Mutant: the source is started although the gate is closed, without a token.
RestoreSourceUngated ==
    /\ pc = "restore"
    /\ IF config # rec.source THEN Refuse
       ELSE /\ \/ VerifyRunning /\ pc' = "subscription" /\ UNCHANGED <<gate, running, bounds>>
               \/ ~VerifyRunning /\ ~Ordinary(rec) /\ pc' = "idle" /\ UNCHANGED <<gate, running, bounds>>
               \/ ~VerifyRunning /\ Ordinary(rec) /\ StartSucceeds /\ pc' = "subscription" /\ UNCHANGED <<gate, bounds>>
               \/ ~VerifyRunning /\ Ordinary(rec) /\ StartRefused /\ pc' = "idle" /\ UNCHANGED <<gate, bounds>>
            /\ UNCHANGED <<record, files, loaded, served>>

\* RestoreSource: what runs is left alone; a gated source needs a token.
RestoreSource ==
    /\ pc = "restore"
    /\ IF config # rec.source THEN Refuse
       ELSE /\ \/ VerifyRunning /\ pc' = "subscription" /\ UNCHANGED <<gate, running, bounds>>
               \/ /\ ~VerifyRunning /\ ~Ordinary(rec) /\ ~GatePrepared
                  /\ pc' = "idle" /\ UNCHANGED <<gate, running, bounds>>
               \/ /\ ~VerifyRunning /\ (Ordinary(rec) \/ GatePrepared)
                  /\ gate' = (IF Ordinary(rec) THEN gate ELSE None)
                  /\ \/ StartSucceeds /\ pc' = "subscription"
                     \/ StartRefused /\ pc' = "idle"
                  /\ UNCHANGED bounds
               \/ /\ Fails /\ pc' = "idle"
                  /\ gate' \in {gate} \cup (IF Ordinary(rec) THEN {} ELSE {None, rec.config})
                  /\ UNCHANGED running
            /\ UNCHANGED <<record, files, loaded, served>>

\* finish_identity_subscription: stale serving is restarted.
FinishSubscription ==
    /\ pc = "subscription"
    /\ \/ /\ Subscribed => ServingAuthorized(TRUE)
          /\ served' = (IF Subscribed THEN rec.config ELSE served)
          /\ pc' = "remove" /\ UNCHANGED bounds
       \/ Subscribed /\ served' \in {served, None} /\ Fails /\ pc' = "idle"
    /\ UNCHANGED <<record, files, loaded, gate, running>>

\* Mutant: a finished rotation leaves its prepared target.
RemoveTargetOfCleanup ==
    /\ pc = "remove"
    /\ prepared' = (IF Forward(rec) THEN prepared ELSE None) /\ candidate' = None /\ UNCHANGED bounds
    /\ pc' = IF ~Forward(rec) THEN (IF Routes THEN "clear_retaining" ELSE "startup")
             ELSE IF VerifyRunning THEN "clear_retaining" ELSE "idle"
    /\ UNCHANGED <<record, config, dropin, directory, services>>

RemoveTarget ==
    /\ pc = "remove"
    /\ \/ prepared' = None /\ candidate' = None /\ UNCHANGED bounds
          /\ pc' = IF ~Forward(rec) THEN (IF Routes THEN "clear_retaining" ELSE "startup")
                   ELSE IF VerifyRunning THEN "clear_retaining" ELSE "idle"
       \/ prepared' \in {prepared, None} /\ candidate' = candidate /\ Fails /\ pc' = "idle"
    /\ UNCHANGED <<record, config, dropin, directory, services>>

\* Mutant: the directory stays although the record says the product made it.
CleanupStartupKeepsDirectory ==
    /\ pc = "startup"
    /\ dropin' = None /\ UNCHANGED directory
    /\ loaded' = FALSE /\ pc' = "clear" /\ UNCHANGED bounds
    /\ UNCHANGED <<record, config, candidate, prepared, gate, running, served>>

\* The drop-in, the directory if the product made it, then a reload.
CleanupStartup ==
    /\ pc = "startup"
    /\ dropin' = None
    /\ \/ /\ directory' = (IF rec.startup = "created" THEN None ELSE directory)
          /\ loaded' = FALSE /\ pc' = "clear" /\ UNCHANGED bounds
       \/ /\ directory' \in {directory} \cup (IF rec.startup = "created" THEN {None} ELSE {})
          /\ UNCHANGED loaded /\ Fails /\ pc' = "idle"
    /\ UNCHANGED <<record, config, candidate, prepared, gate, running, served>>

Clear ==
    /\ pc \in {"clear", "clear_retaining"}
    /\ LET n == ClearRecord(rec, pc = "clear_retaining")
       IN  \/ PublishSucceeds(n) /\ pc' = "idle" /\ UNCHANGED bounds
           \/ PublishFails(n) /\ Fails /\ pc' = "idle"
    /\ UNCHANGED <<files, services>>

-----------------------------------------------------------------------------
(* systemd, failures and power.                                            *)

\* At boot, on failure or by hand: the proxy is started.  With the drop-in
\* loaded that waits for the host's lock and asks the product.
SystemStartsProxy ==
    /\ running = None
    /\ loaded => pc = "idle" /\ StartAuthorized(FALSE)
    /\ running' = config
    /\ UNCHANGED <<record, files, loaded, gate, served, pc, bounds>>

SystemStartsServing ==
    /\ Subscribed /\ served = None
    /\ pc = "idle" /\ ServingAuthorized(FALSE)
    /\ served' = config
    /\ UNCHANGED <<record, files, loaded, gate, running, pc, bounds>>

ServiceStops ==
    /\ Fails
    /\ \/ running # None /\ running' = None /\ UNCHANGED served
       \/ served # None /\ served' = None /\ UNCHANGED running
    /\ UNCHANGED <<record, files, loaded, gate, pc>>

Kill ==
    /\ pc # "idle" /\ Fails
    /\ pc' = "idle"
    /\ UNCHANGED <<record, files, services>>

\* /run and the services are gone; systemd reads the unit anew.
PowerLoss ==
    /\ losses < MaxPowerLoss /\ losses' = losses + 1
    /\ rec' \in exposed /\ exposed' = {rec'}
    /\ \/ rec' = rec /\ staged' \in IF staged = None THEN {None} ELSE {None, Torn, staged}
       \/ rec' # rec /\ staged' \in {None, rec}
    /\ loaded' = (dropin = "whole") /\ gate' = None /\ running' = None /\ served' = None
    /\ pc' = "idle"
    /\ UNCHANGED <<files, generated, failures>>

-----------------------------------------------------------------------------

Init ==
    /\ rec = [cp |-> Idle, source |-> 0, target |-> 0, config |-> 0, startup |-> "none"]
    /\ staged = None /\ exposed = {rec}
    /\ config = 0 /\ candidate = None /\ prepared = None
    /\ dropin = None /\ directory \in {None, "foreign"}
    /\ loaded = FALSE /\ gate = None
    /\ running = 0 /\ served = IF Subscribed THEN 0 ELSE None
    /\ pc = "idle"
    /\ generated = 0 /\ failures = 0 /\ losses = 0

OwnerStep ==
    \/ StagedCompletion \/ PublishStaged
    \/ PrepareTarget \/ PublishStartup \/ Reload \/ Observe \/ StopSource
    \/ PublishTarget \/ StartTarget \/ VerifyTarget \/ Advance
    \/ RestoreSource \/ FinishSubscription \/ RemoveTarget \/ CleanupStartup \/ Clear

System == SystemStartsProxy \/ SystemStartsServing \/ ServiceStops \/ Kill \/ PowerLoss

Next == Rotate \/ Finish \/ OwnerStep \/ System

Spec == Init /\ [][Next]_vars

\* A journey that runs takes its next step, and the Owner keeps choosing
\* Finish Client Identity rotation while it is offered.
FairSpec == Spec /\ WF_vars(OwnerStep) /\ WF_vars(Finish)

-----------------------------------------------------------------------------
(* Properties.                                                             *)

TypeOK ==
    /\ rec \in Records
    /\ staged \in Records \cup {None, Torn}
    /\ exposed \in SUBSET Records /\ rec \in exposed
    /\ config \in Identities
    /\ candidate \in Identities \cup {None, Torn}
    /\ prepared \in Identities \cup {None, Torn}
    /\ dropin \in {None, Torn, "whole"}
    /\ directory \in {None, "foreign", "ours"}
    /\ loaded \in BOOLEAN
    /\ gate \in Identities \cup {None}
    /\ running \in Identities \cup {None}
    /\ served \in Identities \cup {None}
    /\ pc \in {"idle", "prepare", "forward", "advance", "staged", "staged_completion", "restore",
               "subscription", "remove", "startup", "clear", "clear_retaining"}
    /\ generated \in 0 .. MaxRotations
    /\ failures \in 0 .. MaxFailures
    /\ losses \in 0 .. MaxPowerLoss

\* At most one Client Identity is authorized: the proxy runs, and an artifact
\* is served, only with the identity that every record a power loss could
\* leave selects.  No session of a revoked identity and no replacement before
\* its revocation of the source is durable.
OneIdentity ==
    \A r \in exposed :
        /\ running \in {None, Selected(r)}
        /\ served \in {None, Selected(r)}

\* Whatever record recovery reads, the inspection of the host accepts it, if
\* every file has the bytes it should have: recovery is never locked out by
\* the order in which effects and checkpoints happen.
RecoveryIsAdmitted ==
    \/ Torn \in {candidate, prepared, dropin}
    \/ \A r \in exposed : IF Pending(r) THEN Inspected(r) ELSE config = r.config

\* The drop-in and its directory are owned by every record a power loss could
\* leave, and the directory that was found is never removed.
StartupIsOwned ==
    \A r \in exposed :
        /\ dropin # None => r.startup # "none"
        /\ directory = "ours" => r.startup = "created"
        /\ r.startup = "found" => directory = "foreign"

\* Once every record a power loss could leave revokes the source, no later
\* record selects it again.
RevocationIsFinal ==
    [][\A r \in exposed, s \in exposed' :
         (\A x \in exposed : Forward(x)) => Selected(s) = r.target]_vars

\* Kept for inspection: bytes that are not the recorded ones.
Preserved == Torn \in {staged, candidate, prepared, dropin}

\* Finish cannot show that the proxy runs: systemd has not loaded what is on
\* disk, or the proxy stopped when only its completion was left.
ProofLost ==
    \/ ~UnitKnown
    \/ running = None /\ (rec.cp = TargetStarted \/ (staged \in Records /\ ~Pending(staged)))

\* Finish cannot start what already runs.
AlreadyStarted == rec.cp = TargetPublished /\ running # None

\* An interrupted rotation is finished or cleaned up, unless one of the states
\* above is reached.
RotationEnds == Pending(rec) ~> (~Pending(rec) \/ Preserved \/ ProofLost \/ AlreadyStarted)

\* A rotation that ended, cleaned up or finished after whatever interruptions,
\* leaves nothing of itself: no target, no candidate, no torn drop-in, and the
\* startup integration is whole exactly if the record keeps it.
NothingIsLeft ==
    ~Pending(rec) =>
        /\ prepared = None /\ candidate = None
        /\ dropin = (IF rec.startup = "none" THEN None ELSE "whole")

\* Host and record fit together in every record a power loss could leave:
\* recovery is admitted, the startup integration is owned, and a rotation that
\* ended left nothing behind.
HostFitsTheRecord == TypeOK /\ RecoveryIsAdmitted /\ StartupIsOwned /\ NothingIsLeft

\* With nothing pending, nothing staged and the proxy running, the Owner may
\* rotate the Client Identity: only unfinished work is said to block it.
NextRotationIsOpen == (pc = "idle" /\ ~Pending(rec) /\ staged = None /\ VerifyRunning) => Admitted

-----------------------------------------------------------------------------
(* The inductive strengthening.                                            *)

\* What publication admits on top of r.
Succ(r, s) ==
    \/ ~Pending(r) /\ s.cp = Authorized /\ s.config = r.config
    \/ r.cp < TargetStarted /\ s = AdvanceRecord(r)
    \/ /\ Pending(r) /\ (Forward(r) => r.cp = TargetStarted)
       /\ s \in {ClearRecord(r, TRUE), ClearRecord(r, FALSE)}

\* The records recovery could come to work from.
Known == exposed \cup ({staged} \cap Records)

WellFormed(r) ==
    /\ r.cp \in Authorized .. Revoked => r.config = r.source
    /\ r.cp \in {TargetPublished, TargetStarted} => r.config = r.target
    /\ Pending(r) => r.startup # "none"

RecordInv ==
    /\ \A r \in exposed : r = rec \/ Succ(r, rec)
    /\ staged \in Records => Succ(rec, staged)
    /\ \A r \in Known : WellFormed(r)

\* The files are those of r; a torn one is where r's next effect writes.
FilesFit(r) ==
    /\ IF r.cp = Revoked THEN config \in {r.source, r.target} ELSE config = r.config
    /\ prepared \in {None, Torn, r.target}
    /\ prepared # None => Pending(r)
    /\ prepared = Torn => r.cp = Authorized
    /\ r.cp \in {Revoked, TargetPublished} => prepared = r.target
    /\ candidate \in {None, Torn, r.target}
    /\ candidate # None => Forward(r)
    /\ candidate = Torn => r.cp = Revoked
    /\ dropin = Torn => r.cp = TargetPrepared
    /\ dropin # None => r.startup # "none"
    /\ ~Pending(r) /\ r.startup # "none" => dropin = "whole"
    /\ directory = "ours" => r.startup = "created"
    /\ r.startup = "found" => directory = "foreign"

\* A revoked source cannot be started behind the product's back.
Guarded == \A r \in exposed : Forward(r) => dropin = "whole" /\ loaded

\* What the Owner's process has established where it is.
JourneyInv ==
    /\ pc # "idle" =>
          /\ exposed = {rec} /\ Pending(rec)
          /\ Torn \notin {candidate, prepared, dropin}
          /\ IF pc \in {"staged", "staged_completion"} THEN staged \in Records ELSE staged = None
    /\ pc = "prepare" => rec.cp = Authorized
    /\ pc = "forward" => rec.cp # Authorized
    /\ pc = "advance" => rec.cp # TargetStarted
    /\ pc \in {"forward", "advance"} /\ rec.cp # TargetStarted => prepared = rec.target
    /\ pc = "advance" /\ rec.cp = Quiescent => Routes /\ Quiescence
    /\ pc = "advance" /\ rec.cp = Revoked => config = rec.target
    /\ pc = "restore" => ~Forward(rec)
    /\ pc \in {"subscription", "remove", "startup", "clear", "clear_retaining"} /\ Forward(rec) =>
          rec.cp = TargetStarted
    /\ pc \in {"startup", "clear", "clear_retaining"} => prepared = None /\ candidate = None
    /\ pc \in {"startup", "clear"} => ~Forward(rec)
    /\ pc = "clear" => dropin = None /\ directory # "ours"
    /\ pc = "clear_retaining" => dropin = "whole"

IdentityInv ==
    /\ TypeOK /\ RecordInv /\ (\A r \in Known : FilesFit(r)) /\ Guarded /\ OneIdentity /\ JourneyInv
=============================================================================
