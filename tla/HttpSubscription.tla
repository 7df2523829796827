-------------------------- MODULE HttpSubscription --------------------------
(***************************************************************************)
(* The HTTP subscription: enablement, link rotation, runtime repair and    *)
(* Finish subscription change of src/src/proxyinstallation/subscription.rs *)
(* over the transitions of src/src/records/transitions.rs and the effects  *)
(* of src/src/host/subscription/, with what src/src/runtime_handoff.rs     *)
(* lets Subscription Serving start with, and View details and the mark of  *)
(* a compromised link of src/src/disclosure.rs.                            *)
(*                                                                         *)
(* Enablement publishes each checkpoint before its effect and is cleaned   *)
(* up unless it commits.  A rotation keeps the source until it is stopped  *)
(* and the target is committed; from there it only goes forward.           *)
(*                                                                         *)
(* A link is a number; a new one takes the next.  The record store is used *)
(* through what OwnershipStore establishes, as in StandardSetup.  Files of *)
(* the host are durable as they are written.                               *)
(***************************************************************************)
EXTENDS Naturals, Sequences

CONSTANTS
    None,          \* no link, no file, no staged record
    Torn,          \* a staged record that does not decode
    Failed,        \* the serving unit's retained failure
    MaxLinks,      \* bound on the links ever generated
    MaxFailures,   \* bound on failed calls, kills and stops of services
    MaxPowerLoss   \* bound on power losses

VARIABLES
    rec,        \* the current ownership record
    staged,     \* the staged record, Torn or None
    exposed,    \* the records a power loss could leave
    host,       \* what each owned path holds
    torn,       \* is there a publication stage with partial bytes
    serving,    \* the link the serving process answers to, Failed or None
    proxy,      \* does the proxy run
    pc,         \* where the Owner's process is
    disclosed,  \* the link last shown to the Owner
    leaked,     \* the links the Owner reported, durably
    generated,  \* links generated
    failures,
    losses

record == <<rec, staged, exposed>>
services == <<serving, proxy>>
knowledge == <<disclosed, leaked>>
bounds == <<generated, failures, losses>>
vars == <<record, host, torn, services, pc, knowledge, bounds>>

-----------------------------------------------------------------------------
(* The record.                                                             *)

Links == 1 .. MaxLinks

\* HTTP_ENABLEMENT_CHECKPOINTS, by position.
FirewallUnit == 1
FirewallReloaded == 2
FirewallEnabled == 3
Staging == 4
CandidateToken == 5
CandidateState == 6
Token == 7
State == 8
Unit == 9
CandidateTokenCleared == 10
CandidateStateCleared == 11
UnitReloaded == 12
ServingActivated == 13

\* Checkpoints of a rotation and of a repair.
TargetAuthorized == 0
StopAuthorized == 1
Committed == 2

Prepared == 0
RepairCommitted == 1
RepairTargeted == 2
Accepted == 3

Records ==
    [op : {"none", "enable", "rotate", "repair"}, cp : 0 .. ServingActivated,
     source : Links \cup {None}, target : Links \cup {None},
     serving : Links \cup {None}, compromised : BOOLEAN]

ASSUME SubscriptionAssumption ==
    /\ MaxLinks \in Nat /\ MaxFailures \in Nat /\ MaxPowerLoss \in Nat
    /\ None # Torn /\ None # Failed
    /\ None \notin Records \cup Links \cup {0} /\ Torn \notin Records /\ Failed \notin Links

Idle(link, compromised) ==
    [op |-> "none", cp |-> 0, source |-> None, target |-> None,
     serving |-> link, compromised |-> compromised]

Pending(r) == r.op # "none"

Forward(r) == r.op = "rotate" /\ r.cp = Committed

BeginRecord(r, op, target) ==
    [op |-> op, cp |-> 0, source |-> r.serving, target |-> target,
     serving |-> r.serving, compromised |-> r.compromised]

\* Mutant: a checkpoint is passed over.
AdvanceRecordSkips(r) == [r EXCEPT !.cp = @ + 2]

AdvanceRecord(r) ==
    [r EXCEPT !.cp = @ + 1,
              !.serving = IF r.op = "rotate" /\ r.cp = StopAuthorized THEN r.target ELSE @]

\* Mutant: the report of a leaked link is dropped with an interrupted change.
CleanupRecordUnmarked(r) == Idle(r.serving, FALSE)

\* The three cleanups: the mark of a compromised link stays.
CleanupRecord(r) == Idle(r.serving, r.compromised)

\* Mutant: a completed rotation keeps the source selected.
CompleteRecordToSource(r) ==
    Idle(IF r.op = "enable" THEN r.target ELSE r.source, r.compromised /\ r.op # "rotate")

\* commit_http_enablement, complete_http_link_rotation, complete_http_runtime_repair.
CompleteRecord(r) ==
    Idle(IF r.op = "enable" THEN r.target ELSE r.serving, r.compromised /\ r.op # "rotate")

\* select_http_authority.
Selected(r) ==
    IF r.serving # None THEN r.serving
    ELSE IF r.op = "enable" /\ r.cp >= Staging THEN r.target ELSE None

ServingAuthorized(r) ==
    /\ Selected(r) # None
    /\ r.op # "rotate"
    /\ ~(r.op = "repair" /\ r.cp = RepairCommitted)

-----------------------------------------------------------------------------
(* The host.                                                               *)

Secrets == {"token", "state", "candidate_token", "candidate_state"}
Candidates == {"candidate_token", "candidate_state"}
Resources == Secrets \cup {"firewall_unit", "firewall_link", "rule", "staging", "unit", "link"}

\* Protected bytes depend on the link, units and links are fixed (0).
Body(path, link) == IF path \in Secrets THEN link ELSE 0

Write(h, paths, link) == [p \in Resources |-> IF p \in paths THEN Body(p, link) ELSE h[p]]

Remove(h, paths) == [p \in Resources |-> IF p \in paths THEN None ELSE h[p]]

\* What the effect of each enablement checkpoint publishes and clears.
Published(cp) ==
    CASE cp = FirewallUnit -> {"firewall_unit"}
      [] cp = FirewallEnabled -> {"firewall_link", "rule"}
      [] cp = Staging -> {"staging"}
      [] cp = CandidateToken -> {"candidate_token"}
      [] cp = CandidateState -> {"candidate_state"}
      [] cp = Token -> {"token"}
      [] cp = State -> {"state"}
      [] cp = Unit -> {"unit"}
      [] cp = ServingActivated -> {"link"}
      [] OTHER -> {}

Cleared(cp) ==
    CASE cp = CandidateTokenCleared -> {"candidate_token"}
      [] cp = CandidateStateCleared -> {"candidate_state"}
      [] OTHER -> {}

\* publish_subscription writes a stage first; a link or a rule has none.
Stages(cp) ==
    Published(cp) # {} /\ cp \notin {FirewallEnabled, Staging, ServingActivated}

StagingEmpty == host["staging"] # None /\ \A p \in Candidates : host[p] = None

CompleteMaterial(link) ==
    /\ \A p \in {"token", "state", "unit", "firewall_unit", "firewall_link"} : host[p] = Body(p, link)
    /\ rec.op = "enable" \/ host["link"] # None

\* The observations of inspect.
Absent == (\A p \in Resources : host[p] = None) /\ ~torn /\ serving \notin Links

Material == CompleteMaterial(rec.serving) /\ host["rule"] # None

\* Strict quiescence: a retained failure does not count as inactive.
Quiescent == serving = None

\* verify, with the probe of the credential.
Verified(link) ==
    /\ CompleteMaterial(link) /\ StagingEmpty
    /\ proxy /\ serving = link /\ host["rule"] # None

-----------------------------------------------------------------------------
(* Publication and failures.                                               *)

Fails == failures < MaxFailures /\ failures' = failures + 1 /\ UNCHANGED <<generated, losses>>

Stop == pc' = "idle"

Refuse == Stop /\ UNCHANGED <<record, host, torn, services, knowledge, bounds>>

\* Mutant: what the reread shows is taken for published.
PublishUnsynchronized(n) == rec' = n /\ staged' = None /\ exposed' = {rec, n}

\* state() refuses any staged record, so a change starts without one.
PublishSucceeds(n) == rec' = n /\ staged' = None /\ exposed' = {n}

\* publish failed, or the process died in it.
PublishFails(n) ==
    \/ staged' \in {None, n, Torn} /\ UNCHANGED <<rec, exposed>>
    \/ rec' = n /\ staged' = None /\ exposed' = {rec, n}

\* A publication that the journey goes on from at step next.
Publication(n, next) ==
    \/ PublishSucceeds(n) /\ pc' = next /\ UNCHANGED bounds
    \/ PublishFails(n) /\ Fails /\ Stop

-----------------------------------------------------------------------------
(* The Owner's operations, reviewed and executed with unchanged facts.     *)

\* state(): no staged record, and the proxy runs.
Offered == pc = "idle" /\ staged = None /\ proxy

\* A change that generates a link, up to its first publication.
Begin(op, next) ==
    /\ generated < MaxLinks /\ generated' = generated + 1
    /\ LET n == BeginRecord(rec, op, generated + 1)
       IN  \/ PublishSucceeds(n) /\ pc' = next /\ UNCHANGED failures
           \/ failures < MaxFailures /\ failures' = failures + 1 /\ PublishFails(n) /\ Stop
    /\ UNCHANGED <<host, torn, services, knowledge, losses>>

Enable ==
    /\ Offered /\ ~Pending(rec) /\ rec.serving = None /\ Absent
    /\ Begin("enable", "advance")

Rotate ==
    /\ Offered /\ ~Pending(rec) /\ rec.serving # None /\ Material
    /\ Begin("rotate", "prepare")

Repair ==
    /\ Offered /\ ~Pending(rec) /\ rec.serving # None /\ Material
    /\ serving # rec.serving
    /\ Publication(BeginRecord(rec, "repair", None), "advance")
    /\ UNCHANGED <<host, torn, services, knowledge>>

\* finish and repair: where the recorded direction goes on.
FinishStep(r) ==
    CASE r.op = "enable" -> "cleanup"
      [] r.op = "rotate" -> IF Forward(r) THEN "replace" ELSE "restore"
      [] r.op = "repair" /\ r.cp = Prepared -> "clear"
      [] r.op = "repair" /\ r.cp = RepairCommitted -> "advance"
      [] r.op = "repair" /\ r.cp = RepairTargeted -> "activate"
      [] OTHER -> "finish_repair"

\* Finish subscription change.  The record is not synchronized before.
Finish ==
    /\ Offered /\ Pending(rec)
    /\ pc' = FinishStep(rec)
    /\ UNCHANGED <<record, host, torn, services, knowledge, bounds>>

-----------------------------------------------------------------------------
(* Checkpoints.                                                            *)

\* What follows the publication of a checkpoint.
StepAfter(r) ==
    CASE r.op = "enable" -> "effect"
      [] r.op = "rotate" -> IF Forward(r) THEN "replace" ELSE "stop"
      [] OTHER -> CASE r.cp = RepairCommitted -> "advance"
                    [] r.cp = RepairTargeted -> "activate"
                    [] OTHER -> "finish_repair"

Advance ==
    /\ pc = "advance"
    /\ Publication(AdvanceRecord(rec), StepAfter(AdvanceRecord(rec)))
    /\ UNCHANGED <<host, torn, services, knowledge>>

\* Publication of the result, then disclosure of an enabled or rotated link,
\* whose display may fail.
Complete ==
    \/ /\ PublishSucceeds(CompleteRecord(rec)) /\ Stop
       /\ disclosed' \in IF rec.op = "repair" THEN {disclosed} ELSE {disclosed, rec.target}
       /\ UNCHANGED bounds
    \/ PublishFails(CompleteRecord(rec)) /\ Fails /\ Stop /\ UNCHANGED disclosed

\* Verify, then the publication that rests on it.
Verify ==
    /\ pc = "verify"
    /\ IF ~Verified(Selected(rec)) THEN Refuse
       ELSE /\ IF rec.op = "repair"
               THEN /\ Publication(AdvanceRecord(rec), "finish_repair")
                    /\ UNCHANGED disclosed
               ELSE Complete
            /\ UNCHANGED <<host, torn, services, leaked>>

\* FinishRepairState: verified again, the state file synchronized.
FinishRepair ==
    /\ pc = "finish_repair"
    /\ IF Verified(Selected(rec))
       THEN Complete /\ UNCHANGED <<host, torn, services, leaked>>
       ELSE Refuse

\* Mutant: the record is cleared without the cleanup.
ClearAlways ==
    /\ pc \in {"clear", "cleanup"}
    /\ Publication(CleanupRecord(rec), "idle")
    /\ UNCHANGED <<host, torn, services, knowledge>>

Clear ==
    /\ pc = "clear"
    /\ Publication(CleanupRecord(rec), "idle")
    /\ UNCHANGED <<host, torn, services, knowledge>>

-----------------------------------------------------------------------------
(* Effects.                                                                *)

\* ActivateServing: what answers to the selected link is left alone; another
\* process is stopped first.  A start that is refused leaves a failure.
ActivateServing == serving' = Selected(rec)

ActivationFails == serving' \in {serving, None, Failed, Selected(rec)} /\ (serving' = None => serving # Failed)

\* The effect of the enablement checkpoint just published.
EnableEffect ==
    /\ pc = "effect"
    /\ \/ /\ host' = Remove(Write(host, Published(rec.cp), rec.target), Cleared(rec.cp))
          /\ IF rec.cp = ServingActivated
             THEN ActivateServing /\ pc' = "verify"
             ELSE pc' = "advance" /\ UNCHANGED serving
          /\ UNCHANGED <<torn, bounds>>
       \/ /\ Fails /\ Stop
          /\ \E done \in SUBSET Published(rec.cp), gone \in SUBSET Cleared(rec.cp) :
               /\ "rule" \in done => "firewall_link" \in done
               /\ host' = Remove(Write(host, done, rec.target), gone)
               /\ IF "link" \in done THEN ActivationFails ELSE UNCHANGED serving
               /\ torn' \in {torn} \cup (IF Stages(rec.cp) /\ done = {} THEN {TRUE} ELSE {})
    /\ UNCHANGED <<record, proxy, knowledge>>

\* Mutant: the candidate of the state file is forgotten.
CleanupOrderForgetsCandidate ==
    <<"token", "candidate_token", "state", "unit", "link", "staging", "rule", "firewall_link", "firewall_unit">>

\* cleanup_enable, in its order.
CleanupOrder ==
    <<"token", "candidate_token", "state", "candidate_state", "unit", "link", "staging", "rule",
      "firewall_link", "firewall_unit">>

CleanedUp(n) == {CleanupOrder[i] : i \in 1 .. n}

\* DisableServing stops what runs; it does not clear a failure.  Absence is
\* observed again at the end.
CleanupEnable ==
    /\ pc = "cleanup"
    /\ IF torn THEN Refuse
       ELSE /\ serving' = IF serving \in Links /\ host["unit"] # None THEN None ELSE serving
            /\ IF ~Quiescent'
               THEN Stop /\ UNCHANGED <<host, bounds>>
               ELSE \/ /\ host' = Remove(host, CleanedUp(Len(CleanupOrder))) /\ UNCHANGED bounds
                       /\ pc' = IF \A p \in Resources : host'[p] = None THEN "clear" ELSE "idle"
                    \/ /\ Fails /\ Stop
                       /\ \E n \in 0 .. Len(CleanupOrder) : host' = Remove(host, CleanedUp(n))
            /\ UNCHANGED <<record, torn, proxy, knowledge>>

PrepareRotation ==
    /\ pc = "prepare"
    /\ IF ~(CompleteMaterial(rec.source) /\ StagingEmpty) THEN Refuse
       ELSE /\ \/ host' = Write(host, Candidates, rec.target) /\ pc' = "advance" /\ UNCHANGED <<torn, bounds>>
               \/ /\ Fails /\ Stop
                  /\ \E done \in {{}, {"candidate_token"}, Candidates} :
                       /\ host' = Write(host, done, rec.target)
                       /\ torn' \in {torn} \cup (IF done # Candidates THEN {TRUE} ELSE {})
            /\ UNCHANGED <<record, services, knowledge>>

\* Mutant: the source is left running for the activation to replace.
StopSourceLater ==
    /\ pc = "stop" /\ pc' = "advance"
    /\ UNCHANGED <<record, host, torn, services, knowledge, bounds>>

StopSource ==
    /\ pc = "stop"
    /\ IF \/ ~CompleteMaterial(rec.source) \/ serving = Failed
          \/ \E p \in Candidates : host[p] # rec.target
       THEN Refuse
       ELSE /\ \/ serving' = None /\ pc' = "advance" /\ UNCHANGED bounds
               \/ serving' \in {serving, None} /\ Fails /\ Stop
            /\ UNCHANGED <<record, host, torn, proxy, knowledge>>

\* Mutant: the state file is left with the source.
TargetMaterialTokenOnly(n) == Remove(Write(host, {"token"}, rec.target), Candidates)

\* The first n candidates are renamed over the canonical files.
TargetMaterial(n) ==
    LET token == IF n >= 1 THEN {"token"} ELSE {}
        state == IF n >= 2 THEN {"state"} ELSE {}
    IN  Remove(Write(host, token \cup state, rec.target),
               (IF n >= 1 THEN {"candidate_token"} ELSE {}) \cup (IF n >= 2 THEN {"candidate_state"} ELSE {}))

\* Mutant: the directory is not synchronized after the renames.
SettledUnsynchronized(n) == exposed' = exposed

\* The directory of the token and the state is that of the record: once the
\* token's rename is synchronized, and before the state's begins, so is the
\* record.  The call may fail between the rename and the synchronization.
Settled(n) ==
    exposed' \in (IF n < 2 THEN {exposed} ELSE {}) \cup (IF n > 0 THEN {{rec}} ELSE {})

\* replace_subscription finds a renamed file in place and synchronizes it.
PublishTarget ==
    /\ pc = "replace"
    /\ IF \/ rec.target \notin {host["token"], host["candidate_token"]}
          \/ rec.target \notin {host["state"], host["candidate_state"]}
       THEN Refuse
       ELSE /\ \/ host' = TargetMaterial(2) /\ Settled(2) /\ pc' = "activate" /\ UNCHANGED bounds
               \/ (\E n \in 0 .. 2 : host' = TargetMaterial(n) /\ Settled(n)) /\ Fails /\ Stop
            /\ UNCHANGED <<rec, staged, torn, services, knowledge>>

Activate ==
    /\ pc = "activate"
    /\ IF ~CompleteMaterial(Selected(rec)) THEN Refuse
       ELSE /\ \/ ActivateServing /\ pc' = "verify" /\ UNCHANGED bounds
               \/ ActivationFails /\ Fails /\ Stop
            /\ UNCHANGED <<record, host, torn, proxy, knowledge>>

\* RestoreSource: the candidates go, the source serves and is verified.
RestoreSource ==
    /\ pc = "restore"
    /\ IF torn \/ ~CompleteMaterial(rec.source) THEN Refuse
       ELSE /\ \/ /\ host' = Remove(host, Candidates) /\ ActivateServing /\ UNCHANGED bounds
                  /\ pc' = IF proxy /\ host["rule"] # None THEN "clear" ELSE "idle"
               \/ /\ Fails /\ Stop /\ ActivationFails
                  /\ \E gone \in {{}, {"candidate_token"}, Candidates} :
                       host' = Remove(host, gone) /\ (gone # Candidates => serving' = serving)
            /\ UNCHANGED <<record, torn, proxy, knowledge>>

-----------------------------------------------------------------------------
(* Disclosure, systemd, failures and power.                                *)

\* View details: the recorded link, if token and state agree with it.
ViewDetails ==
    /\ pc = "idle" /\ staged \in {None, rec}
    /\ rec.serving # None /\ host["token"] = rec.serving /\ host["state"] = rec.serving
    /\ disclosed' = rec.serving
    /\ UNCHANGED <<record, host, torn, services, pc, leaked, bounds>>

MarkCompromised ==
    /\ Offered /\ ~Pending(rec) /\ rec.serving # None /\ ~rec.compromised
    /\ LET n == [rec EXCEPT !.compromised = TRUE]
       IN  \/ PublishSucceeds(n) /\ leaked' = leaked \cup {rec.serving} /\ UNCHANGED bounds
           \/ PublishFails(n) /\ Fails /\ UNCHANGED leaked
    /\ UNCHANGED <<host, torn, services, pc, disclosed>>

\* A start of the enabled unit, at boot or by hand: it needs the lock and the
\* record's permission, and a refusal leaves a failure.
SystemStartsServing ==
    /\ serving \notin Links /\ host["unit"] # None /\ host["link"] # None
    /\ serving' = IF pc = "idle" /\ ServingAuthorized(rec)
                  THEN Selected(rec) ELSE Failed
    /\ UNCHANGED <<record, host, torn, proxy, pc, knowledge, bounds>>

ServingDies ==
    /\ serving \in Links /\ Fails
    /\ serving' = Failed
    /\ UNCHANGED <<record, host, torn, proxy, pc, knowledge>>

ProxyStops ==
    /\ proxy /\ Fails
    /\ proxy' = FALSE
    /\ UNCHANGED <<record, host, torn, serving, pc, knowledge>>

ProxyStarts ==
    /\ ~proxy /\ proxy' = TRUE
    /\ UNCHANGED <<record, host, torn, serving, pc, knowledge, bounds>>

Kill ==
    /\ pc # "idle" /\ Fails
    /\ Stop
    /\ UNCHANGED <<record, host, torn, services, knowledge>>

\* The enabled firewall unit inserts the rule again at boot.
PowerLoss ==
    /\ losses < MaxPowerLoss /\ losses' = losses + 1
    /\ rec' \in exposed /\ exposed' = {rec'}
    /\ \/ rec' = rec /\ staged' \in IF staged = None THEN {None} ELSE {None, Torn, staged}
       \/ rec' # rec /\ staged' \in {None, rec}
    /\ host' = [host EXCEPT !["rule"] =
                  IF host["firewall_unit"] # None /\ host["firewall_link"] # None THEN 0 ELSE None]
    /\ serving' = None /\ proxy' = FALSE /\ Stop
    /\ UNCHANGED <<torn, knowledge, generated, failures>>

-----------------------------------------------------------------------------

Init ==
    /\ rec = Idle(None, FALSE) /\ staged = None /\ exposed = {rec}
    /\ host = [p \in Resources |-> None] /\ torn = FALSE
    /\ serving = None /\ proxy = TRUE
    /\ pc = "idle"
    /\ disclosed = None /\ leaked = {}
    /\ generated = 0 /\ failures = 0 /\ losses = 0

OwnerStep ==
    \/ Advance \/ Verify \/ FinishRepair \/ Clear
    \/ EnableEffect \/ CleanupEnable
    \/ PrepareRotation \/ StopSource \/ PublishTarget \/ Activate \/ RestoreSource

System == SystemStartsServing \/ ServingDies \/ ProxyStops \/ ProxyStarts \/ Kill \/ PowerLoss

Next == Enable \/ Rotate \/ Repair \/ Finish \/ OwnerStep \/ ViewDetails \/ MarkCompromised \/ System

Spec == Init /\ [][Next]_vars

\* A journey that runs takes its next step, the Owner keeps choosing Finish
\* subscription change while it is offered, and the proxy comes back.
FairSpec == Spec /\ WF_vars(OwnerStep) /\ WF_vars(Finish) /\ WF_vars(ProxyStarts)

-----------------------------------------------------------------------------
(* Properties.                                                             *)

TypeOK ==
    /\ rec \in Records
    /\ staged \in Records \cup {None, Torn}
    /\ exposed \in SUBSET Records /\ rec \in exposed
    /\ host \in [Resources -> Links \cup {0, None}]
    /\ torn \in BOOLEAN
    /\ serving \in Links \cup {None, Failed}
    /\ proxy \in BOOLEAN
    /\ pc \in {"idle", "advance", "effect", "verify", "clear", "cleanup", "prepare", "stop", "replace",
               "activate", "restore", "finish_repair"}
    /\ disclosed \in Links \cup {None}
    /\ leaked \subseteq Links
    /\ generated \in 0 .. MaxLinks
    /\ failures \in 0 .. MaxFailures
    /\ losses \in 0 .. MaxPowerLoss

\* Only the link that every record a power loss could leave selects is ever
\* answered to: no overlap of source and target in a rotation.
OneLink == serving \in Links => \A r \in exposed : Selected(r) = serving

\* Every resource on the host belongs to every record a power loss could
\* leave, and during an enablement to a checkpoint already recorded.
ResourcesAreOwned ==
    \A r \in exposed, p \in Resources :
        host[p] # None =>
            \/ r.serving # None
            \/ r.op = "enable" /\ \E cp \in 1 .. r.cp : p \in Published(cp)

\* The token's rename overtook the commitment: it survived a power loss, or
\* could, that takes the record back to the stop of the source.  Neither the
\* source nor the target is complete then, and recovery is refused.
Overtaken(r) == r.op = "rotate" /\ r.cp = StopAuthorized /\ host["token"] = r.target

\* Whatever record recovery reads, it finds the bytes its direction needs:
\* the complete source before the commitment, the target's candidates or the
\* target itself after it.  The state file never overtakes the commitment.
RecoveryIsAdmitted ==
    \A r \in exposed :
        r.op = "rotate" =>
            IF Forward(r)
            THEN /\ r.target \in {host["token"], host["candidate_token"]}
                 /\ r.target \in {host["state"], host["candidate_state"]}
            ELSE host["state"] = r.source /\ (host["token"] = r.source \/ Overtaken(r))

\* A link reported as compromised is selected only by records that say so.
ReportIsKept == \A r \in exposed : r.serving \in leaked => r.compromised

\* Once every record a power loss could leave commits a rotation, the source
\* is never selected again by the next one.
RevocationIsFinal ==
    [][(\A r \in exposed : Forward(r)) => \A r \in exposed, s \in exposed' : s.serving = r.target]_vars

\* The journey shows a link only when every record a power loss could leave
\* selects it without anything pending.
ShownAfterCommitment ==
    [][(pc # "idle" /\ disclosed' # disclosed) =>
         \A r \in exposed' : r.serving = disclosed' /\ ~Pending(r)]_vars

\* Kept for inspection: partial bytes, or a staged record.
Preserved == torn \/ staged # None

\* Cleanup cannot show quiescence: systemd retains a failed serving start.
FailureRetained == rec.op = "enable" /\ serving = Failed

\* Finishing an accepted repair verifies and does not start: a runtime lost
\* after the acceptance waits for systemd.
AcceptedRuntimeLost == rec.op = "repair" /\ rec.cp = Accepted /\ serving # rec.serving

\* An interrupted change is finished or cleaned up, unless one of the states
\* above is reached.
ChangeEnds ==
    Pending(rec) ~>
        (~Pending(rec) \/ Preserved \/ FailureRetained \/ AcceptedRuntimeLost \/ Overtaken(rec))

\* Host and record fit together in every record a power loss could leave:
\* everything on the host is owned, and recovery finds the bytes it needs.
HostFitsTheRecord == TypeOK /\ ResourcesAreOwned /\ RecoveryIsAdmitted

\* What the Owner was told stays true: a link is shown once it is committed
\* for good, and a revoked one never comes back.
LinksAreFinal == RevocationIsFinal /\ ShownAfterCommitment

-----------------------------------------------------------------------------
(* The inductive strengthening.                                            *)

Advances(r) ==
    \/ r.op = "enable" /\ r.cp < ServingActivated
    \/ r.op = "rotate" /\ r.cp < Committed
    \/ r.op = "repair" /\ r.cp < Accepted

CleansUp(r) ==
    \/ r.op = "enable"
    \/ r.op = "rotate" /\ ~Forward(r)
    \/ r.op = "repair" /\ r.cp = Prepared

Completes(r) ==
    \/ r.op = "enable" /\ r.cp = ServingActivated
    \/ Forward(r)
    \/ r.op = "repair" /\ r.cp = Accepted

\* What publication admits on top of r.
Succ(r, s) ==
    \/ /\ ~Pending(r) /\ s = BeginRecord(r, s.op, s.target)
       /\ s.op \in IF r.serving = None THEN {"enable"} ELSE {"rotate", "repair"}
    \/ Advances(r) /\ s = AdvanceRecord(r)
    \/ CleansUp(r) /\ s = CleanupRecord(r)
    \/ Completes(r) /\ s = CompleteRecord(r)
    \/ ~Pending(r) /\ r.serving # None /\ s = [r EXCEPT !.compromised = TRUE]

\* A record that speaks of links generated so far, g of them.
WellFormed(r, g) ==
    /\ {r.source, r.target, r.serving} \subseteq 1 .. g \cup {None}
    /\ r.op = "enable" => r.serving = None /\ r.target # None
    /\ r.op = "rotate" =>
          /\ r.cp <= Committed /\ r.source # None /\ r.target # None
          /\ r.serving = IF Forward(r) THEN r.target ELSE r.source
    /\ r.op = "repair" => r.cp <= Accepted /\ r.serving # None

RecordInv == \A r \in exposed : WellFormed(r, generated) /\ (r = rec \/ Succ(r, rec))

\* r keeps the reports; the link it introduces was never reported.
Reports(r) ==
    /\ r.serving \in leaked => r.compromised
    /\ r.op \in {"enable", "rotate"} => r.target \notin leaked

ReportInv == leaked \subseteq 1 .. generated /\ \A r \in exposed : Reports(r)

\* The record each step of the Owner's process works from.
StepFits ==
    /\ pc = "advance" => Advances(rec) /\ ~(rec.op = "repair" /\ rec.cp = RepairTargeted)
    /\ pc = "effect" => rec.op = "enable" /\ rec.cp # 0 /\ exposed = {rec}
    /\ pc = "verify" => \/ rec.op = "enable" /\ rec.cp = ServingActivated
                        \/ Forward(rec)
                        \/ rec.op = "repair" /\ rec.cp = RepairTargeted
    /\ pc = "finish_repair" => rec.op = "repair" /\ rec.cp = Accepted
    /\ pc = "clear" => CleansUp(rec)
    /\ pc = "cleanup" => rec.op = "enable"
    /\ pc = "prepare" => rec.op = "rotate" /\ rec.cp = TargetAuthorized
    /\ pc = "stop" => rec.op = "rotate" /\ rec.cp = StopAuthorized
    /\ pc = "replace" => Forward(rec)
    /\ pc = "activate" => Forward(rec) \/ (rec.op = "repair" /\ rec.cp = RepairTargeted)
    /\ pc = "restore" => rec.op = "rotate" /\ ~Forward(rec)

ControlInv == TypeOK /\ RecordInv /\ ReportInv /\ StepFits

\* The host is one that r owns, recovers from and answers for.
FitsHost(r) ==
    /\ \A p \in Resources :
          host[p] # None =>
              \/ r.serving # None
              \/ r.op = "enable" /\ \E cp \in 1 .. r.cp : p \in Published(cp)
    /\ r.op = "rotate" =>
          IF Forward(r)
          THEN /\ r.target \in {host["token"], host["candidate_token"]}
               /\ r.target \in {host["state"], host["candidate_state"]}
          ELSE host["state"] = r.source /\ (host["token"] = r.source \/ Overtaken(r))
    /\ serving \in Links => Selected(r) = serving

\* Until a commitment is durable nothing serves, and the target is at most
\* being published.
CommitmentInv ==
    Forward(rec) => exposed = {rec} \/ (serving \notin Links /\ pc \in {"idle", "replace"})

\* What the Owner's process has established on the host.
HostInv ==
    /\ CommitmentInv
    /\ \A r \in exposed : FitsHost(r)
    /\ pc = "advance" /\ rec.op = "rotate" /\ rec.cp = StopAuthorized =>
          serving \notin Links /\ \A p \in Candidates : host[p] = rec.target
    /\ pc = "clear" /\ rec.op = "enable" =>
          serving \notin Links /\ \A p \in Resources : host[p] = None

ChangeInv == ControlInv /\ HostInv
=============================================================================
