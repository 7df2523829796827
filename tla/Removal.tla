------------------------------ MODULE Removal ------------------------------
(***************************************************************************)
(* Complete removal and its recovery: Removal of src/src/removal.rs over   *)
(* the effects of src/src/host/linux/removal.rs, and the restoration of    *)
(* the exact finishing release by src/src/host/restoration.rs.             *)
(*                                                                         *)
(* A confirmed removal is committed in the ownership record.  From then on *)
(* it only goes forward: every effect is performed, then checkpointed; the *)
(* product removes its own executable and Installed Record; the record     *)
(* moves to /var/lib/.sbxr-removal.json, its directory goes, and the moved *)
(* record is unlinked last of all.  A removal that lost its executable is  *)
(* finished after the installer restored the missing members.              *)
(*                                                                         *)
(* The record store is used through what OwnershipStore establishes, as in *)
(* StandardSetup.                                                          *)
(***************************************************************************)
EXTENDS Naturals, Sequences

CONSTANTS
    None,       \* no record
    Torn,       \* a staged file that does not decode
    Shapes,     \* the auxiliary authority a record may hold, as sets of fields
    MaxFaults   \* bound on the failures of one behaviour

VARIABLES
    auth,       \* the record at its current path or at the finalizer's, or None
    staged,     \* the staged record, Torn or None
    exposed,    \* the authorities a power loss could leave
    host,       \* the owned resources present
    files,      \* the installed product: executable and Installed Record
    statedir,   \* is /var/lib/sbxr there
    session,    \* is a process of the exact finishing release running
    pc,         \* where that process, or the installer, is
    aux,        \* next auxiliary effect of the list
    faults

vars == <<auth, staged, exposed, host, files, statedir, session, pc, aux, faults>>

-----------------------------------------------------------------------------
(* Authority.                                                              *)

Fields == {"tunnel", "identity", "identitySubscription", "enablement", "rotation", "repair",
           "serving", "renewal", "resources", "retirement", "startup"}

\* validation.rs: which operations and resources one record may hold at once.
ValidShape(s) ==
    /\ s \subseteq Fields
    /\ "resources" \in s => "serving" \in s
    /\ "serving" \in s => s \cap {"resources", "renewal"} # {}
    /\ s \cap {"rotation", "repair", "renewal", "retirement"} # {} => "serving" \in s
    /\ \A f, g \in {"identity", "enablement", "rotation", "repair"} : {f, g} \subseteq s => f = g
    /\ "enablement" \in s => "serving" \notin s
    /\ ~({"renewal", "retirement"} \subseteq s)
    /\ "identity" \in s => "startup" \in s
    /\ "identitySubscription" \in s <=> {"identity", "serving"} \subseteq s

Limit(proxy) == IF proxy THEN 11 ELSE 3

Authorities ==
    [shape : Shapes \cup {{}}, proxy : BOOLEAN, committed : BOOLEAN, cp : 0 .. 11,
     at : {"current", "finalizer"}]

ASSUME RemovalAssumption ==
    /\ \A s \in Shapes : ValidShape(s)
    /\ MaxFaults \in Nat
    /\ None \notin Authorities
    /\ Torn \notin Authorities \cup {None}

Count(a) == Limit(a.proxy) - 3

\* Mutant: a checkpoint is skipped.
NextCheckpointSkips(a) == [a EXCEPT !.cp = @ + 2]

NextCheckpoint(a) == [a EXCEPT !.cp = @ + 1]

\* commit_removal: without a record the removal owns only the product.
CommitRemoval(a) ==
    IF a = None
    THEN [shape |-> {}, proxy |-> FALSE, committed |-> TRUE, cp |-> 0, at |-> "current"]
    ELSE [a EXCEPT !.committed = TRUE]

\* AuthoritySnapshot::selected, for a committed removal.
Selected ==
    /\ auth # None /\ auth.committed
    /\ \/ staged = None
       \/ auth.at = "current" /\ staged = auth
       \/ auth.at = "current" /\ auth.cp < Limit(auth.proxy) /\ staged = NextCheckpoint(auth)
    /\ auth.at = "finalizer" => auth.cp = Limit(auth.proxy)

-----------------------------------------------------------------------------
(* Effects.                                                                *)

\* Mutant: the account goes before the files it owns.
ProxyEffectsAccountFirst ==
    <<"service", "artifact", "hold", "package", "account", "config", "source", "key">>

\* PROXY_EFFECTS, each named for what it removes.
ProxyEffects ==
    <<"service", "artifact", "hold", "package", "config", "account", "source", "key">>

ProxyResources == {"service", "artifact", "hold", "package", "config", "account", "source", "key"}

\* The auxiliary resources a record of a shape permits.
AuxiliaryResources(s) ==
    {x \in {"tunnel", "target", "candidate", "serving", "firewall", "renewal", "retired", "startup"} :
        CASE x = "tunnel" -> "tunnel" \in s
          [] x = "target" -> "identity" \in s
          [] x = "candidate" -> "identitySubscription" \in s
          [] x = "serving" -> s \cap {"serving", "enablement"} # {}
          [] x = "firewall" -> s \cap {"resources", "enablement"} # {}
          [] x = "renewal" -> "renewal" \in s
          [] x = "retired" -> "retirement" \in s
          [] x = "startup" -> "startup" \in s}

\* "purging" is a package whose purge dpkg did not get to finish.
Resources == ProxyResources \cup AuxiliaryResources(Fields) \cup {"purging"}

\* The auxiliary effects in the order finish performs them, each with the
\* fields that select it, what its inspection looks at and what it removes.
Auxiliary ==
    <<[field |-> "tunnel", sees |-> {"tunnel"}, drops |-> {"tunnel"}],
      [field |-> "identitySubscription", sees |-> {"candidate"}, drops |-> {"candidate"}],
      [field |-> "identitySubscription", sees |-> {"serving"}, drops |-> {"serving"}],
      [field |-> "identity", sees |-> {"target"}, drops |-> {"target"}],
      [field |-> "enablement", sees |-> {"serving"}, drops |-> {"serving", "firewall"}],
      [field |-> "rotation", sees |-> {"serving"}, drops |-> {"serving"}],
      [field |-> "repair", sees |-> {"serving"}, drops |-> {"serving"}],
      [field |-> "serving", sees |-> {"serving"}, drops |-> {"serving"}],
      [field |-> "renewal", sees |-> {"renewal"}, drops |-> {"renewal"}],
      [field |-> "resources", sees |-> {"firewall"}, drops |-> {"firewall"}],
      [field |-> "retirement", sees |-> {"retired"}, drops |-> {"retired"}]>>

\* Serving is not removed a second time after a repair or an identity change.
IsSelected(k) ==
    /\ Auxiliary[k].field \in auth.shape
    /\ Auxiliary[k].field = "serving" => auth.shape \cap {"repair", "identitySubscription"} = {}

\* What every inspection demands: a package state it knows, and files of the
\* package account need the account.
Observable(h) ==
    /\ "purging" \notin h
    /\ h \cap {"config", "target"} # {} => "account" \in h

\* inspect_removal accepts the host for the authority.
Accepted(a) == Observable(host) /\ (a = None \/ ~a.proxy => host = {})

Pair == {"executable", "installed"}

\* The resources that are kept in /var/lib/sbxr beside the record.
StateFiles == {"artifact", "serving", "target", "renewal", "retired"}

-----------------------------------------------------------------------------
(* Publication.                                                            *)

Fault == faults < MaxFaults /\ faults' = faults + 1

Stop == pc' = "idle" /\ aux' = 1

PublishSucceeds(n) ==
    /\ staged \in {None, n}
    /\ auth' = n /\ staged' = None /\ exposed' = {n}

PublishFails(n) ==
    \/ /\ staged' \in IF staged = None THEN {None, n, Torn} ELSE {staged}
       /\ UNCHANGED <<auth, exposed>>
    \/ /\ staged \in {None, n}
       /\ auth' = n /\ staged' = None
       /\ exposed' = (IF auth = None THEN exposed ELSE {auth}) \cup {n}

-----------------------------------------------------------------------------
(* The Owner.                                                              *)

\* The installed product is started: both members and the state directory.
StartSession ==
    /\ ~session /\ pc = "idle"
    /\ files = Pair /\ statedir
    /\ session' = TRUE
    /\ UNCHANGED <<auth, staged, exposed, host, files, statedir, pc, aux, faults>>

\* Complete removal, reviewed and confirmed, with its commitment.
Complete ==
    /\ session /\ pc = "idle"
    /\ auth # None => ~auth.committed
    /\ staged = None /\ files = Pair /\ Accepted(auth)
    /\ \/ PublishSucceeds(CommitRemoval(auth)) /\ pc' = "sync" /\ UNCHANGED <<aux, faults>>
       \/ Fault /\ PublishFails(CommitRemoval(auth)) /\ Stop
    /\ UNCHANGED <<host, files, statedir, session>>

Finish ==
    /\ session /\ pc = "idle"
    /\ Selected /\ Accepted(auth)
    /\ pc' = "sync"
    /\ UNCHANGED <<auth, staged, exposed, host, files, statedir, session, aux, faults>>

\* Mutant: cancelling takes the commitment back.
CancelRevokes ==
    /\ session /\ pc \in {"aux", "proxy", "installed"}
    /\ Fault /\ Stop
    /\ auth' = [auth EXCEPT !.committed = FALSE, !.cp = 0] /\ exposed' = {auth'}
    /\ UNCHANGED <<staged, host, files, statedir, session>>

\* Managed termination between two effects: the removal stays committed.
Cancel ==
    /\ session /\ pc \in {"aux", "proxy", "installed"}
    /\ Fault /\ Stop
    /\ UNCHANGED <<auth, staged, exposed, host, files, statedir, session>>

-----------------------------------------------------------------------------
(* finish.                                                                 *)

Synchronize ==
    /\ pc = "sync"
    /\ \/ exposed' = {auth} /\ pc' = "aux" /\ UNCHANGED <<aux, faults>>
       \/ Fault /\ Stop /\ UNCHANGED exposed
    /\ UNCHANGED <<auth, staged, host, files, statedir, session>>

\* Mutant: the outcome of an effect is not looked at.
PerformUnchecked(sees, drops, admitted) ==
    /\ \/ host' = host \ drops /\ UNCHANGED faults
       \/ Fault /\ UNCHANGED host
    /\ UNCHANGED <<auth, staged, exposed, files, statedir, session>>

\* perform: what is absent needs no effect; what is there is removed.
Perform(sees, drops, admitted) ==
    /\ Observable(host)
    /\ \/ sees \cap host = {} /\ UNCHANGED host
       \/ sees \cap host # {} /\ admitted /\ host' = host \ drops
    /\ UNCHANGED <<auth, staged, exposed, files, statedir, session, faults>>

\* An effect that fails may have removed any part, or have left a package half
\* purged; one that is refused nothing.
PerformFails(sees, drops, admitted) ==
    /\ \/ ~Observable(host) /\ UNCHANGED <<host, faults>>
       \/ sees \cap host # {} /\ ~admitted /\ UNCHANGED <<host, faults>>
       \/ /\ Observable(host) /\ sees \cap host # {} /\ admitted
          /\ Fault
          /\ \/ \E gone \in SUBSET drops : host' = host \ gone
             \/ "package" \in drops /\ host' = host \cup {"purging"}
    /\ Stop
    /\ UNCHANGED <<auth, staged, exposed, files, statedir, session>>

AfterAuxiliary ==
    IF "startup" \in auth.shape /\ auth.cp > 0 THEN "startup"
    ELSE IF auth.cp <= Count(auth) THEN "proxy" ELSE "lifecycle"

\* A retired HTTPS lineage goes only once the firewall is gone.
AuxiliaryAdmitted(k) == Auxiliary[k].field = "retirement" => "firewall" \notin host

AuxiliaryEffect ==
    /\ pc = "aux" /\ aux <= Len(Auxiliary) /\ IsSelected(aux)
    /\ \/ /\ Perform(Auxiliary[aux].sees, Auxiliary[aux].drops, AuxiliaryAdmitted(aux))
          /\ aux' = aux + 1 /\ pc' = pc
       \/ PerformFails(Auxiliary[aux].sees, Auxiliary[aux].drops, AuxiliaryAdmitted(aux))

AuxiliarySkip ==
    /\ pc = "aux"
    /\ \/ aux <= Len(Auxiliary) /\ ~IsSelected(aux) /\ aux' = aux + 1 /\ pc' = pc
       \/ aux > Len(Auxiliary) /\ aux' = 1 /\ pc' = AfterAuxiliary
    /\ UNCHANGED <<auth, staged, exposed, host, files, statedir, session, faults>>

\* The startup drop-in goes only once the service is stopped.
StartupEffect ==
    /\ pc = "startup"
    /\ \/ /\ Perform({"startup"}, {"startup"}, "service" \notin host)
          /\ pc' = IF auth.cp <= Count(auth) THEN "proxy" ELSE "lifecycle"
          /\ UNCHANGED aux
       \/ PerformFails({"startup"}, {"startup"}, "service" \notin host)

ProxyEffect ==
    /\ pc = "proxy" /\ auth.cp < Count(auth)
    /\ \/ /\ Perform({ProxyEffects[auth.cp + 1]}, {ProxyEffects[auth.cp + 1]}, TRUE)
          /\ pc' = "checkpoint" /\ UNCHANGED aux
       \/ PerformFails({ProxyEffects[auth.cp + 1]}, {ProxyEffects[auth.cp + 1]}, TRUE)

\* proxy_absent before the product itself is touched.
ProxyAbsent ==
    /\ pc = "proxy" /\ auth.cp = Count(auth)
    /\ IF host = {} THEN pc' = "checkpoint" /\ UNCHANGED aux ELSE Stop
    /\ UNCHANGED <<auth, staged, exposed, host, files, statedir, session, faults>>

AfterCheckpoint(a) ==
    IF a.cp = 1 /\ "startup" \in a.shape THEN "startup"
    ELSE IF a.cp <= Count(a) THEN "proxy"
    ELSE IF a.cp = Count(a) + 1 THEN "lifecycle"
    ELSE IF a.cp = Count(a) + 2 THEN "installed" ELSE "last"

Checkpoint ==
    /\ pc = "checkpoint"
    /\ \/ PublishSucceeds(NextCheckpoint(auth)) /\ pc' = AfterCheckpoint(auth') /\ UNCHANGED <<aux, faults>>
       \/ Fault /\ PublishFails(NextCheckpoint(auth)) /\ Stop
    /\ UNCHANGED <<host, files, statedir, session>>

\* The state directory holds nothing but the product's own files.
Lifecycle ==
    /\ pc = "lifecycle"
    /\ IF host \cap StateFiles = {} THEN pc' = "executable" /\ UNCHANGED aux ELSE Stop
    /\ UNCHANGED <<auth, staged, exposed, host, files, statedir, session, faults>>

\* Removes a member of the pair, restored or not, then records it once.
RemoveMember(member, done, following) ==
    /\ \/ /\ files' = files \ {member}
          /\ pc' = IF auth.cp <= done THEN "checkpoint" ELSE following
          /\ UNCHANGED <<aux, faults>>
       \/ member \in files /\ Fault /\ files' \in {files, files \ {member}} /\ Stop
    /\ UNCHANGED <<auth, staged, exposed, host, statedir, session>>

RemoveExecutable == pc = "executable" /\ RemoveMember("executable", Count(auth) + 1, "installed")

RemoveInstalledRecord == pc = "installed" /\ RemoveMember("installed", Count(auth) + 2, "last")

\* Nothing may be left, of the proxy or of the product, before finalization.
LastInspection ==
    /\ pc = "last"
    /\ IF host = {} /\ files = {}
       THEN pc' = (IF auth.at = "current" THEN "move" ELSE "rmdir") /\ UNCHANGED aux
       ELSE Stop
    /\ UNCHANGED <<auth, staged, exposed, host, files, statedir, session, faults>>

Moved == [auth EXCEPT !.at = "finalizer"]

MoveRecord ==
    /\ pc = "move"
    /\ \/ /\ staged \in {None, auth} /\ staged' = None
          /\ auth' = Moved /\ exposed' = {Moved} /\ pc' = "rmdir" /\ UNCHANGED <<aux, faults>>
       \/ /\ staged \in {None, auth} /\ Fault
          /\ \/ auth' = auth /\ staged' \in {staged, None}
             \/ auth' = Moved /\ staged' = None
          /\ exposed' = {auth, auth'} /\ Stop
       \/ staged \notin {None, auth} /\ Stop /\ UNCHANGED <<auth, staged, exposed, faults>>
    /\ UNCHANGED <<host, files, statedir, session>>

\* Mutant: the record goes although its directory could not be removed.
RemoveDirectoryUnchecked ==
    /\ pc = "rmdir"
    /\ \/ statedir' = FALSE /\ UNCHANGED faults
       \/ Fault /\ UNCHANGED statedir
    /\ pc' = "unlink"
    /\ UNCHANGED <<auth, staged, exposed, host, files, session, aux>>

RemoveDirectory ==
    /\ pc = "rmdir"
    /\ \/ statedir' = FALSE /\ pc' = "unlink" /\ UNCHANGED <<aux, faults>>
       \/ Fault /\ statedir' \in {statedir, FALSE} /\ Stop
    /\ UNCHANGED <<auth, staged, exposed, host, files, session>>

\* The last authority goes; without the final fsync the outcome is unknown.
UnlinkFinalizer ==
    /\ pc = "unlink"
    /\ \/ auth' = None /\ exposed' = {None} /\ UNCHANGED faults
       \/ Fault /\ auth' \in {auth, None} /\ exposed' = {auth, auth'}
    /\ Stop
    /\ UNCHANGED <<staged, host, files, statedir, session>>

-----------------------------------------------------------------------------
(* Restoration by the installer, once no finisher runs.                    *)

\* No staged record, no other file in the state directory, never an executable
\* without its record.
Restore ==
    /\ ~session /\ pc = "idle" /\ files # Pair
    /\ Selected /\ staged = None
    /\ host \cap StateFiles = {}
    /\ "executable" \in files => "installed" \in files
    /\ pc' = "restore"
    /\ UNCHANGED <<auth, staged, exposed, host, files, statedir, session, aux, faults>>

\* Mutant: the executable is restored first.
RestoreExecutableFirst ==
    /\ pc = "restore" /\ "installed" \notin files
    /\ statedir' = TRUE
    /\ files' = IF "executable" \in files THEN Pair ELSE files \cup {"executable"}
    /\ pc' = "restore"
    /\ UNCHANGED <<auth, staged, exposed, host, session, aux, faults>>

RestoreInstalled ==
    /\ pc = "restore" /\ "installed" \notin files
    /\ statedir' = TRUE
    /\ files' = files \cup {"installed"}
    /\ pc' = "restore"
    /\ UNCHANGED <<auth, staged, exposed, host, session, aux, faults>>

RestoreExecutable ==
    /\ pc = "restore" /\ "installed" \in files
    /\ files' = Pair
    /\ session' = TRUE /\ pc' = "idle"
    /\ UNCHANGED <<auth, staged, exposed, host, statedir, aux, faults>>

-----------------------------------------------------------------------------
(* Interruptions.                                                          *)

Kill ==
    /\ session \/ pc # "idle"
    /\ Fault /\ Stop
    /\ session' = FALSE
    /\ UNCHANGED <<auth, staged, exposed, host, files, statedir>>

PowerLoss ==
    /\ Fault /\ Stop
    /\ session' = FALSE
    /\ auth' \in exposed /\ exposed' = {auth'}
    /\ \/ auth' = auth /\ staged' \in IF staged = None THEN {None} ELSE {None, Torn, staged}
       \/ auth' # auth /\ staged' \in IF auth # None /\ auth.at = "current" THEN {None, auth} ELSE {None}
    /\ UNCHANGED <<host, files, statedir>>

\* Any installation: none, a setup that was interrupted, or a running proxy
\* with any part of what its record permits.
Init ==
    /\ \/ auth = None /\ host = {}
       \/ \E s \in Shapes, present \in SUBSET AuxiliaryResources(Fields) :
            /\ auth = [shape |-> s, proxy |-> TRUE, committed |-> FALSE, cp |-> 0, at |-> "current"]
            /\ \/ present \subseteq AuxiliaryResources(s) /\ host = (ProxyResources \ {"artifact"}) \cup present
               \/ s = {} /\ host = {"key", "source"}
    /\ staged = None /\ exposed = {auth}
    /\ files = Pair /\ statedir = TRUE
    /\ session = FALSE /\ pc = "idle" /\ aux = 1
    /\ faults = 0

FinishStep ==
    \/ Synchronize \/ AuxiliaryEffect \/ AuxiliarySkip \/ StartupEffect
    \/ ProxyEffect \/ ProxyAbsent \/ Checkpoint \/ Lifecycle
    \/ RemoveExecutable \/ RemoveInstalledRecord \/ LastInspection
    \/ MoveRecord \/ RemoveDirectory \/ UnlinkFinalizer

RestoreStep == RestoreInstalled \/ RestoreExecutable

Next ==
    \/ StartSession \/ Complete \/ Finish \/ Cancel
    \/ FinishStep
    \/ Restore \/ RestoreStep
    \/ Kill \/ PowerLoss

Spec == Init /\ [][Next]_vars

\* A journey that runs takes its next step; the Owner keeps starting the
\* product, choosing Finish removal, and running the installer's restoration.
FairSpec ==
    /\ Spec
    /\ WF_vars(FinishStep) /\ WF_vars(RestoreStep)
    /\ WF_vars(StartSession) /\ WF_vars(Finish) /\ WF_vars(Restore)

-----------------------------------------------------------------------------
(* Properties.                                                             *)

TypeOK ==
    /\ auth \in Authorities \cup {None}
    /\ staged \in Authorities \cup {None, Torn}
    /\ exposed \in SUBSET (Authorities \cup {None}) /\ auth \in exposed
    /\ \A a \in exposed \ {None} : a.cp <= Limit(a.proxy)
    /\ host \in SUBSET Resources
    /\ files \in SUBSET Pair
    /\ statedir \in BOOLEAN /\ session \in BOOLEAN
    /\ pc \in {"idle", "sync", "aux", "startup", "proxy", "checkpoint", "lifecycle", "executable",
               "installed", "last", "move", "rmdir", "unlink", "restore"}
    /\ aux \in 1 .. Len(Auxiliary) + 1
    /\ faults \in 0 .. MaxFaults

\* As long as a power loss could leave no authority at all, either the whole
\* product is still installed and owns no proxy, or nothing is left of it:
\* every partial removal can be found and finished.
AuthorityOutlivesResources ==
    None \in exposed =>
        /\ host = {}
        /\ \/ files = Pair /\ statedir
           \/ files = {} /\ ~statedir

\* What a committed removal counts as done is done.
Truthful(a) ==
    a.committed =>
        /\ \A i \in 1 .. Count(a) : i <= a.cp => ProxyEffects[i] \notin host
        /\ a.cp > Count(a) => host = {}
        /\ a.at = "finalizer" => a.cp = Limit(a.proxy)

\* Whatever checkpoint recovery reads, the effects it counts as done are done.
CheckpointsTellTheTruth == \A a \in exposed \ {None} : Truthful(a)

\* Restoration refuses an executable without its Installed Record, so neither
\* removal nor restoration may ever leave that.
ExecutableNeverAlone == "executable" \in files => "installed" \in files

DurablyCommitted == \A a \in exposed : a # None /\ a.committed

\* A durable commitment is never taken back: a later authority is committed
\* too, or there is none because the removal is complete.
RemovalIsForward == [][DurablyCommitted => \A a \in exposed' : a = None \/ a.committed]_vars

\* Kept for inspection: a torn staged record, or a staged record that the
\* restoration of a lost executable refuses.
Preserved == staged = Torn \/ (staged # None /\ ~session /\ files # Pair)

\* The inspection of an interrupted enablement does not look at the firewall.
FirewallStranded ==
    /\ auth # None /\ "enablement" \in auth.shape
    /\ "firewall" \in host /\ "serving" \notin host

\* Facts knows no package state of a purge that was cut short.
PurgeCutShort == "purging" \in host

\* A committed removal is finished, unless a staged record is in the way, a
\* firewall of an interrupted enablement is left behind or a purge of the
\* package was cut short.
RemovalCompletes == DurablyCommitted ~> (auth = None \/ Preserved \/ FirewallStranded \/ PurgeCutShort)

\* Wherever a removal is interrupted, there is still an authority for whatever
\* is left, what it records as done is done, and the program that finishes it
\* is there or can be restored.
RemovalIsRecorded ==
    TypeOK /\ AuthorityOutlivesResources /\ CheckpointsTellTheTruth /\ ExecutableNeverAlone

-----------------------------------------------------------------------------
(* The inductive strengthening.                                            *)

\* A record counts and moves only once its removal is committed.
UncommittedIsFresh ==
    \A a \in exposed \ {None} : ~a.committed => a.cp = 0 /\ a.at = "current"

\* A removal works from a committed authority, settled before any effect, and
\* a restoration from one that no power loss takes away.  While the first
\* commitment is not settled the whole product is there.
WorksFromAuthority ==
    /\ pc # "idle" => auth # None /\ auth.committed
    /\ pc \notin {"idle", "sync", "restore"} => exposed = {auth}
    /\ pc = "restore" => None \notin exposed
    /\ None \in exposed /\ auth # None => files = Pair /\ statedir

\* Where finish is says how far it got: what the next checkpoint records is
\* done, the executable goes before the Installed Record, and finalization
\* begins with nothing left.
StepIsTrue ==
    /\ pc = "proxy" => auth.cp <= Count(auth)
    /\ pc = "checkpoint" =>
          /\ auth.cp < Limit(auth.proxy)
          /\ auth.cp < Count(auth) => ProxyEffects[auth.cp + 1] \notin host
          /\ auth.cp = Count(auth) => host = {}
          /\ auth.cp = Count(auth) + 1 => "executable" \notin files
    /\ pc \in {"lifecycle", "executable"} => auth.cp > Count(auth)
    /\ pc = "installed" => auth.cp > Count(auth) + 1 /\ "executable" \notin files
    /\ pc \in {"last", "move", "rmdir", "unlink"} => auth.cp = Limit(auth.proxy)
    /\ pc \in {"move", "rmdir", "unlink"} => host = {} /\ files = {}
    /\ pc = "unlink" => ~statedir

RemovalInv == RemovalIsRecorded /\ UncommittedIsFresh /\ WorksFromAuthority /\ StepIsTrue
=============================================================================
