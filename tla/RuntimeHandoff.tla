--------------------------- MODULE RuntimeHandoff ---------------------------
(***************************************************************************)
(* The host's lock lent to a service that is being started:                *)
(* src/src/runtime_handoff.rs over src/src/host/locks.rs, with the start   *)
(* commands of src/src/host/runtime/control.rs, the one-use cutover gate   *)
(* of src/src/host/runtime/gate.rs and the private roles of                *)
(* src/src/host/runtime/proxy.rs and serving.rs.                           *)
(*                                                                         *)
(* The lock is a flock, so it belongs to an open file description.  The    *)
(* Owner's description is shared with the duplicate it lends over a Unix   *)
(* socket: closing one descriptor keeps the lock, an explicit unlock takes *)
(* it from all of them, and whoever locks a shared description again holds *)
(* it without a wait if nobody else does.                                  *)
(*                                                                         *)
(* Two units ask the product before they run: the proxy, whose condition   *)
(* must pass first, and Subscription Serving, which is the product itself. *)
(* They are started by an Owner or by the system, at any time.  The record *)
(* goes through one Client Identity rotation; ClientIdentity has all of    *)
(* its checkpoints, here those stand out that a start is decided by.       *)
(***************************************************************************)
EXTENDS Naturals

CONSTANTS
    None,
    Owners,       \* open file descriptions of Owner processes
    MaxSessions,  \* bound on the Owner processes that take the lock
    MaxStarts,    \* bound on starts the system asks for
    MaxFaults     \* bound on kills, failed commands and stopping services

VARIABLES
    holder,    \* the description that holds the flock, or None
    refs,      \* who has a descriptor of an Owner's description
    owner,     \* the Owner process at work, by its description, or None
    opc,       \* where it is
    began,     \* it began the rotation itself, so it goes forward
    role,      \* the unit it starts
    lender,    \* its lending thread
    peer,      \* the process whose connection the thread took, or None
    cp,        \* the record's checkpoint
    config,    \* the proxy's configuration on disk
    gate,      \* the one-use authorization: the configuration it names, or None
    wanted,    \* units systemd was asked to start
    proc,      \* where a unit's private process is
    lock,      \* the description it uses: its own, an Owner's or None
    body,      \* the checkpoint it read
    runs,      \* the configuration a unit runs with or serves, or None
    sessions, starts, faults

flock == <<holder, refs>>
session == <<owner, opc, began, role>>
lending == <<lender, peer>>
record == <<cp, config>>
private == <<proc, lock, body>>
bounds == <<sessions, starts, faults>>
vars == <<flock, session, lending, record, gate, wanted, private, runs, bounds>>

Units == {"proxy", "serving"}

ASSUME HandoffAssumption ==
    /\ Owners \cap Units = {}
    /\ None \notin Owners \cup Units \cup {"source", "target"}
    /\ {MaxSessions, MaxStarts, MaxFaults} \subseteq Nat

\* A descriptor of the Owner's lock: the Owner's own, one in the socket that u
\* reads from, one that u has, and all that end with the units in U.
Own == <<"owner">>
Flight(u) == <<"flight", u>>
Lent(u) == <<"process", u>>
Descriptors(U) == {Lent(u) : u \in U} \cup {Flight(u) : u \in U}

-----------------------------------------------------------------------------
(* The record.                                                             *)

Checkpoints == {"open", "gated", "revoked", "published", "started", "done"}

\* record.configuration_sha256.
Config(c) == IF c \in {"open", "gated", "revoked"} THEN "source" ELSE "target"

\* The checkpoints from "source revoked" on.
Onward == {"revoked", "published", "started", "done"}

\* No rotation, or one before its gate: an ordinary start is admitted.
Ordinary(c) == c \in {"open", "done"}

\* Mutant: a rotation in the record is not looked at.
AdmissibleAlways(u, c) == TRUE

\* select_http_authority and cutover_configuration: past the gate only with a
\* lent lock, and not while the record selects what is not on disk.
Admissible(u, c) == Ordinary(c) \/ (lock[u] \in Owners /\ c # "revoked")

-----------------------------------------------------------------------------
(* flock.                                                                  *)

\* flock, exclusive and without a wait: what is locked already stays so.
Locks(d) == holder \in {None, d}

\* LockPath::verify and HostLock::verify: the same file, and a lock on it,
\* taken again if it was lost and nobody has one.
Verified(u) == Locks(lock[u]) /\ holder' = lock[u]

\* The descriptors in D are closed; the last one takes the lock with it.
Closed(D) ==
    /\ refs' = [n \in Owners |-> refs[n] \ D]
    /\ holder' = IF holder \in Owners /\ refs[holder] \subseteq D THEN None ELSE holder

\* Mutant: the last descriptor is closed, but nothing is unlocked.
DroppedLocked(U) ==
    /\ refs' = [n \in Owners |-> refs[n] \ Descriptors(U)]
    /\ lock' = [u \in Units |-> IF u \in U THEN None ELSE lock[u]]
    /\ peer' = IF peer \in U THEN None ELSE peer
    /\ UNCHANGED holder

\* The processes of the units in U end or give back what they have.
\* StartLock::drop unlocks what was locked, and only closes what was lent.
Dropped(U) ==
    /\ refs' = [n \in Owners |-> refs[n] \ Descriptors(U)]
    /\ holder' = IF holder \in U \/ (holder \in Owners /\ refs[holder] \subseteq Descriptors(U))
                 THEN None ELSE holder
    /\ lock' = [u \in Units |-> IF u \in U THEN None ELSE lock[u]]
    /\ peer' = IF peer \in U THEN None ELSE peer

\* HostLock::verify: the same root and file, and the lock on it.
OwnerHolds == holder = owner

\* HostLock::drop: an explicit unlock, whoever shares the description.
Released ==
    /\ holder' = IF holder = owner THEN None ELSE holder
    /\ refs' = [refs EXCEPT ![owner] = @ \ {Own}]

-----------------------------------------------------------------------------
(* The Owner.                                                              *)

AtRest == owner' = None /\ opc' = "none" /\ began' = FALSE /\ role' = None

OwnerAcquires(n) ==
    /\ owner = None /\ sessions < MaxSessions
    /\ holder = None /\ refs[n] = {}
    /\ n = CHOOSE m \in Owners : refs[m] = {}
    /\ holder' = n /\ refs' = [refs EXCEPT ![n] = {Own}]
    /\ owner' = n /\ opc' = "held"
    /\ sessions' = sessions + 1
    /\ UNCHANGED <<began, role, lending, record, gate, wanted, private, runs, starts, faults>>

\* The action ends, completed or refused: the guard is dropped.
OwnerReleases ==
    /\ opc \in {"held", "failed"}
    /\ Released /\ AtRest
    /\ UNCHANGED <<lending, record, gate, wanted, private, runs, bounds>>

\* Mutant: a rotation begins while the proxy does not run.
RotateUnobserved ==
    /\ opc = "held" /\ cp = "open"
    /\ opc' = "rotating" /\ began' = TRUE
    /\ UNCHANGED <<flock, owner, role, lending, record, gate, wanted, private, runs, bounds>>

\* admit_identity, and the checkpoints before the gate.
Rotate ==
    /\ opc = "held" /\ cp = "open" /\ runs["proxy"] = Config(cp)
    /\ opc' = "rotating" /\ began' = TRUE
    /\ UNCHANGED <<flock, owner, role, lending, record, gate, wanted, private, runs, bounds>>

\* Checkpoint "cutover gated".
CloseGate ==
    /\ opc = "rotating"
    /\ cp' = "gated" /\ opc' = "held"
    /\ UNCHANGED <<flock, owner, began, role, lending, config, gate, wanted, private, runs, bounds>>

\* CutoverGate::prepare under the gate: the token names the configuration that
\* the record and the disk agree on; another token is not replaced.
GatePublished ==
    /\ config = Config(cp) /\ gate \in {None, Config(cp)}
    /\ gate' = Config(cp)

StopSource ==
    /\ opc = "held" /\ cp = "gated" /\ began
    /\ GatePublished
    /\ opc' = "stopping"
    /\ UNCHANGED <<flock, owner, began, role, lending, record, wanted, private, runs, bounds>>

\* The private processes of the units in U end with their control group.
Killed(U) ==
    /\ proc' = [u \in Units |-> IF u \in U THEN "none" ELSE proc[u]]
    /\ Dropped(U)
    /\ runs' = [u \in Units |-> IF u \in U THEN None ELSE runs[u]]
    /\ wanted' = wanted \ U

\* Mutant: the gate stays after the stop it was for.
SourceStoppedGateLeft ==
    /\ opc = "stopping"
    /\ Killed(Units)
    /\ opc' = "stopped"
    /\ UNCHANGED <<owner, began, role, lender, record, gate, body, bounds>>

\* systemctl stop has ended both control groups; CutoverGate::finish.
SourceStopped ==
    /\ opc = "stopping"
    /\ Killed(Units)
    /\ gate' = None /\ opc' = "stopped"
    /\ UNCHANGED <<owner, began, role, lender, record, body, bounds>>

\* ... or not; the guard of the gate removes it.
StopFails ==
    /\ opc = "stopping" /\ faults < MaxFaults
    /\ \E U \in {{}, {"serving"}} : Killed(U)
    /\ gate' = None /\ opc' = "failed" /\ faults' = faults + 1
    /\ UNCHANGED <<owner, began, role, lender, record, body, sessions, starts>>

\* identity_quiescence: both control groups are empty.
Quiet == \A u \in Units : proc[u] = "none" /\ runs[u] = None

\* Checkpoints "source stopped", "source quiescent" and "source revoked".
Revoke ==
    /\ opc = "stopped"
    /\ \/ Quiet /\ cp' = "revoked" /\ opc' = "held"
       \/ ~Quiet /\ opc' = "failed" /\ UNCHANGED cp
    /\ UNCHANGED <<flock, owner, began, role, lending, config, gate, wanted, private, runs, bounds>>

PublishTarget ==
    /\ opc = "held" /\ cp = "revoked"
    /\ \/ config = "source" /\ config' = "target" /\ UNCHANGED cp
       \/ config = "target" /\ cp' = "published" /\ UNCHANGED config
    /\ UNCHANGED <<flock, session, lending, gate, wanted, private, runs, bounds>>

\* with_runtime_start: a fresh listener, a duplicate of the lock, the lending
\* thread, and systemctl beside it.  A request for a unit that is starting
\* joins the request there is, one for a running unit does nothing.
Offer(u) ==
    /\ opc = "held" /\ OwnerHolds
    /\ opc' = "starting" /\ role' = u
    /\ lender' = "listening"
    /\ UNCHANGED <<owner, began, record, body, bounds>>

\* start_proxy and start_proxy_cutover: the target, the source that is put
\* back, or an ordinary start of what does not run.
StartProxy ==
    /\ Offer("proxy")
    /\ \/ /\ cp = "published" \/ (cp = "gated" /\ ~began /\ runs["proxy"] = None)
          /\ GatePublished
       \/ Ordinary(cp) /\ runs["proxy"] = None /\ UNCHANGED gate
    /\ wanted' = IF proc["proxy"] = "none" /\ runs["proxy"] = None THEN wanted \cup {"proxy"} ELSE wanted
    /\ peer' = None
    /\ UNCHANGED <<flock, private, runs>>

\* start_subscription and enable_subscription: a restart of what is not loaded.
StartServing ==
    /\ Offer("serving")
    /\ cp \in {"open", "started", "done"} /\ runs["serving"] # Config(cp)
    /\ proc' = [proc EXCEPT !["serving"] = "none"]
    /\ runs' = [runs EXCEPT !["serving"] = None]
    /\ Dropped({"serving"})
    /\ wanted' = wanted \cup {"serving"}
    /\ UNCHANGED gate

\* Neither side waits for the other for ever: Owner and process have each a
\* deadline.  The proxy's command returns when its condition and its start
\* are over, whatever they came to; that of serving returns with the fork.
StartReturns ==
    /\ opc = "starting" /\ lender = "sent"
    /\ role \notin wanted /\ (role = "proxy" => proc["proxy"] = "none")
    /\ opc' = "started" /\ lender' = "none"
    /\ gate' = IF role = "proxy" /\ ~Ordinary(cp) THEN None ELSE gate
    /\ UNCHANGED <<flock, owner, began, role, peer, record, wanted, private, runs, bounds>>

\* Mutant: the lending thread waits for a connection without a deadline.
StartFailsOnceConnected ==
    /\ opc = "starting" /\ lender # "listening"
    /\ opc' = "failed" /\ lender' = "none"
    /\ gate' = IF role = "proxy" /\ ~Ordinary(cp) THEN None ELSE gate
    /\ UNCHANGED <<flock, owner, began, role, peer, record, wanted, private, runs, bounds>>

\* The deadline, a cancellation, a refused peer or a failed command: only the
\* handoff is cancelled.  What systemd was asked for goes on.
StartFails ==
    /\ opc = "starting"
    /\ opc' = "failed" /\ lender' = "none"
    /\ gate' = IF role = "proxy" /\ ~Ordinary(cp) THEN None ELSE gate
    /\ UNCHANGED <<flock, owner, began, role, peer, record, wanted, private, runs, bounds>>

\* The next checkpoint after a start: the start alone decides, except at the
\* end, where the proxy must run and the subscription must be loaded.
AfterStart ==
    /\ opc = "started"
    /\ \/ cp = "published" /\ cp' = "started" /\ opc' = "held"
       \/ cp = "gated" /\ cp' = "open" /\ opc' = "failed"
       \/ /\ cp = "started" /\ opc' = "failed"
          /\ cp' = IF \A u \in Units : runs[u] = Config(cp) THEN "done" ELSE cp
       \/ Ordinary(cp) /\ opc' = "failed" /\ UNCHANGED cp
    /\ UNCHANGED <<flock, owner, began, role, lending, config, gate, wanted, private, runs, bounds>>

\* The source still runs: nothing is started to put it back.
Restored ==
    /\ opc = "held" /\ cp = "gated" /\ ~began /\ runs["proxy"] # None
    /\ cp' = "open" /\ opc' = "failed"
    /\ UNCHANGED <<flock, owner, began, role, lending, config, gate, wanted, private, runs, bounds>>

\* The Owner is killed: its descriptors are closed, nothing is unlocked and
\* nothing is removed.
OwnerKilled ==
    /\ owner # None /\ faults < MaxFaults
    /\ Closed({Own}) /\ AtRest
    /\ lender' = "none" /\ peer' = None /\ faults' = faults + 1
    /\ UNCHANGED <<record, gate, wanted, private, runs, sessions, starts>>

-----------------------------------------------------------------------------
(* The lending thread, Handoff::accept.                                    *)

\* Mutant: any process that connects is lent the lock.
PeerAcceptedAnyway == peer # None

\* Image, uid, control group and role line are those of the unit that is
\* started, and the process is still there.
PeerAccepted == peer = role

LenderAdmits ==
    /\ lender = "connected"
    /\ lender' = IF PeerAccepted THEN "admitted" ELSE "refused"
    /\ UNCHANGED <<flock, session, peer, record, gate, wanted, private, runs, bounds>>

\* The lock and the peer once more, then the descriptor.
LenderSends ==
    /\ lender = "admitted"
    /\ IF PeerAccepted /\ OwnerHolds
       THEN lender' = "sent" /\ refs' = [refs EXCEPT ![owner] = @ \cup {Flight(peer)}]
       ELSE lender' = "refused" /\ UNCHANGED refs
    /\ UNCHANGED <<holder, session, peer, record, gate, wanted, private, runs, bounds>>

-----------------------------------------------------------------------------
(* A private process.  Any refusal and the deadline end it.                *)

At(u, pc) == proc[u] = pc
Goes(u, pc) == proc' = [proc EXCEPT ![u] = pc]

world == <<session, record, wanted, bounds>>

Ends(u) ==
    /\ Goes(u, "none") /\ Dropped({u})
    /\ UNCHANGED <<world, lender, gate, body, runs>>

Spawn(u) ==
    /\ At(u, "none") /\ runs[u] = None
    /\ \/ u \in wanted /\ UNCHANGED starts
       \/ u \notin wanted /\ starts < MaxStarts /\ starts' = starts + 1
    /\ wanted' = wanted \ {u}
    /\ Goes(u, "wait")
    /\ UNCHANGED <<flock, session, lending, record, gate, lock, body, runs, sessions, faults>>

\* StartLock::existing.
TakesLock(u) ==
    /\ At(u, "wait") /\ Locks(u)
    /\ holder' = u /\ lock' = [lock EXCEPT ![u] = u]
    /\ Goes(u, "read")
    /\ UNCHANGED <<refs, world, lending, gate, body, runs>>

\* Busy: the Owner's listener is asked; it takes one connection.
Connects(u) ==
    /\ At(u, "wait") /\ holder # None
    /\ lender = "listening"
    /\ lender' = "connected" /\ peer' = u
    /\ lock' = [lock EXCEPT ![u] = owner]
    /\ Goes(u, "asked")
    /\ UNCHANGED <<flock, world, gate, body, runs>>

\* The wait goes on without the lock.
Retries(u) ==
    /\ Goes(u, "wait") /\ Dropped({u})

\* The descriptor arrives, even if its sender is gone by then.  The proxy's
\* process looks at the lender again, the sandboxed one cannot.
Receives(u) ==
    /\ At(u, "asked") /\ Flight(u) \in refs[lock[u]]
    /\ IF u = "proxy" /\ owner # lock[u]
       THEN Retries(u)
       ELSE /\ refs' = [refs EXCEPT ![lock[u]] = (@ \ {Flight(u)}) \cup {Lent(u)}]
            /\ Goes(u, "received") /\ UNCHANGED <<holder, lock, peer>>
    /\ UNCHANGED <<world, lender, gate, body, runs>>

\* The connection was closed without a descriptor.
Unanswered(u) ==
    /\ At(u, "asked") /\ Flight(u) \notin refs[lock[u]]
    /\ ~(peer = u /\ lender \in {"connected", "admitted"})
    /\ Retries(u)
    /\ UNCHANGED <<world, lender, gate, body, runs>>

\* held, seen from another description: somebody has the lock.
ChecksHeld(u) ==
    /\ At(u, "received")
    /\ IF holder # None
       THEN Goes(u, "confirm") /\ UNCHANGED <<flock, lock, peer>>
       ELSE Retries(u)
    /\ UNCHANGED <<world, lender, gate, body, runs>>

Confirms(u) ==
    /\ At(u, "confirm")
    /\ \/ Verified(u) /\ Goes(u, "read") /\ UNCHANGED <<refs, lock, peer>>
       \/ ~Locks(lock[u]) /\ Retries(u)
    /\ UNCHANGED <<world, lender, gate, body, runs>>

\* verify, then the ownership record.
Reads(u) ==
    /\ At(u, "read")
    /\ Verified(u)
    /\ body' = [body EXCEPT ![u] = cp]
    /\ Goes(u, "check")
    /\ UNCHANGED <<refs, world, lending, gate, lock, runs>>

\* Its authority, the configuration it names, and the record once more.
Checks(u) ==
    /\ At(u, "check")
    /\ config = Config(body[u]) /\ cp = body[u]
    /\ u = "serving" => Admissible(u, body[u])
    /\ Goes(u, "verify")
    /\ UNCHANGED <<flock, world, lending, gate, lock, body, runs>>

\* The last look at the lock.  Past the gate the proxy needs a lent lock while
\* somebody has it, and the token; serving binds its port.
Verifies(u) ==
    /\ At(u, "verify")
    /\ Verified(u)
    /\ u = "proxy" => Admissible(u, body[u])
    /\ Goes(u, IF u = "serving" THEN "bind" ELSE IF Ordinary(body[u]) THEN "pass" ELSE "token")
    /\ UNCHANGED <<refs, world, lending, gate, lock, body, runs>>

\* consume_proxy_gate: the lock, the token's bytes, both of them again ...
ReadsToken ==
    /\ At("proxy", "token")
    /\ Verified("proxy") /\ gate = Config(body["proxy"])
    /\ Goes("proxy", "unlink")
    /\ UNCHANGED <<refs, world, lending, gate, lock, body, runs>>

\* ... its removal ...
Unlinks ==
    /\ At("proxy", "unlink") /\ gate # None
    /\ gate' = None
    /\ Goes("proxy", "final")
    /\ UNCHANGED <<flock, world, lending, lock, body, runs>>

\* ... and the lock again.
Finishes ==
    /\ At("proxy", "final")
    /\ Verified("proxy")
    /\ Goes("proxy", "pass")
    /\ UNCHANGED <<refs, world, lending, gate, lock, body, runs>>

\* The condition's process ends with success.
Passes ==
    /\ At("proxy", "pass")
    /\ Goes("proxy", "passed") /\ Dropped({"proxy"})
    /\ UNCHANGED <<world, lender, gate, body, runs>>

\* Only then does systemd run the proxy, which reads its configuration.
ProxyRuns ==
    /\ At("proxy", "passed")
    /\ Goes("proxy", "none") /\ runs' = [runs EXCEPT !["proxy"] = config]
    /\ UNCHANGED <<flock, world, lending, gate, lock, body>>

\* Mutant: the lock is kept while the subscription is served.
BecomesReadyLocked ==
    /\ At("serving", "bind") /\ Locks(lock["serving"])
    /\ Goes("serving", "none") /\ runs' = [runs EXCEPT !["serving"] = Config(body["serving"])]
    /\ UNCHANGED <<flock, world, lending, gate, lock, body>>

\* The port is bound, the lock looked at and dropped, and the artifact of the
\* configuration it read is served.
BecomesReady ==
    /\ At("serving", "bind") /\ Locks(lock["serving"])
    /\ Goes("serving", "none") /\ Dropped({"serving"})
    /\ runs' = [runs EXCEPT !["serving"] = Config(body["serving"])]
    /\ UNCHANGED <<world, lender, gate, body>>

\* Where the next step is not admitted, the process refuses.
Refuses(u) ==
    /\ \/ At(u, "read") /\ ~Locks(lock[u])
       \/ /\ At(u, "check")
          /\ ~(config = Config(body[u]) /\ cp = body[u] /\ (u = "serving" => Admissible(u, body[u])))
       \/ At(u, "verify") /\ ~(Locks(lock[u]) /\ (u = "proxy" => Admissible(u, body[u])))
       \/ At(u, "token") /\ ~(Locks(lock[u]) /\ gate = Config(body[u]))
       \/ At(u, "unlink") /\ gate = None
       \/ proc[u] \in {"final", "bind"} /\ ~Locks(lock[u])
    /\ Ends(u)

\* The deadline of fifteen seconds, and a signal.
TimesOut(u) ==
    /\ proc[u] \notin {"none", "passed"}
    /\ Ends(u)

\* A service that runs stops by itself.
ServiceStops(u) ==
    /\ runs[u] # None /\ faults < MaxFaults
    /\ runs' = [runs EXCEPT ![u] = None] /\ faults' = faults + 1
    /\ UNCHANGED <<flock, session, lending, record, gate, wanted, private, sessions, starts>>

-----------------------------------------------------------------------------
Init ==
    /\ holder = None /\ refs = [n \in Owners |-> {}]
    /\ owner = None /\ opc = "none" /\ began = FALSE /\ role = None
    /\ lender = "none" /\ peer = None
    /\ cp = "open" /\ config = "source" /\ gate = None
    /\ wanted = {}
    /\ proc = [u \in Units |-> "none"] /\ lock = [u \in Units |-> None] /\ body = [u \in Units |-> "open"]
    /\ runs = [u \in Units |-> "source"]
    /\ sessions = 0 /\ starts = 0 /\ faults = 0

OwnerStep ==
    \/ Rotate \/ CloseGate \/ StopSource \/ SourceStopped \/ Revoke \/ PublishTarget
    \/ StartProxy \/ StartServing \/ StartReturns \/ StartFails \/ AfterStart \/ Restored
    \/ OwnerReleases

LenderStep == LenderAdmits \/ LenderSends

ProcessStep(u) ==
    \/ TakesLock(u) \/ Connects(u) \/ Receives(u) \/ Unanswered(u)
    \/ ChecksHeld(u) \/ Confirms(u) \/ Reads(u) \/ Checks(u) \/ Verifies(u)
    \/ u = "proxy" /\ (ReadsToken \/ Unlinks \/ Finishes \/ Passes \/ ProxyRuns)
    \/ u = "serving" /\ BecomesReady
    \/ Refuses(u)

Fault ==
    \/ StopFails \/ OwnerKilled
    \/ \E u \in Units : ServiceStops(u)

Next ==
    \/ \E n \in Owners : OwnerAcquires(n)
    \/ OwnerStep \/ LenderStep
    \/ \E u \in Units : Spawn(u) \/ ProcessStep(u) \/ TimesOut(u)
    \/ Fault

\* Every process and systemd take their steps, and deadlines come.
Fairness ==
    /\ WF_vars(OwnerStep) /\ WF_vars(LenderStep)
    /\ WF_vars(StartFails)
    /\ \A u \in Units : WF_vars(u \in wanted /\ Spawn(u)) /\ WF_vars(ProcessStep(u)) /\ WF_vars(TimesOut(u))

Spec == Init /\ [][Next]_vars /\ Fairness

-----------------------------------------------------------------------------
(* Properties.                                                             *)

Lenders == {"none", "listening", "connected", "admitted", "refused", "sent"}
Places == {"none", "wait", "asked", "received", "confirm", "read", "check", "verify", "token",
           "unlink", "final", "pass", "passed", "bind"}

\* Lock, record, token and processes have values of their kinds, and a lock
\* that is held has a descriptor left that somebody holds it by.
TypeOK ==
    /\ holder \in Owners \cup Units \cup {None}
    /\ refs \in [Owners -> SUBSET (Descriptors(Units) \cup {Own})]
    /\ owner \in Owners \cup {None} /\ role \in Units \cup {None} /\ began \in BOOLEAN
    /\ lender \in Lenders /\ peer \in Units \cup {None}
    /\ cp \in Checkpoints /\ {config, gate} \subseteq {"source", "target", None}
    /\ wanted \subseteq Units /\ proc \in [Units -> Places]
    /\ lock \in [Units -> Owners \cup Units \cup {None}] /\ body \in [Units -> Checkpoints]
    /\ runs \in [Units -> {"source", "target", None}]
    /\ holder \in Owners => refs[holder] # {}
    /\ holder \in Units => lock[holder] = holder

\* From "source revoked" on neither unit runs with the source, however a start
\* that was asked for before, with a lock of its own or a lent one, is delayed
\* between its authorization and its first read of the configuration.
SourceStaysRevoked ==
    cp \in Onward => \A u \in Units : runs[u] # "source"

\* A descriptor of the Owner's lock is only ever with the Owner, in flight to
\* the unit it starts, or with that unit.
LentToItsUnit ==
    owner # None => refs[owner] \subseteq {Own} \cup Descriptors({role})

\* A token never names another configuration than the record does: one that
\* was left behind would refuse every later cutover, which replaces none.
TokenNamesTheRecord == gate \in {None, Config(cp)}

\* What a start is authorized by is the record as it is at that moment: past
\* the gate no start is authorized by what was read before it.  The sandboxed
\* process is excepted once the Owner that lent its lock has ended its scope.
AuthorizedByTheRecord ==
    [][\A u \in Units :
        (At(u, "pass") /\ proc'[u] = "passed") \/ (At(u, "bind") /\ runs'[u] # None /\ runs[u] = None) =>
            cp = body[u] \/ (u = "serving" /\ lock[u] \in Owners /\ owner # lock[u])]_vars

\* The lock always becomes free again: an Owner that is killed leaves it with
\* its borrower, and no borrower keeps it.
LockComesBack == holder # None ~> holder = None

\* An Owner's start ends although the Owner, which holds the lock, waits for a
\* service that waits for the lock.
StartEnds == opc = "starting" ~> opc # "starting"

\* What is lent and what is left for a start is the recorded start's: the
\* descriptor is with its unit, and the token names the record.
LentAsRecorded == TypeOK /\ LentToItsUnit /\ TokenNamesTheRecord

\* Nobody waits for the lock for ever, the Owner's own start included.
HandoffEnds == LockComesBack /\ StartEnds

-----------------------------------------------------------------------------
(* The inductive strengthening.                                            *)

\* Where a process has a lock, where it has read the record, and where that
\* has been found to admit its start.
Locked == {"received", "confirm", "read", "check", "verify", "token", "unlink", "final", "pass", "bind"}
Informed == Locked \ {"received", "confirm", "read"}
Admitted == Informed \ {"check", "verify"}

\* An Owner at work has the lock, and so has a process that took it.  What is
\* lent stays with the description it was lent from: each descriptor is
\* accounted for by the process it is with or on the way to.
LockInv ==
    /\ owner = None <=> opc = "none"
    /\ owner # None => holder = owner /\ Own \in refs[owner]
    /\ \A u \in Units :
          /\ lock[u] = u => holder = u
          /\ proc[u] \in {"none", "wait", "passed"} => lock[u] = None
          /\ proc[u] \in {"asked", "received", "confirm"} => lock[u] \in Owners
          /\ proc[u] \in Locked => lock[u] \in Owners \cup {u}
          /\ \A n \in Owners :
                /\ Flight(u) \in refs[n] => proc[u] = "asked" /\ lock[u] = n
                /\ Lent(u) \in refs[n] <=> proc[u] \in Locked /\ lock[u] = n

\* Where an Owner has the lock to itself.
Alone == opc \in {"held", "rotating", "stopping", "stopped"} \/ (opc = "started" /\ role = "proxy")

\* Only an Owner that starts a unit lends, to one peer that waits for it; it
\* goes on from a start only with every lent descriptor given back.
LendingInv ==
    /\ lender # "none" => opc = "starting"
    /\ opc \in {"starting", "started"} => role \in Units
    /\ lender \in {"connected", "admitted"} /\ peer # None =>
          proc[peer] = "asked" /\ lock[peer] = owner /\ Flight(peer) \notin refs[owner]
    /\ Alone => refs[owner] = {Own}

\* What the record and the disk say where the Owner is.
RecordInv ==
    /\ cp # "revoked" => config = Config(cp)
    /\ config \in {"source", "target"}
    /\ opc = "rotating" => cp = "open"
    /\ opc \in {"stopping", "stopped"} => cp = "gated"
    /\ opc = "stopped" \/ cp = "revoked" => gate = None
    /\ opc \in {"starting", "started"} => cp # "revoked" /\ (role = "serving" => cp \notin {"gated", "published"})

\* Before the record moves on, the processes that read it are gone: a process
\* that is not refused has read what it says now.  Serving is excepted once
\* the Owner that lent its lock has gone.
StartInv(u) ==
    /\ proc[u] \notin IF u = "proxy" THEN {"bind"} ELSE {"token", "unlink", "final", "pass", "passed"}
    /\ runs[u] # None => proc[u] = "none"
    /\ u = "proxy" /\ (opc = "rotating" \/ (opc = "started" /\ role = u)) => proc[u] \in {"none", "wait"}
    /\ cp = "revoked" => lock[u] \notin Owners /\ proc[u] # "passed"
    /\ proc[u] \in Informed =>
          /\ cp = body[u] \/ (u = "serving" /\ lock[u] \in Owners /\ owner # lock[u])
          /\ cp \in Onward => body[u] \in Onward
    /\ proc[u] \in Admitted \/ (u = "serving" /\ proc[u] = "verify") => body[u] # "revoked"

HandoffInv ==
    /\ LentAsRecorded /\ SourceStaysRevoked
    /\ LockInv /\ LendingInv /\ RecordInv /\ \A u \in Units : StartInv(u)
=============================================================================
