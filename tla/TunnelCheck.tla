---------------------------- MODULE TunnelCheck ----------------------------
(***************************************************************************)
(* The connection check of a tunnel installation: check_connection of      *)
(* src/src/tunnel_setup.rs with the probe process, its listener and the    *)
(* network transport of src/src/tunnel_native.rs, and the reviewed Check   *)
(* action of src/src/proxyinstallation/tunnel.rs.                          *)
(*                                                                         *)
(* The check spawns sing-box as the leader of its own process group, on a  *)
(* loopback port that was free a moment ago, and talks through it.  Beside *)
(* the check act: the probe itself, which binds the port, may fork and may *)
(* end; any other process, which may bind the port first; the services;    *)
(* another SBXR process, once the lock was not held or was lost; the Owner *)
(* who cancels; and time.  Time passes only while the check waits.         *)
(***************************************************************************)
EXTENDS Naturals, FiniteSetsExt

CONSTANTS
    Budget,     \* CHECK_TIMEOUT
    Exchange,   \* the limit of one network exchange
    ReadyLimit, \* the limit of one wait for the listener
    Query,      \* the limit of an inspection, which the budget does not shorten
    Grace,      \* the limit of one attempt to stop the probe
    MaxEvents   \* bound on the events nobody asked for

ASSUME TimesAssumption ==
    /\ {Budget, Exchange, ReadyLimit, Query, Grace} \subseteq Nat \ {0}
    /\ MaxEvents \in Nat

VARIABLES
    pc,         \* where the check is
    site,       \* which proof of the listener is under way
    seen,       \* what the listener query showed, "unasked" before it
    left,       \* time left of the budget
    limit,      \* time left of the current wait
    elapsed,    \* time since the check began
    cancelled,  \* the Owner's cancellation
    problem,    \* the problem met so far, "none" without one
    report,     \* what the last check reported: "none", "verified" or a problem
    record,     \* the installed record
    base,       \* the record the check runs under
    guarded,    \* the lock the check holds is still the host's lock
    runtime,    \* which of the proxy and the connector run
    leader,     \* the probe: "none", "alive", "dying", "zombie" or "reaped"
    group,      \* the other members of its process group
    clean,      \* ProbeChild.clean
    dropping,   \* the stop under way is the destructor's, its result is lost
    port,       \* who listens on the probe's port
    peer,       \* who answered the traffic request
    stranger,   \* the group number belongs to somebody else by now
    struck,     \* a signal reached somebody else
    events

request == <<site, seen, base>>
time == <<left, limit, elapsed>>
outcome == <<problem, report>>
probe == <<leader, group, clean, dropping, stranger, struck>>
world == <<record, guarded, runtime, cancelled, events>>
checkVars == <<pc, request, time, outcome, probe, world, port, peer>>

Services == {"proxy", "connector"}

\* Two running installations with a tunnel, and a record that is not one.
RecordStates == {"tunnel", "tunnel2", "changing"}

-----------------------------------------------------------------------------
(* Budget and results.                                                     *)

Over == cancelled \/ left = 0
OverProblem == IF cancelled THEN "Cancelled" ELSE "TimedOut"

\* The check ends with a problem.
Pending(p) ==
    /\ pc' = "idle" /\ report' = p /\ problem' = p
    /\ UNCHANGED <<request, probe, peer>>

\* ... and after a child was spawned, its destructor runs first.
Abandon(p) ==
    /\ pc' = "stop" /\ dropping' = TRUE /\ problem' = p
    /\ UNCHANGED <<request, leader, group, clean, stranger, struck, report, peer>>

\* The traffic stage ends, with a problem or none; the probe is stopped.
TrafficEnds(p) ==
    /\ pc' = "stop" /\ dropping' = FALSE /\ problem' = p
    /\ UNCHANGED <<request, leader, group, clean, stranger, struck, report>>

\* The check goes on, and waits at most t there.
Proceed(next, t) ==
    /\ pc' = next /\ limit' = t
    /\ UNCHANGED <<left, elapsed, outcome, probe>>

\* Mutant: a network wait has its own limit only.
WithinUnshared(t) == t

\* A wait inside the budget.
Within(t) == Min({t, left})

Timeless == UNCHANGED time

-----------------------------------------------------------------------------
(* The reviewed action.                                                    *)

\* Review remembers the exact record.
Review ==
    /\ pc = "idle" /\ record # "changing" /\ runtime = Services
    /\ pc' = "reviewed" /\ base' = record
    /\ UNCHANGED <<site, seen, time, outcome, probe, world, port, peer>>

\* Execute compares it and begins; check_connection then reads the record
\* again under a lock of its own.
Execute ==
    /\ pc = "reviewed"
    /\ IF record = base
       THEN /\ pc' = "authority" /\ problem' = "none" /\ report' = "none"
            /\ left' = Budget /\ elapsed' = 0 /\ limit' = Query
            /\ leader' = "none" /\ group' = "none" /\ clean' = FALSE /\ dropping' = FALSE
            /\ stranger' = FALSE /\ peer' = "free" /\ UNCHANGED <<struck, request>>
       ELSE Pending("StaleReview") /\ Timeless
    /\ UNCHANGED <<world, port>>

\* acquire, snapshot, inspect and configuration.
Authority ==
    /\ pc = "authority"
    /\ IF Over THEN Pending(OverProblem) /\ Timeless
       ELSE IF guarded /\ record # "changing" /\ runtime = Services
       THEN Proceed("local", Within(Exchange)) /\ base' = record /\ UNCHANGED <<site, seen, peer>>
       ELSE Pending("Authority") /\ Timeless
    /\ UNCHANGED <<world, port>>

-----------------------------------------------------------------------------
(* Network exchanges.                                                      *)

\* What an exchange can bring, and the problem it stands for.
Replies == {"accepted", "refused", "redirect", "untrusted", "status", "headers"}

\* Mutant: a reply that is not an upgrade goes by its status.
ReplyProblemUnnamed(reply) == IF reply = "accepted" THEN "none" ELSE reply

ReplyProblem(reply) ==
    CASE reply = "accepted" -> "none"
      [] reply = "refused" -> "Network"
      [] reply = "redirect" -> "Redirect"
      [] reply = "untrusted" -> "UntrustedTls"
      [] reply = "status" -> "Http"
      [] reply = "headers" -> "Headers"

\* websocket and validate, first with the proxy's own listener and then with
\* the public hostname, wherever that leads.
WebSocket(at, next, t) ==
    /\ pc = at
    /\ \/ /\ limit > 0 /\ ~cancelled
          /\ \E reply \in Replies :
               /\ at = "local" /\ "proxy" \notin runtime => reply = "refused"
               /\ IF Over THEN Pending(OverProblem) /\ Timeless
                  ELSE IF ReplyProblem(reply) # "none" THEN Pending(ReplyProblem(reply)) /\ Timeless
                  ELSE IF ~guarded THEN Pending("Authority") /\ Timeless
                  ELSE Proceed(next, t) /\ UNCHANGED <<request, peer>>
       \/ /\ limit = 0 \/ cancelled
          /\ Pending(OverProblem) /\ Timeless
    /\ UNCHANGED <<world, port>>

-----------------------------------------------------------------------------
(* The probe.                                                              *)

\* probe_port binds a free port and lets it go again; probe_sha256 then proves
\* the package.
ProbePort ==
    /\ pc = "port" /\ port' = "free"
    /\ IF Over THEN Pending(OverProblem) /\ Timeless
       ELSE IF guarded THEN Proceed("verify", Query) /\ UNCHANGED <<request, peer>>
       ELSE Pending("Authority") /\ Timeless
    /\ UNCHANGED world

\* spawn: a new process in a group of its own.
SpawnProbe ==
    /\ pc = "verify"
    /\ IF Over THEN Pending(OverProblem) /\ Timeless
       ELSE /\ leader' = "alive" /\ pc' = "send" /\ limit' = left
            /\ UNCHANGED <<left, elapsed, outcome, request, group, clean, dropping, stranger, struck, peer>>
    /\ UNCHANGED <<world, port>>

\* send, the second look at the binary and construct: any failure here drops
\* the child.
SendPlan ==
    /\ pc = "send"
    /\ \/ Over /\ Abandon(OverProblem) /\ Timeless
       \/ ~Over /\ leader # "alive" /\ Abandon("Exited") /\ Timeless
       \/ ~Over /\ leader = "alive" /\ guarded
          /\ Proceed("listen", Within(ReadyLimit)) /\ site' = "first" /\ seen' = "unasked" /\ UNCHANGED <<base, peer>>
       \/ ~guarded /\ TrafficEnds("Authority") /\ Timeless /\ UNCHANGED peer
    /\ UNCHANGED <<world, port>>

\* listener: the child is alive, and then the query is made.
AskListener ==
    /\ pc = "listen" /\ seen = "unasked"
    /\ IF Over THEN TrafficEnds(OverProblem) /\ UNCHANGED peer
       ELSE IF leader # "alive" THEN TrafficEnds("Exited") /\ UNCHANGED peer
       ELSE seen' = port /\ UNCHANGED <<pc, site, base, outcome, probe, peer>>
    /\ UNCHANGED <<time, world, port>>

\* Where each of the four proofs leads.
AfterListener ==
    CASE site = "first" -> "before"
      [] site = "before" -> "egress"
      [] site = "after" -> "last"
      [] site = "last" -> "bound"

Listened ==
    IF AfterListener \in {"before", "last"}
    THEN Proceed("listen", Within(ReadyLimit)) /\ site' = AfterListener /\ seen' = "unasked" /\ UNCHANGED <<base, peer>>
    ELSE Proceed(AfterListener, Within(Exchange)) /\ UNCHANGED <<request, peer>>

\* Mutant: any listener at the address will do.
ProveAnyListener ==
    /\ pc = "listen" /\ seen # "unasked"
    /\ IF seen = "free"
       THEN IF limit = 0 THEN TrafficEnds("Listener") /\ Timeless /\ UNCHANGED peer
            ELSE seen' = "unasked" /\ UNCHANGED <<pc, site, base, outcome, time, probe, peer>>
       ELSE IF leader # "alive" THEN TrafficEnds("Exited") /\ Timeless /\ UNCHANGED peer
       ELSE Listened
    /\ UNCHANGED <<world, port>>

\* ... and its answer: nobody yet, exactly the child, which is still the same
\* process, or anything else.
ProveListener ==
    /\ pc = "listen" /\ seen # "unasked"
    /\ IF seen = "free"
       THEN IF limit = 0 THEN TrafficEnds("Listener") /\ Timeless /\ UNCHANGED peer
            ELSE seen' = "unasked" /\ UNCHANGED <<pc, site, base, outcome, time, probe, peer>>
       ELSE IF seen # "probe" THEN TrafficEnds("Listener") /\ Timeless /\ UNCHANGED peer
       ELSE IF leader # "alive" THEN TrafficEnds("Exited") /\ Timeless /\ UNCHANGED peer
       ELSE Listened
    /\ UNCHANGED <<world, port>>

\* egress connects to whoever listens by now.  Anyone could answer well.
Egress ==
    /\ pc = "egress"
    /\ \/ /\ limit > 0 /\ ~cancelled /\ peer' = port
          /\ \E reply \in Replies \cup {"address"} :
               /\ port = "free" => reply = "refused"
               /\ IF Over THEN TrafficEnds(OverProblem) /\ Timeless
                  ELSE IF reply = "address" THEN TrafficEnds("Egress") /\ Timeless
                  ELSE IF ReplyProblem(reply) # "none" THEN TrafficEnds(ReplyProblem(reply)) /\ Timeless
                  ELSE Proceed("listen", Within(ReadyLimit)) /\ site' = "after" /\ seen' = "unasked" /\ UNCHANGED base
       \/ /\ limit = 0 \/ cancelled
          /\ TrafficEnds(OverProblem) /\ Timeless /\ UNCHANGED peer
    /\ UNCHANGED <<world, port>>

\* The record is still the one the check began with.
Bound ==
    /\ pc = "bound"
    /\ TrafficEnds(IF guarded /\ record = base THEN "none" ELSE "Authority")
    /\ UNCHANGED <<time, world, port, peer>>

-----------------------------------------------------------------------------
(* ProbeChild::stop, by Reap::finish and then by the destructor.           *)

\* The last inspection begins inside the budget.
FinalBegins ==
    IF Over THEN pc' = "idle" /\ report' = OverProblem /\ problem' = OverProblem /\ UNCHANGED <<dropping, limit>>
    ELSE pc' = "final" /\ limit' = Query /\ UNCHANGED <<problem, report, dropping>>

\* Mutant: the problem of the traffic stage is returned before cleanup's.
StoppedTrafficFirst(ok) ==
    IF dropping \/ problem # "none"
    THEN /\ pc' = "idle" /\ report' = problem /\ UNCHANGED <<problem, dropping, limit>>
    ELSE IF ok THEN FinalBegins
    ELSE /\ pc' = "stop" /\ problem' = "Cleanup" /\ dropping' = TRUE /\ UNCHANGED <<report, limit>>

\* After the stop that counts its own failure is reported before any other.
ProbeStopped(ok) ==
    IF dropping THEN pc' = "idle" /\ report' = problem /\ UNCHANGED <<problem, dropping, limit>>
    ELSE IF ~ok THEN pc' = "stop" /\ problem' = "Cleanup" /\ dropping' = TRUE /\ UNCHANGED <<report, limit>>
    ELSE IF problem # "none" THEN pc' = "idle" /\ report' = problem /\ UNCHANGED <<problem, dropping, limit>>
    ELSE FinalBegins

\* A leader that is not reaped yet pins the group's number: the group is
\* killed.  After that it is never signalled again.
KillGroup ==
    /\ pc = "stop"
    /\ IF leader = "reaped"
       THEN ProbeStopped(clean) /\ UNCHANGED <<leader, group, struck>>
       ELSE /\ pc' = "reap" /\ limit' = Grace
            /\ leader' = IF leader = "alive" THEN "dying" ELSE leader
            /\ group' = IF group = "alive" THEN "dying" ELSE group
            /\ struck' = (struck \/ stranger)
            /\ UNCHANGED <<problem, report, dropping>>
    /\ UNCHANGED <<left, elapsed, request, clean, stranger, peer, world, port>>

\* Mutant: the leader is waited for without a limit.
ReapPatiently ==
    /\ pc = "reap" /\ leader = "zombie"
    /\ leader' = "reaped" /\ pc' = "empty"
    /\ UNCHANGED <<limit, problem, report, dropping, left, elapsed, request, group, clean, stranger, struck, peer, world, port>>

Reap ==
    /\ pc = "reap"
    /\ \/ leader = "zombie" /\ leader' = "reaped" /\ pc' = "empty" /\ UNCHANGED <<limit, problem, report, dropping>>
       \/ leader # "zombie" /\ limit = 0 /\ ProbeStopped(FALSE) /\ UNCHANGED leader
    /\ UNCHANGED <<left, elapsed, request, group, clean, stranger, struck, peer, world, port>>

\* Mutant: the child counts as reaped once its group is gone too.
ProveGroupGoneLate ==
    /\ pc = "empty"
    /\ \/ group = "none" /\ ~stranger /\ clean' = TRUE /\ ProbeStopped(TRUE) /\ UNCHANGED leader
       \/ (group # "none" \/ stranger) /\ limit = 0 /\ ProbeStopped(FALSE) /\ leader' = "zombie" /\ UNCHANGED clean
    /\ UNCHANGED <<left, elapsed, request, group, stranger, struck, peer, world, port>>

\* The group is gone when signal 0 finds nobody; somebody else's group of the
\* same number looks like ours.
ProveGroupGone ==
    /\ pc = "empty"
    /\ \/ group = "none" /\ ~stranger /\ clean' = TRUE /\ ProbeStopped(TRUE)
       \/ (group # "none" \/ stranger) /\ limit = 0 /\ ProbeStopped(FALSE) /\ UNCHANGED clean
    /\ UNCHANGED <<left, elapsed, request, leader, group, stranger, struck, peer, world, port>>

\* Mutant: the last look is at the runtime only.
FinalProofOfRuntime ==
    /\ pc = "final"
    /\ IF Over THEN Pending(OverProblem)
       ELSE IF runtime = Services THEN pc' = "idle" /\ report' = "verified" /\ UNCHANGED <<request, problem, probe, peer>>
       ELSE Pending("Authority")
    /\ UNCHANGED <<time, world, port>>

\* The last look at the record and the runtime, inside the budget.
FinalProof ==
    /\ pc = "final"
    /\ IF Over THEN Pending(OverProblem)
       ELSE IF guarded /\ record = base /\ runtime = Services
       THEN pc' = "idle" /\ report' = "verified" /\ UNCHANGED <<request, problem, probe, peer>>
       ELSE Pending("Authority")
    /\ UNCHANGED <<time, world, port>>

-----------------------------------------------------------------------------
(* The others.                                                             *)

Event == events < MaxEvents /\ events' = events + 1
Unwatched == UNCHANGED <<pc, request, time, outcome, peer>>

\* sing-box binds its port once it has its plan, or ends when it cannot.
ProbeBinds ==
    /\ leader = "alive" /\ pc # "send"
    /\ \/ port = "free" /\ port' = "probe" /\ UNCHANGED leader
       \/ port = "other" /\ leader' = "zombie" /\ UNCHANGED port
    /\ Unwatched /\ UNCHANGED <<group, clean, dropping, stranger, struck, world>>

\* A killed process ends when the kernel gets to it.
ProbeDies ==
    /\ \/ leader = "dying" /\ leader' = "zombie" /\ port' = (IF port = "probe" THEN "free" ELSE port) /\ UNCHANGED group
       \/ group = "dying" /\ group' = "none" /\ UNCHANGED <<leader, port>>
    /\ Unwatched /\ UNCHANGED <<clean, dropping, stranger, struck, world>>

ProbeExits ==
    /\ leader = "alive" /\ Event
    /\ leader' = "zombie" /\ port' = IF port = "probe" THEN "free" ELSE port
    /\ Unwatched /\ UNCHANGED <<group, clean, dropping, stranger, struck, record, guarded, runtime, cancelled>>

ProbeForks ==
    /\ leader = "alive" /\ group = "none" /\ Event /\ group' = "alive"
    /\ Unwatched /\ UNCHANGED <<leader, clean, dropping, stranger, struck, record, guarded, runtime, cancelled, port>>

\* Another process takes the port or leaves it.
OtherListens ==
    /\ port \in {"free", "other"} /\ Event
    /\ port' = IF port = "free" THEN "other" ELSE "free"
    /\ Unwatched /\ UNCHANGED <<probe, record, guarded, runtime, cancelled>>

\* The kernel gives the number of a reaped and empty group to somebody else.
GroupNumberReused ==
    /\ leader = "reaped" /\ group = "none" /\ ~stranger /\ Event /\ stranger' = TRUE
    /\ Unwatched /\ UNCHANGED <<leader, group, clean, dropping, struck, record, guarded, runtime, cancelled, port>>

RuntimeStops ==
    /\ Event /\ \E s \in runtime : runtime' = runtime \ {s}
    /\ Unwatched /\ UNCHANGED <<probe, record, guarded, cancelled, port>>

RuntimeStarts ==
    /\ runtime' = Services /\ runtime # Services
    /\ Unwatched /\ UNCHANGED <<probe, record, guarded, cancelled, events, port>>

\* The lock file is replaced under the holder.
GuardLost ==
    /\ guarded /\ Event /\ guarded' = FALSE
    /\ Unwatched /\ UNCHANGED <<probe, record, runtime, cancelled, port>>

\* Another SBXR process writes the record when nobody holds the host's lock.
RecordChanges ==
    /\ pc \in {"idle", "reviewed", "authority"} \/ ~guarded
    /\ Event /\ record' \in RecordStates \ {record}
    /\ Unwatched /\ UNCHANGED <<probe, guarded, runtime, cancelled, port>>

Cancel ==
    /\ ~cancelled /\ Event /\ cancelled' = TRUE
    /\ Unwatched /\ UNCHANGED <<probe, record, guarded, runtime, port>>

Waiting == {"authority", "local", "public", "verify", "send", "listen", "egress", "reap", "empty", "final"}

\* Time passes while the check waits, and never past the wait's limit.
Tick ==
    /\ pc \in Waiting /\ limit > 0
    /\ cancelled => pc \in {"reap", "empty"}
    /\ limit' = limit - 1 /\ elapsed' = elapsed + 1
    /\ left' = IF left > 0 THEN left - 1 ELSE 0
    /\ UNCHANGED <<pc, request, outcome, probe, world, port, peer>>

CheckInit ==
    /\ pc = "idle" /\ site = "first" /\ seen = "unasked" /\ base = "tunnel"
    /\ left = Budget /\ limit = 0 /\ elapsed = 0
    /\ problem = "none" /\ report = "none"
    /\ record = "tunnel" /\ guarded = TRUE /\ runtime = Services /\ cancelled = FALSE /\ events = 0
    /\ leader = "none" /\ group = "none" /\ clean = FALSE /\ dropping = FALSE
    /\ port = "free" /\ peer = "free" /\ stranger = FALSE /\ struck = FALSE

CheckStep ==
    \/ Authority
    \/ WebSocket("local", "public", Within(Exchange)) \/ WebSocket("public", "port", 0)
    \/ ProbePort \/ SpawnProbe \/ SendPlan
    \/ AskListener \/ ProveListener \/ Egress \/ Bound
    \/ KillGroup \/ Reap \/ ProveGroupGone \/ FinalProof

OtherSteps ==
    \/ ProbeBinds \/ ProbeDies \/ ProbeExits \/ ProbeForks
    \/ OtherListens \/ GroupNumberReused \/ RuntimeStops \/ RuntimeStarts
    \/ GuardLost \/ RecordChanges \/ Cancel

CheckNext == Review \/ Execute \/ CheckStep \/ OtherSteps \/ Tick

\* The check's thread runs, and time passes while it waits.
CheckSpec == CheckInit /\ [][CheckNext]_checkVars /\ WF_checkVars(CheckStep) /\ WF_checkVars(Tick)

-----------------------------------------------------------------------------
(* Properties.                                                             *)

Problems ==
    {"none", "StaleReview", "Authority", "Cancelled", "TimedOut", "Network", "Redirect", "UntrustedTls",
     "Http", "Headers", "Listener", "Egress", "Exited", "Cleanup"}

CheckTypeOK ==
    /\ pc \in Waiting \cup {"idle", "reviewed", "port", "bound", "stop"}
    /\ site \in {"first", "before", "after", "last"} /\ seen \in {"unasked", "free", "probe", "other"}
    /\ left \in 0..Budget /\ limit \in Nat /\ elapsed \in Nat
    /\ problem \in Problems /\ report \in Problems \cup {"verified"}
    /\ record \in RecordStates /\ base \in RecordStates /\ runtime \subseteq Services
    /\ leader \in {"none", "alive", "dying", "zombie", "reaped"} /\ group \in {"none", "alive", "dying"}
    /\ {guarded, cancelled, clean, dropping, stranger, struck} \subseteq BOOLEAN
    /\ port \in {"free", "probe", "other"} /\ peer \in {"free", "probe", "other"}
    /\ events \in 0..MaxEvents

\* A verified connection was seen through the probe itself and never through a
\* process that took its port, however the two raced for it.
VerifiedByTheProbe == report = "verified" => peer = "probe"

\* stop and the destructor never signal a process group that is not the
\* probe's, although its number is free again once the leader is reaped.
NeverSignalsStrangers == ~struck

\* A check that reports anything but Cleanup leaves no process behind: no
\* leader, no zombie, nothing else of the group.  (What is dropped before the
\* session exists is stopped, but the result of that is lost.)
NothingLeftRunning ==
    report \notin {"none", "Cleanup"} /\ pc = "idle" /\ ~dropping => leader \in {"none", "reaped"} /\ group = "none"

\* Every wait together ends within the budget, but for an inspection that was
\* begun inside it or two attempts to stop the probe.
Bounded == elapsed <= Budget + Max({Query - 1, 2 * Grace})

\* A connection is reported verified only under the one record the check began
\* with, unchanged from the first proof to the last.
VerifiedUnderOneRecord == [][report' = "verified" /\ report # "verified" => record = base /\ guarded]_checkVars

\* Every check ends, whoever does not answer and whatever does not die.
CheckEnds == pc \notin {"idle", "reviewed"} ~> pc = "idle"

\* What is reported verified is true: the probe itself saw it, under one record.
VerifiedIsTrue == []VerifiedByTheProbe /\ VerifiedUnderOneRecord

\* The probe and its waits stay within the check: no stranger is signalled,
\* nothing is left running and the budget holds.
ProbeIsContained == CheckTypeOK /\ NeverSignalsStrangers /\ NothingLeftRunning /\ Bounded

-----------------------------------------------------------------------------
(* The inductive strengthening.                                            *)

Spawned == pc \in {"send", "listen", "egress", "bound"}
Stopping == pc \in {"stop", "reap", "empty"}

\* Where the probe is: it lives from its spawn to the stop, is reaped at most
\* once, and only then can its number be somebody else's.
ProbeInv ==
    /\ pc \in {"authority", "local", "public", "port", "verify"} =>
          leader = "none" /\ group = "none" /\ ~dropping
    /\ Spawned => leader \in {"alive", "zombie"} /\ ~dropping
    /\ pc = "stop" => leader # "none" /\ (~dropping => leader \in {"alive", "zombie"})
    /\ pc = "reap" => leader \in {"dying", "zombie"}
    /\ pc \in {"empty", "final"} => leader = "reaped"
    /\ leader = "alive" \/ group = "alive" => Spawned \/ pc = "stop"
    /\ leader = "reaped" => group # "alive"
    /\ pc = "final" \/ (pc \in {"idle", "reviewed"} /\ ~dropping) =>
          leader \in {"none", "reaped"} /\ group = "none"
    /\ stranger => leader = "reaped" /\ group = "none"

\* Who answered: a probe that lives has kept the port that a query showed it on.
PeerInv ==
    /\ leader = "alive" /\ (pc = "egress" \/ (pc = "listen" /\ seen = "probe")) => port = "probe"
    /\ leader = "alive" /\ pc = "listen" /\ site \in {"after", "last"} => peer = "probe"
    /\ pc \in {"bound", "final"} \/ (Stopping /\ ~dropping /\ problem = "none") => peer = "probe"
    /\ report = "verified" => pc \in {"idle", "reviewed"}

\* What each wait may still add to the time that is gone.
TimeInv ==
    /\ left > 0 => elapsed + left = Budget
    /\ Spawned \/ pc \in {"local", "public", "port"} => limit <= left /\ elapsed + left = Budget
    /\ pc \in {"authority", "verify", "final"} => elapsed + limit <= Budget + Query - 1
    /\ pc = "stop" => elapsed <= IF dropping THEN Budget + Grace ELSE Budget
    /\ pc \in {"reap", "empty"} => elapsed + limit <= IF dropping THEN Budget + 2 * Grace ELSE Budget + Grace

CheckInv ==
    /\ CheckTypeOK /\ NeverSignalsStrangers /\ Bounded /\ VerifiedByTheProbe
    /\ ProbeInv /\ PeerInv /\ TimeInv
=============================================================================
