# SBXR: TLA+ models, checks and proofs

SBXR installs and operates a single-host sing-box proxy. Almost all of its own
logic is about one thing: changing a host step by step, as root, in a way that a
crash, a failed call, a reboot or a second process can interrupt anywhere, and
that can afterwards be finished or undone from one durable *ownership record*.
This directory models that logic from the Rust sources under `src/src/`, checks
it with TLC and proves all of its safety properties with TLAPS.

Contents: [inventory](#inventory) · [modules and code](#modules-and-code) ·
[runs](#runs) · [bounds](#bounds) · [fairness](#fairness) · [proofs](#proofs) ·
[disagreements](#disagreements-with-the-documentation) ·
[assumptions](#modelling-assumptions) · [not modelled](#not-modelled) · [plan](#plan)

## Inventory

| Part | State it keeps | Operations | Correct when |
|---|---|---|---|
| Ownership store (`durable.rs`) | record, staged record, directory lock | open, load, synchronize, publish, remove_completed_cleanup | a reader never sees part of a record; what was reported survives a power loss; records move only along permitted successors |
| Ownership record (`records/`) | phase, cleanup and removal checkpoints, serving authority, the one pending operation | pure transitions, `permits_successor`, `recovery_direction` | each checkpoint has one recovery direction and no transition crosses a commitment backwards |
| Standard setup (`proxyinstallation/fixture.rs`, `host/linux/effects.rs`) | thirteen phases, host resources | Start setup, Finish setup, Finish cleanup | nothing on the host without a record; no live proxy that recovery would clean up; both directions end |
| Complete removal (`removal.rs`, `host/linux/removal/`) | removal checkpoints, finalizer record | Complete removal, Finish removal, Cancel | authority goes last; checkpoints are true; a committed removal goes forward to its end |
| Exact restoration (`host/restoration.rs`) | executable, Installed Record | the installer's restoration | a removal that deleted its own executable can be finished |
| Client Identity rotation (`client_identity.rs`, `host/identity/`) | eleven checkpoints, target files, startup drop-in, cutover gate | rotate, Finish | one identity at a time; a revoked one never returns; recovery is admitted and ends |
| HTTP subscription (`proxyinstallation/subscription.rs`, `host/subscription/`) | enablement, rotation and repair checkpoints, token, state, candidates, units, firewall | enable, rotate, repair, Finish | one link at a time; nothing left without a record; a shown link is committed; changes end |
| Disclosure (`disclosure.rs`) | mark of a compromised link | View details, mark, Client Configuration | no link of an unfinished change is shown; the mark goes only with the link |
| Runtime handoff (`runtime_handoff.rs`, `host/runtime/`, `host/locks.rs`) | the lock's open file description and who has a descriptor of it, the one-use gate | acquire, lend, borrow, confirm, authorize a start, unlock, drop | a start is admitted only by the record as it is then; the lock comes back whoever dies; nobody waits for ever |
| Subscription Serving (`subscription_serving.rs`, `host/runtime/serving.rs`) | listener, registered sockets, worker handles, cancellation, buckets of sources | accept, answer, overload, cancel, join, watch the address | threads and connections are bounded and end; no byte after a cancellation; the exit code is true; the rate holds |
| Tunnel setup (`tunnel_setup.rs`, `tunnel_native.rs`) | the setup record, the connector's unit and process, the Owner's token and binary | Start setup, Finish setup, Finish cleanup | as Standard setup; the connector goes before the proxy; only the reviewed binary is recorded as running |
| Tunnel check (`tunnel_setup.rs`, `tunnel_native.rs`) | probe process and its group, its port, the budget | check the connection | verified means seen through the probe, under one record; no stranger is signalled; nothing stays; it ends |
| Owner interface (`proxyinstallation/owner.rs`, `host/owner.rs`, `terminal.rs`) | menu, prepared action, both locks | frame, choose, review, confirm, execute | an approval applies only to the facts it was given for; a pending change always has its ending |
| Software lifecycle (`software_lifecycle.rs`, `host/lifecycle.rs`) | Installed Record, executable | Status, Check, Recover | recovery only restores what a pending removal still needs |
| Admission, artifact trust, acquisition | authenticated bytes | verification | |
| Go implementation (`internal/`, `cmd/`) | the earlier implementation | | |

**How the parts interact.** An Owner journey (setup, removal, identity,
subscription) takes the whole-host lock, loads the record through the store,
compares it and the observed host with what was reviewed, and then alternates
*effects* on the host and *publications* of the next checkpoint. Setup and
identity perform the effect first and record it afterwards; enablement records
the checkpoint first and performs the effect afterwards; removal performs and
then records. systemd starts proxy and serving at any time, but each start asks
the product, which reads the same record; a journey starts services by lending
its lock descriptor to the process it starts. Recovery is always an explicit
Finish chosen by the Owner; a boot decides nothing. Several terminals may be open
at once: two locks taken without a wait, the host's and the ownership store's,
keep them apart, and everything reviewed is compared again under both.

**What is hard.** Kills and power losses between an effect and its checkpoint;
effects that fail halfway; a record that is visible without being durable;
staged records of interrupted publications; two processes working from one
record; ordinary service starts racing a cutover; observations that are stale or
cannot be repeated when Finish needs them; sequences of legal operations that
leave a host the next one refuses; recovery that must end; a lock whose
description is shared with the process that borrows it; threads, deadlines and a
cancellation that race in the serving process; process and port numbers that are
another's by the time they are used; an approval that is older than the host it
is applied to. `PROJECT.json` lists the hazards with their lines and the
properties that would catch them.

## Modules and code

**`AtomicAuthority`** states what a journey may rely on: one register that moves
along permitted successors, that a power loss can move back only to a value
visible since the last settled one, and that is settled before it is replaced.

**`OwnershipStore`** is `durable.rs`, one action per file-system step of each
call, for any number of processes behind the store's `flock`. `dir` is what
processes see (`proxy-ownership.json`, `.proxy-ownership.json.next`), `views`
every directory a power loss could leave, a file carries how much of it was
written and synchronized. Any fsync, write, rename or unlink may fail, a failed
rename or unlink may have been applied, any process may die at any step. It is
shown to implement `AtomicAuthority` (`ImplementsAuthority`, with `current` the
record at the current path and `exposed` the set of records over `views`).

The journey modules use the store through that interface: `rec`, `staged`
and `exposed` (the records a power loss could leave). A publication succeeds
durably, or fails leaving nothing, a staged or a torn staged record, or a new
record that is visible and not durable.

**`StandardSetup`**: `StandardInstallation` of `fixture.rs`. Phases and cleanup
checkpoints by position (`SetupPhase`), resources as a set, `Recovery` as
`Snapshot::recovery`, one action per effect, checkpoint, promotion of a staged
record and removal of the record, the admission rules of `effects.rs`
(`Admitted`, `Ready`, `Observable`) as guards. A failed effect leaves any part of
its changes, or a *fragment*: a publication stage (`.sbxr-next`) with part of its
bytes, the state directory before its owner is set, a package half unpacked or
half purged. The inspection takes a fragment for something foreign and refuses
every further action.

**`Removal`** (`MCRemoval` gives the record shapes): `removal.rs` over
`host/linux/removal/`. A record's *shape* is the set of auxiliary fields it
holds (enablement, rotation, repair, serving, renewal, retirement, identity,
startup, tunnel); each auxiliary effect is admitted by its inspection and removes
the resources of its field; then proxy effects, the product's executable and
Installed Record, the move of the record to `/var/lib/.sbxr-removal.json`, its
directory, and the last unlink. A purge of the package may be cut short, which no
later inspection accepts. `Restore` is the installer's restoration.

**`ClientIdentity`**: `client_identity.rs`, `host/identity.rs` and its effects,
with `authorize_proxy_start` and `select_http_authority` as the guards of
ordinary starts. A configuration is known by the identity in it, a number. The
candidate, prepared target, drop-in and its directory, systemd's loaded view and
the one-use gate are separate state, since recovery looks at each of them.

**`HttpSubscription`**: `proxyinstallation/subscription.rs`, the transitions of
`records/transitions.rs`, the effects of `host/subscription/`, what
`runtime_handoff.rs` lets serving start with, and View details and the mark of a
compromised link of `disclosure.rs`. The fourteen enablement checkpoints
(0,1,2,3,8..15,22,23) are positions 0 to 13; `host` maps each owned path to the
link its bytes belong to; `torn` says that a publication stage holds partial
bytes; `serving` is the link the process answers to, or systemd's retained
failure.

**`TunnelSetup`**: `TunnelInstallation` of `tunnel_setup.rs` over the connector
effects of `tunnel_native.rs`. The record, its checkpoints, the proxy's resources
and publications are those of `StandardSetup`, which the module extends, giving
the journey's own actions the prefix `Tunnel`; it adds the connector's unit file, staged unit, link and
systemd's memory of it, its process and the image it runs, and the token and
binary, which the Owner may replace or remove at any time. systemd boots and
restarts the connector.

**`TunnelCheck`**: `check_connection` with the probe of `tunnel_native.rs`. Time
is modelled where the check waits: the budget, one limit per wait and the grace of
a stop. Around the check the probe binds, forks, ends or does not die; other
processes take the port or, once the leader is reaped, its group number; services
stop, the lock file is replaced, the record changes, the Owner cancels.

**`RuntimeHandoff`**: the lock as `flock` has it, owned by an open file
description that several descriptors share: the Owner's, the duplicate in flight
in the socket and the borrower's. One action per step of the lender's thread, of
the two private roles (`sbxr-proxy` condition, serving) and of the Owner around
one rotation. The authorization of a start and the start are separate steps, and
systemd carries out what a killed `systemctl` asked for.

**`SubscriptionServing`**: accepting thread, workers, address watch and signals of
the serving process, step by step between their shared accesses; a connection
that ended makes room for a new one, so the run has no bound on their number.
**`SourceLimiter`** is its bucket per address: clock readings are taken before the
mutex and arrive out of order, entries are forgotten and come back. Two ideal
buckets, which the code does not have, state the two sides of its promise.

**`OwnerInterface`**: the terminals. `Allowed` is the list of journeys a record
admits, `Legal` what a journey's review offers, `Retaining` the journeys that keep
the ownership store over the Owner's prompt. Every action goes through menu,
selection, opening, review, answer, acquisition of both locks, comparison and
publications; removal takes the program away and Software Lifecycle's recovery
brings it back as a new file, after which processes of the old one are refused.
The journeys' effects are not repeated here; each publishes its records, fails or
is killed. The client configuration is the one result that is written to the
terminal under both locks (`Show`).

`PROJECT.json` maps each definition to the lines it stands for. Operators whose
comment begins with "Mutant:" are wrong variants of the definition that follows
them; replacing the definition by its variant must break the property named in
`PROJECT.json`.

## Runs

Passing runs:

| Run | Question | States |
|---|---|---|
| `store` | Two processes publish, synchronize and remove with kills and power losses at each step. `InstalledRecordIsWhole`, `AcknowledgedIsDurable`, `StagedIsSuccessor` (an interrupted publication can be completed exactly), `ImplementsAuthority`. | 56 706 |
| `setup` | Setup interrupted anywhere. `ResourcesAreOwned`, `LiveProxyIsCommitted`, `RecordNeverAhead` (whatever record recovery finds is true), `NoReversal`, `RecoveryCompletes` (in both directions). | 8 330 |
| `removal` | Removal of nine kinds of record. `RemovalIsRecorded` (authority goes last, checkpoints are true, no executable without Installed Record), `RemovalIsForward`, `RemovalCompletes`. | 27 461 |
| `identity` | Up to three rotations. `OneIdentity` over every record a power loss could leave, `HostFitsTheRecord` (recovery is admitted, the startup integration is owned, a rotation that ended left nothing behind), `RevocationIsFinal`, `RotationEnds`. | 27 784 |
| `subscription` | Enablement, rotations and repairs of up to three links. `OneLink`, `HostFitsTheRecord`, `ReportIsKept`, `LinksAreFinal` (a revoked link stays revoked, a shown one is committed), `ChangeEnds`. | 191 432 |
| `tunnel` | Tunnel setup while the Owner changes token and binary and systemd restarts the connector. `OwnedInOrder` (everything is owned, no live proxy is open to cleanup, the connector goes first), `ImageIsReviewed`, `TunnelRecoveryCompletes`. | 25 409 |
| `check` | Connection checks with three events of others. `VerifiedIsTrue` (through the probe, under one record), `ProbeIsContained` (no stranger signalled, nothing left, within the budget), `CheckEnds`. | 443 546 |
| `handoff` | Two lock descriptions, up to three Owner processes, starts by Owner and system around one rotation. `SourceStaysRevoked`, `LentAsRecorded`, `AuthorizedByTheRecord`, `HandoffEnds`. | 90 751 |
| `serving` | Three clients at a time and two workers. `StopIsClean` (threads bounded, nothing left, a true exit code), `NothingAfterCancel`, `ServingEnds` (every connection and every stop). | 99 583 |
| `limiter` | Three sources in a table for two, two workers. `RateBounded`, `NobodyIsShort`. | 759 204 |
| `owner` | Two terminals with every journey, removal and recovery. `AlwaysFinishable` (no record without its program, no pending change without its ending), `ReviewHolds`, `ChangesAreReviewed` (no lost update, what was removed stays removed), `LockEnds`. | 139 112 |

A property with several parts is a conjunction of operators that have comments of
their own, the type invariant among them; `PROJECT.json` lists a mutant for each
part. Every safety property of the passing runs, type invariants included, is
[proved](#proofs) as well.

The liveness properties except states in which the code refuses to go on; each is
a named operator. Left out of its property, TLC prints the behaviour that leads
there.

| Excepted state | Module | Why recovery stops there |
|---|---|---|
| `Preserved` | journeys | a torn or foreign staged file or staged record, or a connector running another image; `docs/rust-rewrite.md:305` keeps unknown staging for inspection, and retry of a staged record is listed as a follow-up there. In `StandardSetup` and `TunnelSetup` also a fragment: a torn publication stage and a state directory without its owner are refused as foreign (`effects.rs:188-236`), a package state that is none of the known ones by `observation.rs:295`. `TunnelPreserved` includes a staged record left by Finish setup after Activation committed: `Snapshot::recovery_record` (`tunnel_setup.rs:203`) accepts staged records of the cleanup direction only, while `docs/setup-vmess-tunnel.md:139` keeps Finish setup open |
| `ServiceInTheWay` | StandardSetup, TunnelSetup | systemd started the service before ServiceEnabled was recorded, or it ended after ServiceStarted was |
| `FirewallStranded` | Removal | an enablement had published its firewall and no serving material: the inspection of that step (`auxiliary.rs:563`) does not look at the firewall, the step counts as absent, and the final proof of absence refuses for ever |
| `ProofLost` | ClientIdentity | killed between publishing the drop-in and the reload, every observation of the running proxy fails; or the proxy stopped once its start was recorded, ordinary starts are refused and Finish only verifies (`client_identity.rs:961`) |
| `AlreadyStarted` | ClientIdentity | killed between starting the target and recording it, Finish repeats the start on an active unit, which claims no lock (`host/identity/effects.rs:112`) |
| `PurgeCutShort` | Removal | apt was killed inside the purge of the package: the state dpkg keeps then is not among those the facts know (`observation.rs:295`) |
| `Overtaken` | HttpSubscription | the commitment of a rotation was visible and not durable, Finish renamed the target over the token, and a power loss before the directory was synchronized kept the later rename and not the earlier one: the record wants its source back, whose token is gone. Excepted in `RecoveryIsAdmitted` and `ChangeEnds` |
| `FailureRetained` | HttpSubscription | a failed serving start during enablement leaves the unit failed; cleanup insists on inactive until it is reset by hand |
| `AcceptedRuntimeLost` | HttpSubscription | Finish of an accepted repair verifies and does not start; the next boot starts the enabled unit |
| `TryingForever` | TunnelSetup | systemd keeps trying to start a connector whose token or binary is gone, and the inspection before cleanup takes it for neither stopped nor running; `tunnel_native.rs:609` expects cleanup not to need them. Only a connector that stays so is excepted: cleanup ends if it is seen otherwise again and again |
| `Showing` | OwnerInterface | the client configuration is written under the host's lock and `InterruptibleOutput::write` (`host/input.rs:255`) polls without a deadline: a terminal that never takes it keeps the lock until the Owner cancels or the process ends. `LockEnds` holds for every other holder, and for this one unless it shows for ever |

One run with an expected violation states what the documentation says and shows a
behaviour of the code that disagrees, see
[below](#disagreements-with-the-documentation).

## Bounds

The theorems hold for every value of these constants; the runs use:

- `store`: two processes (symmetric) and the five records of `MCOwnershipStore`,
  the smallest graph with every kind of edge of `permits_successor`: an advance,
  a cleanup from two places, a removal on top of a record and one without.
  Kills, failures and power losses are unbounded.
- `setup`: four failures. Failing, losing power, failing in recovery and losing
  power again needs four; each recovery restarts from a state that one failure
  reaches.
- `removal`: all nine shapes, any subset of their resources present at the start
  (an enablement or a rotation interrupted anywhere), three failures on top.
- `identity`: three identities (two rotations interact through what the first
  recorded, the third shows that nothing accumulates), three failures, one power
  loss.
- `subscription`: three links (enable and two rotations), three failures, two
  power losses: one that takes a commitment back and one in the recovery after it.
- `identity_again`: two rotations and no failure; the second is refused.
- `tunnel`: three failures, Owner changes included: changing a file, a failure
  after it and a power loss in recovery.
- `check`: a budget of three ticks with waits of one and two, so that each wait
  can be cut short by the budget and can outlast it by itself; three events of
  others, since the worst races need two (the probe dies and its port or number
  is taken) and one more. Checks repeat without bound.
- `handoff`: two open file descriptions that Owner processes reuse, three such
  processes (one that rotates, one that finishes, one more), one start by the
  system beside those the Owner asks for, two faults.
- `serving`: two workers stand for eight: the third client is the one too many.
  One failing call, panic or address failure is enough to end the service.
- `limiter`: a burst of two, two ticks per token, a delay of one; eight ticks let a
  source spend, be forgotten after five and come back.
- `owner`: two terminals, two changes besides removals, one restoration: one
  terminal restores and removes while the other still works from its review.

Deadlock checking is off: an installed, removed, idle or stopped system whose
failures are used up may rest.

## Fairness

The journey modules assume weak fairness of these kinds, and nothing about
failures:

- a journey that runs takes its next step (the code is sequential, its commands
  have deadlines, and none of these journeys writes to the terminal before it has
  released its locks);
- the Owner keeps choosing the one recovery action that Review offers: recovery
  is always explicit in this product, so nothing else could make it happen; for
  removal also that the product is started again and the installer's restoration
  rerun;
- in `HttpSubscription` a stopped proxy comes back, since every subscription
  action requires it; in `TunnelSetup` systemd restarts a failed connector, as its
  unit says.

The others:

- `TunnelCheck`: the check's thread runs and time passes while it waits. Nothing is
  assumed of the probe, of peers or of a killed process: each wait has a limit.
- `RuntimeHandoff`: every process takes its steps, systemd carries out the starts it
  was asked for, and deadlines come (`StartContext`, the deadline of each
  command).
- `SubscriptionServing`: threads run and deadlines come; a read or a write is only
  assumed to return when its socket is shut down.
- `OwnerInterface`: a terminal that holds the host's lock works on, except while it
  shows the client configuration. Nothing is assumed of a terminal that waits for
  its Owner or for its output to be taken.

Failures need no fairness because each run bounds them.

## Proofs

Every invariant and every action property that a passing run checks is proved for
every value of the constants: any number of processes, terminals, connections,
links, identities, failures and power losses. TLC checks each inductive invariant
first; it stands at the end of the component's module under "The inductive
strengthening" (`IInv` of the limiter, which only its proof uses, in the proof
module). A property is seldom inductive as it stands, because the code relies at
one step on what it established several steps, or one process, earlier; each
strengthening says what that is.

A proof module extends the component it is about, and its lemmas say for one
action, or for one conjunct and all the actions that touch its variables, that
the invariant is kept. `SetupProofs` and `ServingProofs` each extend the components
that belong together, which is why the definitions that every module has carry the
component's name in some of them (`TunnelInit`, `CheckNext`, `LimiterSpec`). The
only assumptions are those on the constants, which TLC evaluates in each
component's run.

**`OwnershipStoreProofs`**, for any records, successor relation and processes
(`StoreAssumption`: the constants are sets of the right kind, and `None` and
`Torn` are not records):

- `StoreTyped`, `InstalledRecordNeverTorn`, `AcknowledgedSurvives`;
- `StagedBelongs`: a whole staged record is a successor of the record beside it;
- `StoreImplementsAuthority`: every step is a step of `AtomicAuthority` or leaves
  it alone.

That a rename installs a synchronized whole file depends on the checks publish
made several steps earlier. `StoreInv` records what has been established at each
step of a call (`PublishSteps`, `RemoveSteps`, `OtherSteps`), that the lock admits
one caller (`OneCaller`, so the facts of another process cannot be disturbed) and
that the visible directory is one a power loss could leave. `StagedInv` adds, for
every such directory, whom its staged file was created for, however much of it
is written.

**`SetupProofs`, Standard setup** (`SetupAssumption`: `None` and `Torn` are not records):

- `SetupTyped`, `NothingIsOrphaned`, `LiveProxyIsNeverCleanedUp`;
- `ActivationIsIrreversible`, the action property `NoReversal`;
- `RecordTellsTheTruth`: `RecordNeverAhead`.

`SetupInv` is the first three invariants and `JourneyInv`, which says that a
running journey works from an installed record of its own direction, has
synchronized it before any effect, and holds no staged record that cleanup could
not publish. Without it an effect could follow a record that a power loss takes
away. `RecordInv` extends it for the last theorem: at a checkpoint what is about
to be recorded is done already (`CheckpointInv`), and a staged record, which
cleanup may yet publish, tells the truth as well (`StagedInv`).

**`SetupProofs`, tunnel setup**, from the same assumption:

- `TunnelInvariant`, `TunnelOwnedInOrder` (`OwnedInOrder`);
- `ImageAlwaysReviewed`, the action property `ImageIsReviewed`.

`TunnelInv` adds to the properties that a journey works from a synchronized record
of its own direction, and that a cleanup past its first step finds no connector
(`TunnelJourneyInv`); that a staged record with a cleanup step, which a later cleanup
may publish first, was written after the connector went (`TunnelStagedInv`); and for the
image (`LaunchInv`) that what a setup started still runs or has ended, that before
the checkpoint of Running it was proved to be the reviewed one, and that a boot
cannot bring up a record of Running that was not installed already. The Owner's
files occur nowhere in it: they may change at every step.

**`SetupProofs`, connection check** (`TimesAssumption`: the times are positive):

- `CheckInvariant`, `ProbeAlwaysContained` (`ProbeIsContained`);
- `VerifiedAlwaysTrue` (`VerifiedIsTrue`, an invariant and an action property).

`CheckInv` says where the probe can be at each place of the check and that its
number is another's only once it is reaped and its group empty (`ProbeInv`); that a
probe which lives keeps the port it was seen on, so that the answers between two
queries are its own (`PeerInv`); and what each wait may still add to the time that
is gone (`TimeInv`), which gives the slack over the budget: one inspection begun
inside it, or two attempts to stop the probe.

**`ClientIdentityProofs`** (`IdentityAssumption`), with and without a subscription:

- `RotationInvariant`, `OneIdentityAlways`, `HostFitsAlways`;
- `RevocationFinal`, the action property `RevocationIsFinal`.

`IdentityInv` places every record recovery could come to work from on one chain
of permitted successors (`RecordInv`), says which files each of them finds
(`FilesFit`), that the start of a revoked source is guarded by a loaded drop-in
in every such record (`Guarded`), and what the Owner's process has established
where it is (`JourneyInv`).

**`HttpSubscriptionProofs`** (`SubscriptionAssumption`):

- `ChangeInvariant`, `ReportKept`, `OneLinkAlways`, `HostFitsAlways`;
- `LinksFinal`, the action property `LinksAreFinal`.

`ControlInv` is about the records, the reports and the record each step works from;
`HostInv` about the files and what serving answers to, for every record a power
loss could leave. Finish does not synchronize the record it loaded, so a rotation
may go forward on a commitment that is not durable. `CommitmentInv` says why that
is sound: until the record is settled nothing serves and the journey is at most
publishing the target, and since token, state and record are in one directory, the
synchronization after the token's rename settles the record before the state file
or the service changes. What is left is the token's rename itself (`Overtaken`).

**`RemovalProofs`**, for any valid shapes of records (`RemovalAssumption`):

- `RemovalInvariant`, `RemovalRecorded` (`RemovalIsRecorded`);
- `RemovalGoesForward`, the action property `RemovalIsForward`.

`RemovalInv` adds that a record counts and moves only once its removal is
committed (`UncommittedIsFresh`), that finish works from an authority settled
before any effect and that the whole product is there while the first commitment
is not (`WorksFromAuthority`), and how far finish got where it is (`StepIsTrue`).

**`RuntimeHandoffProofs`**, for any number of Owner processes (`HandoffAssumption`:
descriptions, units and `None` are different things):

- `HandoffInvariant`, `LentAsRecordedAlways`, `SourceRevokedForGood`;
- `StartsAuthorized`, the action property `AuthorizedByTheRecord`.

`HandoffInv` accounts for every descriptor of the lock by the process it is with
or on the way to (`LockInv`), says that an Owner goes on from a start only with
everything it lent given back (`LendingInv`), and that a process which has read
the record and is not refused has read what the record says now (`StartInv`).
The last part rests on three different facts of the code: a process with a lock
of its own keeps every Owner out; a rotation begins only where the proxy is seen
running, so no start of it is under way; revocation waits for both control groups
to be empty. Serving whose lender is gone is the exception the property names.

**`OwnerInterfaceProofs`**, for any number of terminals, changes and restorations
(`OwnerAssumption`):

- `TerminalsInvariant`, `AlwaysToFinish` (`AlwaysFinishable`), `ReviewAlwaysHolds`;
- `ChangesReviewed`, the action property `ChangesAreReviewed`.

`OwnerInv` says that a terminal that changes the host has both locks and one that
keeps the store over the Owner's prompt still has it (`Excluded`), that what is
prepared fits the record it was reviewed on and that this is the installed one
once the terminal runs (`PreparedFor`), and that only a removal leaves the host
without the program, the executable first (`ProgramInv`).

**`ServingProofs`, limiter**, for any burst, refill time, delay, number of workers, sources
and table entries (`LimiterAssumption`, in particular that a source is idle for
at least as long as it takes to fill its bucket and the delay: `SOURCE_IDLE` is ten
minutes, a full bucket takes one):

- `RateIsBounded`: a source is let through no more often than an ideal bucket of
  the same rate, whose capacity is larger by what comes back within the delay;
- `NobodyGoesShort`: a source the table has room for is refused only when its ideal
  bucket holds no token, up to the delay;
- `TableIsBounded`, `TypeCorrect`.

The ideal buckets say nothing about the table by themselves; the inductive
invariant `IInv` puts them around each entry: an entry is worth its tokens plus
the time since its refill, one bucket is never below that worth and the other
never above, and a source that is not in the table has the larger one full. The
last part is where the assumption on idle sources is needed.

**`ServingProofs`, threads**, for any number of clients, workers and failures
(`ServingAssumption`: there is at least one worker, and `None` is no client):

- `ServingInvariant`, `StopAlwaysClean` (`StopIsClean`);
- `NothingWrittenAfterCancel`, the action property `NothingAfterCancel`.

`ServingInv` gives every accepted connection one owner, the accepting thread or a
live worker, and has it registered exactly while that one may use it
(`SocketInv`); everything registered after the cancellation is shut down, and what
is not registered is not written to (`AnswerInv`); the room for a worker that was
counted two steps before the spawn is still there, since only the accepting thread
adds one (`RoomInv`); how far the end has come (`EndInv`); and that a failure is
known to somebody who still has to report it until the code tells it (`CodeInv`).

Only model-checked are the liveness properties (`RecoveryCompletes`,
`TunnelRecoveryCompletes`, `RemovalCompletes`, `RotationEnds`, `ChangeEnds`, `CheckEnds`, `HandoffEnds`,
`ServingEnds`, `LockEnds`): fairness and `ENABLED` are outside what the prover
handles. `NextRotationIsOpen` is the property of the expected violation.

## Disagreements with the documentation

`PROJECT.json` quotes the lines.

| Run | What happens |
|---|---|
| `identity_again` | A first rotation records that it created the startup directory. The admission of the next derives the opposite from the directory being there (`host/identity.rs:517`), and `begin_record` refuses a startup that is not the recorded one: no further rotation is possible, though nothing is pending. |

The excepted states `FirewallStranded`, `ProofLost`, `AlreadyStarted`,
`FailureRetained`, `TryingForever` and `Overtaken` [above](#runs) are behaviours of
the same kind: the code refuses where its documentation says that recovery goes on.
They are part of the models and named in the properties. `Overtaken` is the
narrowest: `docs/adr/0016-v3-proxy-product-and-modules.md:132` asks to "Durably
select target before canonical publication", the code is exposed between the
`renameat` and the first `fsync` of `replace_subscription`, and only on a file
system that keeps the later of two renames in a directory and loses the earlier.

## Modelling assumptions

- Host files are durable as soon as they are written; only the record's files are
  exposed to a power loss. The file helpers synchronize file and directory before
  they return, so this leaves out only losses inside one helper call, which are
  covered by the partial results of a failed effect: whether a stage that was
  written and not synchronized is whole or torn is decided when the effect fails.
- In the journey modules a journey holds the whole-host lock from its first to its
  last step, so no other journey runs meanwhile, and a review and its execution
  are one step: `OwnerInterface` is where terminals interleave between review and
  execution, and its `ChangesAreReviewed` is what the others rely on.
- In `ClientIdentity` and `HttpSubscription` the authorization of a service start
  (ExecCondition) and the start it admits are one step; `RuntimeHandoff` has them
  apart.
- In `OwnerInterface` what journeys observe of the host holds, and another
  terminal's momentary hold of a lock during its review is a possible refusal.
- A token file that is replaced after its check and put back before the next one
  is not noticed by the code and not by the model.
- In `TunnelCheck` an exchange ends in one of the replies the code tells apart; in
  `SubscriptionServing` a request is answered or refused. The limiter's f64
  seconds are exact.
- `SourceStaysRevoked` relies on a unit that passed its condition reading the
  configuration that is on disk when it starts.
- A publication stage with complete bytes is treated as not yet published:
  clearing and publishing both accept it.
- Foreign files, foreign firewall rules, changes of the public address and
  edits by hand are outside the models; the code refuses when it sees them.
- `ShownAfterCommitment` is about the journey's own disclosure. View details shows
  the link of whatever record is visible: after an enablement that failed with
  its commitment visible and not durable, that is a link a power loss can still
  take back.
- Digests stand for the bytes they are taken of; credentials, links and
  identities are numbers that never repeat.

## Not modelled

`PROJECT.json` lists every component with its status. Left out for good: wire
encodings and schema history, artifact trust, release and package acquisition
(pure functions of bytes or bounded downloads without state of their own), terminal
wording, how the executing process is compared with authenticated bytes (that it
was admitted, and is refused once replaced, is in `OwnerInterface`), release
tooling. A package lock that apt or dpkg holds makes an effect fail, which the
models have. The Go implementation under
`internal/` is the earlier program; its update transaction has no counterpart in
the Rust code, which refuses every new Update.

## Plan

What would be next, in order of importance:

1. An abstract journey (intent, commitment, completion) that setup, tunnel setup,
   identity and subscription rotation all implement.
2. `OwnerInterface` composed with the effects of one journey, to check that a
   failed effect seen by a second terminal is reviewed as the first one left it.
