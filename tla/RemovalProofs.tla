--------------------------- MODULE RemovalProofs ---------------------------
(***************************************************************************)
(* Proofs about Removal, for any shapes of records and any number of       *)
(* failures: the invariant RemovalIsRecorded from the inductive invariant  *)
(* RemovalInv, and the action property RemovalIsForward.                   *)
(***************************************************************************)
EXTENDS Removal, TLAPS

-----------------------------------------------------------------------------
(* Authorities.                                                            *)

\* The product's own three checkpoints follow those of the proxy, if any.
LEMMA Bounds ==
    ASSUME NEW a \in Authorities
    PROVE  /\ Count(a) \in {0, 8} /\ Limit(a.proxy) = Count(a) + 3 /\ Limit(a.proxy) <= 11
           /\ a.cp \in 0 .. 11 /\ a.committed \in BOOLEAN
  BY DEF Authorities, Count, Limit

\* Recording a step changes the checkpoint only.
LEMMA NextCheckpointFacts ==
    ASSUME NEW a \in Authorities, a.cp < Limit(a.proxy)
    PROVE  LET n == NextCheckpoint(a)
           IN  /\ n \in Authorities /\ n.cp = a.cp + 1 /\ n.at = a.at /\ n.shape = a.shape
               /\ n.committed = a.committed /\ Count(n) = Count(a) /\ Limit(n.proxy) = Limit(a.proxy)
<1>1. a.cp + 1 \in 0 .. 11
  BY Bounds
<1> QED BY <1>1 DEF NextCheckpoint, Authorities, Count

\* A committed removal starts at its first checkpoint.
LEMMA CommitFacts ==
    ASSUME NEW a \in Authorities \cup {None}, a # None => a.cp = 0 /\ a.at = "current"
    PROVE  LET n == CommitRemoval(a)
           IN  n \in Authorities /\ n.cp = 0 /\ n.at = "current" /\ n.committed
<1>1. CASE a = None
  BY <1>1 DEF CommitRemoval, Authorities
<1>2. CASE a # None
  <2>1. CommitRemoval(a) = [a EXCEPT !.committed = TRUE]
    BY <1>2 DEF CommitRemoval
  <2> QED BY <1>2, <2>1 DEF Authorities
<1> QED BY <1>1, <1>2

\* The finalizer record carries the checkpoint of the record it replaces.
LEMMA MovedFacts ==
    ASSUME auth \in Authorities
    PROVE  /\ Moved \in Authorities /\ Moved.cp = auth.cp /\ Moved.committed = auth.committed
           /\ Moved.at = "finalizer" /\ Count(Moved) = Count(auth)
           /\ Limit(Moved.proxy) = Limit(auth.proxy)
  BY DEF Moved, Authorities, Count

\* A step takes resources from the host, or it leaves a package half purged on a
\* host that still has resources.
TakesAway == host' \subseteq host \/ (host # {} /\ host' \subseteq host \cup {"purging"})
USE DEF TakesAway

\* A shorter list of what is left makes no checkpoint untrue.
LEMMA TruthfulKept ==
    ASSUME NEW a, Truthful(a), TakesAway
    PROVE  Truthful(a)'
<1>1. \A i \in 1 .. Count(a) : ProxyEffects[i] # "purging"
  BY DEF Count, Limit, ProxyEffects
<1> QED BY <1>1 DEF Truthful

-----------------------------------------------------------------------------
(* What a kind of step has to show.                                        *)

\* A step that leaves the authorities alone and removes, or restores under an
\* authority that no power loss takes away.
LEMMA EffectKeeps ==
    ASSUME RemovalInv, UNCHANGED <<auth, exposed>>, TakesAway,
           TypeOK', ExecutableNeverAlone', None \in exposed => UNCHANGED <<files, statedir>>,
           pc' \notin {"idle", "sync"} =>
               /\ auth # None /\ auth.committed /\ None \notin exposed
               /\ pc' # "restore" => exposed = {auth},
           pc' = "sync" => auth # None /\ auth.committed,
           StepIsTrue'
    PROVE  RemovalInv'
<1> USE DEF RemovalInv, RemovalIsRecorded
<1>1. CheckpointsTellTheTruth'
  BY TruthfulKept DEF CheckpointsTellTheTruth
<1>2. AuthorityOutlivesResources'
  BY DEF AuthorityOutlivesResources
<1>3. UncommittedIsFresh'
  BY DEF UncommittedIsFresh
<1>4. WorksFromAuthority'
  BY DEF WorksFromAuthority
<1> QED BY <1>1, <1>2, <1>3, <1>4

\* A publication of a committed authority that tells the truth.
LEMMA PublicationKeeps ==
    ASSUME RemovalInv, NEW n \in Authorities, n.committed, n.cp <= Limit(n.proxy), Truthful(n),
           PublishSucceeds(n) \/ PublishFails(n), UNCHANGED <<host, files, statedir>>,
           session' \in BOOLEAN, aux' \in 1 .. Len(Auxiliary) + 1, faults' \in 0 .. MaxFaults,
           auth = None => files = Pair,
           \/ pc' = "idle"
           \/ PublishSucceeds(n) /\ pc' \in {"sync", "startup", "proxy", "lifecycle", "installed", "last"},
           StepIsTrue'
    PROVE  RemovalInv'
<1> USE DEF RemovalInv, RemovalIsRecorded
<1>0. n # None /\ n # Torn
  BY RemovalAssumption
<1>1. /\ auth' \in {auth, n} /\ auth' \in exposed'
      /\ \A a \in exposed' : a \in exposed \/ a = n
      /\ staged' \in {None, Torn, n, staged}
      /\ None \in exposed' => None \in exposed
      /\ auth' # auth /\ None \in exposed' => auth = None
      /\ pc' # "idle" => auth' = n /\ exposed' = {n}
      /\ UNCHANGED <<auth, exposed>> \/ auth' = n
  BY <1>0 DEF PublishSucceeds, PublishFails, TypeOK
<1>2. TypeOK'
  BY <1>1 DEF TypeOK
<1>3. CheckpointsTellTheTruth'
  <2>1. \A a \in exposed' \ {None} : Truthful(a)
    BY <1>1 DEF CheckpointsTellTheTruth
  <2> QED BY <2>1, TruthfulKept DEF CheckpointsTellTheTruth
<1>4. AuthorityOutlivesResources'
  BY <1>1 DEF AuthorityOutlivesResources
<1>5. UncommittedIsFresh'
  BY <1>1 DEF UncommittedIsFresh
<1>6. ExecutableNeverAlone'
  BY DEF ExecutableNeverAlone
<1>7. None \in exposed' /\ auth' # None => files' = Pair /\ statedir'
  <2> SUFFICES ASSUME None \in exposed', auth' # None PROVE files = Pair /\ statedir
    OBVIOUS
  <2>1. CASE auth' = auth
    BY <1>1, <2>1 DEF WorksFromAuthority
  <2>2. CASE auth' # auth
    BY <1>1, <2>2 DEF AuthorityOutlivesResources, Pair
  <2> QED BY <2>1, <2>2
<1>8. WorksFromAuthority'
  BY <1>0, <1>1, <1>7 DEF WorksFromAuthority
<1> QED BY <1>2, <1>3, <1>4, <1>5, <1>6, <1>8

-----------------------------------------------------------------------------
(* The Owner.                                                              *)

\* The auxiliary steps are eleven.
LEMMA AuxiliaryLength == Len(Auxiliary) = 11
  BY DEF Auxiliary

\* A removal starts from a host with its product and no removal recorded.
LEMMA RemovalInvInit == Init => RemovalInv
<1> SUFFICES ASSUME Init PROVE RemovalInv
  OBVIOUS
<1>1. auth \in Authorities \cup {None} /\ (auth # None => ~auth.committed /\ auth.cp = 0 /\ auth.at = "current")
  <2>1. CASE auth = None
    BY <2>1
  <2>2. ASSUME NEW s \in Shapes,
               auth = [shape |-> s, proxy |-> TRUE, committed |-> FALSE, cp |-> 0, at |-> "current"]
        PROVE  auth \in Authorities /\ ~auth.committed /\ auth.cp = 0 /\ auth.at = "current"
    BY <2>2 DEF Authorities
  <2> QED BY <2>1, <2>2 DEF Init
<1>2. host \in SUBSET Resources
  <2>1. \A s \in Shapes : AuxiliaryResources(s) \subseteq AuxiliaryResources(Fields)
    <3>1. AuxiliaryResources(Fields) =
              {"tunnel", "target", "candidate", "serving", "firewall", "renewal", "retired", "startup"}
      BY DEF AuxiliaryResources, Fields
    <3> QED BY <3>1 DEF AuxiliaryResources
  <2> QED BY <2>1 DEF Init, Resources, ProxyResources
<1>3. 0 <= Limit(auth.proxy)
  BY DEF Limit
<1>4. TypeOK
  <2>1. staged = None /\ exposed = {auth} /\ files = Pair /\ statedir = TRUE /\ session = FALSE
        /\ pc = "idle" /\ aux = 1 /\ faults = 0
    BY DEF Init
  <2>2. 1 \in 1 .. Len(Auxiliary) + 1
    BY AuxiliaryLength
  <2>3. \A a \in exposed \ {None} : a.cp <= Limit(a.proxy)
    BY <1>1, <1>3, <2>1
  <2>4. exposed \in SUBSET (Authorities \cup {None}) /\ auth \in exposed
    BY <1>1, <2>1
  <2>5. faults \in 0 .. MaxFaults
    BY <2>1, RemovalAssumption
  <2> QED BY <1>1, <1>2, <2>1, <2>2, <2>3, <2>4, <2>5 DEF TypeOK
<1>5. AuthorityOutlivesResources /\ ExecutableNeverAlone
  <2>1. None \in exposed => host = {}
    <3>1. \/ auth = None /\ host = {}
          \/ \E s \in Shapes :
                auth = [shape |-> s, proxy |-> TRUE, committed |-> FALSE, cp |-> 0, at |-> "current"]
      BY DEF Init
    <3>2. ASSUME NEW s \in Shapes,
                 auth = [shape |-> s, proxy |-> TRUE, committed |-> FALSE, cp |-> 0, at |-> "current"]
          PROVE  auth \in Authorities
      BY <3>2 DEF Authorities
    <3>3. auth = None => host = {}
      BY <3>1, <3>2, RemovalAssumption
    <3> QED BY <3>3 DEF Init
  <2>2. files = Pair /\ statedir
    BY DEF Init
  <2> QED BY <2>1, <2>2 DEF AuthorityOutlivesResources, ExecutableNeverAlone, Pair
<1>6. CheckpointsTellTheTruth /\ UncommittedIsFresh
  BY <1>1 DEF Init, CheckpointsTellTheTruth, Truthful, UncommittedIsFresh
<1>7. WorksFromAuthority /\ StepIsTrue
  BY DEF Init, WorksFromAuthority, StepIsTrue
<1> QED BY <1>4, <1>5, <1>6, <1>7 DEF RemovalInv, RemovalIsRecorded

\* Starting the product, Finish, a cancelled removal and a kill, and a fault
\* that leaves every authority as it is, change nothing the invariant is about.
LEMMA FaultTyped == ASSUME TypeOK, Fault PROVE faults' \in 0 .. MaxFaults
  BY RemovalAssumption DEF TypeOK, Fault

\* A finish that stops promises nothing about where it was.
LEMMA StopFacts ==
    ASSUME Stop
    PROVE  pc' = "idle" /\ aux' \in 1 .. Len(Auxiliary) + 1 /\ StepIsTrue'
  BY AuxiliaryLength DEF Stop, StepIsTrue

\* One lemma per action.  The Owner's own actions and a kill leave the host alone.
LEMMA OwnerKeeps ==
    ASSUME RemovalInv, StartSession \/ Finish \/ Cancel \/ Kill PROVE RemovalInv'
<1> USE DEF RemovalInv, RemovalIsRecorded
<1>1. /\ UNCHANGED <<auth, staged, exposed, host, files, statedir>>
      /\ session' \in BOOLEAN
  BY DEF StartSession, Finish, Cancel, Kill, TypeOK
<1>2. /\ aux' \in 1 .. Len(Auxiliary) + 1 /\ faults' \in 0 .. MaxFaults
      /\ pc' \in {"idle", "sync"}
      /\ pc' = "sync" => auth # None /\ auth.committed
  BY FaultTyped, StopFacts DEF StartSession, Finish, Cancel, Kill, TypeOK, Selected
<1>3. TypeOK' /\ StepIsTrue' /\ ExecutableNeverAlone'
  BY <1>1, <1>2 DEF TypeOK, StepIsTrue, ExecutableNeverAlone
<1> QED BY <1>1, <1>2, <1>3, EffectKeeps

\* The commitment counts nothing as done.
LEMMA CompleteKeeps == ASSUME RemovalInv, Complete PROVE RemovalInv'
<1> DEFINE n == CommitRemoval(auth)
<1> USE DEF RemovalInv, RemovalIsRecorded
<1>1. n \in Authorities /\ n.cp = 0 /\ n.at = "current" /\ n.committed
  <2>1. auth \in Authorities \cup {None} /\ (auth # None => auth.cp = 0 /\ auth.at = "current")
    BY DEF Complete, TypeOK, UncommittedIsFresh
  <2> QED BY <2>1, CommitFacts
<1>2. Truthful(n) /\ n.cp <= Limit(n.proxy)
  BY <1>1, Bounds DEF Truthful
<1>3. \/ PublishSucceeds(n) /\ pc' = "sync" /\ UNCHANGED <<aux, faults>>
      \/ Fault /\ PublishFails(n) /\ Stop
  BY DEF Complete
<1>4. UNCHANGED <<host, files, statedir, session>> /\ files = Pair
  BY DEF Complete
<1> HIDE DEF n
<1>5. aux' \in 1 .. Len(Auxiliary) + 1 /\ faults' \in 0 .. MaxFaults /\ session' \in BOOLEAN
  BY <1>3, <1>4, StopFacts, FaultTyped DEF TypeOK
<1>6. StepIsTrue' /\ pc' \in {"idle", "sync"} /\ (pc' = "sync" => PublishSucceeds(n))
  BY <1>3, StopFacts DEF StepIsTrue
<1> QED BY <1>1, <1>2, <1>3, <1>4, <1>5, <1>6, PublicationKeeps

-----------------------------------------------------------------------------
(* finish.                                                                 *)

\* One of the exposed authorities becomes the only one.
LEMMA SettledKeeps ==
    ASSUME RemovalInv, auth' \in exposed, exposed' = {auth'}, UNCHANGED <<host, files, statedir>>,
           staged' \in Authorities \cup {None, Torn}, session' \in BOOLEAN,
           aux' \in 1 .. Len(Auxiliary) + 1, faults' \in 0 .. MaxFaults,
           pc' = "idle" \/ (pc' = "aux" /\ auth' # None /\ auth'.committed)
    PROVE  RemovalInv'
<1> USE DEF RemovalInv, RemovalIsRecorded
<1>1. TypeOK'
  BY DEF TypeOK
<1>2. CheckpointsTellTheTruth'
  <2>1. \A a \in exposed' \ {None} : Truthful(a)
    BY DEF CheckpointsTellTheTruth
  <2> QED BY <2>1, TruthfulKept DEF CheckpointsTellTheTruth
<1>3. AuthorityOutlivesResources' /\ ExecutableNeverAlone'
  BY DEF AuthorityOutlivesResources, ExecutableNeverAlone
<1>4. UncommittedIsFresh'
  BY DEF UncommittedIsFresh
<1>5. WorksFromAuthority' /\ StepIsTrue'
  BY DEF WorksFromAuthority, StepIsTrue
<1> QED BY <1>1, <1>2, <1>3, <1>4, <1>5

LEMMA SynchronizeKeeps == ASSUME RemovalInv, Synchronize PROVE RemovalInv'
<1> USE DEF RemovalInv, RemovalIsRecorded
<1>1. UNCHANGED <<auth, staged, host, files, statedir, session>> /\ auth # None /\ auth.committed
  BY DEF Synchronize, WorksFromAuthority
<1>2. CASE exposed' = {auth} /\ pc' = "aux" /\ UNCHANGED <<aux, faults>>
  BY <1>1, <1>2, SettledKeeps DEF TypeOK
<1>3. CASE Fault /\ Stop /\ UNCHANGED exposed
  <2>1. TypeOK' /\ StepIsTrue' /\ ExecutableNeverAlone' /\ pc' = "idle"
    BY <1>1, <1>3, FaultTyped, StopFacts DEF TypeOK, ExecutableNeverAlone
  <2> QED BY <1>1, <1>3, <2>1, EffectKeeps
<1> QED BY <1>2, <1>3 DEF Synchronize

\* What every step after the synchronization may rely on.
LEMMA AtWork ==
    ASSUME RemovalInv, pc \notin {"idle", "sync", "restore"}
    PROVE  /\ auth \in Authorities /\ auth # None /\ auth.committed
           /\ exposed = {auth} /\ None \notin exposed /\ auth.cp <= Limit(auth.proxy)
           /\ Truthful(auth)
  BY DEF RemovalInv, RemovalIsRecorded, WorksFromAuthority, TypeOK, CheckpointsTellTheTruth

\* A step that stops, or goes on at the same authority: only the host, the
\* product's files and the place in finish change.
LEMMA WorkKeeps ==
    ASSUME RemovalInv, pc \notin {"idle", "sync", "restore"},
           UNCHANGED <<auth, staged, exposed, session>>, TakesAway, files' \in SUBSET Pair,
           statedir' \in BOOLEAN, aux' \in 1 .. Len(Auxiliary) + 1, faults' \in 0 .. MaxFaults,
           pc' \in {"idle", "aux", "startup", "proxy", "checkpoint", "lifecycle", "executable",
                    "installed", "last", "move", "rmdir", "unlink"},
           ExecutableNeverAlone', StepIsTrue'
    PROVE  RemovalInv'
<1> USE DEF RemovalInv, RemovalIsRecorded
<1>1. TypeOK'
  <2>1. "purging" \in Resources
    BY DEF Resources
  <2> QED BY <2>1 DEF TypeOK
<1>2. auth # None /\ auth.committed /\ exposed = {auth} /\ None \notin exposed
  BY AtWork
<1> QED BY <1>1, <1>2, EffectKeeps

\* An effect, done, failed halfway or refused, brings no resource back.
LEMMA PerformFacts ==
    ASSUME RemovalInv, NEW sees, NEW drops, NEW admitted,
           Perform(sees, drops, admitted) \/ PerformFails(sees, drops, admitted)
    PROVE  /\ TakesAway /\ faults' \in 0 .. MaxFaults
           /\ UNCHANGED <<auth, staged, exposed, files, statedir, session>>
           /\ Perform(sees, drops, admitted) => sees \cap host' = {} \/ host' = host \ drops
           /\ PerformFails(sees, drops, admitted) => Stop
<1>1. faults' \in 0 .. MaxFaults
  BY FaultTyped DEF Perform, PerformFails, RemovalInv, RemovalIsRecorded, TypeOK
<1> QED BY <1>1 DEF Perform, PerformFails

LEMMA AuxiliaryKeeps == ASSUME RemovalInv, AuxiliaryEffect \/ AuxiliarySkip PROVE RemovalInv'
<1> USE DEF RemovalInv, RemovalIsRecorded
<1>1. pc = "aux" /\ auth \in Authorities
  BY AtWork DEF AuxiliaryEffect, AuxiliarySkip
<1>2. /\ UNCHANGED <<auth, staged, exposed, session, files, statedir>>
      /\ TakesAway /\ faults' \in 0 .. MaxFaults
  BY PerformFacts DEF AuxiliaryEffect, AuxiliarySkip, TypeOK
<1>3. /\ aux' \in 1 .. Len(Auxiliary) + 1
      /\ pc' \in {"idle", "aux", AfterAuxiliary}
  BY <1>1, PerformFacts, StopFacts, AuxiliaryLength DEF AuxiliaryEffect, AuxiliarySkip, TypeOK
<1>4. AfterAuxiliary \in {"startup", "proxy", "lifecycle"}
  BY DEF AfterAuxiliary
<1>5. StepIsTrue'
  <2>1. pc' = AfterAuxiliary => (pc' = "proxy" => auth.cp <= Count(auth))
                                /\ (pc' = "lifecycle" => auth.cp > Count(auth))
    BY <1>1, Bounds DEF AfterAuxiliary
  <2> QED BY <1>2, <1>3, <1>4, <2>1 DEF StepIsTrue
<1>6. ExecutableNeverAlone' /\ files' \in SUBSET Pair /\ statedir' \in BOOLEAN
  BY <1>2 DEF ExecutableNeverAlone, TypeOK
<1> QED BY <1>1, <1>2, <1>3, <1>4, <1>5, <1>6, WorkKeeps

LEMMA StartupKeeps == ASSUME RemovalInv, StartupEffect PROVE RemovalInv'
<1> USE DEF RemovalInv, RemovalIsRecorded
<1>1. pc = "startup" /\ auth \in Authorities
  BY AtWork DEF StartupEffect
<1>2. /\ UNCHANGED <<auth, staged, exposed, session, files, statedir>>
      /\ TakesAway /\ faults' \in 0 .. MaxFaults
  BY PerformFacts DEF StartupEffect
<1>3. /\ aux' \in 1 .. Len(Auxiliary) + 1
      /\ pc' \in {"idle", IF auth.cp <= Count(auth) THEN "proxy" ELSE "lifecycle"}
  BY PerformFacts, StopFacts DEF StartupEffect, TypeOK
<1>4. StepIsTrue'
  BY <1>1, <1>2, <1>3, Bounds DEF StepIsTrue
<1>5. ExecutableNeverAlone' /\ files' \in SUBSET Pair /\ statedir' \in BOOLEAN
  BY <1>2 DEF ExecutableNeverAlone, TypeOK
<1> QED BY <1>1, <1>2, <1>3, <1>4, <1>5, WorkKeeps

\* A proxy effect that did not fail leaves its resource absent, which is what
\* the checkpoint after it records.
LEMMA ProxyEffectKeeps == ASSUME RemovalInv, ProxyEffect PROVE RemovalInv'
<1> DEFINE e == ProxyEffects[auth.cp + 1]
<1> USE DEF RemovalInv, RemovalIsRecorded
<1>1. pc = "proxy" /\ auth \in Authorities /\ auth.cp < Count(auth)
  BY AtWork DEF ProxyEffect
<1>2. \/ Perform({e}, {e}, TRUE) /\ pc' = "checkpoint" /\ UNCHANGED aux
      \/ PerformFails({e}, {e}, TRUE)
  BY DEF ProxyEffect
<1> HIDE DEF e
<1>3. /\ UNCHANGED <<auth, staged, exposed, session, files, statedir>>
      /\ TakesAway /\ faults' \in 0 .. MaxFaults
      /\ aux' \in 1 .. Len(Auxiliary) + 1
      /\ pc' \in {"idle", "checkpoint"} /\ (pc' = "checkpoint" => e \notin host')
  <2>1. /\ UNCHANGED <<auth, staged, exposed, session, files, statedir>>
        /\ TakesAway /\ faults' \in 0 .. MaxFaults
        /\ Perform({e}, {e}, TRUE) => {e} \cap host' = {} \/ host' = host \ {e}
        /\ PerformFails({e}, {e}, TRUE) => Stop
    BY <1>2, PerformFacts
  <2>2. CASE Perform({e}, {e}, TRUE) /\ pc' = "checkpoint" /\ UNCHANGED aux
    <3>1. e \notin host'
      BY <2>1, <2>2
    <3> QED BY <2>1, <2>2, <3>1 DEF TypeOK
  <2>3. CASE PerformFails({e}, {e}, TRUE)
    BY <2>1, <2>3, StopFacts
  <2> QED BY <1>2, <2>2, <2>3
<1>4. StepIsTrue'
  <2>1. auth.cp < Limit(auth.proxy) /\ auth.cp # Count(auth) /\ auth.cp # Count(auth) + 1
    BY <1>1, Bounds
  <2>2. ProxyEffects[auth.cp + 1]' = e
    BY <1>3 DEF e, ProxyEffects
  <2> QED BY <1>3, <2>1, <2>2 DEF StepIsTrue
<1>5. ExecutableNeverAlone' /\ files' \in SUBSET Pair /\ statedir' \in BOOLEAN
  BY <1>3 DEF ExecutableNeverAlone, TypeOK
<1> QED BY <1>1, <1>3, <1>4, <1>5, WorkKeeps

LEMMA ProxyAbsentKeeps == ASSUME RemovalInv, ProxyAbsent PROVE RemovalInv'
<1> USE DEF RemovalInv, RemovalIsRecorded
<1>1. pc = "proxy" /\ auth \in Authorities /\ auth.cp = Count(auth)
  BY AtWork DEF ProxyAbsent
<1>2. /\ UNCHANGED <<auth, staged, exposed, session, host, files, statedir, faults>>
      /\ aux' \in 1 .. Len(Auxiliary) + 1
      /\ pc' \in {"idle", "checkpoint"} /\ (pc' = "checkpoint" => host = {})
  BY StopFacts DEF ProxyAbsent, TypeOK
<1>3. StepIsTrue'
  <2>1. auth.cp < Limit(auth.proxy) /\ ~(auth.cp < Count(auth)) /\ auth.cp # Count(auth) + 1
    BY <1>1, Bounds
  <2> QED BY <1>2, <2>1 DEF StepIsTrue
<1>4. /\ ExecutableNeverAlone' /\ files' \in SUBSET Pair /\ statedir' \in BOOLEAN
      /\ faults' \in 0 .. MaxFaults /\ TakesAway
  BY <1>2 DEF ExecutableNeverAlone, TypeOK
<1> QED BY <1>1, <1>2, <1>3, <1>4, WorkKeeps

LEMMA LifecycleKeeps == ASSUME RemovalInv, Lifecycle PROVE RemovalInv'
<1> USE DEF RemovalInv, RemovalIsRecorded
<1>1. pc = "lifecycle" /\ auth.cp > Count(auth)
  BY DEF Lifecycle, StepIsTrue
<1>2. /\ UNCHANGED <<auth, staged, exposed, session, host, files, statedir, faults>>
      /\ aux' \in 1 .. Len(Auxiliary) + 1
      /\ pc' \in {"idle", "executable"}
  BY StopFacts DEF Lifecycle, TypeOK
<1>3. StepIsTrue'
  BY <1>1, <1>2 DEF StepIsTrue
<1>4. /\ ExecutableNeverAlone' /\ files' \in SUBSET Pair /\ statedir' \in BOOLEAN
      /\ faults' \in 0 .. MaxFaults /\ TakesAway
  BY <1>2 DEF ExecutableNeverAlone, TypeOK
<1> QED BY <1>1, <1>2, <1>3, <1>4, WorkKeeps

\* The checkpoint counts one more step, which StepIsTrue knows to be done.
LEMMA CheckpointKeeps == ASSUME RemovalInv, Checkpoint PROVE RemovalInv'
<1> DEFINE n == NextCheckpoint(auth)
<1> USE DEF RemovalInv, RemovalIsRecorded
<1>1. /\ pc = "checkpoint" /\ auth \in Authorities /\ auth.committed /\ auth # None
      /\ Truthful(auth) /\ auth.cp < Limit(auth.proxy)
  BY AtWork DEF Checkpoint, StepIsTrue
<1>2. /\ n \in Authorities /\ n.cp = auth.cp + 1 /\ n.at = auth.at /\ n.shape = auth.shape
      /\ n.committed /\ Count(n) = Count(auth) /\ Limit(n.proxy) = Limit(auth.proxy)
  BY <1>1, NextCheckpointFacts
<1>3. \/ PublishSucceeds(n) /\ pc' = AfterCheckpoint(auth') /\ UNCHANGED <<aux, faults>>
      \/ Fault /\ PublishFails(n) /\ Stop
  BY DEF Checkpoint
<1>4. UNCHANGED <<host, files, statedir, session>>
  BY DEF Checkpoint
<1> HIDE DEF n
<1>5. /\ Count(auth) \in {0, 8} /\ Limit(auth.proxy) = Count(auth) + 3 /\ auth.cp \in 0 .. 11
  BY <1>1, Bounds
<1>6. Truthful(n)
  <2>1. ASSUME NEW i \in 1 .. Count(n), i <= n.cp PROVE ProxyEffects[i] \notin host
    <3>1. CASE i <= auth.cp
      BY <1>1, <1>2, <2>1, <3>1 DEF Truthful
    <3>2. CASE i = auth.cp + 1
      BY <1>1, <1>2, <1>5, <2>1, <3>2 DEF StepIsTrue
    <3> QED BY <1>2, <1>5, <2>1, <3>1, <3>2
  <2>2. n.cp > Count(n) => host = {}
    BY <1>1, <1>2, <1>5 DEF Truthful, StepIsTrue
  <2>3. n.at = "finalizer" => n.cp = Limit(n.proxy)
    BY <1>1, <1>2, <1>5 DEF Truthful
  <2> QED BY <2>1, <2>2, <2>3 DEF Truthful
<1>7. aux' \in 1 .. Len(Auxiliary) + 1 /\ faults' \in 0 .. MaxFaults /\ session' \in BOOLEAN
  BY <1>3, <1>4, StopFacts, FaultTyped DEF TypeOK
<1>8. n.cp <= Limit(n.proxy)
  BY <1>1, <1>2, <1>5
<1>9. StepIsTrue' /\ (pc' = "idle" \/ (PublishSucceeds(n) /\ pc' \in {"startup", "proxy", "lifecycle", "installed", "last"}))
  <2>1. CASE PublishSucceeds(n) /\ pc' = AfterCheckpoint(auth')
    <3>1. auth' = n
      BY <2>1 DEF PublishSucceeds
    <3>2. /\ pc' \in {"startup", "proxy", "lifecycle", "installed", "last"}
          /\ pc' = "proxy" => n.cp <= Count(n)
          /\ pc' = "lifecycle" => n.cp = Count(n) + 1
          /\ pc' = "installed" => n.cp = Count(n) + 2
          /\ pc' = "last" => n.cp > Count(n) + 2
      BY <2>1, <3>1, <1>2, <1>5 DEF AfterCheckpoint
    <3>3. pc' = "installed" => "executable" \notin files
      BY <3>2, <1>1, <1>2, <1>5 DEF StepIsTrue
    <3> QED BY <2>1, <3>1, <3>2, <3>3, <1>1, <1>2, <1>4, <1>5 DEF StepIsTrue
  <2>2. CASE Stop
    BY <2>2, StopFacts
  <2> QED BY <1>3, <2>1, <2>2
<1> QED BY <1>1, <1>2, <1>3, <1>4, <1>6, <1>7, <1>8, <1>9, PublicationKeeps

\* The executable goes first; once it is gone the Installed Record may go.
LEMMA RemoveExecutableKeeps == ASSUME RemovalInv, RemoveExecutable PROVE RemovalInv'
<1> USE DEF RemovalInv, RemovalIsRecorded
<1>1. pc = "executable" /\ auth \in Authorities /\ auth.cp > Count(auth)
  BY AtWork DEF RemoveExecutable, StepIsTrue
<1>2. /\ UNCHANGED <<auth, staged, exposed, session, host, statedir>>
      /\ files' \in {files, files \ {"executable"}}
      /\ \/ Stop /\ Fault
         \/ /\ files' = files \ {"executable"} /\ UNCHANGED <<aux, faults>>
            /\ pc' = IF auth.cp <= Count(auth) + 1 THEN "checkpoint" ELSE "installed"
  BY DEF RemoveExecutable, RemoveMember
<1>3. aux' \in 1 .. Len(Auxiliary) + 1 /\ faults' \in 0 .. MaxFaults /\ pc' \in {"idle", "checkpoint", "installed"}
  BY <1>2, StopFacts, FaultTyped DEF TypeOK
<1>4. StepIsTrue'
  <2>1. CASE Stop
    BY <2>1, StopFacts
  <2>2. CASE ~Stop
    <3>1. /\ auth.cp <= Count(auth) + 1 => auth.cp = Count(auth) + 1 /\ auth.cp < Limit(auth.proxy)
          /\ ~(auth.cp <= Count(auth) + 1) => auth.cp > Count(auth) + 1
          /\ ~(auth.cp < Count(auth)) /\ auth.cp # Count(auth)
      BY <1>1, Bounds
    <3>2. "executable" \notin files'
      BY <1>2, <2>2
    <3> QED BY <1>2, <2>2, <3>1, <3>2 DEF StepIsTrue
  <2> QED BY <2>1, <2>2
<1>5. /\ ExecutableNeverAlone' /\ files' \in SUBSET Pair /\ statedir' \in BOOLEAN
  BY <1>2 DEF ExecutableNeverAlone, TypeOK
<1> QED BY <1>1, <1>2, <1>3, <1>4, <1>5, WorkKeeps

LEMMA RemoveInstalledRecordKeeps == ASSUME RemovalInv, RemoveInstalledRecord PROVE RemovalInv'
<1> USE DEF RemovalInv, RemovalIsRecorded
<1>1. /\ pc = "installed" /\ auth \in Authorities /\ auth.cp > Count(auth) + 1
      /\ "executable" \notin files /\ auth.cp <= Limit(auth.proxy)
  BY AtWork DEF RemoveInstalledRecord, StepIsTrue
<1>2. /\ UNCHANGED <<auth, staged, exposed, session, host, statedir>>
      /\ files' \in {files, files \ {"installed"}}
      /\ \/ Stop /\ Fault
         \/ /\ UNCHANGED <<aux, faults>>
            /\ pc' = IF auth.cp <= Count(auth) + 2 THEN "checkpoint" ELSE "last"
  BY DEF RemoveInstalledRecord, RemoveMember
<1>3. aux' \in 1 .. Len(Auxiliary) + 1 /\ faults' \in 0 .. MaxFaults /\ pc' \in {"idle", "checkpoint", "last"}
  BY <1>2, StopFacts, FaultTyped DEF TypeOK
<1>4. StepIsTrue'
  <2>1. CASE Stop
    BY <2>1, StopFacts
  <2>2. CASE ~Stop
    <3>1. /\ auth.cp <= Count(auth) + 2 => auth.cp < Limit(auth.proxy)
          /\ ~(auth.cp <= Count(auth) + 2) => auth.cp = Limit(auth.proxy)
          /\ ~(auth.cp < Count(auth)) /\ auth.cp # Count(auth) /\ auth.cp # Count(auth) + 1
      BY <1>1, Bounds
    <3> QED BY <1>2, <2>2, <3>1 DEF StepIsTrue
  <2> QED BY <2>1, <2>2
<1>5. /\ ExecutableNeverAlone' /\ files' \in SUBSET Pair /\ statedir' \in BOOLEAN
  BY <1>1, <1>2 DEF ExecutableNeverAlone, TypeOK
<1> QED BY <1>1, <1>2, <1>3, <1>4, <1>5, WorkKeeps

LEMMA LastInspectionKeeps == ASSUME RemovalInv, LastInspection PROVE RemovalInv'
<1> USE DEF RemovalInv, RemovalIsRecorded
<1>1. pc = "last" /\ auth.cp = Limit(auth.proxy)
  BY DEF LastInspection, StepIsTrue
<1>2. /\ UNCHANGED <<auth, staged, exposed, session, host, files, statedir, faults>>
      /\ aux' \in 1 .. Len(Auxiliary) + 1
      /\ pc' \in {"idle", "move", "rmdir"} /\ (pc' # "idle" => host = {} /\ files = {})
  BY StopFacts DEF LastInspection, TypeOK
<1>3. StepIsTrue'
  BY <1>1, <1>2 DEF StepIsTrue
<1>4. /\ ExecutableNeverAlone' /\ files' \in SUBSET Pair /\ statedir' \in BOOLEAN
      /\ faults' \in 0 .. MaxFaults /\ TakesAway
  BY <1>2 DEF ExecutableNeverAlone, TypeOK
<1> QED BY <1>1, <1>2, <1>3, <1>4, WorkKeeps

LEMMA RemoveDirectoryKeeps == ASSUME RemovalInv, RemoveDirectory PROVE RemovalInv'
<1> USE DEF RemovalInv, RemovalIsRecorded
<1>1. pc = "rmdir" /\ auth.cp = Limit(auth.proxy) /\ host = {} /\ files = {}
  BY DEF RemoveDirectory, StepIsTrue
<1>2. /\ UNCHANGED <<auth, staged, exposed, session, host, files>> /\ statedir' \in BOOLEAN
      /\ aux' \in 1 .. Len(Auxiliary) + 1 /\ faults' \in 0 .. MaxFaults
      /\ pc' \in {"idle", "unlink"} /\ (pc' # "idle" => ~statedir')
  BY StopFacts, FaultTyped DEF RemoveDirectory, TypeOK
<1>3. StepIsTrue'
  BY <1>1, <1>2 DEF StepIsTrue
<1>4. ExecutableNeverAlone' /\ files' \in SUBSET Pair /\ TakesAway
  BY <1>2 DEF ExecutableNeverAlone, TypeOK
<1> QED BY <1>1, <1>2, <1>3, <1>4, WorkKeeps

\* The move changes where the authority is and nothing it says.
LEMMA MoveRecordKeeps == ASSUME RemovalInv, MoveRecord PROVE RemovalInv'
<1> USE DEF RemovalInv, RemovalIsRecorded
<1>1. /\ pc = "move" /\ auth \in Authorities /\ auth.committed /\ auth # None
      /\ Truthful(auth) /\ auth.cp = Limit(auth.proxy) /\ host = {} /\ files = {}
  BY AtWork DEF MoveRecord, StepIsTrue
<1>2. /\ Moved \in Authorities /\ Moved.cp = auth.cp /\ Moved.committed
      /\ Limit(Moved.proxy) = Limit(auth.proxy) /\ Moved # None
  BY <1>1, MovedFacts, RemovalAssumption
<1>3. Truthful(Moved)
  BY <1>1, <1>2 DEF Truthful
<1>4. /\ UNCHANGED <<host, files, statedir, session>>
      /\ auth' \in {auth, Moved} /\ exposed' \subseteq {auth, Moved} /\ auth' \in exposed'
      /\ staged' \in {staged, None}
      /\ pc' = "idle" \/ (pc' = "rmdir" /\ auth' = Moved /\ exposed' = {Moved})
      /\ aux' \in 1 .. Len(Auxiliary) + 1 /\ faults' \in 0 .. MaxFaults
  <2>1. UNCHANGED <<host, files, statedir, session>>
    BY DEF MoveRecord
  <2>2. CASE /\ staged' = None /\ auth' = Moved /\ exposed' = {Moved} /\ pc' = "rmdir"
             /\ UNCHANGED <<aux, faults>>
    BY <2>1, <2>2 DEF TypeOK
  <2>3. CASE /\ Fault /\ Stop /\ exposed' = {auth, auth'}
             /\ \/ auth' = auth /\ staged' \in {staged, None}
                \/ auth' = Moved /\ staged' = None
    BY <2>1, <2>3, StopFacts, FaultTyped
  <2>4. CASE Stop /\ UNCHANGED <<auth, staged, exposed, faults>>
    BY <2>1, <2>4, <1>1, AtWork, StopFacts DEF TypeOK
  <2> QED BY <2>2, <2>3, <2>4 DEF MoveRecord
<1>5. TypeOK'
  <2>1. \A a \in exposed' \ {None} : a.cp <= Limit(a.proxy)
    BY <1>1, <1>2, <1>4, Bounds
  <2> QED BY <1>1, <1>2, <1>4, <2>1 DEF TypeOK
<1>6. CheckpointsTellTheTruth'
  <2>1. \A a \in exposed' : Truthful(a)
    BY <1>1, <1>3, <1>4
  <2> QED BY <1>4, <2>1, TruthfulKept DEF CheckpointsTellTheTruth
<1>7. None \notin exposed' /\ \A a \in exposed' : a.committed
  BY <1>1, <1>2, <1>4
<1>8. AuthorityOutlivesResources' /\ UncommittedIsFresh' /\ ExecutableNeverAlone'
  BY <1>4, <1>7 DEF AuthorityOutlivesResources, UncommittedIsFresh, ExecutableNeverAlone
<1>9. WorksFromAuthority' /\ StepIsTrue'
  BY <1>1, <1>2, <1>4, <1>7 DEF WorksFromAuthority, StepIsTrue
<1> QED BY <1>5, <1>6, <1>8, <1>9

\* The last authority goes when nothing is left that it could own.
LEMMA UnlinkFinalizerKeeps == ASSUME RemovalInv, UnlinkFinalizer PROVE RemovalInv'
<1> USE DEF RemovalInv, RemovalIsRecorded
<1>1. /\ pc = "unlink" /\ auth \in Authorities /\ auth # None /\ auth.committed /\ Truthful(auth)
      /\ auth.cp <= Limit(auth.proxy) /\ host = {} /\ files = {} /\ ~statedir
  BY AtWork DEF UnlinkFinalizer, StepIsTrue
<1>2. /\ UNCHANGED <<staged, host, files, statedir, session>>
      /\ auth' \in {auth, None} /\ exposed' \subseteq {auth, None} /\ auth' \in exposed'
      /\ None \in exposed' => auth' = None
      /\ faults' \in 0 .. MaxFaults
  BY <1>1, FaultTyped DEF UnlinkFinalizer, TypeOK
<1>3. pc' = "idle" /\ aux' \in 1 .. Len(Auxiliary) + 1 /\ StepIsTrue'
  BY StopFacts DEF UnlinkFinalizer
<1>4. TypeOK'
  BY <1>1, <1>2, <1>3 DEF TypeOK
<1>5. CheckpointsTellTheTruth'
  <2>1. \A a \in exposed' \ {None} : Truthful(a)
    BY <1>1, <1>2
  <2> QED BY <1>2, <2>1, TruthfulKept DEF CheckpointsTellTheTruth
<1>6. AuthorityOutlivesResources' /\ UncommittedIsFresh' /\ ExecutableNeverAlone'
  BY <1>1, <1>2 DEF AuthorityOutlivesResources, UncommittedIsFresh, ExecutableNeverAlone
<1>7. WorksFromAuthority'
  BY <1>2, <1>3 DEF WorksFromAuthority
<1> QED BY <1>3, <1>4, <1>5, <1>6, <1>7

-----------------------------------------------------------------------------
(* Restoration and interruptions.                                          *)

\* A product that is partly gone has an authority that no power loss takes away.
LEMMA RestoreKeeps == ASSUME RemovalInv, Restore \/ RestoreStep PROVE RemovalInv'
<1> USE DEF RemovalInv, RemovalIsRecorded
<1>1. auth # None /\ auth.committed /\ None \notin exposed
  BY DEF Restore, RestoreStep, RestoreInstalled, RestoreExecutable, Selected, WorksFromAuthority
<1>2. /\ UNCHANGED <<auth, staged, exposed, host, aux, faults>>
      /\ files' \in SUBSET Pair /\ statedir' \in BOOLEAN /\ session' \in BOOLEAN
      /\ pc' \in {"restore", "idle"} /\ ExecutableNeverAlone'
  BY DEF Restore, RestoreStep, RestoreInstalled, RestoreExecutable, TypeOK, ExecutableNeverAlone, Pair
<1>3. TypeOK' /\ StepIsTrue'
  BY <1>2 DEF TypeOK, StepIsTrue
<1> QED BY <1>1, <1>2, <1>3, EffectKeeps

LEMMA PowerLossKeeps == ASSUME RemovalInv, PowerLoss PROVE RemovalInv'
<1> USE DEF RemovalInv, RemovalIsRecorded
<1>1. /\ auth' \in exposed /\ exposed' = {auth'} /\ UNCHANGED <<host, files, statedir>>
      /\ session' = FALSE /\ Fault /\ Stop
  BY DEF PowerLoss
<1>2. staged' \in Authorities \cup {None, Torn}
  BY DEF PowerLoss, TypeOK
<1>3. pc' = "idle" /\ aux' \in 1 .. Len(Auxiliary) + 1 /\ faults' \in 0 .. MaxFaults
  BY <1>1, StopFacts, FaultTyped
<1> QED BY <1>1, <1>2, <1>3, SettledKeeps

\* Every step of Next is one of the above.
LEMMA RemovalInvStep == RemovalInv /\ [Next]_vars => RemovalInv'
<1> SUFFICES ASSUME RemovalInv, [Next]_vars PROVE RemovalInv'
  OBVIOUS
<1>1. CASE UNCHANGED vars
  BY <1>1 DEF vars, RemovalInv, RemovalIsRecorded, TypeOK, AuthorityOutlivesResources,
     CheckpointsTellTheTruth, Truthful, ExecutableNeverAlone, UncommittedIsFresh, WorksFromAuthority,
     StepIsTrue
<1>2. CASE FinishStep
  BY <1>2, SynchronizeKeeps, AuxiliaryKeeps, StartupKeeps, ProxyEffectKeeps, ProxyAbsentKeeps,
     CheckpointKeeps, LifecycleKeeps, RemoveExecutableKeeps, RemoveInstalledRecordKeeps,
     LastInspectionKeeps, MoveRecordKeeps, RemoveDirectoryKeeps, UnlinkFinalizerKeeps DEF FinishStep
<1> QED BY <1>1, <1>2, OwnerKeeps, CompleteKeeps, RestoreKeeps, PowerLossKeeps DEF Next

-----------------------------------------------------------------------------
(* Theorems.                                                               *)

\* The inductive invariant of a removal, its recovery and its restoration.
THEOREM RemovalInvariant == Spec => []RemovalInv
  BY RemovalInvInit, RemovalInvStep, PTL DEF Spec

\* Wherever a removal is interrupted, an authority outlives what is left, its
\* checkpoints are true and no executable is without its Installed Record.
THEOREM RemovalRecorded == Spec => []RemovalIsRecorded
<1>1. RemovalInv => RemovalIsRecorded
  BY DEF RemovalInv
<1> QED BY <1>1, RemovalInvariant, PTL

\* A removal that every durable authority commits is never uncommitted by a
\* checkpoint, a failed publication, the move, a restoration or a power loss.
THEOREM RemovalGoesForward == Spec => RemovalIsForward
<1>1. ASSUME RemovalInv, Next, DurablyCommitted, NEW a \in exposed' PROVE a = None \/ a.committed
  <2> USE DEF DurablyCommitted
  <2>1. auth \in exposed /\ auth # None /\ auth.committed
    BY <1>1 DEF RemovalInv, RemovalIsRecorded, TypeOK
  <2>2. ~Complete
    BY <1>1, <2>1 DEF Complete
  <2>3. CASE Checkpoint
    <3>1. NextCheckpoint(auth).committed
      BY <1>1, <2>1, <2>3, AtWork, NextCheckpointFacts DEF Checkpoint, RemovalInv, StepIsTrue
    <3>2. \/ PublishSucceeds(NextCheckpoint(auth))
          \/ PublishFails(NextCheckpoint(auth))
      BY <2>3 DEF Checkpoint
    <3> HIDE DEF DurablyCommitted
    <3>3. a \in exposed \cup {NextCheckpoint(auth)}
      BY <3>2, <2>1, <1>1 DEF PublishSucceeds, PublishFails
    <3> QED BY <1>1, <3>1, <3>3 DEF DurablyCommitted
  <2>4. CASE MoveRecord
    <3>1. Moved.committed
      BY <1>1, <2>1, <2>4, AtWork, MovedFacts DEF MoveRecord
    <3>2. a \in exposed \cup {auth, Moved}
      BY <1>1, <2>4 DEF MoveRecord
    <3> QED BY <1>1, <2>1, <3>1, <3>2
  <2>5. CASE UnlinkFinalizer
    BY <1>1, <2>1, <2>5 DEF UnlinkFinalizer
  <2>6. CASE PowerLoss
    BY <1>1, <2>6 DEF PowerLoss
  <2>7. CASE Synchronize
    BY <1>1, <2>1, <2>7 DEF Synchronize
  <2>8. CASE UNCHANGED exposed
    BY <1>1, <2>8
  <2>9. CASE \/ AuxiliaryEffect \/ AuxiliarySkip \/ StartupEffect \/ ProxyEffect
    <3>1. UNCHANGED exposed
      BY <1>1, <2>9, PerformFacts DEF AuxiliaryEffect, AuxiliarySkip, StartupEffect, ProxyEffect
    <3> QED BY <2>8, <3>1
  <2>10. CASE \/ ProxyAbsent \/ Lifecycle \/ RemoveExecutable \/ RemoveInstalledRecord
              \/ LastInspection \/ RemoveDirectory
    BY <2>8, <2>10 DEF ProxyAbsent, Lifecycle, RemoveExecutable, RemoveInstalledRecord, RemoveMember,
       LastInspection, RemoveDirectory
  <2>11. CASE \/ StartSession \/ Finish \/ Cancel \/ Restore \/ RestoreStep \/ Kill
    BY <2>8, <2>11 DEF StartSession, Finish, Cancel, Restore, RestoreStep, RestoreInstalled,
       RestoreExecutable, Kill
  <2> QED BY <1>1, <2>2, <2>3, <2>4, <2>5, <2>6, <2>7, <2>9, <2>10, <2>11 DEF Next, FinishStep
<1>2. RemovalInv /\ [Next]_vars =>
          [DurablyCommitted => \A a \in exposed' : a = None \/ a.committed]_vars
  BY <1>1
<1> QED BY <1>2, RemovalInvariant, PTL DEF Spec, RemovalIsForward
=============================================================================
