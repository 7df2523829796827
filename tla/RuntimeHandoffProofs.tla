------------------------ MODULE RuntimeHandoffProofs ------------------------
(***************************************************************************)
(* Proofs about RuntimeHandoff, for any number of Owner processes, starts  *)
(* and failures: the invariants LentAsRecorded and SourceStaysRevoked and  *)
(* the action property AuthorizedByTheRecord from the inductive invariant  *)
(* HandoffInv.                                                             *)
(***************************************************************************)
EXTENDS RuntimeHandoff, TLAPS

-----------------------------------------------------------------------------
(* Descriptors and the lock.                                               *)

\* A descriptor is the holder's own, on its way to one unit, or lent to one unit.
LEMMA DescriptorFacts ==
    /\ \A u : Own # Flight(u) /\ Own # Lent(u)
    /\ \A u, v : Flight(u) # Lent(v)
    /\ \A u, v : u # v => Flight(u) # Flight(v) /\ Lent(u) # Lent(v)
    /\ \A U, d : d \in Descriptors(U) <=> \E u \in U : d = Flight(u) \/ d = Lent(u)
<1>1. /\ \A u : Own # Flight(u) /\ Own # Lent(u)
      /\ \A u, v : Flight(u) # Lent(v)
      /\ \A u, v : u # v => Flight(u) # Flight(v) /\ Lent(u) # Lent(v)
  BY DEF Own, Flight, Lent
<1>2. \A U, d : d \in Descriptors(U) <=> \E u \in U : d = Flight(u) \/ d = Lent(u)
  BY DEF Descriptors
<1> QED BY <1>1, <1>2

\* What TypeOK says of the lock.
LockTyped ==
    /\ holder \in Owners \cup Units \cup {None}
    /\ refs \in [Owners -> SUBSET (Descriptors(Units) \cup {Own})]
    /\ lock \in [Units -> Owners \cup Units \cup {None}]
    /\ proc \in [Units -> Places]
    /\ holder \in Owners => refs[holder] # {}
    /\ holder \in Units => lock[holder] = holder

\* Processes that end or give back what they have leave the others' alone.
LEMMA DroppedKeepsLock ==
    ASSUME LockTyped, LockInv, NEW U \in SUBSET Units, Dropped(U),
           owner \in Owners \cup {None}, owner' = owner, (opc' = "none") <=> (opc = "none"),
           proc' \in [Units -> Places],
           \A u \in U : proc'[u] \in {"none", "wait", "passed"},
           \A u \in Units \ U : proc'[u] = proc[u]
    PROVE  LockTyped' /\ LockInv'
<1> USE HandoffAssumption
<1>1. /\ refs' = [n \in Owners |-> refs[n] \ Descriptors(U)]
      /\ \A n \in Owners : refs'[n] = refs[n] \ Descriptors(U)
      /\ lock' = [u \in Units |-> IF u \in U THEN None ELSE lock[u]]
      /\ \A u \in Units : lock'[u] = IF u \in U THEN None ELSE lock[u]
      /\ holder' = IF holder \in U \/ (holder \in Owners /\ refs[holder] \subseteq Descriptors(U))
                   THEN None ELSE holder
  BY DEF Dropped
<1>2. LockTyped'
  BY <1>1 DEF LockTyped
<1>3. owner' # None => holder' = owner' /\ Own \in refs'[owner']
  <2>1. Own \notin Descriptors(U)
    BY DescriptorFacts
  <2> QED BY <1>1, <2>1 DEF LockInv
<1>4. ASSUME NEW u \in Units
      PROVE  /\ lock'[u] = u => holder' = u
             /\ proc'[u] \in {"none", "wait", "passed"} => lock'[u] = None
             /\ proc'[u] \in {"asked", "received", "confirm"} => lock'[u] \in Owners
             /\ proc'[u] \in Locked => lock'[u] \in Owners \cup {u}
  <2>1. lock[u] = u /\ u \notin U => holder = u /\ holder' = u
    BY <1>1 DEF LockInv
  <2> QED BY <1>1, <2>1 DEF LockInv, Locked
<1>5. ASSUME NEW u \in Units, NEW n \in Owners
      PROVE  /\ Flight(u) \in refs'[n] => proc'[u] = "asked" /\ lock'[u] = n
             /\ Lent(u) \in refs'[n] <=> proc'[u] \in Locked /\ lock'[u] = n
  <2>1. Lent(u) \in Descriptors(U) <=> u \in U
    BY DescriptorFacts
  <2>2. Flight(u) \in Descriptors(U) <=> u \in U
    BY DescriptorFacts
  <2> QED BY <1>1, <2>1, <2>2 DEF LockInv, Locked
<1> QED BY <1>2, <1>3, <1>4, <1>5 DEF LockInv

\* A process that has a lock goes on with it, verified or not.
LEMMA MovesKeepLock ==
    ASSUME LockTyped, LockInv, NEW u \in Units, proc[u] \in Locked,
           NEW p \in Locked \ {"received"},
           p = "confirm" => proc[u] = "received",
           Goes(u, p), Verified(u) \/ UNCHANGED holder, UNCHANGED <<refs, lock, owner, opc>>,
           owner \in Owners \cup {None}
    PROVE  LockTyped' /\ LockInv'
<1> USE HandoffAssumption
<1>1. /\ proc' \in [Units -> Places] /\ proc'[u] = p /\ \A v \in Units \ {u} : proc'[v] = proc[v]
      /\ holder' = holder \/ (holder' = lock[u] /\ holder \in {None, lock[u]})
  BY DEF Goes, Verified, Locks, LockTyped, Locked, Places
<1>2. lock[u] \in Owners \cup {u} /\ (lock[u] \in Owners => Lent(u) \in refs[lock[u]])
  BY DEF LockInv
<1>3. LockTyped'
  BY <1>1, <1>2 DEF LockTyped
<1>4. owner' # None => holder' = owner' /\ Own \in refs'[owner']
  BY <1>1 DEF LockInv
<1>5. ASSUME NEW v \in Units
      PROVE  /\ lock'[v] = v => holder' = v
             /\ proc'[v] \in {"none", "wait", "passed"} => lock'[v] = None
             /\ proc'[v] \in {"asked", "received", "confirm"} => lock'[v] \in Owners
             /\ proc'[v] \in Locked => lock'[v] \in Owners \cup {v}
  <2>1. lock[v] = v => holder = v
    BY DEF LockInv
  <2>2. lock'[v] = v => holder' = v
    BY <1>1, <1>2, <2>1 DEF LockTyped, Units
  <2> QED BY <1>1, <1>2, <2>2 DEF LockInv, Locked
<1>6. ASSUME NEW v \in Units, NEW n \in Owners
      PROVE  /\ Flight(v) \in refs'[n] => proc'[v] = "asked" /\ lock'[v] = n
             /\ Lent(v) \in refs'[n] <=> proc'[v] \in Locked /\ lock'[v] = n
  BY <1>1 DEF LockInv, Locked
<1> QED BY <1>3, <1>4, <1>5, <1>6 DEF LockInv

\* The Owner goes on while the lock, and what every process has, is as it was.
LEMMA SessionKeepsLock ==
    ASSUME LockTyped, LockInv, UNCHANGED <<flock, owner, proc, lock>>, (opc' = "none") <=> (opc = "none")
    PROVE  LockTyped' /\ LockInv'
  BY DEF LockTyped, LockInv, flock

\* The parts of the invariant that most steps need; the Owner in execution holds
\* its lock.
LEMMA HandoffFacts ==
    ASSUME HandoffInv
    PROVE  /\ LockTyped /\ LockInv /\ LendingInv /\ RecordInv
           /\ owner \in Owners \cup {None} /\ owner \notin Units
           /\ opc # "none" => owner \in Owners /\ holder = owner /\ Own \in refs[owner]
  BY HandoffAssumption DEF HandoffInv, LentAsRecorded, TypeOK, LockTyped, LockInv

\* A step that leaves the Owner and the record alone: it keeps the invariant
\* if it keeps the lock and the lending, and the unit it is about is as it
\* should be.
LEMMA ProcessKeeps ==
    ASSUME HandoffInv, LockTyped', LockInv', LendingInv', LentToItsUnit',
           NEW u \in Units,
           UNCHANGED <<session, record>>, gate' \in {gate, None}, wanted' \subseteq Units,
           lender' \in Lenders, peer' \in Units \cup {None},
           body' \in [Units -> Checkpoints], runs' \in [Units -> {"source", "target", None}],
           \A v \in Units \ {u} : /\ proc'[v] = proc[v] /\ lock'[v] = lock[v]
                                  /\ body'[v] = body[v] /\ runs'[v] = runs[v],
           StartInv(u)', cp \in Onward => runs'[u] # "source"
    PROVE  HandoffInv'
<1>1. TypeOK'
  BY DEF TypeOK, LockTyped, HandoffInv, LentAsRecorded, session, record
<1>2. TokenNamesTheRecord' /\ RecordInv'
  BY DEF TokenNamesTheRecord, RecordInv, HandoffInv, LentAsRecorded, session, record, Config
<1>3. SourceStaysRevoked'
  BY DEF SourceStaysRevoked, HandoffInv, record
<1>4. ASSUME NEW v \in Units PROVE StartInv(v)'
  <2>1. CASE v = u
    BY <2>1
  <2>2. CASE v # u
    BY <2>2 DEF StartInv, HandoffInv, session, record
  <2> QED BY <2>1, <2>2
<1> QED BY <1>1, <1>2, <1>3, <1>4 DEF HandoffInv, LentAsRecorded

\* Closing the descriptors of units that end takes nothing from the others.
LEMMA DroppedKeepsLending ==
    ASSUME HandoffInv, NEW U \in SUBSET Units, Dropped(U), UNCHANGED <<session, lender>>,
           \A u \in Units \ U : proc'[u] = proc[u]
    PROVE  LendingInv' /\ LentToItsUnit' /\ peer' \in Units \cup {None}
<1> USE HandoffAssumption
<1>1. /\ \A n \in Owners : refs'[n] = refs[n] \ Descriptors(U)
      /\ \A u \in Units : lock'[u] = IF u \in U THEN None ELSE lock[u]
      /\ peer' = IF peer \in U THEN None ELSE peer
      /\ peer \in Units \cup {None} /\ owner \in Owners \cup {None}
      /\ owner' = owner /\ opc' = opc /\ role' = role /\ lender' = lender
  BY DEF Dropped, HandoffInv, LentAsRecorded, TypeOK, session
<1>2. LentToItsUnit'
  BY <1>1 DEF LentToItsUnit, HandoffInv, LentAsRecorded
<1>3. opc # "none" => owner \in Owners
  BY HandoffFacts
<1>4. Own \notin Descriptors(U)
  BY DescriptorFacts
<1>5. LendingInv'
  BY <1>1, <1>3, <1>4 DEF LendingInv, Alone, HandoffInv
<1> QED BY <1>1, <1>2, <1>5

\* The lending goes on unaware of a process that waits for nothing from it.
LEMMA MovesKeepLending ==
    ASSUME HandoffInv, NEW u \in Units, proc[u] # "asked", UNCHANGED <<refs, session, lending>>,
           \A v \in Units \ {u} : proc'[v] = proc[v] /\ lock'[v] = lock[v]
    PROVE  /\ LendingInv' /\ LentToItsUnit'
           /\ lender' \in Lenders /\ peer' \in Units \cup {None}
  BY DEF HandoffInv, LentAsRecorded, TypeOK, LentToItsUnit, LendingInv, Alone, session, lending

-----------------------------------------------------------------------------
(* The private processes.                                                  *)

\* A process that is not running yet, or any more, at p.
LEMMA DropsKeeps ==
    ASSUME HandoffInv, NEW u \in Units, NEW p \in {"none", "wait", "passed"}, Goes(u, p), Dropped({u}),
           UNCHANGED <<world, lender, gate, body>>,
           runs' \in [Units -> {"source", "target", None}],
           \A v \in Units \ {u} : runs'[v] = runs[v],
           runs'[u] # None => p = "none", cp \in Onward => runs'[u] # "source",
           p = "passed" => u = "proxy" /\ proc[u] = "pass"
    PROVE  HandoffInv'
<1> USE HandoffAssumption
<1>1. /\ LockTyped /\ LockInv /\ owner \in Owners \cup {None}
  BY HandoffFacts
<1>2. /\ proc' \in [Units -> Places] /\ proc'[u] = p
      /\ \A v \in Units \ {u} : proc'[v] = proc[v]
      /\ lock' = [v \in Units |-> IF v \in {u} THEN None ELSE lock[v]]
  BY <1>1 DEF Goes, LockTyped, Places, Dropped
<1>3. UNCHANGED <<session, record>> /\ wanted' = wanted /\ opc' = opc /\ owner' = owner /\ cp' = cp /\ role' = role
  BY DEF world, session, record
<1>4. LockTyped' /\ LockInv'
  <2>1. \A v \in {u} : proc'[v] \in {"none", "wait", "passed"}
    BY <1>2
  <2> QED BY <1>1, <1>2, <1>3, <2>1, DroppedKeepsLock
<1>5. LendingInv' /\ LentToItsUnit' /\ peer' \in Units \cup {None}
  BY <1>2, <1>3, DroppedKeepsLending
<1>6. body \in [Units -> Checkpoints] /\ wanted \subseteq Units /\ lender \in Lenders
  BY DEF HandoffInv, LentAsRecorded, TypeOK
<1>7. StartInv(u)'
  <2>1. p = "passed" => cp # "revoked" /\ opc # "rotating" /\ ~(opc = "started" /\ role = u)
    BY DEF HandoffInv, StartInv, Informed, Admitted, Locked
  <2> QED BY <1>2, <1>3, <2>1 DEF StartInv, Informed, Admitted, Locked
<1> QED BY <1>2, <1>3, <1>4, <1>5, <1>6, <1>7, ProcessKeeps

LEMMA EndsKeeps == ASSUME HandoffInv, NEW u \in Units, Ends(u) PROVE HandoffInv'
<1>1. /\ runs' = runs /\ runs \in [Units -> {"source", "target", None}]
      /\ Goes(u, "none") /\ Dropped({u}) /\ UNCHANGED <<world, lender, gate, body>>
      /\ cp \in Onward => runs[u] # "source"
  BY DEF Ends, HandoffInv, LentAsRecorded, TypeOK, SourceStaysRevoked
<1> QED BY <1>1, DropsKeeps

\* A process that goes back to waiting has dropped its descriptor.
LEMMA RetriesKeeps ==
    ASSUME HandoffInv, NEW u \in Units, Retries(u), proc[u] # "none",
           UNCHANGED <<world, lender, gate, body, runs>>
    PROVE  HandoffInv'
<1>1. /\ runs' = runs /\ runs \in [Units -> {"source", "target", None}]
      /\ Goes(u, "wait") /\ Dropped({u}) /\ UNCHANGED <<world, lender, gate, body>>
      /\ runs[u] = None
  BY DEF Retries, HandoffInv, LentAsRecorded, TypeOK, StartInv
<1>2. None # "source"
  BY HandoffAssumption
<1> QED BY <1>1, <1>2, DropsKeeps

\* A process that has a lock goes on to p.
LEMMA MovesKeep ==
    ASSUME HandoffInv, NEW u \in Units, proc[u] \in Locked, NEW p \in Locked \ {"received"},
           p = "confirm" => proc[u] = "received",
           Goes(u, p), Verified(u) \/ UNCHANGED holder,
           UNCHANGED <<refs, session, record, wanted, lending, lock, runs>>,
           gate' \in {gate, None}, body' \in [Units -> Checkpoints],
           \A v \in Units \ {u} : body'[v] = body[v], StartInv(u)'
    PROVE  HandoffInv'
<1>1. LockTyped /\ LockInv /\ owner \in Owners \cup {None}
  BY HandoffFacts
<1>2. UNCHANGED <<refs, lock, owner, opc, lock, lending>> /\ lender' = lender /\ wanted' = wanted /\ runs' = runs
  BY DEF session, lending
<1>3. LockTyped' /\ LockInv'
  BY <1>1, <1>2, MovesKeepLock
<1>4. \A v \in Units \ {u} : proc'[v] = proc[v] /\ lock'[v] = lock[v]
  BY <1>1, <1>2 DEF Goes, LockTyped
<1>5. /\ LendingInv' /\ LentToItsUnit'
      /\ lender' \in Lenders /\ peer' \in Units \cup {None}
  <2>1. proc[u] # "asked"
    BY DEF Locked
  <2> QED BY <1>2, <1>4, <2>1, MovesKeepLending
<1>6. /\ runs \in [Units -> {"source", "target", None}] /\ wanted \subseteq Units
      /\ cp \in Onward => runs[u] # "source"
  BY DEF HandoffInv, LentAsRecorded, TypeOK, SourceStaysRevoked
<1> QED BY <1>2, <1>3, <1>4, <1>5, <1>6, ProcessKeeps

LEMMA SpawnKeeps == ASSUME HandoffInv, NEW u \in Units, Spawn(u) PROVE HandoffInv'
<1> USE HandoffAssumption
<1>1. LockTyped /\ LockInv
  BY HandoffFacts
<1>2. /\ proc[u] = "none" /\ runs[u] = None /\ proc' = [proc EXCEPT ![u] = "wait"]
      /\ UNCHANGED <<flock, session, lending, record, lock, body, runs, gate>>
      /\ wanted' \subseteq wanted
  BY DEF Spawn, At, Goes
<1>3. LockTyped' /\ LockInv'
  BY <1>1, <1>2 DEF LockTyped, LockInv, flock, session, Locked, Places
<1>4. \A v \in Units \ {u} : proc'[v] = proc[v] /\ lock'[v] = lock[v]
  BY <1>1, <1>2 DEF LockTyped
<1>5. LendingInv' /\ LentToItsUnit' /\ lender' \in Lenders /\ peer' \in Units \cup {None}
  BY <1>2, <1>4, MovesKeepLending DEF flock
<1>6. /\ runs \in [Units -> {"source", "target", None}] /\ wanted \subseteq Units
      /\ body \in [Units -> Checkpoints]
  BY DEF HandoffInv, LentAsRecorded, TypeOK
<1>7. lock[u] = None /\ proc'[u] = "wait"
  BY <1>1, <1>2 DEF LockInv, LockTyped
<1>8. StartInv(u)'
  BY <1>2, <1>7 DEF StartInv, Informed, Admitted, Locked
<1> QED BY <1>2, <1>3, <1>4, <1>5, <1>6, <1>8, ProcessKeeps

LEMMA TakesLockKeeps == ASSUME HandoffInv, NEW u \in Units, TakesLock(u) PROVE HandoffInv'
<1> USE HandoffAssumption
<1>1. LockTyped /\ LockInv /\ owner \in Owners \cup {None} /\ owner \notin Units
  BY HandoffFacts
<1>2. /\ proc[u] = "wait" /\ holder \in {None, u} /\ holder' = u
      /\ proc' = [proc EXCEPT ![u] = "read"] /\ lock' = [lock EXCEPT ![u] = u]
      /\ UNCHANGED <<refs, session, lending, record, body, runs, gate, wanted, owner, opc, cp>>
  BY DEF TakesLock, At, Goes, Locks, world, session, record
<1>3. /\ proc'[u] = "read" /\ lock'[u] = u /\ lock[u] = None
      /\ \A v \in Units \ {u} : proc'[v] = proc[v] /\ lock'[v] = lock[v]
  BY <1>1, <1>2 DEF LockTyped, LockInv
<1>4. owner = None /\ \A v \in Units \ {u} : lock[v] # v
  BY <1>1, <1>2 DEF LockInv
<1>5. LockTyped'
  BY <1>1, <1>2, <1>3 DEF LockTyped, Places
<1>6. \A n \in Owners : Lent(u) \notin refs[n] /\ Flight(u) \notin refs[n]
  BY <1>1, <1>2 DEF LockInv, Locked
<1>7. LockInv'
  BY <1>1, <1>2, <1>3, <1>4, <1>6 DEF LockInv, Locked
<1>8. LendingInv' /\ LentToItsUnit' /\ lender' \in Lenders /\ peer' \in Units \cup {None}
  BY <1>2, <1>3, MovesKeepLending
<1>9. /\ runs \in [Units -> {"source", "target", None}] /\ wanted \subseteq Units
      /\ body \in [Units -> Checkpoints] /\ (cp \in Onward => runs[u] # "source")
  BY DEF HandoffInv, LentAsRecorded, TypeOK, SourceStaysRevoked
<1>10. StartInv(u)'
  <2>1. runs[u] = None /\ opc # "rotating" /\ opc # "started"
    BY <1>1, <1>2, <1>4 DEF HandoffInv, StartInv, LockInv
  <2> QED BY <1>2, <1>3, <2>1 DEF StartInv, Informed, Admitted, Locked
<1> QED BY <1>2, <1>3, <1>5, <1>7, <1>8, <1>9, <1>10, ProcessKeeps

LEMMA ConnectsKeeps == ASSUME HandoffInv, NEW u \in Units, Connects(u) PROVE HandoffInv'
<1> USE HandoffAssumption
<1>1. LockTyped /\ LockInv /\ LendingInv /\ RecordInv /\ owner \in Owners \cup {None} /\ owner \notin Units
  BY HandoffFacts
<1>2. /\ proc[u] = "wait" /\ lender = "listening" /\ lender' = "connected" /\ peer' = u
      /\ proc' = [proc EXCEPT ![u] = "asked"] /\ lock' = [lock EXCEPT ![u] = owner]
      /\ UNCHANGED <<flock, refs, holder, session, record, body, runs, gate, wanted, owner, opc, cp, role>>
  BY DEF Connects, At, Goes, world, session, record, flock
<1>3. opc = "starting" /\ owner \in Owners /\ cp # "revoked"
  BY <1>1, <1>2 DEF LendingInv, Alone, LockInv, RecordInv
<1>4. /\ proc'[u] = "asked" /\ lock'[u] = owner /\ lock[u] = None
      /\ \A v \in Units \ {u} : proc'[v] = proc[v] /\ lock'[v] = lock[v]
  BY <1>1, <1>2 DEF LockTyped, LockInv
<1>5. LockTyped'
  BY <1>1, <1>2, <1>3, <1>4 DEF LockTyped, Places
<1>6. \A n \in Owners : Lent(u) \notin refs[n] /\ Flight(u) \notin refs[n]
  BY <1>1, <1>2 DEF LockInv, Locked
<1>7. LockInv'
  BY <1>1, <1>2, <1>3, <1>4, <1>6 DEF LockInv, Locked
<1>8. LendingInv' /\ LentToItsUnit' /\ lender' \in Lenders
  BY <1>1, <1>2, <1>3, <1>4, <1>6 DEF LendingInv, Alone, LentToItsUnit, HandoffInv, LentAsRecorded, Lenders
<1>9. /\ runs \in [Units -> {"source", "target", None}] /\ wanted \subseteq Units
      /\ body \in [Units -> Checkpoints] /\ (cp \in Onward => runs[u] # "source")
  BY DEF HandoffInv, LentAsRecorded, TypeOK, SourceStaysRevoked
<1>10. StartInv(u)'
  <2>1. runs[u] = None
    BY <1>2 DEF HandoffInv, StartInv
  <2> QED BY <1>2, <1>3, <1>4, <2>1 DEF StartInv, Informed, Admitted, Locked
<1> QED BY <1>2, <1>4, <1>5, <1>7, <1>8, <1>9, <1>10, ProcessKeeps

LEMMA ReceivesKeeps == ASSUME HandoffInv, NEW u \in Units, Receives(u) PROVE HandoffInv'
<1> USE HandoffAssumption
<1>1. LockTyped /\ LockInv /\ LendingInv /\ RecordInv /\ owner \in Owners \cup {None} /\ owner \notin Units
  BY HandoffFacts
<1>2. proc[u] = "asked" /\ Flight(u) \in refs[lock[u]] /\ UNCHANGED <<world, lender, gate, body, runs>>
  BY DEF Receives, At
<1>3. CASE Retries(u)
  BY <1>2, <1>3, RetriesKeeps
<1>4. CASE /\ refs' = [refs EXCEPT ![lock[u]] = (@ \ {Flight(u)}) \cup {Lent(u)}]
           /\ Goes(u, "received") /\ UNCHANGED <<holder, lock, peer>>
  <2> DEFINE n == lock[u]
  <2>1. n \in Owners /\ Lent(u) # Own /\ Flight(u) # Own /\ Flight(u) # Lent(u)
    BY <1>1, <1>2, DescriptorFacts DEF LockInv
  <2>2. /\ proc' = [proc EXCEPT ![u] = "received"] /\ proc'[u] = "received"
        /\ \A v \in Units \ {u} : proc'[v] = proc[v] /\ lock'[v] = lock[v]
        /\ UNCHANGED <<holder, lock, peer, lender, session, record, owner, opc, role, wanted, body, runs, gate, cp>>
        /\ refs'[n] = (refs[n] \ {Flight(u)}) \cup {Lent(u)}
        /\ \A m \in Owners \ {n} : refs'[m] = refs[m]
    BY <1>1, <1>2, <1>4, <2>1 DEF Goes, LockTyped, world, session, record
  <2>3. refs' \in [Owners -> SUBSET (Descriptors(Units) \cup {Own})]
    <3>1. Lent(u) \in Descriptors(Units)
      BY DescriptorFacts
    <3> QED BY <1>1, <1>4, <2>1, <3>1 DEF LockTyped
  <2>4. LockTyped'
    BY <1>1, <2>1, <2>2, <2>3 DEF LockTyped, Places
  <2>5. owner' # None => holder' = owner' /\ Own \in refs'[owner']
    BY <1>1, <2>1, <2>2 DEF LockInv
  <2>6. ASSUME NEW v \in Units
        PROVE  /\ lock'[v] = v => holder' = v
               /\ proc'[v] \in {"none", "wait", "passed"} => lock'[v] = None
               /\ proc'[v] \in {"asked", "received", "confirm"} => lock'[v] \in Owners
               /\ proc'[v] \in Locked => lock'[v] \in Owners \cup {v}
    BY <1>1, <2>1, <2>2 DEF LockInv, Locked
  <2>7. ASSUME NEW v \in Units, NEW m \in Owners
        PROVE  /\ Flight(v) \in refs'[m] => proc'[v] = "asked" /\ lock'[v] = m
               /\ Lent(v) \in refs'[m] <=> proc'[v] \in Locked /\ lock'[v] = m
    <3>1. CASE v = u
      <4>1. \A k \in Owners \ {n} : Flight(u) \notin refs[k] /\ Lent(u) \notin refs[k]
        BY <1>1, <2>1 DEF LockInv
      <4> QED BY <2>1, <2>2, <3>1, <4>1 DEF Locked
    <3>2. CASE v # u
      <4>1. /\ Flight(v) \in refs'[m] <=> Flight(v) \in refs[m]
            /\ Lent(v) \in refs'[m] <=> Lent(v) \in refs[m]
        BY <2>2, <3>2, DescriptorFacts
      <4> QED BY <1>1, <2>2, <3>2, <4>1 DEF LockInv
    <3> QED BY <3>1, <3>2
  <2>8. LockInv'
    BY <1>1, <2>2, <2>5, <2>6, <2>7 DEF LockInv
  <2>9. ~(lender \in {"connected", "admitted"} /\ peer = u)
    BY <1>1, <1>2 DEF LendingInv, Alone, Units
  <2>10. LentToItsUnit' /\ (owner = n => opc \notin {"held", "rotating", "stopping", "stopped"}
                                 /\ ~(opc = "started" /\ role = "proxy"))
    <3>1. owner = n => u = role
      BY <1>2, <2>1, DescriptorFacts DEF HandoffInv, LentAsRecorded, LentToItsUnit
    <3>2. Lent(role) \in Descriptors({role})
      BY DescriptorFacts
    <3>3. LentToItsUnit'
      BY <1>1, <2>1, <2>2, <3>1, <3>2 DEF LentToItsUnit, HandoffInv, LentAsRecorded
    <3> QED BY <1>1, <1>2, <2>1, <3>3 DEF LendingInv, Alone
  <2>11. LendingInv'
    <3>1. peer \in Units \cup {None}
      BY DEF HandoffInv, LentAsRecorded, TypeOK
    <3>2. lender \in {"connected", "admitted"} /\ peer # None =>
            proc'[peer] = "asked" /\ lock'[peer] = owner /\ Flight(peer) \notin refs'[owner]
      <4> SUFFICES ASSUME lender \in {"connected", "admitted"}, peer # None
                   PROVE  proc'[peer] = "asked" /\ lock'[peer] = owner /\ Flight(peer) \notin refs'[owner]
        OBVIOUS
      <4>1. peer \in Units \ {u} /\ owner \in Owners
        BY <1>1, <2>9, <3>1 DEF LendingInv, Alone, LockInv
      <4>2. proc[peer] = "asked" /\ lock[peer] = owner /\ Flight(peer) \notin refs[owner]
        BY <1>1 DEF LendingInv, Alone
      <4>3. Flight(peer) # Lent(u)
        BY DescriptorFacts
      <4> QED BY <2>1, <2>2, <4>1, <4>2, <4>3
    <3>3. opc # "none" => owner \in Owners
      BY <1>1 DEF LockInv
    <3> QED BY <1>1, <2>2, <2>10, <3>2, <3>3 DEF LendingInv, Alone
  <2>12. /\ runs \in [Units -> {"source", "target", None}] /\ wanted \subseteq Units
        /\ body \in [Units -> Checkpoints] /\ (cp \in Onward => runs[u] # "source")
        /\ lender \in Lenders /\ peer \in Units \cup {None}
    BY DEF HandoffInv, LentAsRecorded, TypeOK, SourceStaysRevoked
  <2>13. StartInv(u)'
    <3>1. /\ runs[u] = None /\ cp # "revoked"
          /\ ~(u = "proxy" /\ (opc = "rotating" \/ (opc = "started" /\ role = u)))
      BY <1>2, <2>1 DEF HandoffInv, StartInv
    <3> QED BY <2>2, <3>1 DEF StartInv, Informed, Admitted, Locked
  <2> QED BY <2>2, <2>4, <2>8, <2>10, <2>11, <2>12, <2>13, ProcessKeeps
<1> QED BY <1>3, <1>4 DEF Receives

LEMMA UnansweredKeeps == ASSUME HandoffInv, NEW u \in Units, Unanswered(u) PROVE HandoffInv'
<1>1. proc[u] # "none" /\ Retries(u) /\ UNCHANGED <<world, lender, gate, body, runs>>
  BY DEF Unanswered, At
<1> QED BY <1>1, RetriesKeeps

LEMMA ChecksHeldKeeps == ASSUME HandoffInv, NEW u \in Units, ChecksHeld(u) PROVE HandoffInv'
<1>1. proc[u] = "received" /\ UNCHANGED <<world, lender, gate, body, runs>>
  BY DEF ChecksHeld, At
<1>2. CASE Retries(u)
  BY <1>1, <1>2, RetriesKeeps
<1>3. CASE Goes(u, "confirm") /\ UNCHANGED <<flock, lock, peer>>
  <2>1. /\ UNCHANGED <<refs, session, record, wanted, lending, lock, runs, holder, body, gate>>
        /\ UNCHANGED <<opc, role, cp, owner>>
    BY <1>1, <1>3 DEF world, lending, flock, session, record
  <2>2. body' \in [Units -> Checkpoints] /\ proc'[u] = "confirm"
    BY <1>3, <2>1 DEF HandoffInv, LentAsRecorded, TypeOK, Goes
  <2>3. StartInv(u)'
    BY <1>1, <2>1, <2>2 DEF HandoffInv, StartInv, Informed, Admitted, Locked
  <2> QED BY <1>1, <1>3, <2>1, <2>2, <2>3, MovesKeep DEF Locked
<1> QED BY <1>2, <1>3 DEF ChecksHeld

\* A verified or an unobserved step from place p to place q of a process that
\* has a lock.
LEMMA PlaceKeeps ==
    ASSUME HandoffInv, NEW u \in Units, NEW q \in Locked \ {"received", "confirm"},
           proc[u] \in Locked, Goes(u, q), Verified(u) \/ UNCHANGED holder,
           UNCHANGED <<refs, world, lending, lock, runs>>, gate' \in {gate, None},
           body' \in [Units -> Checkpoints], \A v \in Units \ {u} : body'[v] = body[v],
           q \notin IF u = "proxy" THEN {"bind"} ELSE {"token", "unlink", "final", "pass", "passed"},
           q \in Informed =>
               /\ cp = body'[u] \/ (u = "serving" /\ lock[u] \in Owners /\ owner # lock[u])
               /\ cp \in Onward => body'[u] \in Onward,
           q \in Admitted \/ (u = "serving" /\ q = "verify") => body'[u] # "revoked"
    PROVE  HandoffInv'
<1>1. /\ UNCHANGED <<refs, session, record, wanted, lending, lock, runs>>
      /\ UNCHANGED <<opc, role, cp, owner>>
  BY DEF world, session, record
<1>2. proc'[u] = q
  BY DEF HandoffInv, LentAsRecorded, TypeOK, Goes
<1>3. /\ runs[u] = None /\ (cp = "revoked" => lock[u] \notin Owners)
      /\ ~(u = "proxy" /\ (opc = "rotating" \/ (opc = "started" /\ role = u)))
  BY DEF HandoffInv, StartInv, Locked
<1>4. StartInv(u)'
  BY <1>1, <1>2, <1>3 DEF StartInv, Locked
<1> QED BY <1>1, <1>4, MovesKeep

\* What holds of a process that has read the record.
LEMMA InformedFacts ==
    ASSUME HandoffInv, NEW u \in Units, proc[u] \in Informed
    PROVE  /\ cp = body[u] \/ (u = "serving" /\ lock[u] \in Owners /\ owner # lock[u])
           /\ cp \in Onward => body[u] \in Onward
           /\ proc[u] \in Admitted \/ (u = "serving" /\ proc[u] = "verify") => body[u] # "revoked"
           /\ proc[u] \in Locked
  BY DEF HandoffInv, StartInv, Informed

LEMMA ConfirmsKeeps == ASSUME HandoffInv, NEW u \in Units, Confirms(u) PROVE HandoffInv'
<1>1. proc[u] = "confirm" /\ UNCHANGED <<world, lender, gate, body, runs>>
  BY DEF Confirms, At
<1>2. CASE Retries(u)
  BY <1>1, <1>2, RetriesKeeps
<1>3. CASE Verified(u) /\ Goes(u, "read") /\ UNCHANGED <<refs, lock, peer>>
  <2>1. body' = body /\ body \in [Units -> Checkpoints] /\ UNCHANGED <<refs, world, lending, lock, runs, gate>>
    BY <1>1, <1>3 DEF HandoffInv, LentAsRecorded, TypeOK, lending
  <2> QED BY <1>1, <1>3, <2>1, PlaceKeeps DEF Locked, Informed, Admitted
<1> QED BY <1>2, <1>3 DEF Confirms

LEMMA ReadsKeeps == ASSUME HandoffInv, NEW u \in Units, Reads(u) PROVE HandoffInv'
<1>1. body \in [Units -> Checkpoints] /\ cp \in Checkpoints
  BY DEF HandoffInv, LentAsRecorded, TypeOK
<1>2. /\ proc[u] = "read" /\ Verified(u) /\ Goes(u, "check") /\ UNCHANGED <<refs, world, lending, gate, lock, runs>>
      /\ body' \in [Units -> Checkpoints] /\ body'[u] = cp /\ \A v \in Units \ {u} : body'[v] = body[v]
  BY <1>1 DEF Reads, At
<1> QED BY <1>2, PlaceKeeps DEF Locked, Informed, Admitted

LEMMA ChecksKeeps == ASSUME HandoffInv, NEW u \in Units, Checks(u) PROVE HandoffInv'
<1>1. /\ body \in [Units -> Checkpoints] /\ body' = body /\ proc[u] = "check" /\ Goes(u, "verify")
      /\ UNCHANGED <<refs, holder, world, lending, gate, lock, runs>>
      /\ u = "serving" => Admissible(u, body[u])
  BY DEF Checks, At, HandoffInv, LentAsRecorded, TypeOK, flock
<1>2. proc[u] \in Informed
  BY <1>1 DEF Informed, Locked
<1>3. u = "serving" => body[u] # "revoked"
  BY <1>1 DEF Admissible, Ordinary
<1> QED BY <1>1, <1>2, <1>3, InformedFacts, PlaceKeeps DEF Locked, Informed, Admitted

LEMMA VerifiesKeeps == ASSUME HandoffInv, NEW u \in Units, Verifies(u) PROVE HandoffInv'
<1>1. PICK q \in {"bind", "pass", "token"} : Goes(u, q) /\ (u = "serving" <=> q = "bind")
  BY DEF Verifies, Units
<1>2. /\ body \in [Units -> Checkpoints] /\ body' = body /\ proc[u] = "verify" /\ Verified(u)
      /\ UNCHANGED <<refs, world, lending, gate, lock, runs>>
      /\ u = "proxy" => Admissible(u, body[u])
  BY DEF Verifies, At, HandoffInv, LentAsRecorded, TypeOK
<1>3. proc[u] \in Informed
  BY <1>2 DEF Informed, Locked
<1>4. body[u] # "revoked"
  BY <1>2, <1>3, InformedFacts DEF Admissible, Ordinary, Units
<1>5. q \in Locked \ {"received", "confirm"} /\ q \in Informed
  BY <1>1 DEF Informed, Locked
<1>6. q \notin IF u = "proxy" THEN {"bind"} ELSE {"token", "unlink", "final", "pass", "passed"}
  BY <1>1 DEF Units
<1> QED BY <1>1, <1>2, <1>3, <1>4, <1>5, <1>6, InformedFacts, PlaceKeeps

\* The steps of the token.
LEMMA TokenKeeps ==
    ASSUME HandoffInv, ReadsToken \/ Unlinks \/ Finishes PROVE HandoffInv'
<1> DEFINE u == "proxy"
<1>1. PICK q \in {"unlink", "final", "pass"} :
          /\ Goes(u, q) /\ proc[u] \in {"token", "unlink", "final"} /\ (Verified(u) \/ UNCHANGED holder)
          /\ UNCHANGED <<refs, world, lending, lock, runs, body>> /\ gate' \in {gate, None}
  BY DEF ReadsToken, Unlinks, Finishes, At, flock
<1>2. body \in [Units -> Checkpoints] /\ u \in Units
  BY DEF HandoffInv, LentAsRecorded, TypeOK, Units
<1>3. proc[u] \in Informed /\ proc[u] \in Admitted /\ q \in Informed /\ q \in Locked \ {"received", "confirm"}
  BY <1>1 DEF Informed, Admitted, Locked
<1> HIDE DEF u
<1>4. u = "proxy"
  BY DEF u
<1> QED BY <1>1, <1>2, <1>3, <1>4, InformedFacts, PlaceKeeps

LEMMA PassesKeeps == ASSUME HandoffInv, Passes PROVE HandoffInv'
<1>1. /\ proc["proxy"] = "pass" /\ Goes("proxy", "passed") /\ Dropped({"proxy"}) /\ "proxy" \in Units
      /\ UNCHANGED <<world, lender, gate, body>> /\ runs' = runs
      /\ runs \in [Units -> {"source", "target", None}]
  BY DEF Passes, At, Units, HandoffInv, LentAsRecorded, TypeOK
<1>2. runs["proxy"] = None /\ None # "source"
  BY <1>1, HandoffAssumption DEF HandoffInv, StartInv
<1> QED BY <1>1, <1>2, DropsKeeps

LEMMA BecomesReadyKeeps == ASSUME HandoffInv, BecomesReady PROVE HandoffInv'
<1>1. /\ proc["serving"] = "bind" /\ Goes("serving", "none") /\ Dropped({"serving"}) /\ "serving" \in Units
      /\ UNCHANGED <<world, lender, gate, body>>
      /\ runs' = [runs EXCEPT !["serving"] = Config(body["serving"])]
      /\ runs \in [Units -> {"source", "target", None}]
  BY DEF BecomesReady, At, Units, HandoffInv, LentAsRecorded, TypeOK
<1>2. runs' \in [Units -> {"source", "target", None}] /\ runs'["serving"] = Config(body["serving"])
      /\ \A v \in Units \ {"serving"} : runs'[v] = runs[v]
  BY <1>1 DEF Config
<1>3. proc["serving"] \in Informed /\ proc["serving"] \in Admitted
  BY <1>1 DEF Informed, Admitted, Locked
<1>4. cp \in Onward => runs'["serving"] # "source"
  BY <1>1, <1>2, <1>3, InformedFacts DEF Onward, Config
<1> QED BY <1>1, <1>2, <1>4, DropsKeeps

\* The proxy reads what is on disk: not the source, once it is revoked.
LEMMA ProxyRunsKeeps == ASSUME HandoffInv, ProxyRuns PROVE HandoffInv'
<1> USE HandoffAssumption
<1>1. LockTyped /\ LockInv /\ RecordInv /\ "proxy" \in Units
  BY HandoffFacts DEF Units
<1>2. /\ proc["proxy"] = "passed" /\ proc' = [proc EXCEPT !["proxy"] = "none"]
      /\ runs' = [runs EXCEPT !["proxy"] = config]
      /\ UNCHANGED <<flock, refs, session, lending, record, lock, body, gate, wanted, opc, role, cp, owner>>
  BY DEF ProxyRuns, At, Goes, world, session, record, flock
<1>3. /\ proc'["proxy"] = "none" /\ lock["proxy"] = None
      /\ \A v \in Units \ {"proxy"} : proc'[v] = proc[v] /\ lock'[v] = lock[v]
  BY <1>1, <1>2 DEF LockTyped, LockInv
<1>4. LockTyped' /\ LockInv'
  BY <1>1, <1>2 DEF LockTyped, LockInv, flock, Locked, Places
<1>5. LendingInv' /\ LentToItsUnit' /\ lender' \in Lenders /\ peer' \in Units \cup {None}
  BY <1>1, <1>2, <1>3, MovesKeepLending
<1>6. /\ runs \in [Units -> {"source", "target", None}] /\ wanted \subseteq Units
      /\ body \in [Units -> Checkpoints]
  BY DEF HandoffInv, LentAsRecorded, TypeOK
<1>7. /\ runs' \in [Units -> {"source", "target", None}] /\ runs'["proxy"] = config
      /\ \A v \in Units \ {"proxy"} : runs'[v] = runs[v]
  BY <1>1, <1>2, <1>6 DEF RecordInv
<1>8. StartInv("proxy")'
  BY <1>2, <1>3 DEF StartInv, Informed, Admitted, Locked
<1>9. cp \in Onward => config # "source"
  BY <1>1, <1>2 DEF HandoffInv, StartInv, RecordInv, Onward, Config
<1> QED BY <1>1, <1>2, <1>3, <1>4, <1>5, <1>6, <1>7, <1>8, <1>9, ProcessKeeps

LEMMA ServiceStopsKeeps == ASSUME HandoffInv, NEW u \in Units, ServiceStops(u) PROVE HandoffInv'
<1> USE HandoffAssumption
<1>1. LockTyped /\ LockInv /\ LendingInv
  BY HandoffFacts
<1>2. /\ runs[u] # None /\ runs' = [runs EXCEPT ![u] = None]
      /\ UNCHANGED <<flock, session, lending, record, gate, wanted, proc, lock, body>>
      /\ UNCHANGED <<refs, opc, role, cp, owner, holder, lender, peer>>
  BY DEF ServiceStops, private, flock, session, lending, record
<1>3. LockTyped' /\ LockInv'
  BY <1>1, <1>2, SessionKeepsLock
<1>4. LendingInv' /\ LentToItsUnit'
  BY <1>1, <1>2 DEF LendingInv, Alone, LentToItsUnit, HandoffInv, LentAsRecorded
<1>5. /\ runs \in [Units -> {"source", "target", None}] /\ wanted \subseteq Units
      /\ body \in [Units -> Checkpoints] /\ lender \in Lenders /\ peer \in Units \cup {None}
  BY DEF HandoffInv, LentAsRecorded, TypeOK
<1>6. StartInv(u)'
  BY <1>2, <1>5 DEF HandoffInv, StartInv
<1> QED BY <1>2, <1>3, <1>4, <1>5, <1>6, ProcessKeeps

\* Every step of a process that systemd starts is one of the above.
LEMMA ProcessStepKeeps ==
    ASSUME HandoffInv, NEW u \in Units, Spawn(u) \/ ProcessStep(u) \/ TimesOut(u) \/ ServiceStops(u)
    PROVE  HandoffInv'
<1>1. CASE Refuses(u) \/ TimesOut(u)
  BY <1>1, EndsKeeps DEF Refuses, TimesOut
<1>2. CASE ReadsToken \/ Unlinks \/ Finishes \/ Passes \/ ProxyRuns \/ BecomesReady
  BY <1>2, TokenKeeps, PassesKeeps, ProxyRunsKeeps, BecomesReadyKeeps
<1>3. CASE Spawn(u) \/ TakesLock(u) \/ Connects(u) \/ Receives(u) \/ Unanswered(u) \/ ServiceStops(u)
  BY <1>3, SpawnKeeps, TakesLockKeeps, ConnectsKeeps, ReceivesKeeps, UnansweredKeeps, ServiceStopsKeeps
<1>4. CASE ChecksHeld(u) \/ Confirms(u) \/ Reads(u) \/ Checks(u) \/ Verifies(u)
  BY <1>4, ChecksHeldKeeps, ConfirmsKeeps, ReadsKeeps, ChecksKeeps, VerifiesKeeps
<1> QED BY <1>1, <1>2, <1>3, <1>4 DEF ProcessStep

-----------------------------------------------------------------------------
(* The Owner and its lending thread.                                       *)

\* A step of the Owner that leaves the lock and the processes alone.
LEMMA SessionKeeps ==
    ASSUME HandoffInv, UNCHANGED <<flock, owner, private, runs>>, opc # "none", opc' # "none",
           role' \in Units \cup {None}, began' \in BOOLEAN, wanted' \subseteq Units,
           lender' \in Lenders, peer' \in Units \cup {None}, cp' \in Checkpoints,
           gate' \in {"source", "target", None},
           LendingInv', LentToItsUnit', TokenNamesTheRecord', RecordInv', SourceStaysRevoked',
           \A u \in Units : StartInv(u)'
    PROVE  HandoffInv'
<1>1. LockTyped /\ LockInv /\ owner \in Owners \cup {None}
  BY HandoffFacts
<1>2. /\ UNCHANGED <<flock, owner, proc, lock, body, runs>> /\ UNCHANGED <<holder, refs>>
      /\ body' = body /\ runs' = runs /\ owner' = owner
  BY DEF private, flock
<1>3. LockTyped' /\ LockInv'
  BY <1>1, <1>2, SessionKeepsLock
<1>4. body \in [Units -> Checkpoints] /\ runs \in [Units -> {"source", "target", None}]
  BY DEF HandoffInv, LentAsRecorded, TypeOK
<1>5. TypeOK'
  BY <1>1, <1>2, <1>3, <1>4 DEF TypeOK, LockTyped, RecordInv
<1> QED BY <1>3, <1>5 DEF HandoffInv, LentAsRecorded

\* Where nothing is lent by the Owner at work, a process that has a lock has
\* it from an Owner that is gone.
LEMMA OwnerAlone ==
    ASSUME HandoffInv, NEW u \in Units, proc[u] \in Locked, Alone
    PROVE  lock[u] \in Owners /\ owner # lock[u]
<1>1. LockTyped /\ LockInv /\ LendingInv /\ owner \in Owners /\ owner \notin Units /\ holder = owner
  BY HandoffFacts DEF Alone
<1>2. lock[u] # u
  BY <1>1 DEF LockInv
<1>3. Lent(u) \notin refs[owner]
  BY <1>1, DescriptorFacts DEF LendingInv, Alone
<1> QED BY <1>1, <1>2, <1>3 DEF LockInv

\* The types of the variables that the Owner's steps change.
LEMMA TypeFacts ==
    ASSUME HandoffInv
    PROVE  /\ role \in Units \cup {None} /\ began \in BOOLEAN /\ wanted \subseteq Units
           /\ lender \in Lenders /\ peer \in Units \cup {None} /\ cp \in Checkpoints
           /\ gate \in {"source", "target", None} /\ body \in [Units -> Checkpoints]
           /\ runs \in [Units -> {"source", "target", None}] /\ proc \in [Units -> Places]
  BY DEF HandoffInv, LentAsRecorded, TypeOK

\* The record goes on from what no process that has a lock has read.
LEMMA CheckpointKeeps ==
    ASSUME HandoffInv, UNCHANGED <<flock, owner, role, lending, private, runs, wanted, gate, config>>,
           cp' \in Checkpoints, began' \in BOOLEAN,
           \/ opc \in {"held", "rotating", "stopped"}
           \/ opc = "started" /\ (role = "proxy" \/ \A u \in Units : runs[u] # None),
           opc' = "failed" \/ (opc' = "held" /\ (opc = "started" => role = "proxy")),
           proc["proxy"] \notin Informed,
           gate = None \/ Config(cp') = Config(cp), cp' # "revoked" => config = Config(cp'),
           cp' \in Onward => cp \in Onward \/ Quiet,
           cp' = "revoked" => gate = None /\ Quiet
    PROVE  HandoffInv'
<1> USE HandoffAssumption
<1>1. LockTyped /\ LockInv /\ LendingInv /\ RecordInv
  BY HandoffFacts
<1>2. /\ UNCHANGED <<holder, refs, owner, role, lender, peer, proc, lock, body, runs, wanted, gate, config>>
      /\ UNCHANGED <<flock, owner, private, runs>>
  BY DEF flock, lending, private
<1>3. LendingInv'
  BY <1>1, <1>2 DEF LendingInv, Alone
<1>4. LentToItsUnit'
  BY <1>2 DEF HandoffInv, LentAsRecorded, LentToItsUnit
<1>5. TokenNamesTheRecord'
  BY <1>2 DEF HandoffInv, LentAsRecorded, TokenNamesTheRecord
<1>6. RecordInv'
  BY <1>1, <1>2 DEF RecordInv
<1>7. SourceStaysRevoked'
  BY <1>2 DEF HandoffInv, SourceStaysRevoked, Quiet
<1>8. ASSUME NEW u \in Units PROVE StartInv(u)'
  <2>1. proc[u] \in Informed => u = "serving" /\ lock[u] \in Owners /\ owner # lock[u]
    <3>1. CASE \A v \in Units : runs[v] # None
      BY <3>1 DEF HandoffInv, StartInv, Informed, Locked
    <3>2. CASE opc \in {"held", "rotating", "stopped"} \/ (opc = "started" /\ role = "proxy")
      BY <3>2, OwnerAlone DEF Alone, Informed, Units
    <3> QED BY <3>1, <3>2
  <2>2. cp' \in Onward /\ proc[u] \in Informed => body[u] \in Onward
    BY DEF HandoffInv, StartInv, Quiet, Informed, Locked
  <2>3. cp' = "revoked" => proc[u] = "none" /\ lock[u] = None
    BY <1>1 DEF Quiet, LockInv
  <2> QED BY <1>2, <2>1, <2>2, <2>3 DEF StartInv, HandoffInv
<1>9. opc # "none" /\ opc' # "none"
  OBVIOUS
<1> QED BY <1>2, <1>3, <1>4, <1>5, <1>6, <1>7, <1>8, <1>9, TypeFacts, SessionKeeps

\* A step of the Owner between two of its places that changes neither the
\* record nor what is lent.
LEMMA PlainKeeps ==
    ASSUME HandoffInv, UNCHANGED <<flock, owner, role, peer, private, runs, wanted, record>>,
           began' \in BOOLEAN, opc # "none", opc' # "none",
           lender' \in Lenders, lender' \in {lender, "none"} \/ (lender = "connected" /\ lender' \in {"admitted", "refused"}),
           lender' # "none" => opc' = "starting",
           gate' \in {gate, None, Config(cp)}, cp = "revoked" \/ opc' = "stopped" => gate' = None,
           opc' \in {"starting", "started"} => opc \in {"starting", "started"},
           Alone' => refs[owner] = {Own},
           opc' = "rotating" => cp = "open", opc' \in {"stopping", "stopped"} => cp = "gated",
           opc' = "rotating" \/ (opc' = "started" /\ role = "proxy") => proc["proxy"] \in {"none", "wait"}
    PROVE  HandoffInv'
<1> USE HandoffAssumption
<1>1. LockTyped /\ LockInv /\ LendingInv /\ RecordInv
  BY HandoffFacts
<1>2. /\ UNCHANGED <<holder, refs, owner, role, peer, proc, lock, body, runs, wanted, config, cp>>
      /\ UNCHANGED <<flock, owner, private, runs>>
  BY DEF flock, private, record
<1>3. LendingInv'
  BY <1>1, <1>2 DEF LendingInv, Alone
<1>4. LentToItsUnit'
  BY <1>2 DEF HandoffInv, LentAsRecorded, LentToItsUnit
<1>5. TokenNamesTheRecord' /\ gate' \in {"source", "target", None}
  BY <1>2, TypeFacts DEF HandoffInv, LentAsRecorded, TokenNamesTheRecord, Config
<1>6. RecordInv'
  BY <1>1, <1>2 DEF RecordInv
<1>7. SourceStaysRevoked'
  BY <1>2 DEF HandoffInv, SourceStaysRevoked
<1>8. ASSUME NEW u \in Units PROVE StartInv(u)'
  BY <1>2 DEF StartInv, HandoffInv
<1> QED BY <1>2, <1>3, <1>4, <1>5, <1>6, <1>7, <1>8, TypeFacts, SessionKeeps

\* The proxy that was seen running before the rotation has no start under way.
LEMMA RotateKeeps == ASSUME HandoffInv, Rotate PROVE HandoffInv'
<1>1. /\ opc = "held" /\ cp = "open" /\ runs["proxy"] = "source" /\ opc' = "rotating" /\ began' = TRUE
      /\ UNCHANGED <<flock, owner, role, peer, lender, private, runs, wanted, record, gate>>
  BY DEF Rotate, lending, Config
<1>2. proc["proxy"] = "none" /\ lender = "none" /\ refs[owner] = {Own}
  BY <1>1, HandoffFacts, HandoffAssumption DEF HandoffInv, StartInv, Units, LendingInv, Alone
<1> QED BY <1>1, <1>2, TypeFacts, PlainKeeps DEF Alone

LEMMA StopSourceKeeps == ASSUME HandoffInv, StopSource PROVE HandoffInv'
<1>1. /\ opc = "held" /\ cp = "gated" /\ opc' = "stopping" /\ began' = began /\ gate' = Config(cp)
      /\ UNCHANGED <<flock, owner, role, peer, lender, private, runs, wanted, record>>
  BY DEF StopSource, lending, GatePublished
<1>2. lender = "none" /\ refs[owner] = {Own}
  BY <1>1, HandoffFacts DEF LendingInv, Alone
<1> QED BY <1>1, <1>2, TypeFacts, PlainKeeps DEF Alone

\* The proxy's command returns with no process of its condition left, and so
\* with nothing lent.
LEMMA StartReturnsKeeps == ASSUME HandoffInv, StartReturns PROVE HandoffInv'
<1>1. /\ opc = "starting" /\ opc' = "started" /\ lender' = "none" /\ began' = began
      /\ role = "proxy" => proc["proxy"] = "none"
      /\ gate' \in {gate, None}
      /\ UNCHANGED <<flock, owner, role, peer, private, runs, wanted, record>>
  BY DEF StartReturns
<1>2. LockInv /\ RecordInv /\ owner \in Owners /\ Own \in refs[owner]
  BY <1>1, HandoffFacts
<1>3. role = "proxy" => refs[owner] = {Own}
  <2> SUFFICES ASSUME role = "proxy" PROVE refs[owner] = {Own}
    OBVIOUS
  <2>1. Lent("proxy") \notin refs[owner] /\ Flight("proxy") \notin refs[owner]
    BY <1>1, <1>2 DEF LockInv, Units, Locked
  <2>2. refs[owner] \subseteq {Own} \cup Descriptors({"proxy"})
    BY <1>2, HandoffAssumption DEF HandoffInv, LentAsRecorded, LentToItsUnit
  <2>3. \A d \in Descriptors({"proxy"}) : d = Flight("proxy") \/ d = Lent("proxy")
    BY DescriptorFacts
  <2> QED BY <1>2, <2>1, <2>2, <2>3
<1>4. cp # "revoked"
  BY <1>1, <1>2 DEF RecordInv
<1>5. "none" \in Lenders
  BY DEF Lenders
<1> QED BY <1>1, <1>3, <1>4, <1>5, TypeFacts, PlainKeeps DEF Alone

LEMMA StartFailsKeeps == ASSUME HandoffInv, StartFails PROVE HandoffInv'
<1>1. /\ opc = "starting" /\ opc' = "failed" /\ lender' = "none" /\ began' = began
      /\ gate' \in {gate, None}
      /\ UNCHANGED <<flock, owner, role, peer, private, runs, wanted, record>>
  BY DEF StartFails
<1>2. cp # "revoked" /\ "none" \in Lenders
  BY <1>1, HandoffFacts DEF RecordInv, Lenders
<1> QED BY <1>1, <1>2, TypeFacts, PlainKeeps DEF Alone

LEMMA LenderAdmitsKeeps == ASSUME HandoffInv, LenderAdmits PROVE HandoffInv'
<1>1. /\ lender = "connected" /\ lender' \in {"admitted", "refused"}
      /\ UNCHANGED <<flock, owner, opc, began, role, peer, private, runs, wanted, record, gate>>
  BY DEF LenderAdmits, session
<1>2. /\ opc = "starting" /\ cp # "revoked" /\ lender' \in Lenders /\ opc' = "starting" /\ began' = began /\ gate' = gate
  BY <1>1, HandoffFacts DEF LendingInv, Alone, RecordInv, Lenders
<1> QED BY <1>1, <1>2, TypeFacts, PlainKeeps DEF Alone

LEMMA CloseGateKeeps == ASSUME HandoffInv, CloseGate PROVE HandoffInv'
<1>1. /\ opc = "rotating" /\ cp' = "gated" /\ opc' = "held" /\ began' = began
      /\ UNCHANGED <<flock, owner, role, lending, private, runs, wanted, gate, config>>
  BY DEF CloseGate
<1>2. cp = "open" /\ config = Config(cp) /\ proc["proxy"] \in {"none", "wait"}
  BY <1>1, HandoffFacts DEF RecordInv, HandoffInv, StartInv, Units
<1>3. cp' \in Checkpoints /\ Config(cp') = Config(cp) /\ cp' \notin Onward /\ proc["proxy"] \notin Informed
  BY <1>1, <1>2 DEF Checkpoints, Config, Onward, Informed, Locked
<1> QED BY <1>1, <1>2, <1>3, TypeFacts, CheckpointKeeps DEF Onward

LEMMA RevokeKeeps == ASSUME HandoffInv, Revoke PROVE HandoffInv'
<1>1. /\ opc = "stopped" /\ began' = began
      /\ UNCHANGED <<flock, owner, role, lending, private, runs, wanted, gate, config>>
  BY DEF Revoke
<1>2. cp = "gated" /\ gate = None /\ lender = "none"
  BY <1>1, HandoffFacts DEF RecordInv, LendingInv, Alone
<1>3. CASE Quiet /\ cp' = "revoked" /\ opc' = "held"
  <2>1. proc["proxy"] \notin Informed /\ cp' \in Checkpoints
    BY <1>3 DEF Quiet, Units, Informed, Locked, Checkpoints
  <2> QED BY <1>1, <1>2, <1>3, <2>1, TypeFacts, CheckpointKeeps
<1>4. CASE opc' = "failed" /\ cp' = cp
  BY <1>1, <1>2, <1>4, TypeFacts, PlainKeeps DEF Alone, record, lending
<1> QED BY <1>3, <1>4 DEF Revoke

LEMMA RestoredKeeps == ASSUME HandoffInv, Restored PROVE HandoffInv'
<1>1. /\ opc = "held" /\ cp = "gated" /\ runs["proxy"] # None /\ cp' = "open" /\ opc' = "failed" /\ began' = began
      /\ UNCHANGED <<flock, owner, role, lending, private, runs, wanted, gate, config>>
  BY DEF Restored
<1>2. config = Config(cp) /\ proc["proxy"] = "none"
  BY <1>1, HandoffFacts DEF RecordInv, HandoffInv, StartInv, Units
<1>3. cp' \in Checkpoints /\ Config(cp') = Config(cp) /\ cp' \notin Onward /\ proc["proxy"] \notin Informed
  BY <1>1, <1>2 DEF Checkpoints, Config, Onward, Informed, Locked
<1> QED BY <1>1, <1>2, <1>3, TypeFacts, CheckpointKeeps DEF Onward

LEMMA AfterStartKeeps == ASSUME HandoffInv, AfterStart PROVE HandoffInv'
<1>1. /\ opc = "started" /\ began' = began
      /\ UNCHANGED <<flock, owner, role, lending, private, runs, wanted, gate, config>>
  BY DEF AfterStart
<1>2. RecordInv /\ LendingInv /\ role \in Units /\ lender = "none"
  BY <1>1, HandoffFacts DEF LendingInv, Alone
<1>3. ASSUME cp \in {"published", "gated"} PROVE role = "proxy" /\ proc["proxy"] \notin Informed /\ config = Config(cp)
  BY <1>1, <1>2, <1>3 DEF RecordInv, Units, HandoffInv, StartInv, Informed, Locked
<1>4. CASE cp = "published" /\ cp' = "started" /\ opc' = "held"
  <2>1. Config(cp') = Config(cp) /\ cp' \in Checkpoints /\ cp \in Onward
    BY <1>4 DEF Config, Checkpoints, Onward
  <2> QED BY <1>1, <1>3, <1>4, <2>1, TypeFacts, CheckpointKeeps
<1>5. CASE cp = "gated" /\ cp' = "open" /\ opc' = "failed"
  <2>1. Config(cp') = Config(cp) /\ cp' \in Checkpoints /\ cp' \notin Onward
    BY <1>5 DEF Config, Checkpoints, Onward
  <2> QED BY <1>1, <1>3, <1>5, <2>1, TypeFacts, CheckpointKeeps
<1>6. CASE cp = "started" /\ opc' = "failed" /\ cp' = "done" /\ \A u \in Units : runs[u] = Config(cp)
  <2>1. Config(cp') = Config(cp) /\ cp' \in Checkpoints /\ cp \in Onward /\ Config(cp) # None
    BY <1>6, HandoffAssumption DEF Config, Checkpoints, Onward
  <2>2. (\A u \in Units : runs[u] # None) /\ config = Config(cp)
    BY <1>2, <1>6, <2>1 DEF RecordInv
  <2>3. proc["proxy"] \notin Informed
    BY <2>2 DEF HandoffInv, StartInv, Units, Informed, Locked
  <2> QED BY <1>1, <1>6, <2>1, <2>2, <2>3, TypeFacts, CheckpointKeeps
<1>7. CASE opc' = "failed" /\ cp' = cp
  <2>1. cp # "revoked"
    BY <1>1, <1>2 DEF RecordInv
  <2> QED BY <1>1, <1>2, <1>7, <2>1, TypeFacts, PlainKeeps DEF Alone, record, lending
<1> QED BY <1>4, <1>5, <1>6, <1>7 DEF AfterStart

LEMMA PublishTargetKeeps == ASSUME HandoffInv, PublishTarget PROVE HandoffInv'
<1> USE HandoffAssumption
<1>1. /\ opc = "held" /\ cp = "revoked" /\ opc' = "held" /\ began' = began /\ role' = role /\ owner' = owner
      /\ UNCHANGED <<flock, owner, role, lending, private, runs, wanted, gate>>
  BY DEF PublishTarget, session
<1>2. LockInv /\ LendingInv /\ RecordInv /\ gate = None
  BY <1>1, HandoffFacts DEF RecordInv
<1>3. \A u \in Units : proc[u] \notin Locked /\ proc[u] # "passed"
  BY <1>1, OwnerAlone DEF Alone, HandoffInv, StartInv
<1>4. CASE config = "target" /\ cp' = "published" /\ config' = config
  <2>1. /\ cp' \in Checkpoints /\ Config(cp') = "target" /\ cp \in Onward
        /\ proc["proxy"] \notin Informed
    BY <1>1, <1>3, <1>4 DEF Config, Checkpoints, Onward, Units, Informed
  <2> QED BY <1>1, <1>2, <1>4, <2>1, TypeFacts, CheckpointKeeps
<1>5. CASE config' = "target" /\ cp' = cp
  <2>1. UNCHANGED <<holder, refs, owner, role, lender, peer, opc, began, proc, lock, body, runs, wanted, gate, cp>>
    BY <1>1, <1>5 DEF flock, lending, private
  <2>2. LendingInv' /\ LentToItsUnit' /\ TokenNamesTheRecord' /\ RecordInv' /\ SourceStaysRevoked'
    BY <1>1, <1>2, <1>5, <2>1
    DEF LendingInv, Alone, LentToItsUnit, TokenNamesTheRecord, RecordInv, SourceStaysRevoked, HandoffInv, LentAsRecorded
  <2>3. \A u \in Units : StartInv(u)'
    BY <2>1 DEF StartInv, HandoffInv
  <2> QED BY <1>1, <2>1, <2>2, <2>3, TypeFacts, SessionKeeps
<1> QED BY <1>4, <1>5 DEF PublishTarget

LEMMA StartProxyKeeps == ASSUME HandoffInv, StartProxy PROVE HandoffInv'
<1> USE HandoffAssumption
<1>1. /\ opc = "held" /\ opc' = "starting" /\ role' = "proxy" /\ lender' = "listening" /\ peer' = None
      /\ UNCHANGED <<owner, began, record, body, flock, private, runs>>
      /\ UNCHANGED <<holder, refs, proc, lock, cp, config>>
      /\ wanted' \subseteq wanted \cup {"proxy"}
      /\ cp # "revoked" /\ gate' \in {gate, Config(cp)}
  BY DEF StartProxy, Offer, GatePublished, Ordinary, record, flock, private
<1>2. LendingInv /\ RecordInv /\ refs[owner] = {Own} /\ "proxy" \in Units
  BY <1>1, HandoffFacts DEF LendingInv, Alone, Units
<1>3. LendingInv' /\ LentToItsUnit' /\ RecordInv' /\ SourceStaysRevoked' /\ lender' \in Lenders
  BY <1>1, <1>2
  DEF LendingInv, Alone, LentToItsUnit, RecordInv, SourceStaysRevoked, HandoffInv, Lenders
<1>4. TokenNamesTheRecord' /\ gate' \in {"source", "target", None}
  BY <1>1, TypeFacts DEF TokenNamesTheRecord, HandoffInv, LentAsRecorded, Config
<1>5. \A u \in Units : StartInv(u)'
  BY <1>1 DEF StartInv, HandoffInv
<1> QED BY <1>1, <1>2, <1>3, <1>4, <1>5, TypeFacts, SessionKeeps

\* The processes of the units in U end while nothing is lent by the Owner, who
\* goes on to a place where it may be starting serving.
LEMMA KilledKeeps ==
    ASSUME HandoffInv, NEW U \in SUBSET Units, Dropped(U), Alone, opc # "started",
           proc' = [u \in Units |-> IF u \in U THEN "none" ELSE proc[u]],
           runs' = [u \in Units |-> IF u \in U THEN None ELSE runs[u]],
           wanted' \subseteq Units, UNCHANGED <<owner, began, record, body>>,
           \/ opc' \in {"stopped", "failed"} /\ role' = role /\ lender' = lender /\ gate' = None
           \/ opc' = "starting" /\ role' = "serving" /\ lender' = "listening" /\ gate' = gate,
           opc' = "stopped" => cp = "gated",
           opc' = "starting" => cp \notin {"revoked", "gated", "published"} /\ U = {"serving"}
    PROVE  HandoffInv'
<1> USE HandoffAssumption
<1>1. /\ LockTyped /\ LockInv /\ LendingInv /\ RecordInv /\ owner \in Owners
      /\ Own \in refs[owner] /\ refs[owner] = {Own}
  BY HandoffFacts DEF Alone, LendingInv
<1>2. /\ \A u \in Units : /\ proc'[u] = IF u \in U THEN "none" ELSE proc[u]
                          /\ runs'[u] = IF u \in U THEN None ELSE runs[u]
                          /\ lock'[u] = IF u \in U THEN None ELSE lock[u]
      /\ proc' \in [Units -> Places] /\ runs' \in [Units -> {"source", "target", None}]
      /\ refs' = [n \in Owners |-> refs[n] \ Descriptors(U)]
      /\ peer' = IF peer \in U THEN None ELSE peer
      /\ owner' = owner /\ cp' = cp /\ config' = config /\ body' = body /\ began' = began
  BY TypeFacts DEF Dropped, Places, record
<1>3. opc # "none" /\ opc' # "none" /\ lender = "none"
  BY <1>1 DEF Alone, LendingInv
<1>4. LockTyped' /\ LockInv'
  <2>1. \A u \in U : proc'[u] \in {"none", "wait", "passed"}
    BY <1>2
  <2>2. \A u \in Units \ U : proc'[u] = proc[u]
    BY <1>2
  <2> QED BY <1>1, <1>2, <1>3, <2>1, <2>2, DroppedKeepsLock
<1>5. refs'[owner] = {Own}
  BY <1>1, <1>2, DescriptorFacts
<1>6. LendingInv' /\ LentToItsUnit' /\ lender' \in Lenders
  BY <1>2, <1>3, <1>5 DEF LendingInv, Alone, LentToItsUnit, Lenders, Units
<1>7. RecordInv' /\ TokenNamesTheRecord' /\ gate' \in {"source", "target", None}
  BY <1>1, <1>2, TypeFacts DEF RecordInv, TokenNamesTheRecord, HandoffInv, LentAsRecorded
<1>8. SourceStaysRevoked'
  BY <1>2 DEF SourceStaysRevoked, HandoffInv
<1>9. \A u \in Units : StartInv(u)'
  BY <1>2 DEF StartInv, HandoffInv, Informed, Admitted, Locked
<1>10. TypeOK'
  BY <1>1, <1>2, <1>4, <1>6, <1>7, TypeFacts DEF TypeOK, LockTyped, RecordInv, Units
<1> QED BY <1>4, <1>6, <1>7, <1>8, <1>9, <1>10 DEF HandoffInv, LentAsRecorded

LEMMA StartServingKeeps == ASSUME HandoffInv, StartServing PROVE HandoffInv'
<1>1. /\ opc = "held" /\ opc' = "starting" /\ role' = "serving" /\ lender' = "listening" /\ gate' = gate
      /\ UNCHANGED <<owner, began, record, body>> /\ Dropped({"serving"})
      /\ cp \notin {"revoked", "gated", "published"}
      /\ proc' = [proc EXCEPT !["serving"] = "none"] /\ runs' = [runs EXCEPT !["serving"] = None]
      /\ wanted' = wanted \cup {"serving"}
  BY DEF StartServing, Offer
<1>2. /\ proc' = [u \in Units |-> IF u \in {"serving"} THEN "none" ELSE proc[u]]
      /\ runs' = [u \in Units |-> IF u \in {"serving"} THEN None ELSE runs[u]]
  BY <1>1, TypeFacts
<1>3. {"serving"} \in SUBSET Units /\ wanted' \subseteq Units /\ Alone
  BY <1>1, TypeFacts DEF Units, Alone
<1> QED BY <1>1, <1>2, <1>3, KilledKeeps

LEMMA SourceStoppedKeeps == ASSUME HandoffInv, SourceStopped \/ StopFails PROVE HandoffInv'
<1>1. PICK U \in SUBSET Units : Killed(U)
  BY DEF SourceStopped, StopFails, Units
<1>2. /\ opc = "stopping" /\ opc' \in {"stopped", "failed"} /\ gate' = None
      /\ UNCHANGED <<owner, began, role, lender, record, body>>
  BY DEF SourceStopped, StopFails
<1>3. Alone /\ cp = "gated" /\ wanted' \subseteq Units
  BY <1>1, <1>2, HandoffFacts, TypeFacts DEF Alone, RecordInv, Killed
<1> QED BY <1>1, <1>2, <1>3, KilledKeeps DEF Killed

\* The Owner is gone: its own descriptor is closed, and the lock stays only
\* with what it lent.
LEMMA LeavesKeeps ==
    ASSUME HandoffInv, opc # "none", AtRest, UNCHANGED <<record, gate, wanted, private, runs>>,
           lender' = "none", peer' \in Units \cup {None},
           refs' \in [Owners -> SUBSET (Descriptors(Units) \cup {Own})],
           \A n \in Owners : refs'[n] \subseteq refs[n] /\ refs[n] \ {Own} \subseteq refs'[n],
           holder' = None \/ (holder' = owner /\ refs'[owner] # {})
    PROVE  HandoffInv'
<1> USE HandoffAssumption
<1>1. /\ LockTyped /\ LockInv /\ LendingInv /\ RecordInv /\ owner \in Owners /\ owner \notin Units
      /\ holder = owner
  BY HandoffFacts
<1>2. /\ UNCHANGED <<proc, lock, body, runs, wanted, gate, cp, config>>
      /\ owner' = None /\ opc' = "none" /\ began' = FALSE /\ role' = None
  BY DEF private, record, AtRest
<1>3. LockTyped'
  BY <1>1, <1>2 DEF LockTyped
<1>4. \A u \in Units : lock[u] # u
  BY <1>1 DEF LockInv
<1>5. ASSUME NEW u \in Units, NEW n \in Owners
      PROVE  /\ Flight(u) \in refs'[n] => Flight(u) \in refs[n]
             /\ Lent(u) \in refs'[n] <=> Lent(u) \in refs[n]
  BY DescriptorFacts
<1>6. LockInv'
  BY <1>1, <1>2, <1>4, <1>5 DEF LockInv
<1>7. LendingInv' /\ LentToItsUnit' /\ RecordInv' /\ TokenNamesTheRecord' /\ SourceStaysRevoked'
  BY <1>1, <1>2
  DEF LendingInv, Alone, LentToItsUnit, RecordInv, TokenNamesTheRecord, SourceStaysRevoked, HandoffInv, LentAsRecorded
<1>8. \A u \in Units : StartInv(u)'
  BY <1>1, <1>2 DEF StartInv, HandoffInv
<1>9. TypeOK'
  BY <1>2, <1>3, <1>7, TypeFacts DEF TypeOK, LockTyped, RecordInv, Lenders
<1> QED BY <1>6, <1>7, <1>8, <1>9, <1>3 DEF HandoffInv, LentAsRecorded

LEMMA OwnerReleasesKeeps == ASSUME HandoffInv, OwnerReleases PROVE HandoffInv'
<1>1. /\ opc \in {"held", "failed"} /\ AtRest /\ Released
      /\ UNCHANGED <<lending, record, gate, wanted, private, runs>>
  BY DEF OwnerReleases
<1>2. LockTyped /\ LendingInv /\ owner \in Owners /\ holder = owner
  BY <1>1, HandoffFacts
<1>3. lender' = "none" /\ peer' \in Units \cup {None}
  BY <1>1, <1>2, TypeFacts DEF LendingInv, lending
<1>4. /\ holder' = None
      /\ refs' \in [Owners -> SUBSET (Descriptors(Units) \cup {Own})]
      /\ \A n \in Owners : refs'[n] \subseteq refs[n] /\ refs[n] \ {Own} \subseteq refs'[n]
  BY <1>1, <1>2 DEF Released, LockTyped
<1> QED BY <1>1, <1>3, <1>4, LeavesKeeps

LEMMA OwnerKilledKeeps == ASSUME HandoffInv, OwnerKilled PROVE HandoffInv'
<1>1. /\ owner # None /\ AtRest /\ Closed({Own}) /\ lender' = "none" /\ peer' = None
      /\ UNCHANGED <<record, gate, wanted, private, runs>>
  BY DEF OwnerKilled
<1>2. LockTyped /\ opc # "none" /\ owner \in Owners /\ holder = owner
  BY <1>1, HandoffFacts DEF LockInv
<1>3. /\ \A n \in Owners : refs'[n] = refs[n] \ {Own}
      /\ refs' \in [Owners -> SUBSET (Descriptors(Units) \cup {Own})]
      /\ holder' = None \/ (holder' = owner /\ refs'[owner] # {})
  BY <1>1, <1>2 DEF Closed, LockTyped
<1> QED BY <1>1, <1>2, <1>3, LeavesKeeps

LEMMA OwnerAcquiresKeeps == ASSUME HandoffInv, NEW n \in Owners, OwnerAcquires(n) PROVE HandoffInv'
<1> USE HandoffAssumption
<1>1. LockTyped /\ LockInv /\ LendingInv /\ RecordInv
  BY HandoffFacts
<1>2. /\ owner = None /\ holder = None /\ refs[n] = {} /\ holder' = n /\ refs' = [refs EXCEPT ![n] = {Own}]
      /\ owner' = n /\ opc' = "held"
      /\ UNCHANGED <<began, role, lender, peer, cp, config, gate, wanted, proc, lock, body, runs>>
  BY DEF OwnerAcquires, lending, record, private
<1>3. opc = "none" /\ lender = "none" /\ n # None /\ refs'[n] = {Own} /\ \A m \in Owners \ {n} : refs'[m] = refs[m]
  BY <1>1, <1>2 DEF LockInv, LendingInv, LockTyped
<1>4. LockTyped'
  BY <1>1, <1>2, <1>3 DEF LockTyped
<1>5. \A u \in Units : lock[u] # u
  BY <1>1, <1>2 DEF LockInv
<1>6. ASSUME NEW u \in Units, NEW m \in Owners
      PROVE  /\ Flight(u) \in refs'[m] <=> Flight(u) \in refs[m]
             /\ Lent(u) \in refs'[m] <=> Lent(u) \in refs[m]
  BY <1>2, <1>3, DescriptorFacts
<1>7. LockInv'
  BY <1>1, <1>2, <1>3, <1>5, <1>6 DEF LockInv
<1>8. LendingInv' /\ LentToItsUnit' /\ RecordInv' /\ TokenNamesTheRecord' /\ SourceStaysRevoked'
  BY <1>1, <1>2, <1>3
  DEF LendingInv, Alone, LentToItsUnit, RecordInv, TokenNamesTheRecord, SourceStaysRevoked, HandoffInv, LentAsRecorded
<1>9. ASSUME NEW u \in Units PROVE StartInv(u)'
  <2>1. proc[u] \in Locked => lock[u] # n
    BY <1>1, <1>2 DEF LockInv
  <2> QED BY <1>2, <2>1 DEF StartInv, HandoffInv, Informed
<1>10. TypeOK'
  BY <1>2, <1>3, <1>4, <1>8, TypeFacts DEF TypeOK, LockTyped, RecordInv
<1> QED BY <1>4, <1>7, <1>8, <1>9, <1>10 DEF HandoffInv, LentAsRecorded

\* The descriptor goes to the unit that is started, which waits for it.
LEMMA LenderSendsKeeps == ASSUME HandoffInv, LenderSends PROVE HandoffInv'
<1> USE HandoffAssumption
<1>1. /\ LockTyped /\ LockInv /\ LendingInv /\ RecordInv
      /\ lender = "admitted" /\ opc = "starting" /\ owner \in Owners /\ role \in Units /\ cp # "revoked"
  BY HandoffFacts DEF LenderSends, LendingInv, RecordInv
<1>2. /\ UNCHANGED <<holder, session, peer, record, gate, wanted, private, runs>>
      /\ UNCHANGED <<owner, opc, began, role, cp, config, proc, lock, body>>
  BY DEF LenderSends, session, record, private
<1>3. CASE lender' = "refused" /\ UNCHANGED refs
  <2>1. LendingInv' /\ LentToItsUnit' /\ lender' \in Lenders
    BY <1>1, <1>2, <1>3 DEF LendingInv, Alone, LentToItsUnit, HandoffInv, LentAsRecorded, Lenders
  <2>2. RecordInv' /\ TokenNamesTheRecord' /\ SourceStaysRevoked'
    BY <1>1, <1>2 DEF RecordInv, TokenNamesTheRecord, SourceStaysRevoked, HandoffInv, LentAsRecorded
  <2>3. \A u \in Units : StartInv(u)'
    BY <1>2 DEF StartInv, HandoffInv
  <2>4. UNCHANGED <<flock, owner, private, runs>>
    BY <1>2, <1>3 DEF flock
  <2> QED BY <1>1, <1>2, <2>1, <2>2, <2>3, <2>4, TypeFacts, SessionKeeps
<1>4. CASE peer = role /\ lender' = "sent" /\ refs' = [refs EXCEPT ![owner] = @ \cup {Flight(peer)}]
  <2>1. peer \in Units /\ proc[peer] = "asked" /\ lock[peer] = owner
    BY <1>1, <1>4 DEF LendingInv
  <2>2. /\ refs'[owner] = refs[owner] \cup {Flight(peer)} /\ \A n \in Owners \ {owner} : refs'[n] = refs[n]
        /\ Flight(peer) \in Descriptors(Units) /\ Flight(peer) \in Descriptors({role})
    BY <1>1, <1>4, <2>1, DescriptorFacts DEF LockTyped
  <2>3. LockTyped'
    BY <1>1, <1>2, <1>4, <2>2 DEF LockTyped
  <2>4. ASSUME NEW u \in Units, NEW n \in Owners
        PROVE  /\ Flight(u) \in refs'[n] => Flight(u) \in refs[n] \/ (u = peer /\ n = owner)
               /\ Lent(u) \in refs'[n] <=> Lent(u) \in refs[n]
    BY <2>2, DescriptorFacts
  <2>5. LockInv'
    BY <1>1, <1>2, <2>1, <2>2, <2>4 DEF LockInv
  <2>6. LendingInv' /\ LentToItsUnit'
    BY <1>1, <1>2, <1>4, <2>2 DEF LendingInv, Alone, LentToItsUnit, HandoffInv, LentAsRecorded
  <2>7. RecordInv' /\ TokenNamesTheRecord' /\ SourceStaysRevoked'
    BY <1>1, <1>2 DEF RecordInv, TokenNamesTheRecord, SourceStaysRevoked, HandoffInv, LentAsRecorded
  <2>8. \A u \in Units : StartInv(u)'
    BY <1>2 DEF StartInv, HandoffInv
  <2>9. TypeOK'
    BY <1>1, <1>2, <1>4, <2>3, TypeFacts DEF TypeOK, LockTyped, RecordInv, Lenders
  <2> QED BY <2>5, <2>6, <2>7, <2>8, <2>9 DEF HandoffInv, LentAsRecorded
<1> QED BY <1>3, <1>4 DEF LenderSends, PeerAccepted

-----------------------------------------------------------------------------
(* The theorems.                                                           *)

\* Nothing is locked and the source runs before anything happens.
LEMMA HandoffInvInit == Init => HandoffInv
<1> SUFFICES ASSUME Init PROVE HandoffInv
  OBVIOUS
<1> USE HandoffAssumption DEF Init
<1>1. TypeOK
  BY DEF TypeOK, Lenders, Places, Checkpoints
<1>2. LentToItsUnit /\ TokenNamesTheRecord /\ SourceStaysRevoked
  BY DEF LentToItsUnit, TokenNamesTheRecord, SourceStaysRevoked, Onward
<1>3. LockInv /\ LendingInv /\ RecordInv
  BY DEF LockInv, LendingInv, Alone, RecordInv, Locked, Config
<1>4. \A u \in Units : StartInv(u)
  BY DEF StartInv, Informed, Admitted, Locked
<1> QED BY <1>1, <1>2, <1>3, <1>4 DEF HandoffInv, LentAsRecorded

\* Every step of Next is one of the above.
LEMMA HandoffStep == HandoffInv /\ [Next]_vars => HandoffInv'
<1> SUFFICES ASSUME HandoffInv, [Next]_vars PROVE HandoffInv'
  OBVIOUS
<1>1. CASE UNCHANGED vars
  <2>1. UNCHANGED <<holder, refs, owner, opc, began, role, lender, peer, cp, config, gate, wanted, proc, lock, body, runs>>
    BY <1>1 DEF vars, flock, session, lending, record, private
  <2>2. TypeOK' /\ LentToItsUnit' /\ TokenNamesTheRecord' /\ SourceStaysRevoked'
    BY <2>1 DEF HandoffInv, LentAsRecorded, TypeOK, LentToItsUnit, TokenNamesTheRecord, SourceStaysRevoked
  <2>3. LockInv' /\ LendingInv' /\ RecordInv'
    BY <2>1 DEF HandoffInv, LockInv, LendingInv, Alone, RecordInv
  <2>4. \A u \in Units : StartInv(u)'
    BY <2>1 DEF HandoffInv, StartInv
  <2> QED BY <2>2, <2>3, <2>4 DEF HandoffInv, LentAsRecorded
<1>2. CASE \E n \in Owners : OwnerAcquires(n)
  BY <1>2, OwnerAcquiresKeeps
<1>3. CASE OwnerStep
  BY <1>3, RotateKeeps, CloseGateKeeps, StopSourceKeeps, SourceStoppedKeeps, RevokeKeeps, PublishTargetKeeps,
     StartProxyKeeps, StartServingKeeps, StartReturnsKeeps, StartFailsKeeps, AfterStartKeeps, RestoredKeeps,
     OwnerReleasesKeeps
  DEF OwnerStep
<1>4. CASE LenderStep
  BY <1>4, LenderAdmitsKeeps, LenderSendsKeeps DEF LenderStep
<1>5. CASE \E u \in Units : Spawn(u) \/ ProcessStep(u) \/ TimesOut(u)
  BY <1>5, ProcessStepKeeps
<1>6. CASE Fault
  BY <1>6, SourceStoppedKeeps, OwnerKilledKeeps, ProcessStepKeeps DEF Fault
<1> QED BY <1>1, <1>2, <1>3, <1>4, <1>5, <1>6 DEF Next

\* The inductive invariant holds throughout: every descriptor of the lock is
\* accounted for, the record moves on only where no process goes by what it
\* said before, and what runs is what the record selects.
THEOREM HandoffInvariant == Spec => []HandoffInv
  BY HandoffInvInit, HandoffStep, PTL DEF Spec

\* The lock is lent only to the unit that is started, a lock that is held has
\* somebody who holds it, and the token left for a start names the record's
\* configuration (runtime_handoff.rs, gate.rs).
THEOREM LentAsRecordedAlways == Spec => []LentAsRecorded
<1>1. HandoffInv => LentAsRecorded
  BY DEF HandoffInv
<1> QED BY <1>1, HandoffInvariant, PTL

\* From "source revoked" on no unit runs with the source, however its start
\* was delayed (runtime/proxy.rs, runtime/serving.rs).
THEOREM SourceRevokedForGood == Spec => []SourceStaysRevoked
<1>1. HandoffInv => SourceStaysRevoked
  BY DEF HandoffInv
<1> QED BY <1>1, HandoffInvariant, PTL

\* A start is authorized by what the record says at that moment; serving is
\* excepted once the Owner that lent its lock is gone.
THEOREM StartsAuthorized == Spec => AuthorizedByTheRecord
<1>1. HandoffInv /\ [Next]_vars =>
        [\A u \in Units :
            (At(u, "pass") /\ proc'[u] = "passed") \/ (At(u, "bind") /\ runs'[u] # None /\ runs[u] = None) =>
                cp = body[u] \/ (u = "serving" /\ lock[u] \in Owners /\ owner # lock[u])]_vars
  <2> SUFFICES ASSUME HandoffInv, NEW u \in Units, At(u, "pass") \/ At(u, "bind")
               PROVE  cp = body[u] \/ (u = "serving" /\ lock[u] \in Owners /\ owner # lock[u])
    OBVIOUS
  <2>1. proc[u] \in Informed
    BY DEF At, Informed, Locked
  <2> QED BY <2>1, InformedFacts
<1> QED BY <1>1, HandoffInvariant, PTL DEF Spec, AuthorizedByTheRecord
=============================================================================
