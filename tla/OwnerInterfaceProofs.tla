----------------------- MODULE OwnerInterfaceProofs -----------------------
(***************************************************************************)
(* Proofs about OwnerInterface, for any number of terminals, changes and   *)
(* restorations: the invariants AlwaysFinishable and ReviewHolds from the  *)
(* inductive invariant OwnerInv, and the action property                   *)
(* ChangesAreReviewed.                                                     *)
(***************************************************************************)
EXTENDS OwnerInterface, SequenceTheorems, TLAPS

-----------------------------------------------------------------------------
(* Records and what is offered for them.                                   *)

\* The records without an identity of their own.
LEMMA BareFacts ==
    ASSUME NEW k \in {"none", "https"} \cup Removing
    PROVE  Bare(k) \in Records /\ Bare(k).kind = k
  BY DEF Records, Bare

\* What the fields of a record hold.
LEMMA RecordFacts ==
    ASSUME NEW r \in Records
    PROVE  /\ r.kind \in {"none", "https", "cleanup", "finish", "running", "http", "identity"} \cup Removing
           /\ r.tunnel \in BOOLEAN /\ r.id \in 0..MaxGen /\ r.was \in 0..MaxGen
<1>1. 0 \in 0..MaxGen /\ 1..MaxGen \subseteq 0..MaxGen
  BY OwnerAssumption
<1>2. CASE r \in {Bare(k) : k \in {"none", "https"} \cup Removing}
  <2>1. PICK k \in {"none", "https"} \cup Removing : r = Bare(k)
    BY <1>2
  <2> QED BY <1>1, <2>1 DEF Bare
<1>3. CASE r \in [kind : {"cleanup", "finish", "running"}, tunnel : BOOLEAN, id : 0..MaxGen, was : {0}]
  BY <1>1, <1>3
<1>4. CASE r \in [kind : {"http", "identity"}, tunnel : BOOLEAN, id : 1..MaxGen, was : 0..MaxGen]
  BY <1>1, <1>4
<1> QED BY <1>2, <1>3, <1>4 DEF Records

\* A setup or a running proxy moves on to another such kind.
LEMMA MoveOnFacts ==
    ASSUME NEW r \in Records, r.kind \in {"cleanup", "finish", "running"},
           NEW k \in {"cleanup", "finish", "running"}, NEW i \in 0..MaxGen
    PROVE  /\ [r EXCEPT !.kind = k] \in Records /\ [r EXCEPT !.kind = k].kind = k
           /\ [r EXCEPT !.id = i] \in Records /\ [r EXCEPT !.id = i].kind = r.kind
<1>1. r \in [kind : {"cleanup", "finish", "running"}, tunnel : BOOLEAN, id : 0..MaxGen, was : {0}]
  BY DEF Records, Bare, Removing
<1> QED BY <1>1 DEF Records

\* A journey that begins writes a well-formed record of its kind.
LEMMA ChangeFacts ==
    ASSUME NEW k \in {"cleanup", "http", "identity"}, NEW b \in BOOLEAN, NEW i \in 1..MaxGen,
           NEW w \in 0..MaxGen, k = "cleanup" => w = 0
    PROVE  LET n == [kind |-> k, id |-> i, tunnel |-> b, was |-> w]
           IN  n \in Records /\ n.kind = k
  BY DEF Records

\* A change that ends, either way, leaves a running installation.
LEMMA EndFacts ==
    ASSUME NEW r \in Records, r.kind \in {"http", "identity"}, NEW i \in {r.id, r.was}
    PROVE  LET n == [r EXCEPT !.kind = "running", !.id = i, !.was = 0]
           IN  n \in Records /\ n.kind = "running"
<1>1. r \in [kind : {"http", "identity"}, tunnel : BOOLEAN, id : 1..MaxGen, was : 0..MaxGen]
  BY DEF Records, Bare, Removing
<1>2. i \in 0..MaxGen
  BY <1>1, OwnerAssumption
<1> QED BY <1>1, <1>2 DEF Records

\* What a journey offers for a record is an action that fits it.
LEMMA LegalFits ==
    ASSUME NEW r \in Records, NEW j \in Journeys, NEW a \in Legal(j, r)
    PROVE  a \in Actions /\ Fits(a, r.kind)
<1>1. a \in Accepts(j)
  BY DEF Legal
<1>2. a \in Actions
  BY <1>1 DEF Actions
<1>3. CASE r.kind \in Pending /\ a = Finishing(r.kind)
  <2>1. /\ r.kind = "cleanup" => a = "FinishCleanup"
        /\ r.kind = "finish" => a = "FinishSetup"
        /\ r.kind = "http" => a = "FinishSubscriptionChange"
        /\ r.kind = "identity" => a = "FinishClientIdentityRotation"
        /\ r.kind \in {"removal", "finalizer"} => a = "FinishRemoval"
    BY <1>3 DEF Finishing, Removing
  <2> QED BY <1>2, <1>3, <2>1 DEF Pending, Fits, Removing
<1>4. CASE a \in DOMAIN Begins /\ CASE j \in {"Standard", "Tunnel"} -> r.kind = "none"
                                    [] j \in {"Http", "Identity"} -> r.kind = "running"
                                    [] j = "Removal" -> r.kind \notin Removing
  <2>1. a \in {"StartSetup", "ChangeSubscription", "RotateClientIdentity", "CompleteRemoval"}
    BY <1>4 DEF Begins
  <2>2. /\ a = "StartSetup" => j \in {"Standard", "Tunnel"}
        /\ a = "ChangeSubscription" => j = "Http"
        /\ a = "RotateClientIdentity" => j = "Identity"
    BY <1>1 DEF Accepts, Journeys
  <2> QED BY <1>2, <1>4, <2>1, <2>2 DEF Fits
<1>5. CASE a = "ShowClientConfiguration" /\ r.kind \in {"running", "https"}
  BY <1>2, <1>5 DEF Fits
<1>6. CASE a \in {"CheckVmessTunnel", "MarkSubscriptionCompromised"} /\ r.kind = "running"
  BY <1>2, <1>6 DEF Fits
<1> QED BY <1>2, <1>3, <1>4, <1>5, <1>6 DEF Legal

\* At most five journeys are asked.
LEMMA AllowedTyped ==
    ASSUME NEW r \in Records PROVE Allowed(r) \in Seq(Journeys) /\ Len(Allowed(r)) <= 5
<1> DEFINE first == IF r.tunnel THEN <<"Tunnel">> ELSE <<>>
           rest == <<"Http", "Identity", "Disclosure", "Removal">>
<1>0. "Tunnel" \in Journeys /\ "Http" \in Journeys /\ "Identity" \in Journeys
      /\ "Disclosure" \in Journeys /\ "Removal" \in Journeys /\ "Standard" \in Journeys
  BY DEF Journeys
<1>1. first \in Seq(Journeys) /\ rest \in Seq(Journeys) /\ Len(first) <= 1 /\ Len(rest) = 4
  <2>1. <<"Tunnel">> \in Seq(Journeys) /\ <<>> \in Seq(Journeys)
    BY <1>0
  <2>2. rest \in Seq(Journeys)
    BY <1>0
  <2> QED BY <2>1, <2>2
<1>2. CASE r.kind = "running"
  <2>1. Allowed(r) = first \o rest
    BY <1>2 DEF Allowed, Removing
  <2> HIDE DEF first, rest
  <2>2. Len(first) \in Nat
    BY <1>1, LenProperties
  <2>3. first \o rest \in Seq(Journeys) /\ Len(first \o rest) = Len(first) + Len(rest)
    BY <1>1, ConcatProperties
  <2> QED BY <1>1, <2>1, <2>2, <2>3
<1>3. CASE r.kind # "running"
  <2> HIDE DEF first, rest
  <2>1. CASE r.kind \in Removing
    <3>1. Allowed(r) = <<"Removal">>
      BY <2>1 DEF Allowed, Removing
    <3> QED BY <1>0, <3>1
  <2>2. CASE r.kind = "none"
    <3>1. Allowed(r) = <<"Standard", "Tunnel", "Removal">>
      BY <2>2 DEF Allowed, Removing
    <3> QED BY <1>0, <3>1
  <2>3. CASE r.kind \in {"cleanup", "finish"}
    <3>1. Allowed(r) = <<IF r.tunnel THEN "Tunnel" ELSE "Standard", "Removal">>
      BY <2>3 DEF Allowed, Removing
    <3> QED BY <1>0, <3>1
  <2>4. CASE r.kind = "https"
    <3>1. Allowed(r) = <<"Disclosure">>
      BY <2>4 DEF Allowed, Removing
    <3> QED BY <1>0, <3>1
  <2>5. CASE r.kind = "identity"
    <3>1. Allowed(r) = <<"Identity", "Removal">>
      BY <2>5 DEF Allowed, Removing
    <3> QED BY <1>0, <3>1
  <2>6. CASE r.kind = "http"
    <3>1. Allowed(r) = <<"Http", "Disclosure", "Removal">>
      BY <2>6 DEF Allowed, Removing
    <3> QED BY <1>0, <3>1
  <2> QED BY <1>3, <2>1, <2>2, <2>3, <2>4, <2>5, <2>6, RecordFacts
<1> QED BY <1>2, <1>3

\* The journeys a terminal is told about.
LEMMA AnswerFacts ==
    ASSUME NEW t \in Terminals, rec \in Records
    PROVE  /\ Answer(t) \in Seq(Journeys) /\ Range(Answer(t)) \subseteq Journeys
           /\ Len(Answer(t)) <= 5
<1>1. Answer(t) \in Seq(Journeys) /\ Len(Answer(t)) <= 5
  BY AllowedTyped DEF Answer
<1> QED BY <1>1 DEF Range

\* Of a few positions one is the first.
LEMMA FirstOfFive ==
    ASSUME NEW S, S \subseteq 1..5, S # {} PROVE \E i \in S : \A k \in S : i <= k
<1>1. CASE 1 \in S
  BY <1>1
<1>2. CASE 1 \notin S /\ 2 \in S
  BY <1>2
<1>3. CASE 1 \notin S /\ 2 \notin S /\ 3 \in S
  BY <1>3
<1>4. CASE 1 \notin S /\ 2 \notin S /\ 3 \notin S /\ 4 \in S
  BY <1>4
<1>5. CASE 1 \notin S /\ 2 \notin S /\ 3 \notin S /\ 4 \notin S
  <2>1. \A k \in S : k = 5
    BY <1>5
  <2>2. 5 \in S
    BY <2>1
  <2> QED BY <2>1, <2>2
<1> QED BY <1>1, <1>2, <1>3, <1>4, <1>5

-----------------------------------------------------------------------------
(* What a step of a terminal has to show.                                  *)

\* The step is t's: the others stay where they are, with what they hold.
OnlyMoves(t) ==
    \A u \in Terminals \ {t} :
        /\ pc'[u] = pc[u] /\ goal'[u] = goal[u] /\ route'[u] = route[u] /\ basis'[u] = basis[u]
        /\ (lock = u => lock' = u) /\ (writer = u => writer' = u)

\* The others are not disturbed: the host changes only under both locks.
LEMMA StepKeeps ==
    ASSUME OwnerInv, NEW t \in Terminals, OnlyMoves(t), TypeOK', ProgramInv',
           UNCHANGED <<rec, exe, inst>> \/ (lock = t /\ writer = t),
           Excluded(t)', PreparedFor(t)'
    PROVE  OwnerInv'
<1>1. ASSUME NEW u \in Terminals, u # t PROVE Excluded(u)' /\ PreparedFor(u)'
  <2>1. /\ pc'[u] = pc[u] /\ goal'[u] = goal[u] /\ route'[u] = route[u] /\ basis'[u] = basis[u]
        /\ (lock = u => lock' = u) /\ (writer = u => writer' = u)
        /\ Excluded(u) /\ PreparedFor(u)
    BY <1>1 DEF OnlyMoves, OwnerInv
  <2>2. Excluded(u)'
    BY <2>1 DEF Excluded
  <2>3. CASE UNCHANGED <<rec, exe, inst>>
    BY <2>1, <2>2, <2>3 DEF PreparedFor
  <2>4. CASE lock = t /\ writer = t
    <3>1. /\ pc[u] \notin {"compare", "run", "restore", "finisher"}
          /\ ~(pc[u] \in {"review", "ask", "acquire"} /\ route[u] \in Retaining)
      BY <1>1, <2>1, <2>4 DEF Excluded
    <3> QED BY <2>1, <2>2, <3>1 DEF PreparedFor
  <2> QED BY <2>3, <2>4
<1> QED BY <1>1 DEF OwnerInv

\* A terminal that begins afresh, its locks given back or never taken.
LEMMA AfreshKeeps ==
    ASSUME OwnerInv, NEW t \in Terminals, NEW p \in {"frame", "gone"}, Afresh(t, p),
           UNCHANGED <<host, made>>, proof' \in [Terminals -> 0..MaxImages],
           Released(t) \/ UNCHANGED locks
    PROVE  OwnerInv'
<1> USE DEF OwnerInv
<1>1. OnlyMoves(t) /\ pc'[t] = p
  BY DEF OnlyMoves, Afresh, Released, locks, TypeOK
<1>2. lock' \in {lock, None} /\ writer' \in {writer, None} /\ UNCHANGED <<rec, exe, inst, image, made>>
  BY DEF Released, locks, host
<1>3. TypeOK'
  <2>1. /\ pc' \in [Terminals -> {"gone", "frame", "menu", "select", "open", "review", "ask", "acquire",
                                 "compare", "run", "recover", "download", "reopen", "restore",
                                 "finisher"}]
        /\ goal' \in [Terminals -> Actions \cup {"Status", "Done", "Removed"}]
        /\ menu' \in [Terminals -> SUBSET Actions]
        /\ route' \in [Terminals -> Journeys \cup {None}]
        /\ basis' \in [Terminals -> Reviews \cup {None}]
    BY DEF Afresh, TypeOK
  <2> QED BY <1>2, <2>1 DEF TypeOK
<1>4. ProgramInv'
  BY <1>2 DEF ProgramInv, NoOrphanRecord
<1>5. Excluded(t)' /\ PreparedFor(t)'
  BY <1>1 DEF Excluded, PreparedFor
<1> QED BY <1>1, <1>2, <1>3, <1>4, <1>5, StepKeeps

\* One lemma per action of a terminal.  One that is refused or gone gives up
\* what it holds and changes no record.
LEMMA RefusedKeeps ==
    ASSUME OwnerInv, NEW t \in Terminals, Refused(t) \/ Gone(t) PROVE OwnerInv'
  BY AfreshKeeps DEF Refused, Gone, OwnerInv, TypeOK

\* A terminal that moves on with the host as it is.
LEMMA MovesKeeps ==
    ASSUME OwnerInv, NEW t \in Terminals,
           NEW p \in {"menu", "select", "open", "review", "ask", "acquire", "compare", "run", "recover",
                      "download", "reopen", "restore"},
           Steps(t, p), OnlyMoves(t),
           {lock', writer'} \subseteq Terminals \cup {None},
           goal' \in [Terminals -> Actions \cup {"Status", "Done", "Removed"}],
           menu' \in [Terminals -> SUBSET Actions],
           route' \in [Terminals -> Journeys \cup {None}],
           basis' \in [Terminals -> Reviews \cup {None}],
           Excluded(t)', PreparedFor(t)'
    PROVE  OwnerInv'
<1> USE DEF OwnerInv
<1>1. UNCHANGED <<rec, exe, inst, image, proof, made>>
  BY DEF Steps, host
<1>2. TypeOK'
  <2>1. pc' \in [Terminals -> {"gone", "frame", "menu", "select", "open", "review", "ask", "acquire",
                              "compare", "run", "recover", "download", "reopen", "restore", "finisher"}]
    BY DEF Steps, TypeOK
  <2> QED BY <1>1, <2>1 DEF TypeOK
<1>3. ProgramInv'
  BY <1>1 DEF ProgramInv, NoOrphanRecord
<1> QED BY <1>1, <1>2, <1>3, StepKeeps

-----------------------------------------------------------------------------
(* Menu and review.                                                        *)

\* No terminal has started and no lock is held.
LEMMA OwnerInvInit == Init => OwnerInv
<1> SUFFICES ASSUME Init PROVE OwnerInv
  OBVIOUS
<1>1. rec \in Records
  <2>1. CASE rec \in {Bare("none"), Bare("https")}
    BY <2>1, BareFacts
  <2>2. CASE rec \in [kind : {"running"}, tunnel : BOOLEAN, id : {0}, was : {0}]
    BY <2>2, OwnerAssumption DEF Records
  <2> QED BY <2>1, <2>2 DEF Init
<1>2. TypeOK
  BY <1>1, OwnerAssumption DEF Init, TypeOK
<1>3. ProgramInv
  BY DEF Init, ProgramInv, NoOrphanRecord
<1>4. \A t \in Terminals : pc[t] = "gone"
  BY DEF Init
<1>5. \A t \in Terminals : Excluded(t) /\ PreparedFor(t)
  BY <1>4 DEF Excluded, PreparedFor
<1> QED BY <1>2, <1>3, <1>5 DEF OwnerInv

LEMMA StartKeeps == ASSUME OwnerInv, NEW t \in Terminals, Start(t) PROVE OwnerInv'
<1>1. proof' \in [Terminals -> 0..MaxImages]
  BY DEF Start, OwnerInv, TypeOK
<1>2. Afresh(t, "frame") /\ UNCHANGED <<host, made>> /\ UNCHANGED locks
  BY DEF Start
<1> QED BY <1>1, <1>2, AfreshKeeps

LEMMA TakeOverKeeps == ASSUME OwnerInv, NEW t \in Terminals, TakeOver(t) PROVE OwnerInv'
<1>1. proof' \in [Terminals -> 0..MaxImages]
  BY DEF TakeOver, OwnerInv, TypeOK
<1>2. Afresh(t, "frame") /\ UNCHANGED <<host, made>> /\ Released(t)
  BY DEF TakeOver
<1> QED BY <1>1, <1>2, AfreshKeeps

LEMMA FrameKeeps == ASSUME OwnerInv, NEW t \in Terminals, Frame(t) PROVE OwnerInv'
<1> USE DEF OwnerInv
<1>1. UNION {Legal(j, rec) : j \in Range(Answer(t))} \subseteq Actions
  BY AnswerFacts, LegalFits DEF TypeOK
<1>2. menu' \in [Terminals -> SUBSET Actions]
  BY <1>1 DEF Frame, TypeOK
<1>3. Steps(t, "menu") /\ UNCHANGED <<lock, writer, goal, route, basis>>
  BY DEF Frame, locks
<1>4. OnlyMoves(t) /\ pc'[t] = "menu"
  BY <1>3 DEF OnlyMoves, Steps, TypeOK
<1>5. Excluded(t)' /\ PreparedFor(t)'
  BY <1>4 DEF Excluded, PreparedFor
<1> QED BY <1>2, <1>3, <1>4, <1>5, MovesKeeps DEF TypeOK

\* The Owner chooses from the menu that was shown.
LEMMA ChooseKeeps ==
    ASSUME OwnerInv, NEW t \in Terminals, NEW a \in Actions, Choose(t, a) PROVE OwnerInv'
<1> USE DEF OwnerInv
<1>1. Steps(t, "select") /\ UNCHANGED <<lock, writer, route, basis>>
  BY DEF Choose, locks
<1>2. /\ goal' \in [Terminals -> Actions \cup {"Status", "Done", "Removed"}]
      /\ menu' \in [Terminals -> SUBSET Actions]
  BY DEF Choose, TypeOK
<1>3. OnlyMoves(t) /\ pc'[t] = "select"
  BY <1>1 DEF Choose, OnlyMoves, Steps, TypeOK
<1>4. Excluded(t)' /\ PreparedFor(t)'
  BY <1>3 DEF Excluded, PreparedFor
<1> QED BY <1>1, <1>2, <1>3, <1>4, MovesKeeps DEF TypeOK

\* The journey that has the choice is one of the journeys.
LEMMA SelectKeeps ==
    ASSUME OwnerInv, NEW t \in Terminals, Select(t) \/ SelectTunnel(t) PROVE OwnerInv'
<1> USE DEF OwnerInv
<1>1. CASE Refused(t)
  BY <1>1, RefusedKeeps
<1>2. ASSUME NEW j \in Journeys, route' = [route EXCEPT ![t] = j], Steps(t, "open"),
             UNCHANGED <<locks, goal, menu, basis>>
      PROVE  OwnerInv'
  <2>1. UNCHANGED <<lock, writer, goal, menu, basis>>
    BY <1>2 DEF locks
  <2>2. route' \in [Terminals -> Journeys \cup {None}]
    BY <1>2 DEF TypeOK
  <2>3. OnlyMoves(t) /\ pc'[t] = "open"
    BY <1>2, <2>1 DEF OnlyMoves, Steps, TypeOK
  <2>4. Excluded(t)' /\ PreparedFor(t)'
    BY <2>3 DEF Excluded, PreparedFor
  <2> QED BY <1>2, <2>1, <2>2, <2>3, <2>4, MovesKeeps DEF TypeOK
<1>3. CASE SelectTunnel(t)
  <2>1. "Tunnel" \in Journeys
    BY DEF Journeys
  <2> QED BY <1>2, <1>3, <2>1 DEF SelectTunnel
<1>4. CASE Select(t) /\ ~Refused(t)
  <2> DEFINE offers == {i \in 1..Len(Answer(t)) : goal[t] \in Legal(Answer(t)[i], rec)}
             chosen == CHOOSE i \in offers : \A k \in offers : i <= k
  <2>1. /\ offers # {} /\ route' = [route EXCEPT ![t] = Answer(t)[chosen]] /\ Steps(t, "open")
        /\ UNCHANGED <<locks, goal, menu, basis>>
    BY <1>4 DEF Select
  <2>2. chosen \in 1..Len(Answer(t))
    <3>1. \E i \in offers : \A k \in offers : i <= k
      <4>1. Len(Answer(t)) \in Nat /\ Len(Answer(t)) <= 5
        BY AnswerFacts, LenProperties DEF TypeOK
      <4>2. offers \subseteq 1..5 /\ offers # {}
        BY <2>1, <4>1
      <4> HIDE DEF offers
      <4> QED BY <4>2, FirstOfFive
    <3> QED BY <3>1
  <2>3. Answer(t) \in Seq(Journeys)
    BY AnswerFacts DEF TypeOK
  <2> HIDE DEF chosen
  <2>4. Answer(t)[chosen] \in Journeys
    BY <2>2, <2>3
  <2> QED BY <1>2, <2>1, <2>4
<1> QED BY <1>1, <1>3, <1>4

LEMMA OpenKeeps == ASSUME OwnerInv, NEW t \in Terminals, Open(t) PROVE OwnerInv'
<1> USE DEF OwnerInv
<1>1. /\ Steps(t, "review") /\ UNCHANGED <<lock, goal, menu, route, basis>>
      /\ writer = None /\ writer' = (IF route[t] \in Retaining THEN t ELSE None)
      /\ route[t] \in Range(Answer(t))
  BY DEF Open
<1>2. route[t] \in Journeys
  BY <1>1, AnswerFacts DEF TypeOK
<1>3. OnlyMoves(t) /\ pc'[t] = "review"
  BY <1>1, OwnerAssumption DEF OnlyMoves, Steps, TypeOK
<1>4. Excluded(t)' /\ PreparedFor(t)'
  BY <1>1, <1>2, <1>3 DEF Excluded, PreparedFor
<1> QED BY <1>1, <1>3, <1>4, MovesKeeps DEF TypeOK

\* What is prepared fits the record it is prepared on, and is not lost.
LEMMA SnapshotFacts ==
    ASSUME TypeOK PROVE Snapshot \in Reviews /\ Snapshot # None /\ Snapshot.rec = rec
<1>1. Snapshot \in Reviews /\ Snapshot.rec = rec
  BY DEF TypeOK, Snapshot, Reviews
<1> QED BY <1>1, OwnerAssumption

LEMMA ReviewKeeps == ASSUME OwnerInv, NEW t \in Terminals, Review(t) PROVE OwnerInv'
<1> USE DEF OwnerInv
<1>1. /\ pc[t] = "review" /\ Steps(t, "ask") /\ UNCHANGED <<lock, writer, goal, menu, route>>
      /\ basis' = [basis EXCEPT ![t] = Snapshot] /\ goal[t] \in Legal(route[t], rec)
      /\ Excluded(t) /\ PreparedFor(t)
  BY DEF Review, locks
<1>2. Fits(goal[t], rec.kind)
  <2>1. route[t] \in Journeys
    BY <1>1 DEF PreparedFor
  <2> QED BY <1>1, <2>1, LegalFits DEF TypeOK
<1>3. basis' \in [Terminals -> Reviews \cup {None}] /\ basis'[t] = Snapshot
  BY <1>1, SnapshotFacts DEF TypeOK
<1>4. OnlyMoves(t) /\ pc'[t] = "ask" /\ rec' = rec
  BY <1>1 DEF OnlyMoves, Steps, TypeOK, host
<1>5. Excluded(t)'
  BY <1>1, <1>4 DEF Excluded
<1>6. PreparedFor(t)'
  BY <1>1, <1>2, <1>3, <1>4, SnapshotFacts DEF PreparedFor
<1> QED BY <1>1, <1>3, <1>4, <1>5, <1>6, MovesKeeps DEF TypeOK

LEMMA ApproveKeeps == ASSUME OwnerInv, NEW t \in Terminals, Approve(t) PROVE OwnerInv'
<1> USE DEF OwnerInv
<1>1. CASE Refused(t)
  BY <1>1, RefusedKeeps
<1>2. CASE ~Refused(t)
  <2>1. /\ pc[t] = "ask" /\ Steps(t, "acquire") /\ UNCHANGED <<lock, writer, goal, menu, route, basis>>
        /\ Excluded(t) /\ PreparedFor(t)
    BY <1>2 DEF Approve, locks
  <2>2. OnlyMoves(t) /\ pc'[t] = "acquire" /\ rec' = rec
    BY <2>1 DEF OnlyMoves, Steps, TypeOK, host
  <2>3. Excluded(t)' /\ PreparedFor(t)'
    BY <2>1, <2>2 DEF Excluded, PreparedFor
  <2> QED BY <2>1, <2>2, <2>3, MovesKeeps DEF TypeOK
<1> QED BY <1>1, <1>2

-----------------------------------------------------------------------------
(* Execution.                                                              *)

LEMMA AcquireKeeps == ASSUME OwnerInv, NEW t \in Terminals, Acquire(t) PROVE OwnerInv'
<1> USE DEF OwnerInv
<1>1. /\ pc[t] = "acquire" /\ Steps(t, "compare") /\ UNCHANGED <<goal, menu, route, basis>>
      /\ lock = None /\ writer \in {None, t} /\ lock' = t /\ writer' = t
      /\ PreparedFor(t)
  BY DEF Acquire
<1>2. OnlyMoves(t) /\ pc'[t] = "compare" /\ rec' = rec
  BY <1>1, OwnerAssumption DEF OnlyMoves, Steps, TypeOK, host
<1>3. Excluded(t)' /\ PreparedFor(t)'
  BY <1>1, <1>2 DEF Excluded, PreparedFor
<1> QED BY <1>1, <1>2, <1>3, MovesKeeps DEF TypeOK

\* The comparison under exclusion is what makes the reviewed record the
\* installed one.
LEMMA CompareKeeps == ASSUME OwnerInv, NEW t \in Terminals, Compare(t) PROVE OwnerInv'
<1> USE DEF OwnerInv
<1>1. CASE Refused(t)
  BY <1>1, RefusedKeeps
<1>2. CASE ~Refused(t)
  <2>1. /\ pc[t] = "compare" /\ Steps(t, "run") /\ UNCHANGED <<lock, writer, goal, menu, route, basis>>
        /\ exe /\ inst /\ rec = basis[t].rec /\ Excluded(t) /\ PreparedFor(t)
    BY <1>2 DEF Compare, Unchanged, Verified, locks
  <2>2. OnlyMoves(t) /\ pc'[t] = "run" /\ UNCHANGED <<rec, exe, inst>>
    BY <2>1 DEF OnlyMoves, Steps, TypeOK, host
  <2>3. Excluded(t)' /\ PreparedFor(t)'
    BY <2>1, <2>2 DEF Excluded, PreparedFor
  <2> QED BY <2>1, <2>2, <2>3, MovesKeeps DEF TypeOK
<1> QED BY <1>1, <1>2

\* Reviewing a recovery and approving it change neither the record nor a lock.
LEMMA RecoverKeeps ==
    ASSUME OwnerInv, NEW t \in Terminals, ReviewRecover(t) \/ Recover(t) PROVE OwnerInv'
<1> USE DEF OwnerInv
<1>1. CASE Refused(t)
  BY <1>1, RefusedKeeps
<1>2. CASE ReviewRecover(t)
  <2>1. /\ Steps(t, "recover") /\ UNCHANGED <<lock, writer, goal, route>> /\ rec.kind \in Removing
        /\ basis' = [basis EXCEPT ![t] = Snapshot] /\ menu' = [menu EXCEPT ![t] = {}]
    BY <1>2 DEF ReviewRecover, Restorable, locks
  <2>2. /\ basis' \in [Terminals -> Reviews \cup {None}] /\ basis'[t] = Snapshot
        /\ menu' \in [Terminals -> SUBSET Actions]
    BY <2>1, SnapshotFacts DEF TypeOK
  <2>3. OnlyMoves(t) /\ pc'[t] = "recover"
    BY <2>1 DEF OnlyMoves, Steps, TypeOK
  <2>4. Excluded(t)' /\ PreparedFor(t)'
    BY <2>1, <2>2, <2>3, SnapshotFacts DEF Excluded, PreparedFor
  <2> QED BY <2>1, <2>2, <2>3, <2>4, MovesKeeps DEF TypeOK
<1>3. CASE Recover(t) /\ ~Refused(t)
  <2> DEFINE p == IF pc[t] = "recover" THEN "download" ELSE "reopen"
  <2>1. /\ pc[t] \in {"recover", "download"} /\ Steps(t, p) /\ PreparedFor(t)
        /\ UNCHANGED <<lock, writer, goal, menu, route, basis>>
    BY <1>3 DEF Recover, locks
  <2>2. p \in {"download", "reopen"}
    OBVIOUS
  <2> HIDE DEF p
  <2>3. OnlyMoves(t) /\ pc'[t] = p
    BY <2>1 DEF OnlyMoves, Steps, TypeOK
  <2>4. Excluded(t)' /\ PreparedFor(t)'
    BY <2>1, <2>2, <2>3 DEF Excluded, PreparedFor
  <2> QED BY <2>1, <2>2, <2>3, <2>4, MovesKeeps DEF TypeOK
<1> QED BY <1>1, <1>2, <1>3

LEMMA ReopenKeeps == ASSUME OwnerInv, NEW t \in Terminals, Reopen(t) PROVE OwnerInv'
<1> USE DEF OwnerInv
<1>1. CASE Refused(t)
  BY <1>1, RefusedKeeps
<1>2. CASE ~Refused(t)
  <2>1. /\ pc[t] = "reopen" /\ Steps(t, "restore") /\ UNCHANGED <<goal, menu, route, basis>>
        /\ lock = None /\ writer = None /\ lock' = t /\ writer' = t
        /\ rec = basis[t].rec /\ PreparedFor(t)
    BY <1>2 DEF Reopen
  <2>2. OnlyMoves(t) /\ pc'[t] = "restore" /\ rec' = rec
    BY <2>1, OwnerAssumption DEF OnlyMoves, Steps, TypeOK, host
  <2>3. Excluded(t)' /\ PreparedFor(t)'
    BY <2>1, <2>2 DEF Excluded, PreparedFor
  <2> QED BY <2>1, <2>2, <2>3, MovesKeeps DEF TypeOK
<1> QED BY <1>1, <1>2

\* At work a terminal has both locks and knows the installed record.
LEMMA AtWork ==
    ASSUME OwnerInv, NEW t \in Terminals, pc[t] \in {"run", "restore"}
    PROVE  /\ lock = t /\ writer = t /\ basis[t] \in Reviews /\ basis[t] # None
           /\ basis[t].rec = rec /\ rec \in Records
  BY DEF OwnerInv, TypeOK, Excluded, PreparedFor

\* A publication keeps the terminal's knowledge up to date.
LEMMA PublishesKeeps ==
    ASSUME OwnerInv, NEW t \in Terminals, NEW r \in Records,
           NEW a \in Actions \cup {"Done", "Removed"}, Publishes(t, r, a), made' \in 0..MaxGen,
           Fits(a, r.kind),
           r.kind \notin Removing \cup {"none"} \/ a \notin {"FinishRemoval", "Removed"} => exe /\ inst
    PROVE  OwnerInv'
<1> USE DEF OwnerInv
<1>1. /\ pc[t] = "run" /\ rec' = r /\ basis' = [basis EXCEPT ![t].rec = r]
      /\ goal' = [goal EXCEPT ![t] = a]
      /\ UNCHANGED <<exe, inst, image, lock, writer, pc, proof, menu, route>>
  BY DEF Publishes, locks
<1>2. lock = t /\ writer = t /\ basis[t] \in Reviews
  BY <1>1, AtWork
<1>3. [basis[t] EXCEPT !.rec = r] \in Reviews /\ [basis[t] EXCEPT !.rec = r].rec = r
  BY <1>2 DEF Reviews
<1>4. /\ basis' \in [Terminals -> Reviews \cup {None}] /\ basis'[t] = [basis[t] EXCEPT !.rec = r]
      /\ goal' \in [Terminals -> Actions \cup {"Status", "Done", "Removed"}] /\ goal'[t] = a
  BY <1>1, <1>3 DEF TypeOK
<1>5. basis'[t] # None /\ basis'[t].rec = r
  BY <1>3, <1>4, OwnerAssumption
<1>6. TypeOK'
  BY <1>1, <1>4 DEF TypeOK
<1>7. ProgramInv'
  BY <1>1 DEF ProgramInv, NoOrphanRecord
<1>8. OnlyMoves(t)
  BY <1>1 DEF OnlyMoves, TypeOK
<1>9. Excluded(t)' /\ PreparedFor(t)'
  BY <1>1, <1>2, <1>4, <1>5 DEF Excluded, PreparedFor
<1> QED BY <1>2, <1>6, <1>7, <1>8, <1>9, StepKeeps

\* The endings that a pending change may be offered are actions of the menu.
LEMMA ActionFacts ==
    {"StartSetup", "FinishCleanup", "FinishSetup", "FinishSubscriptionChange",
     "FinishClientIdentityRotation", "FinishRemoval"} \subseteq Actions
<1>1. /\ "Standard" \in Journeys /\ "Http" \in Journeys /\ "Identity" \in Journeys /\ "Removal" \in Journeys
  BY DEF Journeys
<1>2. /\ Accepts("Standard") = {"StartSetup", "FinishCleanup", "FinishSetup"}
      /\ Accepts("Http") = {"ChangeSubscription", "FinishSubscriptionChange"}
      /\ Accepts("Identity") = {"RotateClientIdentity", "FinishClientIdentityRotation"}
      /\ Accepts("Removal") = {"CompleteRemoval", "FinishRemoval"}
  BY DEF Accepts
<1> QED BY <1>1, <1>2 DEF Actions

LEMMA BeginKeeps == ASSUME OwnerInv, NEW t \in Terminals, Begin(t) PROVE OwnerInv'
<1> USE DEF OwnerInv
<1>1. goal[t] \in {"StartSetup", "ChangeSubscription", "RotateClientIdentity", "CompleteRemoval"}
  BY DEF Begin, Begins
<1>2. pc[t] = "run"
  BY DEF Begin, Publishes
<1>3. exe /\ inst /\ Fits(goal[t], rec.kind) /\ rec \in Records
  BY <1>1, <1>2, AtWork DEF PreparedFor
<1>4. CASE goal[t] = "CompleteRemoval"
  <2>1. Publishes(t, Bare("removal"), "FinishRemoval") /\ made' = made
    BY <1>4 DEF Begin
  <2>2. Bare("removal") \in Records /\ Bare("removal").kind = "removal"
    BY BareFacts DEF Removing
  <2>3. Fits("FinishRemoval", "removal")
    BY DEF Fits, Removing
  <2> QED BY <1>3, <2>1, <2>2, <2>3, ActionFacts, PublishesKeeps DEF TypeOK
<1>5. CASE goal[t] # "CompleteRemoval"
  <2> DEFINE k == Begins[goal[t]]
             b == rec.tunnel \/ route[t] = "Tunnel"
             w == IF k = "cleanup" THEN 0 ELSE rec.id
             n == [kind |-> k, id |-> made + 1, tunnel |-> b, was |-> w]
             a == IF k = "cleanup" THEN "StartSetup" ELSE Finishing(k)
  <2>1. made < MaxGen /\ made' = made + 1 /\ Publishes(t, n, a)
    BY <1>5 DEF Begin
  <2>2. /\ goal[t] = "StartSetup" => k = "cleanup"
        /\ goal[t] = "ChangeSubscription" => k = "http"
        /\ goal[t] = "RotateClientIdentity" => k = "identity"
    BY DEF Begins
  <2>3. /\ k \in {"cleanup", "http", "identity"}
        /\ k = "cleanup" => a = "StartSetup"
        /\ k = "http" => a = "FinishSubscriptionChange"
        /\ k = "identity" => a = "FinishClientIdentityRotation"
    BY <1>1, <1>5, <2>2 DEF Finishing, Removing
  <2>4. b \in BOOLEAN /\ w \in 0..MaxGen /\ (k = "cleanup" => w = 0) /\ made + 1 \in 1..MaxGen
    BY <1>3, <2>1, RecordFacts, OwnerAssumption DEF TypeOK
  <2> HIDE DEF k, b, w, a
  <2>5. n \in Records /\ n.kind = k
    BY <2>3, <2>4, ChangeFacts
  <2>6. Fits(a, k) /\ a \in Actions /\ made' \in 0..MaxGen
    BY <2>1, <2>3, <2>4, ActionFacts DEF Fits
  <2> HIDE DEF n
  <2> QED BY <1>3, <2>1, <2>5, <2>6, PublishesKeeps
<1> QED BY <1>4, <1>5

LEMMA CommitKeeps == ASSUME OwnerInv, NEW t \in Terminals, Commit(t) PROVE OwnerInv'
<1> USE DEF OwnerInv
<1>1. goal[t] = "StartSetup" /\ rec.kind = "cleanup" /\ pc[t] = "run" /\ made' \in 0..MaxGen
  BY DEF Commit, Publishes, TypeOK
<1>2. exe /\ inst /\ rec \in Records
  BY <1>1, AtWork DEF PreparedFor
<1>3. CASE Publishes(t, [rec EXCEPT !.kind = "finish"], "FinishSetup")
  <2>1. [rec EXCEPT !.kind = "finish"] \in Records /\ [rec EXCEPT !.kind = "finish"].kind = "finish"
    BY <1>1, <1>2, RecordFacts, MoveOnFacts
  <2>2. Fits("FinishSetup", "finish")
    BY DEF Fits
  <2> QED BY <1>1, <1>2, <1>3, <2>1, <2>2, ActionFacts, PublishesKeeps
<1>4. CASE Publishes(t, rec, "FinishCleanup")
  <2>1. Fits("FinishCleanup", rec.kind)
    BY <1>1 DEF Fits
  <2> QED BY <1>1, <1>2, <1>4, <2>1, ActionFacts, PublishesKeeps
<1> QED BY <1>3, <1>4 DEF Commit

LEMMA FinishKeeps == ASSUME OwnerInv, NEW t \in Terminals, Finish(t) PROVE OwnerInv'
<1> USE DEF OwnerInv
<1>1. /\ goal[t] \in {"FinishCleanup", "FinishSetup", "FinishSubscriptionChange",
                      "FinishClientIdentityRotation"}
      /\ pc[t] = "run" /\ made' \in 0..MaxGen
  BY DEF Finish, Publishes, TypeOK
<1>2. exe /\ inst /\ rec \in Records /\ Fits(goal[t], rec.kind)
  BY <1>1, AtWork DEF PreparedFor
<1>3. \A k : Fits("Done", k)
  BY DEF Fits
<1>4. ASSUME NEW n \in Records, Publishes(t, n, "Done") PROVE OwnerInv'
  BY <1>1, <1>2, <1>3, <1>4, PublishesKeeps
<1>5. CASE goal[t] = "FinishCleanup" /\ Publishes(t, Bare("none"), "Done")
  BY <1>4, <1>5, BareFacts
<1>6. CASE goal[t] = "FinishSetup" /\ Publishes(t, [rec EXCEPT !.kind = "running"], "Done")
  <2>1. rec.kind = "finish"
    BY <1>2, <1>6 DEF Fits
  <2>2. [rec EXCEPT !.kind = "running"] \in Records
    BY <1>2, <2>1, RecordFacts, MoveOnFacts
  <2> QED BY <1>4, <1>6, <2>2
<1>7. CASE /\ goal[t] \in {"FinishSubscriptionChange", "FinishClientIdentityRotation"}
           /\ \E i \in {rec.id, rec.was} :
                 Publishes(t, [rec EXCEPT !.kind = "running", !.id = i, !.was = 0], "Done")
  <2>1. rec.kind \in {"http", "identity"}
    BY <1>2, <1>7 DEF Fits
  <2>2. PICK i \in {rec.id, rec.was} :
           Publishes(t, [rec EXCEPT !.kind = "running", !.id = i, !.was = 0], "Done")
    BY <1>7
  <2>3. [rec EXCEPT !.kind = "running", !.id = i, !.was = 0] \in Records
    BY <1>2, <2>1, EndFacts
  <2> QED BY <1>4, <2>2, <2>3
<1> QED BY <1>5, <1>6, <1>7 DEF Finish

LEMMA MarkKeeps == ASSUME OwnerInv, NEW t \in Terminals, Mark(t) PROVE OwnerInv'
<1> USE DEF OwnerInv
<1>1. /\ goal[t] = "MarkSubscriptionCompromised" /\ pc[t] = "run" /\ made < MaxGen /\ made' = made + 1
      /\ Publishes(t, [rec EXCEPT !.id = made + 1], "Done")
  BY DEF Mark, Publishes
<1>2. exe /\ inst /\ rec \in Records /\ rec.kind = "running"
  BY <1>1, AtWork DEF PreparedFor, Fits
<1>3. made + 1 \in 0..MaxGen
  BY <1>1, OwnerAssumption DEF TypeOK
<1>4. [rec EXCEPT !.id = made + 1] \in Records /\ [rec EXCEPT !.id = made + 1].kind = "running"
  BY <1>2, <1>3, MoveOnFacts
<1>5. Fits("Done", "running")
  BY DEF Fits
<1> QED BY <1>1, <1>2, <1>3, <1>4, <1>5, PublishesKeeps

\* The program goes only while a committed removal is recorded.
LEMMA RemovePairKeeps == ASSUME OwnerInv, NEW t \in Terminals, RemovePair(t) PROVE OwnerInv'
<1> USE DEF OwnerInv
<1>1. /\ pc[t] = "run" /\ goal[t] = "FinishRemoval" /\ exe' = FALSE /\ inst' = (exe /\ inst)
      /\ UNCHANGED <<rec, image, lock, writer, pc, proof, goal, menu, route, basis, made>>
  BY DEF RemovePair, locks
<1>2. lock = t /\ writer = t /\ rec.kind \in Removing
  BY <1>1, AtWork DEF PreparedFor, Fits
<1>3. TypeOK'
  <2>1. exe' \in BOOLEAN /\ inst' \in BOOLEAN
    BY <1>1
  <2> QED BY <1>1, <2>1 DEF TypeOK
<1>4. ProgramInv'
  BY <1>1, <1>2 DEF ProgramInv, NoOrphanRecord
<1>5. OnlyMoves(t)
  BY <1>1 DEF OnlyMoves
<1>6. Excluded(t)' /\ PreparedFor(t)'
  BY <1>1 DEF Excluded, PreparedFor
<1> QED BY <1>2, <1>3, <1>4, <1>5, <1>6, StepKeeps

LEMMA RemoveRecordKeeps == ASSUME OwnerInv, NEW t \in Terminals, RemoveRecord(t) PROVE OwnerInv'
<1> USE DEF OwnerInv
<1>1. made' \in 0..MaxGen
  BY DEF RemoveRecord, TypeOK
<1>2. CASE Publishes(t, Bare("finalizer"), "FinishRemoval")
  <2>1. Bare("finalizer") \in Records /\ Bare("finalizer").kind = "finalizer"
    BY BareFacts DEF Removing
  <2>2. Fits("FinishRemoval", "finalizer") /\ "finalizer" \in Removing
    BY DEF Fits, Removing
  <2> QED BY <1>1, <1>2, <2>1, <2>2, ActionFacts, PublishesKeeps
<1>3. CASE Publishes(t, Bare("none"), "Removed")
  <2>1. Bare("none") \in Records /\ Bare("none").kind = "none"
    BY BareFacts
  <2>2. Fits("Removed", "none")
    BY DEF Fits
  <2> QED BY <1>1, <1>3, <2>1, <2>2, PublishesKeeps
<1> QED BY <1>2, <1>3 DEF RemoveRecord

LEMMA RestoreKeeps == ASSUME OwnerInv, NEW t \in Terminals, Restore(t) PROVE OwnerInv'
<1> USE DEF OwnerInv
<1> DEFINE p == IF inst THEN "finisher" ELSE "restore"
<1>1. /\ pc[t] = "restore" /\ inst' = TRUE /\ exe' = inst /\ pc' = [pc EXCEPT ![t] = p]
      /\ image' = (IF inst /\ ~exe THEN image + 1 ELSE image)
      /\ inst /\ ~exe => image < MaxImages
      /\ UNCHANGED <<rec, lock, writer, proof, goal, menu, route, basis, made>>
  BY DEF Restore, locks, TypeOK
<1>2. lock = t /\ writer = t /\ rec.kind \in Removing
  BY <1>1, AtWork DEF PreparedFor
<1>3. image' \in 0..MaxImages
  <2>1. image \in 0..MaxImages /\ MaxImages \in Nat
    BY OwnerAssumption DEF TypeOK
  <2> QED BY <1>1, <2>1
<1>4. p \in {"finisher", "restore"}
  OBVIOUS
<1> HIDE DEF p
<1>5. TypeOK'
  <2>1. exe' \in BOOLEAN /\ inst' \in BOOLEAN
    BY <1>1 DEF TypeOK
  <2>2. pc' \in [Terminals -> {"gone", "frame", "menu", "select", "open", "review", "ask", "acquire",
                              "compare", "run", "recover", "download", "reopen", "restore", "finisher"}]
    BY <1>1, <1>4 DEF TypeOK
  <2> QED BY <1>1, <1>3, <2>1, <2>2 DEF TypeOK
<1>6. ProgramInv'
  BY <1>1, <1>2 DEF ProgramInv, NoOrphanRecord
<1>7. OnlyMoves(t) /\ pc'[t] = p
  BY <1>1 DEF OnlyMoves, TypeOK
<1>8. Excluded(t)' /\ PreparedFor(t)'
  BY <1>1, <1>2, <1>4, <1>7 DEF Excluded, PreparedFor
<1> QED BY <1>2, <1>5, <1>6, <1>7, <1>8, StepKeeps

\* Every step of Next is one of the above, of some terminal.
LEMMA OwnerInvStep == OwnerInv /\ [Next]_vars => OwnerInv'
<1> SUFFICES ASSUME OwnerInv, [Next]_vars PROVE OwnerInv'
  OBVIOUS
<1>1. CASE UNCHANGED vars
  BY <1>1 DEF vars, host, locks, OwnerInv, TypeOK, ProgramInv, NoOrphanRecord, Excluded, PreparedFor
<1>2. ASSUME NEW t \in Terminals, Work(t) PROVE OwnerInv'
  <2>1. CASE End(t) \/ Fail(t)
    BY <2>1, RefusedKeeps DEF End, Fail
  <2> QED BY <1>2, <2>1, CompareKeeps, BeginKeeps, CommitKeeps, FinishKeeps, MarkKeeps, RemovePairKeeps,
          RemoveRecordKeeps, RestoreKeeps, TakeOverKeeps DEF Work
<1>3. ASSUME NEW t \in Terminals,
             \/ Again(t) \/ Exit(t) \/ NotOpened(t) \/ NotReviewed(t) \/ Decline(t) \/ Busy(t)
             \/ NotRecovered(t) \/ Show(t) \/ Kill(t)
      PROVE  OwnerInv'
  BY <1>3, RefusedKeeps DEF Again, Exit, NotOpened, NotReviewed, Decline, Busy, NotRecovered, Show, Kill
<1> QED BY <1>1, <1>2, <1>3, StartKeeps, FrameKeeps, SelectKeeps, ChooseKeeps, OpenKeeps, ReviewKeeps,
        ApproveKeeps, AcquireKeeps, RecoverKeeps, ReopenKeeps DEF Next

-----------------------------------------------------------------------------
(* Theorems.                                                               *)

\* The inductive invariant of any number of terminals on one host.
THEOREM TerminalsInvariant == Spec => []OwnerInv
  BY OwnerInvInit, OwnerInvStep, PTL DEF Spec

\* A pending record has its ending: its own journey is allowed and offers it.
LEMMA EndingOffered ==
    ASSUME NEW r \in Records, r.kind \in Pending
    PROVE  \E i \in 1..Len(Allowed(r)) : Finishing(r.kind) \in Legal(Allowed(r)[i], r)
<1> SUFFICES \E i \in 1..Len(Allowed(r)) : Finishing(r.kind) \in Accepts(Allowed(r)[i])
  BY DEF Legal
<1>1. CASE r.kind \in Removing
  <2>1. Allowed(r) = <<"Removal">> /\ Finishing(r.kind) = "FinishRemoval"
    BY <1>1 DEF Allowed, Finishing, Removing
  <2>2. "FinishRemoval" \in Accepts("Removal")
    BY DEF Accepts
  <2>3. Len(Allowed(r)) = 1 /\ Allowed(r)[1] = "Removal"
    BY <2>1
  <2> QED BY <2>1, <2>2, <2>3
<1>2. CASE r.kind \in {"cleanup", "finish"}
  <2> DEFINE j == IF r.tunnel THEN "Tunnel" ELSE "Standard"
  <2>1. Allowed(r) = <<j, "Removal">> /\ Finishing(r.kind) \in {"FinishCleanup", "FinishSetup"}
    BY <1>2 DEF Allowed, Finishing, Removing
  <2>2. {"FinishCleanup", "FinishSetup"} \subseteq Accepts(j)
    BY DEF Accepts
  <2> HIDE DEF j
  <2>3. Len(Allowed(r)) = 2 /\ Allowed(r)[1] = j
    BY <2>1
  <2> QED BY <2>1, <2>2, <2>3
<1>3. CASE r.kind = "http"
  <2>1. Allowed(r) = <<"Http", "Disclosure", "Removal">> /\ Finishing(r.kind) = "FinishSubscriptionChange"
    BY <1>3 DEF Allowed, Finishing, Removing
  <2>2. "FinishSubscriptionChange" \in Accepts("Http")
    BY DEF Accepts
  <2>3. Len(Allowed(r)) = 3 /\ Allowed(r)[1] = "Http"
    BY <2>1
  <2> QED BY <2>1, <2>2, <2>3
<1>4. CASE r.kind = "identity"
  <2>1. Allowed(r) = <<"Identity", "Removal">> /\ Finishing(r.kind) = "FinishClientIdentityRotation"
    BY <1>4 DEF Allowed, Finishing, Removing
  <2>2. "FinishClientIdentityRotation" \in Accepts("Identity")
    BY DEF Accepts
  <2>3. Len(Allowed(r)) = 2 /\ Allowed(r)[1] = "Identity"
    BY <2>1
  <2> QED BY <2>1, <2>2, <2>3
<1> QED BY <1>1, <1>2, <1>3, <1>4 DEF Pending, Removing

\* Whatever several terminals do, no record is without its program, and a
\* pending change is offered its ending or the restoration that leads there.
THEOREM AlwaysToFinish == Spec => []AlwaysFinishable
<1>1. ASSUME OwnerInv PROVE AlwaysFinishable
  <2>1. TypeOK /\ NoOrphanRecord /\ (exe => inst)
    BY <1>1 DEF OwnerInv, ProgramInv
  <2>2. NoDeadEnd
    <3> SUFFICES ASSUME lock = None, rec.kind \in Pending
                 PROVE  IF exe /\ inst
                        THEN \E i \in 1..Len(Allowed(rec)) :
                                Finishing(rec.kind) \in Legal(Allowed(rec)[i], rec)
                        ELSE Restorable
      BY DEF NoDeadEnd
    <3>1. CASE exe /\ inst
      BY <2>1, <3>1, EndingOffered DEF TypeOK
    <3>2. CASE ~(exe /\ inst)
      BY <2>1, <3>2 DEF NoOrphanRecord, Restorable, Pending, Removing
    <3> QED BY <3>1, <3>2
  <2> QED BY <2>1, <2>2 DEF AlwaysFinishable
<1>2. OwnerInv => AlwaysFinishable
  BY <1>1
<1> QED BY <1>2, TerminalsInvariant, PTL

\* While a journey that keeps the store waits for its Owner, no other terminal
\* changes what was reviewed.
THEOREM ReviewAlwaysHolds == Spec => []ReviewHolds
<1>1. OwnerInv => ReviewHolds
  BY DEF OwnerInv, PreparedFor, ReviewHolds
<1> QED BY <1>1, TerminalsInvariant, PTL

\* Who changes the host: a terminal at work, on a removal or with the program
\* installed, or a restoration, which leaves the record.
LEMMA WhoChanges ==
    ASSUME OwnerInv, Next, ~UNCHANGED host
    PROVE  \E t \in Terminals :
              \/ pc[t] = "run" /\ (goal[t] = "FinishRemoval" \/ (exe /\ inst))
              \/ pc[t] = "restore" /\ rec' = rec
<1>1. PICK t \in Terminals :
         \/ Start(t) \/ Frame(t) \/ Select(t) \/ SelectTunnel(t)
         \/ \E a \in Actions : Choose(t, a)
         \/ Again(t) \/ Exit(t)
         \/ Open(t) \/ NotOpened(t) \/ Review(t) \/ NotReviewed(t)
         \/ Decline(t) \/ Approve(t) \/ Acquire(t) \/ Busy(t)
         \/ ReviewRecover(t) \/ Recover(t) \/ NotRecovered(t) \/ Reopen(t)
         \/ Work(t) \/ Show(t) \/ Kill(t)
  BY DEF Next
<1>2. ~Refused(t) /\ ~Gone(t) /\ \A p : ~Steps(t, p)
  BY DEF Refused, Gone, Steps
<1>3. Work(t)
  BY <1>1, <1>2 DEF Start, Frame, Select, SelectTunnel, Choose, Again, Exit, Open, NotOpened, Review,
     NotReviewed, Decline, Approve, Acquire, Busy, ReviewRecover, Recover, NotRecovered, Reopen, Show,
     Kill
<1>4. ~Compare(t) /\ ~End(t) /\ ~Fail(t) /\ ~TakeOver(t)
  BY <1>2 DEF Compare, End, Fail, TakeOver
<1>5. CASE Restore(t)
  BY <1>5 DEF Restore
<1>6. CASE RemovePair(t) \/ RemoveRecord(t)
  BY <1>6 DEF RemovePair, RemoveRecord, Publishes
<1>7. CASE Begin(t) \/ Commit(t) \/ Finish(t) \/ Mark(t)
  <2>1. pc[t] = "run"
    BY <1>7 DEF Begin, Commit, Finish, Mark, Publishes
  <2>2. goal[t] \notin {"FinishRemoval", "Removed"}
    <3>1. CASE Begin(t)
      BY <3>1 DEF Begin, Begins
    <3>2. CASE Commit(t) \/ Finish(t) \/ Mark(t)
      BY <3>2 DEF Commit, Finish, Mark
    <3> QED BY <1>7, <3>1, <3>2
  <2> QED BY <2>1, <2>2 DEF OwnerInv, PreparedFor
<1> QED BY <1>3, <1>4, <1>5, <1>6, <1>7 DEF Work

\* A record is replaced only by the terminal that holds the host's lock and
\* knows exactly that record, and after a complete removal no terminal that
\* reviewed before it brings anything back.
THEOREM ChangesReviewed == Spec => ChangesAreReviewed
<1>1. ASSUME OwnerInv, [Next]_vars
      PROVE  [rec' # rec => \E t \in Terminals : lock = t /\ basis[t] # None /\ basis[t].rec = rec]_vars
  <2> SUFFICES ASSUME Next, rec' # rec
               PROVE  \E t \in Terminals : lock = t /\ basis[t] # None /\ basis[t].rec = rec
    BY <1>1
  <2>1. ~UNCHANGED host
    BY DEF host
  <2> QED BY <1>1, <2>1, WhoChanges, AtWork
<1>2. ASSUME OwnerInv, [Next]_vars
      PROVE  [(rec.kind = "none" /\ ~exe /\ ~inst) => UNCHANGED host]_vars
  <2> SUFFICES ASSUME Next, rec.kind = "none", ~exe, ~inst, ~UNCHANGED host PROVE FALSE
    BY <1>2
  <2>1. PICK t \in Terminals :
           \/ pc[t] = "run" /\ (goal[t] = "FinishRemoval" \/ (exe /\ inst))
           \/ pc[t] = "restore" /\ rec' = rec
    BY <1>2, WhoChanges
  <2>2. rec.kind \in Removing
    BY <1>2, <2>1, AtWork DEF OwnerInv, PreparedFor, Fits
  <2> QED BY <2>2 DEF Removing
<1>3. OwnerInv /\ [Next]_vars =>
        /\ [rec' # rec => \E t \in Terminals : lock = t /\ basis[t] # None /\ basis[t].rec = rec]_vars
        /\ [(rec.kind = "none" /\ ~exe /\ ~inst) => UNCHANGED host]_vars
  BY <1>1, <1>2
<1> QED BY <1>3, TerminalsInvariant, PTL DEF Spec, ChangesAreReviewed, NoLostUpdate, RemovedStaysRemoved
=============================================================================
