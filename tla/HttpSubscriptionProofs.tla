----------------------- MODULE HttpSubscriptionProofs -----------------------
(***************************************************************************)
(* Proofs about HttpSubscription, for any number of links, failures and    *)
(* power losses.  ControlInv is about the records, the reports and the     *)
(* steps of the Owner's process, HostInv about the host: until a visible   *)
(* commitment is durable nothing serves and the state file is the source's.*)
(***************************************************************************)
EXTENDS HttpSubscription, TLAPS

USE DEF FirewallUnit, FirewallReloaded, FirewallEnabled, Staging, CandidateToken, CandidateState,
    Token, State, Unit, CandidateTokenCleared, CandidateStateCleared, UnitReloaded, ServingActivated,
    TargetAuthorized, StopAuthorized, Committed, Prepared, RepairCommitted, RepairTargeted, Accepted,
    Overtaken

-----------------------------------------------------------------------------
(* Records.                                                                *)

\* begin keeps the serving link and names the source and the target.
LEMMA BeginFacts ==
    ASSUME NEW r \in Records, NEW op \in {"enable", "rotate", "repair"}, NEW link \in Links \cup {None}
    PROVE  LET n == BeginRecord(r, op, link)
           IN  /\ n \in Records /\ n.op = op /\ n.cp = 0 /\ n.source = r.serving /\ n.target = link
               /\ n.serving = r.serving /\ n.compromised = r.compromised
  BY DEF BeginRecord, Records

\* advance moves one checkpoint on, and a rotation selects its target with the
\* step past StopAuthorized.
LEMMA AdvanceFacts ==
    ASSUME NEW r \in Records, Advances(r)
    PROVE  LET n == AdvanceRecord(r)
           IN  /\ n \in Records /\ n.op = r.op /\ n.cp = r.cp + 1 /\ n.source = r.source
               /\ n.target = r.target /\ n.compromised = r.compromised
               /\ n.serving = IF r.op = "rotate" /\ r.cp = StopAuthorized THEN r.target ELSE r.serving
<1>1. r.cp \in 0 .. 12 /\ r.cp + 1 \in 0 .. 13
  BY DEF Records, Advances
<1> QED BY <1>1 DEF AdvanceRecord, Records

\* A record with nothing pending holds the serving link and the mark only.
LEMMA IdleFacts ==
    ASSUME NEW link \in Links \cup {None}, NEW c \in BOOLEAN
    PROVE  LET n == Idle(link, c)
           IN  /\ n \in Records /\ n.op = "none" /\ n.cp = 0 /\ n.source = None /\ n.target = None
               /\ n.serving = link /\ n.compromised = c
  BY DEF Idle, Records

\* A change that is cleaned up keeps the serving link and the mark.
LEMMA CleanupFacts ==
    ASSUME NEW r \in Records
    PROVE  LET n == CleanupRecord(r)
           IN  /\ n \in Records /\ n.op = "none" /\ n.source = None /\ n.target = None
               /\ n.serving = r.serving /\ n.compromised = r.compromised
<1>1. r.serving \in Links \cup {None} /\ r.compromised \in BOOLEAN
  BY DEF Records
<1> QED BY <1>1, IdleFacts DEF CleanupRecord

\* A completed enablement serves its target, and only a completed rotation takes
\* the mark away.
LEMMA CompleteFacts ==
    ASSUME NEW r \in Records
    PROVE  LET n == CompleteRecord(r)
           IN  /\ n \in Records /\ n.op = "none" /\ n.source = None /\ n.target = None
               /\ n.serving = IF r.op = "enable" THEN r.target ELSE r.serving
               /\ n.compromised <=> (r.compromised /\ r.op # "rotate")
<1> DEFINE link == IF r.op = "enable" THEN r.target ELSE r.serving
           c == r.compromised /\ r.op # "rotate"
<1>1. link \in Links \cup {None} /\ c \in BOOLEAN
  BY DEF Records
<1>2. CompleteRecord(r) = Idle(link, c)
  BY DEF CompleteRecord
<1> HIDE DEF link, c
<1>3. LET n == Idle(link, c)
      IN  /\ n \in Records /\ n.op = "none" /\ n.source = None /\ n.target = None
          /\ n.serving = link /\ n.compromised = c
  BY <1>1, IdleFacts
<1> QED BY <1>2, <1>3 DEF link, c

\* Marking a link as compromised changes nothing else of the record.
LEMMA MarkFacts ==
    ASSUME NEW r \in Records
    PROVE  LET n == [r EXCEPT !.compromised = TRUE]
           IN  /\ n \in Records /\ n.op = r.op /\ n.cp = r.cp /\ n.source = r.source
               /\ n.target = r.target /\ n.serving = r.serving /\ n.compromised = TRUE
  BY DEF Records

\* What may follow r, field by field.
LEMMA SuccFacts ==
    ASSUME NEW r \in Records, NEW s \in Records, Succ(r, s)
    PROVE  \/ /\ r.op = "none" /\ s.cp = 0 /\ s.source = r.serving /\ s.serving = r.serving
              /\ s.op \in IF r.serving = None THEN {"enable"} ELSE {"rotate", "repair"}
           \/ /\ Advances(r) /\ s.op = r.op /\ s.cp = r.cp + 1 /\ s.source = r.source /\ s.target = r.target
              /\ s.serving = IF r.op = "rotate" /\ r.cp = StopAuthorized THEN r.target ELSE r.serving
           \/ CleansUp(r) /\ s.op = "none" /\ s.serving = r.serving
           \/ /\ Completes(r) /\ s.op = "none"
              /\ s.serving = IF r.op = "enable" THEN r.target ELSE r.serving
           \/ r.op = "none" /\ s.op = "none" /\ s.serving = r.serving
<1>1. CASE /\ ~Pending(r) /\ s = BeginRecord(r, s.op, s.target)
           /\ s.op \in IF r.serving = None THEN {"enable"} ELSE {"rotate", "repair"}
  <2>1. s.op \in {"enable", "rotate", "repair"} /\ s.target \in Links \cup {None}
    BY <1>1 DEF Records
  <2>2. LET n == BeginRecord(r, s.op, s.target)
        IN  n.cp = 0 /\ n.source = r.serving /\ n.serving = r.serving
    BY <2>1 DEF BeginRecord, Records
  <2>3. s.cp = 0 /\ s.source = r.serving /\ s.serving = r.serving
    BY <1>1, <2>2, Zenon
  <2> QED BY <1>1, <2>3 DEF Pending
<1>2. CASE Advances(r) /\ s = AdvanceRecord(r)
  BY <1>2, AdvanceFacts
<1>3. CASE CleansUp(r) /\ s = CleanupRecord(r)
  BY <1>3, CleanupFacts
<1>4. CASE Completes(r) /\ s = CompleteRecord(r)
  BY <1>4, CompleteFacts
<1>5. CASE ~Pending(r) /\ r.serving # None /\ s = [r EXCEPT !.compromised = TRUE]
  BY <1>5, MarkFacts DEF Pending
<1> QED BY <1>1, <1>2, <1>3, <1>4, <1>5 DEF Succ

\* What a record that is still exposed can be, by the operation of the next.
LEMMA BeforeEnable ==
    ASSUME NEW r \in Records, NEW s \in Records, Succ(r, s), s.op = "enable", WellFormed(s, generated)
    PROVE  r.op # "rotate"
  BY SuccFacts DEF WellFormed, CleansUp, Completes, Forward

\* The predecessor of a record of a rotation is before its commitment, and the
\* link is the same until that commitment.
LEMMA BeforeRotate ==
    ASSUME NEW r \in Records, NEW s \in Records, Succ(r, s), s.op = "rotate"
    PROVE  /\ ~Forward(r)
           /\ ~Forward(s) => r.serving = s.serving
  BY SuccFacts DEF Forward, Advances, Records

\* The predecessor of a commitment has stopped the same rotation's source.
LEMMA BeforeForward ==
    ASSUME NEW r \in Records, NEW s \in Records, Succ(r, s), Forward(s), WellFormed(r, generated)
    PROVE  /\ r.op = "rotate" /\ r.cp = StopAuthorized /\ r.target = s.target
           /\ ~Forward(r) /\ r.serving # None
<1>1. r.cp \in 0 .. 13 /\ s.op = "rotate" /\ s.cp = Committed
  BY DEF Records, Forward
<1>2. r.op = "rotate" /\ r.cp = StopAuthorized /\ r.target = s.target
  BY <1>1, SuccFacts
<1> QED BY <1>2 DEF Forward, WellFormed

\* A repair never changes the link.
LEMMA BeforeRepair ==
    ASSUME NEW r \in Records, NEW s \in Records, Succ(r, s), s.op = "repair"
    PROVE  r.serving = s.serving
  BY SuccFacts DEF Advances, Records

\* Records that may both start Subscription Serving start it with one link.
Startable(r) == r.serving # None \/ (r.op = "enable" /\ r.cp = ServingActivated)

\* Two neighbouring records under which serving may start, the later one before
\* its commitment, select the same link.
LEMMA StartableAgree ==
    ASSUME NEW r \in Records, NEW s \in Records, Succ(r, s), ~Forward(s), Startable(r), Startable(s),
           WellFormed(r, generated), WellFormed(s, generated)
    PROVE  Selected(r) = Selected(s)
<1> USE DEF Startable, Selected, WellFormed
<1>1. CASE /\ r.op = "none" /\ s.cp = 0 /\ s.source = r.serving /\ s.serving = r.serving
           /\ s.op \in IF r.serving = None THEN {"enable"} ELSE {"rotate", "repair"}
  BY <1>1
<1>2. CASE /\ Advances(r) /\ s.op = r.op /\ s.cp = r.cp + 1 /\ s.source = r.source /\ s.target = r.target
           /\ s.serving = IF r.op = "rotate" /\ r.cp = StopAuthorized THEN r.target ELSE r.serving
  BY <1>2 DEF Advances, Forward, Records
<1>3. CASE CleansUp(r) /\ s.op = "none" /\ s.serving = r.serving
  BY <1>3
<1>4. CASE /\ Completes(r) /\ s.op = "none"
           /\ s.serving = IF r.op = "enable" THEN r.target ELSE r.serving
  BY <1>4 DEF Completes, Forward
<1>5. CASE r.op = "none" /\ s.op = "none" /\ s.serving = r.serving
  BY <1>5
<1> QED BY <1>1, <1>2, <1>3, <1>4, <1>5, SuccFacts

\* Generating a further link leaves every record well formed.
LEMMA WellFormedGrows ==
    ASSUME NEW r, NEW g \in Nat, NEW h \in Nat, g <= h, WellFormed(r, g)
    PROVE  WellFormed(r, h)
<1>1. 1 .. g \subseteq 1 .. h
  OBVIOUS
<1> QED BY <1>1 DEF WellFormed

-----------------------------------------------------------------------------
(* What every step shares.                                                 *)

\* A step that only fails generates no link and stays within the bounds.
LEMMA BoundsKept ==
    ASSUME TypeOK, Fails \/ UNCHANGED bounds
    PROVE  /\ generated' = generated
           /\ failures' \in 0 .. MaxFailures /\ losses' \in 0 .. MaxPowerLoss
  BY SubscriptionAssumption DEF TypeOK, Fails, bounds

\* What publication does to the records, and to what is known of them.
LEMMA PublishedRecords ==
    ASSUME ControlInv, NEW n \in Records, Succ(rec, n), Reports(n),
           PublishSucceeds(n) \/ PublishFails(n),
           generated' \in Nat, generated <= generated', WellFormed(n, generated'), UNCHANGED leaked
    PROVE  /\ rec' \in Records /\ staged' \in Records \cup {None, Torn}
           /\ exposed' \in SUBSET Records /\ rec' \in exposed'
           /\ RecordInv' /\ ReportInv'
           /\ \/ rec' = n /\ exposed' = {n}
              \/ rec' = n /\ exposed' = {rec, n}
              \/ rec' = rec /\ exposed' = exposed
<1>1. \/ rec' = n /\ staged' = None /\ exposed' = {n}
      \/ rec' = n /\ staged' = None /\ exposed' = {rec, n}
      \/ rec' = rec /\ exposed' = exposed /\ staged' \in {None, n, Torn}
  BY DEF PublishSucceeds, PublishFails
<1>0. rec \in Records /\ rec \in exposed /\ exposed \subseteq Records /\ generated \in Nat
  BY DEF ControlInv, TypeOK
<1>2. /\ rec' \in Records /\ staged' \in Records \cup {None, Torn}
      /\ exposed' \in SUBSET Records /\ rec' \in exposed'
      /\ exposed' \subseteq exposed \cup {n}
  BY <1>0, <1>1
<1>3. \A r \in exposed' : WellFormed(r, generated')
  BY <1>0, <1>2, WellFormedGrows DEF ControlInv, RecordInv
<1>4. \A r \in exposed' : r = rec' \/ Succ(r, rec')
  BY <1>1 DEF ControlInv, RecordInv
<1>5. RecordInv'
  BY <1>3, <1>4 DEF RecordInv
<1>6. \A r : Reports(r) => Reports(r)'
  BY DEF Reports
<1>7. leaked' \subseteq 1 .. generated'
  <2>1. 1 .. generated \subseteq 1 .. generated'
    BY <1>0
  <2> QED BY <2>1 DEF ControlInv, ReportInv
<1>8. ReportInv'
  BY <1>2, <1>6, <1>7 DEF ControlInv, ReportInv
<1> QED BY <1>1, <1>2, <1>5, <1>8

\* A step that leaves host and services alone keeps every record that fits.
LEMMA SameHost == ASSUME UNCHANGED <<host, serving>>, NEW r, FitsHost(r) PROVE FitsHost(r)'
  BY DEF FitsHost

\* Publishing a record that fits the host keeps every exposed record fitting; a
\* commitment is published where nothing serves.
LEMMA PublishedHost ==
    ASSUME HostInv, NEW n, FitsHost(n), UNCHANGED <<host, serving>>, rec \in exposed,
           \/ rec' = n /\ exposed' = {n}
           \/ rec' = n /\ exposed' = {rec, n}
           \/ rec' = rec /\ exposed' = exposed,
           Forward(n) => serving \notin Links, pc' = "idle" \/ exposed' = {rec'}
    PROVE  /\ CommitmentInv'
           /\ \A r \in exposed' : FitsHost(r)'
<1>1. CommitmentInv'
  BY DEF HostInv, CommitmentInv
<1>2. \A r \in exposed' : FitsHost(r)
  BY DEF HostInv
<1> QED BY <1>1, <1>2, SameHost

\* Nothing is claimed of a process that ended.
LEMMA EndedStep == ASSUME pc' = "idle" PROVE StepFits'
  BY DEF StepFits

\* Once the journey has ended, HostInv asks of the records only.
LEMMA EndedHost ==
    ASSUME pc' = "idle", CommitmentInv', \A r \in exposed' : FitsHost(r)'
    PROVE  HostInv'
  BY DEF HostInv

\* A step that leaves the record alone, or makes it durable.
LEMMA SameRecord ==
    ASSUME ControlInv, UNCHANGED record \/ (UNCHANGED <<rec, staged>> /\ exposed' = {rec}),
           UNCHANGED leaked, generated' = generated
    PROVE  /\ RecordInv' /\ ReportInv'
           /\ rec' \in Records /\ staged' \in Records \cup {None, Torn}
           /\ exposed' \in SUBSET Records /\ rec' \in exposed'
<1>1. \A r : Reports(r) => Reports(r)'
  BY DEF Reports
<1> QED BY <1>1 DEF ControlInv, TypeOK, RecordInv, ReportInv, record

\* One lemma per action.  A refused step changes nothing and ends the journey.
LEMMA RefuseKeeps == ASSUME ChangeInv, Refuse PROVE ChangeInv'
<1>0. ControlInv /\ UNCHANGED record /\ UNCHANGED <<host, torn>> /\ UNCHANGED services
      /\ UNCHANGED knowledge /\ UNCHANGED bounds /\ pc' = "idle"
  BY DEF ChangeInv, Refuse, Stop
<1>1. RecordInv' /\ ReportInv'
  BY <1>0, SameRecord DEF knowledge, bounds
<1>2. TypeOK'
  BY <1>0 DEF ControlInv, TypeOK, record, services, knowledge, bounds
<1>3. ControlInv'
  BY <1>0, <1>1, <1>2, EndedStep DEF ControlInv
<1>4. HostInv => HostInv'
  <2> SUFFICES ASSUME HostInv PROVE HostInv'
    OBVIOUS
  <2>1. \A r \in exposed' : FitsHost(r)'
    BY <1>0, SameHost DEF HostInv, record, services
  <2>2. CommitmentInv'
    BY <1>0 DEF HostInv, CommitmentInv, record, services
  <2> QED BY <1>0, <2>1, <2>2, EndedHost
<1> QED BY <1>3, <1>4 DEF ChangeInv

\* Before the first enablement nothing is served and nothing is pending.
LEMMA ChangeInvInit == Init => ChangeInv
<1> SUFFICES ASSUME Init PROVE ChangeInv
  OBVIOUS
<1>1. rec \in Records /\ rec.op = "none" /\ rec.source = None /\ rec.target = None /\ rec.serving = None
  BY IdleFacts DEF Init
<1>2. generated \in 0 .. MaxLinks /\ failures \in 0 .. MaxFailures /\ losses \in 0 .. MaxPowerLoss
  BY SubscriptionAssumption DEF Init
<1>3. host \in [Resources -> Links \cup {0, None}]
  BY DEF Init
<1>4. TypeOK
  BY <1>1, <1>2, <1>3 DEF Init, TypeOK
<1>5. RecordInv
  BY <1>1 DEF Init, RecordInv, WellFormed
<1>6. ReportInv
  BY <1>1 DEF Init, ReportInv, Reports
<1>7. StepFits
  BY DEF Init, StepFits
<1>8. FitsHost(rec)
  <2>1. serving \notin Links
    BY SubscriptionAssumption DEF Init
  <2>2. \A p \in Resources : host[p] = None
    BY DEF Init
  <2> QED BY <1>1, <2>1, <2>2 DEF FitsHost
<1>9. HostInv
  BY <1>8 DEF Init, HostInv, CommitmentInv
<1> QED BY <1>4, <1>5, <1>6, <1>7, <1>9 DEF ChangeInv, ControlInv

-----------------------------------------------------------------------------
(* Publications.                                                           *)

Steps == {"idle", "advance", "effect", "verify", "clear", "cleanup", "prepare", "stop", "replace",
          "activate", "restore", "finish_repair"}

\* What a publication of n has to show.
LEMMA PublicationKeeps ==
    ASSUME ChangeInv, NEW n \in Records, Succ(rec, n), Reports(n),
           PublishSucceeds(n) \/ PublishFails(n),
           generated' \in 0 .. MaxLinks, generated <= generated', WellFormed(n, generated'),
           failures' \in 0 .. MaxFailures, losses' \in 0 .. MaxPowerLoss,
           UNCHANGED <<host, torn>>, UNCHANGED services, UNCHANGED leaked,
           disclosed' \in Links \cup {None}, pc' \in Steps,
           StepFits', pc' # "clear", pc' = "advance" => rec'.op # "rotate",
           pc' = "idle" \/ exposed' = {rec'},
           HostInv => FitsHost(n) /\ (Forward(n) => serving \notin Links)
    PROVE  ChangeInv'
<1>1. ControlInv /\ generated' \in Nat /\ rec \in exposed
  BY DEF ChangeInv, ControlInv, TypeOK
<1>2. /\ rec' \in Records /\ staged' \in Records \cup {None, Torn}
      /\ exposed' \in SUBSET Records /\ rec' \in exposed'
      /\ RecordInv' /\ ReportInv'
      /\ \/ rec' = n /\ exposed' = {n}
         \/ rec' = n /\ exposed' = {rec, n}
         \/ rec' = rec /\ exposed' = exposed
  BY <1>1, PublishedRecords
<1>3. TypeOK'
  BY <1>1, <1>2 DEF ControlInv, TypeOK, services, Steps
<1>4. HostInv => HostInv'
  <2> SUFFICES ASSUME HostInv PROVE HostInv'
    OBVIOUS
  <2>1. /\ CommitmentInv'
        /\ \A r \in exposed' : FitsHost(r)'
    BY <1>1, <1>2, PublishedHost DEF services
  <2> QED BY <2>1 DEF HostInv
<1> QED BY <1>2, <1>3, <1>4 DEF ChangeInv, ControlInv

\* The two outcomes of a publication that the journey goes on from.
LEMMA PublicationFacts ==
    ASSUME TypeOK, NEW n, NEW next, Publication(n, next)
    PROVE  /\ PublishSucceeds(n) \/ PublishFails(n)
           /\ pc' = "idle" \/ (pc' = next /\ rec' = n /\ exposed' = {n})
           /\ generated' = generated /\ generated \in Nat /\ generated' \in 0 .. MaxLinks
           /\ failures' \in 0 .. MaxFailures /\ losses' \in 0 .. MaxPowerLoss
  BY BoundsKept, SubscriptionAssumption DEF Publication, PublishSucceeds, Stop, TypeOK

\* Enablement and rotation begin with a record that fits whatever the one before
\* it fitted.
LEMMA BeginKeeps ==
    ASSUME ChangeInv, Offered, ~Pending(rec), NEW op \in {"enable", "rotate"}, NEW next \in {"advance", "prepare"},
           (op = "enable" /\ next = "advance" /\ rec.serving = None)
             \/ (op = "rotate" /\ next = "prepare" /\ rec.serving # None),
           Begin(op, next),
           \A n \in Records :
               /\ n.op = op /\ n.cp = 0 /\ n.source = rec.serving /\ n.serving = rec.serving
               /\ FitsHost(rec)
               => FitsHost(n)
    PROVE  ChangeInv'
<1> DEFINE n == BeginRecord(rec, op, generated + 1)
<1>0. /\ rec \in Records /\ rec \in exposed /\ WellFormed(rec, generated) /\ Reports(rec)
      /\ generated \in Nat /\ leaked \subseteq 1 .. generated /\ TypeOK
  BY DEF ChangeInv, ControlInv, TypeOK, RecordInv, ReportInv
<1>1. /\ generated < MaxLinks /\ generated' = generated + 1 /\ UNCHANGED <<host, torn>>
      /\ UNCHANGED services /\ UNCHANGED knowledge /\ UNCHANGED losses
      /\ \/ PublishSucceeds(n) /\ pc' = next /\ failures' = failures
         \/ failures < MaxFailures /\ failures' = failures + 1 /\ PublishFails(n) /\ pc' = "idle"
  BY DEF Begin, Stop
<1>2. generated + 1 \in Links /\ generated' \in 0 .. MaxLinks /\ generated <= generated'
  BY <1>0, <1>1, SubscriptionAssumption DEF Links
<1>3. /\ n \in Records /\ n.op = op /\ n.cp = 0 /\ n.source = rec.serving /\ n.target = generated + 1
      /\ n.serving = rec.serving /\ n.compromised = rec.compromised
  BY <1>0, <1>2, BeginFacts
<1>4. Succ(rec, n)
  <2>1. n = BeginRecord(rec, n.op, n.target)
    BY <1>3
  <2> HIDE DEF n
  <2> QED BY <1>3, <2>1, Zenon DEF Succ
<1> HIDE DEF n
<1>5. failures' \in 0 .. MaxFailures /\ losses' \in 0 .. MaxPowerLoss
  BY <1>0, <1>1, SubscriptionAssumption DEF TypeOK
<1>6. WellFormed(n, generated')
  <2>1. /\ rec.serving \in 1 .. generated' \cup {None} /\ generated + 1 \in 1 .. generated' /\ generated + 1 # None
    BY <1>0, <1>1, <1>2, SubscriptionAssumption DEF WellFormed
  <2>2. ~Forward(n)
    BY <1>3 DEF Forward
  <2> QED BY <1>3, <2>1, <2>2 DEF WellFormed
<1>7. Reports(n)
  <2>1. generated + 1 \notin leaked
    BY <1>0
  <2> QED BY <1>0, <1>3, <2>1 DEF Reports
<1>8. StepFits' /\ pc' \in Steps /\ pc' # "clear" /\ (pc' = "advance" => rec'.op # "rotate")
  <2>1. CASE pc' = "idle"
    BY <2>1, EndedStep DEF Steps
  <2>2. CASE PublishSucceeds(n) /\ pc' = next
    BY <1>3, <2>2 DEF PublishSucceeds, StepFits, Advances, Steps
  <2> QED BY <1>1, <2>1, <2>2
<1>9. HostInv => FitsHost(n) /\ (Forward(n) => serving \notin Links)
  BY <1>0, <1>3 DEF HostInv, Forward
<1>10. leaked' = leaked /\ disclosed' \in Links \cup {None}
  BY <1>0, <1>1 DEF knowledge, TypeOK
<1>11. (PublishSucceeds(n) \/ PublishFails(n)) /\ (pc' = "idle" \/ exposed' = {rec'})
  BY <1>1 DEF PublishSucceeds
<1> QED BY <1>1, <1>2, <1>3, <1>4, <1>5, <1>6, <1>7, <1>8, <1>9, <1>10, <1>11, PublicationKeeps

LEMMA EnableKeeps == ASSUME ChangeInv, Enable PROVE ChangeInv'
<1>1. /\ Offered /\ ~Pending(rec) /\ rec.serving = None /\ Absent /\ Begin("enable", "advance")
  BY DEF Enable
<1>2. ASSUME NEW n \in Records, n.op = "enable" PROVE FitsHost(n)
  BY <1>1, <1>2 DEF FitsHost, Absent
<1> QED BY <1>1, <1>2, BeginKeeps

LEMMA RotateKeeps == ASSUME ChangeInv, Rotate PROVE ChangeInv'
<1>1. /\ Offered /\ ~Pending(rec) /\ rec.serving # None /\ Material /\ Begin("rotate", "prepare")
  BY DEF Rotate
<1>2. host["token"] = rec.serving /\ host["state"] = rec.serving
  BY <1>1 DEF Material, CompleteMaterial, Body, Secrets
<1>3. ASSUME NEW n \in Records, n.op = "rotate", n.cp = 0, n.source = rec.serving,
             n.serving = rec.serving, FitsHost(rec)
      PROVE  FitsHost(n)
  BY <1>1, <1>2, <1>3 DEF FitsHost, Forward, Selected
<1> QED BY <1>1, <1>3, BeginKeeps

LEMMA RepairKeeps == ASSUME ChangeInv, Repair PROVE ChangeInv'
<1> DEFINE n == BeginRecord(rec, "repair", None)
<1>0. /\ rec \in Records /\ rec \in exposed /\ WellFormed(rec, generated) /\ Reports(rec) /\ TypeOK
  BY DEF ChangeInv, ControlInv, TypeOK, RecordInv, ReportInv
<1>1. /\ ~Pending(rec) /\ rec.serving # None /\ Publication(n, "advance")
      /\ UNCHANGED <<host, torn>> /\ UNCHANGED services /\ UNCHANGED knowledge
  BY DEF Repair
<1>2. /\ n \in Records /\ n.op = "repair" /\ n.cp = 0 /\ n.source = rec.serving /\ n.target = None
      /\ n.serving = rec.serving /\ n.compromised = rec.compromised
  BY <1>0, BeginFacts
<1>3. Succ(rec, n)
  <2>1. n = BeginRecord(rec, n.op, n.target)
    BY <1>2
  <2> HIDE DEF n
  <2> QED BY <1>1, <1>2, <2>1, Zenon DEF Succ
<1> HIDE DEF n
<1>4. /\ PublishSucceeds(n) \/ PublishFails(n)
      /\ pc' = "idle" \/ (pc' = "advance" /\ rec' = n /\ exposed' = {n})
      /\ generated' = generated /\ generated \in Nat /\ generated' \in 0 .. MaxLinks
      /\ failures' \in 0 .. MaxFailures /\ losses' \in 0 .. MaxPowerLoss
  BY <1>0, <1>1, PublicationFacts
<1>5. WellFormed(n, generated')
  BY <1>0, <1>1, <1>2, <1>4 DEF WellFormed
<1>6. Reports(n)
  BY <1>0, <1>2 DEF Reports
<1>7. StepFits' /\ pc' \in Steps /\ pc' # "clear" /\ (pc' = "advance" => rec'.op # "rotate")
  BY <1>2, <1>4 DEF StepFits, Advances, Steps
<1>a. ~Forward(n)
  BY <1>2 DEF Forward
<1>8. HostInv => FitsHost(n)
  <2>1. HostInv => FitsHost(rec)
    BY <1>0 DEF HostInv
  <2> QED BY <1>1, <1>2, <2>1 DEF FitsHost, Selected
<1>9. leaked' = leaked /\ disclosed' \in Links \cup {None}
  BY <1>0, <1>1 DEF knowledge, TypeOK
<1> QED BY <1>1, <1>2, <1>3, <1>4, <1>5, <1>6, <1>7, <1>8, <1>9, <1>a, PublicationKeeps

\* The next checkpoint says what the last one said.
LEMMA AdvanceWellFormed ==
    ASSUME ChangeInv, Advances(rec)
    PROVE  LET n == AdvanceRecord(rec)
           IN  Succ(rec, n) /\ WellFormed(n, generated) /\ Reports(n)
<1> DEFINE n == AdvanceRecord(rec)
<1>0. /\ rec \in Records /\ rec \in exposed /\ WellFormed(rec, generated) /\ Reports(rec)
  BY DEF ChangeInv, ControlInv, TypeOK, RecordInv, ReportInv
<1>1. /\ n.op = rec.op /\ n.cp = rec.cp + 1 /\ n.source = rec.source
      /\ n.target = rec.target /\ n.compromised = rec.compromised
      /\ n.serving = IF rec.op = "rotate" /\ rec.cp = StopAuthorized THEN rec.target ELSE rec.serving
  BY <1>0, AdvanceFacts
<1>2. Succ(rec, n)
  BY Zenon DEF Succ
<1> HIDE DEF n
<1>a. rec.cp \in 0 .. 13
  BY <1>0 DEF Records
<1>3. WellFormed(n, generated)
  <2>1. {n.source, n.target, n.serving} \subseteq 1 .. generated \cup {None}
    BY <1>0, <1>1 DEF WellFormed
  <2>2. n.op = "rotate" =>
          /\ n.cp <= Committed /\ n.source # None /\ n.target # None
          /\ n.serving = IF Forward(n) THEN n.target ELSE n.source
    BY <1>0, <1>1, <1>a DEF WellFormed, Forward, Advances
  <2>3. n.op = "repair" => n.cp <= Accepted /\ n.serving # None
    BY <1>0, <1>1, <1>a DEF WellFormed, Advances
  <2> QED BY <1>0, <1>1, <2>1, <2>2, <2>3 DEF WellFormed
<1>4. Reports(n)
  BY <1>0, <1>1 DEF Reports
<1> QED BY <1>2, <1>3, <1>4 DEF n

LEMMA AdvanceKeeps == ASSUME ChangeInv, Advance PROVE ChangeInv'
<1> DEFINE n == AdvanceRecord(rec)
<1>0. /\ rec \in Records /\ rec \in exposed /\ WellFormed(rec, generated) /\ TypeOK
      /\ Advances(rec) /\ ~(rec.op = "repair" /\ rec.cp = RepairTargeted) /\ pc = "advance"
  BY DEF ChangeInv, ControlInv, TypeOK, RecordInv, StepFits, Advance
<1>1. /\ Publication(n, StepAfter(n))
      /\ UNCHANGED <<host, torn>> /\ UNCHANGED services /\ UNCHANGED knowledge
  BY DEF Advance
<1>2. /\ n \in Records /\ n.op = rec.op /\ n.cp = rec.cp + 1 /\ n.source = rec.source /\ n.target = rec.target
      /\ n.serving = IF rec.op = "rotate" /\ rec.cp = StopAuthorized THEN rec.target ELSE rec.serving
  BY <1>0, AdvanceFacts
<1>3. Succ(rec, n) /\ WellFormed(n, generated) /\ Reports(n)
  BY <1>0, AdvanceWellFormed
<1> HIDE DEF n
<1>4. /\ PublishSucceeds(n) \/ PublishFails(n)
      /\ pc' = "idle" \/ (pc' = StepAfter(n) /\ rec' = n /\ exposed' = {n})
      /\ generated' = generated /\ generated \in Nat /\ generated' \in 0 .. MaxLinks
      /\ failures' \in 0 .. MaxFailures /\ losses' \in 0 .. MaxPowerLoss
  BY <1>0, <1>1, PublicationFacts
<1>a. rec.cp \in 0 .. 13
  BY <1>0 DEF Records
<1>5. StepFits' /\ pc' \in Steps /\ pc' # "clear" /\ (pc' = "advance" => rec'.op # "rotate")
  <2>1. CASE pc' = "idle"
    BY <2>1, EndedStep DEF Steps
  <2>2. CASE pc' = StepAfter(n) /\ rec' = n /\ exposed' = {n} /\ rec.op = "enable"
    <3>1. pc' = "effect"
      BY <1>2, <2>2 DEF StepAfter
    <3>2. n.op = "enable" /\ n.cp # 0
      BY <1>2, <1>a, <2>2
    <3> QED BY <2>2, <3>1, <3>2 DEF StepFits, Steps
  <2>3. CASE pc' = StepAfter(n) /\ rec' = n /\ exposed' = {n} /\ rec.op = "rotate"
    <3>1. pc' = IF Forward(n) THEN "replace" ELSE "stop"
      BY <1>2, <2>3 DEF StepAfter
    <3>2. n.op = "rotate" /\ (~Forward(n) => n.cp = StopAuthorized)
      BY <1>0, <1>2, <1>a, <2>3 DEF Forward, Advances
    <3> QED BY <2>3, <3>1, <3>2 DEF StepFits, Steps
  <2>4. CASE pc' = StepAfter(n) /\ rec' = n /\ exposed' = {n} /\ rec.op = "repair"
    <3>1. n.op = "repair" /\ n.cp \in {RepairCommitted, RepairTargeted}
      BY <1>0, <1>2, <1>a, <2>4 DEF Advances
    <3>2. pc' = IF n.cp = RepairCommitted THEN "advance" ELSE "activate"
      BY <2>4, <3>1 DEF StepAfter
    <3> QED BY <2>4, <3>1, <3>2 DEF StepFits, Advances, Steps
  <2> QED BY <1>0, <1>4, <2>1, <2>2, <2>3, <2>4 DEF Advances
<1>b. HostInv => (Forward(n) => serving \notin Links)
  <2>1. Forward(n) => rec.op = "rotate" /\ rec.cp = StopAuthorized
    BY <1>2, <1>a DEF Forward
  <2> QED BY <1>0, <2>1 DEF HostInv
<1>6. HostInv => FitsHost(n)
  <2> SUFFICES ASSUME HostInv PROVE FitsHost(n)
    OBVIOUS
  <2>1. FitsHost(rec)
    BY <1>0 DEF HostInv
  <2>2. CASE rec.op = "enable"
    <3>1. \A cp \in 1 .. rec.cp : cp \in 1 .. n.cp
      BY <1>2, <1>a
    <3>2. \A p \in Resources : host[p] # None => \E cp \in 1 .. n.cp : p \in Published(cp)
      BY <1>0, <2>1, <2>2, <3>1 DEF FitsHost, WellFormed
    <3>3. serving \in Links => Selected(n) = serving
      BY <1>0, <1>2, <1>a, <2>1, <2>2, SubscriptionAssumption DEF FitsHost, WellFormed, Selected
    <3> QED BY <1>2, <2>2, <3>2, <3>3 DEF FitsHost
  <2>3. CASE rec.op = "rotate" /\ rec.cp = StopAuthorized
    <3>1. serving \notin Links /\ \A p \in Candidates : host[p] = rec.target
      BY <1>0, <2>3 DEF HostInv
    <3>2. Forward(n) /\ n.serving # None
      BY <1>0, <1>2, <2>3 DEF Forward, WellFormed
    <3> QED BY <1>2, <3>1, <3>2 DEF FitsHost, Candidates
  <2>4. CASE rec.op = "rotate" /\ rec.cp = TargetAuthorized
    <3>1. ~Forward(n) /\ ~Forward(rec) /\ rec.serving # None /\ rec.op # "enable" /\ n.serving = rec.serving
      BY <1>0, <1>2, <2>4 DEF Forward, WellFormed
    <3> QED BY <1>2, <2>1, <2>4, <3>1 DEF FitsHost, Selected
  <2>5. CASE rec.op = "repair"
    <3>1. rec.serving # None /\ n.serving = rec.serving /\ n.op = "repair"
      BY <1>0, <1>2, <2>5 DEF WellFormed
    <3> QED BY <2>1, <3>1 DEF FitsHost, Selected
  <2> QED BY <1>0, <1>a, <2>2, <2>3, <2>4, <2>5 DEF Advances
<1>7. leaked' = leaked /\ disclosed' \in Links \cup {None}
  BY <1>0, <1>1 DEF knowledge, TypeOK
<1> QED BY <1>1, <1>2, <1>3, <1>4, <1>5, <1>6, <1>7, <1>b, PublicationKeeps

\* Completing a change publishes a record that the verified host fits.
LEMMA CompleteKeeps ==
    ASSUME ChangeInv, Completes(rec), Complete,
           UNCHANGED <<host, torn>>, UNCHANGED services, UNCHANGED leaked
    PROVE  ChangeInv'
<1> DEFINE n == CompleteRecord(rec)
<1>0. /\ rec \in Records /\ rec \in exposed /\ WellFormed(rec, generated) /\ Reports(rec) /\ TypeOK
  BY DEF ChangeInv, ControlInv, TypeOK, RecordInv, ReportInv
<1>1. /\ PublishSucceeds(n) \/ PublishFails(n)
      /\ pc' = "idle" /\ disclosed' \in {disclosed, rec.target} /\ (Fails \/ UNCHANGED bounds)
      /\ disclosed' # disclosed => rec.op # "repair"
  BY DEF Complete, Stop
<1>2. /\ n \in Records /\ n.op = "none" /\ n.source = None /\ n.target = None
      /\ n.serving = IF rec.op = "enable" THEN rec.target ELSE rec.serving
      /\ n.compromised <=> (rec.compromised /\ rec.op # "rotate")
  BY <1>0, CompleteFacts
<1>3. Succ(rec, n)
  BY Zenon DEF Succ
<1> HIDE DEF n
<1>4. /\ generated' = generated /\ generated \in Nat /\ generated' \in 0 .. MaxLinks
      /\ failures' \in 0 .. MaxFailures /\ losses' \in 0 .. MaxPowerLoss
  BY <1>0, <1>1, BoundsKept DEF TypeOK
<1>5. WellFormed(n, generated')
  BY <1>0, <1>2, <1>4 DEF WellFormed
<1>6. Reports(n)
  BY <1>0, <1>2 DEF Reports, WellFormed, Completes, Forward
<1>a. ~Forward(n)
  BY <1>2 DEF Forward
<1>7. HostInv => FitsHost(n)
  <2> SUFFICES ASSUME HostInv PROVE FitsHost(n)
    OBVIOUS
  <2>1. FitsHost(rec)
    BY <1>0 DEF HostInv
  <2>2. n.serving # None
    BY <1>0, <1>2 DEF WellFormed, Completes, Forward
  <2>3. Selected(n) = Selected(rec)
    BY <1>0, <1>2, <2>2 DEF Selected, WellFormed, Completes, Forward
  <2> QED BY <1>2, <2>1, <2>2, <2>3 DEF FitsHost
<1>8. disclosed' \in Links \cup {None}
  BY <1>0, <1>1 DEF TypeOK, Records
<1>9. StepFits' /\ pc' \in Steps /\ pc' # "clear" /\ (pc' = "advance" => rec'.op # "rotate")
  BY <1>1, EndedStep DEF Steps
<1> QED BY <1>1, <1>2, <1>3, <1>4, <1>5, <1>6, <1>7, <1>8, <1>9, <1>a, PublicationKeeps

\* An accepted repair: the selected link does not change.
LEMMA AcceptKeeps ==
    ASSUME ChangeInv, rec.op = "repair", rec.cp = RepairTargeted,
           Publication(AdvanceRecord(rec), "finish_repair"),
           UNCHANGED <<host, torn>>, UNCHANGED services, UNCHANGED knowledge
    PROVE  ChangeInv'
<1> DEFINE n == AdvanceRecord(rec)
<1>0. /\ rec \in Records /\ rec \in exposed /\ WellFormed(rec, generated) /\ TypeOK /\ Advances(rec)
  BY DEF ChangeInv, ControlInv, TypeOK, RecordInv, Advances
<1>1. /\ n \in Records /\ n.op = "repair" /\ n.cp = Accepted /\ n.serving = rec.serving
  BY <1>0, AdvanceFacts
<1>2. Succ(rec, n) /\ WellFormed(n, generated) /\ Reports(n)
  BY <1>0, AdvanceWellFormed
<1> HIDE DEF n
<1>3. /\ PublishSucceeds(n) \/ PublishFails(n)
      /\ pc' = "idle" \/ (pc' = "finish_repair" /\ rec' = n /\ exposed' = {n})
      /\ generated' = generated /\ generated \in Nat /\ generated' \in 0 .. MaxLinks
      /\ failures' \in 0 .. MaxFailures /\ losses' \in 0 .. MaxPowerLoss
  BY <1>0, PublicationFacts DEF n
<1>4. StepFits' /\ pc' \in Steps /\ pc' # "clear" /\ (pc' = "advance" => rec'.op # "rotate")
  BY <1>1, <1>3 DEF StepFits, Steps
<1>a. ~Forward(n)
  BY <1>1 DEF Forward
<1>5. HostInv => FitsHost(n)
  <2>1. HostInv => FitsHost(rec)
    BY <1>0 DEF HostInv
  <2>2. rec.serving # None
    BY <1>0 DEF WellFormed
  <2> QED BY <1>1, <2>1, <2>2 DEF FitsHost, Selected
<1>6. leaked' = leaked /\ disclosed' \in Links \cup {None}
  BY <1>0 DEF knowledge, TypeOK
<1> QED BY <1>1, <1>2, <1>3, <1>4, <1>5, <1>6, <1>a, PublicationKeeps

LEMMA VerifyKeeps == ASSUME ChangeInv, Verify PROVE ChangeInv'
<1>1. CASE Refuse
  BY <1>1, RefuseKeeps
<1>2. CASE ~Refuse
  <2>1. /\ UNCHANGED <<host, torn>> /\ UNCHANGED services /\ UNCHANGED leaked /\ pc = "verify"
        /\ IF rec.op = "repair"
           THEN Publication(AdvanceRecord(rec), "finish_repair") /\ UNCHANGED disclosed
           ELSE Complete
    BY <1>2 DEF Verify
  <2>2. \/ rec.op = "enable" /\ rec.cp = ServingActivated
        \/ Forward(rec)
        \/ rec.op = "repair" /\ rec.cp = RepairTargeted
    BY <2>1 DEF ChangeInv, ControlInv, StepFits
  <2>3. CASE rec.op = "repair"
    BY <2>1, <2>2, <2>3, AcceptKeeps DEF Forward, knowledge
  <2>4. CASE rec.op # "repair"
    BY <2>1, <2>2, <2>4, CompleteKeeps DEF Completes
  <2> QED BY <2>3, <2>4
<1> QED BY <1>1, <1>2

LEMMA FinishRepairKeeps == ASSUME ChangeInv, FinishRepair PROVE ChangeInv'
<1>1. CASE Refuse
  BY <1>1, RefuseKeeps
<1>2. CASE ~Refuse
  <2>1. /\ UNCHANGED <<host, torn>> /\ UNCHANGED services /\ UNCHANGED leaked /\ pc = "finish_repair"
        /\ Complete
    BY <1>2 DEF FinishRepair
  <2>2. Completes(rec)
    BY <2>1 DEF ChangeInv, ControlInv, StepFits, Completes
  <2> QED BY <2>1, <2>2, CompleteKeeps
<1> QED BY <1>1, <1>2

LEMMA ClearKeeps == ASSUME ChangeInv, Clear PROVE ChangeInv'
<1> DEFINE n == CleanupRecord(rec)
<1>0. /\ rec \in Records /\ rec \in exposed /\ WellFormed(rec, generated) /\ Reports(rec) /\ TypeOK
      /\ CleansUp(rec) /\ pc = "clear"
  BY DEF ChangeInv, ControlInv, TypeOK, RecordInv, ReportInv, StepFits, Clear
<1>1. /\ Publication(n, "idle")
      /\ UNCHANGED <<host, torn>> /\ UNCHANGED services /\ UNCHANGED knowledge
  BY DEF Clear
<1>2. /\ n \in Records /\ n.op = "none" /\ n.source = None /\ n.target = None
      /\ n.serving = rec.serving /\ n.compromised = rec.compromised
  BY <1>0, CleanupFacts
<1>3. Succ(rec, n)
  BY <1>0, Zenon DEF Succ
<1> HIDE DEF n
<1>4. /\ PublishSucceeds(n) \/ PublishFails(n)
      /\ pc' = "idle"
      /\ generated' = generated /\ generated \in Nat /\ generated' \in 0 .. MaxLinks
      /\ failures' \in 0 .. MaxFailures /\ losses' \in 0 .. MaxPowerLoss
  BY <1>0, <1>1, PublicationFacts
<1>5. WellFormed(n, generated') /\ Reports(n)
  BY <1>0, <1>2, <1>4 DEF WellFormed, Reports
<1>a. ~Forward(n)
  BY <1>2 DEF Forward
<1>6. HostInv => FitsHost(n)
  <2> SUFFICES ASSUME HostInv PROVE FitsHost(n)
    OBVIOUS
  <2>1. FitsHost(rec)
    BY <1>0 DEF HostInv
  <2>2. CASE rec.op = "enable"
    <3>1. serving \notin Links /\ \A p \in Resources : host[p] = None
      BY <1>0, <2>2 DEF HostInv
    <3> QED BY <1>2, <3>1 DEF FitsHost
  <2>3. CASE rec.op # "enable"
    <3>1. rec.serving # None
      BY <1>0, <2>3 DEF CleansUp, WellFormed
    <3> QED BY <1>2, <2>1, <3>1 DEF FitsHost, Selected
  <2> QED BY <2>2, <2>3
<1>7. leaked' = leaked /\ disclosed' \in Links \cup {None}
  BY <1>0, <1>1 DEF knowledge, TypeOK
<1>8. StepFits' /\ pc' \in Steps /\ pc' # "clear" /\ (pc' = "advance" => rec'.op # "rotate")
  BY <1>4, EndedStep DEF Steps
<1> QED BY <1>1, <1>2, <1>3, <1>4, <1>5, <1>6, <1>7, <1>8, <1>a, PublicationKeeps

LEMMA MarkCompromisedKeeps == ASSUME ChangeInv, MarkCompromised PROVE ChangeInv'
<1> DEFINE n == [rec EXCEPT !.compromised = TRUE]
<1>0. /\ rec \in Records /\ rec \in exposed /\ WellFormed(rec, generated) /\ Reports(rec) /\ TypeOK
      /\ generated \in Nat /\ leaked \subseteq 1 .. generated
  BY DEF ChangeInv, ControlInv, TypeOK, RecordInv, ReportInv
<1>1. /\ pc = "idle" /\ pc' = "idle" /\ ~Pending(rec) /\ rec.serving # None
      /\ UNCHANGED <<host, torn>> /\ UNCHANGED services /\ UNCHANGED disclosed
      /\ \/ PublishSucceeds(n) /\ leaked' = leaked \cup {rec.serving} /\ UNCHANGED bounds
         \/ PublishFails(n) /\ Fails /\ UNCHANGED leaked
  BY DEF MarkCompromised, Offered
<1>2. /\ n \in Records /\ n.op = rec.op /\ n.cp = rec.cp /\ n.source = rec.source
      /\ n.target = rec.target /\ n.serving = rec.serving /\ n.compromised = TRUE
  BY <1>0, MarkFacts
<1>3. Succ(rec, n)
  BY <1>1, Zenon DEF Succ
<1> HIDE DEF n
<1>4. /\ generated' = generated /\ generated' \in 0 .. MaxLinks
      /\ failures' \in 0 .. MaxFailures /\ losses' \in 0 .. MaxPowerLoss
  BY <1>0, <1>1, BoundsKept DEF TypeOK
<1>5. WellFormed(n, generated') /\ Reports(n)
  BY <1>0, <1>1, <1>2, <1>4 DEF WellFormed, Reports, Pending
<1>a. ~Forward(n)
  BY <1>1, <1>2 DEF Forward, Pending
<1>6. HostInv => FitsHost(n)
  <2>1. HostInv => FitsHost(rec)
    BY <1>0 DEF HostInv
  <2> QED BY <1>1, <1>2, <2>1 DEF FitsHost, Selected, Forward, Pending
<1>7. disclosed' \in Links \cup {None}
  BY <1>0, <1>1 DEF TypeOK
<1>8. StepFits' /\ pc' \in Steps /\ pc' # "clear" /\ (pc' = "advance" => rec'.op # "rotate")
  BY <1>1, EndedStep DEF Steps
<1>9. CASE UNCHANGED leaked
  BY <1>1, <1>2, <1>3, <1>4, <1>5, <1>6, <1>7, <1>8, <1>9, <1>0, <1>a, PublicationKeeps
<1>10. CASE PublishSucceeds(n) /\ leaked' = leaked \cup {rec.serving}
  <2>1. rec' = n /\ staged' = None /\ exposed' = {n}
    BY <1>10 DEF PublishSucceeds
  <2>2. rec.serving \in 1 .. generated /\ rec.serving \in Links
    BY <1>0, <1>1 DEF WellFormed, Records
  <2>3. TypeOK'
    BY <1>0, <1>1, <1>2, <1>4, <1>10, <2>1, <2>2 DEF TypeOK, services
  <2>4. RecordInv'
    BY <1>5, <2>1 DEF RecordInv
  <2>5. ReportInv'
    BY <1>0, <1>1, <1>2, <1>4, <1>10, <2>1, <2>2 DEF ReportInv, Reports, Pending
  <2>6. HostInv => HostInv'
    <3> SUFFICES ASSUME HostInv PROVE HostInv'
      OBVIOUS
    <3>1. UNCHANGED <<host, serving>>
      BY <1>1 DEF services
    <3>2. \A r \in exposed' : FitsHost(r)'
      BY <1>6, <2>1, <3>1, SameHost
    <3>3. CommitmentInv'
      BY <2>1 DEF CommitmentInv
    <3> QED BY <1>1, <3>2, <3>3, EndedHost
  <2> QED BY <1>8, <2>3, <2>4, <2>5, <2>6 DEF ChangeInv, ControlInv
<1> QED BY <1>1, <1>9, <1>10

-----------------------------------------------------------------------------
(* Effects of the Owner's process.                                         *)

\* What a step that publishes nothing has to show.
LEMMA EffectKeeps ==
    ASSUME ChangeInv, UNCHANGED record \/ (UNCHANGED <<rec, staged>> /\ exposed' = {rec}),
           UNCHANGED leaked, Fails \/ UNCHANGED bounds,
           host' \in [Resources -> Links \cup {0, None}], torn' \in BOOLEAN,
           serving' \in Links \cup {None, Failed}, proxy' \in BOOLEAN,
           disclosed' \in Links \cup {None}, pc' \in Steps, StepFits',
           HostInv =>
               /\ \A r \in exposed : r \in exposed' => FitsHost(r)'
               /\ Forward(rec) =>
                     \/ exposed = {rec} \/ exposed' = {rec}
                     \/ /\ serving' \notin Links \/ serving' = serving
                        /\ pc' \in {"idle", "replace"}
               /\ pc' = "advance" /\ rec.op = "rotate" /\ rec.cp = StopAuthorized =>
                     serving' \notin Links /\ \A p \in Candidates : host'[p] = rec.target
               /\ pc' = "clear" /\ rec.op = "enable" =>
                     serving' \notin Links /\ \A p \in Resources : host'[p] = None
    PROVE  ChangeInv'
<1>0. TypeOK /\ ControlInv
  BY DEF ChangeInv, ControlInv
<1>1. /\ generated' = generated
      /\ failures' \in 0 .. MaxFailures /\ losses' \in 0 .. MaxPowerLoss
  BY <1>0, BoundsKept
<1>2. /\ RecordInv' /\ ReportInv'
      /\ rec' \in Records /\ staged' \in Records \cup {None, Torn}
      /\ exposed' \in SUBSET Records /\ rec' \in exposed'
  BY <1>0, <1>1, SameRecord
<1>3. leaked' \subseteq Links /\ generated' \in 0 .. MaxLinks
  BY <1>0, <1>1 DEF TypeOK
<1>4. TypeOK'
  BY <1>1, <1>2, <1>3 DEF TypeOK, Steps
<1>5. rec' = rec /\ exposed' \in {exposed, {rec}} /\ rec \in exposed
  BY <1>0 DEF record, TypeOK
<1>6. HostInv => HostInv'
  <2> SUFFICES ASSUME HostInv PROVE HostInv'
    OBVIOUS
  <2>1. \A r \in exposed' : FitsHost(r)'
    BY <1>5
  <2>2. CommitmentInv'
    BY <1>5 DEF HostInv, CommitmentInv
  <2> QED BY <1>5, <2>1, <2>2 DEF HostInv
<1> QED BY <1>2, <1>4, <1>6 DEF ChangeInv, ControlInv

\* What an effect leaves of each resource that it writes, removes or does neither
\* to.
LEMMA ChangedHost ==
    ASSUME host \in [Resources -> Links \cup {0, None}], NEW link \in Links, NEW done, NEW gone
    PROVE  LET h == Remove(Write(host, done, link), gone)
           IN  /\ h \in [Resources -> Links \cup {0, None}]
               /\ \A p \in Resources :
                    /\ p \in gone => h[p] = None
                    /\ p \in done /\ p \notin gone => h[p] = Body(p, link)
                    /\ p \notin done /\ p \notin gone => h[p] = host[p]
<1>1. \A p \in Resources : Body(p, link) \in Links \cup {0, None}
  BY DEF Body
<1> QED BY <1>1 DEF Remove, Write

\* What an effect leaves that only removes.
LEMMA ShrunkHost ==
    ASSUME host \in [Resources -> Links \cup {0, None}], NEW gone
    PROVE  LET h == Remove(host, gone)
           IN  /\ h \in [Resources -> Links \cup {0, None}]
               /\ \A p \in Resources :
                    /\ p \in gone => h[p] = None
                    /\ p \notin gone => h[p] = host[p]
  BY DEF Remove

\* A record selects a link or none.
LEMMA SelectedLink ==
    ASSUME NEW r \in Records PROVE Selected(r) \in Links \cup {None}
  BY DEF Selected, Records

LEMMA FinishKeeps == ASSUME ChangeInv, Finish PROVE ChangeInv'
<1>0. /\ rec \in Records /\ rec \in exposed /\ WellFormed(rec, generated) /\ TypeOK
  BY DEF ChangeInv, ControlInv, TypeOK, RecordInv
<1>1. /\ Pending(rec) /\ pc' = FinishStep(rec)
      /\ UNCHANGED record /\ UNCHANGED <<host, torn>> /\ UNCHANGED services /\ UNCHANGED knowledge
      /\ UNCHANGED bounds
  BY DEF Finish
<1>2. rec.cp \in 0 .. 13 /\ rec.op \in {"enable", "rotate", "repair"}
  BY <1>0, <1>1 DEF Records, Pending
<1>3. /\ StepFits' /\ pc' \in Steps /\ (pc' \in {"advance", "clear"} => rec.op = "repair")
      /\ Forward(rec) => pc' = "replace"
  <2>1. CASE rec.op = "enable"
    <3>1. pc' = "cleanup"
      BY <1>1, <2>1 DEF FinishStep
    <3> QED BY <1>1, <2>1, <3>1 DEF StepFits, Steps, record, Forward
  <2>2. CASE rec.op = "rotate"
    <3>1. pc' = IF Forward(rec) THEN "replace" ELSE "restore"
      BY <1>1, <2>2 DEF FinishStep
    <3> QED BY <1>1, <2>2, <3>1 DEF StepFits, Steps, record
  <2>3. CASE rec.op = "repair"
    <3>1. rec.cp \in {Prepared, RepairCommitted, RepairTargeted, Accepted}
      BY <1>0, <1>2, <2>3 DEF WellFormed
    <3>2. /\ rec.cp = Prepared => pc' = "clear"
          /\ rec.cp = RepairCommitted => pc' = "advance"
          /\ rec.cp = RepairTargeted => pc' = "activate"
          /\ rec.cp = Accepted => pc' = "finish_repair"
      BY <1>1, <2>3 DEF FinishStep
    <3> QED BY <1>1, <2>3, <3>1, <3>2 DEF StepFits, Advances, CleansUp, Steps, record, Forward
  <2> QED BY <1>2, <2>1, <2>2, <2>3
<1>4. HostInv => \A r \in exposed : FitsHost(r)'
  BY <1>1, SameHost DEF HostInv, services
<1>5. /\ host' \in [Resources -> Links \cup {0, None}] /\ torn' \in BOOLEAN /\ serving' = serving
      /\ serving' \in Links \cup {None, Failed} /\ proxy' \in BOOLEAN
      /\ disclosed' \in Links \cup {None} /\ leaked' = leaked
  BY <1>0, <1>1 DEF TypeOK, services, knowledge
<1> QED BY <1>1, <1>3, <1>4, <1>5, EffectKeeps

LEMMA EnableEffectKeeps == ASSUME ChangeInv, EnableEffect PROVE ChangeInv'
<1>0. /\ rec \in Records /\ exposed = {rec} /\ WellFormed(rec, generated) /\ TypeOK
      /\ rec.op = "enable" /\ rec.cp # 0 /\ pc = "effect"
  BY DEF ChangeInv, ControlInv, TypeOK, RecordInv, StepFits, EnableEffect
<1>1. rec.target \in Links /\ rec.cp \in 1 .. 13 /\ rec.serving = None
  BY <1>0 DEF WellFormed, Records
<1>2. /\ UNCHANGED record /\ UNCHANGED proxy /\ UNCHANGED knowledge
      /\ Fails \/ UNCHANGED bounds
      /\ torn' \in {torn, TRUE}
      /\ serving' \in {serving, None, Failed, Selected(rec)}
      /\ \/ pc' = "idle"
         \/ pc' = "verify" /\ rec.cp = ServingActivated
         \/ pc' = "advance" /\ rec.cp # ServingActivated
  BY DEF EnableEffect, Stop, ActivateServing, ActivationFails
<1>3. PICK done \in SUBSET Published(rec.cp), gone \in SUBSET Cleared(rec.cp) :
           host' = Remove(Write(host, done, rec.target), gone)
  BY DEF EnableEffect
<1>4. /\ host' \in [Resources -> Links \cup {0, None}]
      /\ \A p \in Resources : p \notin done /\ host[p] = None => host'[p] = None
  <2>1. /\ host' \in [Resources -> Links \cup {0, None}]
        /\ \A p \in Resources :
             /\ p \in gone => host'[p] = None
             /\ p \notin done /\ p \notin gone => host'[p] = host[p]
    BY <1>0, <1>1, <1>3, ChangedHost DEF TypeOK
  <2> QED BY <2>1
<1>5. StepFits' /\ pc' \in Steps /\ pc' # "clear"
  BY <1>0, <1>1, <1>2 DEF StepFits, Advances, Steps, record
<1>6. HostInv => FitsHost(rec)'
  <2> SUFFICES ASSUME HostInv PROVE FitsHost(rec)'
    OBVIOUS
  <2>1. FitsHost(rec)
    BY <1>0 DEF HostInv
  <2>2. rec' = rec
    BY <1>2 DEF record
  <2>3. ASSUME NEW p \in Resources, host'[p] # None
        PROVE  \E cp \in 1 .. rec.cp : p \in Published(cp)
    <3>1. CASE p \in done
      BY <1>1, <3>1
    <3>2. CASE host[p] # None
      BY <1>1, <2>1, <3>2 DEF FitsHost
    <3> QED BY <1>4, <2>3, <3>1, <3>2
  <2>4. serving' \in Links => Selected(rec) = serving'
    BY <1>2, <2>1, SubscriptionAssumption DEF FitsHost
  <2> QED BY <1>0, <2>2, <2>3, <2>4 DEF FitsHost
<1>7. HostInv => \A r \in exposed : FitsHost(r)'
  BY <1>0, <1>2, <1>6 DEF record
<1>8. serving' \in Links \cup {None, Failed}
  BY <1>0, <1>2, SelectedLink DEF TypeOK
<1>9. torn' \in BOOLEAN /\ proxy' \in BOOLEAN /\ disclosed' \in Links \cup {None} /\ leaked' = leaked
  BY <1>0, <1>2 DEF TypeOK, knowledge
<1>10. rec.op # "rotate"
  BY <1>0
<1> QED BY <1>2, <1>4, <1>5, <1>7, <1>8, <1>9, <1>10, EffectKeeps DEF Forward

LEMMA CleanupEnableKeeps == ASSUME ChangeInv, CleanupEnable PROVE ChangeInv'
<1>1. CASE Refuse
  BY <1>1, RefuseKeeps
<1>2. CASE ~Refuse
  <2>0. /\ rec \in Records /\ TypeOK /\ RecordInv /\ rec.op = "enable" /\ pc = "cleanup"
    BY DEF ChangeInv, ControlInv, TypeOK, StepFits, CleanupEnable
  <2>1. /\ UNCHANGED record /\ UNCHANGED torn /\ UNCHANGED proxy /\ UNCHANGED knowledge
        /\ Fails \/ UNCHANGED bounds
        /\ serving' \in {serving, None}
        /\ \/ pc' = "idle"
           \/ pc' = "clear" /\ serving' = None /\ \A p \in Resources : host'[p] = None
        /\ host' = host \/ \E n \in 0 .. Len(CleanupOrder) : host' = Remove(host, CleanedUp(n))
    <3>1. Len(CleanupOrder) \in 0 .. Len(CleanupOrder)
      BY DEF CleanupOrder
    <3>2. serving' \in {serving, None} /\ UNCHANGED record /\ UNCHANGED torn /\ UNCHANGED proxy
          /\ UNCHANGED knowledge
      BY <1>2 DEF CleanupEnable
    <3>3. \/ pc' = "idle" /\ UNCHANGED host /\ UNCHANGED bounds
          \/ /\ serving' = None /\ host' = Remove(host, CleanedUp(Len(CleanupOrder))) /\ UNCHANGED bounds
             /\ pc' = IF \A p \in Resources : host'[p] = None THEN "clear" ELSE "idle"
          \/ /\ Fails /\ pc' = "idle"
             /\ \E n \in 0 .. Len(CleanupOrder) : host' = Remove(host, CleanedUp(n))
      BY <1>2 DEF CleanupEnable, Quiescent, Stop
    <3> QED BY <3>1, <3>2, <3>3
  <2>2. /\ host' \in [Resources -> Links \cup {0, None}]
        /\ \A p \in Resources : host'[p] # None => host[p] # None
    <3>1. CASE host' = host
      BY <2>0, <3>1 DEF TypeOK
    <3>2. CASE \E n \in 0 .. Len(CleanupOrder) : host' = Remove(host, CleanedUp(n))
      <4>1. PICK n \in 0 .. Len(CleanupOrder) : host' = Remove(host, CleanedUp(n))
        BY <3>2
      <4>2. /\ host' \in [Resources -> Links \cup {0, None}]
            /\ \A p \in Resources :
                 /\ p \in CleanedUp(n) => host'[p] = None
                 /\ p \notin CleanedUp(n) => host'[p] = host[p]
        BY <2>0, <4>1, ShrunkHost DEF TypeOK
      <4> QED BY <4>2
    <3> QED BY <2>1, <3>1, <3>2
  <2>3. StepFits' /\ pc' \in Steps /\ pc' # "advance"
    BY <2>0, <2>1 DEF StepFits, CleansUp, Steps, record
  <2>4. HostInv => \A r \in exposed : FitsHost(r)'
    <3> SUFFICES ASSUME HostInv, NEW r \in exposed PROVE FitsHost(r)'
      OBVIOUS
    <3>1. FitsHost(r) /\ r.op # "rotate"
      BY <2>0, BeforeEnable DEF HostInv, RecordInv, TypeOK
    <3>2. \A p \in Resources : host'[p] # None =>
              \/ r.serving # None
              \/ r.op = "enable" /\ \E cp \in 1 .. r.cp : p \in Published(cp)
      BY <2>2, <3>1 DEF FitsHost
    <3>3. serving' \in Links => Selected(r) = serving'
      BY <2>1, <3>1, SubscriptionAssumption DEF FitsHost
    <3> QED BY <3>1, <3>2, <3>3 DEF FitsHost
  <2>5. /\ torn' \in BOOLEAN /\ serving' \in Links \cup {None, Failed} /\ proxy' \in BOOLEAN
        /\ disclosed' \in Links \cup {None} /\ leaked' = leaked
    BY <2>0, <2>1 DEF TypeOK, knowledge
  <2>6. pc' = "clear" => serving' \notin Links /\ \A p \in Resources : host'[p] = None
    BY <2>1, SubscriptionAssumption
  <2>a. ~Forward(rec) /\ rec.op # "rotate"
    BY <2>0 DEF Forward
  <2> QED BY <2>1, <2>2, <2>3, <2>4, <2>5, <2>6, <2>a, EffectKeeps
<1> QED BY <1>1, <1>2

\* While a rotation is not committed every exposed record keeps its source.
LEMMA RotationExposes ==
    ASSUME ControlInv, rec.op = "rotate", ~Forward(rec)
    PROVE  \A r \in exposed :
               /\ r \in Records /\ ~Forward(r) /\ r.serving # None /\ r.serving = rec.serving
<1>1. rec \in Records /\ WellFormed(rec, generated) /\ rec.serving # None
  BY DEF ControlInv, TypeOK, RecordInv, WellFormed
<1> QED BY <1>1, BeforeRotate DEF ControlInv, TypeOK, RecordInv

LEMMA PrepareRotationKeeps == ASSUME ChangeInv, PrepareRotation PROVE ChangeInv'
<1>1. CASE Refuse
  BY <1>1, RefuseKeeps
<1>2. CASE ~Refuse
  <2>0. /\ rec \in Records /\ TypeOK /\ ControlInv /\ WellFormed(rec, generated)
        /\ rec.op = "rotate" /\ rec.cp = TargetAuthorized
    BY DEF ChangeInv, ControlInv, TypeOK, RecordInv, StepFits, PrepareRotation
  <2>1. /\ UNCHANGED record /\ UNCHANGED services /\ UNCHANGED knowledge
        /\ Fails \/ UNCHANGED bounds
        /\ torn' \in {torn, TRUE} /\ pc' \in {"idle", "advance"}
        /\ \E done \in SUBSET Candidates : host' = Write(host, done, rec.target)
    BY <1>2 DEF PrepareRotation, Stop, Candidates
  <2>2. PICK done \in SUBSET Candidates : host' = Write(host, done, rec.target)
    BY <2>1
  <2>3. rec.target \in Links /\ ~Forward(rec)
    BY <2>0 DEF WellFormed, Forward, Records
  <2>4. /\ host' \in [Resources -> Links \cup {0, None}]
        /\ host'["token"] = host["token"] /\ host'["state"] = host["state"]
    <3>1. \A p \in Resources : Body(p, rec.target) \in Links \cup {0, None}
      BY <2>3 DEF Body
    <3> QED BY <2>0, <2>2, <3>1 DEF Write, TypeOK, Candidates, Resources, Secrets
  <2>5. StepFits' /\ pc' \in Steps /\ pc' # "clear"
    BY <2>0, <2>1 DEF StepFits, Advances, Steps, record
  <2>6. HostInv => \A r \in exposed : FitsHost(r)'
    <3> SUFFICES ASSUME HostInv, NEW r \in exposed PROVE FitsHost(r)'
      OBVIOUS
    <3>1. FitsHost(r) /\ ~Forward(r) /\ r.serving # None
      BY <2>0, <2>3, RotationExposes DEF HostInv
    <3> QED BY <2>1, <2>4, <3>1 DEF FitsHost, services
  <2>7. /\ torn' \in BOOLEAN /\ serving' \in Links \cup {None, Failed} /\ proxy' \in BOOLEAN
        /\ disclosed' \in Links \cup {None} /\ leaked' = leaked
    BY <2>0, <2>1 DEF TypeOK, services, knowledge
  <2> QED BY <2>0, <2>1, <2>4, <2>5, <2>6, <2>7, EffectKeeps DEF Forward
<1> QED BY <1>1, <1>2

LEMMA StopSourceKeeps == ASSUME ChangeInv, StopSource PROVE ChangeInv'
<1>1. CASE Refuse
  BY <1>1, RefuseKeeps
<1>2. CASE ~Refuse
  <2>0. /\ rec \in Records /\ TypeOK /\ ControlInv
        /\ rec.op = "rotate" /\ rec.cp = StopAuthorized
    BY DEF ChangeInv, ControlInv, TypeOK, StepFits, StopSource
  <2>1. /\ UNCHANGED record /\ UNCHANGED <<host, torn>> /\ UNCHANGED proxy /\ UNCHANGED knowledge
        /\ Fails \/ UNCHANGED bounds
        /\ serving' \in {serving, None} /\ pc' \in {"idle", "advance"}
        /\ pc' = "advance" => serving' = None
        /\ \A p \in Candidates : host[p] = rec.target
    BY <1>2 DEF StopSource, Stop
  <2>2. StepFits' /\ pc' \in Steps /\ pc' # "clear"
    BY <2>0, <2>1 DEF StepFits, Advances, Steps, record
  <2>3. HostInv => \A r \in exposed : FitsHost(r)'
    <3> SUFFICES ASSUME HostInv, NEW r \in exposed PROVE FitsHost(r)'
      OBVIOUS
    <3>1. FitsHost(r)
      BY DEF HostInv
    <3>2. serving' \in Links => Selected(r) = serving'
      BY <2>1, <3>1, SubscriptionAssumption DEF FitsHost
    <3> QED BY <2>1, <3>1, <3>2 DEF FitsHost
  <2>4. /\ host' \in [Resources -> Links \cup {0, None}]
        /\ torn' \in BOOLEAN /\ serving' \in Links \cup {None, Failed} /\ proxy' \in BOOLEAN
        /\ disclosed' \in Links \cup {None} /\ leaked' = leaked
    BY <2>0, <2>1 DEF TypeOK, knowledge
  <2>5. pc' = "advance" => serving' \notin Links /\ \A p \in Candidates : host'[p] = rec.target
    BY <2>1, SubscriptionAssumption
  <2>a. ~Forward(rec)
    BY <2>0 DEF Forward
  <2> QED BY <2>1, <2>2, <2>3, <2>4, <2>5, <2>a, EffectKeeps
<1> QED BY <1>1, <1>2

LEMMA PublishTargetKeeps == ASSUME ChangeInv, PublishTarget PROVE ChangeInv'
<1>1. CASE Refuse
  BY <1>1, RefuseKeeps
<1>2. CASE ~Refuse
  <2>0. /\ rec \in Records /\ TypeOK /\ RecordInv /\ WellFormed(rec, generated) /\ Forward(rec)
        /\ exposed \subseteq Records
    BY DEF ChangeInv, ControlInv, TypeOK, RecordInv, StepFits, PublishTarget
  <2>1. /\ UNCHANGED <<rec, staged>> /\ UNCHANGED torn /\ UNCHANGED services /\ UNCHANGED knowledge
        /\ Fails \/ UNCHANGED bounds
        /\ pc' \in {"idle", "activate"}
        /\ \E n \in 0 .. 2 : host' = TargetMaterial(n) /\ Settled(n) /\ (n < 2 => pc' = "idle")
        /\ rec.target \in {host["token"], host["candidate_token"]}
        /\ rec.target \in {host["state"], host["candidate_state"]}
    BY <1>2 DEF PublishTarget, Stop
  <2>2. PICK n \in 0 .. 2 : host' = TargetMaterial(n) /\ Settled(n) /\ (n < 2 => pc' = "idle")
    BY <2>1
  <2>a. exposed' \in {exposed, {rec}} /\ (n = 2 => exposed' = {rec})
    BY <2>2 DEF Settled
  <2>b. UNCHANGED record \/ (UNCHANGED <<rec, staged>> /\ exposed' = {rec})
    BY <2>1, <2>a DEF record
  <2>3. rec.target \in Links /\ rec.op = "rotate" /\ rec.serving # None
    BY <2>0 DEF WellFormed, Forward, Records
  <2> DEFINE token == IF n >= 1 THEN {"token"} ELSE {}
             state == IF n >= 2 THEN {"state"} ELSE {}
             done == token \cup state
             gone == (IF n >= 1 THEN {"candidate_token"} ELSE {})
                     \cup (IF n >= 2 THEN {"candidate_state"} ELSE {})
  <2>4. host' = Remove(Write(host, done, rec.target), gone)
    BY <2>2 DEF TargetMaterial
  <2>5. /\ host' \in [Resources -> Links \cup {0, None}]
        /\ \A p \in Resources :
             /\ p \in gone => host'[p] = None
             /\ p \in done /\ p \notin gone => host'[p] = Body(p, rec.target)
             /\ p \notin done /\ p \notin gone => host'[p] = host[p]
    <3> HIDE DEF done, gone
    <3> QED BY <2>0, <2>3, <2>4, ChangedHost DEF TypeOK
  <2>6. /\ {"token", "state", "candidate_token", "candidate_state"} \subseteq Resources
        /\ \A p \in {"token", "state"} : Body(p, rec.target) = rec.target
    BY DEF Resources, Secrets, Body
  <2>7. /\ rec.target \in {host'["token"], host'["candidate_token"]}
        /\ rec.target \in {host'["state"], host'["candidate_state"]}
    <3>1. CASE n = 0
      BY <2>1, <2>5, <2>6, <3>1
    <3>2. CASE n = 1
      BY <2>1, <2>5, <2>6, <3>2
    <3>3. CASE n = 2
      BY <2>1, <2>5, <2>6, <3>3
    <3> QED BY <3>1, <3>2, <3>3
  <2>c. serving' = serving /\ (exposed' = {rec} \/ pc' = "idle")
    BY <2>1, <2>2, <2>a DEF services
  <2>8. StepFits' /\ pc' \in Steps /\ pc' \notin {"clear", "advance"}
    BY <2>0, <2>1 DEF StepFits, Steps, record
  <2>9. HostInv => \A r \in exposed : r \in exposed' => FitsHost(r)'
    <3> SUFFICES ASSUME HostInv, NEW r \in exposed, r \in exposed' PROVE FitsHost(r)'
      OBVIOUS
    <3>1. FitsHost(r)
      BY DEF HostInv
    <3>2. CASE r = rec
      BY <2>0, <2>1, <2>3, <2>7, <3>1, <3>2 DEF FitsHost, services
    <3>3. CASE r # rec
      <4>1. /\ r.op = "rotate" /\ r.cp = StopAuthorized /\ r.target = rec.target
            /\ ~Forward(r) /\ r.serving # None
        BY <2>0, <3>3, BeforeForward DEF RecordInv
      <4>2. n # 2
        BY <2>a, <3>3
      <4>3. host'["state"] = host["state"] /\ host'["token"] \in {host["token"], rec.target}
        BY <2>5, <2>6, <4>2
      <4> QED BY <2>1, <3>1, <4>1, <4>3 DEF FitsHost, Overtaken, services
    <3> QED BY <3>2, <3>3
  <2>10. /\ torn' \in BOOLEAN /\ serving' \in Links \cup {None, Failed} /\ proxy' \in BOOLEAN
         /\ disclosed' \in Links \cup {None} /\ leaked' = leaked
    BY <2>0, <2>1 DEF TypeOK, services, knowledge
  <2> QED BY <2>1, <2>5, <2>8, <2>9, <2>10, <2>b, <2>c, EffectKeeps
<1> QED BY <1>1, <1>2

\* What serves a link that every exposed record selects fits them.
LEMMA ServingFits ==
    ASSUME HostInv, UNCHANGED host, NEW r \in exposed,
           serving' \in Links => Selected(r) = serving'
    PROVE  FitsHost(r)'
<1>1. FitsHost(r)
  BY DEF HostInv
<1> QED BY <1>1 DEF FitsHost

LEMMA ActivateKeeps == ASSUME ChangeInv, Activate PROVE ChangeInv'
<1>1. CASE Refuse
  BY <1>1, RefuseKeeps
<1>2. CASE ~Refuse
  <2>0. /\ rec \in Records /\ TypeOK /\ RecordInv /\ WellFormed(rec, generated)
        /\ Forward(rec) \/ (rec.op = "repair" /\ rec.cp = RepairTargeted)
    BY DEF ChangeInv, ControlInv, TypeOK, RecordInv, StepFits, Activate
  <2>1. /\ UNCHANGED record /\ UNCHANGED <<host, torn>> /\ UNCHANGED proxy /\ UNCHANGED knowledge
        /\ Fails \/ UNCHANGED bounds
        /\ serving' \in {serving, None, Failed, Selected(rec)} /\ pc' \in {"idle", "verify"}
    BY <1>2 DEF Activate, ActivateServing, ActivationFails, Stop
  <2>2. StepFits' /\ pc' \in Steps /\ pc' \notin {"clear", "advance"}
    BY <2>0, <2>1 DEF StepFits, Steps, record
  <2>3. HostInv => \A r \in exposed : FitsHost(r)'
    <3> SUFFICES ASSUME HostInv, NEW r \in exposed PROVE FitsHost(r)'
      OBVIOUS
    <3>1. Selected(r) = Selected(rec)
      <4>1. CASE Forward(rec)
        BY <4>1 DEF HostInv, CommitmentInv, Activate
      <4>2. CASE rec.op = "repair"
        <5>1. r.serving = rec.serving
          BY <2>0, <4>2, BeforeRepair DEF RecordInv, TypeOK
        <5> QED BY <2>0, <4>2, <5>1 DEF WellFormed, Selected
      <4> QED BY <2>0, <4>1, <4>2
    <3>2. serving \in Links => Selected(r) = serving
      BY DEF HostInv, FitsHost
    <3>3. serving' \in Links => Selected(r) = serving'
      BY <2>1, <3>1, <3>2, SubscriptionAssumption
    <3> QED BY <2>1, <3>3, ServingFits
  <2>a. HostInv => (Forward(rec) => exposed = {rec})
    BY DEF HostInv, CommitmentInv, Activate
  <2>4. serving' \in Links \cup {None, Failed}
    BY <2>0, <2>1, SelectedLink DEF TypeOK
  <2>5. /\ host' \in [Resources -> Links \cup {0, None}] /\ torn' \in BOOLEAN /\ proxy' \in BOOLEAN
        /\ disclosed' \in Links \cup {None} /\ leaked' = leaked
    BY <2>0, <2>1 DEF TypeOK, knowledge
  <2> QED BY <2>1, <2>2, <2>3, <2>4, <2>5, <2>a, EffectKeeps
<1> QED BY <1>1, <1>2

LEMMA RestoreSourceKeeps == ASSUME ChangeInv, RestoreSource PROVE ChangeInv'
<1>1. CASE Refuse
  BY <1>1, RefuseKeeps
<1>2. CASE ~Refuse
  <2>0. /\ rec \in Records /\ TypeOK /\ ControlInv /\ rec.op = "rotate" /\ ~Forward(rec)
    BY DEF ChangeInv, ControlInv, TypeOK, StepFits, RestoreSource
  <2>1. /\ UNCHANGED record /\ UNCHANGED torn /\ UNCHANGED proxy /\ UNCHANGED knowledge
        /\ Fails \/ UNCHANGED bounds
        /\ serving' \in {serving, None, Failed, Selected(rec)} /\ pc' \in {"idle", "clear"}
        /\ \E gone \in SUBSET Candidates : host' = Remove(host, gone)
    BY <1>2 DEF RestoreSource, ActivateServing, ActivationFails, Stop, Candidates
  <2>2. PICK gone \in SUBSET Candidates : host' = Remove(host, gone)
    BY <2>1
  <2>3. /\ host' \in [Resources -> Links \cup {0, None}]
        /\ host'["token"] = host["token"] /\ host'["state"] = host["state"]
    BY <2>0, <2>2 DEF Remove, TypeOK, Candidates, Resources, Secrets
  <2>4. StepFits' /\ pc' \in Steps /\ pc' # "advance"
    BY <2>0, <2>1 DEF StepFits, CleansUp, Steps, record
  <2>5. HostInv => \A r \in exposed : FitsHost(r)'
    <3> SUFFICES ASSUME HostInv, NEW r \in exposed PROVE FitsHost(r)'
      OBVIOUS
    <3>1. FitsHost(r) /\ ~Forward(r) /\ r.serving # None /\ r.serving = rec.serving
      BY <2>0, RotationExposes DEF HostInv
    <3>2. Selected(r) = Selected(rec)
      BY <3>1 DEF Selected
    <3>3. serving' \in Links => Selected(r) = serving'
      BY <2>1, <3>1, <3>2, SubscriptionAssumption DEF FitsHost
    <3> QED BY <2>3, <3>1, <3>3 DEF FitsHost
  <2>6. serving' \in Links \cup {None, Failed}
    BY <2>0, <2>1, SelectedLink DEF TypeOK
  <2>7. /\ torn' \in BOOLEAN /\ proxy' \in BOOLEAN
        /\ disclosed' \in Links \cup {None} /\ leaked' = leaked
    BY <2>0, <2>1 DEF TypeOK, knowledge
  <2>8. rec.op # "enable" /\ ~Forward(rec)
    BY <2>0
  <2> QED BY <2>1, <2>3, <2>4, <2>5, <2>6, <2>7, <2>8, EffectKeeps
<1> QED BY <1>1, <1>2

-----------------------------------------------------------------------------
(* Disclosure, systemd, failures and power.                                *)

\* A step of another actor: the Owner's process stays where it is.
LEMMA ActorKeeps ==
    ASSUME ChangeInv, UNCHANGED record, UNCHANGED <<host, torn>>, UNCHANGED pc, UNCHANGED leaked,
           Fails \/ UNCHANGED bounds, proxy' \in BOOLEAN, disclosed' \in Links \cup {None},
           serving' \in Links \cup {None, Failed},
           HostInv =>
               /\ \A r \in exposed : serving' \in Links => Selected(r) = serving'
               /\ pc # "idle" \/ Forward(rec) => serving' \notin Links \/ serving' = serving
    PROVE  ChangeInv'
<1>0. TypeOK /\ StepFits
  BY DEF ChangeInv, ControlInv
<1>1. StepFits'
  BY <1>0 DEF StepFits, record
<1>2. pc' \in Steps /\ host' \in [Resources -> Links \cup {0, None}] /\ torn' \in BOOLEAN
  BY <1>0 DEF TypeOK, Steps
<1>3. HostInv =>
          /\ \A r \in exposed : FitsHost(r)'
          /\ Forward(rec) =>
                \/ exposed = {rec}
                \/ (serving' \notin Links \/ serving' = serving) /\ pc' \in {"idle", "replace"}
          /\ pc' = "advance" /\ rec.op = "rotate" /\ rec.cp = StopAuthorized =>
                serving' \notin Links /\ \A p \in Candidates : host'[p] = rec.target
          /\ pc' = "clear" /\ rec.op = "enable" =>
                serving' \notin Links /\ \A p \in Resources : host'[p] = None
  <2> SUFFICES ASSUME HostInv
               PROVE  /\ \A r \in exposed : FitsHost(r)'
                      /\ Forward(rec) =>
                            \/ exposed = {rec}
                            \/ /\ serving' \notin Links \/ serving' = serving
                               /\ pc' \in {"idle", "replace"}
                      /\ pc' = "advance" /\ rec.op = "rotate" /\ rec.cp = StopAuthorized =>
                            serving' \notin Links /\ \A p \in Candidates : host'[p] = rec.target
                      /\ pc' = "clear" /\ rec.op = "enable" =>
                            serving' \notin Links /\ \A p \in Resources : host'[p] = None
    OBVIOUS
  <2>1. \A r \in exposed : FitsHost(r)'
    BY ServingFits
  <2>2. pc' = "advance" /\ rec.op = "rotate" /\ rec.cp = StopAuthorized =>
            serving' \notin Links /\ \A p \in Candidates : host'[p] = rec.target
    BY DEF HostInv
  <2>3. pc' = "clear" /\ rec.op = "enable" =>
            serving' \notin Links /\ \A p \in Resources : host'[p] = None
    BY DEF HostInv
  <2>4. Forward(rec) =>
            \/ exposed = {rec}
            \/ (serving' \notin Links \/ serving' = serving) /\ pc' \in {"idle", "replace"}
    BY DEF HostInv, CommitmentInv
  <2> QED BY <2>1, <2>2, <2>3, <2>4
<1> QED BY <1>1, <1>2, <1>3, EffectKeeps

\* The link that is served is selected by every exposed record.
LEMMA ServingUnchanged ==
    ASSUME HostInv PROVE \A r \in exposed : serving \in Links => Selected(r) = serving
  BY DEF HostInv, FitsHost

LEMMA ViewDetailsKeeps == ASSUME ChangeInv, ViewDetails PROVE ChangeInv'
<1>0. TypeOK /\ rec.serving \in Links \cup {None}
  BY DEF ChangeInv, ControlInv, TypeOK, Records
<1>1. /\ UNCHANGED record /\ UNCHANGED <<host, torn>> /\ UNCHANGED services /\ UNCHANGED pc
      /\ UNCHANGED leaked /\ UNCHANGED bounds /\ disclosed' = rec.serving
  BY DEF ViewDetails
<1>2. serving' = serving /\ serving' \in Links \cup {None, Failed} /\ proxy' \in BOOLEAN
  BY <1>0, <1>1 DEF services, TypeOK
<1> QED BY <1>0, <1>1, <1>2, ServingUnchanged, ActorKeeps

LEMMA SystemStartsServingKeeps == ASSUME ChangeInv, SystemStartsServing PROVE ChangeInv'
<1>0. TypeOK /\ RecordInv /\ rec \in Records /\ rec \in exposed
  BY DEF ChangeInv, ControlInv, TypeOK
<1>1. /\ UNCHANGED record /\ UNCHANGED <<host, torn>> /\ UNCHANGED proxy /\ UNCHANGED pc
      /\ UNCHANGED knowledge /\ UNCHANGED bounds /\ host["link"] # None
      /\ serving' = IF pc = "idle" /\ ServingAuthorized(rec) THEN Selected(rec) ELSE Failed
  BY DEF SystemStartsServing
<1>2. HostInv => \A r \in exposed : serving' \in Links => Selected(r) = serving'
  <2> SUFFICES ASSUME HostInv, NEW r \in exposed, serving' \in Links PROVE Selected(r) = serving'
    OBVIOUS
  <2>1. ServingAuthorized(rec) /\ serving' = Selected(rec)
    BY <1>1, SubscriptionAssumption
  <2>2. ~Forward(rec)
    BY <2>1 DEF ServingAuthorized, Forward
  <2>3. \A cp \in 0 .. 13 : "link" \in Published(cp) => cp = ServingActivated
    BY DEF Published
  <2>4. ASSUME NEW s \in exposed PROVE Startable(s)
    <3>1. FitsHost(s) /\ s \in Records
      BY <1>0 DEF HostInv, TypeOK
    <3>2. s.serving # None \/ (s.op = "enable" /\ \E cp \in 1 .. s.cp : "link" \in Published(cp))
      BY <1>1, <3>1 DEF FitsHost, Resources
    <3>3. s.cp \in 0 .. 13
      BY <3>1 DEF Records
    <3>4. CASE s.op = "enable" /\ \E cp \in 1 .. s.cp : "link" \in Published(cp)
      <4>1. PICK cp \in 1 .. s.cp : "link" \in Published(cp)
        BY <3>4
      <4>2. cp = 13 /\ cp <= s.cp
        BY <2>3, <3>3, <4>1
      <4>3. s.cp = 13
        BY <3>3, <4>2
      <4> QED BY <3>4, <4>3 DEF Startable
    <3> QED BY <3>2, <3>4 DEF Startable
  <2>5. CASE r = rec
    BY <2>1, <2>5
  <2>6. CASE Succ(r, rec)
    <3>1. r \in Records /\ WellFormed(r, generated) /\ WellFormed(rec, generated)
      BY <1>0 DEF RecordInv, TypeOK
    <3>2. Selected(r) = Selected(rec)
      BY <1>0, <2>2, <2>4, <2>6, <3>1, StartableAgree
    <3> QED BY <2>1, <3>2
  <2> QED BY <1>0, <2>5, <2>6 DEF RecordInv
<1>3. serving' \in Links \cup {None, Failed}
  BY <1>0, <1>1, SelectedLink
<1>4. pc # "idle" \/ Forward(rec) => serving' \notin Links
  BY <1>1, SubscriptionAssumption DEF ServingAuthorized, Forward
<1>5. proxy' \in BOOLEAN /\ disclosed' \in Links \cup {None} /\ leaked' = leaked
  BY <1>0, <1>1 DEF TypeOK, knowledge
<1> QED BY <1>1, <1>2, <1>3, <1>4, <1>5, ActorKeeps

LEMMA ServingDiesKeeps == ASSUME ChangeInv, ServingDies PROVE ChangeInv'
<1>0. TypeOK
  BY DEF ChangeInv, ControlInv
<1>1. /\ UNCHANGED record /\ UNCHANGED <<host, torn>> /\ UNCHANGED proxy /\ UNCHANGED pc
      /\ UNCHANGED knowledge /\ Fails /\ serving' = Failed /\ serving' \notin Links
  BY SubscriptionAssumption DEF ServingDies
<1>2. proxy' \in BOOLEAN /\ disclosed' \in Links \cup {None} /\ leaked' = leaked
  BY <1>0, <1>1 DEF TypeOK, knowledge
<1> QED BY <1>1, <1>2, ActorKeeps

LEMMA ProxyKeeps == ASSUME ChangeInv, ProxyStops \/ ProxyStarts PROVE ChangeInv'
<1>0. TypeOK
  BY DEF ChangeInv, ControlInv
<1>1. /\ UNCHANGED record /\ UNCHANGED <<host, torn>> /\ UNCHANGED serving /\ UNCHANGED pc
      /\ UNCHANGED knowledge /\ (Fails \/ UNCHANGED bounds) /\ proxy' \in BOOLEAN
  BY DEF ProxyStops, ProxyStarts
<1>2. serving' \in Links \cup {None, Failed} /\ disclosed' \in Links \cup {None} /\ leaked' = leaked
  BY <1>0, <1>1 DEF TypeOK, knowledge
<1> QED BY <1>1, <1>2, ServingUnchanged, ActorKeeps

LEMMA KillKeeps == ASSUME ChangeInv, Kill PROVE ChangeInv'
<1>0. TypeOK
  BY DEF ChangeInv, ControlInv
<1>1. /\ UNCHANGED record /\ UNCHANGED <<host, torn>> /\ UNCHANGED services
      /\ UNCHANGED knowledge /\ Fails /\ pc' = "idle"
  BY DEF Kill, Stop
<1>2. /\ host' \in [Resources -> Links \cup {0, None}] /\ torn' \in BOOLEAN
      /\ serving' \in Links \cup {None, Failed} /\ proxy' \in BOOLEAN
      /\ disclosed' \in Links \cup {None} /\ leaked' = leaked
  BY <1>0, <1>1 DEF TypeOK, services, knowledge
<1>a. serving' = serving
  BY <1>1 DEF services
<1>3. HostInv => \A r \in exposed : FitsHost(r)'
  BY <1>1, SameHost DEF HostInv, services
<1>4. StepFits' /\ pc' \in Steps /\ pc' \notin {"clear", "advance"}
  BY <1>1, EndedStep DEF Steps
<1> QED BY <1>1, <1>2, <1>3, <1>4, <1>a, EffectKeeps

LEMMA PowerLossKeeps == ASSUME ChangeInv, PowerLoss PROVE ChangeInv'
<1>0. /\ TypeOK /\ RecordInv /\ ReportInv /\ rec \in Records /\ rec \in exposed
  BY DEF ChangeInv, ControlInv, TypeOK
<1>1. /\ losses < MaxPowerLoss /\ losses' = losses + 1 /\ rec' \in exposed /\ exposed' = {rec'}
      /\ staged' \in {None, Torn, staged, rec}
      /\ serving' = None /\ proxy' = FALSE /\ pc' = "idle"
      /\ UNCHANGED torn /\ UNCHANGED knowledge /\ UNCHANGED <<generated, failures>>
      /\ host' = [host EXCEPT !["rule"] =
                    IF host["firewall_unit"] # None /\ host["firewall_link"] # None THEN 0 ELSE None]
  BY DEF PowerLoss, Stop
<1>2. /\ host' \in [Resources -> Links \cup {0, None}]
      /\ \A p \in Resources : p # "rule" => host'[p] = host[p]
      /\ host'["rule"] # None => host["firewall_link"] # None
  BY <1>0, <1>1 DEF TypeOK, Resources
<1>3. RecordInv'
  BY <1>0, <1>1 DEF RecordInv
<1>4. ReportInv'
  <2>1. \A r : Reports(r) => Reports(r)'
    BY <1>1 DEF Reports, knowledge
  <2> QED BY <1>0, <1>1, <2>1 DEF ReportInv, knowledge
<1>5. losses' \in 0 .. MaxPowerLoss
  BY <1>0, <1>1, SubscriptionAssumption DEF TypeOK
<1>6. TypeOK'
  BY <1>0, <1>1, <1>2, <1>5 DEF TypeOK, knowledge
<1>7. HostInv => HostInv'
  <2> SUFFICES ASSUME HostInv PROVE HostInv'
    OBVIOUS
  <2>1. \A cp \in 0 .. 13 : "firewall_link" \in Published(cp) => "rule" \in Published(cp)
    BY DEF Published
  <2>2. ASSUME NEW r \in exposed PROVE FitsHost(r)'
    <3>1. FitsHost(r) /\ r.cp \in 0 .. 13
      BY <1>0 DEF HostInv, TypeOK, Records
    <3>2. ASSUME NEW p \in Resources, host'[p] # None
          PROVE  \/ r.serving # None
                 \/ r.op = "enable" /\ \E cp \in 1 .. r.cp : p \in Published(cp)
      <4>1. CASE p # "rule"
        BY <1>2, <3>1, <3>2, <4>1 DEF FitsHost
      <4>2. CASE p = "rule"
        <5>1. "firewall_link" \in Resources /\ host["firewall_link"] # None
          BY <1>2, <3>2, <4>2 DEF Resources
        <5>2. \/ r.serving # None
              \/ r.op = "enable" /\ \E cp \in 1 .. r.cp : "firewall_link" \in Published(cp)
          BY <3>1, <5>1 DEF FitsHost
        <5> QED BY <2>1, <3>1, <4>2, <5>2
      <4> QED BY <4>1, <4>2
    <3>3. /\ host'["token"] = host["token"] /\ host'["state"] = host["state"]
          /\ host'["candidate_token"] = host["candidate_token"]
          /\ host'["candidate_state"] = host["candidate_state"]
      BY <1>2 DEF Resources, Secrets
    <3>4. serving' \notin Links
      BY <1>1, SubscriptionAssumption
    <3> QED BY <3>1, <3>2, <3>3, <3>4 DEF FitsHost
  <2>3. \A r \in exposed' : FitsHost(r)'
    BY <1>1, <2>2
  <2>4. CommitmentInv'
    BY <1>1 DEF CommitmentInv
  <2> QED BY <1>1, <2>3, <2>4, EndedHost
<1>8. StepFits'
  BY <1>1, EndedStep
<1> QED BY <1>3, <1>4, <1>6, <1>7, <1>8 DEF ChangeInv, ControlInv

-----------------------------------------------------------------------------
(* The theorems.                                                           *)

\* Every step of Next is one of the above.
LEMMA ChangeInvStep == ChangeInv /\ [Next]_vars => ChangeInv'
<1> SUFFICES ASSUME ChangeInv, [Next]_vars PROVE ChangeInv'
  OBVIOUS
<1>1. CASE UNCHANGED vars
  <2>1. /\ UNCHANGED record /\ UNCHANGED <<host, torn>> /\ UNCHANGED services /\ UNCHANGED pc
        /\ UNCHANGED knowledge /\ UNCHANGED bounds
    BY <1>1 DEF vars
  <2>2. /\ serving' \in Links \cup {None, Failed} /\ proxy' \in BOOLEAN
        /\ disclosed' \in Links \cup {None} /\ leaked' = leaked /\ serving' = serving
    BY <2>1 DEF ChangeInv, ControlInv, TypeOK, services, knowledge
  <2> QED BY <2>1, <2>2, ServingUnchanged, ActorKeeps
<1>2. CASE Enable \/ Rotate \/ Repair \/ Finish
  BY <1>2, EnableKeeps, RotateKeeps, RepairKeeps, FinishKeeps
<1>3. CASE OwnerStep
  BY <1>3, AdvanceKeeps, VerifyKeeps, FinishRepairKeeps, ClearKeeps, EnableEffectKeeps,
     CleanupEnableKeeps, PrepareRotationKeeps, StopSourceKeeps, PublishTargetKeeps, ActivateKeeps,
     RestoreSourceKeeps DEF OwnerStep
<1>4. CASE ViewDetails \/ MarkCompromised
  BY <1>4, ViewDetailsKeeps, MarkCompromisedKeeps
<1>5. CASE System
  BY <1>5, SystemStartsServingKeeps, ServingDiesKeeps, ProxyKeeps, KillKeeps, PowerLossKeeps
     DEF System
<1> QED BY <1>1, <1>2, <1>3, <1>4, <1>5 DEF Next

\* The inductive invariant of a subscription change and its recovery.
THEOREM ChangeInvariant == Spec => []ChangeInv
  BY ChangeInvInit, ChangeInvStep, PTL DEF Spec

\* Only the link that every record a power loss could leave selects is answered
\* to: no overlap of source and target, with a commitment that is visible and
\* not yet durable included.
THEOREM OneLinkAlways == Spec => []OneLink
<1>1. ChangeInv => OneLink
  BY DEF ChangeInv, HostInv, FitsHost, OneLink
<1> QED BY <1>1, ChangeInvariant, PTL

\* Everything on the host is owned by every record a power loss could leave, and
\* recovery finds the bytes that its direction needs unless the token's rename
\* alone overtook the commitment.
THEOREM HostFitsAlways == Spec => []HostFitsTheRecord
<1>1. ASSUME ChangeInv PROVE HostFitsTheRecord
  <2>1. TypeOK /\ \A r \in exposed : FitsHost(r)
    BY <1>1 DEF ChangeInv, ControlInv, HostInv
  <2>2. ResourcesAreOwned
    BY <2>1 DEF FitsHost, ResourcesAreOwned
  <2>3. RecoveryIsAdmitted
    BY <2>1 DEF FitsHost, RecoveryIsAdmitted
  <2> QED BY <2>1, <2>2, <2>3 DEF HostFitsTheRecord
<1>2. ChangeInv => HostFitsTheRecord
  BY <1>1
<1> QED BY <1>2, ChangeInvariant, PTL

\* A reported link is selected only by records that say so, whatever change
\* is interrupted, cleaned up or completed after the report.
THEOREM ReportKept == Spec => []ReportIsKept
<1>1. ChangeInv => ReportIsKept
  BY DEF ChangeInv, ControlInv, ReportInv, Reports, ReportIsKept
<1> QED BY <1>1, ChangeInvariant, PTL

\* What a completed change publishes.
LEMMA CompletePublishes ==
    ASSUME ControlInv, Completes(rec), Complete
    PROVE  /\ \A s \in exposed' : s \in exposed \/ s = CompleteRecord(rec)
           /\ Forward(rec) => CompleteRecord(rec).serving = rec.target
           /\ disclosed' # disclosed =>
                 \A s \in exposed' : s.serving = disclosed' /\ ~Pending(s)
<1> DEFINE n == CompleteRecord(rec)
<1>0. rec \in Records /\ rec \in exposed /\ WellFormed(rec, generated)
  BY DEF ControlInv, TypeOK, RecordInv
<1>1. n.op = "none" /\ n.serving = IF rec.op = "enable" THEN rec.target ELSE rec.serving
  BY <1>0, CompleteFacts
<1>2. rec.op # "repair" => n.serving = rec.target
  BY <1>0, <1>1 DEF Completes, Forward, WellFormed
<1>3. disclosed' # disclosed => disclosed' = rec.target /\ rec.op # "repair" /\ exposed' = {n}
  BY DEF Complete, PublishSucceeds
<1>4. exposed' \subseteq exposed \cup {n}
  BY <1>0 DEF Complete, PublishSucceeds, PublishFails
<1> HIDE DEF n
<1>5. disclosed' # disclosed => \A s \in exposed' : s.serving = disclosed' /\ ~Pending(s)
  BY <1>1, <1>2, <1>3 DEF Pending
<1>6. Forward(rec) => n.serving = rec.target
  BY <1>2 DEF Forward
<1> QED BY <1>4, <1>5, <1>6 DEF n

\* Past the commitment nothing but its completion is published, and only the
\* completion of a change shows a link.
LEMMA CommitmentStep ==
    ASSUME ControlInv, Next
    PROVE  /\ Forward(rec) => \A s \in exposed' : s \in exposed \/ s.serving = rec.target
           /\ pc # "idle" /\ disclosed' # disclosed =>
                 \A s \in exposed' : s.serving = disclosed' /\ ~Pending(s)
<1>0. TypeOK /\ StepFits /\ rec \in exposed
  BY DEF ControlInv, TypeOK
<1>1. CASE UNCHANGED record /\ UNCHANGED disclosed
  BY <1>1 DEF record
<1>2. CASE Enable \/ Rotate \/ Repair \/ MarkCompromised
  <2>1. ~Pending(rec) /\ UNCHANGED disclosed
    BY <1>2 DEF Enable, Rotate, Repair, MarkCompromised, Begin, knowledge
  <2> QED BY <2>1 DEF Pending, Forward
<1>3. CASE Advance \/ Clear
  <2>1. Advances(rec) \/ CleansUp(rec)
    BY <1>0, <1>3 DEF Advance, Clear, StepFits
  <2>2. UNCHANGED disclosed
    BY <1>3 DEF Advance, Clear, knowledge
  <2> QED BY <2>1, <2>2 DEF Advances, CleansUp, Forward
<1>4. CASE Verify \/ FinishRepair
  <2>1. CASE Refuse
    BY <1>1, <2>1 DEF Refuse, knowledge
  <2>2. CASE Complete /\ Completes(rec)
    BY <2>2, CompletePublishes
  <2>3. CASE rec.op = "repair" /\ UNCHANGED disclosed
    BY <2>3 DEF Forward
  <2>4. /\ pc = "verify" => Completes(rec) \/ rec.op = "repair"
        /\ pc = "finish_repair" => Completes(rec)
    BY <1>0 DEF StepFits, Completes
  <2> QED BY <1>4, <2>1, <2>2, <2>3, <2>4 DEF Verify, FinishRepair
<1>5. CASE \/ Finish \/ EnableEffect \/ CleanupEnable \/ PrepareRotation \/ StopSource
           \/ Activate \/ RestoreSource
  <2>1. UNCHANGED record /\ UNCHANGED knowledge
    BY <1>5 DEF Finish, EnableEffect, CleanupEnable, PrepareRotation, StopSource,
       Activate, RestoreSource, Refuse
  <2> QED BY <1>1, <2>1 DEF knowledge
<1>9. CASE PublishTarget
  <2>1. exposed' \in {exposed, {rec}} /\ UNCHANGED disclosed
    BY <1>9 DEF PublishTarget, Settled, Refuse, record, knowledge
  <2> QED BY <1>0, <2>1
<1>6. CASE ViewDetails
  BY <1>6 DEF ViewDetails, record
<1>7. CASE SystemStartsServing \/ ServingDies \/ ProxyStops \/ ProxyStarts \/ Kill
  <2>1. UNCHANGED record /\ UNCHANGED knowledge
    BY <1>7 DEF SystemStartsServing, ServingDies, ProxyStops, ProxyStarts, Kill
  <2> QED BY <1>1, <2>1 DEF knowledge
<1>8. CASE PowerLoss
  BY <1>8 DEF PowerLoss, knowledge
<1> QED BY <1>2, <1>3, <1>4, <1>5, <1>6, <1>7, <1>8, <1>9 DEF Next, OwnerStep, System

\* A link is shown by a change only once every durable record selects it for
\* good, and a link revoked durably is never selected again.
THEOREM LinksFinal == Spec => LinksAreFinal
<1>1. ASSUME ChangeInv, [Next]_vars
      PROVE  [(\A r \in exposed : Forward(r)) =>
                 \A r \in exposed, s \in exposed' : s.serving = r.target]_vars
  <2> SUFFICES ASSUME Next, \A r \in exposed : Forward(r), NEW r \in exposed, NEW s \in exposed'
               PROVE  s.serving = r.target
    BY <1>1
  <2>1. /\ ControlInv /\ rec \in Records /\ rec \in exposed /\ exposed \subseteq Records
        /\ WellFormed(rec, generated) /\ Forward(rec) /\ rec.op = "rotate"
    BY <1>1 DEF ChangeInv, ControlInv, TypeOK, RecordInv, Forward
  <2>2. ASSUME NEW x \in exposed PROVE x = rec
    BY <2>1, BeforeRotate DEF ControlInv, RecordInv
  <2>3. s \in exposed \/ s.serving = rec.target
    BY <2>1, CommitmentStep
  <2>4. rec.serving = rec.target
    BY <2>1 DEF WellFormed
  <2>5. r = rec /\ (s \in exposed => s = rec)
    BY <2>2
  <2> QED BY <2>3, <2>4, <2>5
<1>2. ASSUME ChangeInv, [Next]_vars
      PROVE  [(pc # "idle" /\ disclosed' # disclosed) =>
                 \A r \in exposed' : r.serving = disclosed' /\ ~Pending(r)]_vars
  <2>1. ControlInv
    BY <1>2 DEF ChangeInv
  <2> QED BY <1>2, <2>1, CommitmentStep
<1>3. Spec => RevocationIsFinal
  BY <1>1, ChangeInvariant, PTL DEF Spec, RevocationIsFinal
<1>4. Spec => ShownAfterCommitment
  BY <1>2, ChangeInvariant, PTL DEF Spec, ShownAfterCommitment
<1> QED BY <1>3, <1>4 DEF LinksAreFinal
=============================================================================
