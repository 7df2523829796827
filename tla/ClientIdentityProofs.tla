------------------------ MODULE ClientIdentityProofs ------------------------
(***************************************************************************)
(* Proofs about ClientIdentity, for any number of rotations, failures and  *)
(* power losses, with and without a subscription.  IdentityInv is          *)
(* inductive: besides the properties it relates the records recovery could *)
(* come to work from to the files on the host, and says what the Owner's   *)
(* process has established at each step.                                   *)
(***************************************************************************)
EXTENDS ClientIdentity, TLAPS

USE DEF Authorized, TargetPrepared, IntegrationPublished, Reloaded, RouteVerified, Gated, Stopped,
    Quiescent, Revoked, TargetPublished, TargetStarted, Idle

-----------------------------------------------------------------------------
(* Records.                                                                *)

\* The record that authorizes a rotation keeps the configuration and names the
\* next identity as its target.
LEMMA BeginFacts ==
    ASSUME TypeOK, generated < MaxRotations
    PROVE  /\ BeginRecord \in Records
           /\ BeginRecord.cp = Authorized /\ BeginRecord.target = generated + 1
           /\ BeginRecord.source = rec.config /\ BeginRecord.config = rec.config
           /\ BeginRecord.startup = Startup /\ Startup \in {"created", "found"}
<1>1. rec.config \in Identities /\ generated + 1 \in Identities
  BY IdentityAssumption DEF TypeOK, Records, Identities
<1>2. Startup \in {"created", "found"}
  BY DEF Startup
<1> QED BY <1>1, <1>2 DEF BeginRecord, Records

\* advance moves one checkpoint on, and selects the target with the step past
\* Revoked.
LEMMA AdvanceFacts ==
    ASSUME NEW r \in Records, r.cp < TargetStarted
    PROVE  /\ AdvanceRecord(r) \in Records
           /\ AdvanceRecord(r).cp = r.cp + 1 /\ AdvanceRecord(r).target = r.target
           /\ AdvanceRecord(r).source = r.source /\ AdvanceRecord(r).startup = r.startup
           /\ AdvanceRecord(r).config = IF r.cp = Revoked THEN r.target ELSE r.config
<1>1. r.cp \in 0 .. 9 /\ r.cp + 1 \in 0 .. 11
  BY DEF Records
<1> QED BY <1>1 DEF AdvanceRecord, Records

\* clear ends the rotation with the configuration it has reached.
LEMMA ClearFacts ==
    ASSUME NEW r \in Records, NEW retain \in BOOLEAN
    PROVE  /\ ClearRecord(r, retain) \in Records
           /\ ClearRecord(r, retain).cp = Idle /\ ClearRecord(r, retain).config = r.config
           /\ ClearRecord(r, retain).target = r.config
           /\ ClearRecord(r, retain).startup = IF retain THEN r.startup ELSE "none"
  BY DEF ClearRecord, Records

\* Whatever comes after r selects what r selects, unless it revokes.
LEMMA SuccessorSelects ==
    ASSUME NEW r \in Records, NEW s \in Records, WellFormed(r), WellFormed(s), Succ(r, s)
    PROVE  (Forward(s) /\ ~Forward(r)) \/ Selected(s) = Selected(r)
<1>1. CASE ~Pending(r) /\ s.cp = Authorized /\ s.config = r.config
  BY <1>1 DEF Pending, Forward, Selected
<1>2. CASE r.cp < TargetStarted /\ s = AdvanceRecord(r)
  BY <1>2, AdvanceFacts DEF Pending, Forward, Selected, WellFormed, Records
<1>3. CASE /\ Pending(r) /\ (Forward(r) => r.cp = TargetStarted)
           /\ s \in {ClearRecord(r, TRUE), ClearRecord(r, FALSE)}
  <2>1. s.cp = Idle /\ s.config = r.config
    BY <1>3 DEF ClearRecord
  <2>2. Forward(r) => r.target = r.config
    BY <1>3 DEF WellFormed
  <2> QED BY <2>1, <2>2 DEF Forward, Selected
<1> QED BY <1>1, <1>2, <1>3 DEF Succ

\* A published record joins the records recovery could work from, and becomes
\* the only one when the publication succeeded.
LEMMA PublishKnown ==
    ASSUME TypeOK, RecordInv, NEW n \in Records, Succ(rec, n), WellFormed(n),
           PublishSucceeds(n) \/ PublishFails(n)
    PROVE  /\ rec' \in Records /\ staged' \in Records \cup {None, Torn}
           /\ exposed' \in SUBSET Records /\ rec' \in exposed'
           /\ RecordInv'
           /\ Known' \subseteq Known \cup {n} /\ exposed' \subseteq exposed \cup {n}
<1>1. \/ rec' = n /\ staged' = None /\ exposed' = {n}
      \/ rec' = rec /\ exposed' = exposed /\ staged' \in {staged, None, Torn, n}
      \/ rec' = n /\ staged' = None /\ exposed' = {rec, n}
  BY DEF PublishSucceeds, PublishFails
<1>2. /\ rec' \in Records /\ staged' \in Records \cup {None, Torn}
      /\ exposed' \in SUBSET Records /\ rec' \in exposed'
      /\ exposed' \subseteq exposed \cup {n}
  BY <1>1 DEF TypeOK
<1>3. Known' \subseteq Known \cup {n}
  BY <1>1, IdentityAssumption DEF TypeOK, Known
<1>4. \A r \in Known' : WellFormed(r)
  BY <1>3 DEF RecordInv
<1>5. \A r \in exposed' : r = rec' \/ Succ(r, rec')
  BY <1>1 DEF RecordInv
<1>6. staged' \in Records => Succ(rec', staged')
  BY <1>1, IdentityAssumption DEF RecordInv
<1>7. RecordInv'
  BY <1>4, <1>5, <1>6 DEF RecordInv
<1> QED BY <1>2, <1>3, <1>7

-----------------------------------------------------------------------------
(* What every step shares.                                                 *)

\* A step that leaves the record alone.
LEMMA SameRecord ==
    ASSUME IdentityInv, UNCHANGED record
    PROVE  /\ RecordInv' /\ Known' = Known
           /\ rec' \in Records /\ staged' \in Records \cup {None, Torn}
           /\ exposed' \in SUBSET Records /\ rec' \in exposed'
  BY DEF record, IdentityInv, TypeOK, RecordInv, Known

\* A step that leaves the files alone keeps every record they fit.
LEMMA SameFiles ==
    ASSUME UNCHANGED files, NEW r, FilesFit(r) PROVE FilesFit(r)'
  BY DEF files, FilesFit

\* The Owner's process works from one settled record.
LEMMA OwnerFacts ==
    ASSUME IdentityInv, pc # "idle"
    PROVE  /\ rec \in Records /\ exposed = {rec} /\ Pending(rec) /\ WellFormed(rec) /\ FilesFit(rec)
           /\ rec.cp \in 0 .. 10
           /\ Torn \notin {candidate, prepared, dropin}
           /\ pc \notin {"staged", "staged_completion"} => staged = None /\ Known = {rec}
           /\ pc \in {"staged", "staged_completion"} => staged \in Records
           /\ running \in {None, Selected(rec)} /\ served \in {None, Selected(rec)}
<1>1. exposed = {rec} /\ Pending(rec) /\ rec \in Records /\ rec \in Known
  BY DEF IdentityInv, JourneyInv, TypeOK, Known
<1>2. WellFormed(rec) /\ FilesFit(rec)
  BY <1>1 DEF IdentityInv, RecordInv
<1>3. rec.cp \in 0 .. 10
  BY <1>1 DEF Pending, Records
<1>4. running \in {None, Selected(rec)} /\ served \in {None, Selected(rec)}
  BY <1>1 DEF IdentityInv, OneIdentity
<1>5. /\ Torn \notin {candidate, prepared, dropin}
      /\ pc \notin {"staged", "staged_completion"} => staged = None
      /\ pc \in {"staged", "staged_completion"} => staged \in Records
  BY DEF IdentityInv, JourneyInv
<1>6. staged = None => Known = {rec}
  BY <1>1, IdentityAssumption DEF Known
<1> QED BY <1>1, <1>2, <1>3, <1>4, <1>5, <1>6

\* A failed call is counted.
LEMMA BoundsKept ==
    ASSUME TypeOK, Fails \/ UNCHANGED bounds
    PROVE  /\ generated' \in 0 .. MaxRotations
           /\ failures' \in 0 .. MaxFailures /\ losses' \in 0 .. MaxPowerLoss
  BY IdentityAssumption DEF TypeOK, Fails, bounds

\* Nothing is claimed of a process that ended.
LEMMA EndedJourney == ASSUME pc' = "idle" PROVE JourneyInv'
  BY DEF JourneyInv

\* What an effect of the Owner's process has to show.
LEMMA OwnerKeeps ==
    ASSUME IdentityInv, pc \notin {"idle", "staged", "staged_completion"}, UNCHANGED record, TypeOK',
           FilesFit(rec)', Forward(rec) => dropin' = "whole" /\ loaded',
           running' \in {None, Selected(rec)}, served' \in {None, Selected(rec)}, JourneyInv'
    PROVE  IdentityInv'
<1>1. exposed = {rec} /\ Known = {rec}
  BY OwnerFacts
<1>2. rec' = rec /\ exposed' = {rec} /\ Known' = {rec} /\ RecordInv'
  BY <1>1, SameRecord DEF record
<1>3. \A r \in Known' : FilesFit(r)'
  BY <1>2
<1>4. Guarded'
  BY <1>2 DEF Guarded
<1>5. OneIdentity'
  BY <1>2 DEF OneIdentity
<1> QED BY <1>2, <1>3, <1>4, <1>5 DEF IdentityInv

\* A step of the process that leaves the host alone.
LEMMA ProcessKeeps ==
    ASSUME IdentityInv, UNCHANGED <<record, files, services>>, TypeOK', JourneyInv'
    PROVE  IdentityInv'
<1>1. RecordInv' /\ Known' = Known
  BY SameRecord
<1>2. \A r \in Known' : FilesFit(r)'
  BY <1>1, SameFiles DEF IdentityInv
<1>3. Guarded' /\ OneIdentity'
  BY DEF IdentityInv, Guarded, OneIdentity, record, files, services
<1> QED BY <1>1, <1>2, <1>3 DEF IdentityInv

\* One lemma per action: what it does to records, files and services keeps the
\* invariant.  A journey that ends leaves everything as it is.
LEMMA RefuseKeeps == ASSUME IdentityInv, Refuse PROVE IdentityInv'
<1>1. JourneyInv'
  BY EndedJourney DEF Refuse
<1>2. TypeOK'
  BY DEF IdentityInv, TypeOK, Refuse, record, files, services, bounds
<1> QED BY <1>1, <1>2, ProcessKeeps DEF Refuse

\* Before the first rotation there is one identity and nothing pending.
LEMMA IdentityInvInit == Init => IdentityInv
<1> SUFFICES ASSUME Init PROVE IdentityInv
  OBVIOUS
<1>1. rec \in Records /\ 0 \in Identities
  BY IdentityAssumption DEF Init, Records, Identities
<1>a. generated \in 0 .. MaxRotations /\ failures \in 0 .. MaxFailures /\ losses \in 0 .. MaxPowerLoss
  BY IdentityAssumption DEF Init
<1>b. /\ running \in Identities \cup {None} /\ served \in Identities \cup {None}
      /\ gate \in Identities \cup {None} /\ config \in Identities
      /\ candidate \in Identities \cup {None, Torn} /\ prepared \in Identities \cup {None, Torn}
  BY <1>1 DEF Init
<1>c. /\ staged \in Records \cup {None, Torn} /\ exposed \in SUBSET Records /\ rec \in exposed
      /\ dropin \in {None, Torn, "whole"} /\ directory \in {None, "foreign", "ours"}
      /\ loaded \in BOOLEAN
  BY <1>1 DEF Init
<1>2. TypeOK
  BY <1>1, <1>a, <1>b, <1>c DEF Init, TypeOK
<1>3. Known = {rec}
  BY IdentityAssumption DEF Init, Known
<1>4. RecordInv
  BY <1>3, IdentityAssumption DEF Init, RecordInv, WellFormed, Pending
<1>5. FilesFit(rec)
  BY IdentityAssumption DEF Init, FilesFit, Pending
<1>6. Guarded
  BY DEF Init, Guarded, Forward
<1>7. OneIdentity
  BY DEF Init, OneIdentity, Selected, Forward
<1>8. JourneyInv
  BY DEF Init, JourneyInv
<1> QED BY <1>2, <1>3, <1>4, <1>5, <1>6, <1>7, <1>8 DEF IdentityInv

-----------------------------------------------------------------------------
(* Publications.                                                           *)

LEMMA RotateKeeps == ASSUME IdentityInv, Rotate PROVE IdentityInv'
<1> DEFINE n == BeginRecord
<1>0. /\ TypeOK /\ RecordInv /\ generated < MaxRotations /\ pc = "idle" /\ Admitted
      /\ UNCHANGED files /\ UNCHANGED services
      /\ FilesFit(rec) /\ WellFormed(rec)
  BY DEF Rotate, IdentityInv, TypeOK, Known, RecordInv
<1>1. /\ n \in Records /\ n.cp = Authorized /\ n.target = generated + 1 /\ n.source = rec.config
      /\ n.config = rec.config /\ n.startup = Startup /\ Startup \in {"created", "found"}
  BY <1>0, BeginFacts
<1>2. PublishSucceeds(n) \/ PublishFails(n)
  BY DEF Rotate
<1> HIDE DEF n
<1>a. ~Pending(rec)
  BY <1>0 DEF Admitted
<1>3. Succ(rec, n) /\ WellFormed(n)
  <2>1. Succ(rec, n)
    BY <1>1, <1>a, Zenon DEF Succ
  <2>2. WellFormed(n)
    BY <1>1 DEF WellFormed
  <2> QED BY <2>1, <2>2
<1>4. FilesFit(n)
  <2>1. Pending(n)
    BY <1>1 DEF Pending
  <2> QED BY <1>0, <1>1, <2>1, IdentityAssumption DEF FilesFit, Admitted, Startup, TypeOK
<1>5. /\ rec' \in Records /\ staged' \in Records \cup {None, Torn}
      /\ exposed' \in SUBSET Records /\ rec' \in exposed' /\ RecordInv'
      /\ Known' \subseteq Known \cup {n} /\ exposed' \subseteq exposed \cup {n}
  BY <1>0, <1>1, <1>2, <1>3, PublishKnown
<1>6. \A r \in Known' : FilesFit(r)'
  BY <1>0, <1>4, <1>5, SameFiles DEF IdentityInv
<1>7. TypeOK'
  BY <1>0, <1>5, IdentityAssumption DEF TypeOK, Rotate, files, services
<1>8. ~Forward(n) /\ Selected(n) = Selected(rec)
  BY <1>0, <1>1 DEF Forward, Selected, Admitted, Pending
<1>9. Guarded'
  BY <1>0, <1>5, <1>8 DEF Guarded, IdentityInv, files, services
<1>10. OneIdentity'
  BY <1>0, <1>5, <1>8 DEF OneIdentity, IdentityInv, services, TypeOK
<1>11. JourneyInv'
  <2>1. CASE pc' = "idle"
    BY <2>1 DEF JourneyInv
  <2>2. CASE PublishSucceeds(n) /\ pc' = "prepare"
    <3>1. Torn \notin {candidate', prepared', dropin'}
      BY <1>0, IdentityAssumption DEF Admitted, files
    <3> QED BY <1>1, <2>2, <3>1 DEF JourneyInv, PublishSucceeds, Pending
  <2> QED BY <2>1, <2>2 DEF Rotate, n
<1> QED BY <1>5, <1>6, <1>7, <1>9, <1>10, <1>11 DEF IdentityInv

LEMMA AdvanceKeeps == ASSUME IdentityInv, Advance PROVE IdentityInv'
<1> DEFINE n == AdvanceRecord(rec)
<1>0. /\ TypeOK /\ RecordInv /\ pc = "advance" /\ JourneyInv
      /\ UNCHANGED files /\ UNCHANGED services
  BY DEF Advance, IdentityInv
<1>a. /\ rec \in Records /\ exposed = {rec} /\ Pending(rec) /\ WellFormed(rec) /\ FilesFit(rec)
      /\ rec.cp \in 0 .. 10 /\ Torn \notin {candidate, prepared, dropin}
      /\ staged = None /\ Known = {rec}
      /\ running \in {None, Selected(rec)} /\ served \in {None, Selected(rec)}
  BY <1>0, OwnerFacts
<1>b. /\ rec.cp \in 0 .. 9 /\ prepared = rec.target
      /\ rec.cp = Quiescent => Routes /\ Quiescence
      /\ rec.cp = Revoked => config = rec.target
  BY <1>0, <1>a DEF JourneyInv
<1>1. /\ n \in Records /\ n.cp = rec.cp + 1 /\ n.target = rec.target /\ n.source = rec.source
      /\ n.startup = rec.startup /\ n.config = IF rec.cp = Revoked THEN rec.target ELSE rec.config
  BY <1>a, <1>b, AdvanceFacts
<1>2. PublishSucceeds(n) \/ PublishFails(n)
  BY DEF Advance
<1>d. rec.cp < TargetStarted
  BY <1>b
<1>c. Succ(rec, n)
  BY <1>d, Zenon DEF Succ
<1> HIDE DEF n
<1>3. WellFormed(n)
  BY <1>a, <1>b, <1>1 DEF WellFormed, Pending
<1>4. FilesFit(n)
  BY <1>a, <1>b, <1>1 DEF FilesFit, Pending, Forward, WellFormed
<1>5. /\ rec' \in Records /\ staged' \in Records \cup {None, Torn}
      /\ exposed' \in SUBSET Records /\ rec' \in exposed' /\ RecordInv'
      /\ Known' \subseteq Known \cup {n} /\ exposed' \subseteq exposed \cup {n}
  BY <1>0, <1>1, <1>2, <1>3, <1>c, PublishKnown
<1>6. \A r \in Known' : FilesFit(r)'
  BY <1>0, <1>a, <1>4, <1>5, SameFiles
<1>7. TypeOK'
  BY <1>0, <1>5, IdentityAssumption DEF TypeOK, Advance, Fails, bounds, files, services
<1>8. Forward(n) => dropin = "whole" /\ loaded
  BY <1>a, <1>b, <1>1 DEF Forward, Routes, Guarded, IdentityInv
<1>9. Guarded'
  BY <1>0, <1>5, <1>8 DEF Guarded, IdentityInv, files, services
<1>10. running \in {None, Selected(n)} /\ served \in {None, Selected(n)}
  <2>1. CASE Forward(n) /\ ~Forward(rec)
    BY <1>a, <1>b, <1>1, <2>1 DEF Forward, Quiescence
  <2>2. CASE Selected(n) = Selected(rec)
    BY <1>a, <2>2
  <2> QED BY <1>a, <1>1, <1>3, <1>c, <2>1, <2>2, SuccessorSelects
<1>11. OneIdentity'
  BY <1>0, <1>a, <1>5, <1>10 DEF OneIdentity, services
<1>12. JourneyInv'
  <2>1. CASE pc' = "idle"
    BY <2>1 DEF JourneyInv
  <2>2. CASE PublishSucceeds(n) /\ pc' = "forward"
    BY <1>0, <1>a, <1>b, <1>1, <2>2 DEF JourneyInv, PublishSucceeds, Pending, files
  <2> QED BY <2>1, <2>2 DEF Advance, n
<1> QED BY <1>5, <1>6, <1>7, <1>9, <1>11, <1>12 DEF IdentityInv

-----------------------------------------------------------------------------
(* Effects of the rotation.                                                *)

LEMMA PrepareTargetKeeps == ASSUME IdentityInv, PrepareTarget PROVE IdentityInv'
<1>0. /\ TypeOK /\ JourneyInv /\ pc = "prepare" /\ UNCHANGED record
      /\ UNCHANGED <<config, candidate, dropin, directory>> /\ UNCHANGED services
      /\ prepared' \in {None, Torn, rec.target} /\ pc' \in {"idle", "advance"}
      /\ pc' = "advance" => prepared' = rec.target
      /\ Fails \/ UNCHANGED bounds
  BY DEF PrepareTarget, IdentityInv, record
<1>a. /\ rec \in Records /\ exposed = {rec} /\ Pending(rec) /\ FilesFit(rec)
      /\ Torn \notin {candidate, prepared, dropin} /\ staged = None
      /\ running \in {None, Selected(rec)} /\ served \in {None, Selected(rec)}
  BY <1>0, OwnerFacts
<1>b. rec.cp = Authorized /\ rec.target \in Identities
  BY <1>0, <1>a DEF JourneyInv, Records
<1>1. TypeOK'
  BY <1>0, <1>b, BoundsKept DEF TypeOK, record, services
<1>2. FilesFit(rec)'
  BY <1>0, <1>a, <1>b DEF FilesFit, record, Pending, Forward
<1>3. ~Forward(rec)
  BY <1>b DEF Forward
<1>4. JourneyInv'
  <2>1. CASE pc' = "idle"
    BY <2>1, EndedJourney
  <2>2. CASE pc' = "advance"
    <3>1. rec' = rec /\ exposed' = {rec'} /\ Pending(rec') /\ staged' = None /\ prepared' = rec.target
      BY <1>0, <1>a, <2>2 DEF record
    <3>2. Torn \notin {candidate', prepared', dropin'}
      BY <1>0, <1>a, <1>b, <2>2, IdentityAssumption
    <3> QED BY <1>b, <2>2, <3>1, <3>2 DEF JourneyInv
  <2> QED BY <1>0, <2>1, <2>2
<1>5. running' \in {None, Selected(rec)} /\ served' \in {None, Selected(rec)}
  BY <1>0, <1>a DEF services
<1> QED BY <1>0, <1>1, <1>2, <1>3, <1>4, <1>5, OwnerKeeps

LEMMA PublishStartupKeeps == ASSUME IdentityInv, PublishStartup PROVE IdentityInv'
<1>0. /\ TypeOK /\ JourneyInv /\ pc = "forward" /\ rec.cp = TargetPrepared /\ UNCHANGED record
      /\ UNCHANGED <<config, candidate, prepared>> /\ UNCHANGED services
      /\ dropin' \in {dropin, "whole", Torn} /\ pc' \in {"idle", "advance"}
      /\ pc' = "advance" => dropin' = "whole"
      /\ directory' = IF directory = None THEN "ours" ELSE directory
      /\ Fails \/ UNCHANGED bounds
  BY DEF PublishStartup, IdentityInv, record
<1>a. /\ rec \in Records /\ exposed = {rec} /\ Pending(rec) /\ WellFormed(rec) /\ FilesFit(rec)
      /\ Torn \notin {candidate, prepared, dropin} /\ staged = None
      /\ running \in {None, Selected(rec)} /\ served \in {None, Selected(rec)}
  BY <1>0, OwnerFacts
<1>b. rec.startup \in {"created", "found"}
  BY <1>a DEF WellFormed, Records
<1>1. TypeOK'
  BY <1>0, BoundsKept DEF TypeOK, record, services
<1>2. FilesFit(rec)'
  BY <1>0, <1>a, <1>b, IdentityAssumption DEF FilesFit, record
<1>3. ~Forward(rec)
  BY <1>0 DEF Forward
<1>4. JourneyInv'
  <2>1. CASE pc' = "idle"
    BY <2>1, EndedJourney
  <2>2. CASE pc' = "advance"
    <3>1. rec' = rec /\ exposed' = {rec'} /\ Pending(rec') /\ staged' = None
      BY <1>0, <1>a DEF record
    <3>2. Torn \notin {candidate', prepared', dropin'} /\ prepared' = rec.target
      BY <1>0, <1>a, <2>2, IdentityAssumption DEF JourneyInv
    <3> QED BY <1>0, <2>2, <3>1, <3>2 DEF JourneyInv
  <2> QED BY <1>0, <2>1, <2>2
<1>5. running' \in {None, Selected(rec)} /\ served' \in {None, Selected(rec)}
  BY <1>0, <1>a DEF services
<1> QED BY <1>0, <1>1, <1>2, <1>3, <1>4, <1>5, OwnerKeeps

LEMMA ReloadKeeps == ASSUME IdentityInv, Reload PROVE IdentityInv'
<1>0. /\ TypeOK /\ JourneyInv /\ pc = "forward" /\ rec.cp = IntegrationPublished
      /\ UNCHANGED record /\ UNCHANGED files /\ UNCHANGED <<gate, running, served>>
      /\ loaded' \in BOOLEAN /\ pc' \in {"idle", "advance"}
      /\ Fails \/ UNCHANGED bounds
  BY DEF Reload, IdentityInv, TypeOK, record, files
<1>a. /\ exposed = {rec} /\ Pending(rec) /\ FilesFit(rec)
      /\ Torn \notin {candidate, prepared, dropin} /\ staged = None
      /\ running \in {None, Selected(rec)} /\ served \in {None, Selected(rec)}
  BY <1>0, OwnerFacts
<1>1. TypeOK'
  BY <1>0, BoundsKept DEF TypeOK, record, files
<1>2. FilesFit(rec)'
  BY <1>0, <1>a, SameFiles DEF record
<1>3. ~Forward(rec)
  BY <1>0 DEF Forward
<1>4. JourneyInv'
  BY <1>0, <1>a DEF JourneyInv, record, files
<1> QED BY <1>0, <1>a, <1>1, <1>2, <1>3, <1>4, OwnerKeeps

LEMMA ObserveKeeps == ASSUME IdentityInv, Observe PROVE IdentityInv'
<1>1. CASE Refuse
  BY <1>1, RefuseKeeps
<1>2. CASE /\ Routes /\ (rec.cp \in {Stopped, Quiescent} => Quiescence)
           /\ pc' = "advance" /\ UNCHANGED <<record, files, services, bounds>>
  <2>1. TypeOK'
    BY <1>2 DEF IdentityInv, TypeOK, record, files, services, bounds
  <2>2. /\ pc = "forward" /\ rec.cp \in {Reloaded, RouteVerified, Stopped, Quiescent} /\ JourneyInv
    BY DEF Observe, IdentityInv
  <2>3. JourneyInv'
    BY <1>2, <2>2 DEF JourneyInv, Routes, Quiescence, record, files, services
  <2> QED BY <1>2, <2>1, <2>3, ProcessKeeps
<1> QED BY <1>1, <1>2 DEF Observe

LEMMA StopSourceKeeps == ASSUME IdentityInv, StopSource PROVE IdentityInv'
<1>0. /\ TypeOK /\ JourneyInv /\ pc = "forward" /\ rec.cp = Gated
      /\ UNCHANGED record /\ UNCHANGED files /\ UNCHANGED loaded
      /\ gate' \in {gate, None, rec.config} /\ running' \in {running, None} /\ served' \in {served, None}
      /\ pc' \in {"idle", "advance"}
      /\ Fails \/ UNCHANGED bounds
  <2>1. StopSource
    OBVIOUS
  <2>2. running' \in {running, None} /\ served' \in {served, None}
    BY <2>1 DEF StopSource
  <2> QED BY <2>1, <2>2 DEF StopSource, IdentityInv
<1>a. /\ rec \in Records /\ exposed = {rec} /\ Pending(rec) /\ FilesFit(rec)
      /\ Torn \notin {candidate, prepared, dropin} /\ staged = None
      /\ running \in {None, Selected(rec)} /\ served \in {None, Selected(rec)}
  BY <1>0, OwnerFacts
<1>1. TypeOK'
  <2>1. rec.config \in Identities
    BY <1>a DEF Records
  <2> QED BY <1>0, <2>1, BoundsKept DEF TypeOK, record, files
<1>2. FilesFit(rec)'
  BY <1>0, <1>a, SameFiles DEF record
<1>3. ~Forward(rec)
  BY <1>0 DEF Forward
<1>4. JourneyInv'
  BY <1>0, <1>a DEF JourneyInv, record, files
<1>5. running' \in {None, Selected(rec)} /\ served' \in {None, Selected(rec)}
  BY <1>0, <1>a
<1> QED BY <1>0, <1>1, <1>2, <1>3, <1>4, <1>5, OwnerKeeps

LEMMA PublishTargetKeeps == ASSUME IdentityInv, PublishTarget PROVE IdentityInv'
<1>1. CASE Refuse
  BY <1>1, RefuseKeeps
<1>2. CASE ~Refuse
  <2>0. /\ TypeOK /\ JourneyInv /\ pc = "forward" /\ rec.cp = Revoked /\ UNCHANGED record
        /\ UNCHANGED <<prepared, dropin, directory>> /\ UNCHANGED services
        /\ config' \in {config, rec.target} /\ candidate' \in {candidate, None, Torn, rec.target}
        /\ pc' \in {"idle", "advance"}
        /\ pc' = "advance" => config' = rec.target /\ candidate' = None
        /\ Fails \/ UNCHANGED bounds
    BY <1>2 DEF PublishTarget, IdentityInv, record
  <2>a. /\ rec \in Records /\ exposed = {rec} /\ Pending(rec) /\ FilesFit(rec)
        /\ Torn \notin {candidate, prepared, dropin} /\ staged = None
        /\ running \in {None, Selected(rec)} /\ served \in {None, Selected(rec)}
    BY <2>0, OwnerFacts
  <2>b. rec.target \in Identities
    BY <2>a DEF Records
  <2>1. TypeOK'
    BY <2>0, <2>b, BoundsKept DEF TypeOK, record, services
  <2>2. FilesFit(rec)'
    BY <2>0, <2>a DEF FilesFit, record, Forward, Pending
  <2>3. Forward(rec) => dropin' = "whole" /\ loaded'
    BY <2>0, <2>a DEF IdentityInv, Guarded, services
  <2>4. JourneyInv'
    <3>1. CASE pc' = "idle"
      BY <3>1, EndedJourney
    <3>2. CASE pc' = "advance"
      <4>1. rec' = rec /\ exposed' = {rec'} /\ Pending(rec') /\ staged' = None
        BY <2>0, <2>a DEF record
      <4>2. Torn \notin {candidate', prepared', dropin'} /\ prepared' = rec.target
        BY <2>0, <2>a, <3>2, IdentityAssumption DEF JourneyInv
      <4> QED BY <2>0, <3>2, <4>1, <4>2 DEF JourneyInv
    <3> QED BY <2>0, <3>1, <3>2
  <2>5. running' \in {None, Selected(rec)} /\ served' \in {None, Selected(rec)}
    BY <2>0, <2>a DEF services
  <2> QED BY <2>0, <2>1, <2>2, <2>3, <2>4, <2>5, OwnerKeeps
<1> QED BY <1>1, <1>2

\* The configuration on the host is what a record that is past its
\* publication, or before its revocation, selects.
LEMMA ConfigurationSelected ==
    ASSUME NEW r \in Records, WellFormed(r), FilesFit(r), r.cp # Revoked
    PROVE  config = r.config /\ config = Selected(r)
  BY DEF WellFormed, FilesFit, Selected, Forward

LEMMA StartTargetKeeps == ASSUME IdentityInv, StartTarget PROVE IdentityInv'
<1>1. CASE Refuse
  BY <1>1, RefuseKeeps
<1>2. CASE ~Refuse
  <2>0. /\ TypeOK /\ JourneyInv /\ pc = "forward" /\ rec.cp = TargetPublished
        /\ UNCHANGED record /\ UNCHANGED files /\ UNCHANGED <<loaded, served>>
        /\ running' \in {running, config} /\ gate' \in {None, config}
        /\ pc' \in {"idle", "advance"}
        /\ Fails \/ UNCHANGED bounds
    BY <1>2 DEF StartTarget, StartSucceeds, StartRefused, IdentityInv
  <2>a. /\ rec \in Records /\ exposed = {rec} /\ Pending(rec) /\ WellFormed(rec) /\ FilesFit(rec)
        /\ Torn \notin {candidate, prepared, dropin} /\ staged = None
        /\ running \in {None, Selected(rec)} /\ served \in {None, Selected(rec)}
    BY <2>0, OwnerFacts
  <2>1. TypeOK'
    BY <2>0, BoundsKept DEF TypeOK, record, files
  <2>2. FilesFit(rec)'
    BY <2>0, <2>a, SameFiles DEF record
  <2>3. Forward(rec) => dropin' = "whole" /\ loaded'
    BY <2>0, <2>a DEF IdentityInv, Guarded, files
  <2>4. JourneyInv'
    BY <2>0, <2>a DEF JourneyInv, record, files
  <2>5. config = Selected(rec)
    BY <2>0, <2>a, ConfigurationSelected
  <2>6. running' \in {None, Selected(rec)} /\ served' \in {None, Selected(rec)}
    BY <2>0, <2>a, <2>5
  <2> QED BY <2>0, <2>1, <2>2, <2>3, <2>4, <2>6, OwnerKeeps
<1> QED BY <1>1, <1>2

LEMMA VerifyTargetKeeps == ASSUME IdentityInv, VerifyTarget PROVE IdentityInv'
<1>1. CASE Refuse
  BY <1>1, RefuseKeeps
<1>2. CASE pc' = "subscription" /\ UNCHANGED <<record, files, services, bounds>>
  <2>1. TypeOK'
    BY <1>2 DEF IdentityInv, TypeOK, record, files, services, bounds
  <2>2. pc = "forward" /\ rec.cp = TargetStarted /\ JourneyInv
    BY DEF VerifyTarget, IdentityInv
  <2>3. JourneyInv'
    BY <1>2, <2>2 DEF JourneyInv, record, files
  <2> QED BY <1>2, <2>1, <2>3, ProcessKeeps
<1> QED BY <1>1, <1>2 DEF VerifyTarget

-----------------------------------------------------------------------------
(* Cleanup and completion.                                                 *)

LEMMA RestoreSourceKeeps == ASSUME IdentityInv, RestoreSource PROVE IdentityInv'
<1>1. CASE Refuse
  BY <1>1, RefuseKeeps
<1>2. CASE ~Refuse
  <2>0. /\ TypeOK /\ JourneyInv /\ pc = "restore"
        /\ UNCHANGED record /\ UNCHANGED files /\ UNCHANGED <<loaded, served>>
        /\ running' \in {running, config} /\ gate' \in {gate, None, rec.config}
        /\ pc' \in {"idle", "subscription"}
        /\ Fails \/ UNCHANGED bounds
    BY <1>2 DEF RestoreSource, StartSucceeds, StartRefused, IdentityInv
  <2>a. /\ rec \in Records /\ exposed = {rec} /\ Pending(rec) /\ WellFormed(rec) /\ FilesFit(rec)
        /\ Torn \notin {candidate, prepared, dropin} /\ staged = None
        /\ running \in {None, Selected(rec)} /\ served \in {None, Selected(rec)}
    BY <2>0, OwnerFacts
  <2>b. rec.config \in Identities /\ ~Forward(rec) /\ rec.cp # Revoked
    BY <2>0, <2>a DEF Records, JourneyInv, Forward
  <2>1. TypeOK'
    BY <2>0, <2>b, BoundsKept DEF TypeOK, record, files
  <2>2. FilesFit(rec)'
    BY <2>0, <2>a, SameFiles DEF record
  <2>3. JourneyInv'
    BY <2>0, <2>a, <2>b DEF JourneyInv, record, files
  <2>4. config = Selected(rec)
    BY <2>a, <2>b, ConfigurationSelected
  <2>5. running' \in {None, Selected(rec)} /\ served' \in {None, Selected(rec)}
    BY <2>0, <2>a, <2>4
  <2> QED BY <2>0, <2>b, <2>1, <2>2, <2>3, <2>5, OwnerKeeps
<1> QED BY <1>1, <1>2

LEMMA FinishSubscriptionKeeps == ASSUME IdentityInv, FinishSubscription PROVE IdentityInv'
<1>0. /\ TypeOK /\ JourneyInv /\ pc = "subscription"
      /\ UNCHANGED record /\ UNCHANGED files /\ UNCHANGED <<loaded, gate, running>>
      /\ served' \in {served, None, rec.config} /\ pc' \in {"idle", "remove"}
      /\ Fails \/ UNCHANGED bounds
  BY DEF FinishSubscription, IdentityInv
<1>a. /\ rec \in Records /\ exposed = {rec} /\ Pending(rec) /\ WellFormed(rec) /\ FilesFit(rec)
      /\ Torn \notin {candidate, prepared, dropin} /\ staged = None
      /\ running \in {None, Selected(rec)} /\ served \in {None, Selected(rec)}
  BY <1>0, OwnerFacts
<1>b. rec.config \in Identities /\ rec.cp # Revoked
  BY <1>0, <1>a DEF Records, JourneyInv, Forward
<1>1. TypeOK'
  BY <1>0, <1>b, BoundsKept DEF TypeOK, record, files
<1>2. FilesFit(rec)'
  BY <1>0, <1>a, SameFiles DEF record
<1>3. Forward(rec) => dropin' = "whole" /\ loaded'
  BY <1>0, <1>a DEF IdentityInv, Guarded, files
<1>4. JourneyInv'
  BY <1>0, <1>a DEF JourneyInv, record, files
<1>5. rec.config = Selected(rec)
  BY <1>a, <1>b, ConfigurationSelected
<1>6. running' \in {None, Selected(rec)} /\ served' \in {None, Selected(rec)}
  BY <1>0, <1>a, <1>5
<1> QED BY <1>0, <1>1, <1>2, <1>3, <1>4, <1>6, OwnerKeeps

LEMMA RemoveTargetKeeps == ASSUME IdentityInv, RemoveTarget PROVE IdentityInv'
<1>0. /\ TypeOK /\ JourneyInv /\ pc = "remove" /\ UNCHANGED record
      /\ UNCHANGED <<config, dropin, directory>> /\ UNCHANGED services
      /\ prepared' \in {prepared, None} /\ candidate' \in {candidate, None}
      /\ pc' \in {"idle", "clear_retaining", "startup"}
      /\ pc' # "idle" => prepared' = None /\ candidate' = None
      /\ pc' = "startup" => ~Forward(rec)
      /\ pc' = "clear_retaining" => Forward(rec) \/ Routes
      /\ Fails \/ UNCHANGED bounds
  BY DEF RemoveTarget, IdentityInv
<1>a. /\ rec \in Records /\ exposed = {rec} /\ Pending(rec) /\ FilesFit(rec)
      /\ Torn \notin {candidate, prepared, dropin} /\ staged = None
      /\ running \in {None, Selected(rec)} /\ served \in {None, Selected(rec)}
  BY <1>0, OwnerFacts
<1>b. Forward(rec) => rec.cp = TargetStarted
  BY <1>0 DEF JourneyInv
<1>c. rec.cp \notin {Revoked, TargetPublished}
  BY <1>b DEF Forward
<1>1. TypeOK'
  BY <1>0, BoundsKept DEF TypeOK, record, services
<1>2. FilesFit(rec)'
  BY <1>0, <1>a, <1>c, IdentityAssumption DEF FilesFit, record, Pending, Forward
<1>3. Forward(rec) => dropin' = "whole" /\ loaded'
  BY <1>0, <1>a DEF IdentityInv, Guarded, services
<1>4. JourneyInv'
  <2>1. CASE pc' = "idle"
    BY <2>1, EndedJourney
  <2>2. CASE pc' # "idle"
    <3>1. rec' = rec /\ exposed' = {rec'} /\ Pending(rec') /\ staged' = None
      BY <1>0, <1>a DEF record
    <3>2. Torn \notin {candidate', prepared', dropin'}
      BY <1>0, <1>a, <2>2, IdentityAssumption
    <3>3. pc' = "clear_retaining" => dropin' = "whole"
      BY <1>0, <1>3 DEF Routes
    <3> QED BY <1>0, <1>b, <2>2, <3>1, <3>2, <3>3 DEF JourneyInv
  <2> QED BY <2>1, <2>2
<1>5. running' \in {None, Selected(rec)} /\ served' \in {None, Selected(rec)}
  BY <1>0, <1>a DEF services
<1> QED BY <1>0, <1>1, <1>2, <1>3, <1>4, <1>5, OwnerKeeps

LEMMA CleanupStartupKeeps == ASSUME IdentityInv, CleanupStartup PROVE IdentityInv'
<1>0. /\ TypeOK /\ JourneyInv /\ pc = "startup" /\ UNCHANGED record
      /\ UNCHANGED <<config, candidate, prepared>> /\ UNCHANGED <<gate, running, served>>
      /\ dropin' = None /\ loaded' \in BOOLEAN
      /\ directory' \in {directory, None} /\ (rec.startup # "created" => directory' = directory)
      /\ pc' \in {"idle", "clear"}
      /\ pc' = "clear" /\ rec.startup = "created" => directory' = None
      /\ Fails \/ UNCHANGED bounds
  BY DEF CleanupStartup, IdentityInv, TypeOK
<1>a. /\ rec \in Records /\ exposed = {rec} /\ Pending(rec) /\ FilesFit(rec)
      /\ Torn \notin {candidate, prepared, dropin} /\ staged = None
      /\ running \in {None, Selected(rec)} /\ served \in {None, Selected(rec)}
  BY <1>0, OwnerFacts
<1>b. ~Forward(rec) /\ prepared = None /\ candidate = None
  BY <1>0 DEF JourneyInv
<1>1. TypeOK'
  BY <1>0, BoundsKept DEF TypeOK, record
<1>2. FilesFit(rec)'
  BY <1>0, <1>a, IdentityAssumption DEF FilesFit, record
<1>3. JourneyInv'
  <2>1. CASE pc' = "idle"
    BY <2>1, EndedJourney
  <2>2. CASE pc' = "clear"
    <3>1. rec' = rec /\ exposed' = {rec'} /\ Pending(rec') /\ staged' = None
      BY <1>0, <1>a DEF record
    <3>2. Torn \notin {candidate', prepared', dropin'}
      BY <1>0, <1>a, IdentityAssumption
    <3>3. directory' # "ours"
      BY <1>0, <1>a, <2>2, IdentityAssumption DEF FilesFit
    <3> QED BY <1>0, <1>b, <2>2, <3>1, <3>2, <3>3 DEF JourneyInv
  <2> QED BY <1>0, <2>1, <2>2
<1> QED BY <1>0, <1>a, <1>b, <1>1, <1>2, <1>3, OwnerKeeps

LEMMA ClearKeeps == ASSUME IdentityInv, Clear PROVE IdentityInv'
<1> DEFINE retain == pc = "clear_retaining"
           n == ClearRecord(rec, retain)
<1>0. /\ TypeOK /\ RecordInv /\ pc \in {"clear", "clear_retaining"} /\ JourneyInv
      /\ UNCHANGED files /\ UNCHANGED services
  BY DEF Clear, IdentityInv
<1>a. /\ rec \in Records /\ exposed = {rec} /\ Pending(rec) /\ WellFormed(rec) /\ FilesFit(rec)
      /\ Torn \notin {candidate, prepared, dropin} /\ Known = {rec}
      /\ running \in {None, Selected(rec)} /\ served \in {None, Selected(rec)}
  BY <1>0, OwnerFacts
<1>b. /\ prepared = None /\ candidate = None /\ (Forward(rec) => rec.cp = TargetStarted)
      /\ ~retain => dropin = None /\ directory # "ours"
      /\ retain => dropin = "whole"
  BY <1>0 DEF JourneyInv
<1>1. /\ n \in Records /\ n.cp = Idle /\ n.config = rec.config
      /\ n.startup = IF retain THEN rec.startup ELSE "none"
  <2>1. retain \in BOOLEAN
    OBVIOUS
  <2> QED BY <1>a, <2>1, ClearFacts
<1>2. (PublishSucceeds(n) \/ PublishFails(n)) /\ pc' = "idle" /\ (Fails \/ UNCHANGED bounds)
  BY DEF Clear
<1>c. Succ(rec, n)
  <2>1. n \in {ClearRecord(rec, TRUE), ClearRecord(rec, FALSE)}
    <3>1. CASE retain = TRUE
      BY <3>1
    <3>2. CASE retain = FALSE
      BY <3>2
    <3> QED BY <3>1, <3>2
  <2> HIDE DEF n
  <2> QED BY <1>a, <1>b, <2>1, Zenon DEF Succ
<1> HIDE DEF n
<1>3. WellFormed(n)
  BY <1>1 DEF WellFormed, Pending
<1>d. rec.cp # Revoked /\ ~Forward(n)
  BY <1>b, <1>1 DEF Forward
<1>4. FilesFit(n)
  <2>1. retain => n.startup = rec.startup
    BY <1>1
  <2>2. ~retain => n.startup = "none"
    BY <1>1
  <2> HIDE DEF retain
  <2> QED BY <1>a, <1>b, <1>1, <1>d, <2>1, <2>2, IdentityAssumption DEF FilesFit, WellFormed
<1>5. /\ rec' \in Records /\ staged' \in Records \cup {None, Torn}
      /\ exposed' \in SUBSET Records /\ rec' \in exposed' /\ RecordInv'
      /\ Known' \subseteq Known \cup {n} /\ exposed' \subseteq exposed \cup {n}
  BY <1>0, <1>1, <1>2, <1>3, <1>c, PublishKnown
<1>6. \A r \in Known' : FilesFit(r)'
  BY <1>0, <1>a, <1>4, <1>5, SameFiles
<1>7. TypeOK'
  BY <1>0, <1>2, <1>5, BoundsKept DEF TypeOK, files, services
<1>8. Guarded'
  BY <1>0, <1>5, <1>d DEF Guarded, IdentityInv, files, services
<1>9. Selected(n) = Selected(rec)
  BY <1>a, <1>1, <1>3, <1>c, <1>d, SuccessorSelects
<1>10. OneIdentity'
  BY <1>0, <1>a, <1>5, <1>9 DEF OneIdentity, services
<1>11. JourneyInv'
  BY <1>2, EndedJourney
<1> QED BY <1>5, <1>6, <1>7, <1>8, <1>10, <1>11 DEF IdentityInv

-----------------------------------------------------------------------------
(* Recovery.                                                               *)

LEMMA FinishKeeps == ASSUME IdentityInv, Finish PROVE IdentityInv'
<1>0. /\ TypeOK /\ RecordInv /\ Pending(rec) /\ staged # Torn /\ Inspected(rec) /\ exposed' = {rec}
      /\ UNCHANGED <<rec, staged>> /\ UNCHANGED files /\ UNCHANGED services /\ UNCHANGED bounds
      /\ pc' = IF staged = None THEN (IF Forward(rec) THEN "forward" ELSE "restore")
               ELSE IF staged.cp = Idle THEN "staged_completion" ELSE "staged"
      /\ rec \in exposed
  BY DEF Finish, IdentityInv, TypeOK
<1>1. Known' \subseteq Known
  BY <1>0 DEF Known
<1>2. RecordInv'
  BY <1>0, <1>1 DEF RecordInv
<1>3. \A r \in Known' : FilesFit(r)'
  BY <1>0, <1>1, SameFiles DEF IdentityInv
<1>4. pc' \in {"forward", "restore", "staged_completion", "staged"}
  BY <1>0
<1>5. TypeOK'
  BY <1>0, <1>4 DEF TypeOK, files, services, bounds
<1>6. Guarded' /\ OneIdentity'
  BY <1>0 DEF IdentityInv, Guarded, OneIdentity, files, services
<1>7. JourneyInv'
  <2>1. rec' = rec /\ exposed' = {rec'} /\ Pending(rec') /\ staged' = staged
    BY <1>0
  <2>2. Torn \notin {candidate', prepared', dropin'}
    <3>1. rec.target \in Identities
      BY <1>0 DEF TypeOK, Records
    <3> QED BY <1>0, <3>1, IdentityAssumption DEF Inspected, files
  <2>3. Forward(rec) /\ rec.cp # TargetStarted => prepared' = rec'.target
    BY <1>0 DEF Inspected, Forward, files
  <2>4. IF pc' \in {"staged", "staged_completion"} THEN staged' \in Records ELSE staged' = None
    BY <1>0 DEF TypeOK
  <2>5. (pc' = "forward" => Forward(rec)) /\ (pc' = "restore" => ~Forward(rec))
    BY <1>0
  <2>6. Forward(rec) => rec.cp # Authorized
    BY DEF Forward
  <2> QED BY <1>4, <2>1, <2>2, <2>3, <2>4, <2>5, <2>6 DEF JourneyInv
<1> QED BY <1>2, <1>3, <1>5, <1>6, <1>7 DEF IdentityInv

LEMMA StagedCompletionKeeps == ASSUME IdentityInv, StagedCompletion PROVE IdentityInv'
<1>0. /\ TypeOK /\ JourneyInv /\ pc = "staged_completion" /\ UNCHANGED record /\ UNCHANGED files
      /\ UNCHANGED <<loaded, gate, running>> /\ pc' \in {"idle", "staged"}
      /\ Fails \/ UNCHANGED bounds
      /\ served' = served \/ (served' = config /\ ServingAuthorized(TRUE))
  BY DEF StagedCompletion, IdentityInv
<1>a. /\ rec \in Records /\ exposed = {rec} /\ WellFormed(rec) /\ FilesFit(rec)
      /\ running \in {None, Selected(rec)} /\ served \in {None, Selected(rec)}
  BY <1>0, OwnerFacts
<1>b. served' \in {None, Selected(rec)}
  <2>1. CASE served' = served
    BY <1>a, <2>1
  <2>2. CASE served' = config /\ ServingAuthorized(TRUE)
    <3>1. rec.cp # Revoked
      BY <2>2 DEF ServingAuthorized, Ordinary
    <3> QED BY <1>a, <2>2, <3>1, ConfigurationSelected
  <2> QED BY <1>0, <2>1, <2>2
<1>1. TypeOK'
  <2>1. served' \in Identities \cup {None}
    BY <1>0 DEF TypeOK
  <2>2. generated' \in 0 .. MaxRotations /\ failures' \in 0 .. MaxFailures /\ losses' \in 0 .. MaxPowerLoss
    BY <1>0, BoundsKept
  <2> QED BY <1>0, <2>1, <2>2 DEF TypeOK, record, files
<1>2. RecordInv' /\ Known' = Known
  BY <1>0, SameRecord
<1>3. \A r \in Known' : FilesFit(r)'
  BY <1>0, <1>2, SameFiles DEF IdentityInv
<1>4. Guarded'
  BY <1>0 DEF Guarded, IdentityInv, record, files
<1>5. OneIdentity'
  BY <1>0, <1>a, <1>b DEF OneIdentity, record
<1>6. JourneyInv'
  BY <1>0 DEF JourneyInv, record, files
<1> QED BY <1>1, <1>2, <1>3, <1>4, <1>5, <1>6 DEF IdentityInv

LEMMA PublishStagedKeeps == ASSUME IdentityInv, PublishStaged PROVE IdentityInv'
<1>1. CASE Refuse
  BY <1>1, RefuseKeeps
<1>2. CASE ~Refuse
  <2> DEFINE n == staged
  <2>0. /\ TypeOK /\ RecordInv /\ pc = "staged" /\ JourneyInv
        /\ UNCHANGED files /\ UNCHANGED services /\ (Fails \/ UNCHANGED bounds)
        /\ Forward(n) /\ ~Forward(rec) => Routes /\ Quiescence
        /\ \/ /\ PublishSucceeds(n)
              /\ pc' = CASE ~Pending(n) -> "idle" [] Forward(n) -> "forward" [] OTHER -> "restore"
           \/ PublishFails(n) /\ pc' = "idle"
    BY <1>2 DEF PublishStaged, IdentityInv
  <2>a. /\ rec \in Records /\ exposed = {rec} /\ WellFormed(rec)
        /\ Torn \notin {candidate, prepared, dropin} /\ n \in Records
        /\ running \in {None, Selected(rec)} /\ served \in {None, Selected(rec)}
    BY <2>0, OwnerFacts
  <2>b. n \in Known
    BY <2>a DEF Known
  <2>c. Succ(rec, n) /\ WellFormed(n) /\ FilesFit(n)
    BY <2>0, <2>a, <2>b DEF RecordInv, IdentityInv
  <2>1. /\ rec' \in Records /\ staged' \in Records \cup {None, Torn}
        /\ exposed' \in SUBSET Records /\ rec' \in exposed' /\ RecordInv'
        /\ Known' \subseteq Known \cup {n} /\ exposed' \subseteq exposed \cup {n}
    BY <2>0, <2>a, <2>c, PublishKnown
  <2>2. \A r \in Known' : FilesFit(r)'
    BY <2>0, <2>c, <2>1, SameFiles DEF IdentityInv
  <2>d. pc' \in {"idle", "forward", "restore"}
    BY <2>0
  <2>3. TypeOK'
    BY <2>0, <2>1, <2>d, BoundsKept DEF TypeOK, files, services
  <2>4. Forward(n) => dropin = "whole" /\ loaded
    BY <2>0, <2>a DEF Routes, Guarded, IdentityInv
  <2>5. Guarded'
    BY <2>0, <2>1, <2>4 DEF Guarded, IdentityInv, files, services
  <2>6. running \in {None, Selected(n)} /\ served \in {None, Selected(n)}
    <3>1. CASE Forward(n) /\ ~Forward(rec)
      BY <2>0, <3>1 DEF Quiescence
    <3>2. CASE Selected(n) = Selected(rec)
      BY <2>a, <3>2
    <3> QED BY <2>a, <2>c, <3>1, <3>2, SuccessorSelects
  <2>7. OneIdentity'
    BY <2>0, <2>a, <2>1, <2>6 DEF OneIdentity, services
  <2>8. JourneyInv'
    <3>1. CASE pc' = "idle"
      BY <3>1, EndedJourney
    <3>2. CASE pc' # "idle"
      <4>1. PublishSucceeds(n) /\ Pending(n)
        BY <2>0, <3>2 DEF Pending, Forward
      <4>2. pc' = IF Forward(n) THEN "forward" ELSE "restore"
        BY <2>0, <3>2, <4>1 DEF Pending, Forward
      <4>3. rec' = n /\ exposed' = {rec'} /\ Pending(rec') /\ staged' = None
        BY <4>1 DEF PublishSucceeds
      <4>4. Torn \notin {candidate', prepared', dropin'}
        BY <2>0, <2>a DEF files
      <4>5. Forward(n) /\ n.cp # TargetStarted => prepared' = n.target
        BY <2>0, <2>c DEF FilesFit, Forward, files
      <4>6. Forward(n) => n.cp # Authorized
        BY DEF Forward
      <4> HIDE DEF n
      <4> QED BY <4>2, <4>3, <4>4, <4>5, <4>6 DEF JourneyInv
    <3> QED BY <3>1, <3>2
  <2> QED BY <2>1, <2>2, <2>3, <2>5, <2>7, <2>8 DEF IdentityInv
<1> QED BY <1>1, <1>2

-----------------------------------------------------------------------------
(* systemd, failures and power.                                            *)

\* An ordinary start finds the configuration of every record.
LEMMA OrdinarySelects ==
    ASSUME IdentityInv, Ordinary(rec)
    PROVE  \A r \in exposed : config = Selected(r)
<1> SUFFICES ASSUME NEW r \in exposed PROVE config = Selected(r)
  OBVIOUS
<1>1. rec \in Known /\ r \in Known /\ rec \in Records /\ r \in Records
  BY DEF IdentityInv, TypeOK, Known
<1>2. WellFormed(rec) /\ WellFormed(r) /\ FilesFit(rec) /\ (r = rec \/ Succ(r, rec))
  BY <1>1 DEF IdentityInv, RecordInv
<1>3. ~Forward(rec) /\ rec.cp # Revoked
  BY <1>1 DEF Ordinary, Forward
<1>4. config = Selected(rec)
  BY <1>1, <1>2, <1>3, ConfigurationSelected
<1>5. Selected(rec) = Selected(r)
  BY <1>1, <1>2, <1>3, SuccessorSelects
<1> QED BY <1>4, <1>5

LEMMA SystemStartsProxyKeeps == ASSUME IdentityInv, SystemStartsProxy PROVE IdentityInv'
<1>0. /\ UNCHANGED record /\ UNCHANGED files /\ UNCHANGED <<loaded, gate, served, pc>>
      /\ UNCHANGED bounds /\ running' = config /\ running = None
      /\ loaded => pc = "idle" /\ StartAuthorized(FALSE)
  BY DEF SystemStartsProxy
<1>1. \A r \in exposed : config = Selected(r)
  <2>1. CASE loaded
    <3>1. Ordinary(rec)
      BY <1>0, <2>1 DEF StartAuthorized
    <3> QED BY <3>1, OrdinarySelects
  <2>2. CASE ~loaded
    <3> SUFFICES ASSUME NEW r \in exposed PROVE config = Selected(r)
      OBVIOUS
    <3>1. r \in Known /\ r \in Records
      BY DEF IdentityInv, TypeOK, Known
    <3>2. WellFormed(r) /\ FilesFit(r)
      BY <3>1 DEF IdentityInv, RecordInv
    <3>3. r.cp # Revoked
      BY <2>2 DEF IdentityInv, Guarded, Forward
    <3> QED BY <3>1, <3>2, <3>3, ConfigurationSelected
  <2> QED BY <2>1, <2>2
<1>2. RecordInv' /\ Known' = Known
  BY <1>0, SameRecord
<1>3. \A r \in Known' : FilesFit(r)'
  BY <1>0, <1>2, SameFiles DEF IdentityInv
<1>4. TypeOK'
  BY <1>0 DEF IdentityInv, TypeOK, record, files, bounds
<1>5. Guarded'
  BY <1>0 DEF Guarded, IdentityInv, record, files
<1>6. OneIdentity'
  BY <1>0, <1>1 DEF OneIdentity, IdentityInv, record
<1>7. JourneyInv'
  <2>1. (pc = "advance" /\ rec.cp = Quiescent) => loaded
    BY DEF IdentityInv, JourneyInv, Routes
  <2>2. ~(pc = "advance" /\ rec.cp = Quiescent)
    BY <1>0, <2>1
  <2> QED BY <1>0, <2>2 DEF IdentityInv, JourneyInv, record, files
<1> QED BY <1>2, <1>3, <1>4, <1>5, <1>6, <1>7 DEF IdentityInv

LEMMA SystemStartsServingKeeps == ASSUME IdentityInv, SystemStartsServing PROVE IdentityInv'
<1>0. /\ UNCHANGED record /\ UNCHANGED files /\ UNCHANGED <<loaded, gate, running, pc>>
      /\ UNCHANGED bounds /\ served' = config /\ pc = "idle" /\ ServingAuthorized(FALSE)
  BY DEF SystemStartsServing
<1>1. \A r \in exposed : config = Selected(r)
  BY <1>0, OrdinarySelects DEF ServingAuthorized
<1>2. RecordInv' /\ Known' = Known
  BY <1>0, SameRecord
<1>3. \A r \in Known' : FilesFit(r)'
  BY <1>0, <1>2, SameFiles DEF IdentityInv
<1>4. TypeOK'
  BY <1>0 DEF IdentityInv, TypeOK, record, files, bounds
<1>5. Guarded'
  BY <1>0 DEF Guarded, IdentityInv, record, files
<1>6. OneIdentity'
  BY <1>0, <1>1 DEF OneIdentity, IdentityInv, record
<1>7. JourneyInv'
  BY <1>0, EndedJourney
<1> QED BY <1>2, <1>3, <1>4, <1>5, <1>6, <1>7 DEF IdentityInv

LEMMA ServiceStopsKeeps == ASSUME IdentityInv, ServiceStops PROVE IdentityInv'
<1>0. /\ UNCHANGED record /\ UNCHANGED files /\ UNCHANGED <<loaded, gate, pc>> /\ Fails
      /\ running' \in {running, None} /\ served' \in {served, None} /\ TypeOK
  BY DEF ServiceStops, IdentityInv
<1>1. RecordInv' /\ Known' = Known
  BY <1>0, SameRecord
<1>2. \A r \in Known' : FilesFit(r)'
  BY <1>0, <1>1, SameFiles DEF IdentityInv
<1>3. TypeOK'
  BY <1>0, BoundsKept DEF TypeOK, record, files
<1>4. Guarded'
  BY <1>0 DEF Guarded, IdentityInv, record, files
<1>5. OneIdentity'
  BY <1>0 DEF OneIdentity, IdentityInv, record
<1>6. JourneyInv'
  BY <1>0 DEF IdentityInv, JourneyInv, Routes, Quiescence, record, files
<1> QED BY <1>1, <1>2, <1>3, <1>4, <1>5, <1>6 DEF IdentityInv

LEMMA KillKeeps == ASSUME IdentityInv, Kill PROVE IdentityInv'
<1>1. UNCHANGED <<record, files, services>> /\ pc' = "idle" /\ Fails /\ TypeOK
  BY DEF Kill, IdentityInv
<1>2. TypeOK'
  BY <1>1, BoundsKept DEF TypeOK, record, files, services
<1> QED BY <1>1, <1>2, EndedJourney, ProcessKeeps

LEMMA PowerLossKeeps == ASSUME IdentityInv, PowerLoss PROVE IdentityInv'
<1>0. /\ TypeOK /\ RecordInv /\ losses < MaxPowerLoss /\ losses' = losses + 1
      /\ rec' \in exposed /\ exposed' = {rec'}
      /\ \/ rec' = rec /\ staged' \in {None, Torn, staged}
         \/ rec' # rec /\ staged' \in {None, rec}
      /\ loaded' \in BOOLEAN /\ (dropin = "whole" => loaded')
      /\ gate' = None /\ running' = None /\ served' = None /\ pc' = "idle"
      /\ UNCHANGED files /\ UNCHANGED <<generated, failures>>
  BY DEF PowerLoss, IdentityInv
<1>1. rec' \in Records /\ rec \in Records /\ rec \in exposed /\ staged' \in Records \cup {None, Torn}
  BY <1>0 DEF TypeOK
<1>2. Known' \subseteq Known
  BY <1>0, <1>1, IdentityAssumption DEF Known
<1>3. RecordInv'
  <2>1. staged' \in Records => Succ(rec', staged')
    BY <1>0, <1>1, IdentityAssumption DEF RecordInv
  <2> QED BY <1>0, <1>2, <2>1 DEF RecordInv
<1>4. \A r \in Known' : FilesFit(r)'
  BY <1>0, <1>2, SameFiles DEF IdentityInv
<1>5. losses' \in 0 .. MaxPowerLoss
  BY <1>0, IdentityAssumption DEF TypeOK
<1>6. TypeOK'
  BY <1>0, <1>1, <1>5 DEF TypeOK, files
<1>7. Guarded'
  BY <1>0 DEF Guarded, IdentityInv, files
<1>8. OneIdentity'
  BY <1>0 DEF OneIdentity
<1>9. JourneyInv'
  BY <1>0, EndedJourney
<1> QED BY <1>3, <1>4, <1>6, <1>7, <1>8, <1>9 DEF IdentityInv

-----------------------------------------------------------------------------
(* The theorems.                                                           *)

\* Every step of Next is one of the above.
LEMMA IdentityInvStep == IdentityInv /\ [Next]_vars => IdentityInv'
<1> SUFFICES ASSUME IdentityInv, [Next]_vars PROVE IdentityInv'
  OBVIOUS
<1>1. CASE UNCHANGED vars
  <2>1. UNCHANGED <<record, files, services>> /\ UNCHANGED <<pc, bounds>>
    BY <1>1 DEF vars
  <2>2. TypeOK'
    BY <2>1 DEF IdentityInv, TypeOK, record, files, services, bounds
  <2>3. JourneyInv'
    BY <2>1 DEF IdentityInv, JourneyInv, Routes, Quiescence, record, files, services
  <2> QED BY <2>1, <2>2, <2>3, ProcessKeeps
<1>2. CASE Rotate \/ Finish
  BY <1>2, RotateKeeps, FinishKeeps
<1>3. CASE OwnerStep
  BY <1>3, StagedCompletionKeeps, PublishStagedKeeps, PrepareTargetKeeps, PublishStartupKeeps,
     ReloadKeeps, ObserveKeeps, StopSourceKeeps, PublishTargetKeeps, StartTargetKeeps,
     VerifyTargetKeeps, AdvanceKeeps, RestoreSourceKeeps, FinishSubscriptionKeeps,
     RemoveTargetKeeps, CleanupStartupKeeps, ClearKeeps DEF OwnerStep
<1>4. CASE System
  BY <1>4, SystemStartsProxyKeeps, SystemStartsServingKeeps, ServiceStopsKeeps, KillKeeps,
     PowerLossKeeps DEF System
<1> QED BY <1>1, <1>2, <1>3, <1>4 DEF Next

\* The inductive invariant of a rotation and its recovery.
THEOREM RotationInvariant == Spec => []IdentityInv
  BY IdentityInvInit, IdentityInvStep, PTL DEF Spec

\* However a rotation is interrupted and recovered, the proxy runs and an
\* artifact is served only with the identity every durable record selects.
THEOREM OneIdentityAlways == Spec => []OneIdentity
<1>1. IdentityInv => OneIdentity
  BY DEF IdentityInv
<1> QED BY <1>1, RotationInvariant, PTL

\* However a rotation is interrupted, the inspection admits its recovery, the
\* startup integration is owned, and one that ended left nothing of itself.
THEOREM HostFitsAlways == Spec => []HostFitsTheRecord
<1>1. ASSUME IdentityInv PROVE RecoveryIsAdmitted
  <2> SUFFICES ASSUME Torn \notin {candidate, prepared, dropin}, NEW r \in exposed
               PROVE  IF Pending(r) THEN Inspected(r) ELSE config = r.config
    BY DEF RecoveryIsAdmitted
  <2>1. FilesFit(r)
    BY <1>1 DEF IdentityInv, Known
  <2> QED BY <2>1 DEF FilesFit, Inspected, Pending, Forward
<1>2. ASSUME IdentityInv PROVE StartupIsOwned
  <2> SUFFICES ASSUME NEW r \in exposed
               PROVE  /\ dropin # None => r.startup # "none"
                      /\ directory = "ours" => r.startup = "created"
                      /\ r.startup = "found" => directory = "foreign"
    BY DEF StartupIsOwned
  <2>1. FilesFit(r)
    BY <1>2 DEF IdentityInv, Known
  <2> QED BY <2>1 DEF FilesFit
<1>3. ASSUME IdentityInv PROVE NothingIsLeft
  <2>1. FilesFit(rec) /\ rec \in Records /\ dropin \in {None, Torn, "whole"}
    BY <1>3 DEF IdentityInv, Known, TypeOK
  <2> QED BY <2>1 DEF FilesFit, Pending, Forward, NothingIsLeft
<1>4. IdentityInv => HostFitsTheRecord
  BY <1>1, <1>2, <1>3 DEF HostFitsTheRecord, IdentityInv
<1> QED BY <1>4, RotationInvariant, PTL

\* Past the revocation every publication follows the current record.
LEMMA PublishedFollows ==
    ASSUME IdentityInv, Forward(rec), Next
    PROVE  \A s \in exposed' : s \in exposed \/ Succ(rec, s)
<1>0. rec \in exposed /\ TypeOK /\ RecordInv /\ JourneyInv
  BY DEF IdentityInv, TypeOK
<1>1. CASE exposed' \subseteq exposed
  BY <1>1
<1>2. CASE Rotate
  BY <1>2 DEF Rotate, Admitted, Pending, Forward
<1>3. CASE Advance
  <2>1. pc = "advance" /\ rec.cp # TargetStarted
    BY <1>0, <1>3 DEF Advance, JourneyInv
  <2>2. rec.cp < TargetStarted
    BY <2>1 DEF Forward
  <2>3. Succ(rec, AdvanceRecord(rec))
    BY <2>2, Zenon DEF Succ
  <2>4. exposed' \subseteq exposed \cup {AdvanceRecord(rec)}
    BY <1>0, <1>3 DEF Advance, PublishSucceeds, PublishFails
  <2> QED BY <2>3, <2>4
<1>4. CASE Clear
  <2>1. Pending(rec) /\ (Forward(rec) => rec.cp = TargetStarted)
    BY <1>0, <1>4 DEF Clear, JourneyInv
  <2>2. PICK retain \in BOOLEAN : exposed' \subseteq exposed \cup {ClearRecord(rec, retain)}
    <3>1. (pc = "clear_retaining") \in BOOLEAN
      OBVIOUS
    <3>2. exposed' \subseteq exposed \cup {ClearRecord(rec, pc = "clear_retaining")}
      BY <1>0, <1>4 DEF Clear, PublishSucceeds, PublishFails
    <3> QED BY <3>1, <3>2
  <2>3. ClearRecord(rec, retain) \in {ClearRecord(rec, TRUE), ClearRecord(rec, FALSE)}
    <3>1. CASE retain = TRUE
      BY <3>1
    <3>2. CASE retain = FALSE
      BY <3>2
    <3> QED BY <3>1, <3>2
  <2>4. Succ(rec, ClearRecord(rec, retain))
    BY <2>1, <2>3, Zenon DEF Succ
  <2> QED BY <2>2, <2>4
<1>5. CASE PublishStaged
  <2>1. pc = "staged" /\ staged \in Records
    BY <1>0, <1>5 DEF PublishStaged, JourneyInv
  <2>2. Succ(rec, staged)
    BY <1>0, <2>1 DEF RecordInv
  <2>3. exposed' \subseteq exposed \cup {staged}
    BY <1>0, <1>5 DEF PublishStaged, PublishSucceeds, PublishFails, Refuse, record
  <2> QED BY <2>2, <2>3
<1>6. CASE Finish \/ PowerLoss
  <2>1. exposed' \subseteq exposed
    BY <1>0, <1>6 DEF Finish, PowerLoss
  <2> QED BY <1>1, <2>1
<1>7. CASE \/ StagedCompletion \/ PrepareTarget \/ PublishStartup \/ Reload \/ Observe
           \/ StopSource \/ PublishTarget \/ StartTarget \/ VerifyTarget
  <2>1. UNCHANGED record
    BY <1>7 DEF StagedCompletion, PrepareTarget, PublishStartup, Reload, Observe, StopSource,
       PublishTarget, StartTarget, VerifyTarget, Refuse
  <2> QED BY <1>1, <2>1 DEF record
<1>8. CASE \/ RestoreSource \/ FinishSubscription \/ RemoveTarget \/ CleanupStartup
           \/ SystemStartsProxy \/ SystemStartsServing \/ ServiceStops \/ Kill
  <2>1. UNCHANGED record
    BY <1>8 DEF RestoreSource, FinishSubscription, RemoveTarget, CleanupStartup, Refuse,
       SystemStartsProxy, SystemStartsServing, ServiceStops, Kill
  <2> QED BY <1>1, <2>1 DEF record
<1> QED BY <1>2, <1>3, <1>4, <1>5, <1>6, <1>7, <1>8 DEF Next, OwnerStep, System

\* Once the revocation of the source is durable, no later record, published,
\* staged and recovered, or left by a power loss, selects it again.
THEOREM RevocationFinal == Spec => RevocationIsFinal
<1>1. ASSUME IdentityInv, IdentityInv', [Next]_vars
      PROVE  [\A r \in exposed, s \in exposed' :
                 (\A x \in exposed : Forward(x)) => Selected(s) = r.target]_vars
  <2> SUFFICES ASSUME Next, NEW r \in exposed, NEW s \in exposed', \A x \in exposed : Forward(x)
               PROVE  Selected(s) = r.target
    BY <1>1
  <2>1. rec \in exposed /\ rec \in Records /\ r \in Records /\ s \in Records
    BY <1>1 DEF IdentityInv, TypeOK
  <2>2. \A x \in exposed : WellFormed(x) /\ (x = rec \/ Succ(x, rec))
    BY <1>1 DEF IdentityInv, RecordInv, Known
  <2>3. WellFormed(s)
    BY <1>1 DEF IdentityInv, RecordInv, Known
  <2>4. \A x \in exposed : x \in Records /\ Selected(x) = Selected(rec)
    <3> SUFFICES ASSUME NEW x \in exposed PROVE x \in Records /\ Selected(x) = Selected(rec)
      OBVIOUS
    <3>1. x \in Records
      BY <1>1 DEF IdentityInv, TypeOK
    <3> QED BY <2>1, <2>2, <3>1, SuccessorSelects
  <2>5. s \in exposed \/ Succ(rec, s)
    BY <1>1, <2>1, PublishedFollows
  <2>6. Selected(s) = Selected(rec)
    BY <2>1, <2>2, <2>3, <2>4, <2>5, SuccessorSelects
  <2>7. Selected(r) = r.target
    BY DEF Selected
  <2> QED BY <2>4, <2>6, <2>7
<1> QED BY <1>1, RotationInvariant, PTL DEF Spec, RevocationIsFinal
=============================================================================
