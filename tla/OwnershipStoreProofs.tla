----------------------- MODULE OwnershipStoreProofs ------------------------
(***************************************************************************)
(* Proofs about OwnershipStore for every set of records, successor         *)
(* relation and set of processes.  StoreInv is shown inductive first; the  *)
(* properties of the store and its refinement of AtomicAuthority follow.   *)
(***************************************************************************)
EXTENDS OwnershipStore, TLAPS

-----------------------------------------------------------------------------
(* The kernel operations.                                                  *)

\* Rewriting the staged file (write, sync_all) leaves every installed record
\* in place, in the directory and in each view.
LEMMA UpdateStagedFacts ==
    ASSUME StoreInv, NEW f \in Files, UpdateStaged(f)
    PROVE  /\ dir' \in Dirs /\ views' \subseteq Dirs /\ dir' \in views'
           /\ dir'.cur = dir.cur /\ dir'.stg = f
           /\ \A v \in views' : \E u \in views : v.cur = u.cur
           /\ \A u \in views : \E v \in views' : v.cur = u.cur
<1> USE DEF StoreInv, TypeOK, Dirs
<1> DEFINE g(v) == IF v.stg = dir.stg THEN [v EXCEPT !.stg = f] ELSE v
<1>1. views' = {g(v) : v \in views} /\ dir' = g(dir)
  BY DEF UpdateStaged
<1>2. \A v \in views : g(v) \in Dirs /\ g(v).cur = v.cur
  OBVIOUS
<1>3. g(dir).stg = f
  OBVIOUS
<1> HIDE DEF g
<1>4. views' \subseteq Dirs /\ dir' \in views' /\ dir' \in Dirs
  BY <1>1, <1>2
<1>5. \A v \in views' : \E u \in views : v.cur = u.cur
  BY <1>1, <1>2
<1>6. \A u \in views : \E v \in views' : v.cur = u.cur
  BY <1>1, <1>2
<1>7. dir'.cur = dir.cur
  BY <1>1, <1>2
<1>8. dir'.stg = f
  BY <1>1, <1>3
<1> QED BY <1>4, <1>5, <1>6, <1>7, <1>8

\* Syncing the installed file changes no bytes, and keeps it whole.
LEMMA FsyncCurrentFacts ==
    ASSUME StoreInv, dir.cur # None, FsyncCurrent
    PROVE  /\ UNCHANGED <<dir, views>>
           /\ dir' \in Dirs /\ views' \subseteq Dirs /\ dir' \in views'
           /\ Bytes(dir'.cur) = Bytes(dir.cur) /\ dir'.stg = dir.stg
           /\ InstalledRecordIsWhole'
           /\ \A v \in views' : \E u \in views : Bytes(v.cur) = Bytes(u.cur)
           /\ \A u \in views : \E v \in views' : Bytes(v.cur) = Bytes(u.cur)
<1> USE DEF StoreInv, TypeOK, Dirs, Files
<1> DEFINE f == [dir.cur EXCEPT !.synced = TRUE]
           g(v) == IF v.cur = dir.cur THEN [v EXCEPT !.cur = f] ELSE v
           W(v) == v.cur # None => v.cur.len = "whole" /\ v.cur.synced
<1>0. \A v \in views : W(v)
  BY DEF InstalledRecordIsWhole
<1>1. views' = {g(v) : v \in views} /\ dir' = g(dir)
  BY DEF FsyncCurrent
<1>2. f = dir.cur
  BY <1>0
<1> HIDE DEF f
<1>3. \A v \in views : g(v) = v
  BY <1>2
<1> HIDE DEF g
<1>4. views' = views /\ dir' = dir
  BY <1>1, <1>3
<1> QED BY <1>4 DEF InstalledRecordIsWhole

-----------------------------------------------------------------------------
(* The inductive invariant.                                                *)

\* An empty directory, and nobody has opened the store.
LEMMA StoreInvInit == Init => StoreInv
  BY StoreAssumption DEF Init, Dirs, Steps, Ops, StoreInv, TypeOK, OneCaller, InstalledRecordIsWhole, PublishSteps, RemoveSteps, OtherSteps, Settled, Reported, Bytes, Admits, Begin, Goto, Return

\* A step of p cannot disturb what another process relies on: the others are
\* not inside the store.
LEMMA OthersClosed ==
    ASSUME StoreInv, NEW p \in Procs, pc[p] # "closed", NEW q \in Procs, q # p
    PROVE  pc[q] = "closed" /\ res[q] # "ok"
  BY DEF StoreInv, OneCaller, OtherSteps

\* A power loss leaves one of the directories that were possible, and no caller.
LEMMA PowerLossKeepsStoreInv == ASSUME StoreInv, PowerLoss PROVE StoreInv'
<1> USE StoreAssumption DEF StoreInv, TypeOK
<1>0. PICK v \in views : \E c \in Survivors(v.cur), s \in Survivors(v.stg) : dir' = [cur |-> c, stg |-> s]
  BY DEF PowerLoss
<1>1. PICK c \in Survivors(v.cur), s \in Survivors(v.stg) : dir' = [cur |-> c, stg |-> s]
  BY <1>0
<1>2. v.cur \in Files \cup {None} /\ v.stg \in Files \cup {None}
  BY DEF Dirs
<1>3. c = v.cur
  BY <1>2 DEF Survivors, InstalledRecordIsWhole, Files
<1>4. s \in Files \cup {None}
  <2>1. \A l \in Lens : Beginnings(l) \subseteq Lens
    BY DEF Beginnings, Lens
  <2>2. CASE v.stg = None \/ v.stg.synced
    BY <1>2, <2>2 DEF Survivors
  <2>3. CASE ~(v.stg = None \/ v.stg.synced)
    <3>1. PICK l \in Beginnings(v.stg.len) : s = [rec |-> v.stg.rec, len |-> l, synced |-> TRUE]
      BY <2>3 DEF Survivors
    <3> QED BY <1>2, <2>1, <2>3, <3>1 DEF Files
  <2> QED BY <2>2, <2>3
<1>5. dir' \in Dirs /\ dir'.cur = v.cur /\ views' = {dir'}
  BY <1>1, <1>2, <1>3, <1>4 DEF Dirs, PowerLoss
<1>6. TypeOK'
  BY <1>5 DEF PowerLoss, Steps, Ops
<1>7. InstalledRecordIsWhole'
  BY <1>5 DEF InstalledRecordIsWhole
<1> QED BY <1>5, <1>6, <1>7 DEF PowerLoss, OneCaller, PublishSteps, RemoveSteps, OtherSteps

\* Every step of a call, a failure and a kill keep what the call has established.
LEMMA StoreInvStep == ASSUME StoreInv, [Next]_vars PROVE StoreInv'
<1> USE StoreAssumption DEF Dirs, Files, Lens, Steps, Ops
<1>a. CASE UNCHANGED vars
  BY <1>a DEF vars, StoreInv, TypeOK, OneCaller, InstalledRecordIsWhole, PublishSteps, RemoveSteps, OtherSteps, Settled, Reported, Bytes, Admits, Begin, Goto, Return
<1>b. CASE PowerLoss
  BY <1>b, PowerLossKeepsStoreInv
<1>1. ASSUME NEW p \in Procs, Open(p) PROVE StoreInv'
  BY <1>1 DEF Open, StoreInv, TypeOK, OneCaller, InstalledRecordIsWhole, PublishSteps, RemoveSteps, OtherSteps, Settled, Reported, Bytes, Admits, Begin, Goto, Return
<1>2. ASSUME NEW p \in Procs, Close(p) PROVE StoreInv'
  BY <1>2 DEF Close, StoreInv, TypeOK, OneCaller, InstalledRecordIsWhole, PublishSteps, RemoveSteps, OtherSteps, Settled, Reported, Bytes, Admits, Begin, Goto, Return
<1>3. ASSUME NEW p \in Procs, Load(p) PROVE StoreInv'
  BY <1>3 DEF Load, StoreInv, TypeOK, OneCaller, InstalledRecordIsWhole, PublishSteps, RemoveSteps, OtherSteps, Settled, Reported, Bytes, Admits, Begin, Goto, Return
<1>4. ASSUME NEW p \in Procs, Synchronize(p) PROVE StoreInv'
  BY <1>4 DEF Synchronize, StoreInv, TypeOK, OneCaller, InstalledRecordIsWhole, PublishSteps, RemoveSteps, OtherSteps, Settled, Reported, Bytes, Admits, Begin, Goto, Return
<1>5. ASSUME NEW p \in Procs, SyncFails(p) PROVE StoreInv'
  BY <1>5 DEF SyncFails, StoreInv, TypeOK, OneCaller, InstalledRecordIsWhole, PublishSteps, RemoveSteps, OtherSteps, Settled, Reported, Bytes, Admits, Begin, Goto, Return
<1>6. ASSUME NEW p \in Procs, NEW next \in Records, Publish(p, next) PROVE StoreInv'
  BY <1>6 DEF Publish, StoreInv, TypeOK, OneCaller, InstalledRecordIsWhole, PublishSteps, RemoveSteps, OtherSteps, Settled, Reported, Bytes, Admits, Begin, Goto, Return
<1>7. ASSUME NEW p \in Procs, StageReuse(p) PROVE StoreInv'
  BY <1>7 DEF StageReuse, StoreInv, TypeOK, OneCaller, InstalledRecordIsWhole, PublishSteps, RemoveSteps, OtherSteps, Settled, Reported, Bytes, Admits, Begin, Goto, Return
<1>8. ASSUME NEW p \in Procs, StageConflict(p) PROVE StoreInv'
  BY <1>8 DEF StageConflict, StoreInv, TypeOK, OneCaller, InstalledRecordIsWhole, PublishSteps, RemoveSteps, OtherSteps, Settled, Reported, Bytes, Admits, Begin, Goto, Return
<1>9. ASSUME NEW p \in Procs, WriteFails(p) PROVE StoreInv'
  BY <1>9 DEF WriteFails, StoreInv, TypeOK, OneCaller, InstalledRecordIsWhole, PublishSteps, RemoveSteps, OtherSteps, Settled, Reported, Bytes, Admits, Begin, Goto, Return
<1>10. ASSUME NEW p \in Procs, Commit(p) PROVE StoreInv'
  BY <1>10 DEF Commit, FsyncDirectory, StoreInv, TypeOK, OneCaller, InstalledRecordIsWhole, PublishSteps, RemoveSteps, OtherSteps, Settled, Reported, Bytes, Admits, Begin, Goto, Return
<1>11. ASSUME NEW p \in Procs, ChangeFails(p) PROVE StoreInv'
  BY <1>11 DEF ChangeFails, StoreInv, TypeOK, OneCaller, InstalledRecordIsWhole, PublishSteps, RemoveSteps, OtherSteps, Settled, Reported, Bytes, Admits, Begin, Goto, Return
<1>12. ASSUME NEW p \in Procs, RemoveCompletedCleanup(p) PROVE StoreInv'
  BY <1>12 DEF RemoveCompletedCleanup, StoreInv, TypeOK, OneCaller, InstalledRecordIsWhole, PublishSteps, RemoveSteps, OtherSteps, Settled, Reported, Bytes, Admits, Begin, Goto, Return
<1>13. ASSUME NEW p \in Procs, UnlinkCurrent(p) PROVE StoreInv'
  BY <1>13 DEF UnlinkCurrent, ChangeDirectory, StoreInv, TypeOK, OneCaller, InstalledRecordIsWhole, PublishSteps, RemoveSteps, OtherSteps, Settled, Reported, Bytes, Admits, Begin, Goto, Return
<1>14. ASSUME NEW p \in Procs, UnlinkStaged(p) PROVE StoreInv'
  BY <1>14 DEF UnlinkStaged, ChangeDirectory, StoreInv, TypeOK, OneCaller, InstalledRecordIsWhole, PublishSteps, RemoveSteps, OtherSteps, Settled, Reported, Bytes, Admits, Begin, Goto, Return
<1>15. ASSUME NEW p \in Procs, Kill(p) PROVE StoreInv'
  BY <1>15 DEF Kill, StoreInv, TypeOK, OneCaller, InstalledRecordIsWhole, PublishSteps, RemoveSteps, OtherSteps, Settled, Reported, Bytes, Admits, Begin, Goto, Return
<1>16. ASSUME NEW p \in Procs, SyncCurrent(p) PROVE StoreInv'
  <2>1. CASE Bytes(dir.cur) # exp[p]
    BY <1>16, <2>1 DEF SyncCurrent, StoreInv, TypeOK, OneCaller, InstalledRecordIsWhole, PublishSteps, RemoveSteps, OtherSteps, Settled, Reported, Bytes, Admits, Begin, Goto, Return
  <2>2. CASE Bytes(dir.cur) = exp[p]
    <3>1. exp[p] # None /\ dir.cur # None /\ FsyncCurrent
      BY <1>16, <2>2 DEF SyncCurrent, StoreInv, TypeOK, OneCaller, InstalledRecordIsWhole, PublishSteps, RemoveSteps, OtherSteps, Settled, Reported, Bytes, Admits, Begin, Goto, Return
    <3>2. /\ dir' \in Dirs /\ views' \subseteq Dirs /\ dir' \in views'
          /\ Bytes(dir'.cur) = exp[p] /\ InstalledRecordIsWhole'
      BY <2>2, <3>1, FsyncCurrentFacts
    <3>3. pc' = [pc EXCEPT ![p] = "sync_directory"] /\ UNCHANGED <<lock, op, exp, nxt, res>>
      BY <1>16, <2>2 DEF SyncCurrent, Goto
    <3>4. TypeOK' /\ OneCaller'
      BY <1>16, <3>2, <3>3 DEF SyncCurrent, StoreInv, TypeOK, OneCaller
    <3>5. ASSUME NEW q \in Procs PROVE (PublishSteps(q) /\ RemoveSteps(q) /\ OtherSteps(q))'
      <4>1. CASE q = p
        <5>1. pc[p] = "sync_current" /\ pc'[q] = "sync_directory" /\ res[p] # "ok"
          BY <1>16, <3>3, <4>1 DEF SyncCurrent, StoreInv, TypeOK, OtherSteps
        <5> QED BY <3>1, <3>2, <3>3, <4>1, <5>1 DEF StoreInv, TypeOK, PublishSteps, RemoveSteps, OtherSteps, Admits, Bytes
      <4>2. CASE q # p
        BY <1>16, <3>3, <4>2, OthersClosed DEF SyncCurrent, StoreInv, TypeOK, PublishSteps, RemoveSteps, OtherSteps
      <4> QED BY <4>1, <4>2
    <3> QED BY <3>2, <3>4, <3>5 DEF StoreInv
  <2> QED BY <2>1, <2>2
<1>17. ASSUME NEW p \in Procs, SyncDirectory(p) PROVE StoreInv'
  <2>1. /\ views' = {dir} /\ dir' = dir /\ Bytes(dir.cur) = exp[p] /\ exp[p] # None
        /\ UNCHANGED <<lock, op, exp, nxt>> /\ pc[p] = "sync_directory" /\ res[p] # "ok"
    BY <1>17 DEF SyncDirectory, FsyncDirectory, StoreInv, OtherSteps
  <2>2. \/ op[p] = "synchronize" /\ Return(p, "ok")
        \/ op[p] = "publish" /\ Goto(p, "stage")
        \/ op[p] = "remove" /\ Goto(p, "unlink_current")
    BY <1>17 DEF SyncDirectory, StoreInv, TypeOK
  <2>3. TypeOK' /\ OneCaller' /\ InstalledRecordIsWhole'
    BY <2>1, <2>2 DEF StoreInv, TypeOK, OneCaller, InstalledRecordIsWhole, Goto, Return
  <2>4. ASSUME NEW q \in Procs PROVE (PublishSteps(q) /\ RemoveSteps(q) /\ OtherSteps(q))'
    <3>1. CASE q = p
      BY <2>1, <2>2, <3>1 DEF StoreInv, TypeOK, OneCaller, InstalledRecordIsWhole, PublishSteps, RemoveSteps, OtherSteps, Settled, Reported, Bytes, Admits, Begin, Goto, Return
    <3>2. CASE q # p
      BY <2>1, <2>2, <3>2, OthersClosed DEF StoreInv, TypeOK, Goto, Return, PublishSteps, RemoveSteps, OtherSteps
    <3> QED BY <3>1, <3>2
  <2> QED BY <2>1, <2>3, <2>4 DEF StoreInv
<1>18. ASSUME NEW p \in Procs, StageCreate(p) PROVE StoreInv'
  <2> DEFINE f == [rec |-> nxt[p], len |-> "empty", synced |-> FALSE]
  <2>1. /\ pc[p] = "stage" /\ pc' = [pc EXCEPT ![p] = "write"]
        /\ UNCHANGED <<lock, op, exp, nxt, res>> /\ res[p] # "ok"
        /\ dir' = [dir EXCEPT !.stg = f] /\ views' = views \cup {dir'}
        /\ f \in Files /\ Bytes(dir.cur) = exp[p]
    BY <1>18 DEF StageCreate, StoreInv, TypeOK, OtherSteps, PublishSteps, ChangeDirectory, Goto
  <2>2. dir' \in Dirs /\ dir'.cur = dir.cur /\ dir'.stg = f
    BY <2>1 DEF StoreInv, TypeOK
  <2> HIDE DEF f
  <2>3. TypeOK' /\ OneCaller' /\ InstalledRecordIsWhole'
    BY <2>1, <2>2 DEF StoreInv, TypeOK, OneCaller, InstalledRecordIsWhole
  <2>4. ASSUME NEW q \in Procs PROVE (PublishSteps(q) /\ RemoveSteps(q) /\ OtherSteps(q))'
    <3>1. CASE q = p
      <4>1. f.rec = nxt[p] /\ f # None
        BY <2>1 DEF f
      <4>2. exp[p] # None => Settled(p)'
        BY <2>1, <2>2 DEF StoreInv, PublishSteps, Settled, Bytes
      <4> QED BY <2>1, <2>2, <3>1, <4>1, <4>2 DEF StoreInv, TypeOK, PublishSteps, RemoveSteps, OtherSteps, Admits, Bytes
    <3>2. CASE q # p
      BY <2>1, <3>2, OthersClosed DEF StoreInv, TypeOK, PublishSteps, RemoveSteps, OtherSteps
    <3> QED BY <3>1, <3>2
  <2> QED BY <2>1, <2>3, <2>4 DEF StoreInv
<1>19. ASSUME NEW p \in Procs, WritePart(p) PROVE StoreInv'
  <2> DEFINE f == [dir.stg EXCEPT !.len = "torn"]
  <2>1. /\ pc[p] = "write" /\ pc' = [pc EXCEPT ![p] = "write"] /\ UpdateStaged(f)
        /\ UNCHANGED <<lock, op, exp, nxt, res>> /\ res[p] # "ok"
    BY <1>19 DEF WritePart, FsyncStaged, StoreInv, TypeOK, OtherSteps, Goto
  <2>2. /\ f \in Files /\ f.rec = nxt[p] /\ f.len = "torn"
    BY <2>1 DEF StoreInv, TypeOK, PublishSteps
  <2> HIDE DEF f
  <2>3. /\ dir' \in Dirs /\ views' \subseteq Dirs /\ dir' \in views'
        /\ dir'.cur = dir.cur /\ dir'.stg = f
        /\ \A v \in views' : \E u \in views : v.cur = u.cur
    BY <2>1, <2>2, UpdateStagedFacts
  <2>4. TypeOK' /\ OneCaller' /\ InstalledRecordIsWhole'
    BY <2>1, <2>3 DEF StoreInv, TypeOK, OneCaller, InstalledRecordIsWhole
  <2>5. ASSUME NEW q \in Procs PROVE (PublishSteps(q) /\ RemoveSteps(q) /\ OtherSteps(q))'
    <3>1. CASE q = p
      <4>1. exp[p] # None => Settled(p)'
        BY <2>1, <2>3 DEF StoreInv, PublishSteps, Settled, Bytes
      <4>2. f # None
        BY <2>2
      <4>3. /\ op[p] = "publish" /\ nxt[p] \in Records /\ Admits(exp[p], nxt[p])
            /\ Bytes(dir.cur) = exp[p] /\ pc \in [Procs -> Steps]
        BY <2>1 DEF StoreInv, TypeOK, PublishSteps
      <4>4. PublishSteps(q)'
        BY <2>1, <2>2, <2>3, <3>1, <4>1, <4>2, <4>3 DEF PublishSteps, Admits, Bytes
      <4>5. RemoveSteps(q)' /\ OtherSteps(q)'
        BY <2>1, <2>3, <3>1 DEF StoreInv, TypeOK, PublishSteps, RemoveSteps, OtherSteps, Bytes
      <4> QED BY <4>4, <4>5
    <3>2. CASE q # p
      BY <2>1, <3>2, OthersClosed DEF StoreInv, TypeOK, PublishSteps, RemoveSteps, OtherSteps
    <3> QED BY <3>1, <3>2
  <2> QED BY <2>3, <2>4, <2>5 DEF StoreInv
<1>20. ASSUME NEW p \in Procs, Write(p) PROVE StoreInv'
  <2> DEFINE f == [dir.stg EXCEPT !.len = "whole"]
  <2>1. /\ pc[p] = "write" /\ pc' = [pc EXCEPT ![p] = "sync_staged"] /\ UpdateStaged(f)
        /\ UNCHANGED <<lock, op, exp, nxt, res>> /\ res[p] # "ok"
    BY <1>20 DEF Write, FsyncStaged, StoreInv, TypeOK, OtherSteps, Goto
  <2>2. /\ f \in Files /\ f.rec = nxt[p] /\ f.len = "whole"
    BY <2>1 DEF StoreInv, TypeOK, PublishSteps
  <2> HIDE DEF f
  <2>3. /\ dir' \in Dirs /\ views' \subseteq Dirs /\ dir' \in views'
        /\ dir'.cur = dir.cur /\ dir'.stg = f
        /\ \A v \in views' : \E u \in views : v.cur = u.cur
    BY <2>1, <2>2, UpdateStagedFacts
  <2>4. TypeOK' /\ OneCaller' /\ InstalledRecordIsWhole'
    BY <2>1, <2>3 DEF StoreInv, TypeOK, OneCaller, InstalledRecordIsWhole
  <2>5. ASSUME NEW q \in Procs PROVE (PublishSteps(q) /\ RemoveSteps(q) /\ OtherSteps(q))'
    <3>1. CASE q = p
      <4>1. exp[p] # None => Settled(p)'
        BY <2>1, <2>3 DEF StoreInv, PublishSteps, Settled, Bytes
      <4>2. f # None
        BY <2>2
      <4>3. /\ op[p] = "publish" /\ nxt[p] \in Records /\ Admits(exp[p], nxt[p])
            /\ Bytes(dir.cur) = exp[p] /\ pc \in [Procs -> Steps]
        BY <2>1 DEF StoreInv, TypeOK, PublishSteps
      <4>4. PublishSteps(q)'
        BY <2>1, <2>2, <2>3, <3>1, <4>1, <4>2, <4>3 DEF PublishSteps, Admits, Bytes
      <4>5. RemoveSteps(q)' /\ OtherSteps(q)'
        BY <2>1, <2>3, <3>1 DEF StoreInv, TypeOK, PublishSteps, RemoveSteps, OtherSteps, Bytes
      <4> QED BY <4>4, <4>5
    <3>2. CASE q # p
      BY <2>1, <3>2, OthersClosed DEF StoreInv, TypeOK, PublishSteps, RemoveSteps, OtherSteps
    <3> QED BY <3>1, <3>2
  <2> QED BY <2>3, <2>4, <2>5 DEF StoreInv
<1>21. ASSUME NEW p \in Procs, SyncStaged(p) PROVE StoreInv'
  <2> DEFINE f == [dir.stg EXCEPT !.synced = TRUE]
  <2>1. /\ pc[p] = "sync_staged" /\ pc' = [pc EXCEPT ![p] = "rename"] /\ UpdateStaged(f)
        /\ UNCHANGED <<lock, op, exp, nxt, res>> /\ res[p] # "ok"
    BY <1>21 DEF SyncStaged, FsyncStaged, StoreInv, TypeOK, OtherSteps, Goto
  <2>2. /\ f \in Files /\ f.rec = nxt[p] /\ f.len = "whole" /\ f.synced
    BY <2>1 DEF StoreInv, TypeOK, PublishSteps
  <2> HIDE DEF f
  <2>3. /\ dir' \in Dirs /\ views' \subseteq Dirs /\ dir' \in views'
        /\ dir'.cur = dir.cur /\ dir'.stg = f
        /\ \A v \in views' : \E u \in views : v.cur = u.cur
    BY <2>1, <2>2, UpdateStagedFacts
  <2>4. TypeOK' /\ OneCaller' /\ InstalledRecordIsWhole'
    BY <2>1, <2>3 DEF StoreInv, TypeOK, OneCaller, InstalledRecordIsWhole
  <2>5. ASSUME NEW q \in Procs PROVE (PublishSteps(q) /\ RemoveSteps(q) /\ OtherSteps(q))'
    <3>1. CASE q = p
      <4>1. exp[p] # None => Settled(p)'
        BY <2>1, <2>3 DEF StoreInv, PublishSteps, Settled, Bytes
      <4>2. f # None
        BY <2>2
      <4>3. /\ op[p] = "publish" /\ nxt[p] \in Records /\ Admits(exp[p], nxt[p])
            /\ Bytes(dir.cur) = exp[p] /\ pc \in [Procs -> Steps]
        BY <2>1 DEF StoreInv, TypeOK, PublishSteps
      <4>4. PublishSteps(q)'
        BY <2>1, <2>2, <2>3, <3>1, <4>1, <4>2, <4>3 DEF PublishSteps, Admits, Bytes
      <4>5. RemoveSteps(q)' /\ OtherSteps(q)'
        BY <2>1, <2>3, <3>1 DEF StoreInv, TypeOK, PublishSteps, RemoveSteps, OtherSteps, Bytes
      <4> QED BY <4>4, <4>5
    <3>2. CASE q # p
      BY <2>1, <3>2, OthersClosed DEF StoreInv, TypeOK, PublishSteps, RemoveSteps, OtherSteps
    <3> QED BY <3>1, <3>2
  <2> QED BY <2>3, <2>4, <2>5 DEF StoreInv
<1>22. ASSUME NEW p \in Procs, Rename(p) PROVE StoreInv'
  <2>1. /\ pc[p] = "rename" /\ pc' \in {[pc EXCEPT ![p] = "commit"], [pc EXCEPT ![p] = "open"]}
        /\ UNCHANGED <<lock, op, exp, nxt>> /\ res' \in {res, [res EXCEPT ![p] = "uncertain"]}
        /\ dir' = [cur |-> dir.stg, stg |-> None] /\ views' = views \cup {dir'}
    BY <1>22 DEF Rename, ChangeDirectory, Goto, Return
  <2>2. /\ dir.stg \in Files /\ dir.stg.rec = nxt[p] /\ dir.stg.len = "whole" /\ dir.stg.synced
        /\ res[p] # "ok" /\ op[p] = "publish"
    BY <2>1 DEF StoreInv, TypeOK, PublishSteps, OtherSteps
  <2>3. dir' \in Dirs /\ dir'.cur = dir.stg
    BY <2>1, <2>2
  <2>4. TypeOK' /\ OneCaller' /\ InstalledRecordIsWhole'
    BY <2>1, <2>2, <2>3 DEF StoreInv, TypeOK, OneCaller, InstalledRecordIsWhole
  <2>5. ASSUME NEW q \in Procs PROVE (PublishSteps(q) /\ RemoveSteps(q) /\ OtherSteps(q))'
    <3>1. CASE q = p
      BY <2>1, <2>2, <2>3, <3>1 DEF StoreInv, TypeOK, PublishSteps, RemoveSteps, OtherSteps, Reported, Bytes
    <3>2. CASE q # p
      BY <2>1, <3>2, OthersClosed DEF StoreInv, TypeOK, PublishSteps, RemoveSteps, OtherSteps
    <3> QED BY <3>1, <3>2
  <2> QED BY <2>1, <2>4, <2>5 DEF StoreInv
<1> QED BY <1>a, <1>b, <1>1, <1>2, <1>3, <1>4, <1>5, <1>6, <1>7, <1>8, <1>9, <1>10, <1>11, <1>12, <1>13, <1>14, <1>15, <1>16, <1>17, <1>18, <1>19, <1>20, <1>21, <1>22 DEF Next, Step

-----------------------------------------------------------------------------
(* The theorems.                                                           *)

\* StoreInv is an invariant of the store.
LEMMA StoreInvAlways == Spec => []StoreInv
  BY StoreInvInit, StoreInvStep, PTL DEF Spec

\* Every variable of the store keeps its type.
THEOREM StoreTyped == Spec => []TypeOK
<1>1. StoreInv => TypeOK
  BY DEF StoreInv
<1> QED BY <1>1, StoreInvAlways, PTL

\* However publish, synchronize and remove_completed_cleanup are interrupted,
\* no power loss leaves a torn or unsynced installed record.
THEOREM InstalledRecordNeverTorn == Spec => []InstalledRecordIsWhole
<1>1. StoreInv => InstalledRecordIsWhole
  BY DEF StoreInv
<1> QED BY <1>1, StoreInvAlways, PTL

\* A call that returned Ok reported a record that no power loss can take away.
THEOREM AcknowledgedSurvives == Spec => []AcknowledgedIsDurable
<1>1. StoreInv => AcknowledgedIsDurable
  BY DEF StoreInv, OtherSteps, AcknowledgedIsDurable
<1> QED BY <1>1, StoreInvAlways, PTL

-----------------------------------------------------------------------------
(* The store implements AtomicAuthority.                                   *)

Exposed == {Bytes(v.cur) : v \in views}

\* Steps that keep every installed record of the directory and of each view,
\* and add no view with a record of its own, are invisible to the register.
LEMMA KeptRecords ==
    ASSUME Bytes(dir.cur)' = Bytes(dir.cur),
           \A v \in views' : \E u \in views : Bytes(v.cur)' = Bytes(u.cur),
           \A u \in views : \E v \in views' : Bytes(v.cur)' = Bytes(u.cur)
    PROVE  UNCHANGED <<Bytes(dir.cur), Exposed>>
  BY DEF Exposed, Bytes

\* The rename, the unlink of the record and the synchronizations are steps of the
\* authority; all others leave it alone.
LEMMA StepImplementsAuthority ==
    ASSUME StoreInv, [Next]_vars
    PROVE  [Authority!Next]_(Authority!authorityVars)
<1> USE StoreAssumption
<1> SUFFICES \/ \E next \in Records : Authority!Advance(next)
             \/ Authority!Retire \/ Authority!Settle \/ Authority!PowerLoss
             \/ UNCHANGED <<Bytes(dir.cur), Exposed>>
  BY DEF Authority!Next, Authority!authorityVars, Exposed
<1>1. CASE UNCHANGED <<dir, views>>
  BY <1>1 DEF Exposed, Bytes
<1>2. CASE PowerLoss
  <2>0. PICK v \in views : \E c \in Survivors(v.cur), s \in Survivors(v.stg) : dir' = [cur |-> c, stg |-> s]
    BY <1>2 DEF PowerLoss
  <2>1. PICK c \in Survivors(v.cur), s \in Survivors(v.stg) : dir' = [cur |-> c, stg |-> s]
    BY <2>0
  <2>2. c = v.cur
    BY DEF Survivors, InstalledRecordIsWhole, Files, Dirs, StoreInv, TypeOK
  <2>3. Bytes(dir.cur)' = Bytes(v.cur) /\ views' = {dir'}
    BY <1>2, <2>1, <2>2 DEF PowerLoss, Bytes
  <2>4. Authority!PowerLoss
    BY <2>3 DEF Authority!PowerLoss, Bytes
  <2> QED BY <2>4
<1>3. ASSUME NEW p \in Procs, SyncCurrent(p), ~UNCHANGED <<dir, views>>
      PROVE  UNCHANGED <<Bytes(dir.cur), Exposed>>
  <2>1. FsyncCurrent /\ dir.cur # None
    BY <1>3 DEF SyncCurrent, Bytes, StoreInv, OtherSteps
  <2>2. /\ Bytes(dir'.cur) = Bytes(dir.cur)
        /\ \A v \in views' : \E u \in views : Bytes(v.cur) = Bytes(u.cur)
        /\ \A u \in views : \E v \in views' : Bytes(v.cur) = Bytes(u.cur)
    BY <2>1, FsyncCurrentFacts
  <2> QED BY <2>2, KeptRecords DEF Bytes
<1>4. ASSUME NEW f \in Files, UpdateStaged(f)
      PROVE  UNCHANGED <<Bytes(dir.cur), Exposed>>
  <2>1. /\ dir'.cur = dir.cur
        /\ \A v \in views' : \E u \in views : v.cur = u.cur
        /\ \A u \in views : \E v \in views' : v.cur = u.cur
    BY <1>4, UpdateStagedFacts
  <2> QED BY <2>1, KeptRecords DEF Bytes
<1>5. ASSUME NEW p \in Procs, WritePart(p) \/ Write(p) \/ SyncStaged(p)
      PROVE  UNCHANGED <<Bytes(dir.cur), Exposed>>
  <2>1. dir.stg \in Files
    BY <1>5 DEF WritePart, Write, SyncStaged, StoreInv, TypeOK, Dirs, PublishSteps
  <2>2. \E f \in Files : UpdateStaged(f)
    BY <1>5, <2>1 DEF WritePart, Write, SyncStaged, FsyncStaged, Files, Lens
  <2> QED BY <2>2, <1>4
<1>6. ASSUME NEW p \in Procs, SyncDirectory(p) \/ Commit(p)
      PROVE  Authority!Settle
  BY <1>6 DEF SyncDirectory, Commit, FsyncDirectory, Authority!Settle, Bytes
<1>7. ASSUME NEW p \in Procs, StageCreate(p) \/ UnlinkStaged(p)
      PROVE  UNCHANGED <<Bytes(dir.cur), Exposed>>
  <2>1. dir'.cur = dir.cur /\ views' = views \cup {dir'} /\ dir \in views
    BY <1>7 DEF StageCreate, UnlinkStaged, ChangeDirectory, StoreInv, TypeOK, Dirs
  <2> QED BY <2>1, KeptRecords DEF Bytes
<1>8. ASSUME NEW p \in Procs, Rename(p)
      PROVE  Authority!Advance(nxt[p]) /\ nxt[p] \in Records
  <2>1. /\ nxt[p] \in Records /\ Admits(exp[p], nxt[p]) /\ Bytes(dir.cur) = exp[p]
        /\ dir.stg # None /\ dir.stg.rec = nxt[p] /\ dir.stg.len = "whole"
        /\ exp[p] # None => Settled(p)
    BY <1>8 DEF Rename, StoreInv, PublishSteps
  <2>2. Bytes(dir.cur)' = nxt[p] /\ views' = views \cup {dir'} /\ dir \in views
    BY <1>8, <2>1 DEF Rename, ChangeDirectory, Bytes, StoreInv
  <2>3. Authority!Admits(Bytes(dir.cur), nxt[p])
    BY <2>1 DEF Authority!Admits, Admits
  <2>4. Exposed' = Exposed \cup {nxt[p]}
    BY <2>2 DEF Exposed, Bytes
  <2>5. Bytes(dir.cur) # None => Exposed = {Bytes(dir.cur)}
    BY <2>1, <2>2 DEF Exposed, Settled
  <2> QED BY <2>1, <2>2, <2>3, <2>4, <2>5 DEF Authority!Advance, Exposed
<1>9. ASSUME NEW p \in Procs, UnlinkCurrent(p), ~UNCHANGED <<dir, views>>
      PROVE  Authority!Retire
  <2>1. exp[p] \in Cleaned /\ Settled(p) /\ dir \in views
    BY <1>9 DEF UnlinkCurrent, StoreInv, TypeOK, RemoveSteps
  <2>2. dir' = [dir EXCEPT !.cur = None] /\ views' = views \cup {dir'}
    BY <1>9 DEF UnlinkCurrent, ChangeDirectory
  <2>3. Bytes(dir.cur)' = None
    BY <2>2 DEF Bytes, StoreInv, TypeOK, Dirs
  <2>4. Exposed' = Exposed \cup {None}
    BY <2>2, <2>3 DEF Exposed, Bytes
  <2>5. Exposed = {Bytes(dir.cur)} /\ Bytes(dir.cur) \in Cleaned
    BY <2>1 DEF Exposed, Settled
  <2> QED BY <2>3, <2>4, <2>5 DEF Authority!Retire, Exposed
<1>10. ASSUME NEW p \in Procs, Step(p), ~UNCHANGED <<dir, views>>
       PROVE  \/ SyncCurrent(p) \/ WritePart(p) \/ Write(p) \/ SyncStaged(p)
              \/ SyncDirectory(p) \/ Commit(p) \/ StageCreate(p) \/ UnlinkStaged(p)
              \/ Rename(p) \/ UnlinkCurrent(p)
  BY <1>10 DEF Step, Open, Close, Load, Synchronize, SyncFails, Publish, StageReuse,
       StageConflict, WriteFails, ChangeFails, RemoveCompletedCleanup, Kill
<1> QED BY <1>1, <1>2, <1>3, <1>5, <1>6, <1>7, <1>8, <1>9, <1>10 DEF Next, vars

\* Seen through its installed name, the store is the single register of
\* AtomicAuthority, for every record graph: no stale caller overwrites, and no
\* power loss goes behind the last settled record.
THEOREM StoreImplementsAuthority == Spec => ImplementsAuthority
<1>1. Init => Authority!Init
  BY StoreAssumption DEF Init, Authority!Init, Bytes
<1>2. StoreInv /\ [Next]_vars => [Authority!Next]_(Authority!authorityVars)
  BY StepImplementsAuthority
<1> QED BY <1>1, <1>2, StoreInvAlways, PTL DEF Spec, ImplementsAuthority, Authority!Spec

-----------------------------------------------------------------------------
(* The staged file always belongs to the record it lies beside.            *)

\* A staged file is created for the record that is installed, and only publishing
\* it or removing it changes what is beside it.
LEMMA StagedInvStep == ASSUME StagedInv, [Next]_vars PROVE StagedInv'
<1> USE StoreAssumption
<1>0. StoreInv /\ StoreInv'
  BY StoreInvStep DEF StagedInv
<1>a. dir \in views /\ dir' \in views' /\ dir \in Dirs /\ views \subseteq Dirs
  BY <1>0 DEF StoreInv, TypeOK
<1> SUFFICES ASSUME NEW v \in views' PROVE StagedFor(v)'
  BY <1>0 DEF StagedInv
<1>b. \A u \in views : StagedFor(u)
  BY DEF StagedInv
<1>1. CASE v \in views
  BY <1>1, <1>b DEF StagedFor, Admits, Bytes
<1>2. CASE PowerLoss
  <2>0. PICK u \in views : \E c \in Survivors(u.cur), s \in Survivors(u.stg) : dir' = [cur |-> c, stg |-> s]
    BY <1>2 DEF PowerLoss
  <2>1. PICK c \in Survivors(u.cur), s \in Survivors(u.stg) : dir' = [cur |-> c, stg |-> s]
    BY <2>0
  <2>2. c = u.cur
    BY <1>0 DEF Survivors, InstalledRecordIsWhole, Files, Dirs, StoreInv, TypeOK
  <2>3. v = dir' /\ v.cur = u.cur /\ v.stg = s
    BY <1>2, <2>1, <2>2 DEF PowerLoss
  <2>4. s # None => u.stg # None /\ s.rec = u.stg.rec
    BY DEF Survivors
  <2> QED BY <1>b, <2>3, <2>4 DEF StagedFor, Admits, Bytes
<1>3. ASSUME NEW p \in Procs, SyncCurrent(p) PROVE UNCHANGED <<dir, views>>
  <2>1. CASE UNCHANGED <<dir, views>>
    BY <2>1
  <2>2. CASE FsyncCurrent /\ dir.cur # None
    BY <1>0, <2>2, FsyncCurrentFacts
  <2> QED BY <1>0, <1>3, <2>1, <2>2 DEF SyncCurrent, Bytes, StoreInv, OtherSteps
<1>4. ASSUME NEW f \in Files, UpdateStaged(f), dir.stg # None, f.rec = dir.stg.rec PROVE StagedFor(v)'
  <2>1. PICK u \in views : v = IF u.stg = dir.stg THEN [u EXCEPT !.stg = f] ELSE u
    BY <1>4 DEF UpdateStaged
  <2>2. CASE u.stg = dir.stg
    <3>1. v.cur = u.cur /\ v.stg = f
      BY <1>a, <2>1, <2>2 DEF Dirs
    <3>2. Admits(Bytes(u.cur), f.rec) \/ (u.cur = None /\ f.rec \in Cleaned)
      BY <1>4, <1>b, <2>2 DEF StagedFor
    <3> QED BY <3>1, <3>2 DEF StagedFor, Admits, Bytes
  <2>3. CASE u.stg # dir.stg
    BY <1>1, <2>1, <2>3
  <2> QED BY <2>2, <2>3
<1>5. ASSUME NEW p \in Procs, WritePart(p) \/ Write(p) \/ SyncStaged(p) PROVE StagedFor(v)'
  <2>1. dir.stg \in Files /\ dir.stg # None
    BY <1>0, <1>5 DEF WritePart, Write, SyncStaged, StoreInv, TypeOK, Dirs, PublishSteps
  <2> DEFINE torn == [dir.stg EXCEPT !.len = "torn"]
             whole == [dir.stg EXCEPT !.len = "whole"]
             synced == [dir.stg EXCEPT !.synced = TRUE]
  <2>2. UpdateStaged(torn) \/ UpdateStaged(whole) \/ UpdateStaged(synced)
    BY <1>5 DEF WritePart, Write, SyncStaged, FsyncStaged
  <2>3. \A f \in {torn, whole, synced} : f \in Files /\ f.rec = dir.stg.rec
    BY <2>1 DEF Files, Lens
  <2> HIDE DEF torn, whole, synced
  <2> QED BY <1>4, <2>1, <2>2, <2>3
<1>6. ASSUME NEW p \in Procs, SyncDirectory(p) \/ Commit(p) PROVE v \in views
  <2>1. views' = {dir}
    BY <1>6 DEF SyncDirectory, Commit, FsyncDirectory
  <2> QED BY <1>a, <2>1
<1>7. ASSUME NEW p \in Procs, StageCreate(p), v \notin views PROVE StagedFor(v)'
  <2>1. /\ Bytes(dir.cur) = exp[p] /\ Admits(exp[p], nxt[p])
        /\ v = [dir EXCEPT !.stg = [rec |-> nxt[p], len |-> "empty", synced |-> FALSE]]
    BY <1>0, <1>7 DEF StageCreate, ChangeDirectory, StoreInv, PublishSteps
  <2>2. v.cur = dir.cur /\ v.stg.rec = nxt[p]
    BY <1>a, <2>1 DEF Dirs
  <2> QED BY <2>1, <2>2 DEF StagedFor, Admits, Bytes
<1>8. ASSUME NEW p \in Procs, Rename(p) \/ UnlinkStaged(p), v \notin views PROVE StagedFor(v)'
  <2>1. v.stg = None
    BY <1>8, <1>a DEF Rename, UnlinkStaged, ChangeDirectory, Dirs
  <2> QED BY <2>1 DEF StagedFor
<1>9. ASSUME NEW p \in Procs, UnlinkCurrent(p), v \notin views PROVE StagedFor(v)'
  <2>1. /\ Bytes(dir.stg) \in {None, exp[p]} /\ exp[p] \in Cleaned
        /\ v = [dir EXCEPT !.cur = None]
    BY <1>0, <1>9 DEF UnlinkCurrent, ChangeDirectory, StoreInv, RemoveSteps
  <2>2. v.cur = None /\ v.stg = dir.stg /\ dir.stg \in Files \cup {None}
    BY <1>a, <2>1 DEF Dirs
  <2>3. dir.stg # None => dir.stg.rec = exp[p]
    BY <2>1, <2>2 DEF Bytes, Files
  <2> QED BY <2>1, <2>2, <2>3 DEF StagedFor
<1>10. ASSUME NEW p \in Procs, Step(p), ~UNCHANGED <<dir, views>>
       PROVE  \/ SyncCurrent(p) \/ WritePart(p) \/ Write(p) \/ SyncStaged(p)
              \/ SyncDirectory(p) \/ Commit(p) \/ StageCreate(p) \/ UnlinkStaged(p)
              \/ Rename(p) \/ UnlinkCurrent(p)
  BY <1>10 DEF Step, Open, Close, Load, Synchronize, SyncFails, Publish, StageReuse,
       StageConflict, WriteFails, ChangeFails, RemoveCompletedCleanup, Kill
<1>11. CASE UNCHANGED <<dir, views>>
  BY <1>1, <1>11
<1> QED BY <1>1, <1>2, <1>3, <1>5, <1>6, <1>7, <1>8, <1>9, <1>10, <1>11 DEF Next, vars

\* Wherever a publication or a removal is interrupted, a whole staged record
\* is an admitted successor of the record beside it, or the last copy of a
\* record whose cleanup is complete: it can be completed exactly.
THEOREM StagedBelongs == Spec => []StagedIsSuccessor
<1>1. Init => StagedInv
  BY StoreInvInit, StoreAssumption DEF Init, StagedInv, StagedFor
<1>2. StagedInv /\ [Next]_vars => StagedInv'
  BY StagedInvStep
<1>3. StagedInv => StagedIsSuccessor
  <2> SUFFICES ASSUME StagedInv, NEW v \in views, Bytes(v.stg) \in Records
               PROVE  Admits(Bytes(v.cur), Bytes(v.stg)) \/ (v.cur = None /\ Bytes(v.stg) \in Cleaned)
    BY DEF StagedIsSuccessor, StagedInv, StoreInv
  <2>1. v.stg # None /\ Bytes(v.stg) = v.stg.rec
    BY StoreAssumption DEF Bytes
  <2> QED BY <2>1 DEF StagedInv, StagedFor
<1> QED BY <1>1, <1>2, <1>3, PTL DEF Spec
=============================================================================
