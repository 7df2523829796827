-------------------------- MODULE OwnershipStore ---------------------------
(***************************************************************************)
(* The ownership store of src/src/durable.rs: two names in one locked      *)
(* directory (the installed record and a staged one), read back before     *)
(* every step, synchronized, and replaced by rename.                       *)
(*                                                                         *)
(* A file is a record, how much of it has been written and whether that    *)
(* was synced; `dir` is the directory the processes see, `views` every     *)
(* directory a power loss now could leave on disk.  The kernel is          *)
(* external: fsync, rename, unlink and write may fail, and a failed rename *)
(* or unlink may or may not have been applied (the code calls the outcome  *)
(* Uncertain).  Nobody else writes in the root-only directory, so rereads  *)
(* of an unchanged name are folded into the step that follows them.        *)
(***************************************************************************)
CONSTANTS
    Records, Successor, First, Cleaned, None,
    Torn,       \* what a reader gets from an empty or half-written file
    Procs       \* owner processes

VARIABLES
    dir,        \* [cur, stg]: the files OWNERSHIP_FILE and STAGED_FILE name
    views,      \* directories a power loss could leave
    lock,       \* the process whose flock the directory carries, or None
    pc,         \* process -> the step of the store call it is in
    op,         \* process -> the call it is in
    exp,        \* process -> `expected`, the record it last loaded
    nxt,        \* process -> `next`, the record it is publishing
    res         \* process -> the outcome of its last call

vars == <<dir, views, lock, pc, op, exp, nxt, res>>

Lens == {"empty", "torn", "whole"}
Ops == {"publish", "synchronize", "remove"}
Steps == {"closed", "open", "sync_current", "sync_directory", "stage", "write",
          "sync_staged", "rename", "unlink_current", "unlink_staged", "commit"}
Files == [rec : Records, len : Lens, synced : BOOLEAN]
Dirs == [cur : Files \cup {None}, stg : Files \cup {None}]

ASSUME StoreAssumption ==
    /\ Successor \subseteq Records \X Records
    /\ First \subseteq Records
    /\ Cleaned \subseteq Records
    /\ None \notin Records \cup Files \cup Procs
    /\ Torn \notin Records \cup {None}

TypeOK ==
    /\ dir \in Dirs
    /\ views \subseteq Dirs
    /\ lock \in Procs \cup {None}
    /\ pc \in [Procs -> Steps]
    /\ op \in [Procs -> Ops]
    /\ exp \in [Procs -> Records \cup {None}]
    /\ nxt \in [Procs -> Records \cup {None}]
    /\ res \in [Procs -> {"none", "ok", "unchanged", "uncertain"}]

\* read_file followed by a comparison or a decode: the record, None for a
\* missing name, Torn for anything shorter than a whole record.
Bytes(f) ==
    IF f = None THEN None ELSE IF f.len = "whole" THEN f.rec ELSE Torn

Admits(source, next) ==
    IF source = None THEN next \in First ELSE <<source, next>> \in Successor

Init ==
    /\ dir = [cur |-> None, stg |-> None]
    /\ views = {dir}
    /\ lock = None
    /\ pc = [p \in Procs |-> "closed"]
    /\ op = [p \in Procs |-> "publish"]
    /\ exp = [p \in Procs |-> None]
    /\ nxt = [p \in Procs |-> None]
    /\ res = [p \in Procs |-> "none"]

Goto(p, step) == pc' = [pc EXCEPT ![p] = step] /\ UNCHANGED res

Begin(p, step) ==
    /\ pc' = [pc EXCEPT ![p] = step]
    /\ res' = [res EXCEPT ![p] = "none"]

Return(p, outcome) ==
    /\ pc' = [pc EXCEPT ![p] = "open"]
    /\ res' = [res EXCEPT ![p] = outcome]

-----------------------------------------------------------------------------
(* The kernel's part, external to the repository.                          *)

\* A directory operation: visible at once, durable only after an fsync.
ChangeDirectory(d) ==
    /\ dir' = d
    /\ views' = views \cup {d}

FsyncDirectory == views' = {dir}

\* The staged file becomes f, in every view that holds the same file.
UpdateStaged(f) ==
    /\ dir' = [dir EXCEPT !.stg = f]
    /\ views' = {IF v.stg = dir.stg THEN [v EXCEPT !.stg = f] ELSE v : v \in views}

FsyncStaged == UpdateStaged([dir.stg EXCEPT !.synced = TRUE])

FsyncCurrent ==
    LET f == [dir.cur EXCEPT !.synced = TRUE]
    IN  /\ dir' = [dir EXCEPT !.cur = f]
        /\ views' = {IF v.cur = dir.cur THEN [v EXCEPT !.cur = f] ELSE v : v \in views}

\* What a power loss leaves of a file: all of it once synced, otherwise some
\* beginning l of what was written.
Beginnings(len) ==
    CASE len = "whole" -> Lens [] len = "torn" -> {"torn", "empty"} [] len = "empty" -> {"empty"}

Survivors(f) ==
    IF f = None THEN {None}
    ELSE IF f.synced THEN {f}
    ELSE {[rec |-> f.rec, len |-> l, synced |-> TRUE] : l \in Beginnings(f.len)}

-----------------------------------------------------------------------------
(* OwnershipStore::open, Drop and load.                                    *)

\* A second opener gets Busy and changes nothing.
Open(p) ==
    /\ pc[p] = "closed"
    /\ lock = None
    /\ lock' = p
    /\ Goto(p, "open")
    /\ UNCHANGED <<dir, views, op, exp, nxt>>

\* The caller keeps the bytes it read: they may be stale when it opens again.
Close(p) ==
    /\ pc[p] = "open"
    /\ lock' = None
    /\ Begin(p, "closed")
    /\ op' = [op EXCEPT ![p] = "publish"]
    /\ nxt' = [nxt EXCEPT ![p] = None]
    /\ UNCHANGED <<dir, views, exp>>

\* A torn current or staged file makes load fail and the caller has nothing.
Load(p) ==
    /\ pc[p] = "open"
    /\ Bytes(dir.cur) # Torn
    /\ Bytes(dir.stg) # Torn
    /\ exp' = [exp EXCEPT ![p] = Bytes(dir.cur)]
    /\ res' = [res EXCEPT ![p] = "none"]
    /\ UNCHANGED <<dir, views, lock, pc, op, nxt>>

-----------------------------------------------------------------------------
(* synchronize: alone, and as the first part of publish and of             *)
(* remove_completed_cleanup.                                               *)

Synchronize(p) ==
    /\ pc[p] = "open"
    /\ exp[p] # None
    /\ op' = [op EXCEPT ![p] = "synchronize"]
    /\ Begin(p, "sync_current")
    /\ UNCHANGED <<dir, views, lock, exp, nxt>>

SyncCurrent(p) ==
    /\ pc[p] = "sync_current"
    /\ IF Bytes(dir.cur) # exp[p]
       THEN Return(p, "unchanged") /\ UNCHANGED <<dir, views>>
       ELSE FsyncCurrent /\ Goto(p, "sync_directory")
    /\ UNCHANGED <<lock, op, exp, nxt>>

SyncDirectory(p) ==
    /\ pc[p] = "sync_directory"
    /\ FsyncDirectory
    /\ CASE op[p] = "synchronize" -> Return(p, "ok")
         [] op[p] = "publish" -> Goto(p, "stage")
         [] op[p] = "remove" -> Goto(p, "unlink_current")
    /\ UNCHANGED <<dir, lock, op, exp, nxt>>

\* sync_all or the directory fsync fails before anything was published.
SyncFails(p) ==
    /\ pc[p] \in {"sync_current", "sync_directory", "sync_staged"}
    /\ Return(p, "unchanged")
    /\ UNCHANGED <<dir, views, lock, op, exp, nxt>>

-----------------------------------------------------------------------------
(* publish(expected, next).                                                *)

\* Mutant: the expected record is not synchronized first.
PublishWithoutSynchronize(p, next) ==
    /\ pc[p] = "open"
    /\ op' = [op EXCEPT ![p] = "publish"]
    /\ nxt' = [nxt EXCEPT ![p] = next]
    /\ IF ~Admits(exp[p], next) THEN Return(p, "unchanged") ELSE Begin(p, "stage")
    /\ UNCHANGED <<dir, views, lock, exp>>

Publish(p, next) ==
    /\ pc[p] = "open"
    /\ op' = [op EXCEPT ![p] = "publish"]
    /\ nxt' = [nxt EXCEPT ![p] = next]
    /\ IF ~Admits(exp[p], next) THEN Return(p, "unchanged")
       ELSE Begin(p, IF exp[p] = None THEN "stage" ELSE "sync_current")
    /\ UNCHANGED <<dir, views, lock, exp>>

\* Mutant: a staged file found in place is taken to be on disk already.
StageReuseUnsynced(p) ==
    /\ pc[p] = "stage"
    /\ Bytes(dir.cur) = exp[p]
    /\ Bytes(dir.stg) = nxt[p]
    /\ Goto(p, "rename")
    /\ UNCHANGED <<dir, views, lock, op, exp, nxt>>

\* A staged file with exactly these bytes is used again.
StageReuse(p) ==
    /\ pc[p] = "stage"
    /\ Bytes(dir.cur) = exp[p]
    /\ Bytes(dir.stg) = nxt[p]
    /\ Goto(p, "sync_staged")
    /\ UNCHANGED <<dir, views, lock, op, exp, nxt>>

StageCreate(p) ==
    /\ pc[p] = "stage"
    /\ Bytes(dir.cur) = exp[p]
    /\ dir.stg = None
    /\ ChangeDirectory([dir EXCEPT !.stg = [rec |-> nxt[p], len |-> "empty", synced |-> FALSE]])
    /\ Goto(p, "write")
    /\ UNCHANGED <<lock, op, exp, nxt>>

\* The record moved on, or the staged file holds anything else.
StageConflict(p) ==
    /\ pc[p] = "stage"
    /\ \/ Bytes(dir.cur) # exp[p]
       \/ dir.stg # None /\ Bytes(dir.stg) # nxt[p]
    /\ Return(p, "unchanged")
    /\ UNCHANGED <<dir, views, lock, op, exp, nxt>>

WritePart(p) ==
    /\ pc[p] = "write"
    /\ dir.stg.len = "empty"
    /\ UpdateStaged([dir.stg EXCEPT !.len = "torn"])
    /\ UNCHANGED <<lock, pc, op, exp, nxt, res>>

Write(p) ==
    /\ pc[p] = "write"
    /\ UpdateStaged([dir.stg EXCEPT !.len = "whole"])
    /\ Goto(p, "sync_staged")
    /\ UNCHANGED <<lock, op, exp, nxt>>

\* write_all fails; what was written stays in the staged file.
WriteFails(p) ==
    /\ pc[p] = "write"
    /\ Return(p, "unchanged")
    /\ UNCHANGED <<dir, views, lock, op, exp, nxt>>

SyncStaged(p) ==
    /\ pc[p] = "sync_staged"
    /\ FsyncStaged
    /\ Goto(p, "rename")
    /\ UNCHANGED <<lock, op, exp, nxt>>

Rename(p) ==
    /\ pc[p] = "rename"
    /\ ChangeDirectory([cur |-> dir.stg, stg |-> None])
    /\ \/ Goto(p, "commit")
       \/ Return(p, "uncertain")
    /\ UNCHANGED <<lock, op, exp, nxt>>

\* Mutant: publish returns after the rename, without the directory fsync.
CommitWithoutFsync(p) ==
    /\ pc[p] = "commit"
    /\ Return(p, "ok")
    /\ UNCHANGED <<dir, views, lock, op, exp, nxt>>

\* The last fsync of the directory, which ends publish and removal alike.
Commit(p) ==
    /\ pc[p] = "commit"
    /\ FsyncDirectory
    /\ Return(p, "ok")
    /\ UNCHANGED <<dir, lock, op, exp, nxt>>

\* A rename, unlink or last fsync that failed without any effect.
ChangeFails(p) ==
    /\ pc[p] \in {"rename", "unlink_current", "unlink_staged", "commit"}
    /\ Return(p, "uncertain")
    /\ UNCHANGED <<dir, views, lock, op, exp, nxt>>

-----------------------------------------------------------------------------
(* remove_completed_cleanup(expected).                                     *)

RemoveCompletedCleanup(p) ==
    /\ pc[p] = "open"
    /\ exp[p] # None
    /\ op' = [op EXCEPT ![p] = "remove"]
    /\ IF exp[p] \in Cleaned THEN Begin(p, "sync_current") ELSE Return(p, "unchanged")
    /\ UNCHANGED <<dir, views, lock, exp, nxt>>

\* Mutant: the staged file is not compared before the record is unlinked.
UnlinkCurrentUnchecked(p) ==
    /\ pc[p] = "unlink_current"
    /\ ChangeDirectory([dir EXCEPT !.cur = None])
    /\ Goto(p, IF dir.stg = None THEN "commit" ELSE "unlink_staged")
    /\ UNCHANGED <<lock, op, exp, nxt>>

UnlinkCurrent(p) ==
    /\ pc[p] = "unlink_current"
    /\ IF Bytes(dir.stg) \notin {None, exp[p]}
       THEN Return(p, "unchanged") /\ UNCHANGED <<dir, views>>
       ELSE /\ ChangeDirectory([dir EXCEPT !.cur = None])
            /\ \/ Goto(p, IF dir.stg = None THEN "commit" ELSE "unlink_staged")
               \/ Return(p, "uncertain")
    /\ UNCHANGED <<lock, op, exp, nxt>>

UnlinkStaged(p) ==
    /\ pc[p] = "unlink_staged"
    /\ ChangeDirectory([dir EXCEPT !.stg = None])
    /\ \/ Goto(p, "commit")
       \/ Return(p, "uncertain")
    /\ UNCHANGED <<lock, op, exp, nxt>>

-----------------------------------------------------------------------------
(* Failures.                                                               *)

\* The process dies: the kernel drops its flock, the files stay.
Kill(p) ==
    /\ pc[p] # "closed"
    /\ lock' = None
    /\ Begin(p, "closed")
    /\ exp' = [exp EXCEPT ![p] = None]
    /\ op' = [op EXCEPT ![p] = "publish"]
    /\ nxt' = [nxt EXCEPT ![p] = None]
    /\ UNCHANGED <<dir, views>>

\* The machine loses power: a directory the journal had, and of a file that
\* was never synced only what had reached the disk.
PowerLoss ==
    /\ \E v \in views : \E c \in Survivors(v.cur), s \in Survivors(v.stg) :
         dir' = [cur |-> c, stg |-> s]
    /\ views' = {dir'}
    /\ lock' = None
    /\ pc' = [p \in Procs |-> "closed"]
    /\ exp' = [p \in Procs |-> None]
    /\ res' = [p \in Procs |-> "none"]
    /\ op' = [p \in Procs |-> "publish"]
    /\ nxt' = [p \in Procs |-> None]

Step(p) ==
    \/ Open(p) \/ Close(p) \/ Load(p)
    \/ Synchronize(p) \/ SyncCurrent(p) \/ SyncDirectory(p) \/ SyncFails(p)
    \/ \E next \in Records : Publish(p, next)
    \/ StageReuse(p) \/ StageCreate(p) \/ StageConflict(p)
    \/ WritePart(p) \/ Write(p) \/ WriteFails(p)
    \/ SyncStaged(p) \/ Rename(p) \/ Commit(p) \/ ChangeFails(p)
    \/ RemoveCompletedCleanup(p) \/ UnlinkCurrent(p) \/ UnlinkStaged(p)
    \/ Kill(p)

Next == PowerLoss \/ \E p \in Procs : Step(p)

Spec == Init /\ [][Next]_vars

-----------------------------------------------------------------------------
(* Properties.                                                             *)

\* Whatever directory a power loss leaves, the installed record in it is a
\* whole, synced file: publish syncs the staged bytes, its own or ones it
\* found, before the rename gives them the installed name.
InstalledRecordIsWhole ==
    \A v \in views \cup {dir} :
        v.cur # None => v.cur.len = "whole" /\ v.cur.synced

\* The record a successful call reported.
Reported(p) ==
    CASE op[p] = "publish" -> nxt[p]
      [] op[p] = "synchronize" -> exp[p]
      [] op[p] = "remove" -> None

\* When publish, synchronize or remove_completed_cleanup returned Ok and the
\* caller has not yet called again, no power loss can take the reported
\* record away: the caller may perform the effect that relies on it.
AcknowledgedIsDurable ==
    \A p \in Procs : res[p] = "ok" => \A v \in views : Bytes(v.cur) = Reported(p)

\* A whole staged record beside the installed one, now or after a power loss,
\* is one that publish would admit on top of it, so an interrupted
\* publication can always be completed exactly; the one exception is the
\* identical copy that remove_completed_cleanup has yet to unlink.
StagedIsSuccessor ==
    \A v \in views \cup {dir} :
        Bytes(v.stg) \in Records =>
            \/ Admits(Bytes(v.cur), Bytes(v.stg))
            \/ v.cur = None /\ Bytes(v.stg) \in Cleaned

\* The store implements the single register of AtomicAuthority: a stale or
\* conflicting caller never overwrites a record it did not expect, records
\* only move along permitted successors, and a power loss undoes at most the
\* publications since the last settled record.
Authority == INSTANCE AtomicAuthority WITH
    current <- Bytes(dir.cur),
    exposed <- {Bytes(v.cur) : v \in views}

ImplementsAuthority == Authority!Spec

-----------------------------------------------------------------------------
(* The inductive strengthening: what holds at each step of a call.         *)

OneCaller == \A p \in Procs : pc[p] # "closed" => lock = p

\* Every directory a power loss can leave shows the record p expected.
Settled(p) == \A v \in views : Bytes(v.cur) = exp[p]

\* What publish has established once it has passed each of its checks.
PublishSteps(p) ==
    /\ pc[p] \in {"stage", "write", "sync_staged", "rename"} =>
          /\ op[p] = "publish"
          /\ exp[p] # None => Settled(p)
    /\ pc[p] \in {"sync_current", "sync_directory", "stage", "write", "sync_staged", "rename"}
          /\ op[p] = "publish" => nxt[p] \in Records /\ Admits(exp[p], nxt[p])
    /\ pc[p] \in {"write", "sync_staged", "rename"} =>
          dir.stg # None /\ dir.stg.rec = nxt[p] /\ Bytes(dir.cur) = exp[p]
    /\ pc[p] \in {"sync_staged", "rename"} => dir.stg.len = "whole"
    /\ pc[p] = "rename" => dir.stg.synced

RemoveSteps(p) ==
    /\ pc[p] \in {"unlink_current", "unlink_staged"} => op[p] = "remove"
    /\ pc[p] \in {"sync_current", "sync_directory", "unlink_current"} /\ op[p] = "remove" =>
          exp[p] \in Cleaned
    /\ pc[p] = "unlink_current" => Settled(p)
    /\ pc[p] = "unlink_staged" => dir.cur = None

OtherSteps(p) ==
    /\ pc[p] \in {"sync_current", "sync_directory"} => exp[p] # None
    /\ pc[p] = "sync_directory" => Bytes(dir.cur) = exp[p]
    /\ pc[p] = "commit" => Bytes(dir.cur) = Reported(p)
    /\ res[p] = "ok" => pc[p] = "open" /\ \A v \in views : Bytes(v.cur) = Reported(p)

StoreInv ==
    /\ TypeOK
    /\ OneCaller
    /\ dir \in views
    /\ InstalledRecordIsWhole
    /\ \A p \in Procs : PublishSteps(p) /\ RemoveSteps(p) /\ OtherSteps(p)

\* The staged file was created for an admitted successor, however much of it
\* has been written; removal leaves at most the record it removed.
StagedFor(v) ==
    v.stg # None =>
        \/ Admits(Bytes(v.cur), v.stg.rec)
        \/ v.cur = None /\ v.stg.rec \in Cleaned

StagedInv == StoreInv /\ \A v \in views : StagedFor(v)
=============================================================================
