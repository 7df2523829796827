--------------------------- MODULE OwnerInterface ---------------------------
(***************************************************************************)
(* The Owner's menu and the exclusion behind it:                           *)
(* src/src/proxyinstallation/owner.rs over src/src/host/owner.rs, driven   *)
(* by src/src/terminal.rs, with Software Lifecycle's recovery              *)
(* (src/src/software_lifecycle.rs) and the admission of the process        *)
(* (src/src/host/admission.rs).                                            *)
(*                                                                         *)
(* Several terminals, each a process of its own, work on one host.  A      *)
(* terminal asks every journey the record allows what it offers, shows     *)
(* that menu, reviews the action the Owner chooses, asks for a             *)
(* confirmation and executes.  Two locks keep terminals apart, both taken  *)
(* without a wait: the host's, held while an action executes, and the      *)
(* ownership store's, which the Standard, HTTP and removal journeys hold   *)
(* from the moment they are opened, the Owner's answer included.           *)
(*                                                                         *)
(* What a journey does to the host is in the module of that journey; here  *)
(* it publishes the records of its recovery directions one by one.  What   *)
(* the journeys observe of the host holds, and records name one release.   *)
(***************************************************************************)
EXTENDS Naturals, Sequences, Functions

CONSTANTS
    None,
    Terminals,  \* Owner processes
    MaxGen,     \* bound on the changes that are begun
    MaxImages   \* bound on restorations of the executable

VARIABLES
    rec,     \* the Ownership Record or the finalization authority
    exe,     \* the executable is installed
    inst,    \* the Installed Record is there
    image,   \* which executable it is: a restored one is a new file
    lock,    \* who holds the host's lock, or None
    writer,  \* who holds the ownership store, or None
    pc,      \* where a terminal is
    proof,   \* the executable its process was admitted with
    goal,    \* the action it reviews or executes
    menu,    \* the actions it shows
    route,   \* the journey that has the chosen action, or None
    basis,   \* what the prepared action or recovery was reviewed on, or None
    made     \* changes begun so far

host == <<rec, exe, inst, image>>
locks == <<lock, writer>>
vars == <<host, locks, pc, proof, goal, menu, route, basis, made>>

-----------------------------------------------------------------------------
(* The record.  id stands for its content, was for the content a pending   *)
(* change goes back to.                                                    *)

Pending == {"cleanup", "finish", "http", "identity", "removal", "finalizer"}
Removing == {"removal", "finalizer"}

Bare(k) == [kind |-> k, tunnel |-> FALSE, id |-> 0, was |-> 0]

Records ==
    {Bare(k) : k \in {"none", "https"} \cup Removing}
    \cup [kind : {"cleanup", "finish", "running"}, tunnel : BOOLEAN, id : 0..MaxGen, was : {0}]
    \cup [kind : {"http", "identity"}, tunnel : BOOLEAN, id : 1..MaxGen, was : 0..MaxGen]

\* What a review may have found.
Reviews == [rec : Records, exe : BOOLEAN, inst : BOOLEAN, image : 0..MaxImages]

ASSUME OwnerAssumption ==
    /\ {MaxGen, MaxImages} \subseteq Nat
    /\ None \notin Terminals \cup Reviews

\* The action that ends what a record has pending.
Finishing(k) ==
    CASE k = "cleanup" -> "FinishCleanup"
      [] k = "finish" -> "FinishSetup"
      [] k = "http" -> "FinishSubscriptionChange"
      [] k = "identity" -> "FinishClientIdentityRotation"
      [] k \in Removing -> "FinishRemoval"

\* The direction an action commits the record to.  ChangeSubscription stands
\* for Enable, Rotate link and Repair.
Begins == [StartSetup |-> "cleanup", ChangeSubscription |-> "http",
           RotateClientIdentity |-> "identity", CompleteRemoval |-> "removal"]

Snapshot == [rec |-> rec, exe |-> exe, inst |-> inst, image |-> image]

-----------------------------------------------------------------------------
(* What is offered.                                                        *)

Journeys == {"Standard", "Tunnel", "Http", "Identity", "Disclosure", "Removal"}

\* Journey::accepts.
Accepts(j) ==
    CASE j = "Standard" -> {"StartSetup", "FinishCleanup", "FinishSetup"}
      [] j = "Tunnel" -> {"StartSetup", "FinishCleanup", "FinishSetup", "CheckVmessTunnel"}
      [] j = "Http" -> {"ChangeSubscription", "FinishSubscriptionChange"}
      [] j = "Identity" -> {"RotateClientIdentity", "FinishClientIdentityRotation"}
      [] j = "Disclosure" -> {"ShowClientConfiguration", "MarkSubscriptionCompromised"}
      [] j = "Removal" -> {"CompleteRemoval", "FinishRemoval"}

Actions == UNION {Accepts(j) : j \in Journeys}

\* NativeOwnerSources::journeys, once the process is admitted.
Allowed(r) ==
    CASE r.kind \in Removing -> <<"Removal">>
      [] r.kind = "none" -> <<"Standard", "Tunnel", "Removal">>
      [] r.kind \in {"cleanup", "finish"} ->
            <<IF r.tunnel THEN "Tunnel" ELSE "Standard", "Removal">>
      [] r.kind = "https" -> <<"Disclosure">>
      [] r.kind = "identity" -> <<"Identity", "Removal">>
      [] r.kind = "http" -> <<"Http", "Disclosure", "Removal">>
      [] r.kind = "running" ->
            (IF r.tunnel THEN <<"Tunnel">> ELSE <<>>)
                \o <<"Http", "Identity", "Disclosure", "Removal">>

\* What the review of a journey finds legal.
Legal(j, r) ==
    {a \in Accepts(j) :
        \/ r.kind \in Pending /\ a = Finishing(r.kind)
        \/ a \in DOMAIN Begins /\ CASE j \in {"Standard", "Tunnel"} -> r.kind = "none"
                                    [] j \in {"Http", "Identity"} -> r.kind = "running"
                                    [] j = "Removal" -> r.kind \notin Removing
        \/ a = "ShowClientConfiguration" /\ r.kind \in {"running", "https"}
        \/ a \in {"CheckVmessTunnel", "MarkSubscriptionCompromised"} /\ r.kind = "running"}

\* Journeys that hold the ownership store while they are open; the others take
\* it, after the host's lock, for each of their operations.
Retaining == {"Standard", "Http", "Removal"}

\* Admission: the executable and the Installed Record are the ones this
\* process was admitted with.
Verified(t) == exe /\ inst /\ proof[t] = image

\* What journeys answers t: nothing while a change holds the host's lock.
Answer(t) == IF Verified(t) /\ lock = None THEN Allowed(rec) ELSE <<>>

\* Another terminal may be in the middle of a review, and then holds the store,
\* or the host's lock for a probe, for that moment.
Reading(t) == \E u \in Terminals \ {t} : pc[u] \in {"frame", "select", "open", "review"}

-----------------------------------------------------------------------------
(* The terminal.                                                           *)

\* The exclusion of t is gone: its guards are dropped.
Released(t) ==
    /\ lock' = IF lock = t THEN None ELSE lock
    /\ writer' = IF writer = t THEN None ELSE writer

\* A process at p with nothing reviewed.
Afresh(t, p) ==
    /\ pc' = [pc EXCEPT ![t] = p]
    /\ goal' = [goal EXCEPT ![t] = "Status"]
    /\ menu' = [menu EXCEPT ![t] = {}]
    /\ route' = [route EXCEPT ![t] = None]
    /\ basis' = [basis EXCEPT ![t] = None]

\* The process is gone, and its locks with it.
Gone(t) == Released(t) /\ Afresh(t, "gone") /\ UNCHANGED <<host, proof, made>>

\* Back to a new frame.  It begins with a review, which drops the earlier one
\* and the journey that is still open for it.
Refused(t) == Released(t) /\ Afresh(t, "frame") /\ UNCHANGED <<host, proof, made>>

Steps(t, p) == pc' = [pc EXCEPT ![t] = p] /\ UNCHANGED <<host, proof, made>>

\* A frame: every allowed journey is opened and asked what is legal, unless the
\* store is taken; nothing but details is shown unless the software is Ready.
Frame(t) ==
    /\ pc[t] = "frame"
    /\ Steps(t, "menu")
    /\ menu' = [menu EXCEPT ![t] =
          IF writer = None THEN UNION {Legal(j, rec) : j \in Range(Answer(t))} ELSE {}]
    /\ UNCHANGED <<locks, goal, route, basis>>

\* The Owner chooses from what is shown.
Choose(t, a) ==
    /\ pc[t] = "menu" /\ a \in menu[t]
    /\ Steps(t, "select")
    /\ goal' = [goal EXCEPT ![t] = a]
    /\ menu' = [menu EXCEPT ![t] = {}]
    /\ UNCHANGED <<locks, route, basis>>

\* View details, Check or a wrong number: a new frame.
Again(t) == pc[t] = "menu" /\ Refused(t)

\* 0, the end of the input, or a finisher that cannot be executed.
Exit(t) == pc[t] \in {"menu", "ask", "recover", "finisher"} /\ Gone(t)

\* The Owner runs the installed program again.
Start(t) ==
    /\ pc[t] = "gone" /\ exe /\ inst
    /\ proof' = [proof EXCEPT ![t] = image]
    /\ Afresh(t, "frame")
    /\ UNCHANGED <<host, locks, made>>

-----------------------------------------------------------------------------
(* The review of the chosen action.                                        *)

\* The choice is looked for from the start, and the first journey that offers
\* it has it.
Select(t) ==
    LET offers == {i \in 1..Len(Answer(t)) : goal[t] \in Legal(Answer(t)[i], rec)} IN
    /\ pc[t] = "select"
    /\ IF offers # {} /\ writer = None
       THEN /\ route' = [route EXCEPT ![t] = Answer(t)[CHOOSE i \in offers : \A k \in offers : i <= k]]
            /\ Steps(t, "open")
            /\ UNCHANGED <<locks, goal, menu, basis>>
       ELSE Refused(t)

\* The Owner prefers a tunnel: with its hostname it goes to its own journey.
SelectTunnel(t) ==
    /\ pc[t] = "select" /\ goal[t] = "StartSetup"
    /\ "Tunnel" \in Range(Answer(t))
    /\ route' = [route EXCEPT ![t] = "Tunnel"]
    /\ Steps(t, "open")
    /\ UNCHANGED <<locks, goal, menu, basis>>

\* Mutant: the journey is opened and its store is left to others.
OpenShared(t) ==
    /\ pc[t] = "open"
    /\ route[t] \in Range(Answer(t)) /\ writer = None
    /\ Steps(t, "review")
    /\ UNCHANGED <<locks, goal, menu, route, basis>>

\* The journey is opened once more, with its store.
Open(t) ==
    /\ pc[t] = "open"
    /\ route[t] \in Range(Answer(t)) /\ writer = None
    /\ writer' = IF route[t] \in Retaining THEN t ELSE None
    /\ Steps(t, "review")
    /\ UNCHANGED <<lock, goal, menu, route, basis>>

NotOpened(t) ==
    /\ pc[t] = "open"
    /\ route[t] \notin Range(Answer(t)) \/ writer # None \/ Reading(t)
    /\ Refused(t)

\* The journey can be asked: its store is open, or both locks can be had.
Asked(t) == route[t] \in Retaining \/ (lock = None /\ writer = None)

\* The journey prepares the action on what it finds now.
Review(t) ==
    /\ pc[t] = "review"
    /\ Verified(t) /\ Asked(t) /\ goal[t] \in Legal(route[t], rec)
    /\ basis' = [basis EXCEPT ![t] = Snapshot]
    /\ Steps(t, "ask")
    /\ UNCHANGED <<locks, goal, menu, route>>

NotReviewed(t) ==
    /\ pc[t] = "review"
    /\ \/ ~Verified(t) \/ ~Asked(t) \/ goal[t] \notin Legal(route[t], rec)
       \/ route[t] \notin Retaining /\ Reading(t)
    /\ Refused(t)

Decline(t) == pc[t] = "ask" /\ Refused(t)

\* Approved: BoundJourney verifies the process, Standard and HTTP look at the
\* record, and the exclusion is still to be taken.
Approve(t) ==
    /\ pc[t] = "ask"
    /\ IF Verified(t) /\ (route[t] \in {"Standard", "Http"} => rec = basis[t].rec)
       THEN Steps(t, "acquire") /\ UNCHANGED <<locks, goal, menu, route, basis>>
       ELSE Refused(t)

-----------------------------------------------------------------------------
(* Execution.                                                              *)

\* Both locks, without a wait.
Acquire(t) ==
    /\ pc[t] = "acquire"
    /\ lock = None /\ writer \in {None, t}
    /\ lock' = t /\ writer' = t
    /\ Steps(t, "compare")
    /\ UNCHANGED <<goal, menu, route, basis>>

Busy(t) ==
    /\ pc[t] = "acquire"
    /\ lock # None \/ writer \notin {None, t} \/ Reading(t)
    /\ Refused(t)

\* Mutant: the process was verified before the lock was taken.
UnchangedRecord(t) == rec = basis[t].rec

\* Mutant: the process is verified, the record was looked at before.
UnchangedProcess(t) == Verified(t) /\ goal[t] \in Legal(route[t], rec)

\* Under exclusion: the process is still the installed one and the record the
\* reviewed one.  The store's directory goes with the Installed Record.
Unchanged(t) == Verified(t) /\ rec = basis[t].rec

\* Mutant: the refusal under exclusion forgets its end.
CompareKeepsLock(t) ==
    /\ pc[t] = "compare"
    /\ IF Unchanged(t)
       THEN Steps(t, "run") /\ UNCHANGED <<locks, goal, menu, route, basis>>
       ELSE Afresh(t, "frame") /\ UNCHANGED <<host, locks, proof, made>>

Compare(t) ==
    /\ pc[t] = "compare"
    /\ IF Unchanged(t)
       THEN Steps(t, "run") /\ UNCHANGED <<locks, goal, menu, route, basis>>
       ELSE Refused(t)

\* A publication: from here on the terminal knows this record.
Publishes(t, r, a) ==
    /\ pc[t] = "run"
    /\ rec' = r
    /\ basis' = [basis EXCEPT ![t].rec = r]
    /\ goal' = [goal EXCEPT ![t] = a]
    /\ UNCHANGED <<exe, inst, image, locks, pc, proof, menu, route>>

\* The action commits the record to its direction.
Begin(t) ==
    /\ goal[t] \in DOMAIN Begins
    /\ ~(goal[t] = "StartSetup" /\ rec.kind = "cleanup")
    /\ IF goal[t] = "CompleteRemoval"
       THEN /\ Publishes(t, Bare("removal"), "FinishRemoval")
            /\ UNCHANGED made
       ELSE /\ made < MaxGen
            /\ made' = made + 1
            /\ LET k == Begins[goal[t]] IN
               Publishes(t, [kind |-> k, id |-> made + 1,
                             tunnel |-> rec.tunnel \/ route[t] = "Tunnel",
                             was |-> IF k = "cleanup" THEN 0 ELSE rec.id],
                         IF k = "cleanup" THEN "StartSetup" ELSE Finishing(k))

\* Setup goes past its commit, or an effect fails and it cleans up.
Commit(t) ==
    /\ goal[t] = "StartSetup" /\ rec.kind = "cleanup"
    /\ \/ Publishes(t, [rec EXCEPT !.kind = "finish"], "FinishSetup")
       \/ Publishes(t, rec, "FinishCleanup")
    /\ UNCHANGED made

\* Mutant: the ended change leaves what it would go back to.
FinishKeepsSource(t) ==
    /\ goal[t] \in {"FinishSubscriptionChange", "FinishClientIdentityRotation"}
    /\ Publishes(t, [rec EXCEPT !.kind = "running"], "Done")
    /\ UNCHANGED made

\* A pending change ends: forward, or back to the content it began with.
Finish(t) ==
    /\ \/ goal[t] = "FinishCleanup" /\ Publishes(t, Bare("none"), "Done")
       \/ goal[t] = "FinishSetup" /\ Publishes(t, [rec EXCEPT !.kind = "running"], "Done")
       \/ /\ goal[t] \in {"FinishSubscriptionChange", "FinishClientIdentityRotation"}
          /\ \E i \in {rec.id, rec.was} :
                Publishes(t, [rec EXCEPT !.kind = "running", !.id = i, !.was = 0], "Done")
    /\ UNCHANGED made

\* The mark of a compromised link.
Mark(t) ==
    /\ goal[t] = "MarkSubscriptionCompromised" /\ made < MaxGen
    /\ made' = made + 1
    /\ Publishes(t, [rec EXCEPT !.id = made + 1], "Done")

\* Mutant: the Installed Record goes first.
RemovePairRecordFirst(t) ==
    /\ pc[t] = "run" /\ goal[t] = "FinishRemoval" /\ (exe \/ inst)
    /\ inst' = FALSE
    /\ exe' = (exe /\ inst)
    /\ UNCHANGED <<rec, image, locks, pc, proof, goal, menu, route, basis, made>>

\* Removal takes the executable, then the Installed Record,
RemovePair(t) ==
    /\ pc[t] = "run" /\ goal[t] = "FinishRemoval" /\ (exe \/ inst)
    /\ exe' = FALSE
    /\ inst' = (exe /\ inst)
    /\ UNCHANGED <<rec, image, locks, pc, proof, goal, menu, route, basis, made>>

\* then moves the record out of its directory, and ends with that.
RemoveRecord(t) ==
    /\ goal[t] = "FinishRemoval" /\ ~exe /\ ~inst
    /\ IF rec.kind = "removal"
       THEN Publishes(t, Bare("finalizer"), "FinishRemoval")
       ELSE Publishes(t, Bare("none"), "Removed")
    /\ UNCHANGED made

\* The action ends; a completed removal ends the program too.
End(t) ==
    /\ pc[t] = "run"
    /\ goal[t] \in {"Done", "Removed", "CheckVmessTunnel"}
    /\ IF goal[t] = "Removed" THEN Gone(t) ELSE Refused(t)

\* The client configuration is written to the terminal under both locks.
Showing(t) == pc[t] = "run" /\ goal[t] = "ShowClientConfiguration"

\* The terminal takes it, or the last look at the record refuses; output that
\* fails, and a cancellation, end the program.
Show(t) == Showing(t) /\ (Refused(t) \/ Gone(t))

\* An effect or a publication fails: the action ends where it is.
Fail(t) == pc[t] \in {"run", "restore"} /\ ~Showing(t) /\ Refused(t)

-----------------------------------------------------------------------------
(* Software Lifecycle.                                                     *)

\* LifecycleHost::inspect: a committed removal whose finisher is lost.
Restorable == lock = None /\ rec.kind \in Removing /\ ~exe

\* Recover, reviewed on exactly what is there.
ReviewRecover(t) ==
    /\ pc[t] = "menu" /\ Restorable
    /\ basis' = [basis EXCEPT ![t] = Snapshot]
    /\ menu' = [menu EXCEPT ![t] = {}]
    /\ Steps(t, "recover")
    /\ UNCHANGED <<locks, goal, route>>

\* Approved, and after the exact release is downloaded once more: nothing has
\* changed since the review.
Recover(t) ==
    /\ pc[t] \in {"recover", "download"}
    /\ IF Restorable /\ Snapshot = basis[t]
       THEN /\ Steps(t, IF pc[t] = "recover" THEN "download" ELSE "reopen")
            /\ UNCHANGED <<locks, goal, menu, route, basis>>
       ELSE Refused(t)

\* Declined, or the release cannot be had.
NotRecovered(t) == pc[t] \in {"recover", "download"} /\ Refused(t)

\* Mutant: the authority is not compared under the lock.
ReopenUnchecked(t) ==
    /\ pc[t] = "reopen"
    /\ lock = None /\ writer = None
    /\ lock' = t /\ writer' = t
    /\ Steps(t, "restore")
    /\ UNCHANGED <<goal, menu, route, basis>>

\* RestorationHost::open: both locks, and the reviewed authority under them.
Reopen(t) ==
    /\ pc[t] = "reopen"
    /\ IF lock = None /\ writer = None /\ rec = basis[t].rec
       THEN /\ lock' = t /\ writer' = t
            /\ Steps(t, "restore")
            /\ UNCHANGED <<goal, menu, route, basis>>
       ELSE Refused(t)

\* The Installed Record comes back, then the executable, as a new file.
Restore(t) ==
    /\ pc[t] = "restore"
    /\ inst /\ ~exe => image < MaxImages
    /\ inst' = TRUE
    /\ exe' = inst
    /\ image' = IF inst /\ ~exe THEN image + 1 ELSE image
    /\ pc' = [pc EXCEPT ![t] = IF inst THEN "finisher" ELSE @]
    /\ UNCHANGED <<rec, locks, proof, goal, menu, route, basis, made>>

\* The process gives back its locks and becomes the restored program.
TakeOver(t) ==
    /\ pc[t] = "finisher"
    /\ Released(t)
    /\ proof' = [proof EXCEPT ![t] = image]
    /\ Afresh(t, "frame")
    /\ UNCHANGED <<host, made>>

-----------------------------------------------------------------------------

\* A process is killed anywhere.
Kill(t) == pc[t] # "gone" /\ Gone(t)

\* What a process does by itself while it holds the host's lock.
Work(t) ==
    \/ Compare(t) \/ Begin(t) \/ Commit(t) \/ Finish(t) \/ Mark(t)
    \/ RemovePair(t) \/ RemoveRecord(t) \/ End(t) \/ Fail(t)
    \/ Restore(t) \/ TakeOver(t)

Init ==
    /\ rec \in {Bare("none"), Bare("https")}
           \cup [kind : {"running"}, tunnel : BOOLEAN, id : {0}, was : {0}]
    /\ exe = TRUE /\ inst = TRUE
    /\ image = 0
    /\ lock = None /\ writer = None
    /\ pc = [t \in Terminals |-> "gone"]
    /\ proof = [t \in Terminals |-> 0]
    /\ goal = [t \in Terminals |-> "Status"]
    /\ menu = [t \in Terminals |-> {}]
    /\ route = [t \in Terminals |-> None]
    /\ basis = [t \in Terminals |-> None]
    /\ made = 0

Next ==
    \E t \in Terminals :
        \/ Start(t) \/ Frame(t) \/ Select(t) \/ SelectTunnel(t)
        \/ \E a \in Actions : Choose(t, a)
        \/ Again(t) \/ Exit(t)
        \/ Open(t) \/ NotOpened(t) \/ Review(t) \/ NotReviewed(t)
        \/ Decline(t) \/ Approve(t) \/ Acquire(t) \/ Busy(t)
        \/ ReviewRecover(t) \/ Recover(t) \/ NotRecovered(t) \/ Reopen(t)
        \/ Work(t) \/ Show(t) \/ Kill(t)

\* A process that holds the lock works on: the Owner was asked before, and every
\* command it runs has a deadline.  Only the client configuration waits for the
\* terminal to take it, without a deadline: nothing is assumed of Show.
Fairness == \A t \in Terminals : WF_vars(Work(t))

Spec == Init /\ [][Next]_vars /\ Fairness

-----------------------------------------------------------------------------

\* Every variable has its type, and the record is one the code can validate:
\* what a change goes back to is there while it is pending and only then.
TypeOK ==
    /\ rec \in Records
    /\ {exe, inst} \subseteq BOOLEAN
    /\ image \in 0..MaxImages
    /\ {lock, writer} \subseteq Terminals \cup {None}
    /\ pc \in [Terminals -> {"gone", "frame", "menu", "select", "open", "review", "ask", "acquire",
                            "compare", "run", "recover", "download", "reopen", "restore",
                            "finisher"}]
    /\ proof \in [Terminals -> 0..MaxImages]
    /\ goal \in [Terminals -> Actions \cup {"Status", "Done", "Removed"}]
    /\ menu \in [Terminals -> SUBSET Actions]
    /\ route \in [Terminals -> Journeys \cup {None}]
    /\ basis \in [Terminals -> Reviews \cup {None}]
    /\ made \in 0..MaxGen

\* A record other than one that removes has the program that can finish it: no
\* setup that was reviewed before a removal publishes after it, although the
\* absent record it compares is what it reviewed.
NoOrphanRecord == rec.kind \notin Removing \cup {"none"} => exe /\ inst

\* Whenever nobody is at work a pending change can be ended: the menu of a new
\* terminal has the action that ends it, or the program is lost to a committed
\* removal and can be restored.
NoDeadEnd ==
    (lock = None /\ rec.kind \in Pending) =>
        IF exe /\ inst
        THEN \E i \in 1..Len(Allowed(rec)) : Finishing(rec.kind) \in Legal(Allowed(rec)[i], rec)
        ELSE Restorable

\* While a Standard, HTTP or removal action waits for the Owner's answer, what
\* it was reviewed on stays as it is.
ReviewHolds ==
    \A t \in Terminals :
        (pc[t] \in {"ask", "acquire", "compare"} /\ route[t] \in Retaining) => basis[t].rec = rec

\* A record is only replaced by the terminal that holds the host's lock, and
\* only if that terminal reviewed or published exactly the replaced one.
NoLostUpdate ==
    [][rec' # rec => \E t \in Terminals : lock = t /\ basis[t] # None /\ basis[t].rec = rec]_vars

\* After a complete removal nothing comes back: no terminal that reviewed
\* setup or recovery before it brings a record or a program.
RemovedStaysRemoved ==
    [][(rec.kind = "none" /\ ~exe /\ ~inst) => UNCHANGED host]_vars

\* Whoever holds the host's lock gives it back, whatever fails and whatever the
\* Owner does, unless its terminal never takes the client configuration that is
\* written under the lock.
LockEnds == \A t \in Terminals : (lock = t ~> lock # t) \/ <>[]Showing(t)

\* Whatever is pending or installed can still be finished or removed.
AlwaysFinishable == TypeOK /\ NoOrphanRecord /\ NoDeadEnd

\* The host changes only as reviewed: no terminal replaces a record it did not
\* see, and none brings back what another has removed.
ChangesAreReviewed == NoLostUpdate /\ RemovedStaysRemoved

-----------------------------------------------------------------------------
(* The inductive strengthening.                                            *)

\* The kinds of record an action may be at work on.
Fits(a, k) ==
    /\ a = "StartSetup" => k \in {"none", "cleanup"}
    /\ a \in {"ChangeSubscription", "RotateClientIdentity", "MarkSubscriptionCompromised"} => k = "running"
    /\ a = "FinishCleanup" => k = "cleanup"
    /\ a = "FinishSetup" => k = "finish"
    /\ a = "FinishSubscriptionChange" => k = "http"
    /\ a = "FinishClientIdentityRotation" => k = "identity"
    /\ a = "FinishRemoval" => k \in Removing

\* Only a removal leaves the host without the program, the executable first.
ProgramInv == NoOrphanRecord /\ (exe => inst)

\* A terminal that changes the host has both locks, and one that reviewed with
\* the store open still has it.
Excluded(t) ==
    /\ pc[t] \in {"compare", "run", "restore", "finisher"} => lock = t /\ writer = t
    /\ pc[t] \in {"review", "ask", "acquire"} /\ route[t] \in Retaining => writer = t

\* What a terminal has prepared fits the record it was reviewed on, and once
\* the terminal changes the host that record is the installed one.
PreparedFor(t) ==
    /\ pc[t] = "review" => route[t] \in Journeys
    /\ pc[t] \in {"ask", "acquire", "compare", "run", "recover", "download", "reopen", "restore"} =>
          basis[t] # None
    /\ pc[t] \in {"ask", "acquire", "compare", "run"} => Fits(goal[t], basis[t].rec.kind)
    /\ pc[t] \in {"recover", "download", "reopen", "restore"} => basis[t].rec.kind \in Removing
    /\ pc[t] \in {"run", "restore"} => basis[t].rec = rec
    /\ pc[t] \in {"ask", "acquire", "compare"} /\ route[t] \in Retaining => basis[t].rec = rec
    /\ pc[t] = "run" /\ goal[t] \notin {"FinishRemoval", "Removed"} => exe /\ inst

OwnerInv == TypeOK /\ ProgramInv /\ \A t \in Terminals : Excluded(t) /\ PreparedFor(t)
=============================================================================
