------------------------ MODULE SubscriptionServing ------------------------
(***************************************************************************)
(* The Subscription Serving process once it is ready:                      *)
(* src/src/subscription_serving.rs under the scope of serve in             *)
(* src/src/runtime_handoff.rs, with the address watch of                   *)
(* src/src/host/runtime/serving.rs and the signals of shutdown.rs.         *)
(*                                                                         *)
(* One thread accepts connections, one worker thread answers each, one     *)
(* watches the public address and one waits for signals.  They meet in the *)
(* Cancellation, which knows the sockets it has to shut down, and in the   *)
(* handles of the workers.  What the limiter of sources allows is module   *)
(* SourceLimiter; here it says yes or no.                                  *)
(*                                                                         *)
(* What a request asks for and which status it is answered with is left    *)
(* out: every answer, 200 and refusal, is a head and a body and is written *)
(* the same way.  A connection that ended gives its place to a new one, so *)
(* there is no bound on how many there are.                                *)
(***************************************************************************)
EXTENDS Naturals, FiniteSets

CONSTANTS
    None,
    Clients,      \* connections there are at the same time
    MaxWorkers,   \* MAX_WORKERS
    MaxFaults     \* bound on failing calls, panics and address failures

ASSUME ServingAssumption ==
    /\ None \notin Clients
    /\ MaxWorkers \in Nat \ {0} /\ MaxFaults \in Nat

VARIABLES
    listener,     \* the listener is open
    conn,         \* a connection: none, queued or accepted
    shut,         \* sockets that are shut down in both directions
    cancelled,    \* StopState.cancelled
    sockets,      \* StopState.sockets
    apc, cur, overloaded,   \* the accepting thread, its connection, its judgement of it
    workers,      \* the handles it has
    wpc,          \* where a worker is
    panicked,     \* workers that end by a panic
    parts,        \* of an answer's head and body, how many are written
    watch,        \* the watching thread
    publicFailed, \* public_failed
    asked,        \* a signal came
    result,       \* the code of accept, then of serve
    faults

socket == <<conn, shut>>
stop == <<cancelled, sockets>>
loop == <<listener, cur, overloaded>>
accepting == <<loop, apc, workers, result>>
working == <<wpc, panicked, parts>>
watching == <<watch, publicFailed, asked>>
vars == <<socket, stop, accepting, working, watching, faults>>

\* Worker threads that have not finished.
Live == {c \in Clients : wpc[c] \notin {"none", "finished"}}

-----------------------------------------------------------------------------
(* Cancellation.                                                           *)

\* cancel, under the lock: the flag, and every registered socket.
Cancel == cancelled' = TRUE /\ shut' = shut \cup sockets

\* The socket of c is closed.
Ends(c) == conn' = [conn EXCEPT ![c] = "none"] /\ shut' = shut \ {c}

\* Mutant: the registration stays.
DisconnectsRegistered(c) ==
    /\ Ends(c) /\ UNCHANGED sockets
    /\ parts' = [parts EXCEPT ![c] = 0]

\* Connection::drop: it is shut down and no longer registered.
Disconnects(c) ==
    /\ Ends(c) /\ sockets' = sockets \ {c}
    /\ parts' = [parts EXCEPT ![c] = 0]

-----------------------------------------------------------------------------
(* The accepting thread, Module::accept.                                   *)

\* The variables of a round are gone with it.
RoundEnds(pc) == apc' = pc /\ cur' = None /\ overloaded' = FALSE

Returns(code) == result' = code /\ RoundEnds("close")

\* join_finished: every handle of a finished worker; a panic fails the service.
JoinFinished(ok, failed) ==
    /\ workers' = workers \cap Live
    /\ wpc' = [c \in Clients |-> IF c \in Live THEN wpc[c] ELSE "none"]
    /\ panicked' = panicked \cap Live
    /\ IF panicked \subseteq Live THEN ok ELSE failed

\* Mutant: the flag is left to the registration of a connection.
AcceptLoopUnstopped ==
    /\ apc = "loop"
    /\ JoinFinished(RoundEnds("accept") /\ UNCHANGED result, Returns("Failed"))
    /\ UNCHANGED <<socket, stop, listener, parts, watching, faults>>

\* The head of the loop.
AcceptLoop ==
    /\ apc = "loop"
    /\ IF cancelled
       THEN Returns("Stopped") /\ UNCHANGED <<workers, wpc, panicked>>
       ELSE JoinFinished(RoundEnds("accept") /\ UNCHANGED result, Returns("Failed"))
    /\ UNCHANGED <<socket, stop, listener, parts, watching, faults>>

\* A connection waits, or the loop goes round after ten milliseconds.
Accept ==
    /\ apc = "accept"
    /\ \/ \E c \in Clients :
            /\ conn[c] = "queued"
            /\ conn' = [conn EXCEPT ![c] = "taken"] /\ cur' = c
            /\ apc' = "taken"
       \/ /\ \A c \in Clients : conn[c] # "queued"
          /\ apc' = "loop" /\ UNCHANGED <<conn, cur>>
    /\ UNCHANGED <<shut, stop, listener, overloaded, workers, result, working, watching, faults>>

AcceptFails ==
    /\ apc = "accept" /\ faults < MaxFaults
    /\ Returns("Failed") /\ faults' = faults + 1
    /\ UNCHANGED <<socket, stop, listener, workers, working, watching>>

\* Mutant: one more than there is room for.
FullPlusOne(n) == n > MaxWorkers

Full(n) == n >= MaxWorkers

\* The handles again; a full house is answered by this thread.
Taken ==
    /\ apc = "taken"
    /\ JoinFinished(/\ apc' = "register" /\ overloaded' = Full(Cardinality(workers \cap Live))
                    /\ UNCHANGED <<socket, cur, result>>,
                    Returns("Failed") /\ Ends(cur))
    /\ UNCHANGED <<stop, listener, parts, watching, faults>>

\* register, under the lock.
Register ==
    /\ apc = "register"
    /\ IF cancelled
       THEN Ends(cur) /\ Returns("Stopped") /\ UNCHANGED sockets
       ELSE /\ sockets' = sockets \cup {cur} /\ apc' = "registered"
            /\ UNCHANGED <<socket, cur, overloaded, result>>
    /\ UNCHANGED <<cancelled, listener, workers, working, watching, faults>>

RegisterFails ==
    /\ apc = "register" /\ ~cancelled /\ faults < MaxFaults
    /\ Ends(cur) /\ Returns("Failed") /\ faults' = faults + 1
    /\ UNCHANGED <<stop, listener, workers, working, watching>>

\* A worker of its own, or a 503 from this thread.
Dispatch ==
    /\ apc = "registered"
    /\ IF overloaded
       THEN apc' = "answer" /\ UNCHANGED <<cur, overloaded, wpc, workers>>
       ELSE wpc' = [wpc EXCEPT ![cur] = "limit"] /\ workers' = workers \cup {cur} /\ RoundEnds("loop")
    /\ UNCHANGED <<socket, stop, listener, result, panicked, parts, watching, faults>>

SpawnFails ==
    /\ apc = "registered" /\ ~overloaded /\ faults < MaxFaults
    /\ Disconnects(cur) /\ Returns("Failed") /\ faults' = faults + 1
    /\ UNCHANGED <<cancelled, listener, workers, wpc, panicked, watching>>

-----------------------------------------------------------------------------
(* write_response, for the accepting thread and for the workers.           *)

\* Before each write: the flag, and whether there is more to write.
WriteGoes(c, go, end) ==
    IF cancelled \/ parts[c] = 2 THEN end ELSE go

\* Mutant: an error of a write is not an end.
WritesOn(c, go, end) == parts' = [parts EXCEPT ![c] = @ + 1] /\ go

\* The write itself: what the client takes, or nothing on a socket that is
\* shut down.
Writes(c, go, end) ==
    \/ c \notin shut /\ parts' = [parts EXCEPT ![c] = @ + 1] /\ go
    \/ c \in shut /\ UNCHANGED parts /\ end

OverloadChecks ==
    /\ apc = "answer"
    /\ WriteGoes(cur, apc' = "write", apc' = "drop")
    /\ UNCHANGED <<socket, stop, loop, workers, result, working, watching, faults>>

OverloadWrites ==
    /\ apc = "write"
    /\ Writes(cur, apc' = "answer", apc' = "drop")
    /\ UNCHANGED <<socket, stop, loop, workers, result, wpc, panicked, watching, faults>>

\* The second that a 503 may take is over.
OverloadDeadline ==
    /\ apc \in {"answer", "write"}
    /\ apc' = "drop"
    /\ UNCHANGED <<socket, stop, loop, workers, result, working, watching, faults>>

OverloadDrops ==
    /\ apc = "drop"
    /\ Disconnects(cur) /\ RoundEnds("loop")
    /\ UNCHANGED <<cancelled, listener, workers, result, wpc, panicked, watching, faults>>

-----------------------------------------------------------------------------
(* A worker, respond.                                                      *)

At(c, pc) == wpc[c] = pc
Goes(c, pc) == wpc' = [wpc EXCEPT ![c] = pc]
elsewhere == <<accepting, watching, faults>>

\* SourceLimiter::allow, or a 429.
Limits(c) ==
    /\ At(c, "limit")
    /\ \E pc \in {"begin", "answer"} : Goes(c, pc)
    /\ UNCHANGED <<elsewhere, socket, stop, panicked, parts>>

\* Before a read: the flag.
BeginsRead(c) ==
    /\ At(c, "begin")
    /\ Goes(c, IF cancelled THEN "answer" ELSE "read")
    /\ UNCHANGED <<elsewhere, socket, stop, panicked, parts>>

\* Some of a header; or all that is read of the request, an end of the stream
\* or an error: a 200 or a 404.
ReadsRequest(c) ==
    /\ At(c, "read")
    /\ \/ c \notin shut /\ Goes(c, "begin")
       \/ Goes(c, "answer")
    /\ UNCHANGED <<elsewhere, socket, stop, panicked, parts>>

WorkerChecks(c) ==
    /\ At(c, "answer")
    /\ WriteGoes(c, Goes(c, "write"), Goes(c, "drop"))
    /\ UNCHANGED <<elsewhere, socket, stop, panicked, parts>>

WorkerWrites(c) ==
    /\ At(c, "write")
    /\ Writes(c, Goes(c, "answer"), Goes(c, "drop"))
    /\ UNCHANGED <<elsewhere, socket, stop, panicked>>

\* Mutant: every read has five seconds of its own.
WorkerDeadlineFresh(c) ==
    /\ wpc[c] \in {"answer", "write"}
    /\ Goes(c, "drop")
    /\ UNCHANGED <<elsewhere, socket, stop, panicked, parts>>

\* The five seconds are over: whatever comes next, nothing is written.
WorkerDeadline(c) ==
    /\ wpc[c] \in {"begin", "read", "answer", "write"}
    /\ Goes(c, "drop")
    /\ UNCHANGED <<elsewhere, socket, stop, panicked, parts>>

WorkerEnds(c) ==
    /\ At(c, "drop")
    /\ Disconnects(c) /\ Goes(c, "finished")
    /\ UNCHANGED <<elsewhere, cancelled, panicked>>

\* A panic unwinds through the connection's drop.
WorkerPanics(c) ==
    /\ c \in Live /\ ~At(c, "drop") /\ faults < MaxFaults
    /\ Goes(c, "drop") /\ panicked' = panicked \cup {c} /\ faults' = faults + 1
    /\ UNCHANGED <<accepting, watching, socket, stop, parts>>

-----------------------------------------------------------------------------
(* The end of Module::serve, then of serve.                                *)

\* drop(listener): what was not accepted is reset.
Closes ==
    /\ apc = "close"
    /\ listener' = FALSE /\ apc' = "cancel"
    /\ conn' = [c \in Clients |-> IF conn[c] = "queued" THEN "none" ELSE conn[c]]
    /\ UNCHANGED <<shut, stop, cur, overloaded, workers, result, working, watching, faults>>

Cancels ==
    /\ apc = "cancel"
    /\ Cancel /\ apc' = "join"
    /\ UNCHANGED <<conn, sockets, loop, workers, result, working, watching, faults>>

\* Mutant: the workers are not waited for.
JoinsWithoutWaiting ==
    /\ apc = "join"
    /\ result' = IF panicked = {} THEN result ELSE "Failed"
    /\ workers' = {} /\ apc' = "watch"
    /\ UNCHANGED <<socket, stop, loop, working, watching, faults>>

\* Every worker is joined, then nothing runs.
Joins ==
    /\ apc = "join" /\ workers \cap Live = {}
    /\ result' = IF panicked = {} THEN result ELSE "Failed"
    /\ workers' = {} /\ apc' = "watch"
    /\ UNCHANGED <<socket, stop, loop, working, watching, faults>>

\* Mutant: the flag of the watch is read before the watch is joined.
JoinsWatchLate ==
    /\ apc = "watch"
    /\ result' = IF publicFailed THEN "Failed" ELSE result
    /\ apc' = "done"
    /\ UNCHANGED <<socket, stop, loop, workers, working, watching, faults>>

\* The watch is joined; its failure is the service's.
JoinsWatch ==
    /\ apc = "watch" /\ watch = "done"
    /\ result' = IF publicFailed THEN "Failed" ELSE result
    /\ apc' = "done"
    /\ UNCHANGED <<socket, stop, loop, workers, working, watching, faults>>

-----------------------------------------------------------------------------
(* The watch, signals and clients.                                         *)

\* The address is another one or cannot be had; the flag was looked at before.
WatchFails ==
    /\ watch = "watching" /\ ~cancelled /\ faults < MaxFaults
    /\ watch' = "failed" /\ faults' = faults + 1
    /\ UNCHANGED <<socket, stop, accepting, working, publicFailed, asked>>

WatchReports ==
    /\ watch = "failed"
    /\ publicFailed' = TRUE /\ watch' = "reported"
    /\ UNCHANGED <<socket, stop, accepting, working, asked, faults>>

WatchCancels ==
    /\ watch = "reported"
    /\ Cancel /\ watch' = "done"
    /\ UNCHANGED <<conn, sockets, accepting, working, publicFailed, asked, faults>>

WatchStops ==
    /\ watch = "watching" /\ cancelled
    /\ watch' = "done"
    /\ UNCHANGED <<socket, stop, accepting, working, publicFailed, asked, faults>>

\* SIGTERM or SIGINT.
Signal ==
    /\ ~asked /\ apc # "done"
    /\ asked' = TRUE /\ Cancel
    /\ UNCHANGED <<conn, sockets, accepting, working, watch, publicFailed, faults>>

Connects(c) ==
    /\ conn[c] = "none" /\ wpc[c] = "none" /\ listener
    /\ conn' = [conn EXCEPT ![c] = "queued"]
    /\ UNCHANGED <<shut, stop, accepting, working, watching, faults>>

-----------------------------------------------------------------------------
Init ==
    /\ listener = TRUE /\ conn = [c \in Clients |-> "none"] /\ shut = {}
    /\ cancelled = FALSE /\ sockets = {}
    /\ apc = "loop" /\ cur = None /\ overloaded = FALSE /\ workers = {}
    /\ wpc = [c \in Clients |-> "none"] /\ panicked = {}
    /\ parts = [c \in Clients |-> 0]
    /\ watch = "watching" /\ publicFailed = FALSE /\ asked = FALSE /\ result = None
    /\ faults = 0

AcceptStep ==
    \/ AcceptLoop \/ Accept \/ Taken \/ Register \/ Dispatch
    \/ OverloadChecks \/ OverloadDrops
    \/ Closes \/ Cancels \/ Joins \/ JoinsWatch

WorkerStep(c) ==
    \/ Limits(c) \/ BeginsRead(c) \/ WorkerChecks(c) \/ WorkerEnds(c)

WatchStep == WatchReports \/ WatchCancels \/ WatchStops

Fault ==
    \/ AcceptFails \/ RegisterFails \/ SpawnFails \/ WatchFails
    \/ \E c \in Clients : WorkerPanics(c)

Next ==
    \/ AcceptStep \/ OverloadWrites \/ OverloadDeadline \/ WatchStep \/ Fault \/ Signal
    \/ \E c \in Clients :
        WorkerStep(c) \/ ReadsRequest(c) \/ WorkerWrites(c) \/ WorkerDeadline(c) \/ Connects(c)

\* Threads go on.  A read or a write waits for its client, but not for ever:
\* the deadline comes, and a socket that is shut down does not block.
Fairness ==
    /\ WF_vars(AcceptStep) /\ WF_vars(WatchStep)
    /\ WF_vars(cur \in shut /\ OverloadWrites) /\ WF_vars(OverloadDeadline)
    /\ \A c \in Clients :
        /\ WF_vars(WorkerStep(c)) /\ WF_vars(WorkerDeadline(c))
        /\ WF_vars(c \in shut /\ (ReadsRequest(c) \/ WorkerWrites(c)))

Spec == Init /\ [][Next]_vars /\ Fairness

-----------------------------------------------------------------------------
(* Properties.                                                             *)

\* Threads, sockets and answers have values of their kinds; a connection that
\* is gone has neither a registration nor a part of an answer left.
TypeOK ==
    /\ {listener, cancelled, overloaded, publicFailed, asked} \subseteq BOOLEAN
    /\ conn \in [Clients -> {"none", "queued", "taken"}]
    /\ UNION {shut, sockets, workers, panicked} \subseteq Clients
    /\ apc \in {"loop", "accept", "taken", "register", "registered", "answer", "write", "drop",
                "close", "cancel", "join", "watch", "done"}
    /\ cur \in Clients \cup {None}
    /\ wpc \in [Clients -> {"none", "limit", "begin", "read", "answer", "write", "drop", "finished"}]
    /\ parts \in [Clients -> 0 .. 2]
    /\ watch \in {"watching", "failed", "reported", "done"}
    /\ result \in {None, "Stopped", "Failed"}
    /\ \A c \in Clients : conn[c] = "none" => c \notin sockets \cup shut /\ parts[c] = 0

\* Never more than MAX_WORKERS threads, however they finish between the count
\* and the spawn, and none whose handle was let go.
WorkersBounded == Live \subseteq workers /\ Cardinality(workers) <= MaxWorkers

\* Once serve is through its joins no thread, socket or connection is left.
NothingLeft ==
    apc \in {"watch", "done"} =>
        /\ Live = {} /\ sockets = {} /\ ~listener
        /\ \A c \in Clients : conn[c] = "none"

\* The code tells what happened: Stopped is a stop that was asked for and met
\* no failure, Failed is a failure, also one that a stop raced with.
CodeIsHonest ==
    apc = "done" =>
        /\ result = IF faults = 0 THEN "Stopped" ELSE "Failed"
        /\ faults = 0 => asked

\* After a cancellation no byte of an answer is written any more, also by a
\* thread that looked at the flag before.
NothingAfterCancel == [][cancelled => \A c \in Clients : parts'[c] <= parts[c]]_vars

\* A connection that is accepted comes to its end, whatever its client does.
ConnectionEnds == \A c \in Clients : conn[c] = "taken" ~> conn[c] = "none"

\* A cancellation, by a signal, the watch or a failure, ends the service.
StopEnds == cancelled ~> apc = "done"

\* Threads stay within their bound, and a stop leaves nothing behind and tells
\* the truth about why it happened.
StopIsClean == TypeOK /\ WorkersBounded /\ NothingLeft /\ CodeIsHonest

\* Every accepted connection and every stop comes to its end.
ServingEnds == ConnectionEnds /\ StopEnds

-----------------------------------------------------------------------------
(* The inductive strengthening.                                            *)

\* The accepting thread has a connection, the Cancellation knows of it.
Holding == apc \in {"taken", "register", "registered", "answer", "write", "drop"}
Registered == apc \in {"registered", "answer", "write", "drop"}
Ended == apc \in {"close", "cancel", "join", "watch", "done"}

\* Every accepted connection is the accepting thread's or one live worker's,
\* and registered exactly while one of them may use it.
SocketInv ==
    /\ IF Holding THEN cur \in Clients /\ conn[cur] = "taken" /\ wpc[cur] = "none" ELSE cur = None
    /\ Registered => cur \in sockets
    /\ \A c \in Clients :
        /\ c \in Live => conn[c] = "taken" /\ c \in sockets
        /\ conn[c] = "taken" => c = cur \/ c \in Live
        /\ conn[c] = "queued" => wpc[c] = "none"
        /\ c \in sockets => c \in Live \/ (c = cur /\ Registered)

\* What is not registered is neither shut down nor written to, and after the
\* cancellation everything that is registered is shut down.
AnswerInv ==
    /\ shut \subseteq sockets
    /\ cancelled => sockets \subseteq shut
    /\ \A c \in Clients :
        /\ c \notin sockets => parts[c] = 0
        /\ wpc[c] = "write" \/ (apc = "write" /\ c = cur) => parts[c] < 2

\* The count that a spawn relies on, taken two steps before it, still holds.
RoomInv ==
    /\ IsFiniteSet(workers)
    /\ apc \in {"register", "registered"} /\ ~overloaded => Cardinality(workers) < MaxWorkers

\* How far the end has come.
EndInv ==
    /\ listener <=> apc \notin {"cancel", "join", "watch", "done"}
    /\ ~listener => \A c \in Clients : conn[c] # "queued"
    /\ apc \in {"join", "watch", "done"} => cancelled
    /\ apc \in {"watch", "done"} => Live = {}

\* A failure is known to somebody who reports it until it is in the code.
Failure ==
    \/ Ended /\ result = "Failed"
    \/ panicked # {} \/ publicFailed \/ watch \in {"failed", "reported"}

CodeInv ==
    /\ faults \in Nat /\ (faults = 0 <=> ~Failure)
    /\ \A c \in panicked : wpc[c] \in {"drop", "finished"}
    /\ Ended => result \in {"Stopped", "Failed"}
    /\ cancelled => asked \/ publicFailed \/ apc \in {"join", "watch", "done"}
    /\ Ended /\ result = "Stopped" => asked \/ publicFailed
    /\ apc \in {"watch", "done"} /\ panicked # {} => result = "Failed"
    /\ apc = "done" => watch = "done" /\ (publicFailed => result = "Failed")
    /\ watch = "reported" => publicFailed
    /\ watch = "done" => cancelled

ServingInv == TypeOK /\ WorkersBounded /\ SocketInv /\ AnswerInv /\ RoomInv /\ EndInv /\ CodeInv
=============================================================================
