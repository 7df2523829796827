--------------------------- MODULE ServingProofs ---------------------------
(***************************************************************************)
(* The Subscription Serving process: its limiter of sources and its        *)
(* threads.                                                                *)
(*                                                                         *)
(* The first part is SourceLimiter, for every table, burst, delay and      *)
(* number of workers.  The two ideal buckets say nothing about the table   *)
(* by themselves.  The invariant puts them around each entry: an entry is  *)
(* worth its tokens and the time since its refill, level is at least that  *)
(* worth (up to its own capacity) and fair at most; a source that is       *)
(* forgotten has all of level.                                             *)
(*                                                                         *)
(* The second part is SubscriptionServing, for every number of             *)
(* connections, workers and failures.  Its inductive invariant is          *)
(* ServingInv of that module; its parts are kept one by one, each by all   *)
(* the steps that touch its variables.                                     *)
(***************************************************************************)
EXTENDS SourceLimiter, SubscriptionServing, FiniteSetTheorems, TLAPS

-----------------------------------------------------------------------------
(* The limiter.                                                            *)

Worth(e) == e.tokens + now - e.refill

\* What holds of an entry of the table.
EntryOK(s) ==
    /\ entries[s].refill = entries[s].last /\ entries[s].refill <= now
    /\ level[s] >= Smaller(Worth(entries[s]), Cap + MaxDelay)
    /\ fair[s] <= Worth(entries[s])

Buckets ==
    /\ \A s \in DOMAIN entries : EntryOK(s)
    /\ \A s \in Sources \ DOMAIN entries : level[s] >= Cap + MaxDelay
    /\ \A s \in Sources : fair[s] <= Cap

IInv == LimiterTypeOK /\ Buckets /\ TableBounded

-----------------------------------------------------------------------------
\* The constants as arithmetic facts.
LEMMA Constants ==
    /\ Cap \in Nat /\ Refill \in Nat /\ Refill >= 1
    /\ Idle \in Nat /\ MaxSources \in Nat /\ MaxDelay \in Nat /\ MaxTime \in Nat
    /\ Idle >= 1 /\ Idle >= Cap + MaxDelay
  BY LimiterAssumption

\* Refilled keeps the worth of an entry between its two ideal buckets and
\* brings its time up to the call's.
LEMMA RefilledFacts ==
    ASSUME NEW e \in Source, NEW stamp \in Nat, NEW l \in Int, NEW f \in Int, now \in Nat,
           e.refill = e.last, e.refill <= now, stamp <= now, now <= stamp + MaxDelay,
           l >= Smaller(Worth(e), Cap + MaxDelay), f <= Worth(e), f <= Cap
    PROVE  /\ Refilled(e, stamp) \in Source
           /\ Refilled(e, stamp).refill = Refilled(e, stamp).last
           /\ stamp <= Refilled(e, stamp).refill /\ Refilled(e, stamp).refill <= now
           /\ l >= Worth(Refilled(e, stamp)) /\ f <= Worth(Refilled(e, stamp))
  <1> DEFINE r == Refilled(e, stamp)
  <1>1. /\ e.tokens \in 0 .. Cap /\ e.refill \in Nat /\ e.last \in Nat
    BY DEF Source
  <1>2. /\ r.tokens = Smaller(e.tokens + Since(stamp, e.refill), Cap)
        /\ r.refill = Larger(stamp, e.refill) /\ r.last = Larger(stamp, e.last)
        /\ r = [tokens |-> r.tokens, refill |-> r.refill, last |-> r.last]
    BY DEF Refilled
  <1>3. r.tokens \in 0 .. Cap /\ r.refill \in Nat /\ r.last \in Nat
    BY <1>1, <1>2, Constants DEF Smaller, Larger, Since
  <1>4. r \in Source
    BY <1>2, <1>3 DEF Source
  <1>5. r.refill = r.last /\ stamp <= r.refill /\ r.refill <= now
    BY <1>1, <1>2 DEF Larger
  <1> HIDE DEF r
  <1>6. l >= Worth(r) /\ f <= Worth(r)
    BY <1>1, <1>2, <1>3, Constants DEF Worth, Smaller, Larger, Since
  <1> QED
    BY <1>4, <1>5, <1>6 DEF r

\* A source that a call forgets has all of its ideal bucket.
LEMMA ForgottenIsFull ==
    ASSUME IInv, NEW w \in Workers, calls[w] # NoCall,
           NEW x \in Sources, x \notin Retained(calls[w].stamp)
    PROVE  level[x] >= Cap + MaxDelay
  <1>1. /\ calls[w].stamp \in Nat /\ calls[w].stamp <= now /\ now \in Nat /\ level[x] \in Int
    BY DEF IInv, LimiterTypeOK
  <1>2. CASE x \in DOMAIN entries
    <2>1. ~(Since(calls[w].stamp, entries[x].last) < Idle)
      BY <1>2 DEF Retained
    <2>2. entries[x].tokens \in Nat /\ entries[x].last \in Nat /\ entries[x].refill = entries[x].last
      BY <1>2 DEF IInv, LimiterTypeOK, Buckets, EntryOK, Source
    <2>3. Worth(entries[x]) >= Cap + MaxDelay
      BY <2>1, <2>2, <1>1, Constants DEF Since, Worth
    <2>4. level[x] >= Smaller(Worth(entries[x]), Cap + MaxDelay)
      BY <1>2 DEF IInv, Buckets, EntryOK
    <2> QED
      BY <2>2, <2>3, <2>4, <1>1, Constants DEF Smaller, Worth
  <1>3. CASE x \notin DOMAIN entries
    BY <1>3 DEF IInv, Buckets
  <1> QED
    BY <1>2, <1>3

\* The entry that a call works with, found or new.
LEMMA EntryFacts ==
    ASSUME IInv, NEW w \in Workers, calls[w] # NoCall
    PROVE  LET s == calls[w].source
               stamp == calls[w].stamp
               e == Entry(s, Retained(stamp), stamp)
           IN  /\ s \in Sources /\ stamp \in Nat /\ stamp <= now /\ now <= stamp + MaxDelay
               /\ e \in Source /\ e.refill = e.last
               /\ stamp <= e.refill /\ e.refill <= now
               /\ level[s] >= Worth(e) /\ fair[s] <= Worth(e)
  <1> DEFINE s == calls[w].source
             stamp == calls[w].stamp
             kept == Retained(stamp)
             full == [tokens |-> Cap, refill |-> stamp, last |-> stamp]
             e == IF s \in kept THEN entries[s] ELSE full
  <1>1. /\ s \in Sources /\ stamp \in Nat /\ stamp <= now /\ now <= stamp + MaxDelay
        /\ now \in Nat /\ level[s] \in Int /\ fair[s] \in Int /\ fair[s] <= Cap
    BY DEF IInv, LimiterTypeOK, Buckets
  <1>2. /\ e \in Source /\ e.refill = e.last /\ e.refill <= now
        /\ level[s] >= Smaller(Worth(e), Cap + MaxDelay) /\ fair[s] <= Worth(e)
    <2>1. CASE s \in kept
      <3>1. s \in DOMAIN entries /\ e = entries[s]
        BY <2>1 DEF Retained
      <3> QED
        BY <3>1 DEF IInv, LimiterTypeOK, Buckets, EntryOK
    <2>2. CASE s \notin kept
      <3>1. e = full /\ full \in Source /\ Worth(full) = Cap + now - stamp
        BY <2>2, <1>1, Constants DEF Source, Worth
      <3>2. level[s] >= Cap + MaxDelay
        BY <2>2, <1>1, ForgottenIsFull
      <3>3. level[s] >= Smaller(Worth(full), Cap + MaxDelay) /\ fair[s] <= Worth(full)
        BY <3>1, <3>2, <1>1, Constants DEF Smaller
      <3> QED
        BY <3>1, <3>3, <1>1
    <2> QED
      BY <2>1, <2>2
  <1>3. Entry(s, kept, stamp) = Refilled(e, stamp)
    BY DEF Entry
  <1> HIDE DEF e, kept
  <1> QED
    BY <1>1, <1>2, <1>3, RefilledFacts DEF kept

\* The table of a call is one of the sources and finite.
LEMMA RetainedFacts ==
    ASSUME IInv, NEW stamp
    PROVE  /\ Retained(stamp) \subseteq DOMAIN entries /\ DOMAIN entries \subseteq Sources
           /\ IsFiniteSet(Retained(stamp)) /\ Cardinality(Retained(stamp)) \in Nat
           /\ Cardinality(Retained(stamp)) <= MaxSources
  <1>1. Retained(stamp) \subseteq DOMAIN entries /\ DOMAIN entries \subseteq Sources
    BY DEF IInv, LimiterTypeOK, Retained
  <1>2. IsFiniteSet(DOMAIN entries)
    BY <1>1, LimiterAssumption, FS_Subset
  <1>3. /\ IsFiniteSet(Retained(stamp)) /\ Cardinality(Retained(stamp)) <= Cardinality(DOMAIN entries)
    BY <1>1, <1>2, FS_Subset
  <1>4. Cardinality(Retained(stamp)) \in Nat /\ Cardinality(DOMAIN entries) \in Nat
    BY <1>2, <1>3, FS_CardinalityType
  <1>5. Cardinality(DOMAIN entries) <= MaxSources
    BY DEF IInv, TableBounded
  <1> QED
    BY <1>1, <1>3, <1>4, <1>5, Constants

-----------------------------------------------------------------------------
\* LimiterInit establishes the invariant.
LEMMA InitIInv == LimiterInit => IInv
  <1> SUFFICES ASSUME LimiterInit PROVE IInv
    OBVIOUS
  <1>1. DOMAIN entries = {}
    BY DEF LimiterInit
  <1>2. LimiterTypeOK
    BY <1>1, Constants DEF LimiterInit, LimiterTypeOK
  <1>3. Buckets
    BY <1>1, Constants DEF LimiterInit, Buckets
  <1>4. TableBounded
    BY <1>1, FS_EmptySet, Constants DEF TableBounded
  <1> QED
    BY <1>2, <1>3, <1>4 DEF IInv

\* Time: an entry is worth one tick more, and so are its ideal buckets.
LEMMA TickIInv == IInv /\ Tick => IInv'
  <1> SUFFICES ASSUME IInv, Tick PROVE IInv'
    OBVIOUS
  <1>1. LimiterTypeOK'
    <2>1. now' \in Nat /\ level' \in [Sources -> Int] /\ fair' \in [Sources -> Int]
      BY Constants DEF IInv, LimiterTypeOK, Tick, Smaller
    <2>2. ASSUME NEW w \in Workers, calls[w] # NoCall
          PROVE  calls[w].stamp <= now' /\ now' <= calls[w].stamp + MaxDelay
      BY <2>2, Constants DEF IInv, LimiterTypeOK, Tick
    <2> QED
      BY <2>1, <2>2 DEF IInv, LimiterTypeOK, Tick
  <1>2. ASSUME NEW s \in DOMAIN entries PROVE EntryOK(s)'
    <2>1. /\ s \in Sources /\ level[s] \in Int /\ fair[s] \in Int /\ now \in Nat
          /\ entries[s].tokens \in Int /\ entries[s].refill \in Nat
      BY <1>2 DEF IInv, LimiterTypeOK, Source
    <2>2. EntryOK(s)
      BY <1>2 DEF IInv, Buckets
    <2>3. /\ level'[s] = Smaller(level[s] + 1, Cap + MaxDelay)
          /\ fair'[s] = Smaller(fair[s] + 1, Cap)
          /\ now' = now + 1 /\ entries' = entries
      BY <2>1 DEF Tick
    <2> QED
      BY <2>1, <2>2, <2>3, Constants DEF EntryOK, Worth, Smaller
  <1>3. ASSUME NEW s \in Sources
        PROVE  fair'[s] <= Cap /\ (s \notin DOMAIN entries => level'[s] >= Cap + MaxDelay)
    BY <1>3, Constants DEF IInv, LimiterTypeOK, Buckets, Tick, Smaller
  <1>4. Buckets'
    BY <1>2, <1>3 DEF Buckets, Tick
  <1>5. TableBounded'
    BY DEF IInv, TableBounded, Tick
  <1> QED
    BY <1>1, <1>4, <1>5 DEF IInv

\* A clock that is read is not older than now.
LEMMA ReadClockIInv ==
    ASSUME IInv, NEW w \in Workers, NEW s \in Sources, ReadClock(w, s)
    PROVE  IInv'
  <1>1. LimiterTypeOK'
    BY Constants DEF IInv, LimiterTypeOK, ReadClock
  <1>2. Buckets' /\ TableBounded'
    BY DEF IInv, Buckets, EntryOK, Worth, TableBounded, ReadClock
  <1> QED
    BY <1>1, <1>2 DEF IInv

\* A call of allow, the table being full, a token being there, or not.
LEMMA AllowIInv ==
    ASSUME IInv, NEW w \in Workers, Allow(w)
    PROVE  IInv'
  <1>0. PICK s, stamp, kept, e :
            /\ s = calls[w].source /\ stamp = calls[w].stamp
            /\ kept = Retained(stamp) /\ e = Entry(s, kept, stamp)
    OBVIOUS
  <1>1. calls[w] # NoCall /\ now' = now /\ calls' = [calls EXCEPT ![w] = NoCall]
    BY DEF Allow
  <1>2. /\ s \in Sources /\ e \in Source /\ e.refill = e.last /\ e.refill <= now
        /\ level[s] >= Worth(e) /\ fair[s] <= Worth(e)
        /\ stamp <= e.refill /\ now <= stamp + MaxDelay
    BY <1>0, <1>1, EntryFacts
  <1>3. /\ kept \subseteq DOMAIN entries /\ DOMAIN entries \subseteq Sources
        /\ IsFiniteSet(kept) /\ Cardinality(kept) \in Nat /\ Cardinality(kept) <= MaxSources
    BY <1>0, RetainedFacts
  <1>4. \A x \in Sources : x \notin kept => level[x] >= Cap + MaxDelay
    BY <1>0, <1>1, ForgottenIsFull
  <1>5. /\ now \in Nat /\ level \in [Sources -> Int] /\ fair \in [Sources -> Int]
        /\ \A x \in Sources : fair[x] <= Cap
        /\ \A x \in kept : entries[x] \in Source /\ EntryOK(x)
    BY <1>3 DEF IInv, LimiterTypeOK, Buckets
  <1>6. /\ calls' \in [Workers -> [source : Sources, stamp : Nat] \cup {NoCall}]
        /\ \A v \in Workers :
            calls'[v] # NoCall => calls'[v].stamp <= now' /\ now' <= calls'[v].stamp + MaxDelay
    BY <1>1 DEF IInv, LimiterTypeOK
  <1>7. CASE NoRoom(s, kept) /\ entries' = [x \in kept |-> entries[x]] /\ UNCHANGED <<level, fair>>
    <2>1. LimiterTypeOK'
      BY <1>7, <1>1, <1>3, <1>5, <1>6 DEF LimiterTypeOK
    <2>2. Buckets'
      BY <1>7, <1>1, <1>3, <1>4, <1>5 DEF Buckets, EntryOK, Worth
    <2>3. TableBounded'
      BY <1>7, <1>3 DEF TableBounded
    <2> QED
      BY <2>1, <2>2, <2>3 DEF IInv
  <1>8. ASSUME NEW cost \in {0, Refill}, ~NoRoom(s, kept), e.tokens >= cost,
               entries' = Put(s, kept, [e EXCEPT !.tokens = @ - cost]),
               level' = [level EXCEPT ![s] = @ - cost],
               fair' = [fair EXCEPT ![s] = @ - cost]
        PROVE  IInv'
    <2> DEFINE n == [e EXCEPT !.tokens = @ - cost]
    <2>1. /\ n \in Source /\ n.refill = e.refill /\ n.last = e.last /\ n.tokens = e.tokens - cost
      <3>1. e.tokens \in 0 .. Cap /\ e.refill \in Nat /\ e.last \in Nat /\ cost \in Nat
        BY <1>2, <1>8, Constants DEF Source
      <3>2. e.tokens - cost \in 0 .. Cap
        BY <3>1, <1>8, Constants
      <3> QED
        BY <1>2, <3>1, <3>2 DEF Source
    <2> HIDE DEF n
    <2>2. /\ DOMAIN entries' = kept \cup {s} /\ entries'[s] = n
          /\ \A x \in kept : x # s => entries'[x] = entries[x]
      <3>1. entries' = [x \in kept \cup {s} |-> IF x = s THEN n ELSE entries[x]]
        BY <1>8 DEF Put, n
      <3> QED
        BY <3>1
    <2>3. /\ level' \in [Sources -> Int] /\ fair' \in [Sources -> Int]
          /\ level'[s] = level[s] - cost /\ fair'[s] = fair[s] - cost
          /\ \A x \in Sources : x # s => level'[x] = level[x] /\ fair'[x] = fair[x]
      BY <1>8, <1>2, <1>5, Constants
    <2>4. LimiterTypeOK'
      BY <2>1, <2>2, <2>3, <1>1, <1>2, <1>3, <1>5, <1>6 DEF LimiterTypeOK
    <2>5. EntryOK(s)'
      <3>1. e.tokens \in Int /\ e.refill \in Nat /\ cost \in Nat /\ level[s] \in Int /\ fair[s] \in Int
        BY <1>2, <1>5, Constants DEF Source
      <3> QED
        BY <3>1, <2>1, <2>2, <2>3, <1>1, <1>2, <1>5, Constants DEF EntryOK, Worth, Smaller
    <2>6. ASSUME NEW x \in kept, x # s PROVE EntryOK(x)'
      BY <2>6, <2>2, <2>3, <1>1, <1>3, <1>5 DEF EntryOK, Worth
    <2>7. \A x \in Sources : x \notin kept \cup {s} => level'[x] >= Cap + MaxDelay
      BY <2>3, <1>4
    <2>8. \A x \in Sources : fair'[x] <= Cap
      BY <2>3, <1>2, <1>5, Constants
    <2>9. Buckets'
      BY <2>2, <2>5, <2>6, <2>7, <2>8 DEF Buckets
    <2>10. TableBounded'
      <3>1. CASE s \in kept
        BY <3>1, <2>2, <1>3 DEF TableBounded
      <3>2. CASE s \notin kept
        <4>1. Cardinality(kept \cup {s}) = Cardinality(kept) + 1
          BY <3>2, <1>3, FS_AddElement
        <4>2. ~(Cardinality(kept) >= MaxSources)
          BY <3>2, <1>8 DEF NoRoom
        <4> QED
          BY <4>1, <4>2, <2>2, <1>3, Constants DEF TableBounded
      <3> QED
        BY <3>1, <3>2
    <2> QED
      BY <2>4, <2>9, <2>10 DEF IInv
  <1>9. CASE ~NoRoom(s, kept) /\ Enough(e)
             /\ entries' = Put(s, kept, [e EXCEPT !.tokens = @ - Refill]) /\ Spends(s)
    BY <1>9, <1>8 DEF Enough, Spends
  <1>10. CASE ~NoRoom(s, kept) /\ ~Enough(e)
              /\ entries' = Put(s, kept, e) /\ UNCHANGED <<level, fair>>
    <2>1. e = [e EXCEPT !.tokens = @ - 0] /\ e.tokens >= 0
      BY <1>2 DEF Source
    <2>2. level' = [level EXCEPT ![s] = @ - 0] /\ fair' = [fair EXCEPT ![s] = @ - 0]
      BY <1>10, <1>2, <1>5
    <2>3. entries' = Put(s, kept, [e EXCEPT !.tokens = @ - 0])
      BY <1>10, <2>1
    <2> QED
      BY <2>1, <2>2, <2>3, <1>10, <1>8
  <1> QED
    BY <1>0, <1>7, <1>9, <1>10 DEF Allow

\* Every step keeps the invariant.
LEMMA NextIInv == IInv /\ [LimiterNext]_limiterVars => IInv'
  <1> SUFFICES ASSUME IInv, [LimiterNext]_limiterVars PROVE IInv'
    OBVIOUS
  <1>1. CASE UNCHANGED limiterVars
    BY <1>1 DEF IInv, LimiterTypeOK, Buckets, EntryOK, Worth, TableBounded, limiterVars
  <1> QED
    BY <1>1, TickIInv, AllowIInv, ReadClockIInv DEF LimiterNext

\* The invariant that ties entries to their ideal buckets.
THEOREM Invariance == LimiterSpec => []IInv
  BY InitIInv, NextIInv, PTL DEF LimiterSpec

\* Values keep their kinds and calls their age, for every instance.
THEOREM TypeCorrect == LimiterSpec => []LimiterTypeOK
  <1>1. IInv => LimiterTypeOK
    BY DEF IInv
  <1> QED
    BY <1>1, Invariance, PTL

\* allow keeps every source within its rate, for every order of the calls,
\* every number of workers and sources, burst, refill time and delay.
THEOREM RateIsBounded == LimiterSpec => []RateBounded
  <1>1. ASSUME IInv, NEW s \in Sources PROVE level[s] >= 0
    <2>1. level[s] \in Int /\ now \in Nat
      BY <1>1 DEF IInv, LimiterTypeOK
    <2>2. CASE s \in DOMAIN entries
      <3>1. EntryOK(s) /\ entries[s].tokens \in Nat /\ entries[s].refill \in Nat
        BY <1>1, <2>2 DEF IInv, LimiterTypeOK, Buckets, Source
      <3> QED
        BY <3>1, <2>1, Constants DEF EntryOK, Worth, Smaller
    <2>3. CASE s \notin DOMAIN entries
      <3>1. level[s] >= Cap + MaxDelay
        BY <1>1, <2>3 DEF IInv, Buckets
      <3> QED
        BY <3>1, <2>1, Constants
    <2> QED
      BY <2>2, <2>3
  <1>2. IInv => RateBounded
    BY <1>1 DEF RateBounded
  <1> QED
    BY <1>2, Invariance, PTL

\* The table keeps its bound, for every number of sources.
THEOREM TableIsBounded == LimiterSpec => []TableBounded
  <1>1. IInv => TableBounded
    BY DEF IInv
  <1> QED
    BY <1>1, Invariance, PTL

\* No source is refused while its fair bucket holds a token, apart from what
\* came back within the delay.
THEOREM NobodyGoesShort == LimiterSpec => NobodyIsShort
  <1>1. ASSUME IInv, [LimiterNext]_limiterVars, NEW w \in Workers, Refused(w)
        PROVE  fair[calls[w].source] < Refill + MaxDelay
    <2> DEFINE s == calls[w].source
               stamp == calls[w].stamp
               kept == Retained(stamp)
               e == Entry(s, kept, stamp)
    <2>1. calls[w] # NoCall /\ calls'[w] = NoCall /\ level' = level /\ s \in DOMAIN entries'
      BY <1>1 DEF Refused
    <2>2. Allow(w)
      <3>1. ASSUME NEW v \in Workers, Allow(v) PROVE v = w
        BY <3>1, <2>1, <1>1 DEF Allow, IInv, LimiterTypeOK
      <3>2. ~ (UNCHANGED limiterVars \/ Tick \/ \E v \in Workers, x \in Sources : ReadClock(v, x))
        <4>1. calls' # calls
          BY <2>1
        <4>2. ASSUME NEW v \in Workers, NEW x \in Sources, ReadClock(v, x) PROVE FALSE
          BY <4>2, <2>1, <1>1 DEF ReadClock, IInv, LimiterTypeOK
        <4> QED
          BY <4>1, <4>2 DEF Tick, limiterVars
      <3> QED
        BY <3>1, <3>2, <1>1 DEF LimiterNext
    <2>3. /\ s \in Sources /\ stamp \in Nat /\ now <= stamp + MaxDelay
          /\ e \in Source /\ stamp <= e.refill /\ e.refill <= now /\ fair[s] <= Worth(e)
      BY <2>1, <1>1, EntryFacts
    <2>4. level[s] \in Int /\ fair[s] \in Int /\ now \in Nat
      BY <2>3, <1>1 DEF IInv, LimiterTypeOK
    <2>5. ~Enough(e)
      <3>1. ASSUME NoRoom(s, kept), entries' = [x \in kept |-> entries[x]] PROVE FALSE
        BY <3>1, <2>1 DEF NoRoom
      <3>2. ASSUME Spends(s) PROVE FALSE
        <4>1. level'[s] = level[s] - Refill
          BY <3>2, <2>3, <1>1 DEF Spends, IInv, LimiterTypeOK
        <4> QED
          BY <4>1, <2>1, <2>4, Constants
      <3> HIDE DEF e, kept, s
      <3> QED
        BY <3>1, <3>2, <2>2 DEF Allow, e, kept, s
    <2>6. e.tokens \in Int /\ e.refill \in Nat
      BY <2>3 DEF Source
    <2> HIDE DEF e, s, stamp
    <2> QED
      BY <2>3, <2>4, <2>5, <2>6, Constants DEF Enough, Worth, s
  <1>2. IInv /\ [LimiterNext]_limiterVars => [\A w \in Workers : Refused(w) => fair[calls[w].source] < Refill + MaxDelay]_limiterVars
    BY <1>1
  <1> QED
    BY <1>2, Invariance, PTL DEF LimiterSpec, NobodyIsShort

-----------------------------------------------------------------------------
(* The threads.                                                            *)

\* The parts of the type invariant of the threads.
Flags == {listener, cancelled, overloaded, publicFailed, asked} \subseteq BOOLEAN

Places ==
    /\ apc \in {"loop", "accept", "taken", "register", "registered", "answer", "write", "drop",
                "close", "cancel", "join", "watch", "done"}
    /\ cur \in Clients \cup {None}
    /\ watch \in {"watching", "failed", "reported", "done"}
    /\ result \in {None, "Stopped", "Failed"}

Sets == UNION {shut, sockets, workers, panicked} \subseteq Clients

Tables ==
    /\ conn \in [Clients -> {"none", "queued", "taken"}]
    /\ wpc \in [Clients -> {"none", "limit", "begin", "read", "answer", "write", "drop", "finished"}]
    /\ parts \in [Clients -> 0 .. 2]

\* What join_finished keeps is finite and not more than there was.
LEMMA JoinedFacts ==
    ASSUME WorkersBounded, RoomInv
    PROVE  /\ IsFiniteSet(workers \cap Live)
           /\ Cardinality(workers \cap Live) \in Nat
           /\ Cardinality(workers \cap Live) <= MaxWorkers
<1>1. IsFiniteSet(workers)
  BY DEF RoomInv
<1>2. /\ IsFiniteSet(workers \cap Live)
      /\ Cardinality(workers \cap Live) <= Cardinality(workers)
  BY <1>1, FS_Subset
<1>3. Cardinality(workers) \in Nat /\ Cardinality(workers \cap Live) \in Nat
  BY <1>1, <1>2, FS_CardinalityType
<1>4. Cardinality(workers) <= MaxWorkers
  BY DEF WorkersBounded
<1> QED BY <1>2, <1>3, <1>4, ServingAssumption

\* One more worker than the thread counted is still within the bound.
LEMMA SpawnedFacts ==
    ASSUME RoomInv, apc = "registered", ~overloaded
    PROVE  IsFiniteSet(workers \cup {cur}) /\ Cardinality(workers \cup {cur}) <= MaxWorkers
<1>1. IsFiniteSet(workers) /\ Cardinality(workers) < MaxWorkers
  BY DEF RoomInv
<1>2. /\ IsFiniteSet(workers \cup {cur})
      /\ Cardinality(workers \cup {cur}) =
            IF cur \in workers THEN Cardinality(workers) ELSE Cardinality(workers) + 1
  BY <1>1, FS_AddElement
<1>3. Cardinality(workers) \in Nat
  BY <1>1, FS_CardinalityType
<1> QED BY <1>1, <1>2, <1>3, ServingAssumption

\* What the accepting thread judges is what it counted.
LEMMA CountIsKept ==
    ASSUME ServingInv, Taken
    PROVE  /\ overloaded' \in BOOLEAN
           /\ apc' = "register" /\ ~overloaded' => Cardinality(workers') < MaxWorkers
<1>1. Cardinality(workers \cap Live) \in Nat /\ MaxWorkers \in Nat
  BY JoinedFacts, ServingAssumption DEF ServingInv
<1>2. CASE panicked \subseteq Live
  <2> DEFINE n == Cardinality(workers \cap Live)
  <2>1. workers' = workers \cap Live /\ overloaded' = (n >= MaxWorkers)
    BY <1>2 DEF Taken, JoinFinished, Full
  <2>2. n \in Nat /\ MaxWorkers \in Nat
    BY <1>1
  <2> HIDE DEF n
  <2>3. overloaded' \in BOOLEAN
    BY <2>1, <2>2
  <2>4. n >= MaxWorkers => overloaded' = TRUE
    BY <2>1, <2>2
  <2>5. ~overloaded' => n < MaxWorkers
    BY <2>2, <2>4
  <2> QED BY <2>1, <2>3, <2>5 DEF n
<1>3. CASE ~(panicked \subseteq Live)
  BY <1>3 DEF Taken, JoinFinished, Returns, RoundEnds
<1> QED BY <1>2, <1>3

\* The flags stay flags.
LEMMA FlagsStep ==
    ASSUME ServingInv, [Next]_vars PROVE Flags'
<1> USE ServingAssumption DEF ServingInv, TypeOK, Flags
<1>1. CASE AcceptLoop
  BY <1>1 DEF AcceptLoop, RoundEnds, Returns, JoinFinished, socket, stop, loop,
      watching
<1>2. CASE Taken
  <2>1. overloaded' \in BOOLEAN
    BY <1>2, CountIsKept
  <2> QED BY <1>2, <2>1 DEF Taken, JoinFinished, Returns, RoundEnds, Ends, stop, watching
<1>3. CASE Register
  BY <1>3 DEF Register, Ends, Returns, socket, working, watching, RoundEnds
<1>4. CASE Dispatch
  BY <1>4 DEF Dispatch, RoundEnds, socket, stop, loop, watching
<1>5. CASE OverloadDrops
  BY <1>5 DEF OverloadDrops, Disconnects, RoundEnds, loop, watching, Ends
<1>6. CASE Closes
  BY <1>6 DEF Closes, stop, working, watching
<1>7. CASE Cancels
  BY <1>7 DEF Cancels, Cancel, loop, working, watching
<1>8. CASE WatchReports
  BY <1>8 DEF WatchReports, socket, stop, accepting, working, loop
<1>9. CASE WatchCancels
  BY <1>9 DEF WatchCancels, Cancel, accepting, working, loop
<1>10. CASE AcceptFails
  BY <1>10 DEF AcceptFails, Returns, socket, stop, working, watching, RoundEnds
<1>11. CASE RegisterFails
  BY <1>11 DEF RegisterFails, Ends, Returns, stop, working, watching, RoundEnds
<1>12. CASE SpawnFails
  BY <1>12 DEF SpawnFails, Disconnects, Returns, watching, Ends, RoundEnds
<1>13. CASE Signal
  BY <1>13 DEF Signal, Cancel, accepting, working, loop
<1>14. CASE UNCHANGED <<listener, cancelled, overloaded, publicFailed, asked>>
  BY <1>14
<1> QED
  BY <1>1, <1>2, <1>3, <1>4, <1>5, <1>6, <1>7, <1>8, <1>9, <1>10, <1>11, <1>12, <1>13,
     <1>14
  DEF Next, AcceptStep, WorkerStep, WatchStep, Fault, Accept, OverloadChecks,
      Joins, JoinsWatch, OverloadWrites, OverloadDeadline, WatchStops, WatchFails,
      WorkerPanics, Limits, BeginsRead, WorkerChecks, WorkerEnds, ReadsRequest,
      WorkerWrites, WorkerDeadline, Connects, vars, elsewhere, stop, loop,
      accepting, watching

\* Threads stay at places of their programs.
LEMMA PlacesStep ==
    ASSUME ServingInv, [Next]_vars PROVE Places'
<1> USE ServingAssumption DEF ServingInv, TypeOK, Places, SocketInv, Holding,
    Registered, Live
<1>1. CASE AcceptLoop
  BY <1>1 DEF AcceptLoop, RoundEnds, Returns, JoinFinished, socket, stop, loop,
      watching
<1>2. CASE Accept
  BY <1>2 DEF Accept, stop, loop, working, watching
<1>3. CASE Taken
  BY <1>3 DEF Taken, Ends, Returns, JoinFinished, Full, socket, stop, watching,
      RoundEnds
<1>4. CASE Register
  BY <1>4 DEF Register, Ends, Returns, socket, working, watching, RoundEnds
<1>5. CASE Dispatch
  BY <1>5 DEF Dispatch, RoundEnds, socket, stop, loop, watching
<1>6. CASE OverloadChecks
  BY <1>6 DEF OverloadChecks, WriteGoes, socket, stop, loop, working, watching
<1>7. CASE OverloadDrops
  BY <1>7 DEF OverloadDrops, Disconnects, RoundEnds, loop, watching, Ends
<1>8. CASE Closes
  BY <1>8 DEF Closes, stop, working, watching
<1>9. CASE Cancels
  BY <1>9 DEF Cancels, Cancel, loop, working, watching
<1>10. CASE Joins
  BY <1>10 DEF Joins, socket, stop, loop, working, watching
<1>11. CASE JoinsWatch
  BY <1>11 DEF JoinsWatch, socket, stop, loop, working, watching
<1>12. CASE OverloadWrites
  BY <1>12 DEF OverloadWrites, Writes, socket, stop, loop, watching
<1>13. CASE OverloadDeadline
  BY <1>13 DEF OverloadDeadline, socket, stop, loop, working, watching
<1>14. CASE WatchReports
  BY <1>14 DEF WatchReports, socket, stop, accepting, working, loop
<1>15. CASE WatchCancels
  BY <1>15 DEF WatchCancels, Cancel, accepting, working, loop
<1>16. CASE WatchStops
  BY <1>16 DEF WatchStops, socket, stop, accepting, working, watching, loop
<1>17. CASE AcceptFails
  BY <1>17 DEF AcceptFails, Returns, socket, stop, working, watching, RoundEnds
<1>18. CASE RegisterFails
  BY <1>18 DEF RegisterFails, Ends, Returns, stop, working, watching, RoundEnds
<1>19. CASE SpawnFails
  BY <1>19 DEF SpawnFails, Disconnects, Returns, watching, Ends, RoundEnds
<1>20. CASE WatchFails
  BY <1>20 DEF WatchFails, socket, stop, accepting, working, watching, loop
<1>21. CASE UNCHANGED <<apc, cur, watch, result>>
  BY <1>21
<1> QED
  BY <1>1, <1>2, <1>3, <1>4, <1>5, <1>6, <1>7, <1>8, <1>9, <1>10, <1>11, <1>12, <1>13,
     <1>14, <1>15, <1>16, <1>17, <1>18, <1>19, <1>20, <1>21
  DEF Next, AcceptStep, WorkerStep, WatchStep, Fault, Signal, WorkerPanics,
      Limits, BeginsRead, WorkerChecks, WorkerEnds, ReadsRequest, WorkerWrites,
      WorkerDeadline, Connects, vars, elsewhere, loop, accepting, watching

\* Sockets and handles are those of connections.
LEMMA SetsStep ==
    ASSUME ServingInv, [Next]_vars PROVE Sets'
<1> USE ServingAssumption DEF ServingInv, TypeOK, Sets, SocketInv, Holding,
    Registered, Live
<1>1. CASE AcceptLoop
  BY <1>1 DEF AcceptLoop, RoundEnds, Returns, JoinFinished, socket, stop, loop,
      watching
<1>2. CASE Taken
  BY <1>2 DEF Taken, Ends, Returns, JoinFinished, Full, socket, stop, watching,
      RoundEnds
<1>3. CASE Register
  BY <1>3 DEF Register, Ends, Returns, socket, working, watching, RoundEnds
<1>4. CASE Dispatch
  BY <1>4 DEF Dispatch, RoundEnds, socket, stop, loop, watching
<1>5. CASE OverloadDrops
  BY <1>5 DEF OverloadDrops, Disconnects, RoundEnds, loop, watching, Ends
<1>6. CASE Cancels
  BY <1>6 DEF Cancels, Cancel, loop, working, watching
<1>7. CASE Joins
  BY <1>7 DEF Joins, socket, stop, loop, working, watching
<1>8. CASE WatchCancels
  BY <1>8 DEF WatchCancels, Cancel, accepting, working, loop
<1>9. CASE RegisterFails
  BY <1>9 DEF RegisterFails, Ends, Returns, stop, working, watching, RoundEnds
<1>10. CASE SpawnFails
  BY <1>10 DEF SpawnFails, Disconnects, Returns, watching, Ends, RoundEnds
<1>11. CASE Signal
  BY <1>11 DEF Signal, Cancel, accepting, working, loop
<1>12. ASSUME NEW c \in Clients, WorkerPanics(c) PROVE Sets'
  BY <1>12 DEF WorkerPanics, At, Goes, socket, stop, accepting, watching, loop
<1>13. ASSUME NEW c \in Clients, WorkerEnds(c) PROVE Sets'
  BY <1>13 DEF WorkerEnds, Disconnects, At, Goes, elsewhere, Ends, accepting,
      watching, loop
<1>14. CASE UNCHANGED <<shut, sockets, workers, panicked>>
  BY <1>14
<1> QED
  BY <1>1, <1>2, <1>3, <1>4, <1>5, <1>6, <1>7, <1>8, <1>9, <1>10, <1>11, <1>12, <1>13,
     <1>14
  DEF Next, AcceptStep, WorkerStep, WatchStep, Fault, Accept, OverloadChecks,
      Closes, JoinsWatch, OverloadWrites, OverloadDeadline, WatchReports, WatchStops,
      AcceptFails, WatchFails, Limits, BeginsRead, WorkerChecks, ReadsRequest,
      WorkerWrites, WorkerDeadline, Connects, vars, elsewhere, socket, stop,
      accepting, working

\* Connections, workers and answers keep their kinds.
LEMMA TablesStep ==
    ASSUME ServingInv, [Next]_vars PROVE Tables'
<1> USE ServingAssumption DEF ServingInv, TypeOK, Tables, AnswerInv, SocketInv,
    Holding, Registered, Live
<1>1. CASE AcceptLoop
  BY <1>1 DEF AcceptLoop, RoundEnds, Returns, JoinFinished, socket, stop, loop,
      watching
<1>2. CASE Accept
  BY <1>2 DEF Accept, stop, loop, working, watching
<1>3. CASE Taken
  BY <1>3 DEF Taken, Ends, Returns, JoinFinished, Full, socket, stop, watching,
      RoundEnds
<1>4. CASE Register
  BY <1>4 DEF Register, Ends, Returns, socket, working, watching, RoundEnds
<1>5. CASE Dispatch
  BY <1>5 DEF Dispatch, RoundEnds, socket, stop, loop, watching
<1>6. CASE OverloadDrops
  BY <1>6 DEF OverloadDrops, Disconnects, RoundEnds, loop, watching, Ends
<1>7. CASE Closes
  BY <1>7 DEF Closes, stop, working, watching
<1>8. CASE OverloadWrites
  BY <1>8 DEF OverloadWrites, Writes, socket, stop, loop, watching
<1>9. CASE RegisterFails
  BY <1>9 DEF RegisterFails, Ends, Returns, stop, working, watching, RoundEnds
<1>10. CASE SpawnFails
  BY <1>10 DEF SpawnFails, Disconnects, Returns, watching, Ends, RoundEnds
<1>11. ASSUME NEW c \in Clients, WorkerPanics(c) PROVE Tables'
  BY <1>11 DEF WorkerPanics, At, Goes, socket, stop, accepting, watching, loop
<1>12. ASSUME NEW c \in Clients, Limits(c) PROVE Tables'
  BY <1>12 DEF Limits, At, Goes, elsewhere, socket, stop, accepting, watching,
      loop
<1>13. ASSUME NEW c \in Clients, BeginsRead(c) PROVE Tables'
  BY <1>13 DEF BeginsRead, At, Goes, elsewhere, socket, stop, accepting, watching,
      loop
<1>14. ASSUME NEW c \in Clients, WorkerChecks(c) PROVE Tables'
  BY <1>14 DEF WorkerChecks, WriteGoes, At, Goes, elsewhere, socket, stop,
      accepting, watching, loop
<1>15. ASSUME NEW c \in Clients, WorkerEnds(c) PROVE Tables'
  BY <1>15 DEF WorkerEnds, Disconnects, At, Goes, elsewhere, Ends, accepting,
      watching, loop
<1>16. ASSUME NEW c \in Clients, ReadsRequest(c) PROVE Tables'
  BY <1>16 DEF ReadsRequest, At, Goes, elsewhere, socket, stop, accepting,
      watching, loop
<1>17. ASSUME NEW c \in Clients, WorkerWrites(c) PROVE Tables'
  BY <1>17 DEF WorkerWrites, Writes, At, Goes, elsewhere, socket, stop, accepting,
      watching, loop
<1>18. ASSUME NEW c \in Clients, WorkerDeadline(c) PROVE Tables'
  BY <1>18 DEF WorkerDeadline, Goes, elsewhere, socket, stop, accepting, watching,
      loop
<1>19. ASSUME NEW c \in Clients, Connects(c) PROVE Tables'
  BY <1>19 DEF Connects, stop, accepting, working, watching, loop
<1>20. CASE UNCHANGED <<conn, wpc, parts>>
  BY <1>20
<1> QED
  BY <1>1, <1>2, <1>3, <1>4, <1>5, <1>6, <1>7, <1>8, <1>9, <1>10, <1>11, <1>12, <1>13,
     <1>14, <1>15, <1>16, <1>17, <1>18, <1>19, <1>20
  DEF Next, AcceptStep, WorkerStep, WatchStep, Fault, OverloadChecks, Cancels,
      Joins, JoinsWatch, OverloadDeadline, WatchReports, WatchCancels, WatchStops,
      AcceptFails, WatchFails, Signal, vars, socket, working

\* The accepting thread alone counts, joins and spawns.
LEMMA WorkersStep ==
    ASSUME ServingInv, [Next]_vars PROVE WorkersBounded'
<1> USE ServingAssumption DEF ServingInv, TypeOK, WorkersBounded, RoomInv, EndInv,
    SocketInv, Holding, Registered, Live
<1>1. CASE AcceptLoop
  <2>1. CASE cancelled
    BY <1>1, <2>1 DEF AcceptLoop
  <2>2. CASE ~cancelled
    <3>1. workers' = workers \cap Live /\ Cardinality(workers \cap Live) <= MaxWorkers
      BY <1>1, <2>2, JoinedFacts DEF AcceptLoop, JoinFinished
    <3>2. Live' \subseteq workers'
      BY <1>1, <2>2, <3>1 DEF AcceptLoop, JoinFinished
    <3> QED BY <3>1, <3>2
  <2> QED BY <2>1, <2>2
<1>2. CASE Taken
  <2>1. workers' = workers \cap Live /\ Cardinality(workers \cap Live) <= MaxWorkers
    BY <1>2, JoinedFacts DEF Taken, JoinFinished
  <2>2. Live' \subseteq workers'
    BY <1>2, <2>1 DEF Taken, JoinFinished
  <2> QED BY <2>1, <2>2
<1>3. CASE Dispatch
  <2>1. ~overloaded => IsFiniteSet(workers \cup {cur}) /\ Cardinality(workers \cup {cur}) <= MaxWorkers
    BY <1>3, SpawnedFacts DEF Dispatch
  <2>2. CASE overloaded
    BY <1>3, <2>2 DEF Dispatch
  <2>3. CASE ~overloaded
    <3>1. workers' = workers \cup {cur} /\ wpc' = [wpc EXCEPT ![cur] = "limit"]
      BY <1>3, <2>3 DEF Dispatch
    <3>2. Live' \subseteq workers'
      BY <3>1
    <3> QED BY <2>1, <2>3, <3>1, <3>2
  <2> QED BY <2>2, <2>3
<1>4. CASE Joins
  <2>1. IsFiniteSet({}) /\ Cardinality({}) = 0
    BY FS_EmptySet
  <2> QED BY <1>4, <2>1 DEF Joins, socket, stop, loop, working, watching
<1>5. ASSUME NEW c \in Clients, WorkerPanics(c) PROVE WorkersBounded'
  BY <1>5 DEF WorkerPanics, At, Goes, socket, stop, accepting, watching, loop
<1>6. ASSUME NEW c \in Clients, Limits(c) PROVE WorkersBounded'
  BY <1>6 DEF Limits, At, Goes, elsewhere, socket, stop, accepting, watching,
      loop
<1>7. ASSUME NEW c \in Clients, BeginsRead(c) PROVE WorkersBounded'
  BY <1>7 DEF BeginsRead, At, Goes, elsewhere, socket, stop, accepting, watching,
      loop
<1>8. ASSUME NEW c \in Clients, WorkerChecks(c) PROVE WorkersBounded'
  BY <1>8 DEF WorkerChecks, WriteGoes, At, Goes, elsewhere, socket, stop,
      accepting, watching, loop
<1>9. ASSUME NEW c \in Clients, WorkerEnds(c) PROVE WorkersBounded'
  BY <1>9 DEF WorkerEnds, Disconnects, At, Goes, elsewhere, Ends, accepting,
      watching, loop
<1>10. ASSUME NEW c \in Clients, ReadsRequest(c) PROVE WorkersBounded'
  BY <1>10 DEF ReadsRequest, At, Goes, elsewhere, socket, stop, accepting,
      watching, loop
<1>11. ASSUME NEW c \in Clients, WorkerWrites(c) PROVE WorkersBounded'
  BY <1>11 DEF WorkerWrites, Writes, At, Goes, elsewhere, socket, stop, accepting,
      watching, loop
<1>12. ASSUME NEW c \in Clients, WorkerDeadline(c) PROVE WorkersBounded'
  BY <1>12 DEF WorkerDeadline, Goes, elsewhere, socket, stop, accepting, watching,
      loop
<1>13. CASE UNCHANGED <<workers, wpc>>
  BY <1>13
<1> QED
  BY <1>1, <1>2, <1>3, <1>4, <1>5, <1>6, <1>7, <1>8, <1>9, <1>10, <1>11, <1>12, <1>13
  DEF Next, AcceptStep, WorkerStep, WatchStep, Fault, Accept, Register,
      OverloadChecks, OverloadDrops, Closes, Cancels, JoinsWatch, OverloadWrites,
      OverloadDeadline, WatchReports, WatchCancels, WatchStops, AcceptFails,
      RegisterFails, SpawnFails, WatchFails, Signal, Connects, vars, elsewhere,
      accepting, working

\* Nobody but the accepting thread adds a worker between its count and its
\* spawn.
LEMMA RoomStep ==
    ASSUME ServingInv, [Next]_vars PROVE RoomInv'
<1> USE ServingAssumption DEF ServingInv, TypeOK, RoomInv, SocketInv, Holding,
    Registered, Live
<1>1. CASE AcceptLoop
  <2>1. /\ IsFiniteSet(workers \cap Live)
        /\ Cardinality(workers \cap Live) \in Nat
        /\ Cardinality(workers \cap Live) <= MaxWorkers
    BY JoinedFacts
  <2> QED BY <1>1, <2>1 DEF AcceptLoop, RoundEnds, Returns, JoinFinished, socket,
      stop, loop, watching
<1>2. CASE Accept
  BY <1>2 DEF Accept, stop, loop, working, watching
<1>3. CASE Taken
  <2>1. IsFiniteSet(workers')
    BY <1>3, JoinedFacts DEF Taken, JoinFinished
  <2>2. apc' \in {"register", "registered"} /\ ~overloaded' => Cardinality(workers') < MaxWorkers
    BY <1>3, CountIsKept DEF Taken, JoinFinished, Returns, RoundEnds
  <2> QED BY <2>1, <2>2
<1>4. CASE Register
  BY <1>4 DEF Register, Ends, Returns, socket, working, watching, RoundEnds
<1>5. CASE Dispatch
  <2>1. ~overloaded => IsFiniteSet(workers \cup {cur}) /\ Cardinality(workers \cup {cur}) <= MaxWorkers
    BY <1>5, SpawnedFacts DEF Dispatch
  <2> QED BY <1>5, <2>1 DEF Dispatch, RoundEnds, socket, stop, loop, watching
<1>6. CASE OverloadChecks
  BY <1>6 DEF OverloadChecks, WriteGoes, socket, stop, loop, working, watching
<1>7. CASE OverloadDrops
  BY <1>7 DEF OverloadDrops, Disconnects, RoundEnds, loop, watching, Ends
<1>8. CASE Closes
  BY <1>8 DEF Closes, stop, working, watching
<1>9. CASE Cancels
  BY <1>9 DEF Cancels, Cancel, loop, working, watching
<1>10. CASE Joins
  <2>1. IsFiniteSet({}) /\ Cardinality({}) = 0
    BY FS_EmptySet
  <2> QED BY <1>10, <2>1 DEF Joins, socket, stop, loop, working, watching
<1>11. CASE JoinsWatch
  BY <1>11 DEF JoinsWatch, socket, stop, loop, working, watching
<1>12. CASE OverloadWrites
  BY <1>12 DEF OverloadWrites, Writes, socket, stop, loop, watching
<1>13. CASE OverloadDeadline
  BY <1>13 DEF OverloadDeadline, socket, stop, loop, working, watching
<1>14. CASE AcceptFails
  BY <1>14 DEF AcceptFails, Returns, socket, stop, working, watching, RoundEnds
<1>15. CASE RegisterFails
  BY <1>15 DEF RegisterFails, Ends, Returns, stop, working, watching, RoundEnds
<1>16. CASE SpawnFails
  BY <1>16 DEF SpawnFails, Disconnects, Returns, watching, Ends, RoundEnds
<1>17. CASE UNCHANGED <<workers, apc, overloaded>>
  BY <1>17
<1> QED
  BY <1>1, <1>2, <1>3, <1>4, <1>5, <1>6, <1>7, <1>8, <1>9, <1>10, <1>11, <1>12, <1>13,
     <1>14, <1>15, <1>16, <1>17
  DEF Next, AcceptStep, WorkerStep, WatchStep, Fault, WatchReports, WatchCancels,
      WatchStops, WatchFails, Signal, WorkerPanics, Limits, BeginsRead,
      WorkerChecks, WorkerEnds, ReadsRequest, WorkerWrites, WorkerDeadline, Connects,
      vars, elsewhere, loop, accepting

\* A connection has one thread, and its registration goes with its socket.
LEMMA SocketStep ==
    ASSUME ServingInv, [Next]_vars PROVE SocketInv'
<1> USE ServingAssumption DEF ServingInv, TypeOK, SocketInv, Holding, Registered,
    Live
<1>1. CASE AcceptLoop
  BY <1>1 DEF AcceptLoop, RoundEnds, Returns, JoinFinished, socket, stop, loop,
      watching
<1>2. CASE Accept
  BY <1>2 DEF Accept, stop, loop, working, watching
<1>3. CASE Taken
  BY <1>3 DEF Taken, Ends, Returns, JoinFinished, Full, socket, stop, watching,
      RoundEnds
<1>4. CASE Register
  BY <1>4 DEF Register, Ends, Returns, socket, working, watching, RoundEnds
<1>5. CASE Dispatch
  BY <1>5 DEF Dispatch, RoundEnds, socket, stop, loop, watching
<1>6. CASE OverloadChecks
  BY <1>6 DEF OverloadChecks, WriteGoes, socket, stop, loop, working, watching
<1>7. CASE OverloadDrops
  BY <1>7 DEF OverloadDrops, Disconnects, RoundEnds, loop, watching, Ends
<1>8. CASE Closes
  BY <1>8 DEF Closes, stop, working, watching
<1>9. CASE Cancels
  BY <1>9 DEF Cancels, Cancel, loop, working, watching
<1>10. CASE Joins
  BY <1>10 DEF Joins, socket, stop, loop, working, watching
<1>11. CASE JoinsWatch
  BY <1>11 DEF JoinsWatch, socket, stop, loop, working, watching
<1>12. CASE OverloadWrites
  BY <1>12 DEF OverloadWrites, Writes, socket, stop, loop, watching
<1>13. CASE OverloadDeadline
  BY <1>13 DEF OverloadDeadline, socket, stop, loop, working, watching
<1>14. CASE AcceptFails
  BY <1>14 DEF AcceptFails, Returns, socket, stop, working, watching, RoundEnds
<1>15. CASE RegisterFails
  BY <1>15 DEF RegisterFails, Ends, Returns, stop, working, watching, RoundEnds
<1>16. CASE SpawnFails
  BY <1>16 DEF SpawnFails, Disconnects, Returns, watching, Ends, RoundEnds
<1>17. ASSUME NEW c \in Clients, WorkerPanics(c) PROVE SocketInv'
  BY <1>17 DEF WorkerPanics, At, Goes, socket, stop, accepting, watching, loop
<1>18. ASSUME NEW c \in Clients, Limits(c) PROVE SocketInv'
  BY <1>18 DEF Limits, At, Goes, elsewhere, socket, stop, accepting, watching,
      loop
<1>19. ASSUME NEW c \in Clients, BeginsRead(c) PROVE SocketInv'
  BY <1>19 DEF BeginsRead, At, Goes, elsewhere, socket, stop, accepting, watching,
      loop
<1>20. ASSUME NEW c \in Clients, WorkerChecks(c) PROVE SocketInv'
  BY <1>20 DEF WorkerChecks, WriteGoes, At, Goes, elsewhere, socket, stop,
      accepting, watching, loop
<1>21. ASSUME NEW c \in Clients, WorkerEnds(c) PROVE SocketInv'
  BY <1>21 DEF WorkerEnds, Disconnects, At, Goes, elsewhere, Ends, accepting,
      watching, loop
<1>22. ASSUME NEW c \in Clients, ReadsRequest(c) PROVE SocketInv'
  BY <1>22 DEF ReadsRequest, At, Goes, elsewhere, socket, stop, accepting,
      watching, loop
<1>23. ASSUME NEW c \in Clients, WorkerWrites(c) PROVE SocketInv'
  BY <1>23 DEF WorkerWrites, Writes, At, Goes, elsewhere, socket, stop, accepting,
      watching, loop
<1>24. ASSUME NEW c \in Clients, WorkerDeadline(c) PROVE SocketInv'
  BY <1>24 DEF WorkerDeadline, Goes, elsewhere, socket, stop, accepting, watching,
      loop
<1>25. ASSUME NEW c \in Clients, Connects(c) PROVE SocketInv'
  BY <1>25 DEF Connects, stop, accepting, working, watching, loop
<1>26. CASE UNCHANGED <<conn, sockets, apc, cur, wpc>>
  BY <1>26
<1> QED
  BY <1>1, <1>2, <1>3, <1>4, <1>5, <1>6, <1>7, <1>8, <1>9, <1>10, <1>11, <1>12, <1>13,
     <1>14, <1>15, <1>16, <1>17, <1>18, <1>19, <1>20, <1>21, <1>22, <1>23, <1>24, <1>25, <1>26
  DEF Next, AcceptStep, WorkerStep, WatchStep, Fault, WatchReports, WatchCancels,
      WatchStops, WatchFails, Signal, vars, elsewhere, socket, stop, loop,
      accepting, working

\* A write goes to a registered socket, and none is registered once the flag
\* is set.
LEMMA AnswerStep ==
    ASSUME ServingInv, [Next]_vars PROVE AnswerInv'
<1> USE ServingAssumption DEF ServingInv, TypeOK, AnswerInv, SocketInv, Holding,
    Registered, Live
<1>1. CASE AcceptLoop
  BY <1>1 DEF AcceptLoop, RoundEnds, Returns, JoinFinished, socket, stop, loop,
      watching
<1>2. CASE Accept
  BY <1>2 DEF Accept, stop, loop, working, watching
<1>3. CASE Taken
  BY <1>3 DEF Taken, Ends, Returns, JoinFinished, Full, socket, stop, watching,
      RoundEnds
<1>4. CASE Register
  BY <1>4 DEF Register, Ends, Returns, socket, working, watching, RoundEnds
<1>5. CASE Dispatch
  BY <1>5 DEF Dispatch, RoundEnds, socket, stop, loop, watching
<1>6. CASE OverloadChecks
  BY <1>6 DEF OverloadChecks, WriteGoes, socket, stop, loop, working, watching
<1>7. CASE OverloadDrops
  BY <1>7 DEF OverloadDrops, Disconnects, RoundEnds, loop, watching, Ends
<1>8. CASE Closes
  BY <1>8 DEF Closes, stop, working, watching
<1>9. CASE Cancels
  BY <1>9 DEF Cancels, Cancel, loop, working, watching
<1>10. CASE Joins
  BY <1>10 DEF Joins, socket, stop, loop, working, watching
<1>11. CASE JoinsWatch
  BY <1>11 DEF JoinsWatch, socket, stop, loop, working, watching
<1>12. CASE OverloadWrites
  BY <1>12 DEF OverloadWrites, Writes, socket, stop, loop, watching
<1>13. CASE OverloadDeadline
  BY <1>13 DEF OverloadDeadline, socket, stop, loop, working, watching
<1>14. CASE WatchCancels
  BY <1>14 DEF WatchCancels, Cancel, accepting, working, loop
<1>15. CASE AcceptFails
  BY <1>15 DEF AcceptFails, Returns, socket, stop, working, watching, RoundEnds
<1>16. CASE RegisterFails
  BY <1>16 DEF RegisterFails, Ends, Returns, stop, working, watching, RoundEnds
<1>17. CASE SpawnFails
  BY <1>17 DEF SpawnFails, Disconnects, Returns, watching, Ends, RoundEnds
<1>18. CASE Signal
  BY <1>18 DEF Signal, Cancel, accepting, working, loop
<1>19. ASSUME NEW c \in Clients, WorkerPanics(c) PROVE AnswerInv'
  BY <1>19 DEF WorkerPanics, At, Goes, socket, stop, accepting, watching, loop
<1>20. ASSUME NEW c \in Clients, Limits(c) PROVE AnswerInv'
  BY <1>20 DEF Limits, At, Goes, elsewhere, socket, stop, accepting, watching,
      loop
<1>21. ASSUME NEW c \in Clients, BeginsRead(c) PROVE AnswerInv'
  BY <1>21 DEF BeginsRead, At, Goes, elsewhere, socket, stop, accepting, watching,
      loop
<1>22. ASSUME NEW c \in Clients, WorkerChecks(c) PROVE AnswerInv'
  BY <1>22 DEF WorkerChecks, WriteGoes, At, Goes, elsewhere, socket, stop,
      accepting, watching, loop
<1>23. ASSUME NEW c \in Clients, WorkerEnds(c) PROVE AnswerInv'
  BY <1>23 DEF WorkerEnds, Disconnects, At, Goes, elsewhere, Ends, accepting,
      watching, loop
<1>24. ASSUME NEW c \in Clients, ReadsRequest(c) PROVE AnswerInv'
  BY <1>24 DEF ReadsRequest, At, Goes, elsewhere, socket, stop, accepting,
      watching, loop
<1>25. ASSUME NEW c \in Clients, WorkerWrites(c) PROVE AnswerInv'
  BY <1>25 DEF WorkerWrites, Writes, At, Goes, elsewhere, socket, stop, accepting,
      watching, loop
<1>26. ASSUME NEW c \in Clients, WorkerDeadline(c) PROVE AnswerInv'
  BY <1>26 DEF WorkerDeadline, Goes, elsewhere, socket, stop, accepting, watching,
      loop
<1>27. CASE UNCHANGED <<shut, cancelled, sockets, apc, cur, wpc, parts>>
  BY <1>27
<1> QED
  BY <1>1, <1>2, <1>3, <1>4, <1>5, <1>6, <1>7, <1>8, <1>9, <1>10, <1>11, <1>12, <1>13,
     <1>14, <1>15, <1>16, <1>17, <1>18, <1>19, <1>20, <1>21, <1>22, <1>23, <1>24, <1>25, <1>26,
     <1>27
  DEF Next, AcceptStep, WorkerStep, WatchStep, Fault, WatchReports, WatchStops,
      WatchFails, Connects, vars, elsewhere, socket, stop, loop, accepting,
      working

\* The end goes through its stages once.
LEMMA EndStep ==
    ASSUME ServingInv, [Next]_vars PROVE EndInv'
<1> USE ServingAssumption DEF ServingInv, TypeOK, EndInv, WorkersBounded, SocketInv,
    Holding, Registered, Live
<1>1. CASE AcceptLoop
  BY <1>1 DEF AcceptLoop, RoundEnds, Returns, JoinFinished, socket, stop, loop,
      watching
<1>2. CASE Accept
  BY <1>2 DEF Accept, stop, loop, working, watching
<1>3. CASE Taken
  BY <1>3 DEF Taken, Ends, Returns, JoinFinished, Full, socket, stop, watching,
      RoundEnds
<1>4. CASE Register
  BY <1>4 DEF Register, Ends, Returns, socket, working, watching, RoundEnds
<1>5. CASE Dispatch
  BY <1>5 DEF Dispatch, RoundEnds, socket, stop, loop, watching
<1>6. CASE OverloadChecks
  BY <1>6 DEF OverloadChecks, WriteGoes, socket, stop, loop, working, watching
<1>7. CASE OverloadDrops
  BY <1>7 DEF OverloadDrops, Disconnects, RoundEnds, loop, watching, Ends
<1>8. CASE Closes
  BY <1>8 DEF Closes, stop, working, watching
<1>9. CASE Cancels
  BY <1>9 DEF Cancels, Cancel, loop, working, watching
<1>10. CASE Joins
  BY <1>10 DEF Joins, socket, stop, loop, working, watching
<1>11. CASE JoinsWatch
  BY <1>11 DEF JoinsWatch, socket, stop, loop, working, watching
<1>12. CASE OverloadWrites
  BY <1>12 DEF OverloadWrites, Writes, socket, stop, loop, watching
<1>13. CASE OverloadDeadline
  BY <1>13 DEF OverloadDeadline, socket, stop, loop, working, watching
<1>14. CASE WatchCancels
  BY <1>14 DEF WatchCancels, Cancel, accepting, working, loop
<1>15. CASE AcceptFails
  BY <1>15 DEF AcceptFails, Returns, socket, stop, working, watching, RoundEnds
<1>16. CASE RegisterFails
  BY <1>16 DEF RegisterFails, Ends, Returns, stop, working, watching, RoundEnds
<1>17. CASE SpawnFails
  BY <1>17 DEF SpawnFails, Disconnects, Returns, watching, Ends, RoundEnds
<1>18. CASE Signal
  BY <1>18 DEF Signal, Cancel, accepting, working, loop
<1>19. ASSUME NEW c \in Clients, WorkerPanics(c) PROVE EndInv'
  BY <1>19 DEF WorkerPanics, At, Goes, socket, stop, accepting, watching, loop
<1>20. ASSUME NEW c \in Clients, Limits(c) PROVE EndInv'
  BY <1>20 DEF Limits, At, Goes, elsewhere, socket, stop, accepting, watching,
      loop
<1>21. ASSUME NEW c \in Clients, BeginsRead(c) PROVE EndInv'
  BY <1>21 DEF BeginsRead, At, Goes, elsewhere, socket, stop, accepting, watching,
      loop
<1>22. ASSUME NEW c \in Clients, WorkerChecks(c) PROVE EndInv'
  BY <1>22 DEF WorkerChecks, WriteGoes, At, Goes, elsewhere, socket, stop,
      accepting, watching, loop
<1>23. ASSUME NEW c \in Clients, WorkerEnds(c) PROVE EndInv'
  BY <1>23 DEF WorkerEnds, Disconnects, At, Goes, elsewhere, Ends, accepting,
      watching, loop
<1>24. ASSUME NEW c \in Clients, ReadsRequest(c) PROVE EndInv'
  BY <1>24 DEF ReadsRequest, At, Goes, elsewhere, socket, stop, accepting,
      watching, loop
<1>25. ASSUME NEW c \in Clients, WorkerWrites(c) PROVE EndInv'
  BY <1>25 DEF WorkerWrites, Writes, At, Goes, elsewhere, socket, stop, accepting,
      watching, loop
<1>26. ASSUME NEW c \in Clients, WorkerDeadline(c) PROVE EndInv'
  BY <1>26 DEF WorkerDeadline, Goes, elsewhere, socket, stop, accepting, watching,
      loop
<1>27. ASSUME NEW c \in Clients, Connects(c) PROVE EndInv'
  BY <1>27 DEF Connects, stop, accepting, working, watching, loop
<1>28. CASE UNCHANGED <<listener, conn, cancelled, apc, wpc>>
  BY <1>28
<1> QED
  BY <1>1, <1>2, <1>3, <1>4, <1>5, <1>6, <1>7, <1>8, <1>9, <1>10, <1>11, <1>12, <1>13,
     <1>14, <1>15, <1>16, <1>17, <1>18, <1>19, <1>20, <1>21, <1>22, <1>23, <1>24, <1>25, <1>26,
     <1>27, <1>28
  DEF Next, AcceptStep, WorkerStep, WatchStep, Fault, WatchReports, WatchStops,
      WatchFails, vars, elsewhere, socket, stop, loop, accepting, working

\* No failure is lost on its way into the code, and no other makes it Failed.
LEMMA CodeStep ==
    ASSUME ServingInv, [Next]_vars PROVE CodeInv'
<1> USE ServingAssumption DEF ServingInv, TypeOK, CodeInv, EndInv, Failure, Ended,
    SocketInv, Holding, Registered, Live
<1>1. CASE AcceptLoop
  BY <1>1 DEF AcceptLoop, RoundEnds, Returns, JoinFinished, socket, stop, loop,
      watching
<1>2. CASE Accept
  BY <1>2 DEF Accept, stop, loop, working, watching
<1>3. CASE Taken
  BY <1>3 DEF Taken, Ends, Returns, JoinFinished, Full, socket, stop, watching,
      RoundEnds
<1>4. CASE Register
  BY <1>4 DEF Register, Ends, Returns, socket, working, watching, RoundEnds
<1>5. CASE Dispatch
  BY <1>5 DEF Dispatch, RoundEnds, socket, stop, loop, watching
<1>6. CASE OverloadChecks
  BY <1>6 DEF OverloadChecks, WriteGoes, socket, stop, loop, working, watching
<1>7. CASE OverloadDrops
  BY <1>7 DEF OverloadDrops, Disconnects, RoundEnds, loop, watching, Ends
<1>8. CASE Closes
  BY <1>8 DEF Closes, stop, working, watching
<1>9. CASE Cancels
  BY <1>9 DEF Cancels, Cancel, loop, working, watching
<1>10. CASE Joins
  BY <1>10 DEF Joins, socket, stop, loop, working, watching
<1>11. CASE JoinsWatch
  BY <1>11 DEF JoinsWatch, socket, stop, loop, working, watching
<1>12. CASE OverloadWrites
  BY <1>12 DEF OverloadWrites, Writes, socket, stop, loop, watching
<1>13. CASE OverloadDeadline
  BY <1>13 DEF OverloadDeadline, socket, stop, loop, working, watching
<1>14. CASE WatchReports
  BY <1>14 DEF WatchReports, socket, stop, accepting, working, loop
<1>15. CASE WatchCancels
  BY <1>15 DEF WatchCancels, Cancel, accepting, working, loop
<1>16. CASE WatchStops
  BY <1>16 DEF WatchStops, socket, stop, accepting, working, watching, loop
<1>17. CASE AcceptFails
  BY <1>17 DEF AcceptFails, Returns, socket, stop, working, watching, RoundEnds
<1>18. CASE RegisterFails
  BY <1>18 DEF RegisterFails, Ends, Returns, stop, working, watching, RoundEnds
<1>19. CASE SpawnFails
  BY <1>19 DEF SpawnFails, Disconnects, Returns, watching, Ends, RoundEnds
<1>20. CASE WatchFails
  BY <1>20 DEF WatchFails, socket, stop, accepting, working, watching, loop
<1>21. CASE Signal
  BY <1>21 DEF Signal, Cancel, accepting, working, loop
<1>22. ASSUME NEW c \in Clients, WorkerPanics(c) PROVE CodeInv'
  BY <1>22 DEF WorkerPanics, At, Goes, socket, stop, accepting, watching, loop
<1>23. ASSUME NEW c \in Clients, Limits(c) PROVE CodeInv'
  BY <1>23 DEF Limits, At, Goes, elsewhere, socket, stop, accepting, watching,
      loop
<1>24. ASSUME NEW c \in Clients, BeginsRead(c) PROVE CodeInv'
  BY <1>24 DEF BeginsRead, At, Goes, elsewhere, socket, stop, accepting, watching,
      loop
<1>25. ASSUME NEW c \in Clients, WorkerChecks(c) PROVE CodeInv'
  BY <1>25 DEF WorkerChecks, WriteGoes, At, Goes, elsewhere, socket, stop,
      accepting, watching, loop
<1>26. ASSUME NEW c \in Clients, WorkerEnds(c) PROVE CodeInv'
  BY <1>26 DEF WorkerEnds, Disconnects, At, Goes, elsewhere, Ends, accepting,
      watching, loop
<1>27. ASSUME NEW c \in Clients, ReadsRequest(c) PROVE CodeInv'
  BY <1>27 DEF ReadsRequest, At, Goes, elsewhere, socket, stop, accepting,
      watching, loop
<1>28. ASSUME NEW c \in Clients, WorkerWrites(c) PROVE CodeInv'
  BY <1>28 DEF WorkerWrites, Writes, At, Goes, elsewhere, socket, stop, accepting,
      watching, loop
<1>29. ASSUME NEW c \in Clients, WorkerDeadline(c) PROVE CodeInv'
  BY <1>29 DEF WorkerDeadline, Goes, elsewhere, socket, stop, accepting, watching,
      loop
<1>30. CASE UNCHANGED <<cancelled, apc, wpc, panicked, watch, publicFailed, asked, result, faults>>
  BY <1>30
<1> QED
  BY <1>1, <1>2, <1>3, <1>4, <1>5, <1>6, <1>7, <1>8, <1>9, <1>10, <1>11, <1>12, <1>13,
     <1>14, <1>15, <1>16, <1>17, <1>18, <1>19, <1>20, <1>21, <1>22, <1>23, <1>24, <1>25, <1>26,
     <1>27, <1>28, <1>29, <1>30
  DEF Next, AcceptStep, WorkerStep, WatchStep, Fault, Connects, vars, elsewhere,
      stop, accepting, working, watching

-----------------------------------------------------------------------------
\* A connection that is gone is in nobody's books: its registration, and with
\* it what is shut down or written, went with its thread.
LEMMA TypeStep ==
    ASSUME ServingInv, [Next]_vars PROVE TypeOK'
<1>1. Flags' /\ Places' /\ Sets' /\ Tables' /\ SocketInv' /\ AnswerInv'
  BY FlagsStep, PlacesStep, SetsStep, TablesStep, SocketStep, AnswerStep
<1>2. \A c \in Clients : (conn[c] = "none" => c \notin sockets \cup shut /\ parts[c] = 0)'
  BY <1>1 DEF SocketInv, AnswerInv, Holding, Registered, Live
<1> QED BY <1>1, <1>2 DEF TypeOK, Flags, Places, Sets, Tables

\* A process that is ready has no connection, no worker and no failure yet.
LEMMA ServingInit == ASSUME Init PROVE ServingInv
<1>1. TypeOK
  <2>1. Flags
    BY DEF Init, Flags
  <2>2. Places /\ Sets
    BY DEF Init, Places, Sets
  <2>3. Tables
    BY DEF Init, Tables
  <2>4. \A c \in Clients : c \notin sockets \cup shut /\ parts[c] = 0
    BY DEF Init
  <2> QED BY <2>1, <2>2, <2>3, <2>4 DEF TypeOK, Flags, Places, Sets, Tables
<1>2. SocketInv /\ AnswerInv
  BY DEF Init, SocketInv, AnswerInv, Holding, Registered, Live
<1>3. WorkersBounded /\ RoomInv
  <2>1. IsFiniteSet({}) /\ Cardinality({}) = 0
    BY FS_EmptySet
  <2> QED BY <2>1, ServingAssumption DEF Init, WorkersBounded, RoomInv, Live
<1>4. EndInv /\ CodeInv
  BY DEF Init, EndInv, CodeInv, Failure, Ended
<1> QED BY <1>1, <1>2, <1>3, <1>4 DEF ServingInv

\* Every step of every thread, every fault and every signal keeps all parts.
LEMMA ServingStep == ASSUME ServingInv, [Next]_vars PROVE ServingInv'
  BY TypeStep, WorkersStep, SocketStep, AnswerStep, RoomStep, EndStep, CodeStep DEF ServingInv

\* The inductive invariant: who owns which connection, what is registered and
\* shut down, what the accepting thread counted, and who still has to report
\* which failure.
THEOREM ServingInvariant == Spec => []ServingInv
  BY ServingInit, ServingStep, PTL DEF Spec

\* For any number of connections, workers and failures: never more than
\* MAX_WORKERS threads, nothing left once serve is through its joins, and a
\* code that says Stopped exactly when a stop was asked for and nothing failed.
THEOREM StopAlwaysClean == Spec => []StopIsClean
<1>1. ASSUME ServingInv, apc \in {"watch", "done"}
      PROVE  Live = {} /\ sockets = {} /\ ~listener /\ \A c \in Clients : conn[c] = "none"
  <2>1. Live = {} /\ ~listener /\ \A c \in Clients : conn[c] # "queued"
    BY <1>1 DEF ServingInv, EndInv
  <2>2. cur = None /\ ~Registered
    BY <1>1 DEF ServingInv, SocketInv, Holding, Registered
  <2>3. None \notin Clients
    BY ServingAssumption
  <2>4. \A c \in Clients : conn[c] # "taken" /\ c \notin sockets
    BY <1>1, <2>1, <2>2, <2>3 DEF ServingInv, SocketInv
  <2>5. sockets \subseteq Clients /\ conn \in [Clients -> {"none", "queued", "taken"}]
    BY <1>1 DEF ServingInv, TypeOK
  <2> QED BY <2>1, <2>4, <2>5
<1>2. ServingInv => CodeIsHonest
  BY DEF ServingInv, CodeInv, CodeIsHonest, Failure, Ended
<1>3. ServingInv => StopIsClean
  BY <1>1, <1>2 DEF ServingInv, StopIsClean, NothingLeft
<1> QED BY <1>3, ServingInvariant, PTL

\* A thread that looked at the flag in time still writes to a socket that is
\* registered, and those are shut down by then.
LEMMA NoWriteAfterCancel ==
    ASSUME ServingInv, [Next]_vars, cancelled, NEW d \in Clients
    PROVE  parts'[d] <= parts[d]
<1> USE DEF ServingInv, TypeOK, SocketInv, AnswerInv, Holding, Registered, Live
<1>1. CASE OverloadWrites
  BY <1>1 DEF OverloadWrites, Writes
<1>2. ASSUME NEW c \in Clients, WorkerWrites(c) PROVE parts'[d] <= parts[d]
  BY <1>2 DEF WorkerWrites, Writes, At
<1>3. CASE OverloadDrops \/ SpawnFails
  <2>1. parts' = [parts EXCEPT ![cur] = 0] /\ parts[d] \in 0 .. 2
    BY <1>3 DEF OverloadDrops, SpawnFails, Disconnects
  <2> QED BY <2>1
<1>4. ASSUME NEW c \in Clients, WorkerEnds(c) PROVE parts'[d] <= parts[d]
  BY <1>4 DEF WorkerEnds, Disconnects
<1>5. ASSUME UNCHANGED parts PROVE parts'[d] <= parts[d]
  BY <1>5
<1>6. \/ OverloadWrites \/ OverloadDrops \/ SpawnFails \/ UNCHANGED parts
      \/ \E c \in Clients : WorkerWrites(c) \/ WorkerEnds(c)
  BY DEF Next, AcceptStep, WorkerStep, WatchStep, Fault, vars, working,
    AcceptLoop, Accept, Taken, Register, Dispatch, OverloadChecks, Closes, Cancels,
    Joins, JoinsWatch, OverloadDeadline, WatchReports, WatchCancels, WatchStops,
    AcceptFails, RegisterFails, WatchFails, Signal, WorkerPanics, Limits, BeginsRead,
    WorkerChecks, ReadsRequest, WorkerDeadline, Connects
<1> QED BY <1>1, <1>2, <1>3, <1>4, <1>5, <1>6

\* After a cancellation no thread adds to an answer, however long ago it
\* looked at the flag.
THEOREM NothingWrittenAfterCancel == Spec => NothingAfterCancel
<1>1. ASSUME ServingInv, [Next]_vars
      PROVE  [cancelled => \A c \in Clients : parts'[c] <= parts[c]]_vars
  BY <1>1, NoWriteAfterCancel
<1> QED BY <1>1, ServingInvariant, PTL DEF Spec, NothingAfterCancel

=============================================================================
