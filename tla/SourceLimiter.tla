--------------------------- MODULE SourceLimiter ---------------------------
(***************************************************************************)
(* SourceLimiter of src/src/subscription_serving.rs: a bucket of tokens    *)
(* for each address, in a table of bounded size.                           *)
(*                                                                         *)
(* A worker reads the clock before it has the lock of the table, so calls  *)
(* of allow come with times that are out of order.  Tokens are counted in  *)
(* ticks: one token is Refill of them and one comes back with each tick;   *)
(* the code's f64 seconds are taken to be exact.                           *)
(***************************************************************************)
EXTENDS Integers, FiniteSets

CONSTANTS
    NoCall,       \* a thread that is not calling allow
    Sources,      \* remote addresses
    Workers,      \* threads that call allow
    Burst,        \* 6 tokens
    Refill,       \* 10 seconds for one of them
    Idle,         \* SOURCE_IDLE
    MaxSources,   \* MAX_SOURCES
    MaxDelay,     \* the time between a worker's clock and its lock
    MaxTime       \* bound on the clock

Cap == Burst * Refill

\* A source that is forgotten has all its tokens again, with every delay.
ASSUME LimiterAssumption ==
    /\ Burst \in Nat \ {0} /\ Refill \in Nat \ {0} /\ Cap \in Nat
    /\ {MaxSources, MaxDelay, MaxTime} \subseteq Nat
    /\ Idle \in Nat \ {0} /\ Idle >= Cap + MaxDelay
    /\ IsFiniteSet(Sources) /\ NoCall \notin [source : Sources, stamp : Nat]

VARIABLES
    now,          \* the monotonic clock
    entries,      \* SourceLimiter.entries
    calls,        \* what a worker asks: a source, and when it read the clock
    level, fair   \* ideal buckets of a source, see RateBounded and NobodyIsShort

limiterVars == <<now, entries, calls, level, fair>>

Smaller(a, b) == IF a <= b THEN a ELSE b
Larger(a, b) == IF a >= b THEN a ELSE b

Source == [tokens : 0 .. Cap, refill : Nat, last : Nat]

-----------------------------------------------------------------------------
(* allow.                                                                  *)

\* saturating_duration_since.
Since(stamp, earlier) == IF stamp >= earlier THEN stamp - earlier ELSE 0

\* The sources that are not idle at that time.
Retained(stamp) == {s \in DOMAIN entries : Since(stamp, entries[s].last) < Idle}

NoRoom(s, kept) == s \notin kept /\ Cardinality(kept) >= MaxSources

\* Mutant: the time of the last call, also when it is an earlier one.
RefilledBackwards(e, stamp) ==
    [tokens |-> Smaller(e.tokens + Since(stamp, e.refill), Cap), refill |-> stamp, last |-> stamp]

\* Mutant: whole tokens only.
RefilledWhole(e, stamp) ==
    [tokens |-> Smaller(e.tokens + (Since(stamp, e.refill) \div Refill) * Refill, Cap),
     refill |-> Larger(stamp, e.refill), last |-> Larger(stamp, e.last)]

\* What came back since the last call.
Refilled(e, stamp) ==
    [tokens |-> Smaller(e.tokens + Since(stamp, e.refill), Cap),
     refill |-> Larger(stamp, e.refill), last |-> Larger(stamp, e.last)]

\* The entry of s, or a full one.
Entry(s, kept, stamp) ==
    Refilled(IF s \in kept THEN entries[s] ELSE [tokens |-> Cap, refill |-> stamp, last |-> stamp],
             stamp)

\* Mutant: a part of a token is enough.
EnoughPartly(e) == e.tokens > 0

Enough(e) == e.tokens >= Refill

\* entries without the idle ones, and with the entry of s.
Put(s, kept, e) ==
    [x \in kept \cup {s} |-> IF x = s THEN e ELSE entries[x]]

Spends(s) ==
    /\ level' = [level EXCEPT ![s] = @ - Refill]
    /\ fair' = [fair EXCEPT ![s] = @ - Refill]

Allow(w) ==
    /\ calls[w] # NoCall
    /\ LET s == calls[w].source
           stamp == calls[w].stamp
           kept == Retained(stamp)
           e == Entry(s, kept, stamp)
       IN  \/ /\ NoRoom(s, kept)
              /\ entries' = [x \in kept |-> entries[x]] /\ UNCHANGED <<level, fair>>
           \/ /\ ~NoRoom(s, kept) /\ Enough(e)
              /\ entries' = Put(s, kept, [e EXCEPT !.tokens = @ - Refill]) /\ Spends(s)
           \/ /\ ~NoRoom(s, kept) /\ ~Enough(e)
              /\ entries' = Put(s, kept, e) /\ UNCHANGED <<level, fair>>
    /\ calls' = [calls EXCEPT ![w] = NoCall]
    /\ UNCHANGED now

-----------------------------------------------------------------------------
\* A worker of s reads the clock.
ReadClock(w, s) ==
    /\ calls[w] = NoCall
    /\ calls' = [calls EXCEPT ![w] = [source |-> s, stamp |-> now]]
    /\ UNCHANGED <<now, entries, level, fair>>

\* Time goes on, and the ideal buckets get what it brings.
Tick ==
    /\ now < MaxTime
    /\ \A w \in Workers : calls[w] # NoCall => now < calls[w].stamp + MaxDelay
    /\ now' = now + 1
    /\ level' = [s \in Sources |-> Smaller(level[s] + 1, Cap + MaxDelay)]
    /\ fair' = [s \in Sources |-> Smaller(fair[s] + 1, Cap)]
    /\ UNCHANGED <<entries, calls>>

LimiterInit ==
    /\ now = 0
    /\ entries = [s \in {} |-> NoCall]
    /\ calls = [w \in Workers |-> NoCall]
    /\ level = [s \in Sources |-> Cap + MaxDelay]
    /\ fair = [s \in Sources |-> Cap]

LimiterNext ==
    \/ Tick
    \/ \E w \in Workers : Allow(w) \/ \E s \in Sources : ReadClock(w, s)

LimiterSpec == LimiterInit /\ [][LimiterNext]_limiterVars

-----------------------------------------------------------------------------
(* Properties.                                                             *)

\* Clock, buckets and calls have values of their kinds, and no call is older
\* than the delay.
LimiterTypeOK ==
    /\ now \in Nat
    /\ DOMAIN entries \subseteq Sources /\ \A s \in DOMAIN entries : entries[s] \in Source
    /\ calls \in [Workers -> [source : Sources, stamp : Nat] \cup {NoCall}]
    /\ level \in [Sources -> Int] /\ fair \in [Sources -> Int]
    /\ \A w \in Workers :
        calls[w] # NoCall => calls[w].stamp <= now /\ now <= calls[w].stamp + MaxDelay

\* SourceLimiter::allow never lets a source through more often than an ideal
\* bucket that holds the burst and what comes back within the delay, whatever
\* the order of the calls and however often the source is forgotten.
RateBounded == \A s \in Sources : level[s] >= 0

\* The table never holds more than MAX_SOURCES addresses.
TableBounded == Cardinality(DOMAIN entries) <= MaxSources

\* w was answered with a refusal, although the table had room for its source.
Refused(w) ==
    /\ calls[w] # NoCall /\ calls'[w] = NoCall /\ level' = level
    /\ calls[w].source \in DOMAIN entries'

\* A source that is refused has used its tokens: an ideal bucket of the burst
\* has less than one left for it, apart from what came back within the delay.
NobodyIsShort ==
    [][\A w \in Workers : Refused(w) => fair[calls[w].source] < Refill + MaxDelay]_limiterVars

=============================================================================
