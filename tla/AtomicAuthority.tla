-------------------------- MODULE AtomicAuthority --------------------------
(***************************************************************************)
(* What src/src/durable.rs promises to the journeys that keep the          *)
(* ownership record in it: one register that advances only along permitted *)
(* successors, that a power loss can move back only to a value that was    *)
(* visible since the last settled one, and that never starts a second      *)
(* unsettled publication on top of an unsettled record.                    *)
(***************************************************************************)
CONSTANTS
    Records,    \* the ownership records, as exact canonical bytes
    Successor,  \* pairs <<r, n>>: a stored record r permits publishing n
    First,      \* records that may be published where no record is installed
    Cleaned,    \* records of a finished cleanup, which may be removed
    None        \* no record installed

VARIABLES
    current,    \* the record every reader sees now, or None
    exposed     \* the records a power loss now could leave behind

authorityVars == <<current, exposed>>

\* The admission rule of OwnershipStore::publish.
Admits(source, next) ==
    IF source = None THEN next \in First ELSE <<source, next>> \in Successor

Init ==
    /\ current \in Records \cup {None}
    /\ exposed = {current}

\* A permitted successor becomes visible.  An installed record has been made
\* durable before it is replaced.
Advance(next) ==
    /\ Admits(current, next)
    /\ current # None => exposed = {current}
    /\ current' = next
    /\ exposed' = exposed \cup {next}

\* The record of a finished cleanup disappears.
Retire ==
    /\ current \in Cleaned
    /\ exposed = {current}
    /\ current' = None
    /\ exposed' = exposed \cup {None}

\* The visible record becomes the only one a power loss can leave.
Settle ==
    /\ exposed' = {current}
    /\ UNCHANGED current

PowerLoss ==
    /\ current' \in exposed
    /\ exposed' = {current'}

Next ==
    \/ \E next \in Records : Advance(next)
    \/ Retire
    \/ Settle
    \/ PowerLoss

Spec == Init /\ [][Next]_authorityVars
=============================================================================
