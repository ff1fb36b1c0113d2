----------------------------- MODULE RateLimit -----------------------------
(***************************************************************************)
(* The counter of calls behind every route (backend/src/modules/           *)
(* rate-limit), for one key: a document with a count and the end of its    *)
(* window, shared by invocations that run in parallel.                     *)
(*                                                                         *)
(* A CALL reads the clock, then counts itself in the open window, or opens *)
(* one with an upsert on the unique key.  The upsert looks for the         *)
(* document and, when there is none, inserts it; when another call         *)
(* inserted it in between, the insertion collides and the call is counted  *)
(* in the other's window.  The database sweeps ended windows when it       *)
(* likes.  Left out: the headers of the answer, and which rule and which   *)
(* identity make the key.                                                  *)
(***************************************************************************)
EXTENDS Integers, FiniteSets

CONSTANTS
    Calls,      \* calls that come with this key
    Limit,      \* calls the rule lets through in a window
    Length,     \* length of a window, in ticks
    Horizon     \* bound: the last tick the model looks at

ASSUME RateAssumption ==
    Limit \in Nat \ {0} /\ Length \in Nat \ {0} /\ Horizon \in Nat

VARIABLES
    clock,
    count,      \* the count of the document; 0 when there is none
    expires,    \* the end of its window
    cpc,        \* where each call is
    now,        \* the tick each call read
    totalHits,  \* the record it was answered with: its place in the window,
    until,      \* and the end of that window
    (***********************************************************************)
    (* History variables: no line of the code keeps them.                  *)
    (***********************************************************************)
    opening,    \* openings so far
    counted,    \* the opening each call was counted after
    collided    \* calls whose insertion collided with another's

localVars == <<now, totalHits, until>>
historyVars == <<opening, counted, collided>>
vars == <<clock, count, expires, cpc, localVars, historyVars>>

-----------------------------------------------------------------------------
TypeOK ==
    /\ clock \in 0..Horizon
    /\ count \in 0..Cardinality(Calls)
    /\ expires \in 0..(Horizon + Length)
    /\ cpc \in [Calls -> {"idle", "counting", "upserting", "inserting", "sharing", "done"}]
    /\ now \in [Calls -> 0..Horizon]
    /\ totalHits \in [Calls -> 0..Cardinality(Calls)]
    /\ until \in [Calls -> 0..(Horizon + Length)]
    /\ opening \in 0..Cardinality(Calls)
    /\ counted \in [Calls -> 0..Cardinality(Calls)]
    /\ collided \subseteq Calls

Init ==
    /\ clock = 0
    /\ count = 0 /\ expires = 0
    /\ cpc = [c \in Calls |-> "idle"]
    /\ now = [c \in Calls |-> 0]
    /\ totalHits = [c \in Calls |-> 0]
    /\ until = [c \in Calls |-> 0]
    /\ opening = 0
    /\ counted = [c \in Calls |-> 0]
    /\ collided = {}

Exists == count > 0
Goto(c, step) == cpc' = [cpc EXCEPT ![c] = step]

\* What the update returns, returnDocument: 'after', is what the call is
\* answered with.
Answer(c) ==
    /\ Goto(c, "done")
    /\ totalHits' = [totalHits EXCEPT ![c] = count']
    /\ until' = [until EXCEPT ![c] = expires']
    /\ counted' = [counted EXCEPT ![c] = opening']
    /\ UNCHANGED <<clock, now, collided>>

\* isBlocked
Blocked(c) == cpc[c] = "done" /\ totalHits[c] > Limit
Admitted(c) == cpc[c] = "done" /\ totalHits[c] <= Limit

-----------------------------------------------------------------------------
Arrive(c) ==
    /\ cpc[c] = "idle"
    /\ now' = [now EXCEPT ![c] = clock]
    /\ Goto(c, "counting")
    /\ UNCHANGED <<clock, count, expires, totalHits, until, historyVars>>

InWindow(c) == Exists /\ expires > now[c]

\* Mutant of CountIn: the filter forgets expiresAt.
CountInAny(c) ==
    /\ cpc[c] = "counting"
    /\ Exists
    /\ count' = count + 1
    /\ UNCHANGED <<expires, opening>>
    /\ Answer(c)

\* increment: the update that finds the window open counts the call in it.
CountIn(c) ==
    /\ cpc[c] = "counting"
    /\ InWindow(c)
    /\ count' = count + 1
    /\ UNCHANGED <<expires, opening>>
    /\ Answer(c)

NoWindow(c) ==
    /\ cpc[c] = "counting"
    /\ ~InWindow(c)
    /\ Goto(c, "upserting")
    /\ UNCHANGED <<clock, count, expires, localVars, historyVars>>

\* Mutant of Opens: the window that is reused keeps its count.
OpensOnTop(c) ==
    /\ count' = count + 1
    /\ expires' = now[c] + Length
    /\ opening' = opening + 1
    /\ Answer(c)

\* openWindow: $set count 1 and a new end, on a document that may be the one an
\* ended window left or the window another call has just opened.
Opens(c) ==
    /\ count' = 1
    /\ expires' = now[c] + Length
    /\ opening' = opening + 1
    /\ Answer(c)

Reopen(c) == cpc[c] = "upserting" /\ Exists /\ Opens(c)

FindNone(c) ==
    /\ cpc[c] = "upserting" /\ ~Exists
    /\ Goto(c, "inserting")
    /\ UNCHANGED <<clock, count, expires, localVars, historyVars>>

Insert(c) == cpc[c] = "inserting" /\ ~Exists /\ Opens(c)

Collide(c) ==
    /\ cpc[c] = "inserting" /\ Exists
    /\ collided' = collided \cup {c}
    /\ Goto(c, "sharing")
    /\ UNCHANGED <<clock, count, expires, localVars, opening, counted>>

\* Mutant of Share: the call that collided is answered as if it had opened.
ShareAsFirst(c) ==
    /\ cpc[c] = "sharing" /\ Exists
    /\ Goto(c, "done")
    /\ totalHits' = [totalHits EXCEPT ![c] = 1]
    /\ until' = [until EXCEPT ![c] = expires]
    /\ counted' = [counted EXCEPT ![c] = opening]
    /\ UNCHANGED <<clock, count, expires, now, opening, collided>>

Share(c) ==
    /\ cpc[c] = "sharing" /\ Exists
    /\ count' = count + 1
    /\ UNCHANGED <<expires, opening>>
    /\ Answer(c)

\* Mutant of ShareNone: the call asks again until there is a window.
ShareWaits(c) == cpc[c] = "sharing" /\ ~Exists /\ UNCHANGED vars

\* The window it collided with is gone already: the call lets itself through,
\* and nothing counts it.
ShareNone(c) ==
    /\ cpc[c] = "sharing" /\ ~Exists
    /\ Goto(c, "done")
    /\ totalHits' = [totalHits EXCEPT ![c] = 1]
    /\ until' = [until EXCEPT ![c] = now[c] + Length]
    /\ UNCHANGED <<clock, count, expires, now, historyVars>>

-----------------------------------------------------------------------------
Tick ==
    /\ clock < Horizon
    /\ clock' = clock + 1
    /\ UNCHANGED <<count, expires, cpc, localVars, historyVars>>

\* The TTL index.
Sweep ==
    /\ Exists /\ expires <= clock
    /\ count' = 0 /\ expires' = 0
    /\ UNCHANGED <<clock, cpc, localVars, historyVars>>

Call(c) ==
    \/ Arrive(c) \/ CountIn(c) \/ NoWindow(c) \/ Reopen(c) \/ FindNone(c)
    \/ Insert(c) \/ Collide(c) \/ Share(c) \/ ShareNone(c)

Next == Tick \/ Sweep \/ \E c \in Calls : Call(c)

\* A call that arrived is answered: the platform runs an invocation on, and no
\* step of it waits for another.
Fairness == \A c \in Calls : WF_vars(cpc[c] # "idle" /\ Call(c))

Spec == Init /\ [][Next]_vars
FairSpec == Spec /\ Fairness

-----------------------------------------------------------------------------
(***************************************************************************)
(* Properties.                                                             *)
(***************************************************************************)

\* No two calls are counted as one: in one opening of the window each has a
\* place of its own, and so at most Limit of them pass.
PlacesAreDistinct ==
    \A c, d \in Calls :
        /\ cpc[c] = "done" /\ counted[c] > 0 /\ counted[d] = counted[c]
        /\ totalHits[c] = totalHits[d]
        => c = d

AdmittedIn(o) == {c \in Calls : Admitted(c) /\ counted[c] = o}

\* A call is refused only when as many as the limit passed since the window it
\* was counted in was opened.
RefusedAreOverLimit ==
    \A c \in Calls : Blocked(c) => Cardinality(AdmittedIn(counted[c])) = Limit

\* A refused call is told when to come back, and one that comes from then on is
\* not counted in the same window, unless its insertion collided with it.
RetryAfterIsHonest ==
    \A c, d \in Calls :
        Blocked(c) /\ cpc[d] = "done" /\ d \notin collided /\ now[d] >= until[c]
            => counted[d] # counted[c]

\* Every call that arrives is answered.
CallsAreAnswered == \A c \in Calls : cpc[c] = "counting" ~> cpc[c] = "done"

-----------------------------------------------------------------------------
(***************************************************************************)
(* Why places are distinct, answers honest and refusals due.               *)
(***************************************************************************)

\* The count of the document is the last place given in the current opening,
\* and a document that was swept comes back only with an opening of its own.
PlacesInv ==
    \A c \in Calls :
        /\ counted[c] <= opening
        /\ counted[c] > 0 => cpc[c] = "done"
        /\ counted[c] = opening /\ counted[c] > 0 /\ Exists => totalHits[c] <= count
        /\ \A d \in Calls :
            counted[c] > 0 /\ counted[d] = counted[c] /\ totalHits[c] = totalHits[d] => c = d
OpenedBefore == Exists => opening > 0

\* All that are counted in one opening are told the same end, and it lies ahead
\* of the time they read; only a collision can share a window that is over.
RetryInv ==
    \A c \in Calls :
        /\ cpc[c] = "sharing" => c \in collided
        /\ cpc[c] = "done" /\ counted[c] = 0 => totalHits[c] = 1
        /\ counted[c] > 0 /\ c \notin collided => now[c] < until[c]
        /\ counted[c] = opening /\ counted[c] > 0 /\ Exists => until[c] = expires
        /\ \A d \in Calls : counted[c] > 0 /\ counted[d] = counted[c] => until[c] = until[d]

\* Places are given one after the other: below each there is every other.
Below(n, o) == \A p \in 1..n : \E d \in Calls : counted[d] = o /\ totalHits[d] = p
RefusalInv ==
    /\ Exists => Below(count, opening)
    /\ \A c \in Calls : counted[c] > 0 => totalHits[c] > 0 /\ Below(totalHits[c], counted[c])

-----------------------------------------------------------------------------
(***************************************************************************)
(* What the repository says of itself, and the code does not do.           *)
(***************************************************************************)

\* mongo-rate-limit.storage.ts: a fixed window lets through at most twice the
\* limit, at the turn from one to the next.
AtMostTwicePerWindow ==
    \A t \in 0..Horizon :
        Cardinality({c \in Calls : Admitted(c) /\ now[c] \in t..(t + Length - 1)}) <= 2 * Limit
=============================================================================
