------------------------- MODULE NotificationCenter -------------------------
(***************************************************************************)
(* The inbox of packages/notifications and its store: createForUser, which *)
(* coalesces with a recent alert of the same key or creates a row and      *)
(* trims the user's oldest ones, and what the user and the purge of the    *)
(* worker do to the same rows.                                             *)
(*                                                                         *)
(* One statement of the store is one step; between two statements of a     *)
(* call anything else may run.  A call's "now" is read once, when it is    *)
(* made.  The text of an alert is abstracted to its deduplication key.     *)
(***************************************************************************)
EXTENDS Integers, FiniteSets

CONSTANTS
    Callers,          \* who may have one call of createForUser in progress
    Users,
    Keys,             \* deduplication keys
    MaxPerUser,       \* NOTIFICATION_MAX_PER_USER
    DedupWindow,      \* NOTIFICATION_DEDUP_WINDOW_MS
    ReadRetention,    \* NOTIFICATION_READ_OR_DISMISSED_RETENTION_MS
    UnreadRetention,  \* NOTIFICATION_UNREAD_RETENTION_MS
    MaxCallTime,      \* how long a call may last, far less than the retentions
    MaxNotes, MaxTime, MaxUserActions   \* bounds

ASSUME CenterAssumption ==
    /\ IsFiniteSet(Callers)
    /\ MaxPerUser \in Nat \ {0}
    /\ DedupWindow \in Nat /\ ReadRetention \in Nat /\ UnreadRetention \in Nat
    /\ "none" \notin Users \cup Keys
    /\ DedupWindow < ReadRetention /\ ReadRetention < UnreadRetention
    /\ MaxCallTime \in Nat /\ MaxCallTime <= ReadRetention - MaxCallTime

VARIABLES
    clock,
    notes,      \* the table: a set of rows
    nextNote,   \* identity of the next row
    call,       \* Callers -> progress of createForUser
    acts,       \* user actions so far
    disturbed,  \* history: calls during which somebody else took from the user's rows
    raced       \* history: user and key of which two calls overlapped (Late, Overtaken)

centerVars == <<clock, notes, nextNote, call, acts, disturbed, raced>>

NoNote == 0
Note == [id : Nat \ {0}, user : Users, key : Keys, created : Nat,
         updated : Nat, read : BOOLEAN, dismissed : BOOLEAN]

CallSteps == {"idle", "find", "update", "create", "count", "keep", "delete"}
Call == [pc : CallSteps, user : Users \cup {"none"}, key : Keys \cup {"none"}, now : Nat,
         note : Nat, keep : SUBSET (Nat \ {0})]

Nobody == "none"
NoCall == [pc |-> "idle", user |-> Nobody, key |-> Nobody, now |-> 0,
           note |-> NoNote, keep |-> {}]

NotesOf(u) == {n \in notes : n.user = u}
Visible(n) == ~n.dismissed
Idle(c) == call[c].pc = "idle"

CenterInit ==
    /\ clock = 0
    /\ notes = {}
    /\ nextNote = 1
    /\ call = [c \in Callers |-> NoCall]
    /\ acts = 0
    /\ disturbed = {}
    /\ raced = {}

\* The calls in progress for u: somebody else touches the rows of u.
CallsFor(u) == {c \in Callers : ~Idle(c) /\ call[c].user = u}

\* createForUser returns, or throws to its caller.
Ends(c) == call' = [call EXCEPT ![c] = NoCall]
-----------------------------------------------------------------------------
Begin(c, u, k) ==
    /\ Idle(c)
    /\ call' = [call EXCEPT ![c] = [NoCall EXCEPT !.pc = "find", !.user = u,
                                                  !.key = k, !.now = clock]]
    /\ UNCHANGED <<clock, notes, nextNote, acts, disturbed, raced>>

\* (faulty) Look among the alerts the user has not read.
UnreadRecent(c) ==
    {n \in NotesOf(call[c].user) : ~n.read /\
        n.key = call[c].key /\ n.created >= call[c].now - DedupWindow}

Recent(c) ==
    {n \in NotesOf(call[c].user) :
        n.key = call[c].key /\ n.created >= call[c].now - DedupWindow}

\* The newest row of the key within the window; rows of one instant have no
\* defined order, their identities being random.
RecentByDedup(c) ==
    {n \in Recent(c) : \A m \in Recent(c) : m.created <= n.created}

\* (faulty) Coalesce with whatever was found.
AlwaysCoalesces(n) == TRUE

\* A dismissed alert is not brought back: a new one is created.
Coalesces(n) == ~n.dismissed

\* Another call for the key read its clock later than this one and was faster.
Late(c) == \E n \in NotesOf(call[c].user) : n.key = call[c].key /\ n.created > call[c].now

FindRecentByDedup(c) ==
    /\ call[c].pc = "find"
    /\ IF Recent(c) = {}
       THEN call' = [call EXCEPT ![c].pc = "create"]
       ELSE \E n \in RecentByDedup(c) :
              call' = IF Coalesces(n)
                      THEN [call EXCEPT ![c].pc = "update", ![c].note = n.id]
                      ELSE [call EXCEPT ![c].pc = "create"]
    /\ raced' = IF Late(c) /\ call'[c].pc = "create"
                THEN raced \cup {<<call[c].user, call[c].key>>} ELSE raced
    /\ UNCHANGED <<clock, notes, nextNote, acts, disturbed>>

Coalesced(n, c) == [n EXCEPT !.updated = call[c].now, !.read = FALSE]

\* The row is gone: NOT_FOUND is thrown to the caller.
CoalesceFails(c) ==
    /\ call[c].pc = "update"
    /\ \A n \in notes : n.id # call[c].note
    /\ Ends(c)
    /\ disturbed' = disturbed \ {c}
    /\ UNCHANGED <<clock, notes, nextNote, acts, raced>>

UpdateCoalesced(c) ==
    /\ call[c].pc = "update"
    /\ \E n \in notes :
         /\ n.id = call[c].note
         /\ notes' = (notes \ {n}) \cup {Coalesced(n, c)}
    /\ Ends(c)
    /\ disturbed' = disturbed \ {c}
    /\ UNCHANGED <<clock, nextNote, acts, raced>>

\* Another call for the key is about to create as well, or this one dates
\* its row no later than a row of the key that is there already.
Overtaken(c) ==
    \/ \E d \in Callers \ {c} :
          /\ call[d].pc = "create"
          /\ call[d].user = call[c].user /\ call[d].key = call[c].key
    \/ \E n \in NotesOf(call[c].user) : n.key = call[c].key /\ n.created >= call[c].now

Create(c) ==
    /\ call[c].pc = "create"
    /\ nextNote <= MaxNotes
    /\ notes' = notes \cup
         {[id |-> nextNote, user |-> call[c].user, key |-> call[c].key,
           created |-> call[c].now, updated |-> call[c].now,
           read |-> FALSE, dismissed |-> FALSE]}
    /\ nextNote' = nextNote + 1
    /\ call' = [call EXCEPT ![c].pc = "count", ![c].note = nextNote]
    /\ raced' = IF Overtaken(c) THEN raced \cup {<<call[c].user, call[c].key>>} ELSE raced
    /\ UNCHANGED <<clock, acts, disturbed>>

\* The row was trimmed before create could read it back.
CreateFails(c) ==
    /\ call[c].pc = "count"
    /\ \A n \in notes : n.id # call[c].note
    /\ Ends(c)
    /\ disturbed' = disturbed \ {c}
    /\ UNCHANGED <<clock, notes, nextNote, acts, raced>>

\* (faulty) Count what the user sees, as countUnread does.
CountVisible(u) == Cardinality({n \in NotesOf(u) : Visible(n)})

CountForUser(u) == Cardinality(NotesOf(u))

Count(c) ==
    /\ call[c].pc = "count"
    /\ IF CountForUser(call[c].user) > MaxPerUser
       THEN call' = [call EXCEPT ![c].pc = "keep"] /\ UNCHANGED disturbed
       ELSE Ends(c) /\ disturbed' = disturbed \ {c}
    /\ UNCHANGED <<clock, notes, nextNote, acts, raced>>

\* The MaxPerUser newest rows, rows of one instant in any order.
Newest(u) ==
    {K \in SUBSET NotesOf(u) :
       /\ Cardinality(K) = IF CountForUser(u) < MaxPerUser
                           THEN CountForUser(u) ELSE MaxPerUser
       /\ \A n \in K, m \in NotesOf(u) \ K : m.created <= n.created}

Keep(c) ==
    /\ call[c].pc = "keep"
    /\ \E K \in Newest(call[c].user) :
         call' = [call EXCEPT ![c].pc = "delete", ![c].keep = {n.id : n \in K}]
    /\ UNCHANGED <<clock, notes, nextNote, acts, disturbed, raced>>

\* Everything that was not in the list goes, what came after it included.
DeleteOldestBeyondCap(c) ==
    LET u == call[c].user IN
    /\ call[c].pc = "delete"
    /\ notes' = {n \in notes : n.user = u => n.id \in call[c].keep}
    /\ Ends(c)
    /\ disturbed' = (disturbed \cup CallsFor(u)) \ {c}
    /\ UNCHANGED <<clock, nextNote, acts, raced>>

CreateForUser(c) ==
    \/ FindRecentByDedup(c)
    \/ UpdateCoalesced(c)
    \/ Create(c)
    \/ Count(c)
    \/ Keep(c)
    \/ DeleteOldestBeyondCap(c)

CreateForUserFails(c) == CoalesceFails(c) \/ CreateFails(c)

\* (faulty) The calls of a process that dies go on.
CutNothing(C) ==
    /\ UNCHANGED call
    /\ disturbed' = disturbed \ C

\* The calls of a process that dies are not resumed.
CutCalls(C) ==
    /\ call' = [c \in Callers |-> IF c \in C THEN NoCall ELSE call[c]]
    /\ disturbed' = disturbed \ C
-----------------------------------------------------------------------------
(***************************************************************************)
(* The user's own operations, each one UPDATE.  Nobody reads or dismisses  *)
(* an alert in the very instant it is created.                             *)
(***************************************************************************)
UserActs(u) ==
    /\ acts < MaxUserActions
    /\ acts' = acts + 1
    /\ disturbed' = disturbed \cup CallsFor(u)
    /\ UNCHANGED <<clock, nextNote, call, raced>>

MarkAllRead(u) ==
    /\ \E n \in NotesOf(u) : Visible(n) /\ ~n.read
    /\ notes' = {IF n.user = u /\ Visible(n) THEN [n EXCEPT !.read = TRUE, !.updated = clock]
                 ELSE n : n \in notes}
    /\ UserActs(u)

MarkRead(n) ==
    /\ Visible(n) /\ ~n.read
    /\ notes' = (notes \ {n}) \cup {[n EXCEPT !.read = TRUE, !.updated = clock]}
    /\ UserActs(n.user)

Dismiss(n) ==
    /\ Visible(n) /\ n.created < clock
    /\ notes' = (notes \ {n}) \cup
                {[n EXCEPT !.read = TRUE, !.dismissed = TRUE, !.updated = clock]}
    /\ UserActs(n.user)

\* The periodic purge of the worker.
Expired(n) ==
    IF n.read \/ n.dismissed THEN n.updated < clock - ReadRetention
    ELSE n.created < clock - UnreadRetention

PurgeExpired ==
    /\ \E n \in notes : Expired(n)
    /\ notes' = {n \in notes : ~Expired(n)}
    /\ UNCHANGED <<clock, nextNote, call, acts, disturbed, raced>>

CallsAreShort == \A c \in Callers : ~Idle(c) => clock - call[c].now < MaxCallTime

Tick ==
    /\ clock < MaxTime
    /\ CallsAreShort
    /\ clock' = clock + 1
    /\ UNCHANGED <<notes, nextNote, call, acts, disturbed, raced>>

Environment ==
    \/ \E u \in Users : MarkAllRead(u)
    \/ \E n \in notes : MarkRead(n) \/ Dismiss(n)
    \/ PurgeExpired
    \/ Tick
-----------------------------------------------------------------------------
(***************************************************************************)
(* The inbox on its own: any caller may announce anything at any time.     *)
(***************************************************************************)
CenterNext ==
    \/ \E c \in Callers : \/ \E u \in Users, k \in Keys : Begin(c, u, k)
                          \/ CreateForUser(c)
                          \/ CreateForUserFails(c)
    \/ Environment

CenterSpec == CenterInit /\ [][CenterNext]_centerVars

CenterTypeOK ==
    /\ clock \in Nat /\ nextNote \in Nat \ {0} /\ acts \in Nat
    /\ notes \subseteq Note
    /\ \A n \in notes : n.id < nextNote
    /\ \A n, m \in notes : n.id = m.id => n = m
    /\ call \in [Callers -> Call]
    /\ disturbed \subseteq Callers
    /\ raced \subseteq Users \X Keys

(***************************************************************************)
(* docs/23: an inbox is bounded.  Calls insert, count and trim in separate *)
(* statements; however they interleave, and whatever trims overlap, an     *)
(* inbox exceeds its cap by no more than the calls that have inserted      *)
(* their row and not trimmed yet.                                          *)
(***************************************************************************)
Untrimmed(u) ==
    {c \in Callers : call[c].user = u /\ call[c].pc \in {"count", "keep", "delete"}}

WithinCap ==
    \A u \in Users : Cardinality(NotesOf(u)) <= MaxPerUser + Cardinality(Untrimmed(u))

(***************************************************************************)
(* "dedupKey (fenetre de coalescence)": a user does not see two alerts of  *)
(* one key created within the window, although no index says so, except    *)
(* when two calls for it went to create at once, or one dated its row, or  *)
(* looked for one, by a clock it had read before another call did.         *)
(***************************************************************************)
NoTwins ==
    \A n, m \in notes :
        /\ n # m /\ Visible(n) /\ Visible(m)
        /\ n.user = m.user /\ n.key = m.key
        /\ n.created <= m.created /\ m.created - n.created <= DedupWindow
        => <<n.user, n.key>> \in raced

(***************************************************************************)
(* A call that returns has left an alert of its key that the user can see  *)
(* and has not read: unless the user acted or another call trimmed while   *)
(* it ran, or MaxPerUser others are at least as new.                       *)
(***************************************************************************)
Shows(n, u, k) == n.user = u /\ n.key = k /\ Visible(n) /\ ~n.read

Crowded(c) ==
    Cardinality({n \in NotesOf(call[c].user) :
                    n.id # call[c].note /\ n.created >= call[c].now}) >= MaxPerUser

ToldIsVisible ==
    [][\A c \in Callers :
         (CreateForUser(c) /\ call'[c].pc = "idle")
            => \/ \E n \in notes' : Shows(n, call[c].user, call[c].key)
               \/ c \in disturbed
               \/ Crowded(c)]_centerVars
=============================================================================
