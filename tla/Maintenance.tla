----------------------------- MODULE Maintenance -----------------------------
(***************************************************************************)
(* Maintenance windows (packages/status-pages): administrators schedule    *)
(* and cancel them, and the tick of every worker moves their stored status *)
(* along with the clock and announces the phases.  No operation is a       *)
(* transaction: each is a sequence of statements, all of them computed     *)
(* with the time at which the operation began.                             *)
(***************************************************************************)
EXTENDS Naturals, Sequences

LOCAL INSTANCE Functions

CONSTANTS
    Integrations,
    Admins,      \* slots for requests in progress (bound)
    Workers,
    Ranges,      \* pairs <<startsAt, endsAt>> that administrators ask for
    Grace,       \* how far in the past a window may start
    MaxWindows, MaxTime, MaxCancels, MaxCuts,   \* bounds
    MaxSpent     \* bound on the last two together

ASSUME MaintenanceAssumption ==
    /\ Ranges \subseteq Nat \X Nat
    /\ Grace \in Nat /\ MaxWindows \in Nat /\ MaxTime \in Nat
    /\ Admins \cap Workers = {}

VARIABLES
    clock,
    windows,     \* maintenance_windows, in order of insertion
    request,     \* Admins -> schedule or cancel in progress
    tick,        \* Workers -> tick in progress
    announced,   \* history: window -> phases announced
    ends,        \* history: window -> announcements of its end
    lost,        \* history: windows with a fan-out that was cut
    raced,       \* history: a window inserted after another it did not list
    spent        \* counts of cancellations and cuts

vars == <<clock, windows, request, tick, announced, ends, lost, raced, spent>>
historyVars == <<announced, ends>>

Statuses == {"scheduled", "active", "completed", "cancelled"}
Phases == {"scheduled", "starting", "completed"}
Terminal(w) == w.status \in {"completed", "cancelled"}
Ids == 1..MaxWindows

\* `overtaken`, of a request: another window was inserted after it listed them;
\* of a tick: somebody else wrote a window since it began.
NoRequest == [pc |-> "idle", now |-> 0, target |-> {}, range |-> <<0, 0>>, id |-> 0,
              phases |-> << >>, overtaken |-> FALSE]
Nothing == [i \in {} |-> "scheduled"]
NoTick == [pc |-> "idle", now |-> 0, todo |-> Nothing, id |-> 0,
           phases |-> << >>, overtaken |-> FALSE]

Spend(what, max) ==
    /\ spent[what] < max
    /\ FoldFunction(+, 0, spent) < MaxSpent
    /\ spent' = [spent EXCEPT ![what] = @ + 1]
-----------------------------------------------------------------------------
\* (faulty) The end of a window is part of it.
DeriveInclusive(stored, range, now) ==
    IF stored \in {"cancelled", "completed"} THEN stored
    ELSE IF now > range[2] THEN "completed"
    ELSE IF now >= range[1] THEN "active" ELSE "scheduled"

\* deriveMaintenanceStatus
Derive(stored, range, now) ==
    IF stored \in {"cancelled", "completed"} THEN stored
    ELSE IF now >= range[2] THEN "completed"
    ELSE IF now >= range[1] THEN "active" ELSE "scheduled"

\* (faulty) Only a window that starts inside the other one is seen.
RangesNest(a, b) == a[1] <= b[1] /\ b[1] < a[2]

RangesOverlap(a, b) == a[1] < b[2] /\ b[1] < a[2]

\* assertNoOverlap
Conflicts(target, range) ==
    \E i \in DOMAIN windows :
        /\ ~Terminal(windows[i])
        /\ windows[i].target \cap target # {}
        /\ RangesOverlap(range, windows[i].range)

\* A write of maintenance_windows by worker w, or by a request: the other
\* ticks and the other requests have been overtaken.
Overtakes(w) ==
    [v \in Workers |-> [tick[v] EXCEPT !.overtaken = @ \/ (v # w /\ tick[v].pc # "idle")]]
-----------------------------------------------------------------------------
\* validateMaintenanceWindowBounds, and the past is refused.
Schedule(a, target, range) ==
    /\ request[a] = NoRequest
    /\ Len(windows) < MaxWindows
    /\ range[1] < range[2] /\ range[1] + Grace >= clock /\ range[2] > clock
    /\ request' = [request EXCEPT ![a] = [NoRequest EXCEPT !.pc = "check", !.now = clock,
                                            !.target = target, !.range = range]]
    /\ UNCHANGED <<clock, windows, tick, historyVars, lost, raced, spent>>

AssertNoOverlap(a) ==
    /\ request[a].pc = "check"
    /\ request' = [request EXCEPT ![a] =
                     IF Conflicts(@.target, @.range) THEN NoRequest
                     ELSE [@ EXCEPT !.pc = "insert"]]
    /\ UNCHANGED <<clock, windows, tick, historyVars, lost, raced, spent>>

CreateMaintenanceWindow(a) ==
    LET r == request[a]
        status == Derive("scheduled", r.range, r.now) IN
    /\ r.pc = "insert" /\ Len(windows) < MaxWindows
    /\ windows' = Append(windows, [target |-> r.target, range |-> r.range, status |-> status])
    /\ request' = [b \in Admins |->
         IF b = a
         THEN [NoRequest EXCEPT !.pc = "announce", !.id = Len(windows) + 1,
                 !.phases = IF status = "active" THEN <<"scheduled", "starting">>
                            ELSE <<"scheduled">>]
         ELSE [request[b] EXCEPT !.overtaken = @ \/ request[b].pc = "insert"]]
    /\ raced' = (raced \/ r.overtaken)
    /\ tick' = Overtakes(a)
    /\ UNCHANGED <<clock, historyVars, lost, spent>>

\* findMaintenanceById
Cancel(a, i) ==
    /\ request[a] = NoRequest
    /\ Derive(windows[i].status, windows[i].range, clock) \notin {"completed", "cancelled"}
    /\ Spend("cancels", MaxCancels)
    /\ request' = [request EXCEPT ![a].pc = "cancel", ![a].id = i]
    /\ UNCHANGED <<clock, windows, tick, historyVars, lost, raced>>

CancelWindow(a) ==
    LET i == request[a].id IN
    /\ request[a].pc = "cancel"
    /\ windows' = IF Terminal(windows[i]) THEN windows
                  ELSE [windows EXCEPT ![i].status = "cancelled"]
    /\ request' = [request EXCEPT ![a] = NoRequest]
    /\ tick' = Overtakes(a)
    /\ UNCHANGED <<clock, historyVars, lost, raced, spent>>
-----------------------------------------------------------------------------
BeginTick(w) ==
    /\ tick[w].pc = "idle"
    /\ tick' = [tick EXCEPT ![w].pc = "list", ![w].now = clock]
    /\ UNCHANGED <<clock, windows, request, historyVars, lost, raced, spent>>

NonTerminal == {i \in DOMAIN windows : ~Terminal(windows[i])}

\* (faulty) The tick goes on with the next window and announces nothing.
ProceedsInSilence(t) ==
    IF t.phases = << >> /\ t.todo = Nothing THEN NoTick ELSE [t EXCEPT !.pc = "walk"]

\* A tick goes on with what it has listed, and ends after the last window.
Proceeds(t) ==
    IF t.phases = << >> /\ t.todo = Nothing THEN NoTick
    ELSE [t EXCEPT !.pc = IF t.phases = << >> THEN "walk" ELSE "announce",
                   !.id = IF t.phases = << >> THEN 0 ELSE t.id]

Without(todo, i) == [j \in DOMAIN todo \ {i} |-> todo[j]]

\* The status that a tick wants for a window, of which it has read the row.
Desired(w, i, from) == Derive(from, windows[i].range, tick[w].now)

\* listNonTerminalMaintenanceWindows; what is as desired needs no statement.
ListNonTerminal(w) ==
    LET moving == {i \in NonTerminal : Desired(w, i, windows[i].status) # windows[i].status} IN
    /\ tick[w].pc = "list"
    /\ tick' = [tick EXCEPT ![w] =
                  Proceeds([tick[w] EXCEPT !.todo = [i \in moving |-> windows[i].status]])]
    /\ UNCHANGED <<clock, windows, request, historyVars, lost, raced, spent>>

\* (faulty) UPDATE ... WHERE id = :id
AnyRow(i, from) == TRUE

\* UPDATE ... WHERE id = :id AND status IN (:from)
StillIn(i, from) == windows[i].status = from

\* (faulty) A window that was never active is completed without having started.
PhasesOfLast(from, to) ==
    IF to = "active" THEN <<"starting">>
    ELSE IF to = "completed" THEN <<"completed">> ELSE << >>

\* What the tick announces of a window that it has moved.
PhasesOf(from, to) ==
    IF to = "active" THEN <<"starting">>
    ELSE IF to = "completed"
         THEN IF from = "scheduled" THEN <<"starting", "completed">> ELSE <<"completed">>
         ELSE << >>

UpdateStatus(w, i) ==
    LET from == tick[w].todo[i]
        to == Desired(w, i, from)
        moves == StillIn(i, from) IN
    /\ tick[w].pc = "walk"
    /\ windows' = IF moves THEN [windows EXCEPT ![i].status = to] ELSE windows
    /\ tick' = [(IF moves THEN Overtakes(w) ELSE tick) EXCEPT ![w] =
                  Proceeds([tick[w] EXCEPT
                              !.todo = Without(tick[w].todo, i), !.id = i,
                              !.phases = IF moves THEN PhasesOf(from, to) ELSE << >>])]
    /\ UNCHANGED <<clock, request, historyVars, lost, raced, spent>>

(***************************************************************************)
(* fanOut: the recipients of a phase, one after the other, as one step.    *)
(* What throws ends the request, or the tick with all it has still to do.  *)
(***************************************************************************)
FanOut(p) ==
    /\ p.pc = "announce"
    /\ announced' = [announced EXCEPT ![p.id] = @ \cup {Head(p.phases)}]
    /\ ends' = [ends EXCEPT ![p.id] = IF Head(p.phases) = "completed" THEN @ + 1 ELSE @]

LastPhase(p) == Tail(p.phases) = << >>

FanOutInRequest(a) ==
    /\ FanOut(request[a])
    /\ request' = [request EXCEPT ![a] =
                     IF LastPhase(request[a]) THEN NoRequest
                     ELSE [request[a] EXCEPT !.phases = Tail(request[a].phases)]]
    /\ UNCHANGED <<clock, windows, tick, lost, raced, spent>>

FanOutInTick(w) ==
    /\ FanOut(tick[w])
    /\ tick' = [tick EXCEPT ![w] =
                  Proceeds([tick[w] EXCEPT !.phases = Tail(tick[w].phases)])]
    /\ UNCHANGED <<clock, windows, request, lost, raced, spent>>

\* A statement throws, or the process dies: nobody resumes.
RequestCut(a) ==
    /\ request[a].pc = "announce"
    /\ Spend("cuts", MaxCuts)
    /\ request' = [request EXCEPT ![a] = NoRequest]
    /\ lost' = lost \cup {request[a].id}
    /\ UNCHANGED <<clock, windows, tick, historyVars, raced>>

TickCut(w) ==
    /\ tick[w].pc # "idle"
    /\ Spend("cuts", MaxCuts)
    /\ tick' = [tick EXCEPT ![w] = NoTick]
    /\ lost' = IF tick[w].pc = "announce" THEN lost \cup {tick[w].id} ELSE lost
    /\ UNCHANGED <<clock, windows, request, historyVars, raced>>

TimePasses ==
    /\ clock < MaxTime
    /\ clock' = clock + 1
    /\ UNCHANGED <<windows, request, tick, historyVars, lost, raced, spent>>

Init ==
    /\ clock = 0
    /\ windows = << >>
    /\ request = [a \in Admins |-> NoRequest]
    /\ tick = [w \in Workers |-> NoTick]
    /\ announced = [i \in Ids |-> {}]
    /\ ends = [i \in Ids |-> 0]
    /\ lost = {}
    /\ raced = FALSE
    /\ spent = [what \in {"cancels", "cuts"} |-> 0]

TickStep(w) ==
    \/ BeginTick(w)
    \/ ListNonTerminal(w)
    \/ \E i \in DOMAIN tick[w].todo : UpdateStatus(w, i)
    \/ FanOutInTick(w)

Next ==
    \/ \E a \in Admins :
         \/ \E target \in SUBSET Integrations \ {{}}, range \in Ranges :
              Schedule(a, target, range)
         \/ AssertNoOverlap(a)
         \/ CreateMaintenanceWindow(a)
         \/ \E i \in DOMAIN windows : Cancel(a, i)
         \/ CancelWindow(a)
         \/ FanOutInRequest(a)
         \/ RequestCut(a)
    \/ \E w \in Workers : TickStep(w) \/ TickCut(w)
    \/ TimePasses

Spec == Init /\ [][Next]_vars
-----------------------------------------------------------------------------
TypeOK ==
    /\ clock \in 0..MaxTime
    /\ windows \in Seq([target : SUBSET Integrations, range : Ranges, status : Statuses])
    /\ Len(windows) <= MaxWindows
    /\ \A a \in Admins :
         /\ request[a].pc \in {"idle", "check", "insert", "announce", "cancel"}
         /\ request[a].pc \in {"announce", "cancel"} => request[a].id \in DOMAIN windows
         /\ (request[a].pc = "announce") = (request[a].phases # << >>)
    /\ \A w \in Workers :
         /\ tick[w].pc \in {"idle", "list", "walk", "announce"}
         /\ DOMAIN tick[w].todo \subseteq DOMAIN windows
         /\ (tick[w].pc = "announce") = (tick[w].phases # << >>)
         /\ tick[w].now <= clock
    /\ lost \subseteq DOMAIN windows

(***************************************************************************)
(* maintenance.ts, "overlaps an existing window for a shared integration": *)
(* two windows that are not over and share an integration do not overlap,  *)
(* unless they were scheduled at the same time.                            *)
(***************************************************************************)
OverlapNeedsRace ==
    raced \/ \A i, j \in DOMAIN windows :
        /\ i # j /\ ~Terminal(windows[i]) /\ ~Terminal(windows[j])
        /\ windows[i].target \cap windows[j].target # {}
        => \A t \in 0..MaxTime :
             ~(/\ windows[i].range[1] <= t /\ t < windows[i].range[2]
               /\ windows[j].range[1] <= t /\ t < windows[j].range[2])

(***************************************************************************)
(* maintenance.ts, "Idempotent via CAS status updates": however many       *)
(* workers tick, the end of a window is announced once, by the tick that   *)
(* completed it, and never of a window that was cancelled.                 *)
(***************************************************************************)
InProgress(i) ==
    \/ \E a \in Admins : request[a].pc = "announce" /\ request[a].id = i
    \/ \E w \in Workers : tick[w].pc = "announce" /\ tick[w].id = i

EndAnnouncedOnce ==
    \A i \in DOMAIN windows :
        /\ ends[i] <= 1
        /\ ends[i] = 1 => windows[i].status = "completed"

(***************************************************************************)
(* When a window is over and nobody is announcing anything of it, all its  *)
(* phases have been announced, whether or not a tick ever saw it active,   *)
(* unless a fan-out was cut: the tick that moved the status is the only    *)
(* one to announce, so that "restart-safe" covers the status alone.        *)
(***************************************************************************)
EveryPhaseAnnounced ==
    \A i \in DOMAIN windows \ lost :
        windows[i].status = "completed" /\ ~InProgress(i) => announced[i] = Phases

(***************************************************************************)
(* docs/25, "scheduled -> active -> completed, or cancelled": a window     *)
(* that is over stays as it is, and an active one is scheduled again only  *)
(* by a tick during which somebody else wrote a window: the time it uses   *)
(* may be before the start that the other one saw.                         *)
(***************************************************************************)
NoWayBack ==
    [][\A i \in DOMAIN windows :
         /\ Terminal(windows[i]) => windows'[i] = windows[i]
         /\ windows[i].status = "active" /\ windows'[i].status = "scheduled" =>
              \E w \in Workers : tick[w].pc = "walk" /\ tick[w].overtaken]_windows

(***************************************************************************)
(* A tick that runs to its end, and during which nobody else wrote a       *)
(* window, leaves no window behind that was over when it began.            *)
(***************************************************************************)
TickLeavesNoneBehind ==
    [][\A w \in Workers :
         /\ tick[w].pc # "idle" /\ tick'[w].pc = "idle"
         /\ ~tick[w].overtaken
         /\ spent' = spent
         => \A i \in DOMAIN windows :
              tick[w].now >= windows[i].range[2] => Terminal(windows'[i])]_<<tick, spent>>
=============================================================================
