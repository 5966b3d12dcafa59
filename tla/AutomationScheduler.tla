------------------------ MODULE AutomationScheduler ------------------------
(***************************************************************************)
(* class AutomationScheduler of packages/automations, driven by the worker *)
(* process of apps/worker.  Several workers share the store; inside one    *)
(* worker, a tick and any number of event handlers overlap, and every      *)
(* await of the code is a point where the others may run.                  *)
(*                                                                         *)
(* A lane is one activation of processSchedule, processStatusDebounce,     *)
(* processEvent or of one turn of seedUnscheduled: the items runLimited    *)
(* works on at a time.  TickSlots are the lanes of a tick (maxInFlight of  *)
(* the code), EventSlots the event handlers in progress.                   *)
(***************************************************************************)
EXTENDS AutomationStore, Sequences

CONSTANTS
    TickSlots, EventSlots,
    ScanLimit,            \* AUTOMATION_SCHEDULER_SCAN_LIMIT
    Minute,               \* the window of MinuteWindow, in clock units
    MaxActionsPerMinute,  \* AUTOMATION_SCHEDULER_MAX_ACTIONS_PER_MINUTE
    OwnerOutcomes,        \* whether loadOwner may find the owner allowed, or not
    Outcomes,             \* what a dispatch may return; "unknown" when it throws
    Mortal,               \* the workers that may be stopped or crash
    Feed,                 \* the <<type, integration, status>> others publish
    MaxTime,              \* bound: the clock stops there
    CrashHorizon,         \* bound: no crash, no throwing store after it
    MaxEvents,            \* bound: events published
    MaxToggles,           \* bound: setEnabled calls
    MaxFailures           \* bound: store calls that throw

VARIABLES
    clock,     \* new Date()
    mode,      \* worker: "new", "up", "stopping" (#stopping), "exited", "crashed"
    tick,      \* worker: the tick in progress (phase, its now, ids left)
    lane,      \* <<worker, slot>> -> activation
    window,    \* worker: MinuteWindow.#times, with the run that consumed
    inbox,     \* worker: events delivered, handleEvent not yet past its query
    backlog,   \* worker: <<event, rule>> pairs runLimited still has to process
    events,    \* every event published so far
    admin,     \* the setEnabled calls between their two statements
    toggles,   \* setEnabled calls so far
    failures,  \* store calls that threw so far
    calls      \* run key -> dispatcher calls made for it (for the properties)

workerVars == <<mode, tick, lane, window, inbox, backlog>>
envVars == <<clock, events, admin, toggles, failures, calls>>
vars == <<enabled, runtime, runs, clock, mode, tick, lane, window, inbox,
          backlog, events, admin, toggles, failures, calls>>

ASSUME SchedulerAssumption ==
    /\ TickSlots \cap EventSlots = {}
    /\ ScanLimit \in Nat \ {0}
    /\ Minute \in Nat
    /\ MaxActionsPerMinute \in Nat
    /\ OwnerOutcomes \subseteq BOOLEAN
    /\ Outcomes \subseteq TerminalStatuses
    /\ Mortal \subseteq Workers
    /\ Feed \subseteq EventTypes \X Services \X StatusOrNull
    /\ MaxTime \in Nat /\ CrashHorizon \in Nat
    /\ MaxEvents \in Nat /\ MaxToggles \in Nat /\ MaxFailures \in Nat
-----------------------------------------------------------------------------
Lanes == Workers \X (TickSlots \cup EventSlots)
TickLanes == Workers \X TickSlots
EventLanes == Workers \X EventSlots
WorkerOf(l) == l[1]

NoEvent == [id |-> 0, type |-> "none", svc |-> AnyService,
            status |-> NoStatus, at |-> 0, cause |-> NoRule]
NoKey == [rule |-> NoRule, kind |-> "none", at |-> 0, to |-> NoStatus]

Tasks == {"none", "seed", "schedule", "debounce", "event"}

(***************************************************************************)
(* Where an activation is waiting.  "read" and "write" are the two         *)
(* statements of an updateRuntime whose caller goes on at "ret".           *)
(***************************************************************************)
PCs == {"idle", "getRule", "getRuntime",
        "preclaim", "fresh", "enter",
        "claim", "insert", "conflict", "finishStale",
        "read", "write", "authorize", "dispatch", "acting", "finish",
        "release", "finally"}

LaneState ==
    [pc : PCs, ret : PCs, task : Tasks, rule : Rules \cup {NoRule},
     now : Nat, event : Event \cup {NoEvent}, key : RunKey \cup {NoKey},
     columns : SUBSET Columns, row : Row,
     status : RunStatuses, sent : BOOLEAN]

IdleLane == [pc |-> "idle", ret |-> "idle", task |-> "none", rule |-> NoRule,
             now |-> 0, event |-> NoEvent, key |-> NoKey,
             columns |-> {}, row |-> NoRow,
             status |-> "running", sent |-> FALSE]

Phases == {"idle", "sweep", "unscheduled", "seed", "schedule", "debounce"}
TickState == [phase : Phases, now : Nat, queue : SUBSET Rules]
IdleTick == [phase |-> "idle", now |-> 0, queue |-> {}]

(***************************************************************************)
(* The body of claimAndDispatch after its #stopping check: #inFlight of a  *)
(* worker is the number of its lanes in it.  A processEvent or             *)
(* processStatusDebounce that claimed by itself is counted from "enter".   *)
(***************************************************************************)
DispatchingPCs == {"claim", "insert", "conflict", "finishStale",
                   "authorize", "dispatch", "acting", "finish", "release"}

InClaimAndDispatch(l) ==
    /\ lane[l].key # NoKey
    /\ \/ lane[l].pc \in DispatchingPCs
       \/ lane[l].pc \in {"read", "write"} /\ lane[l].ret \in DispatchingPCs

InFlight(w) == {l \in Lanes : WorkerOf(l) = w /\ InClaimAndDispatch(l)}

Running(w) == mode[w] \in {"up", "stopping"}

TickQuiet(w) == \A i \in TickSlots : lane[<<w, i>>].pc = "idle"

\* A setEnabled call past its first statement, which it won or not.
AdminCall == [rule : Rules, value : BOOLEAN, now : Nat, won : BOOLEAN]

(***************************************************************************)
(* A rule that has just been enabled.  The next run of a schedule is null  *)
(* when setEnabled was cut between its two statements.                     *)
(***************************************************************************)
Init ==
    /\ enabled = [r \in Rules |-> TRUE]
    /\ \E cut \in SUBSET {r \in Rules : Config[r].trigger = "schedule"} :
         runtime = [r \in Rules |->
           [nextRunAt |-> IF Config[r].trigger = "schedule" /\ r \notin cut
                          THEN NextScheduleRunAt(r, 0) ELSE NoTime,
            lastTriggeredAt |-> NoTime,
            observed |-> NoRow.observed,
            leaseOwner |-> NoWorker, leaseUntil |-> NoTime]]
    /\ runs = [k \in {} |-> 0]
    /\ clock = 0
    /\ mode = [w \in Workers |-> "new"]
    /\ tick = [w \in Workers |-> IdleTick]
    /\ lane = [l \in Lanes |-> IdleLane]
    /\ window = [w \in Workers |-> {}]
    /\ inbox = [w \in Workers |-> {}]
    /\ backlog = [w \in Workers |-> {}]
    /\ events = <<>>
    /\ admin = {}
    /\ toggles = 0
    /\ failures = 0
    /\ calls = [k \in {} |-> 0]
-----------------------------------------------------------------------------
(***************************************************************************)
(* Steps of a lane.  Goto continues the activation elsewhere, Done ends it *)
(* ("return"), Patch calls updateRuntime and goes on at ret afterwards.    *)
(***************************************************************************)
Goto(l, pc) == lane' = [lane EXCEPT ![l].pc = pc]

Done(l) == lane' = [lane EXCEPT ![l] = IdleLane]

Patched(l, columns, row, ret) ==
    [lane[l] EXCEPT !.pc = "read", !.ret = ret, !.columns = columns, !.row = row]

Patch(l, columns, row, ret) ==
    lane' = [lane EXCEPT ![l] = Patched(l, columns, row, ret)]

\* processEvent on a status-transition rule and processStatusDebounce claim
\* the lease themselves, call claimAndDispatch with alreadyClaimed, and
\* release in a finally.
PreClaims(l) ==
    \/ lane[l].task = "debounce"
    \/ lane[l].task = "event" /\ Config[lane[l].rule].trigger = "status-transition"

\* What happens when claimAndDispatch returns.
Return(l) == IF PreClaims(l) THEN Goto(l, "finally") ELSE Done(l)

catchFrame == <<clock, mode, tick, inbox, backlog, admin, toggles>>
laneFrame == <<catchFrame, failures>>

\* An update of the observed state: observed and nextRunAt.
Observe(l, status, pending, nextRunAt, ret) ==
    Patch(l, {"observed", "nextRunAt"},
          [NoRow EXCEPT !.observed = ObservedStateWithPending(status, pending),
                        !.nextRunAt = nextRunAt], ret)

GetRule(l) ==
    LET r == lane[l].rule
        next == NextScheduleRunAt(r, lane[l].now)
    IN  /\ lane[l].pc = "getRule"
        /\ \/ /\ ~enabled[r] \/ (lane[l].task = "seed" /\ next = NoTime)
              /\ Done(l)
           \/ /\ enabled[r] /\ lane[l].task = "seed" /\ next # NoTime
              /\ Patch(l, {"nextRunAt"}, [NoRow EXCEPT !.nextRunAt = next], "idle")
           \/ /\ enabled[r] /\ lane[l].task # "seed"
              /\ Goto(l, "getRuntime")
        /\ UNCHANGED <<laneFrame, storeVars, window, events, calls>>

\* (faulty) the row read again is not compared with the tick's now
DueAnyTime(l) == runtime[lane[l].rule].nextRunAt # NoTime

IsDue(l) ==
    LET next == runtime[lane[l].rule].nextRunAt
    IN  next # NoTime /\ next <= lane[l].now

\* claimAndDispatch is entered in the same turn: it returns when stopping.
Stopping(l) == mode[WorkerOf(l)] = "stopping"

GetRuntimeOfSchedule(l) ==
    LET r == lane[l].rule
        rt == runtime[r]
    IN  /\ lane[l].pc = "getRuntime" /\ lane[l].task = "schedule"
        /\ IF /\ IsDue(l)
              /\ EvaluateSchedule(r, rt.lastTriggeredAt, lane[l].now)
              /\ ~Stopping(l)
           THEN lane' = [lane EXCEPT
                  ![l].pc = "claim",
                  ![l].key = BuildScheduleRunKey(r, rt.nextRunAt)]
           ELSE Done(l)
        /\ UNCHANGED <<laneFrame, storeVars, window, events, calls>>

GetRuntimeOfDebounce(l) ==
    /\ lane[l].pc = "getRuntime" /\ lane[l].task = "debounce"
    /\ IF IsDue(l) THEN Goto(l, "preclaim") ELSE Done(l)
    /\ UNCHANGED <<laneFrame, storeVars, window, events, calls>>

GetRuntimeOfEvent(l) ==
    LET r == lane[l].rule
        e == lane[l].event
    IN  /\ lane[l].pc = "getRuntime" /\ lane[l].task = "event"
        /\ \/ /\ Config[r].trigger = "status-transition"
              /\ lane' = [lane EXCEPT ![l].pc = "preclaim", ![l].now = clock]
           \/ /\ Config[r].trigger = "event"
              /\ IF /\ EvaluateEvent(r, runtime[r].lastTriggeredAt, clock, e)
                    /\ ~Stopping(l)
                 THEN lane' = [lane EXCEPT ![l].pc = "claim", ![l].now = clock,
                                           ![l].key = BuildEventRunKey(r, e)]
                 ELSE Done(l)
        /\ UNCHANGED <<laneFrame, storeVars, window, events, calls>>

\* claimLease of processEvent and of processStatusDebounce.
Preclaim(l) ==
    LET r == lane[l].rule
        w == WorkerOf(l)
        ignored == /\ lane[l].task = "event"
                   /\ lane[l].event.type # "integration.status.changed"
    IN  /\ lane[l].pc = "preclaim"
        /\ IF CanClaimLease(r, w, lane[l].now)
           THEN /\ ClaimLease(r, w, lane[l].now)
                /\ Goto(l, IF ignored THEN "finally" ELSE "fresh")
           ELSE Done(l) /\ UNCHANGED runtime
        /\ UNCHANGED <<laneFrame, enabled, runs, window, events, calls>>

\* (faulty) the duration is taken for granted because the tick found the row due
ElapsedIfDue(r, since, now) == Config[r].forDuration > 0

Elapsed(r, since, now) ==
    Config[r].forDuration > 0 /\ now - since >= Config[r].forDuration

(***************************************************************************)
(* processStatusDebounce after its claim: the fresh row decides.  The      *)
(* pending is cleared before the dispatch, whatever the evaluation says.   *)
(***************************************************************************)
FreshDebounce(l) ==
    LET r == lane[l].rule
        rt == runtime[r]
        status == rt.observed.status
        pending == rt.observed.pending
        now == lane[l].now
        obsolete == \/ status = NoStatus
                    \/ ~HasPending(rt.observed)
                    \/ pending.to # status
        elapsed == Elapsed(r, pending.since, now)
        match == EvaluateTransition(r, rt.lastTriggeredAt, now,
                                    pending.from, pending.to, pending.svc)
    IN  /\ lane[l].pc = "fresh" /\ lane[l].task = "debounce"
        /\ \/ /\ obsolete
              /\ Observe(l, status, NoPending, NoTime, "finally")
           \/ /\ ~obsolete /\ ~elapsed
              /\ Goto(l, "finally")
           \/ /\ ~obsolete /\ elapsed /\ ~match
              /\ Observe(l, status, NoPending, NoTime, "finally")
           \/ /\ ~obsolete /\ elapsed /\ match
              /\ lane' = [lane EXCEPT ![l] =
                   [Patched(l, {"observed", "nextRunAt"},
                            [NoRow EXCEPT !.observed =
                               ObservedStateWithPending(status, NoPending)],
                            "enter")
                    EXCEPT !.key =
                      BuildStatusDebounceRunKey(r, pending.since, status)]]
        /\ UNCHANGED <<laneFrame, storeVars, window, events, calls>>

(***************************************************************************)
(* processEvent of a status-transition rule after its claim.               *)
(***************************************************************************)
FreshEvent(l) ==
    LET r == lane[l].rule
        e == lane[l].event
        rt == runtime[r]
        previous == rt.observed.status
        pending == rt.observed.pending
        samePending == HasPending(rt.observed) /\ pending.to = e.status
        now == lane[l].now
        wait == Config[r].forDuration
        match == EvaluateTransition(r, rt.lastTriggeredAt, now,
                                    previous, e.status, e.svc)
    IN  /\ lane[l].pc = "fresh" /\ lane[l].task = "event"
        /\ \/ /\ ~MatchesStatusFilters(r, e.svc)
              /\ Observe(l, e.status, NoPending, NoTime, "finally")
           \/ /\ MatchesStatusFilters(r, e.svc) /\ wait = 0 /\ ~match
              /\ Observe(l, e.status, NoPending, NoTime, "finally")
           \/ /\ MatchesStatusFilters(r, e.svc) /\ wait = 0 /\ match
              /\ lane' = [lane EXCEPT ![l] =
                   [Patched(l, {"observed", "nextRunAt"},
                            [NoRow EXCEPT !.observed =
                               ObservedStateWithPending(e.status, NoPending)],
                            "enter")
                    EXCEPT !.key = BuildEventRunKey(r, e)]]
           \/ /\ MatchesStatusFilters(r, e.svc) /\ wait > 0 /\ match
              /\ Observe(l, e.status,
                         [from |-> previous, to |-> e.status,
                          since |-> now, svc |-> e.svc],
                         now + wait, "finally")
           \/ /\ MatchesStatusFilters(r, e.svc) /\ wait > 0 /\ ~match
              /\ samePending
              /\ Patch(l, {"observed"},
                       [NoRow EXCEPT !.observed =
                          ObservedStateWithPending(e.status, pending)], "finally")
           \/ /\ MatchesStatusFilters(r, e.svc) /\ wait > 0 /\ ~match
              /\ ~samePending
              /\ Observe(l, e.status, NoPending, NoTime, "finally")
        /\ UNCHANGED <<laneFrame, storeVars, window, events, calls>>

\* The #stopping check of claimAndDispatch when the lease is already held.
Enter(l) ==
    /\ lane[l].pc = "enter"
    /\ Goto(l, IF Stopping(l) THEN "finally" ELSE "insert")
    /\ UNCHANGED <<laneFrame, storeVars, window, events, calls>>

\* updateRuntime: read and overlay, then write every column.
Read(l) ==
    /\ lane[l].pc = "read"
    /\ lane' = [lane EXCEPT
         ![l].pc = "write",
         ![l].row = MergedRow(lane[l].rule, lane[l].columns, lane[l].row)]
    /\ UNCHANGED <<laneFrame, storeVars, window, events, calls>>

Write(l) ==
    /\ lane[l].pc = "write"
    /\ WriteRow(lane[l].rule, lane[l].row)
    /\ IF lane[l].ret = "idle"
       THEN Done(l)
       ELSE lane' = [lane EXCEPT
              ![l] = [lane[l] EXCEPT !.pc = lane[l].ret, !.ret = "idle",
                                     !.columns = {}, !.row = NoRow]]
    /\ UNCHANGED <<laneFrame, enabled, runs, window, events, calls>>
-----------------------------------------------------------------------------
(***************************************************************************)
(* claimAndDispatch.                                                       *)
(***************************************************************************)
Claim(l) ==
    LET r == lane[l].rule
        w == WorkerOf(l)
    IN  /\ lane[l].pc = "claim"
        /\ IF CanClaimLease(r, w, lane[l].now)
           THEN ClaimLease(r, w, lane[l].now) /\ Goto(l, "insert")
           ELSE Done(l) /\ UNCHANGED runtime
        /\ UNCHANGED <<laneFrame, enabled, runs, window, events, calls>>

\* advanceSchedule(rule, now) when bumpNextRun, then on to ret.
Advance(l, ret) ==
    IF lane[l].task = "schedule"
    THEN Patch(l, {"nextRunAt"},
               [NoRow EXCEPT !.nextRunAt =
                  NextScheduleRunAt(lane[l].rule, lane[l].now)], ret)
    ELSE Goto(l, ret)

Insert(l) ==
    /\ lane[l].pc = "insert"
    /\ IF CanInsertRun(lane[l].key)
       THEN /\ InsertRun(lane[l].key, lane[l].now, WorkerOf(l))
            /\ Advance(l, "authorize")
       ELSE Goto(l, "conflict") /\ UNCHANGED runs
    /\ UNCHANGED <<laneFrame, enabled, runtime, window, events, calls>>

\* tryInsertRun lost the insertion and reads the row that won it.
Conflict(l) ==
    /\ lane[l].pc = "conflict"
    /\ IF runs[lane[l].key].status = "running"
       THEN Goto(l, "finishStale")
       ELSE Advance(l, "release")
    /\ UNCHANGED <<laneFrame, storeVars, window, events, calls>>

FinishStale(l) ==
    /\ lane[l].pc = "finishStale"
    /\ FinishRun(lane[l].key, "unknown")
    /\ Advance(l, "release")
    /\ UNCHANGED <<laneFrame, enabled, runtime, window, events, calls>>

\* A store call throws.
StoreFails ==
    /\ failures < MaxFailures /\ clock <= CrashHorizon
    /\ failures' = failures + 1

\* An advanceSchedule in progress: its caller catches what it throws.
CatchesAdvance(l) ==
    /\ lane[l].pc \in {"read", "write"} /\ lane[l].task = "schedule"
    /\ \/ lane[l].ret = "authorize"
       \/ lane[l].ret = "release" /\ lane[l].columns = {"nextRunAt"}

\* advanceSchedule threw: the run just inserted stays "running".
AdvanceFails(l) ==
    /\ StoreFails /\ CatchesAdvance(l)
    /\ lane' = [lane EXCEPT
         ![l] = [lane[l] EXCEPT !.pc = "release", !.ret = "idle",
                                !.columns = {}, !.row = NoRow]]
    /\ UNCHANGED <<catchFrame, storeVars, window, events, calls>>

\* Calling complete(status): the completion time is taken at the call.
Completing(l, status) ==
    [lane[l] EXCEPT !.pc = "finish", !.status = status,
                    !.row = [NoRow EXCEPT !.lastTriggeredAt = clock]]

\* (faulty) the window is not subtracted from now
RecentOfNow(l) == {c \in window[WorkerOf(l)] : c.at > lane[l].now}

Recent(l) == {c \in window[WorkerOf(l)] : c.at > lane[l].now - Minute}

\* (faulty) an action over the limit waits for room in the window
AuthorizeWaits(l) ==
    LET w == WorkerOf(l)
    IN  /\ lane[l].pc = "authorize"
        /\ Cardinality(Recent(l)) < MaxActionsPerMinute
        /\ window' = [window EXCEPT ![w] =
             Recent(l) \cup {[key |-> lane[l].key, at |-> lane[l].now]}]
        /\ Goto(l, "dispatch")
        /\ UNCHANGED <<laneFrame, storeVars, events, calls>>

Authorize(l) ==
    LET w == WorkerOf(l)
        room == Cardinality(Recent(l)) < MaxActionsPerMinute
    IN  /\ lane[l].pc = "authorize"
        /\ \/ /\ FALSE \in OwnerOutcomes
              /\ lane' = [lane EXCEPT ![l] = Completing(l, "denied")]
              /\ UNCHANGED window
           \/ /\ TRUE \in OwnerOutcomes /\ ~room
              /\ lane' = [lane EXCEPT ![l] = Completing(l, "skipped")]
              /\ window' = [window EXCEPT ![w] = Recent(l)]
           \/ /\ TRUE \in OwnerOutcomes /\ room
              /\ window' = [window EXCEPT ![w] =
                   Recent(l) \cup {[key |-> lane[l].key, at |-> lane[l].now]}]
              /\ IF Stopping(l)
                 THEN lane' = [lane EXCEPT ![l] = Completing(l, "unknown")]
                 ELSE Goto(l, "dispatch")
        /\ UNCHANGED <<laneFrame, storeVars, events, calls>>

\* The bus hands an event to every worker that is subscribed.
Deliver(e) ==
    inbox' = [w \in Workers |->
                IF mode[w] = "up" THEN inbox[w] \cup {e} ELSE inbox[w]]

\* dispatcher.dispatch is called: from here on the action may have happened.
Dispatch(l) ==
    LET k == lane[l].key
    IN  /\ lane[l].pc = "dispatch"
        /\ calls' = [x \in DOMAIN calls \cup {k} |->
                       IF x # k THEN calls[x]
                       ELSE IF k \in DOMAIN calls THEN calls[k] + 1 ELSE 1]
        /\ Goto(l, "acting")
        /\ UNCHANGED <<laneFrame, storeVars, window, events>>

\* It returns, or throws ("unknown").  A successful action has published
\* integration.data.changed, best effort.
DispatchReturns(l) ==
    LET e == [id |-> Len(events) + 1, type |-> "integration.data.changed",
              svc |-> Config[lane[l].rule].target, status |-> NoStatus,
              at |-> clock, cause |-> lane[l].rule]
    IN  /\ lane[l].pc = "acting"
        /\ \E s \in Outcomes :
             /\ lane' = [lane EXCEPT ![l] = [Completing(l, s) EXCEPT !.sent = TRUE]]
             /\ IF Config[lane[l].rule].emits /\ s = "succeeded" /\ Len(events) < MaxEvents
                THEN events' = Append(events, e) /\ Deliver(e)
                ELSE UNCHANGED <<events, inbox>>
        /\ UNCHANGED <<clock, mode, tick, backlog, admin, toggles, failures,
                       storeVars, window, calls>>

\* (faulty) the run is left as it is
FinishForgotten(l) ==
    /\ lane[l].pc = "finish"
    /\ Patch(l, {"lastTriggeredAt"}, lane[l].row, "release")
    /\ UNCHANGED <<laneFrame, storeVars, window, events, calls>>

\* complete: finishRun, updateRuntime, releaseLease.
Finish(l) ==
    /\ lane[l].pc = "finish"
    /\ FinishRun(lane[l].key, lane[l].status)
    /\ Patch(l, {"lastTriggeredAt"}, lane[l].row, "release")
    /\ UNCHANGED <<laneFrame, enabled, runtime, window, events, calls>>

\* (faulty) the whole dispatch is tried again
CompleteRetries(l) ==
    /\ StoreFails /\ lane[l].sent
    /\ lane[l].pc \in {"finish", "read", "write", "release"}
    /\ Goto(l, "dispatch")
    /\ UNCHANGED <<catchFrame, storeVars, window, events, calls>>

\* complete threw after the dispatch: the error is swallowed, the lease stays.
CompleteFails(l) ==
    /\ StoreFails /\ lane[l].sent
    /\ lane[l].pc \in {"finish", "read", "write", "release"}
    /\ Return(l)
    /\ UNCHANGED <<catchFrame, storeVars, window, events, calls>>

\* The store calls of an activation that no catch of its own surrounds.  The
\* catch around a turn of seedUnscheduled goes on with the next id.
MayThrow(l) ==
    /\ lane[l].sent => lane[l].pc = "finally"
    /\ lane[l].pc \in {"getRule", "getRuntime", "preclaim", "fresh", "claim",
                       "insert", "conflict", "finishStale", "finish",
                       "read", "write", "release", "finally"}
    /\ ~CatchesAdvance(l)

\* What a processEvent or processStatusDebounce that claimed does first.
Unwind(l) ==
    IF PreClaims(l) /\ lane[l].pc \notin {"getRule", "getRuntime", "preclaim", "finally"}
    THEN lane' = [lane EXCEPT
           ![l] = [lane[l] EXCEPT !.pc = "finally", !.ret = "idle",
                                  !.columns = {}, !.row = NoRow]]
    ELSE Done(l)

(***************************************************************************)
(* The exception ends the lane.  When it was the last of its runLimited,   *)
(* the items still queued are lost; the catch of tick ends the tick, after *)
(* the finally of a debounce.  (With more than one tick lane the others    *)
(* would go on with the queue: MaxFailures > 0 wants one tick lane.)       *)
(***************************************************************************)
ThrowsInTick(l) ==
    LET w == WorkerOf(l)
        caught == lane[l].task = "seed" /\ lane[l].pc # "getRule"
    IN  /\ lane[l].task \in {"seed", "schedule", "debounce"}
        /\ MayThrow(l) /\ StoreFails
        /\ Unwind(l)
        /\ tick' = CASE caught -> tick
                     [] lane[l].task = "debounce" -> [tick EXCEPT ![w].queue = {}]
                     [] OTHER -> [tick EXCEPT ![w] = IdleTick]
        /\ UNCHANGED <<storeVars, clock, mode, window, inbox, backlog, events,
                       admin, toggles, calls>>

ThrowsInEvent(l) ==
    LET w == WorkerOf(l)
        siblings == {p \in backlog[w] : p[1] = lane[l].event}
    IN  /\ lane[l].task = "event" /\ MayThrow(l) /\ StoreFails
        /\ Unwind(l)
        /\ backlog' \in {backlog, [backlog EXCEPT ![w] = @ \ siblings]}
        /\ UNCHANGED <<storeVars, clock, mode, tick, window, inbox, events,
                       admin, toggles, calls>>

Release(l) ==
    /\ lane[l].pc = "release"
    /\ ReleaseLease(lane[l].rule, WorkerOf(l))
    /\ Return(l)
    /\ UNCHANGED <<laneFrame, enabled, runs, window, events, calls>>

\* (faulty) no finally
FinallyForgotten(l) ==
    /\ lane[l].pc = "finally"
    /\ Done(l)
    /\ UNCHANGED <<laneFrame, storeVars, window, events, calls>>

Finally(l) ==
    /\ lane[l].pc = "finally"
    /\ ReleaseLease(lane[l].rule, WorkerOf(l))
    /\ Done(l)
    /\ UNCHANGED <<laneFrame, enabled, runs, window, events, calls>>

LaneStep(l) ==
    \/ GetRule(l) \/ GetRuntimeOfSchedule(l) \/ GetRuntimeOfDebounce(l)
    \/ GetRuntimeOfEvent(l) \/ Preclaim(l) \/ FreshDebounce(l) \/ FreshEvent(l)
    \/ Enter(l) \/ Read(l) \/ Write(l) \/ Claim(l) \/ Insert(l) \/ Conflict(l)
    \/ FinishStale(l) \/ Authorize(l) \/ Dispatch(l) \/ DispatchReturns(l) \/ Finish(l)
    \/ Release(l) \/ Finally(l)
-----------------------------------------------------------------------------
(***************************************************************************)
(* The worker: tick, handleEvent, stop, and the process around them.       *)
(***************************************************************************)
tickFrame == <<storeVars, clock, mode, window, inbox, backlog, events, admin,
               toggles, failures, calls>>

Start(w) ==
    /\ mode[w] = "new"
    /\ mode' = [mode EXCEPT ![w] = "up"]
    /\ UNCHANGED <<storeVars, envVars, tick, lane, window, inbox, backlog>>

\* A worker of an instance without tick lanes has no timer.
TickStart(w) ==
    /\ TickSlots # {} /\ mode[w] = "up" /\ tick[w].phase = "idle"
    /\ tick' = [tick EXCEPT ![w].phase = "sweep", ![w].now = clock]
    /\ UNCHANGED <<tickFrame, lane>>

Sweep(w) ==
    /\ tick[w].phase = "sweep"
    /\ MarkStaleRunsUnknown(tick[w].now)
    /\ tick' = [tick EXCEPT ![w].phase = "unscheduled"]
    /\ UNCHANGED <<enabled, runtime, clock, mode, window, inbox, backlog,
                   events, admin, toggles, failures, calls, lane>>

\* A query of the tick answers: its ids are the queue of the next phase.
Enqueue(w, phase, ids) ==
    tick' = [tick EXCEPT ![w].phase = phase, ![w].queue = ids]

\* What a query with LIMIT ScanLimit may answer when it has no ORDER BY.
Scans(ids) ==
    IF Cardinality(ids) <= ScanLimit THEN {ids}
    ELSE {s \in SUBSET ids : Cardinality(s) = ScanLimit}

\* ORDER BY next_run_at ASC.
EarliestFirst(ids, s) ==
    \A r \in s, other \in ids \ s : runtime[r].nextRunAt <= runtime[other].nextRunAt

DueScans(trigger, now) ==
    {s \in Scans(ListDue(trigger, now)) : EarliestFirst(ListDue(trigger, now), s)}

PhaseOver(w, phase) ==
    tick[w].phase = phase /\ tick[w].queue = {} /\ TickQuiet(w)

ListUnscheduled(w) ==
    /\ tick[w].phase = "unscheduled"
    /\ \E ids \in Scans(ListUnscheduledScheduleIds) : Enqueue(w, "seed", ids)
    /\ UNCHANGED <<tickFrame, lane>>

\* seedUnscheduled returns at its next turn when the worker is stopping.
SeedStops(w) ==
    /\ tick[w].phase = "seed" /\ tick[w].queue # {} /\ TickQuiet(w)
    /\ mode[w] = "stopping"
    /\ Enqueue(w, "seed", {})
    /\ UNCHANGED <<tickFrame, lane>>

ListDueSchedule(w) ==
    /\ PhaseOver(w, "seed")
    /\ \E ids \in DueScans("schedule", tick[w].now) : Enqueue(w, "schedule", ids)
    /\ UNCHANGED <<tickFrame, lane>>

ListDueStatusDebounce(w) ==
    /\ PhaseOver(w, "schedule")
    /\ \E ids \in DueScans("status-transition", tick[w].now) :
         Enqueue(w, "debounce", ids)
    /\ UNCHANGED <<tickFrame, lane>>

TickEnd(w) ==
    /\ PhaseOver(w, "debounce")
    /\ tick' = [tick EXCEPT ![w] = IdleTick]
    /\ UNCHANGED <<tickFrame, lane>>

\* A query of the tick throws: the catch of tick ends it.
TickThrows(w) ==
    /\ StoreFails
    /\ \/ tick[w].phase \in {"sweep", "unscheduled"}
       \/ PhaseOver(w, "seed") \/ PhaseOver(w, "schedule")
    /\ tick' = [tick EXCEPT ![w] = IdleTick]
    /\ UNCHANGED <<storeVars, clock, mode, window, inbox, backlog, events, admin,
                   toggles, calls, lane>>

\* handleEvent's query throws: the event is dropped.
HandleEventThrows(w) ==
    /\ StoreFails
    /\ \E e \in inbox[w] : inbox' = [inbox EXCEPT ![w] = @ \ {e}]
    /\ UNCHANGED <<storeVars, clock, events, admin, toggles, calls, mode, tick,
                   lane, window, backlog>>

\* A free lane of the tick takes a rule; the turns of a seed are sequential.
TakeRule(l) ==
    LET w == WorkerOf(l)
        phase == tick[w].phase
    IN  /\ lane[l].pc = "idle"
        /\ phase \in {"seed", "schedule", "debounce"}
        /\ phase = "seed" => TickQuiet(w) /\ mode[w] = "up"
        /\ \E r \in tick[w].queue :
             /\ tick' = [tick EXCEPT ![w].queue = @ \ {r}]
             /\ lane' = [lane EXCEPT
                  ![l] = [IdleLane EXCEPT !.pc = "getRule", !.task = phase,
                                          !.rule = r, !.now = tick[w].now]]
        /\ UNCHANGED tickFrame

\* handleEvent: its query answers.
HandleEvent(w) ==
    \E e \in inbox[w] :
        /\ inbox' = [inbox EXCEPT ![w] = @ \ {e}]
        /\ \E ids \in Scans(ListEnabledEventRuleIds) :
             backlog' = [backlog EXCEPT ![w] = @ \cup ({e} \X ids)]
        /\ UNCHANGED <<storeVars, envVars, mode, tick, lane, window>>

TakeEvent(l) ==
    LET w == WorkerOf(l)
    IN  /\ lane[l].pc = "idle"
        /\ \E p \in backlog[w] :
             /\ backlog' = [backlog EXCEPT ![w] = @ \ {p}]
             /\ lane' = [lane EXCEPT
                  ![l] = [IdleLane EXCEPT !.pc = "getRule", !.task = "event",
                                          !.rule = p[2], !.event = p[1]]]
        /\ UNCHANGED <<storeVars, envVars, mode, tick, window, inbox>>

\* SIGTERM: no tick and no event from now on; #stopping is set.
Stop(w) ==
    /\ w \in Mortal /\ mode[w] = "up"
    /\ mode' = [mode EXCEPT ![w] = "stopping"]
    /\ UNCHANGED <<storeVars, envVars, tick, lane, window, inbox, backlog>>

\* The process is gone, and with it everything that was in its memory.
Die(w, how) ==
    /\ mode' = [mode EXCEPT ![w] = how]
    /\ tick' = [tick EXCEPT ![w] = IdleTick]
    /\ lane' = [l \in Lanes |-> IF WorkerOf(l) = w THEN IdleLane ELSE lane[l]]
    /\ window' = [window EXCEPT ![w] = {}]
    /\ inbox' = [inbox EXCEPT ![w] = {}]
    /\ backlog' = [backlog EXCEPT ![w] = {}]
    /\ UNCHANGED <<storeVars, envVars>>

\* stop() has seen #inFlight = 0, and close() goes on to process.exit.
Exit(w) ==
    /\ mode[w] = "stopping" /\ InFlight(w) = {}
    /\ Die(w, "exited")

\* A crash, or a shutdown whose bounded drain ran out of time.
Crash(w) ==
    /\ w \in Mortal /\ Running(w) /\ clock <= CrashHorizon
    /\ Die(w, "crashed")
-----------------------------------------------------------------------------
(***************************************************************************)
(* The environment: time, integrations changing status, administrators.    *)
(***************************************************************************)
ClockTick ==
    /\ clock < MaxTime
    /\ clock' = clock + 1
    /\ UNCHANGED <<storeVars, workerVars, events, admin, toggles, failures,
                   calls>>

\* A connection test publishes its result, whether the status changed or not;
\* a data.changed event says that an action or a sync touched the integration.
Publish(type, svc, status) ==
    LET e == [id |-> Len(events) + 1, type |-> type, svc |-> svc,
              status |-> status, at |-> clock, cause |-> NoRule]
    IN  /\ Len(events) < MaxEvents
        /\ events' = Append(events, e)
        /\ Deliver(e)
        /\ UNCHANGED <<storeVars, clock, mode, tick, lane, window, backlog,
                       admin, toggles, failures, calls>>

(***************************************************************************)
(* setEnabled of the web process: load, the rules row under the revision   *)
(* the caller expects, load again, the runtime row; its clock is read      *)
(* after the first load.  The second load only checks that the revision is *)
(* one more than at the first, which is also so for a call whose own       *)
(* update changed no row because another call came first: the losers.  And *)
(* a call that did write the rules row is refused, and leaves the runtime  *)
(* row alone, when the next one is faster than its second load: dropped.   *)
(***************************************************************************)
LosingCalls(r) ==
    {[rule |-> r, value |-> value, now |-> clock, won |-> FALSE] : value \in BOOLEAN}

AdminRule(r, value) ==
    /\ toggles < MaxToggles
    /\ SetEnabledRule(r, value)
    /\ \E losers \in SUBSET LosingCalls(r),
          dropped \in SUBSET {call \in admin : call.rule = r} :
         admin' = (admin \ dropped) \cup losers \cup
                  {[rule |-> r, value |-> value, now |-> clock, won |-> TRUE]}
    /\ toggles' = toggles + 1
    /\ UNCHANGED <<runtime, runs, workerVars, clock, events, failures, calls>>

AdminRuntime(call) ==
    /\ SetEnabledRuntime(call.rule, call.value, call.now)
    /\ admin' = admin \ {call}
    /\ UNCHANGED <<enabled, runs, workerVars, clock, events, toggles, failures,
                   calls>>
-----------------------------------------------------------------------------
LaneFails(l) ==
    \/ AdvanceFails(l) \/ CompleteFails(l)
    \/ ThrowsInTick(l) \/ ThrowsInEvent(l)

TickStep(w) ==
    \/ TickStart(w) \/ Sweep(w) \/ ListUnscheduled(w) \/ SeedStops(w)
    \/ ListDueSchedule(w) \/ ListDueStatusDebounce(w) \/ TickEnd(w)

WorkerStep(w) ==
    \/ Start(w) \/ Stop(w) \/ Exit(w) \/ Crash(w)
    \/ TickStep(w) \/ TickThrows(w) \/ HandleEvent(w) \/ HandleEventThrows(w)

Environment ==
    \/ ClockTick
    \/ \E p \in Feed : Publish(p[1], p[2], p[3])
    \/ \E r \in Rules, value \in BOOLEAN : AdminRule(r, value)
    \/ \E call \in admin : AdminRuntime(call)

Next ==
    \/ \E l \in Lanes : LaneStep(l) \/ LaneFails(l)
    \/ \E l \in TickLanes : TakeRule(l)
    \/ \E l \in EventLanes : TakeEvent(l)
    \/ \E w \in Workers : WorkerStep(w)
    \/ Environment

Spec == Init /\ [][Next]_vars

(***************************************************************************)
(* Fairness.  Node's event loop runs every callback that is ready and the  *)
(* store, loadOwner and the dispatcher answer (all of them have timeouts), *)
(* so an activation that can step does; server.ts ticks on a timer for as  *)
(* long as the process runs, and time passes.  Nothing is assumed of       *)
(* crashes, administrators, integrations or signals, nor of a store that   *)
(* throws, which it does MaxFailures times at most.                        *)
(***************************************************************************)
Fairness ==
    /\ WF_vars(ClockTick)
    /\ \A w \in Workers :
         /\ WF_vars(Start(w)) /\ WF_vars(Exit(w))
         /\ WF_vars(TickStep(w)) /\ WF_vars(HandleEvent(w))
    /\ \A l \in Lanes : WF_vars(LaneStep(l))
    /\ \A l \in TickLanes : WF_vars(TakeRule(l))
    /\ \A l \in EventLanes : WF_vars(TakeEvent(l))
    /\ WF_vars(\E call \in admin : AdminRuntime(call))

FairSpec == Spec /\ Fairness
=============================================================================
