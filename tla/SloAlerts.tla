----------------------------- MODULE SloAlerts -----------------------------
(***************************************************************************)
(* The reliability tick as several workers run it, for one service, its    *)
(* SLO and its alert policy: rebuild the last hours from the incidents and *)
(* the maintenance windows, evaluate the closed hours, decide, record the  *)
(* decision, notify.  A tick reads its clock once.  No statement of it is  *)
(* conditional on what another tick has written in between.                *)
(*                                                                         *)
(* Incidents and maintenance windows are written by others (see            *)
(* IncidentEngine and Maintenance); here they come and go.                 *)
(***************************************************************************)
EXTENDS Reliability

CONSTANTS
    Workers,
    RebuildHours,   \* RELIABILITY_REBUILD_DEFAULT_HOURS
    PlannedWindows, \* maintenance windows scheduled so far
    MaxTime, MaxIncidents, MaxTicks   \* bounds

\* The slow pair has the longest window of all.
ASSUME SloAssumption ==
    /\ RebuildHours \in Nat \ {0}
    /\ {FastShort, FastLong, SlowShort} \subseteq 1..SlowLong
    /\ PlannedWindows \subseteq [from : Nat, to : Nat]
    /\ MaxTime \in Nat

VARIABLES
    clock,
    incidents, maintenances,
    edition,     \* history: how many windows have been cancelled
    hourly,      \* the table: hour -> row
    written,     \* history: hour -> tick's now and edition behind the row
    runtime,     \* slo_alert_runtime_state
    tick,        \* Workers -> progress of tick
    ticks,
    lastSent,    \* history: state and now of the last notification
    muddled      \* history: a decision was cut or made on a state overwritten meanwhile

vars == <<clock, incidents, maintenances, edition, hourly, written, runtime,
          tick, ticks, lastSent, muddled>>

NoTick == [pc |-> "idle", now |-> 0, seen |-> [incidents |-> {}, maintenances |-> {}, edition |-> 0],
           todo |-> {}, state |-> NoState, previous |-> NoRuntime]
TickSteps == {"idle", "list", "rebuild", "evaluate", "previous", "record", "notify"}

Init ==
    /\ clock = 0
    /\ incidents = {}
    /\ maintenances = PlannedWindows
    /\ edition = 0
    /\ hourly = << >>
    /\ written = << >>
    /\ runtime = NoRuntime
    /\ tick = [w \in Workers |-> NoTick]
    /\ ticks = 0
    /\ lastSent = [state |-> NoState, at |-> NoTime]
    /\ muddled = FALSE

tables == <<hourly, written, runtime>>
history == <<lastSent, muddled>>
world == <<clock, incidents, maintenances, edition>>
-----------------------------------------------------------------------------
TickStart(w) ==
    /\ tick[w].pc = "idle"
    /\ ticks < MaxTicks
    /\ ticks' = ticks + 1
    /\ tick' = [tick EXCEPT ![w] = [NoTick EXCEPT !.pc = "list", !.now = clock]]
    /\ UNCHANGED <<world, tables, history>>

Rebuilt(now) == {h \in (HourOf(now) - RebuildHours + 1)..HourOf(now) : h >= 0}

\* listIncidentsBetween and listMaintenancesBetween, asked together: what
\* ended before the hours to rebuild is left out.
ListIntervals(w) ==
    LET from == HourStart(HourOf(tick[w].now) - RebuildHours) IN
    /\ tick[w].pc = "list"
    /\ tick' = [tick EXCEPT ![w].pc = "rebuild", ![w].todo = Rebuilt(tick[w].now), ![w].seen =
         [incidents |-> {i \in incidents : i.to = Ongoing \/ i.to >= from},
          maintenances |-> {m \in maintenances : m.to >= from},
          edition |-> edition]]
    /\ UNCHANGED <<world, tables, ticks, history>>

\* ON CONFLICT DO UPDATE, whatever is there.
Upserted(table, h, row) ==
    [k \in DOMAIN table \cup {h} |-> IF k = h THEN row ELSE table[k]]

\* upsertHourly of rebuildHourlyWindow, a statement for each hour in turn.
UpsertHourly(w) ==
    LET t == tick[w]
        h == Min(t.todo) IN
    /\ t.pc = "rebuild"
    /\ hourly' = Upserted(hourly, h,
                          HourlyRollup(h, t.now, t.seen.incidents, t.seen.maintenances))
    /\ written' = Upserted(written, h, [now |-> t.now, edition |-> t.seen.edition])
    /\ tick' = [tick EXCEPT ![w] =
         IF t.todo = {h} THEN [NoTick EXCEPT !.pc = "evaluate", !.now = t.now]
         ELSE [t EXCEPT !.todo = @ \ {h}]]
    /\ UNCHANGED <<world, runtime, ticks, history>>

\* computeBurnEvaluation
Evaluate(w) ==
    /\ tick[w].pc = "evaluate"
    /\ tick' = [tick EXCEPT ![w].pc = "previous",
                            ![w].state = EvaluateBurnRate(hourly, tick[w].now)]
    /\ UNCHANGED <<world, tables, ticks, history>>

GetAlertRuntime(w) ==
    /\ tick[w].pc = "previous"
    /\ tick' = [tick EXCEPT ![w].pc = "record", ![w].previous = runtime]
    /\ UNCHANGED <<world, tables, ticks, history>>

\* The state of the policy is written before anybody is told.
UpsertAlertRuntime(w) ==
    LET t == tick[w] IN
    /\ t.pc = "record"
    /\ runtime' = NextRuntime(t.previous, t.state, t.now)
    /\ tick' = [tick EXCEPT ![w] = IF Notifies(t.previous, t.state, t.now)
                                   THEN [NoTick EXCEPT !.pc = "notify", !.state = t.state,
                                                       !.now = t.now]
                                   ELSE NoTick]
    /\ muddled' = (muddled \/ runtime # t.previous \/ \E v \in Workers : tick[v].pc = "notify")
    /\ UNCHANGED <<world, hourly, written, ticks, lastSent>>

Notify(w) ==
    /\ tick[w].pc = "notify"
    /\ lastSent' = [state |-> tick[w].state, at |-> tick[w].now]
    /\ tick' = [tick EXCEPT ![w] = NoTick]
    /\ UNCHANGED <<world, tables, ticks, muddled>>

\* The worker dies, or a call of its tick throws: the next tick starts afresh.
Cut(w) ==
    /\ tick[w].pc # "idle"
    /\ tick' = [tick EXCEPT ![w] = NoTick]
    /\ muddled' = (muddled \/ tick[w].pc = "notify")
    /\ UNCHANGED <<world, tables, ticks, lastSent>>
-----------------------------------------------------------------------------
Quiet == UNCHANGED <<tables, tick, ticks, history>>

\* A tick takes seconds; a unit of time is half an hour.
TicksAreShort == \A w \in Workers : tick[w].pc # "idle" => clock <= tick[w].now

Tick ==
    /\ clock < MaxTime
    /\ TicksAreShort
    /\ clock' = clock + 1
    /\ Quiet /\ UNCHANGED <<incidents, maintenances, edition>>

IncidentOpens ==
    /\ Cardinality(incidents) < MaxIncidents
    /\ \A i \in incidents : i.to # Ongoing /\ i.to < clock
    /\ incidents' = incidents \cup {[from |-> clock, to |-> Ongoing]}
    /\ Quiet /\ UNCHANGED <<clock, maintenances, edition>>

IncidentResolved ==
    /\ \E i \in incidents :
         /\ i.to = Ongoing /\ i.from < clock
         /\ incidents' = (incidents \ {i}) \cup {[i EXCEPT !.to = clock]}
    /\ Quiet /\ UNCHANGED <<clock, maintenances, edition>>

\* A window is cancelled before it ends, hours of it being accounted already.
WindowCancelled ==
    /\ \E m \in maintenances : clock < m.to /\ maintenances' = maintenances \ {m}
    /\ edition' = edition + 1
    /\ Quiet /\ UNCHANGED <<clock, incidents>>

Next ==
    \/ \E w \in Workers :
         \/ TickStart(w) \/ ListIntervals(w) \/ UpsertHourly(w) \/ Evaluate(w)
         \/ GetAlertRuntime(w) \/ UpsertAlertRuntime(w) \/ Notify(w) \/ Cut(w)
    \/ Tick
    \/ IncidentOpens \/ IncidentResolved
    \/ WindowCancelled

Spec == Init /\ [][Next]_vars

(***************************************************************************)
(* The types; and a row accounts for all of its hour that was over when    *)
(* the tick behind it began, and for nothing of what was still to come.    *)
(***************************************************************************)
TypeOK ==
    /\ clock \in 0..MaxTime
    /\ DOMAIN hourly = DOMAIN written
    /\ \A h \in DOMAIN hourly :
         /\ hourly[h] \in [Buckets -> 0..HourLen]
         /\ written[h].now \in 0..clock /\ written[h].edition \in 0..edition
         /\ SumFunction(hourly[h]) = IF written[h].now >= HourEnd(h) THEN HourLen
                                    ELSE written[h].now - HourStart(h)
    /\ runtime \in Runtime
    /\ \A w \in Workers : /\ tick[w].pc \in TickSteps
                          /\ tick[w].now \in 0..clock
                          /\ tick[w].previous \in Runtime
    /\ muddled \in BOOLEAN
-----------------------------------------------------------------------------
(***************************************************************************)
(* What a burn rate means, said of the time line itself: of the n hours    *)
(* that are over at "now", the share of the time that counts in which the  *)
(* service was not available.                                              *)
(***************************************************************************)
Span(now, n) ==
    {t \in HourStart(HourOf(now) - n)..(HourStart(HourOf(now)) - 1) : t >= 0}
Counts(t, now) ==
    BucketAt(t, now, incidents, maintenances)
      \in {"available", "unavailable"} \cup IF ExcludeMaintenance THEN {} ELSE {"maintenance"}
Bad(t, now) == Counts(t, now) /\ BucketAt(t, now, incidents, maintenances) # "available"

Burning(now, n, threshold) ==
    LET time == {t \in Span(now, n) : Counts(t, now)}
        bad == {t \in Span(now, n) : Bad(t, now)}
    IN  time # {} /\ Cardinality(bad) * 100 >= threshold * Cardinality(time) * (100 - Objective)

Pairs == {{FastShort, FastLong}, {SlowShort, SlowLong}}
HasData(now, n) == \E t \in Span(now, n) : Counts(t, now)
SomePair(now, threshold) ==
    \E pair \in Pairs : \A n \in pair : Burning(now, n, threshold)

TrueState(now) ==
    CASE SomePair(now, CriticalThreshold) -> "critical"
      [] ~SomePair(now, CriticalThreshold) /\ SomePair(now, WarningThreshold) -> "warning"
      [] OTHER -> IF \A n \in UNION Pairs : HasData(now, n) THEN "healthy"
                  ELSE "insufficient-data"

(***************************************************************************)
(* docs/27: a state is right.  What a tick evaluates is what the incidents *)
(* and windows say of the closed hours, if each of these hours has a row   *)
(* written after the hour was over and since a window was last cancelled.  *)
(* The rows of 48 hours are rebuilt and 72 are evaluated, and any tick may *)
(* overwrite a row with an older view: without the condition it is not so. *)
(***************************************************************************)
UpToDate(now) ==
    \A h \in ClosedHours(now, SlowLong) :
        (h >= 0) => /\ h \in DOMAIN written
                    /\ written[h].now >= HourEnd(h)
                    /\ written[h].edition = edition

EvaluationIsRight ==
    [][\A w \in Workers :
         (Evaluate(w) /\ UpToDate(tick[w].now))
            => tick'[w].state = TrueState(tick[w].now)]_vars

(***************************************************************************)
(* docs/27, "Dedup : meme SLO + meme etat + cooldown -> pas de tempete":   *)
(* two notifications in a row that say the same are at least the cooldown  *)
(* apart, unless a tick was cut between recording and notifying, or two    *)
(* ticks decided at once.                                                  *)
(***************************************************************************)
QuietWithinCooldown ==
    [][\A w \in Workers :
         (Notify(w) /\ lastSent.state = tick[w].state)
            => muddled \/ tick[w].now - lastSent.at >= CooldownTime]_vars

(***************************************************************************)
(* docs/27: a recovery is notified only if an alert had been; whoever is   *)
(* told that the burn rate is healthy again was last told that it was not, *)
(* with the same exceptions.                                               *)
(***************************************************************************)
RecoveryFollowsAlert ==
    [][\A w \in Workers :
         (Notify(w) /\ tick[w].state = "healthy")
            => muddled \/ lastSent.state \in {"warning", "critical"}]_vars
=============================================================================
