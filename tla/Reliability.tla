---------------------------- MODULE Reliability ----------------------------
(***************************************************************************)
(* The pure part of packages/reliability: hourly accounting of a service,  *)
(* multi-window burn rates and the decision to alert.                      *)
(*                                                                         *)
(* Time is counted in units, HourLen of them to the hour; every instant at *)
(* which an incident or a window begins or ends is a multiple of the unit, *)
(* so that the floor to whole seconds of each painted segment loses        *)
(* nothing.  A burn rate is compared, never divided: rates are ratios of   *)
(* whole numbers.                                                          *)
(***************************************************************************)
EXTENDS Integers, FiniteSets, FiniteSetsExt

CONSTANTS
    HourLen,
    FastShort, FastLong, SlowShort, SlowLong,   \* BURN_RATE_WINDOWS_HOURS
    Objective,           \* objective of the SLO, in percent
    ExcludeMaintenance,
    WarningThreshold, CriticalThreshold,
    CooldownTime, NotifyOnRecovery,
    ObservableFrom       \* the integration exists since

ASSUME ReliabilityAssumption ==
    /\ HourLen \in Nat \ {0}
    /\ {FastShort, FastLong, SlowShort, SlowLong} \subseteq Nat \ {0}
    /\ Objective \in 1..99
    /\ 0 < WarningThreshold /\ WarningThreshold < CriticalThreshold
    /\ CooldownTime \in Nat
    /\ {ExcludeMaintenance, NotifyOnRecovery} \subseteq BOOLEAN

Ongoing == -1   \* a null resolvedAt

HourOf(t) == t \div HourLen
HourStart(h) == h * HourLen
HourEnd(h) == (h + 1) * HourLen

Covers(interval, t) == interval.from <= t /\ t < interval.to

\* An incident that is not resolved lasts until the tick's now.
Until(incident, now) == [from |-> incident.from,
                         to |-> IF incident.to = Ongoing THEN now ELSE incident.to]

Buckets == {"maintenance", "unavailable", "available", "unknown"}

(***************************************************************************)
(* accountWindowBuckets: of what the hour has so far, maintenance hides an *)
(* incident, an incident hides the rest, and what precedes the integration *)
(* is unknown unless one of them covers it.                                *)
(***************************************************************************)
BucketAt(t, now, incidents, maintenances) ==
    IF \E m \in maintenances : Covers(m, t) THEN "maintenance"
    ELSE IF \E i \in incidents : Covers(Until(i, now), t) THEN "unavailable"
    ELSE IF t < ObservableFrom THEN "unknown"
    ELSE "available"

\* (faulty) The hour is accounted for to its end.
WholeHour(h, now) == HourStart(h)..(HourEnd(h) - 1)

Elapsed(h, now) == {t \in HourStart(h)..(HourEnd(h) - 1) : t < now}

\* buildHourlyRollup
HourlyRollup(h, now, incidents, maintenances) ==
    [b \in Buckets |->
        Cardinality({t \in Elapsed(h, now) : BucketAt(t, now, incidents, maintenances) = b})]

NoRow == [b \in Buckets |-> 0]

(***************************************************************************)
(* aggregateBucketsForBurn over a set of hours; a missing row is all zero. *)
(***************************************************************************)
Total(rows, hours, b) == SumFunction([h \in hours \cap DOMAIN rows |-> rows[h][b]])

Eligible(rows, hours) ==
    Total(rows, hours, "available") + Total(rows, hours, "unavailable")
      + IF ExcludeMaintenance THEN 0 ELSE Total(rows, hours, "maintenance")

Consumed(rows, hours) == Eligible(rows, hours) - Total(rows, hours, "available")

BurnsAt(rows, hours, threshold) ==
    Consumed(rows, hours) * 100 >= threshold * Eligible(rows, hours) * (100 - Objective)

\* (faulty) The open hour counts as the last closed one.
HoursWithOpen(now, n) == {HourOf(now) - k : k \in 0..(n - 1)}

\* listClosedUtcHours
ClosedHours(now, n) == {HourOf(now) - k : k \in 1..n}

States == {"healthy", "warning", "critical", "insufficient-data"}

\* classifyBurnPair
BurnPair(rows, now, short, long) ==
    LET windows == {ClosedHours(now, short), ClosedHours(now, long)}
        Both(threshold) == \A w \in windows : BurnsAt(rows, w, threshold)
    IN  IF \E w \in windows : Eligible(rows, w) = 0 THEN "insufficient-data"
        ELSE IF Both(CriticalThreshold) THEN "critical"
        ELSE IF Both(WarningThreshold) THEN "warning"
        ELSE "healthy"

\* mergeOverallState: never healthy on partial data.
Merged(fast, slow) ==
    IF "critical" \in {fast, slow} THEN "critical"
    ELSE IF "warning" \in {fast, slow} THEN "warning"
    ELSE IF {fast, slow} = {"healthy"} THEN "healthy"
    ELSE "insufficient-data"

EvaluateBurnRate(rows, now) ==
    Merged(BurnPair(rows, now, FastShort, FastLong), BurnPair(rows, now, SlowShort, SlowLong))
-----------------------------------------------------------------------------
NoTime == -1
NoState == "none"

Runtime == [lastState : States \cup {NoState}, lastNotifiedState : States \cup {NoState},
            lastNotifiedAt : Nat \cup {NoTime}]
NoRuntime == [lastState |-> NoState, lastNotifiedState |-> NoState, lastNotifiedAt |-> NoTime]

\* (faulty) A cooldown of nothing but the last state.
NoCooldown(previous, state, now) == FALSE

WithinCooldown(previous, state, now) ==
    /\ previous.lastNotifiedState = state
    /\ now - previous.lastNotifiedAt < CooldownTime

\* (faulty) Recover from whatever was observed, notified or not.
AnyRecovery(previous) == NotifyOnRecovery /\ previous.lastState \notin {"healthy", NoState}

Recovers(previous) ==
    /\ NotifyOnRecovery
    /\ previous.lastNotifiedState \in {"warning", "critical"}
    /\ previous.lastState # "healthy"

\* decideSloAlert, for a policy that is enabled: does this state notify?
Notifies(previous, state, now) ==
    CASE state = "insufficient-data" -> FALSE
      [] state = "healthy" -> Recovers(previous)
      [] OTHER -> ~WithinCooldown(previous, state, now)

NextRuntime(previous, state, now) ==
    [lastState |-> state,
     lastNotifiedState |-> IF Notifies(previous, state, now) THEN state
                           ELSE previous.lastNotifiedState,
     lastNotifiedAt |-> IF Notifies(previous, state, now) THEN now
                        ELSE previous.lastNotifiedAt]
=============================================================================
