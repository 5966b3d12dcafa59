# Formal models of DASHBOARD-HOMELAB

TLA+ modules for the parts of this repository where several processes, timers and
event handlers change one database: the automation engine (`packages/automations`) and the
revisions of its rules, incidents and the notification inbox (`packages/notifications`),
maintenance windows (`packages/status-pages`), reliability and SLO alerts
(`packages/reliability`), the dependency graph (`packages/topology`), with the stores of
`packages/db` behind them and the worker of `apps/worker` that drives them.
TLC checks small instances, TLAPS proves theorems for all of them.

1. [The system](#1-the-system)
2. [The modules](#2-the-modules)
3. [The runs](#3-the-runs)
4. [Bounds](#4-bounds)
5. [Fairness](#5-fairness)
6. [Theorems](#6-theorems)
7. [Findings and divergences](#7-findings-and-divergences)
8. [What is not modelled](#8-what-is-not-modelled)
9. [Plan](#9-plan)

## 1. The system

Three processes, the Next.js `web` application, the `worker` and the `realtime` server,
share one database (SQLite or PostgreSQL) and an event bus (Redis, or in memory when there
is one process). Every process may be restarted at any time, and there may be several workers.

| Component | State | Operations | What is hard | What makes it correct |
|---|---|---|---|---|
| Automation triggers | none (pure) | next run, cooldown, filters, transitions | boundaries of time | as defined |
| Automation store | `automation_rules`, `automation_runtime_state`, `automation_runs` | due lists, lease, run insertion and completion, two-statement `updateRuntime` and `setEnabled` | interleaved statements, lost updates | a lease excludes, a run key is unique, a settled run stays settled |
| Automation scheduler | `#inFlight`, `#stopping`, minute window, activations in progress | `tick`, `handleEvent`, `stop` | overlap of ticks and handlers, of workers, leases that run out, throwing store, crash, SIGTERM | an action at most once, never early, every run settled, what is due served, leases given back, rate limit, drain |
| Worker process | timers, subscription | start, ticks, shutdown with a bounded drain | SIGTERM in the middle of everything | the drain ends |
| Rule revisions | `config_revision` | create, update, setEnabled, delete | concurrent edits from one revision | one writer per revision, truthful answers |
| Automation service | (store) | CRUD, manual run, permissions | manual run racing a schedule | one run per request key |
| Incidents | `incidents`, links to events | open, resolve, fan out | events out of order, two workers, crash before the fan-out | one open incident per integration, every one announced and resolved |
| Notifications | inbox rows | notify, deduplicate, coalesce, cap, mark read | check-then-insert | no duplicate within the window, cap kept |
| Push subscriptions | subscriptions | register, deliver, disable | cap counted before the insertion | cap, dead endpoints disabled |
| Maintenance windows | windows, status | schedule, tick, cancel | tick of two workers, overlapping creation | legal transitions, one announcement, no overlap |
| Status pages | pages, projection cache | publish, read, invalidate | put after invalidate | no stale public page |
| Reliability, SLO | samples, alert state | sample, aggregate, alert | crash between state and notification | alert per change of level |
| Topology | edges | add, remove, impact | two edges closing a cycle | acyclic |
| Realtime server | connections, counters | connect, deliver, close | limits, shutdown order | limits kept, close ends |
| Event bus | subscriptions | publish, subscribe, reconnect | lost and late messages | subscribers receive what follows the subscription |
| Boards | revision | save | concurrent saves | as rule revisions |
| Integration actions | in-flight guard, rate limiter | run a safe action | double click, concurrent requests | one at a time, bounded rate |
| Integrations | rows, secrets | CRUD, connection test | mostly I/O | |
| Monitoring | in-flight reads | coalesced status reads | concurrent readers, failures | every reader gets an answer |
| Authentication | sessions, limiters | log in, log out, OIDC | concurrent attempts | limits kept |
| Permissions, secrets | none | table look-ups, encryption | | |
| Backup, restore | archive | export, replace the tables | running workers meanwhile | |
| Jobs | heartbeats | upsert | | |
| Product integrations, web, widgets, UI | none of their own | HTTP clients, rendering | | |

How they interact. A connection test (`integrations/service.ts`) publishes
`integration.status.changed`; the bus hands it to every worker that is connected, and each of
them hands it to three consumers that do not wait for one another: the automation scheduler,
the incident engine and the topology reconciler. The incident engine writes incidents, which
the impact analysis of the topology and the hourly rollups of the reliability service read,
and announces them through the notification centre, which the maintenance and
the SLO ticks use as well. One timer of every worker drives, one after the other, the automations (`tick`), the
maintenance windows and the reliability. The web process edits rules, windows, dependencies and
the inbox meanwhile. Nothing but the tables coordinates the processes: a lease and a run key, a
revision, a unique index on open incidents, `UPDATE ... WHERE status = ...`. Where there is none
of these (deduplication, cap, overlap of windows, acyclicity, alert state) the code
checks first and writes afterwards, and the properties say what is left of the promise.

## 2. The modules

| Module | Models | Notes |
|---|---|---|
| `AutomationTriggers` | `triggers.ts`, `evaluate.ts`, `cron.ts` | pure operators, the rule configuration as a constant |
| `AutomationStore` | `automation-runtime.ts`, the tables | one operator per SQL statement |
| `AutomationScheduler` | `scheduler.ts`, `server.ts`, `safe-dispatch.ts` | state, steps, environment, fairness |
| `RunLedger` | | what the engine promises about runs, in three actions |
| `AutomationProperties` | `docs/22-AUTOMATIONS.md` | the properties; the refinement of `RunLedger` |
| `RuleRevision` | `update`, `setEnabled`, `delete` of one rule | several callers, two stores |
| `NotificationCenter` | `notifications/service.ts` and its store | `createForUser` statement by statement, what the user and the purge do |
| `IncidentEngine` | `notifications/incidents.ts` and its store, the subscription of `server.ts` | EXTENDS `NotificationCenter` |
| `IncidentLedger` | `docs/23` | what the incident table promises, in two actions |
| `Maintenance` | `status-pages/maintenance.ts` and its store | requests and the ticks of several workers |
| `Reliability` | `reliability`: rollup, burn rate, decision | pure operators |
| `SloAlerts` | `reliability/service.ts` and its store | EXTENDS `Reliability`; the ticks of several workers |
| `Topology` | `packages/topology` and its store, the reconcilers of web and worker | requests, reconciliations, deletions, restarts |
| `MCAutomation`, `MCRuleRevision`, `MCNotificationCenter`, `MCIncidentEngine`, `MCMaintenance`, `MCSloAlerts`, `MCTopology` | | instances for TLC |
| `AutomationProofs`, `RunProofs`, `RuleRevisionProofs`, `InboxProofs`, `IncidentProofs`, `MaintenanceProofs`, `SloProofs`, `TopologyProofs` | | section 6 |

`AutomationScheduler` EXTENDS `AutomationStore` EXTENDS `AutomationTriggers`. In every module one
step is one statement of the store and the synchronous code up to the next `await`; an operation
is a record with a `pc` and its local variables; a variable marked "history" is
no state of the program but what a property needs to remember. Operators marked "(faulty)" are
plausible bugs used to see that each property notices one; no action refers to them.

### Automations


**Atomicity.** Node runs one callback at a time, and each `await` is a point where others
run. A step of the model is what happens from one `await` to the next: one SQL statement
and the synchronous code that follows it. A *lane* is one activation of `processSchedule`,
`processStatusDebounce`, `processEvent` or of one turn of `seedUnscheduled`; `pc` says at
which statement it waits, and the fields of the lane are its local variables. The number of
tick lanes is the `maxInFlight` of `runLimited`; event lanes are the handlers in progress.
With SQLite inside one process the driver is synchronous and an `await` of it is only a microtask, so fewer
interleavings are possible; the model has those of PostgreSQL, or of two processes on one SQLite file.

**Correspondence.**

| Model | Code |
|---|---|
| `runtime[r]`, `runs`, `enabled` | the three tables; `runs` is keyed by the unique `run_key` |
| `lane[l].pc`, `.ret` | where an activation waits; `read`/`write` are the two statements of `updateRuntime`, `ret` where its caller goes on |
| `lane[l].now` | `now` of the tick, or `this.#now()` of `processEvent` |
| `InFlight(w)` | `#inFlight` |
| `mode[w] = "stopping"` | `#stopping` |
| `window[w]` | `MinuteWindow.#times` |
| `inbox[w]`, `backlog[w]` | calls of `handleEvent` before their query, items that `runLimited` has queued |
| `tick[w]` | the tick in progress and the ids it still has to process |
| `calls` | dispatcher calls; history for the properties |
| `admin` | `setEnabled` calls between their two statements |

**Choices worth knowing.**
- A condition tree is the set of triples for which it is true, a cron expression the set
  of instants it matches, searched for `Lookahead` (eight days) ahead as the code does: a rule whose next match
  is farther away has no next run, and every tick tries to seed it. The engine never looks further into them.
- The identity of an event stands for its instant: two events of one integration in one
  millisecond are outside the model.
- `Deliver` reaches every worker that is up, as the Redis bus does; a message lost while the
  bus reconnects is not modelled.
- A restarted worker is a new identity (mode `"new"`): leases and windows of the old one are not inherited.
- All processes read one clock.
- `AdminRule` has *losing* and *dropped* calls: the SQLite `setEnabled` decides by loading the
  revision again, so a call that changed no row may go on to the runtime row, and a call that
  did may be refused before it. With PostgreSQL there are none; the model allows both.
- A store call that throws (`LaneFails`, `TickThrows`, `HandleEventThrows`) did not take
  effect. `ThrowsInTick` ends the whole queue, which is exact for one tick lane, so an instance with `MaxFailures > 0` has one.
- `failureCount` and `lastCompletedAt` are left out: nothing reads them back.

**RuleRevision** follows one rule and several calls: load, check, `UPDATE ... WHERE
config_revision = expected`, then the answer. PostgreSQL (`CountsRows = TRUE`) looks at the
number of rows the update returned; SQLite (`FALSE`) loads the row again and compares revisions.
There are awaits between the loads and the update, so that calls of one process take turns at them too, not only those of two processes.

### Notifications

| Model | Code |
|---|---|
| `notes` | the rows of `notifications`; text and severity are abstracted to the `dedupKey` |
| `call[c]`, steps `find`, `update`, `create`, `count`, `keep`, `delete` | the statements of `createForUser`, its `now` read when it is called |
| `CoalesceFails`, `CreateFails` | `NOT_FOUND` when the row has gone between two statements |
| `MarkRead`, `MarkAllRead`, `Dismiss`, `PurgeExpired` | one `UPDATE` or `DELETE` each |
| `CutCalls` | the calls of a process that dies (used by `IncidentEngine`) |

Rows of one instant have no defined order (their identities are random), so the newest
`MaxPerUser` rows are any set that `ORDER BY created_at` allows. Calls last
less than `MaxCallTime`, seconds against retentions of days (`CenterAssumption`: twice a call's time is within the retention of
read rows, so that no purge takes a row from under a call that found it). Nobody dismisses an
alert in the instant it was created. A call without `dedupKey` (it would go straight to `create`) and the `expiresAt` of a row, which the purge also
looks at, are left out: all callers (`incidents.ts`, `maintenance.ts:135`, `worker/database.ts:172`) pass a key, and none passes an `expiresAt`.

### Incidents

| Model | Code |
|---|---|
| `incidents` | the table, in the order of insertion |
| `handler[h]` | one `handleStatusChanged` in progress; `worker` is whose |
| `byEvent`, `findOpen`, `open`, `conflict`, `conflictByEvent`, `resolve` | the statements of `incidents.ts` and of `openAvailability` and `resolve` in the store |
| `tell`, `todo` | the fan-out, one `createForUser` of `NotificationCenter` after the other |
| `Publish(s, status, R)` | `publishStatusChanged`: any status after any other, since a connection test publishes its result whether it is new or not, and an edit that resets the status publishes "unknown"; the event reaches the workers `R` that are connected, or none |
| `Heeded` | `handleStatusChanged` returns at once for "unknown" |
| `down` | whether the last status published, "unknown" left aside, is unavailable |
| `Crash(w)` | the handlers of a worker, and the calls they have in progress, are gone |

The unique index on the open incident of an integration is `UniqueOpen`; there is none on the opening event, so
that one event may open two incidents when another one has resolved the first in between. The store is PostgreSQL's:
there the inserting statement and the look-up after a conflict are separate. SQLite
has one connection per process and `BEGIN IMMEDIATE` does not nest, so a second handler of one process that comes in
between throws; and its `resolve` answers a second handler of the same
event with the row it did not resolve. The model claims nothing of these two.
The cascade that removes the incidents of a deleted integration is part of `Topology`, not of this module, and a store call that throws is
the end of its handler, here only as part of a `Crash`.

`IncidentLedger` is the promise of `docs/23`: opened only if none is open, resolved once, nothing
else ever. The refinement mapping `Book` forgets which event opened and closed an incident.

### Maintenance windows

| Model | Code |
|---|---|
| `windows` | `maintenance_windows`, a set of integrations, a half-open range and the stored status |
| `request[a]`: `check`, `insert`, `announce`, `cancel` | `schedule` (overlap check, insertion, fan-out) and `cancel` |
| `tick[w]`: `list`, `walk`, `announce` | `tick`: the list it read, one conditional `UPDATE` per window that is to move, the fan-out of its phases |
| `tick[w].now` | the clock is read once, before the list |
| `RequestCut`, `TickCut` | a throw or a crash: whatever was still to be done is not |

A tick looks only at windows whose derived status differs from the stored one, as the code does before it sends
a statement. The recipients of a phase are one step: their calls are those of `NotificationCenter`.

### Reliability and SLO alerts

`Reliability` counts time in units, `HourLen` of them to the hour, and compares burn rates instead of
dividing them, so that no rounding is involved; the code floors to seconds and divides.
`SloAlerts` is the tick: `ListIntervals`, `UpsertHourly` for hour after hour, `Evaluate`,
`GetAlertRuntime`, `UpsertAlertRuntime`, `Notify`, and `Cut` for a throw or a crash at any of them.
`hourly` and `runtime` are the two tables; `Upserted` is `INSERT ... ON CONFLICT DO UPDATE` on a table. Incidents open and are resolved, windows are
cancelled meanwhile, both at the clock; the code dates an incident by its event, which is earlier by the time its handler took. The two interval reads of a rebuild are one step: they are sent together, and each is
of a table the tick does not write. An `hourly` row is overwritten whatever is there,
and the alert state is written without a condition on what was read.

### Topology

| Model | Code |
|---|---|
| `edges`, `integrations`, `open` | `service_dependencies`, `integrations`, the open incidents |
| `request[a]`: `list`, `insert`, `delete` | `createDependency` and `deleteDependency` of a web request |
| `rec[t]`: `read`, `publish` | a reconciliation: three reads sent together, answered in any order, then the announcements one by one |
| `snapshot` | the map the worker keeps |
| `Listed`, `Searched` | a list cut at its limit is any part of the table of that size; a search that breaks off, any nodes that a breadth-first order may have met |
| `StatusChanged` | the event of `Publish`: another status, the same or "unknown" |
| `IncidentFollows` | what `IncidentEngine` does with the same event, at any time later |
| `IntegrationDeleted` | with the cascade on incidents and none on dependencies |
| `WorkerRestarts`, `PublishFails` | the snapshot is lost, the rest of the announcements is |

`WouldCreateCycle` and `Searched` say what the two searches of the code compute, and not how they loop. What `cycle.ts:40` calls `depth` is the number of nodes visited: beyond the limit the
answer is that there is a cycle, and exactly at it the answer depends on a duplicate left on the stack, so both are
possible. `analyzeImpact` searches from each integration that is down, breadth first, and breaks off beyond `MaxDepth` dependencies and after `MaxNodes` services (`impact.ts:72`, 32 and 500; `docs/28:52`): what lies farther is "none". Which services
of the last layer it has met by then depends on the order of rows, which is left open (more than the code can do for one order of rows). `createDependency` and the analysis
list `EdgeLimit` dependencies (1000), the analysis `ServiceLimit` integrations (500); an integration beyond is one of unknown status.

A request ends with a reconciliation of its own. It starts from an empty snapshot in every request and leaves nothing
but announcements in the web process, so it is left out. One worker reconciles; its handlers overlap (two slots). The initial states are
acyclic graphs with at most one outage, the snapshot empty (just started) or an analysis of the tables.

## 3. The runs

| Run | Question | Instance | Distinct states |
|---|---|---|---|
| `schedule` | Is the action of a cron rule dispatched in time, under an exclusive lease, and its run settled by its owner, whatever worker crashes or stops? Does the engine implement `RunLedger`? | 2 mortal workers, 1 lane each, 2 instants, a lookahead of 1, leases shorter than the run | 678,625 |
| `event` | Do two handlers of one worker respect the limit, and does SIGTERM end them? | 1 worker, 2 handlers, 1 action per window, a rule whose action triggers it, owners denied, actions failing, 1 throwing call | 240,096 |
| `debounce` | A debounced alert: in time, served, or cancelled, and no return path that leaks a lease | 1 worker, tick and handler overlapping, 3 events | 167,459 |
| `settle` | After a crash and a throwing call: is every run settled, is what is due served by the worker that is left, and no action repeated? | 2 workers, one mortal, 1 failure, a lookahead of 1 | 404,246 |
| `adverse` | Is an enabled schedule seeded although `setEnabled` is cut, a call throws and more rules are to be seeded than are scanned? | 1 worker, 2 rules, limit 1, 1 toggle, 1 failure | 93,977 |
| `revision` | Concurrent edits of one rule, PostgreSQL | 3 calls and a deletion | 581 |
| `inbox` | Is the cap kept, the deduplication, and is what was told visible? | 2 overlapping calls, 2 keys, cap 2, user and purge at work | 1,321,707 |
| `alerting` | One incident, opened and resolved as the status says, one recovery, no alarm that is over, whatever is published and lost and whoever crashes | 2 workers, 4 events of any status, 2 handlers, 3 alerts, an inbox of 1 | 2,329,977 |
| `maintenance` | Legal transitions, one announcement of the end, no phase forgotten, no window left behind | 2 administrators, 2 workers, 2 windows, 1 cut or cancellation | 1,622,515 |
| `slo` | Is the evaluated state what incidents and windows say? Is the cooldown kept, a recovery preceded by an alert? | 2 workers, 3 ticks, 3 hours, cuts anywhere | 1,253,053 |
| `topology` | Acyclic, the snapshot right within the limits of the searches and lists, the announcements true to it | 4 services, graphs of 3 edges, 2 requests, 2 reconciliations, every limit 2 or 3 | 334,921 |
| `staleedit` | Is an edit that is answered with success written? (finding, section 7) | as `revision`, SQLite | |

What the properties say of the automations:

- `AtMostOnce`: the action of a run key is handed to the dispatcher once at most. This is the claim of
  the documentation, and rests on the order insert, authorize, dispatch, not on the lease.
- `LeaseExclusive`: two workers work on one schedule only when one of them has outlived its lease. It says nothing of a rule whose lease an administrator
  cleared (`setEnabled`) or somebody lost in a store call that threw (`Undisturbed`), nor of event rules: the lease is re-entrant for the handlers of one worker, and the first to finish gives it back for all.
- `NoLeakedLease`, `NoOrphanRun`: every return path gives the lease back and settles the run.
  After a throw this is left to the expiry and the sweep, so they are stated for `failures = 0`.
- `NeverEarly`: not before the scheduled instant, nor before the debounce has elapsed, although the row that
  made the rule due may be older than the event that restarted it (in `debounce` any change
  of status starts a debounce, so that a third event restarts it).
- `SettledByOwner`: another hand settles a run of an undisturbed schedule that somebody is working on only when a lease was outlived.
- `LedgerSpec`: refinement of `RunLedger`: claim, then dispatch, then settle, each key once.
- `RateLimited`: each time an action passes, the runs counted are those dispatched or about to be, not the entries of the window. An activation that was *overtaken* (one that began later has passed) is excepted:
  with a limit above one it may find that the window has dropped what it should count. With the limit of one of `event` this cannot happen, and the limit is absolute there.
- `RunsSettle`, `DueIsServed`, `ScheduleIsSeeded`, `StopCompletes`: liveness.
- `OneWriterPerRevision`, `RevisionCountsWrites`, `AnswersAreTrue`: what the revision check is for. `AnswersAreTrue` is `SuccessIsTrue` (success: the edit is written) and `RefusalIsTrue` (CONFLICT: it is not).

Of the other components. Most of their operations check and then write without a lock, so that a promise of the documentation
holds up to a race; each property names the race it excepts, and fails if any other behaviour breaks the promise.

- `WithinCap`: an inbox exceeds its cap by no more than the calls that have inserted and not yet trimmed.
- `NoTwins`: two visible alerts of one key within the window only if two calls for it went to create at once, or one of them dated its row, or looked for one,
  by a clock it had read before the other's row was made: a look-up passes over rows dated after its own clock. The proof found this last case.
- `ToldIsVisible`: a call that returns has left an unread alert of its key, unless somebody took rows away meanwhile or newer ones fill the inbox.
- `RecoveryAnnouncedOnce`: one fan-out for each resolved incident, none for an open one.
- `BookFollowsStatus`: with no handler at work, an incident is open exactly if the last published status other than "unknown" is unavailable, unless that event contradicted the one before and was lost, cut or handled while an earlier one still was. "unknown" leaves an incident open (`docs/23:47`), a repeated status changes nothing, and one that finds a receiver and no handler at work puts right what was lost.
- `NoStaleAlarm`: nobody announces the opening of an incident that is over, with the same exceptions.
- `LedgerSpec` (of `IncidentEngine`): refinement of `IncidentLedger`.
- `OverlapNeedsRace`: windows that share an integration do not overlap, unless one was inserted between the check and the insertion of the other.
- `EndAnnouncedOnce`, `EveryPhaseAnnounced`: the end once, by the tick that completed the window; and all phases, also of a window no tick ever saw active, unless a fan-out was cut.
- `NoWayBack`: a window that is over stays so; an active one is scheduled again only by a tick that somebody overtook, since a tick keeps the time of its beginning.
- `TickLeavesNoneBehind`: a tick that was not overtaken nor cut leaves no window that was over when it began.
- `EvaluationIsRight`: the state evaluated from the rows is the one that incidents and windows give (defined in `TrueState` from instants, without rows), if each closed hour has a row that is up to date.
- `QuietWithinCooldown`, `RecoveryFollowsAlert`: over what was *sent*, not what was recorded; unless a tick was cut in between, or two ticks decided at once.
- `CycleNeedsBlindInsert`: a cycle needs an edge inserted beside another one that its request had not listed, because it came later or was cut off by the limit.
- `SnapshotIsRight`: with no table changed since its reads, what the snapshot marks as impacted is at the end of a chain of at most `MaxDepth` dependencies from another service that is down; and the end of such a chain is marked, if the lists were whole and
  no more than `MaxNodes` services lie so near to that source. A chain is a function that meets no service twice, while the search goes by layers.
- `ToldIsSnapshot`: what was announced last of a service, or is about to be, is what the snapshot says, unless an announcement was lost or two were under way.

## 4. Bounds

For the automations, `MaxTime` stops the clock, `MaxEvents`, `MaxToggles` and `MaxFailures` count what the environment
does, `CrashHorizon` is the last instant of a crash or failure, so that the lease of the victim runs out
(strictly, `lease_until < now`) before the clock stops: without it a liveness property would fail for want of time
only. One clock unit is one lease, one debounce, one window: what matters is whether an instant is before, at or after
a limit, and with `MaxTime` 2 or 3 all of these occur (1 in `debounce`, where the debounce is the only duration and no worker crashes). The clock may move between any two statements. Two workers suffice for every conflict of the code, which are
all between two claimants of one row; more of them are covered by the proofs. Two events make a status change, a third one cancels or restarts a debounce.
Deadlock is not checked, since an instance really ends: the clock stops, the workers exit.

For the others: two callers, workers or administrators suffice for each check-then-write conflict, which is between two of them, and the theorems of section 6 are for any number.
`inbox` has a cap of two and three insertions, two keys, and time for the window and the retention of read rows to pass (that of unread rows, the longer one, does not). `alerting` has four events of any status, so that an integration goes down, up, down, up, repeats itself or is unknown in between, and a
handler may still be busy with the first; an inbox of one, so that fan-outs trim each other; `MaxIncidents` is above what four events can open, and `MaxNotes` lets three alerts be created. `maintenance` has two ranges, one of which is the second half of the other, a window that may start in the past
(`Grace`), and each of a tick's instants before, at and after a limit; `MaxSpent` makes a cancellation and a cut alternatives.
`slo` has hours of two units and burn windows of one, two and three hours for 1 h, 6 h, 24 h and 3 d, and rebuilds two
of three hours as the code rebuilds 48 of 72; one planned window, one incident, three ticks. `topology` (`MCInit`) starts
from stars and chains of three edges on three integrations (a fourth service is a key without one), and from four integrations, one more than a list holds, with an edge, an outage and a fresh worker. `MaxDepth` 2 is one less than the longest chain, `MaxNodes` 3 one less than a star, `EdgeLimit` and `ServiceLimit` 3 are exceeded by the next row,
`VisitLimit` 2 is met; two adversities (`MaxSpent`) out of two writes, two events, a deletion, a restart
and a failure. The symmetry sets permute identities that no operator compares, in runs without liveness properties.

## 5. Fairness

`FairSpec` assumes weak fairness of the clock, of the start of a worker, of the tick and of every lane, of taking
queued work, of the end of a drained worker, and of the second half of a `setEnabled`. The code justifies it: the event
loop runs every ready callback, `server.ts` re-arms its timer for as long as the process runs, and store, owner look-up and dispatcher have timeouts,
so an `await` ends. Nothing is assumed of crashes, signals, administrators, events or throwing stores. Every one of these is an action of its own, never part of a fair one.

The other modules state safety only, and no fairness: none of their operations is retried, so that what a crash or a lost message cuts short is, by
the code, not made up for, and the properties say what holds all the same.

## 6. Theorems

Every safety property that a run checks is a theorem; liveness is left to TLC.

| Theorem | Says |
|---|---|
| `AutomationProofs!TypeCorrect` | `Spec => []TypeOK` |
| `RunProofs!DispatchedAtMostOnce` | `Spec => []AtMostOnce` |
| `RunProofs!RunsAreLedger` | `Spec => LedgerSpec` (refinement) |
| `RunProofs!RunsAreNeverEarly` | `Spec => []NeverEarly` |
| `RunProofs!NoRunIsOrphan` | `Spec => []NoOrphanRun` |
| `RunProofs!NoLeaseLeaks` | `Spec => []NoLeakedLease` |
| `RunProofs!LeaseExcludes` | `Spec => []LeaseExclusive` |
| `RunProofs!OwnerSettles` | `Spec => SettledByOwner` |
| `RunProofs!RateIsLimited` | `Spec => RateLimited` |
| `RuleRevisionProofs!NoLostEdit` | `Spec => []OneWriterPerRevision` |
| `RuleRevisionProofs!RevisionIsExact` | `Spec => []RevisionCountsWrites` |
| `RuleRevisionProofs!TrueAnswers` | `CountsRows /\ Spec => []AnswersAreTrue` |
| `InboxProofs!InboxStaysWithinCap` | `CenterSpec => []WithinCap` |
| `InboxProofs!TwinsRaced` | `CenterSpec => []NoTwins` |
| `InboxProofs!CallLeavesAlert` | `CenterSpec => ToldIsVisible` |
| `IncidentProofs!EngineTypes` | `Spec => []TypeOK` |
| `IncidentProofs!OneRecovery` | `Spec => []RecoveryAnnouncedOnce` |
| `IncidentProofs!TableIsLedger` | `Spec => LedgerSpec` (refinement) |
| `IncidentProofs!BookFollows` | `Spec => []BookFollowsStatus` |
| `IncidentProofs!NoAlarmIsStale` | `Spec => []NoStaleAlarm` |
| `MaintenanceProofs!MaintenanceTypes` | `Spec => []TypeOK` |
| `MaintenanceProofs!EndsOnce` | `Spec => []EndAnnouncedOnce` |
| `MaintenanceProofs!PhasesAnnounced` | `Spec => []EveryPhaseAnnounced` |
| `MaintenanceProofs!StatusForward` | `Spec => NoWayBack` |
| `MaintenanceProofs!TickIsThorough` | `Spec => TickLeavesNoneBehind` |
| `MaintenanceProofs!NoOverlapAlone` | `Spec => []OverlapNeedsRace` |
| `SloProofs!RowsAreComplete` | `Spec => []TypeOK` |
| `SloProofs!StateIsRight` | `Spec => EvaluationIsRight` |
| `SloProofs!CooldownIsKept` | `Spec => QuietWithinCooldown` |
| `SloProofs!RecoveryAfterAlert` | `Spec => RecoveryFollowsAlert` |
| `TopologyProofs!TopologyTypes` | `Spec => []TypeOK` |
| `TopologyProofs!GraphStaysAcyclic` | `Spec => []CycleNeedsBlindInsert` |
| `TopologyProofs!SnapshotIsAnalysis` | with no table changed since its reads, the snapshot is one of the `Analyses` of the tables |
| `TopologyProofs!SnapshotIsExact` | `Spec => []SnapshotIsRight` |
| `TopologyProofs!ToldFollowsSnapshot` | `Spec => []ToldIsSnapshot` |

They hold for any values of the constants (rules, workers, callers, events, services, windows, bounds) that satisfy the named assumptions: `TriggersAssumption`, `StoreAssumption`, `SchedulerAssumption`;
`RevisionAssumption`; `CenterAssumption`, which has a finite set of callers, a cap above zero and calls shorter than half the retention of read rows; `EngineAssumption`; `MaintenanceAssumption`; `ReliabilityAssumption` and
`SloAssumption` (the burn windows are no longer than the longest one, a rebuild has at least an hour); `TopologyAssumption` (finitely many services, limits that are numbers). TLC evaluates them in each run.

**Automations.** `TypeOK` alone is not inductive: that the key of an activation at `insert` is a run key does not follow
from the type of the lane. `TypeInv` adds `LanesOK`: an activation has its rule, its event and its run key at every
place where the code uses them. The proof has one lemma per action (`GetRuleType`, `InsertType`, ...), on top of lemmas on each statement
of the store and on each way a lane moves (`GotoOK`, `PatchOK`, `DoneOK`, `ResumeOK`). The other proofs look at the engine through
a coarser one: the `Stage` of an activation, the table `Flow` of what may follow what, and `Becomes`, which says of every step of a lane that it moves on along `Flow`, ends where it may, or fails.

*At most once.* An activation *owns* the run it inserted until it calls the dispatcher
(`Owns`: it is at `authorize`, at `dispatch`, or in the `updateRuntime` in between). In `OwnInv` owned keys are inserted and not dispatched, two owners have
two keys, and dispatched keys are inserted. Only `Insert` creates an owner, for a key nobody inserted before; only `Dispatch` adds a call, and its owner
ceases to be one. The lease plays no part: at-most-once holds for a lease of any length and administrators that clear it.

*The ledger.* With `ReportsCalled` (who is about to settle a run as "succeeded" or "failed" has called the dispatcher for it), every step is an
insertion, a call, a settlement or a stutter of `RunLedger`.

*Never early.* `ClaimsRipe`: from the claim on, an activation holds a key that was due at its `now`. A tick's list may be stale; the row is read again after it, or after the claim for a debounced alert, and this
reading makes the key.

*No orphan, no leak.* `OnlyTheLivingWork`: a process that has ended has no activation. `RunsHaveWorker` then keeps, for every running run of a live process, an activation at `authorize`, `dispatch`, `acting` or `finish` with
its key, and `LeasesHaveHolder`, for every lease of a live process, an activation in a holding stage; no arrow of `Flow` leads out of these but through `finishRun` and `releaseLease`. Both count only while `failures = 0`.

*The lease.* `OneLane`: one tick hands a rule to one lane only. `HandlersSpareSchedules`: handlers never touch a schedule. So for an undisturbed schedule `Leased` holds: whoever works on it from the claim on either has the lease, until its `now` plus `LeaseMs`, or has outlived it;
a claim, which needs the lease to be free or run out, cannot break this for another. `InTime` (no `now` is ahead of the clock) is what makes a lease run out no earlier than it says. `SettledByOwner` follows: the sweep and the competitor that lost the insertion need the lease to have run out.

*The rate.* `PassedAreKept`: a run that was let pass has its entry in the window of its process, or its instant is `Closed`: an entry one window later is there, or the window is full of later entries. A step of `MinuteWindow` that drops an entry closes its instant, and
what is closed stays closed (`AttemptCloses`, by cases on whether the attempt is one window later). An activation that finds room and was not overtaken therefore sees all it has to count.

**Revisions.** The three on `RuleRevision` hold for any number of calls. The first two need no assumption on the store: a wrong
answer of the SQLite store is a wrong answer, not a lost edit. `RevisionInv` adds to the properties what the calls in progress know
(`KnownRevisions`: neither the revision expected nor the one loaded is newer than the row's, and the load is not older than the
form) and `WritersAreDone` (a writer has left its revision behind). From these, when the row still has the revision expected, it is also
the one loaded, and `existing + 1` is the next revision. `TrueAnswers` needs `CountsRows`, and `staleedit` shows why.

**Inbox.** `WithinCap` is not inductive: a call trims by a list it made earlier, and rows inserted since then stay. `InboxInv` has for each user `Bounded`: the rows,
less the rows that untrimmed calls have inserted themselves, are no more than the cap and the calls that are trimming. A list has at most the cap (`KeepsFew`), so that a trim ends in a bounded inbox whatever happened in between.
`NoTwins`: `TwinInv` adds `Clear`, what a call that is at `create` knows of the rows of its key: none in its window, unless it raced. The attempt showed a race that the history had not: a look-up passes over a row dated after its own clock.
`ToldIsVisible`: `ShownInv` follows a call to its end. It will coalesce with an unread row, or has shown one, and a row that a list leaves out was ousted by newer ones (`WillCoalesce`, `HasShown`, `WillKeep`, `Ousted`); `Timely` and the assumption on `MaxCallTime` say that
no purge can take it meanwhile. These three are about the inbox on its own. They are not claimed of `IncidentEngine`, where a crash may leave a row that only the next call trims.

**Incidents.** `IncidentInv` is `RecoveryAnnouncedOnce` with the types of the table and of the handlers, of which one fact carries the proof: a handler at `resolve` names an
incident of the table. `Resolve` then either finds it open, with no recovery so far, or changes nothing. `TableIsLedger` follows step by step: an append where `UniqueOpen` held is `Open`, a resolution is `Resolve`, everything else leaves
`Book` alone. `StatusInv` is for the other two: an integration that is not `unsure` is `Settled` (open exactly if down) or has a handler (`Attended`), and a handler on its way has seen what the table holds (`Fits`): it is of the last status, and the step it is at will settle the table, unless another handler of that status has.
An integration with an unhandled change of status, or handlers of two statuses at once, is unsure by then; repeats of one status may be handled side by side. `EngineTypes` takes the types of the inbox along (`CallsInv`), since the fan-out calls it.

**Maintenance.** `MaintenanceInv` has two parts that are not types. `SeesActive`: as long as nobody overtook a tick, no window is active that starts after the tick's `now`, so that only an overtaken tick can take a start back. `Owes`: the end of a window is owed by one tick
at most, of a completed window, whose end has not been announced; only the conditional `UPDATE` that completes the window creates the debt. `OverlapInv` adds, for the overlap, that a
request which nobody overtook is about to insert where it is free: cancellations and ticks only end windows, and only an insertion can take the place. `PhaseInv` adds that a phase the status has passed is announced, lost, or still on the list of the tick or request that moved the window (`PhasesKept`).
`WalksOK` says what a tick that walks its list knows: a window that was over at its beginning is on the list, or terminal by now (`Knows`), unless the tick was overtaken.

**SLO alerts.** The properties on notifications are about what was sent, the decision about what was recorded, and between the two a tick may be cut. `SentIsRecorded` says that,
unless things are muddled, the recorded state runs ahead of the last notification by at most the one being told, and that one was allowed to follow. A decision that reads the recorded state then decides on what was sent.
`StateIsRight` says that sums of counted rows are counts of instants. `DataInv` has of each row that it counts, by bucket, the instants of its hour up to the `now` it was written with, as they were then (`RowTells`), and of a tick, that the intervals it read give each
instant before its `now` the bucket it has in the tables, unless a window was cancelled since (`TickTells`); the past stays, because incidents begin and end at the clock (`PastStays`). The sum over the hours is then a cardinality, since a row partitions its hour and the hours partition the
window (`SumCounts`). That is an induction on a finite set; it is done by a minimal counterexample in the order of strict inclusion, which is well founded on finite sets.

**Topology.** `GraphInv`: a request that is about to insert, and that nobody overtook, would still close no cycle. Cycles are non-empty sets in which everyone has a dependent, reachability is "in every closed set", so that
no induction over paths is needed (`InsertionClosesNoCycle`, `TraversalIsSound`). `TInv` is about the worker: types (`TaskInv`); announced or about to be is what the snapshot says (`ToldInv`, with `SilentAtFirst`: nothing is pending under an empty snapshot, so that nothing of an old one is announced over the seed);
and what a reconciliation has read is what the tables hold, unless one was touched (`ViewInv`). `SnapshotIsExact` compares the snapshot with chains. `Within`, what lies near to a
source, is stated by ways that may linger and go in circles (`Leads`); a way that meets a service twice can be shortened (`Shortcut`), so that the shortest one is a chain (`WayHasChain`), and a chain is a way (`ChainIsWay`). A search therefore
meets ends of chains only, and all of them if they are fewer than `MaxNodes` (`SearchMeets`).

Model-checked only: the liveness properties `RunsSettle`, `DueIsServed`, `ScheduleIsSeeded`, `StopCompletes` (the prover has no `ENABLED`, so that fairness cannot be used). They are checked on the instances of section 4, whose bounds are part of them.

## 7. Findings and divergences

A run shows one: its property is violated by what the code does, and `PROJECT.json` quotes the documentation.

- `staleedit`: in the SQLite store an edit that lost the race is answered with success, when the winner raised the
  revision by one between the loser's first load and its `UPDATE`. The opposite, a written edit answered CONFLICT because another one came in between its `UPDATE` and its second load, happens as well
  (`RefusalIsTrue` fails in the same instance). It takes two processes on one SQLite file, or two requests of one process that take turns at the awaits.

Known from reading and modelling, without a run of their own (a "hazard" of `PROJECT.json` where one bites):

- The lease is re-entrant for one worker (`scheduler.ts:463`), so two events of one integration are handled at once, and the older one
  may be recorded last; the alert it starts is not cancelled. `docs/22-AUTOMATIONS.md:88`: a flap before the deadline cancels the alert.
- The observed status is one per rule (`scheduler.ts:484`). Events of other integrations overwrite it before the filter is looked at, and a watched
  service that stays down looks like a transition. `docs/22-AUTOMATIONS.md:86`: only on transition.
- The documented `causationAutomationId` check (`docs/22-AUTOMATIONS.md:46`, `scheduler.ts:560`) never sees the id: no caller passes it.
- `stop()` waits for `#inFlight`, which a handler that has claimed but not yet
  reached `#claimAndDispatch` is not part of, so that the process may exit with a lease.
- The cooldown of a rule is evaluated before the claim, so that two overlapping events may both fire.
- `MinuteWindow` (`scheduler.ts:218`) assumes that its `now` never goes back. A tick's `now` is the beginning of the tick, a handler's that of the event: an activation that was overtaken finds that the window has dropped what it should count, and with
  a limit above one the worker exceeds it by what was overtaken.
- A call that creates an alert with a clock read earlier than another's row does not see that row, so that there are two alerts of one key.
- Two maintenance windows, or two dependencies, that are checked at the same time are both inserted, the overlap or the cycle included; nothing looks again.
- The tick of the maintenance windows is called restart-safe (`maintenance.ts:289`); that covers the status. A fan-out that is cut is never resumed,
  because the status it announces is already stored.
- A reconciliation after a request starts from an empty snapshot without seeding it, so that it announces every service that is not "none" again, although `docs/28` has no emission for an unchanged status.
- A lost announcement of the topology is not made up for: the snapshot is replaced first.
- The cycle check lists 1000 dependencies (`topology/src/service.ts:91`); beyond these it misses edges, and one request alone can close a cycle. Beyond 500 integrations (`impact-events.ts:57`) the analysis takes an integration for one of unknown status, and what depends on it is "at-risk".
- An SLO alert recorded and not sent (a crash in between) is held back by the cooldown, and its recovery is announced to people who never heard of it; two ticks at once may both notify (`docs/27`: no storm).
- Closed hours older than the rebuilt 48 keep the row they have, also if a window was cancelled since, and are part of the 72 evaluated.

## 8. What is not modelled

- *Components*: push subscriptions, realtime server, event bus state machine, authentication limiters, action guard, monitoring: small concurrent state machines that touch nothing that is modelled (section 9). Boards: the compare-and-set that `RuleRevision` models.
  Status pages: the public cache is made anew for each request context, so that it never answers twice; the rest is a projection. Jobs, backup: one statement, one transaction.
- *Within a modelled component*: `create`, `update` and `delete` of a rule a worker is working on, manual runs (they take no lease and have keys of their own), `purgeHistory`; clocks that differ between processes; daily rollups,
  the error budget of the pages (`slo-math`) and the retention of rollups; the SQLite variant of incidents, and in `IncidentEngine` the deletion of an integration and a store call that throws otherwise than by a crash; in the topology a second worker's snapshot and the reconciliation at the end of a request; the order of rows, which decides what a search that breaks off has met.
- *For good*: HTTP clients of the integrations, catalogues, database schema, rendering, cryptography, formatting. These are most of the lines of the repository: the pages and widgets, the clients of some dozens of
  products and their mappings keep no state that two parties share, and a model of them would say what they say. The share of source lines behind the models is small for that reason.

## 9. Plan

Done: the automation engine and rule revisions; the inbox; the incident engine on a lossy bus; maintenance windows; SLO alerts; topology. What is left, in the order of what it would add:

1. Proofs: all safety properties are proved. What is left is to carry those of the inbox over to `IncidentEngine`, up to the crash that leaves a row untrimmed.
2. The Redis subscription (connect, ready, reconnect) under `IncidentEngine`, in place of "any set of workers".
3. Push subscriptions: the cap counted before the insertion, dead endpoints.
4. Realtime: connection limits, and a `close` that waits for streams closed only afterwards.
5. The in-flight guard and the rate limiters of actions and of authentication.
6. Manual runs and restore under a running worker.
