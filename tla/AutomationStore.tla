-------------------------- MODULE AutomationStore --------------------------
(***************************************************************************)
(* The three automation tables of packages/db and the statements the       *)
(* scheduler sends to them.  One SQL statement is one atomic operator      *)
(* here; a store method made of two statements (updateRuntime,             *)
(* tryInsertRun, setEnabled) is two operators, and what happens between    *)
(* them is up to the module that composes them.                            *)
(*                                                                         *)
(* The SQLite and the PostgreSQL store have the same statements.  With     *)
(* PostgreSQL, or with two worker processes on one SQLite file, any two    *)
(* statements of different callers may be interleaved.                     *)
(***************************************************************************)
EXTENDS AutomationTriggers, FiniteSets

CONSTANTS
    Workers,      \* worker process incarnations (a restart is a new one)
    NoWorker,     \* a null lease_owner
    LeaseMs       \* AUTOMATION_LEASE_MS, in clock units

VARIABLES
    enabled,      \* automation_rules.enabled
    runtime,      \* automation_runtime_state, one row per rule
    runs          \* automation_runs: unique run_key -> row

storeVars == <<enabled, runtime, runs>>

ASSUME StoreAssumption ==
    /\ NoWorker \notin Workers
    /\ LeaseMs \in Nat \ {0}

(***************************************************************************)
(* last_observed_state: the observed status and the pending debounce; a    *)
(* pending with since = NoTime is an absent one.                           *)
(***************************************************************************)
Pending == [from : StatusOrNull, to : StatusOrNull, since : TimeOrNull,
            svc : Services \cup {AnyService}]
NoPending == [from |-> NoStatus, to |-> NoStatus, since |-> NoTime,
              svc |-> AnyService]
ObservedState == [status : StatusOrNull, pending : Pending]

HasPending(observed) == observed.pending.since # NoTime
ObservedStateWithPending(status, pending) ==
    [status |-> status, pending |-> pending]

\* The columns updateRuntime writes; lease_owner and lease_until are not among them.
Columns == {"nextRunAt", "lastTriggeredAt", "observed"}
Row == [nextRunAt : TimeOrNull, lastTriggeredAt : TimeOrNull,
        observed : ObservedState]
NoRow == [nextRunAt |-> NoTime, lastTriggeredAt |-> NoTime,
          observed |-> ObservedStateWithPending(NoStatus, NoPending)]

RuntimeState ==
    [nextRunAt : TimeOrNull, lastTriggeredAt : TimeOrNull,
     observed : ObservedState,
     leaseOwner : Workers \cup {NoWorker}, leaseUntil : TimeOrNull]

(***************************************************************************)
(* Run keys.  "at" is the scheduled instant of a "sch" key, the instant    *)
(* the pending status began for a "deb" key, the occurrence of the event   *)
(* for an "evt" key.                                                       *)
(***************************************************************************)
RunKey == [rule : Rules, kind : {"sch", "deb", "evt"}, at : Nat,
           to : StatusOrNull]
BuildScheduleRunKey(r, scheduledFor) ==
    [rule |-> r, kind |-> "sch", at |-> scheduledFor, to |-> NoStatus]
BuildStatusDebounceRunKey(r, since, status) ==
    [rule |-> r, kind |-> "deb", at |-> since, to |-> status]
BuildEventRunKey(r, e) ==
    [rule |-> r, kind |-> "evt", at |-> e.id, to |-> NoStatus]

TerminalStatuses == {"succeeded", "failed", "skipped", "denied", "unknown"}
RunStatuses == TerminalStatuses \cup {"running"}
\* "by" is the worker that inserted the row; it is kept for the properties only.
Run == [status : RunStatuses, startedAt : Nat, by : Workers]

StoreTypeOK ==
    /\ enabled \in [Rules -> BOOLEAN]
    /\ runtime \in [Rules -> RuntimeState]
    /\ DOMAIN runs \subseteq RunKey
    /\ runs \in [DOMAIN runs -> Run]
-----------------------------------------------------------------------------
(***************************************************************************)
(* Faulty statements, one plausible bug each: no action uses them.  They   *)
(* are put in the place of the statement they resemble to see that the     *)
(* properties notice.                                                      *)
(***************************************************************************)
LeaseNeverExpires(r, now) == runtime[r].leaseUntil = NoTime
NothingIsUnscheduled == {}
ClaimIgnoresLease(r, w, now) == enabled[r]
WriteSkipsNull(r, row) ==
    runtime' = [runtime EXCEPT
                  ![r].nextRunAt = IF row.nextRunAt = NoTime THEN @ ELSE row.nextRunAt,
                  ![r].lastTriggeredAt = row.lastTriggeredAt,
                  ![r].observed = row.observed]
InsertAsScheduled(k, startedAt, w) ==
    runs' = [x \in DOMAIN runs \cup {k} |->
               IF x = k
               THEN [status |-> "scheduled", startedAt |-> startedAt, by |-> w]
               ELSE runs[x]]
FinishOverwrites(k, status) == runs' = [runs EXCEPT ![k].status = status]
StaleAtOnce(k, now) == runs[k].status = "running"
NeverStale(k, now) == FALSE
-----------------------------------------------------------------------------
\* Queries.
LeaseVisible(r, now) ==
    \/ runtime[r].leaseUntil = NoTime
    \/ runtime[r].leaseUntil < now

ListDue(trigger, now) ==
    {r \in Rules : /\ enabled[r]
                   /\ Config[r].trigger = trigger
                   /\ runtime[r].nextRunAt # NoTime
                   /\ runtime[r].nextRunAt <= now
                   /\ LeaseVisible(r, now)}

ListUnscheduledScheduleIds ==
    {r \in Rules : /\ enabled[r]
                   /\ Config[r].trigger = "schedule"
                   /\ runtime[r].nextRunAt = NoTime}

ListEnabledEventRuleIds ==
    {r \in Rules : enabled[r] /\ Config[r].trigger # "schedule"}

\* claimLease: the WHERE clause, then the row it writes.
CanClaimLease(r, w, now) ==
    /\ enabled[r]
    /\ LeaseVisible(r, now) \/ runtime[r].leaseOwner = w

ClaimLease(r, w, now) ==
    runtime' = [runtime EXCEPT ![r].leaseOwner = w,
                               ![r].leaseUntil = now + LeaseMs]

ReleaseLease(r, w) ==
    runtime' = IF runtime[r].leaseOwner = w
               THEN [runtime EXCEPT ![r].leaseOwner = NoWorker,
                                    ![r].leaseUntil = NoTime]
               ELSE runtime

(***************************************************************************)
(* updateRuntime(id, patch): read the row and overlay the patched columns, *)
(* then write every column of the result.                                  *)
(***************************************************************************)
MergedRow(r, columns, patch) ==
    [nextRunAt |-> IF "nextRunAt" \in columns
                   THEN patch.nextRunAt ELSE runtime[r].nextRunAt,
     lastTriggeredAt |-> IF "lastTriggeredAt" \in columns
                         THEN patch.lastTriggeredAt
                         ELSE runtime[r].lastTriggeredAt,
     observed |-> IF "observed" \in columns
                  THEN patch.observed ELSE runtime[r].observed]

WriteRow(r, row) ==
    runtime' = [runtime EXCEPT ![r].nextRunAt = row.nextRunAt,
                               ![r].lastTriggeredAt = row.lastTriggeredAt,
                               ![r].observed = row.observed]

\* tryInsertRun: the unique run_key lets one insertion through.
CanInsertRun(k) == k \notin DOMAIN runs

InsertRun(k, startedAt, w) ==
    runs' = [x \in DOMAIN runs \cup {k} |->
               IF x = k
               THEN [status |-> "running", startedAt |-> startedAt, by |-> w]
               ELSE runs[x]]

\* finishRun: only a row that is still running changes.
FinishRun(k, status) ==
    runs' = IF runs[k].status = "running"
            THEN [runs EXCEPT ![k].status = status]
            ELSE runs

IsStale(k, now) == runs[k].status = "running" /\ runs[k].startedAt <= now - LeaseMs

MarkStaleRunsUnknown(now) ==
    runs' = [k \in DOMAIN runs |->
               IF IsStale(k, now)
               THEN [runs[k] EXCEPT !.status = "unknown"]
               ELSE runs[k]]

\* setEnabled: the rules row, then the runtime row.
SetEnabledRule(r, value) == enabled' = [enabled EXCEPT ![r] = value]

SetEnabledRuntime(r, value, now) ==
    runtime' = [runtime EXCEPT
                  ![r].nextRunAt = IF value /\ Config[r].trigger = "schedule"
                                   THEN NextScheduleRunAt(r, now) ELSE NoTime,
                  ![r].leaseOwner = NoWorker,
                  ![r].leaseUntil = NoTime]
=============================================================================
