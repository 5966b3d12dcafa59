------------------------ MODULE AutomationProperties ------------------------
(***************************************************************************)
(* What must be true of the automation engine, and what its documentation  *)
(* (docs/22-AUTOMATIONS.md) claims of it.                                  *)
(***************************************************************************)
EXTENDS AutomationScheduler

TypeOK ==
    /\ StoreTypeOK
    /\ clock \in Nat
    /\ mode \in [Workers -> {"new", "up", "stopping", "exited", "crashed"}]
    /\ tick \in [Workers -> TickState]
    /\ lane \in [Lanes -> LaneState]
    /\ events \in Seq(Event)
    /\ inbox \in [Workers -> SUBSET Event]
    /\ backlog \in [Workers -> SUBSET (Event \X Rules)]
    /\ window \in [Workers -> SUBSET [key : RunKey, at : Nat]]
    /\ admin \subseteq AdminCall
    /\ toggles \in Nat
    /\ failures \in Nat
    /\ DOMAIN calls \subseteq RunKey
    /\ calls \in [DOMAIN calls -> Nat]

\* The refinement: the automation_runs table and the dispatcher calls are a
\* run ledger.
Ledger == INSTANCE RunLedger WITH
    ledger <- [k \in DOMAIN runs |-> runs[k].status],
    sent <- calls
LedgerSpec == Ledger!LedgerSpec

\* "at-most-once : pas de retry automatique des side effects": whatever the
\* overlap of ticks, handlers, expired leases and crashed workers, the action of
\* a run is handed to the dispatcher once at most.
AtMostOnce == \A k \in DOMAIN calls : calls[k] = 1

\* A lane at work under the lease it claimed.
Working(l) ==
    \/ lane[l].pc \in {"insert", "conflict", "finishStale", "authorize",
                       "dispatch", "acting", "finish", "release", "fresh", "enter"}
    \/ lane[l].pc \in {"read", "write"} /\ lane[l].ret # "idle"

\* complete has already given the lease back when "finally" does it again.
Holding(l) == Working(l) \/ lane[l].pc = "finally"

\* Outlived(l): the lease that the lane claimed has run out.
Outlived(l) == lane[l].now + LeaseMs < clock

\* A schedule whose lease nothing but its own activations has touched: setEnabled
\* clears the lease, and after a call that threw a tick may take the rule again
\* beside an activation that goes on.
Undisturbed(r) ==
    r \in Rules /\ Config[r].trigger = "schedule" /\ toggles = 0 /\ failures = 0

\* Two workers are at work on one schedule only when the lease of one of them
\* has run out: the lease is a mutual exclusion for as long as it lasts.  (It is
\* not one for the other rules: the handlers of one worker share the lease, and
\* the first to finish gives it back for all.)
LeaseExclusive ==
    \A l1, l2 \in Lanes :
        (/\ WorkerOf(l1) # WorkerOf(l2)
         /\ Working(l1) /\ Working(l2)
         /\ lane[l1].rule = lane[l2].rule /\ Undisturbed(lane[l1].rule))
        => Outlived(l1) \/ Outlived(l2)

\* A worker that is alive keeps a lease only while one of its activations is
\* inside the claim: every return path of claimAndDispatch, processEvent and
\* processStatusDebounce gives the lease back, as long as no store call throws.
NoLeakedLease ==
    failures = 0 => \A r \in Rules, w \in Workers :
        (Running(w) /\ runtime[r].leaseOwner = w)
        => \E l \in Lanes : WorkerOf(l) = w /\ lane[l].rule = r /\ Holding(l)

\* A run is "running" only while an activation of a live worker is working on
\* it, or the worker that inserted it is gone: no return path forgets a run, as
\* long as no store call throws.
NoOrphanRun ==
    failures = 0 => \A k \in DOMAIN runs :
        (runs[k].status = "running" /\ Running(runs[k].by))
        => \E l \in Lanes : /\ WorkerOf(l) = runs[k].by
                            /\ lane[l].key = k
                            /\ InClaimAndDispatch(l)

\* A schedule never fires before the instant it was scheduled for, and a
\* debounced alert never before its duration has elapsed since the status began.
NeverEarly ==
    \A k \in DOMAIN runs :
        /\ k.kind = "sch" => k.at <= runs[k].startedAt
        /\ k.kind = "deb" => k.at + Config[k.rule].forDuration <= runs[k].startedAt

\* A run of a schedule that its own activation is still working on is settled by
\* another hand, the sweep or a competitor that lost the insertion, only when one
\* of the two has outlived its lease.  History says "unknown" of an action that
\* may be dispatched all the same, but only then.
SettledByOwner ==
    [][\A k \in DOMAIN runs :
         (runs[k].status = "running" /\ runs'[k].status # "running" /\ Undisturbed(k.rule))
         => \/ runs[k].startedAt + LeaseMs <= clock
            \/ \E l \in Lanes : /\ lane[l].key = k
                                /\ \/ lane[l].pc = "finish"
                                   \/ lane[l].pc = "finishStale" /\ Outlived(l)
      ]_vars

(***************************************************************************)
(* Whenever a worker lets an action pass, of the runs that began in the    *)
(* window before this one it has let pass no more than MaxActionsPerMinute *)
(* with it: all runs dispatched or about to be count, not just the entries *)
(* that MinuteWindow kept.  The exception is an activation that was        *)
(* overtaken: MinuteWindow assumes that its now never goes back, and has   *)
(* dropped what an older now would still have to count.                    *)
(***************************************************************************)
Admitted(w, from, to) ==
    {k \in DOMAIN runs :
        /\ runs[k].by = w
        /\ from < runs[k].startedAt /\ runs[k].startedAt <= to
        /\ \/ k \in DOMAIN calls
           \/ \E l \in Lanes : lane[l].pc = "dispatch" /\ lane[l].key = k}

Overtaken(l) == \E c \in window[WorkerOf(l)] : lane[l].now < c.at

RateLimited ==
    [][\A l \in Lanes :
         (lane[l].pc = "authorize" /\ lane'[l].pc = "dispatch" /\ ~Overtaken(l))
         => Cardinality(Admitted(WorkerOf(l), lane[l].now - Minute, lane[l].now)')
              <= MaxActionsPerMinute]_vars
-----------------------------------------------------------------------------
\* Every run is settled in the end, by the worker that dispatched it or, when
\* that worker is gone, by the sweep of a worker that is left.
RunsSettle == <>[](\A k \in DOMAIN runs : runs[k].status # "running")

\* What is due, a schedule or a debounced alert, does not stay due: the crash of
\* the worker that holds the lease delays it by the time the lease lives.
Due(r) == runtime[r].nextRunAt # NoTime /\ runtime[r].nextRunAt <= clock

DueIsServed == \A r \in Rules : (enabled[r] /\ Due(r)) ~> (~enabled[r] \/ ~Due(r))

\* An enabled schedule gets its next run computed, also when setEnabled was
\* cut between the rules row and the runtime row.
ScheduleIsSeeded ==
    \A r \in Rules :
        (enabled[r] /\ Config[r].trigger = "schedule"
         /\ runtime[r].nextRunAt = NoTime)
        ~> (runtime[r].nextRunAt # NoTime \/ ~enabled[r])

\* A worker told to stop is gone in the end: nothing new enters #inFlight once
\* #stopping is set, and what is in it finishes.
StopCompletes ==
    \A w \in Workers : mode[w] = "stopping" ~> mode[w] \in {"exited", "crashed"}
=============================================================================
