-------------------------- MODULE AutomationProofs --------------------------
(***************************************************************************)
(* Theorems about the automation engine, for any number of rules, workers, *)
(* lanes and events, any lease and any clock.                              *)
(***************************************************************************)
EXTENDS AutomationProperties, TLAPS

(***************************************************************************)
(* What an activation carries, by the place it is at.                      *)
(***************************************************************************)
KeyedPCs == DispatchingPCs \cup {"enter"}
Returns == {"idle", "finally", "enter", "authorize", "release"}

ActivationOK(a) ==
    /\ a \in LaneState
    /\ a.ret \in Returns
    /\ a.pc # "idle" => a.rule \in Rules
    /\ a.task = "event" => a.event \in Event
    /\ a.pc \in KeyedPCs => a.key \in RunKey
    /\ a.pc \in {"read", "write"} /\ a.ret \in KeyedPCs => a.key \in RunKey

LanesOK == \A l \in Lanes : ActivationOK(lane[l])

TypeInv == TypeOK /\ LanesOK
-----------------------------------------------------------------------------
\* The operators of AutomationTriggers and AutomationStore stay within their types.
LEMMA NextRunType ==
    ASSUME NEW r \in Rules, NEW from \in Nat
    PROVE  NextScheduleRunAt(r, from) \in TimeOrNull
<1>1. CASE Config[r].every > 0
  BY <1>1, TriggersAssumption DEF NextScheduleRunAt, TimeOrNull
<1>2. CASE /\ ~(Config[r].every > 0)
           /\ \E s \in LaterSlots(r, from) : \A t \in LaterSlots(r, from) : s <= t
  <2>1. NextScheduleRunAt(r, from) \in LaterSlots(r, from)
    BY <1>2 DEF NextScheduleRunAt
  <2>2. LaterSlots(r, from) \subseteq Nat
    BY TriggersAssumption DEF LaterSlots
  <2>. QED BY <2>1, <2>2 DEF TimeOrNull
<1>3. CASE /\ ~(Config[r].every > 0)
           /\ ~(\E s \in LaterSlots(r, from) : \A t \in LaterSlots(r, from) : s <= t)
  BY <1>3 DEF NextScheduleRunAt, TimeOrNull
<1>. QED BY <1>1, <1>2, <1>3

LEMMA NoRowType == NoRow \in Row /\ NoRow.observed \in ObservedState
BY DEF NoRow, Row, ObservedState, ObservedStateWithPending, Pending, NoPending,
       TimeOrNull, StatusOrNull

LEMMA IdleLaneOK == ActivationOK(IdleLane)
BY NoRowType DEF ActivationOK, IdleLane, LaneState, PCs, Tasks, Returns, KeyedPCs,
       DispatchingPCs, RunStatuses

LEMMA PatchRowType ==
    /\ \A t \in TimeOrNull : [NoRow EXCEPT !.nextRunAt = t] \in Row
    /\ \A t \in TimeOrNull : [NoRow EXCEPT !.lastTriggeredAt = t] \in Row
    /\ \A o \in ObservedState, t \in TimeOrNull :
         [NoRow EXCEPT !.observed = o, !.nextRunAt = t] \in Row
    /\ \A o \in ObservedState : [NoRow EXCEPT !.observed = o] \in Row
BY NoRowType DEF Row, NoRow

LEMMA MergedRowType ==
    ASSUME StoreTypeOK, NEW r \in Rules, NEW columns, NEW patch \in Row
    PROVE  MergedRow(r, columns, patch) \in Row
<1>. runtime[r] \in RuntimeState
  BY DEF StoreTypeOK
<1>. QED BY DEF MergedRow, Row, RuntimeState
-----------------------------------------------------------------------------
\* Steps of one lane.
LaneTypeOK == lane \in [Lanes -> LaneState]

LEMMA LaneUpdate ==
    ASSUME LaneTypeOK, LanesOK, NEW l \in Lanes, NEW a, ActivationOK(a),
           lane' = [lane EXCEPT ![l] = a]
    PROVE  LaneTypeOK' /\ LanesOK'
<1>1. a \in LaneState
  BY DEF ActivationOK
<1>2. LaneTypeOK'
  BY <1>1 DEF LaneTypeOK
<1>3. ASSUME NEW x \in Lanes PROVE ActivationOK(lane'[x])
  BY DEF LanesOK, LaneTypeOK
<1>. QED BY <1>2, <1>3 DEF LanesOK

LEMMA GotoOK ==
    ASSUME LaneTypeOK, LanesOK, NEW l \in Lanes, NEW pc \in PCs \ {"read", "write"},
           lane[l].pc # "idle", pc \in KeyedPCs => lane[l].key \in RunKey,
           Goto(l, pc)
    PROVE  LaneTypeOK' /\ LanesOK'
<1>. DEFINE a == [lane[l] EXCEPT !.pc = pc]
<1>1. ActivationOK(lane[l]) /\ lane[l] \in LaneState
  BY DEF LanesOK, LaneTypeOK
<1>2. a \in LaneState /\ a.pc = pc
  BY <1>1 DEF LaneState
<1>3. a.ret = lane[l].ret /\ a.rule = lane[l].rule /\ a.task = lane[l].task
      /\ a.event = lane[l].event /\ a.key = lane[l].key
  BY <1>1 DEF LaneState
<1>4. ActivationOK(a)
  BY <1>1, <1>2, <1>3 DEF ActivationOK
<1>5. lane' = [lane EXCEPT ![l] = a]
  BY DEF Goto
<1>. QED BY <1>4, <1>5, LaneUpdate

LEMMA DoneOK ==
    ASSUME LaneTypeOK, LanesOK, NEW l \in Lanes, Done(l)
    PROVE  LaneTypeOK' /\ LanesOK'
BY IdleLaneOK, LaneUpdate DEF Done

LEMMA PatchedOK ==
    ASSUME LaneTypeOK, LanesOK, NEW l \in Lanes, lane[l].pc # "idle",
           NEW columns \in SUBSET Columns, NEW row \in Row, NEW ret \in Returns,
           ret \in KeyedPCs => lane[l].key \in RunKey
    PROVE  ActivationOK(Patched(l, columns, row, ret))
<1>. DEFINE a == Patched(l, columns, row, ret)
<1>1. ActivationOK(lane[l]) /\ lane[l] \in LaneState
  BY DEF LanesOK, LaneTypeOK
<1>2. a \in LaneState /\ a.pc = "read" /\ a.ret = ret
  BY <1>1 DEF LaneState, Patched, PCs, Returns
<1>3. a.rule = lane[l].rule /\ a.task = lane[l].task
      /\ a.event = lane[l].event /\ a.key = lane[l].key
  BY <1>1 DEF LaneState, Patched
<1>. QED BY <1>1, <1>2, <1>3 DEF ActivationOK, KeyedPCs, DispatchingPCs

LEMMA PatchOK ==
    ASSUME LaneTypeOK, LanesOK, NEW l \in Lanes, lane[l].pc # "idle",
           NEW columns \in SUBSET Columns, NEW row \in Row, NEW ret \in Returns,
           ret \in KeyedPCs => lane[l].key \in RunKey,
           Patch(l, columns, row, ret)
    PROVE  LaneTypeOK' /\ LanesOK'
BY PatchedOK, LaneUpdate DEF Patch
-----------------------------------------------------------------------------
\* Each statement of the store keeps the tables within their types.
LEMMA StoreKept ==
    ASSUME StoreTypeOK, UNCHANGED storeVars
    PROVE  StoreTypeOK'
BY DEF StoreTypeOK, storeVars

LEMMA ClaimLeaseType ==
    ASSUME StoreTypeOK, NEW r \in Rules, NEW w \in Workers, NEW now \in Nat,
           ClaimLease(r, w, now), UNCHANGED <<enabled, runs>>
    PROVE  StoreTypeOK'
<1>1. now + LeaseMs \in TimeOrNull
  BY StoreAssumption DEF TimeOrNull
<1>2. runtime' \in [Rules -> RuntimeState]
  BY <1>1 DEF ClaimLease, StoreTypeOK, RuntimeState
<1>. QED BY <1>2 DEF StoreTypeOK

LEMMA ReleaseLeaseType ==
    ASSUME StoreTypeOK, NEW r, NEW w,
           ReleaseLease(r, w), UNCHANGED <<enabled, runs>>
    PROVE  StoreTypeOK'
<1>1. runtime' \in [Rules -> RuntimeState]
  BY DEF ReleaseLease, StoreTypeOK, RuntimeState, TimeOrNull
<1>. QED BY <1>1 DEF StoreTypeOK

LEMMA WriteRowType ==
    ASSUME StoreTypeOK, NEW r, NEW row \in Row,
           WriteRow(r, row), UNCHANGED <<enabled, runs>>
    PROVE  StoreTypeOK'
<1>1. ASSUME r \in Rules
      PROVE  [runtime[r] EXCEPT !.nextRunAt = row.nextRunAt,
                                !.lastTriggeredAt = row.lastTriggeredAt,
                                !.observed = row.observed] \in RuntimeState
  BY <1>1 DEF StoreTypeOK, RuntimeState, Row
<1>2. runtime' \in [Rules -> RuntimeState]
  BY <1>1 DEF WriteRow, StoreTypeOK
<1>. QED BY <1>2 DEF WriteRow, StoreTypeOK

LEMMA InsertRunType ==
    ASSUME StoreTypeOK, NEW k \in RunKey, NEW startedAt \in Nat, NEW w \in Workers,
           InsertRun(k, startedAt, w), UNCHANGED <<enabled, runtime>>
    PROVE  StoreTypeOK'
<1>1. DOMAIN runs' = DOMAIN runs \cup {k}
  BY DEF InsertRun
<1>2. \A x \in DOMAIN runs' : runs'[x] \in Run
  BY <1>1 DEF InsertRun, StoreTypeOK, Run, RunStatuses
<1>3. runs' \in [DOMAIN runs' -> Run]
  BY <1>1, <1>2 DEF InsertRun
<1>. QED BY <1>1, <1>3 DEF StoreTypeOK

LEMMA FinishRunType ==
    ASSUME StoreTypeOK, NEW k, NEW status \in RunStatuses,
           FinishRun(k, status), UNCHANGED <<enabled, runtime>>
    PROVE  StoreTypeOK' /\ DOMAIN runs' = DOMAIN runs
<1>1. runs' \in [DOMAIN runs -> Run]
  BY DEF FinishRun, StoreTypeOK, Run
<1>. QED BY <1>1 DEF StoreTypeOK

LEMMA MarkStaleType ==
    ASSUME StoreTypeOK, NEW now, MarkStaleRunsUnknown(now),
           UNCHANGED <<enabled, runtime>>
    PROVE  StoreTypeOK' /\ DOMAIN runs' = DOMAIN runs
<1>1. DOMAIN runs' = DOMAIN runs
  BY DEF MarkStaleRunsUnknown
<1>2. \A k \in DOMAIN runs : runs'[k] \in Run
  BY DEF MarkStaleRunsUnknown, StoreTypeOK, Run, RunStatuses, TerminalStatuses
<1>3. runs' \in [DOMAIN runs -> Run]
  BY <1>1, <1>2 DEF MarkStaleRunsUnknown
<1>. QED BY <1>1, <1>3 DEF StoreTypeOK

LEMMA SetEnabledRuntimeType ==
    ASSUME StoreTypeOK, NEW r \in Rules, NEW value, NEW now \in Nat,
           SetEnabledRuntime(r, value, now), UNCHANGED <<enabled, runs>>
    PROVE  StoreTypeOK'
<1>1. NextScheduleRunAt(r, now) \in TimeOrNull /\ NoTime \in TimeOrNull
  BY NextRunType DEF TimeOrNull
<1>. DEFINE next == IF value /\ Config[r].trigger = "schedule"
                    THEN NextScheduleRunAt(r, now) ELSE NoTime
<1>2. next \in TimeOrNull
  BY <1>1
<1>3. runtime' = [runtime EXCEPT ![r].nextRunAt = next,
                                 ![r].leaseOwner = NoWorker,
                                 ![r].leaseUntil = NoTime]
  BY Zenon DEF SetEnabledRuntime
<1>. HIDE DEF next
<1>4. runtime' \in [Rules -> RuntimeState]
  BY <1>1, <1>2, <1>3 DEF StoreTypeOK, RuntimeState
<1>. QED BY <1>4 DEF StoreTypeOK
-----------------------------------------------------------------------------
\* What is neither a table nor a lane.
RestTypeOK ==
    /\ clock \in Nat
    /\ mode \in [Workers -> {"new", "up", "stopping", "exited", "crashed"}]
    /\ tick \in [Workers -> TickState]
    /\ events \in Seq(Event)
    /\ inbox \in [Workers -> SUBSET Event]
    /\ backlog \in [Workers -> SUBSET (Event \X Rules)]
    /\ window \in [Workers -> SUBSET [key : RunKey, at : Nat]]
    /\ admin \subseteq AdminCall
    /\ toggles \in Nat
    /\ failures \in Nat
    /\ DOMAIN calls \subseteq RunKey
    /\ calls \in [DOMAIN calls -> Nat]

LEMMA TypeParts ==
    TypeInv <=> StoreTypeOK /\ LaneTypeOK /\ LanesOK /\ RestTypeOK
BY DEF TypeInv, TypeOK, LaneTypeOK, RestTypeOK

LEMMA TypePartsNext ==
    StoreTypeOK' /\ LaneTypeOK' /\ LanesOK' /\ RestTypeOK' => TypeInv'
BY DEF TypeInv, TypeOK, LaneTypeOK, RestTypeOK

\* The fields of an activation that is under way.
LEMMA LaneFields ==
    ASSUME LaneTypeOK, LanesOK, NEW l \in Lanes
    PROVE  /\ ActivationOK(lane[l])
           /\ lane[l] \in LaneState
           /\ lane[l].now \in Nat
           /\ lane[l].row \in Row
           /\ lane[l].columns \in SUBSET Columns
           /\ lane[l].pc \in PCs
           /\ lane[l].ret \in Returns
           /\ lane[l].status \in RunStatuses
           /\ lane[l].pc # "idle" => lane[l].rule \in Rules
           /\ lane[l].task = "event" => lane[l].event \in Event
           /\ WorkerOf(l) \in Workers
BY DEF LaneTypeOK, LanesOK, ActivationOK, LaneState, Lanes, WorkerOf

\* A step of a lane that changes nothing but tables, lanes and failures.
LEMMA LaneFrame ==
    ASSUME RestTypeOK, failures' \in Nat,
           UNCHANGED <<catchFrame, window, events, calls>>
    PROVE  RestTypeOK'
BY DEF RestTypeOK, catchFrame

LEMMA QuietFrame ==
    ASSUME RestTypeOK, UNCHANGED <<laneFrame, window, events, calls>>
    PROVE  RestTypeOK'
<1>1. failures' \in Nat /\ UNCHANGED <<catchFrame, window, events, calls>>
  BY DEF RestTypeOK, laneFrame
<1>. QED BY <1>1, LaneFrame
-----------------------------------------------------------------------------
LEMMA GetRuleType ==
    ASSUME TypeInv, NEW l \in Lanes, GetRule(l)
    PROVE  TypeInv'
<1>. DEFINE r == lane[l].rule
            next == NextScheduleRunAt(r, lane[l].now)
<1>. USE TypeParts, TypePartsNext
<1>1. StoreTypeOK' /\ RestTypeOK'
  BY StoreKept, QuietFrame DEF GetRule
<1>2. lane[l].pc = "getRule" /\ r \in Rules /\ lane[l].now \in Nat
  BY LaneFields DEF GetRule
<1>3. next \in TimeOrNull
  BY <1>2, NextRunType
<1>4. CASE Done(l)
  BY <1>1, <1>4, DoneOK
<1>5. CASE Patch(l, {"nextRunAt"}, [NoRow EXCEPT !.nextRunAt = next], "idle")
  <2>1. [NoRow EXCEPT !.nextRunAt = next] \in Row
    BY <1>3, PatchRowType
  <2>2. {"nextRunAt"} \in SUBSET Columns /\ "idle" \in Returns /\ "idle" \notin KeyedPCs
    BY DEF Columns, Returns, KeyedPCs, DispatchingPCs
  <2>. HIDE DEF next
  <2>3. LaneTypeOK' /\ LanesOK'
    BY <1>2, <1>5, <2>1, <2>2, PatchOK
  <2>. QED BY <1>1, <2>3
<1>6. CASE Goto(l, "getRuntime")
  <2>1. LaneTypeOK' /\ LanesOK'
    BY <1>2, <1>6, GotoOK DEF PCs, KeyedPCs, DispatchingPCs
  <2>. QED BY <1>1, <2>1
<1>. QED BY <1>4, <1>5, <1>6 DEF GetRule

\* An activation that goes on at pc with a run key.
LEMMA KeyedUpdate ==
    ASSUME LaneTypeOK, LanesOK, NEW l \in Lanes, lane[l].pc # "idle",
           NEW pc \in PCs \ {"read", "write"}, NEW now \in Nat, NEW k \in RunKey,
           lane' = [lane EXCEPT ![l].pc = pc, ![l].now = now, ![l].key = k]
    PROVE  LaneTypeOK' /\ LanesOK'
<1>. DEFINE a == [lane[l] EXCEPT !.pc = pc, !.now = now, !.key = k]
<1>1. ActivationOK(lane[l]) /\ lane[l] \in LaneState
  BY LaneFields
<1>2. a \in LaneState /\ a.pc = pc /\ a.key = k
  BY <1>1 DEF LaneState
<1>3. a.ret = lane[l].ret /\ a.rule = lane[l].rule /\ a.task = lane[l].task
      /\ a.event = lane[l].event
  BY <1>1 DEF LaneState
<1>4. ActivationOK(a)
  BY <1>1, <1>2, <1>3 DEF ActivationOK
<1>5. lane' = [lane EXCEPT ![l] = a]
  OBVIOUS
<1>. QED BY <1>4, <1>5, LaneUpdate

LEMMA GetRuntimeOfScheduleType ==
    ASSUME TypeInv, NEW l \in Lanes, GetRuntimeOfSchedule(l)
    PROVE  TypeInv'
<1>. DEFINE r == lane[l].rule
            next == runtime[r].nextRunAt
<1>. USE TypeParts, TypePartsNext
<1>1. StoreTypeOK' /\ RestTypeOK'
  BY StoreKept, QuietFrame DEF GetRuntimeOfSchedule
<1>2. lane[l].pc = "getRuntime" /\ r \in Rules /\ lane[l].now \in Nat
  BY LaneFields DEF GetRuntimeOfSchedule
<1>3. CASE Done(l)
  BY <1>1, <1>3, DoneOK
<1>4. CASE /\ IsDue(l)
           /\ lane' = [lane EXCEPT ![l].pc = "claim", ![l].key = BuildScheduleRunKey(r, next)]
  <2>1. next \in Nat
    BY <1>2, <1>4 DEF IsDue, StoreTypeOK, RuntimeState, TimeOrNull
  <2>2. BuildScheduleRunKey(r, next) \in RunKey
    BY <1>2, <2>1 DEF BuildScheduleRunKey, RunKey, StatusOrNull
  <2>3. lane' = [lane EXCEPT ![l].pc = "claim", ![l].now = lane[l].now,
                             ![l].key = BuildScheduleRunKey(r, next)]
    BY <1>4, LaneFields DEF LaneTypeOK, LaneState
  <2>4. LaneTypeOK' /\ LanesOK'
    BY <1>2, <2>2, <2>3, KeyedUpdate DEF PCs
  <2>. QED BY <1>1, <2>4
<1>. QED BY <1>3, <1>4 DEF GetRuntimeOfSchedule

LEMMA GetRuntimeOfDebounceType ==
    ASSUME TypeInv, NEW l \in Lanes, GetRuntimeOfDebounce(l)
    PROVE  TypeInv'
<1>. USE TypeParts, TypePartsNext
<1>1. StoreTypeOK' /\ RestTypeOK' /\ lane[l].pc = "getRuntime"
  BY StoreKept, QuietFrame DEF GetRuntimeOfDebounce
<1>2. LaneTypeOK' /\ LanesOK'
  BY <1>1, GotoOK, DoneOK DEF GetRuntimeOfDebounce, PCs, KeyedPCs, DispatchingPCs
<1>. QED BY <1>1, <1>2

LEMMA GetRuntimeOfEventType ==
    ASSUME TypeInv, NEW l \in Lanes, GetRuntimeOfEvent(l)
    PROVE  TypeInv'
<1>. DEFINE r == lane[l].rule
            e == lane[l].event
<1>. USE TypeParts, TypePartsNext
<1>1. StoreTypeOK' /\ RestTypeOK'
  BY StoreKept, QuietFrame DEF GetRuntimeOfEvent
<1>2. /\ lane[l].pc = "getRuntime" /\ r \in Rules /\ e \in Event
      /\ lane[l] \in LaneState /\ clock \in Nat
  BY LaneFields DEF GetRuntimeOfEvent, RestTypeOK
<1>3. CASE Done(l)
  BY <1>1, <1>3, DoneOK
<1>4. CASE lane' = [lane EXCEPT ![l].pc = "preclaim", ![l].now = clock]
  <2>. DEFINE a == [lane[l] EXCEPT !.pc = "preclaim", !.now = clock]
  <2>1. ActivationOK(a)
    BY <1>2, LaneFields DEF ActivationOK, LaneState, PCs, KeyedPCs, DispatchingPCs
  <2>2. lane' = [lane EXCEPT ![l] = a]
    BY <1>4
  <2>. QED BY <1>1, <2>1, <2>2, LaneUpdate
<1>5. CASE lane' = [lane EXCEPT ![l].pc = "claim", ![l].now = clock,
                                ![l].key = BuildEventRunKey(r, e)]
  <2>1. BuildEventRunKey(r, e) \in RunKey
    BY <1>2 DEF BuildEventRunKey, RunKey, StatusOrNull, Event
  <2>2. "claim" \in PCs \ {"read", "write"}
    BY DEF PCs
  <2>3. LaneTypeOK' /\ LanesOK'
    BY <1>2, <1>5, <2>1, <2>2, KeyedUpdate
  <2>. QED BY <1>1, <2>3
<1>. QED BY <1>3, <1>4, <1>5 DEF GetRuntimeOfEvent

LEMMA PreclaimType ==
    ASSUME TypeInv, NEW l \in Lanes, Preclaim(l)
    PROVE  TypeInv'
<1>. USE TypeParts, TypePartsNext
<1>1. /\ RestTypeOK' /\ lane[l].pc = "preclaim" /\ lane[l].rule \in Rules
      /\ lane[l].now \in Nat /\ WorkerOf(l) \in Workers
  BY QuietFrame, LaneFields DEF Preclaim
<1>2. CASE Done(l) /\ UNCHANGED runtime
  <2>1. StoreTypeOK'
    BY <1>2, StoreKept DEF Preclaim, storeVars
  <2>. QED BY <1>1, <1>2, <2>1, DoneOK
<1>3. ASSUME NEW pc \in {"finally", "fresh"}, Goto(l, pc),
             ClaimLease(lane[l].rule, WorkerOf(l), lane[l].now)
      PROVE  TypeInv'
  <2>1. StoreTypeOK'
    BY <1>1, <1>3, ClaimLeaseType DEF Preclaim
  <2>2. LaneTypeOK' /\ LanesOK'
    BY <1>1, <1>3, GotoOK DEF PCs, KeyedPCs, DispatchingPCs
  <2>. QED BY <1>1, <2>1, <2>2
<1>. QED BY <1>2, <1>3 DEF Preclaim

\* updateRuntime of the observed state and of the due instant.
LEMMA ObserveOK ==
    ASSUME LaneTypeOK, LanesOK, NEW l \in Lanes, lane[l].pc # "idle",
           NEW status \in StatusOrNull, NEW pending \in Pending,
           NEW next \in TimeOrNull,
           Observe(l, status, pending, next, "finally")
    PROVE  LaneTypeOK' /\ LanesOK'
<1>. DEFINE o == ObservedStateWithPending(status, pending)
            row == [NoRow EXCEPT !.observed = o, !.nextRunAt = next]
<1>1. o \in ObservedState
  BY DEF ObservedState, ObservedStateWithPending
<1>2. row \in Row
  BY <1>1, PatchRowType
<1>3. {"observed", "nextRunAt"} \in SUBSET Columns /\ "finally" \in Returns
      /\ "finally" \notin KeyedPCs
  BY DEF Columns, Returns, KeyedPCs, DispatchingPCs
<1>4. Patch(l, {"observed", "nextRunAt"}, row, "finally")
  BY DEF Observe
<1>. QED BY <1>2, <1>3, <1>4, PatchOK

\* The same, on the way to claimAndDispatch.
LEMMA ObserveAndEnterOK ==
    ASSUME LaneTypeOK, LanesOK, NEW l \in Lanes, lane[l].pc # "idle",
           NEW status \in StatusOrNull, NEW k \in RunKey,
           lane' = [lane EXCEPT ![l] =
             [Patched(l, {"observed", "nextRunAt"},
                      [NoRow EXCEPT !.observed = ObservedStateWithPending(status, NoPending)],
                      "enter")
              EXCEPT !.key = k]]
    PROVE  LaneTypeOK' /\ LanesOK'
<1>. DEFINE row == [NoRow EXCEPT !.observed = ObservedStateWithPending(status, NoPending)]
            a == [Patched(l, {"observed", "nextRunAt"}, row, "enter") EXCEPT !.key = k]
<1>1. ObservedStateWithPending(status, NoPending) \in ObservedState
  BY DEF ObservedState, ObservedStateWithPending, NoPending, Pending, StatusOrNull, TimeOrNull
<1>2. row \in Row
  BY <1>1, PatchRowType
<1>3. {"observed", "nextRunAt"} \in SUBSET Columns
  BY DEF Columns
<1>4. ActivationOK(lane[l]) /\ lane[l] \in LaneState
  BY LaneFields
<1>. HIDE DEF row
<1>5. /\ a \in LaneState /\ a.pc = "read" /\ a.ret = "enter" /\ a.key = k
      /\ a.rule = lane[l].rule /\ a.task = lane[l].task /\ a.event = lane[l].event
  BY <1>2, <1>3, <1>4 DEF Patched, LaneState, PCs
<1>6. ActivationOK(a)
  BY <1>4, <1>5 DEF ActivationOK, Returns, KeyedPCs, DispatchingPCs
<1>7. lane' = [lane EXCEPT ![l] = a]
  BY DEF row
<1>. QED BY <1>6, <1>7, LaneUpdate

LEMMA NoPendingType == NoPending \in Pending /\ NoTime \in TimeOrNull
BY DEF NoPending, Pending, StatusOrNull, TimeOrNull

LEMMA FreshDebounceType ==
    ASSUME TypeInv, NEW l \in Lanes, FreshDebounce(l)
    PROVE  TypeInv'
<1>. DEFINE r == lane[l].rule
            status == runtime[r].observed.status
            pending == runtime[r].observed.pending
            k == BuildStatusDebounceRunKey(r, pending.since, status)
<1>. USE TypeParts, TypePartsNext
<1>1. StoreTypeOK' /\ RestTypeOK' /\ lane[l].pc = "fresh" /\ r \in Rules
  BY StoreKept, QuietFrame, LaneFields DEF FreshDebounce
<1>2. status \in StatusOrNull /\ pending \in Pending
  BY <1>1 DEF StoreTypeOK, RuntimeState, ObservedState
<1>3. CASE Observe(l, status, NoPending, NoTime, "finally")
  <2>1. LaneTypeOK' /\ LanesOK'
    BY <1>1, <1>2, <1>3, NoPendingType, ObserveOK
  <2>. QED BY <1>1, <2>1
<1>4. CASE Goto(l, "finally")
  <2>1. LaneTypeOK' /\ LanesOK'
    BY <1>1, <1>4, GotoOK DEF PCs, KeyedPCs, DispatchingPCs
  <2>. QED BY <1>1, <2>1
<1>5. CASE /\ HasPending(runtime[r].observed)
           /\ lane' = [lane EXCEPT ![l] =
                [Patched(l, {"observed", "nextRunAt"},
                         [NoRow EXCEPT !.observed = ObservedStateWithPending(status, NoPending)],
                         "enter")
                 EXCEPT !.key = k]]
  <2>1. pending.since \in Nat
    BY <1>2, <1>5 DEF HasPending, Pending, TimeOrNull
  <2>2. k \in RunKey
    BY <1>1, <1>2, <2>1 DEF BuildStatusDebounceRunKey, RunKey
  <2>. HIDE DEF k
  <2>3. LaneTypeOK' /\ LanesOK'
    BY <1>1, <1>2, <1>5, <2>2, ObserveAndEnterOK
  <2>. QED BY <1>1, <2>3
<1>. QED BY <1>3, <1>4, <1>5, Zenon DEF FreshDebounce

LEMMA FreshEventType ==
    ASSUME TypeInv, NEW l \in Lanes, FreshEvent(l)
    PROVE  TypeInv'
<1>. DEFINE r == lane[l].rule
            e == lane[l].event
            now == lane[l].now
            wait == Config[r].forDuration
            previous == runtime[r].observed.status
            pending == runtime[r].observed.pending
            started == [from |-> previous, to |-> e.status, since |-> now, svc |-> e.svc]
            k == BuildEventRunKey(r, e)
<1>. USE TypeParts, TypePartsNext
<1>1. StoreTypeOK' /\ RestTypeOK' /\ lane[l].pc = "fresh" /\ r \in Rules
      /\ e \in Event /\ now \in Nat
  BY StoreKept, QuietFrame, LaneFields DEF FreshEvent
<1>2. previous \in StatusOrNull /\ pending \in Pending
  BY <1>1 DEF StoreTypeOK, RuntimeState, ObservedState
<1>3. e.status \in StatusOrNull /\ e.svc \in Services /\ wait \in Nat
  BY <1>1, TriggersAssumption DEF Event
<1>4. CASE Observe(l, e.status, NoPending, NoTime, "finally")
  <2>1. LaneTypeOK' /\ LanesOK'
    BY <1>1, <1>3, <1>4, NoPendingType, ObserveOK
  <2>. QED BY <1>1, <2>1
<1>5. CASE lane' = [lane EXCEPT ![l] =
             [Patched(l, {"observed", "nextRunAt"},
                      [NoRow EXCEPT !.observed = ObservedStateWithPending(e.status, NoPending)],
                      "enter")
              EXCEPT !.key = k]]
  <2>1. k \in RunKey
    BY <1>1 DEF BuildEventRunKey, RunKey, StatusOrNull, Event
  <2>. HIDE DEF k
  <2>2. LaneTypeOK' /\ LanesOK'
    BY <1>1, <1>3, <1>5, <2>1, ObserveAndEnterOK
  <2>. QED BY <1>1, <2>2
<1>6. CASE Observe(l, e.status, started, now + wait, "finally")
  <2>1. started \in Pending /\ now + wait \in TimeOrNull
    BY <1>1, <1>2, <1>3 DEF Pending, TimeOrNull
  <2>. HIDE DEF started
  <2>2. LaneTypeOK' /\ LanesOK'
    BY <1>1, <1>3, <1>6, <2>1, ObserveOK
  <2>. QED BY <1>1, <2>2
<1>7. CASE Patch(l, {"observed"},
                 [NoRow EXCEPT !.observed = ObservedStateWithPending(e.status, pending)],
                 "finally")
  <2>1. ObservedStateWithPending(e.status, pending) \in ObservedState
    BY <1>2, <1>3 DEF ObservedState, ObservedStateWithPending
  <2>2. [NoRow EXCEPT !.observed = ObservedStateWithPending(e.status, pending)] \in Row
    BY <2>1, PatchRowType
  <2>3. {"observed"} \in SUBSET Columns /\ "finally" \in Returns /\ "finally" \notin KeyedPCs
    BY DEF Columns, Returns, KeyedPCs, DispatchingPCs
  <2>4. LaneTypeOK' /\ LanesOK'
    BY <1>1, <1>7, <2>2, <2>3, PatchOK
  <2>. QED BY <1>1, <2>4
<1>. QED BY <1>4, <1>5, <1>6, <1>7, Zenon DEF FreshEvent

LEMMA EnterType ==
    ASSUME TypeInv, NEW l \in Lanes, Enter(l)
    PROVE  TypeInv'
<1>. USE TypeParts, TypePartsNext
<1>1. StoreTypeOK' /\ RestTypeOK' /\ lane[l].pc = "enter" /\ ActivationOK(lane[l])
  BY StoreKept, QuietFrame, LaneFields DEF Enter
<1>2. lane[l].key \in RunKey
  BY <1>1 DEF ActivationOK, KeyedPCs
<1>3. LaneTypeOK' /\ LanesOK'
  BY <1>1, <1>2, GotoOK DEF Enter, PCs
<1>. QED BY <1>1, <1>3

LEMMA ReadType ==
    ASSUME TypeInv, NEW l \in Lanes, Read(l)
    PROVE  TypeInv'
<1>. DEFINE row == MergedRow(lane[l].rule, lane[l].columns, lane[l].row)
            a == [lane[l] EXCEPT !.pc = "write", !.row = row]
<1>. USE TypeParts, TypePartsNext
<1>1. /\ StoreTypeOK' /\ RestTypeOK' /\ lane[l].pc = "read" /\ lane[l].rule \in Rules
      /\ ActivationOK(lane[l]) /\ lane[l] \in LaneState /\ lane[l].row \in Row
  BY StoreKept, QuietFrame, LaneFields DEF Read
<1>2. row \in Row
  BY <1>1, MergedRowType
<1>3. lane' = [lane EXCEPT ![l] = a]
  BY DEF Read
<1>. HIDE DEF row
<1>4. /\ a \in LaneState /\ a.pc = "write" /\ a.ret = lane[l].ret /\ a.key = lane[l].key
      /\ a.rule = lane[l].rule /\ a.task = lane[l].task /\ a.event = lane[l].event
  BY <1>1, <1>2 DEF LaneState, PCs
<1>5. ActivationOK(a)
  BY <1>1, <1>4 DEF ActivationOK, KeyedPCs, DispatchingPCs
<1>. QED BY <1>1, <1>3, <1>5, LaneUpdate

\* The end of an updateRuntime, or of what an exception interrupts.
LEMMA ResumeOK ==
    ASSUME LaneTypeOK, LanesOK, NEW l \in Lanes, lane[l].pc # "idle",
           NEW pc \in PCs \ {"read", "write"}, pc \in KeyedPCs => lane[l].key \in RunKey,
           lane' = [lane EXCEPT ![l] = [lane[l] EXCEPT !.pc = pc, !.ret = "idle",
                                                       !.columns = {}, !.row = NoRow]]
    PROVE  LaneTypeOK' /\ LanesOK'
<1>. DEFINE a == [lane[l] EXCEPT !.pc = pc, !.ret = "idle", !.columns = {}, !.row = NoRow]
<1>1. ActivationOK(lane[l]) /\ lane[l] \in LaneState
  BY LaneFields
<1>2. /\ a \in LaneState /\ a.pc = pc /\ a.ret = "idle" /\ a.key = lane[l].key
      /\ a.rule = lane[l].rule /\ a.task = lane[l].task /\ a.event = lane[l].event
  BY <1>1, NoRowType DEF LaneState, PCs
<1>3. ActivationOK(a)
  BY <1>1, <1>2 DEF ActivationOK, Returns
<1>. QED BY <1>3, LaneUpdate

LEMMA WriteType ==
    ASSUME TypeInv, NEW l \in Lanes, Write(l)
    PROVE  TypeInv'
<1>. USE TypeParts, TypePartsNext
<1>1. /\ RestTypeOK' /\ lane[l].pc = "write" /\ ActivationOK(lane[l])
      /\ lane[l].row \in Row /\ lane[l].ret \in Returns
  BY QuietFrame, LaneFields DEF Write
<1>2. StoreTypeOK'
  BY <1>1, WriteRowType DEF Write
<1>3. CASE Done(l)
  BY <1>1, <1>2, <1>3, DoneOK
<1>4. CASE ~Done(l)
  <2>1. lane[l].ret \in KeyedPCs => lane[l].key \in RunKey
    BY <1>1 DEF ActivationOK
  <2>2. lane[l].ret \in PCs \ {"read", "write"}
    BY <1>1 DEF Returns, PCs
  <2>3. LaneTypeOK' /\ LanesOK'
    BY <1>1, <1>4, <2>1, <2>2, ResumeOK DEF Write
  <2>. QED BY <1>1, <1>2, <2>3
<1>. QED BY <1>3, <1>4

LEMMA ClaimType ==
    ASSUME TypeInv, NEW l \in Lanes, Claim(l)
    PROVE  TypeInv'
<1>. USE TypeParts, TypePartsNext
<1>1. /\ RestTypeOK' /\ lane[l].pc = "claim" /\ lane[l].rule \in Rules
      /\ lane[l].now \in Nat /\ WorkerOf(l) \in Workers
      /\ ActivationOK(lane[l])
  BY QuietFrame, LaneFields DEF Claim
<1>2. CASE Done(l) /\ UNCHANGED runtime
  <2>1. StoreTypeOK'
    BY <1>2, StoreKept DEF Claim, storeVars
  <2>. QED BY <1>1, <1>2, <2>1, DoneOK
<1>3. CASE ClaimLease(lane[l].rule, WorkerOf(l), lane[l].now) /\ Goto(l, "insert")
  <2>1. StoreTypeOK'
    BY <1>1, <1>3, ClaimLeaseType DEF Claim
  <2>2. lane[l].key \in RunKey
    BY <1>1 DEF ActivationOK, KeyedPCs, DispatchingPCs
  <2>3. LaneTypeOK' /\ LanesOK'
    BY <1>1, <1>3, <2>2, GotoOK DEF PCs
  <2>. QED BY <1>1, <2>1, <2>3
<1>. QED BY <1>2, <1>3 DEF Claim

LEMMA AdvanceOK ==
    ASSUME LaneTypeOK, LanesOK, NEW l \in Lanes, lane[l].pc # "idle",
           lane[l].key \in RunKey, NEW ret \in {"authorize", "release"},
           Advance(l, ret)
    PROVE  LaneTypeOK' /\ LanesOK'
<1>. DEFINE next == NextScheduleRunAt(lane[l].rule, lane[l].now)
<1>1. next \in TimeOrNull
  BY LaneFields, NextRunType
<1>2. [NoRow EXCEPT !.nextRunAt = next] \in Row
  BY <1>1, PatchRowType
<1>3. {"nextRunAt"} \in SUBSET Columns /\ ret \in Returns /\ ret \in PCs \ {"read", "write"}
  BY DEF Columns, Returns, PCs
<1>. HIDE DEF next
<1>4. CASE Patch(l, {"nextRunAt"}, [NoRow EXCEPT !.nextRunAt = next], ret)
  BY <1>2, <1>3, <1>4, PatchOK
<1>5. CASE Goto(l, ret)
  BY <1>3, <1>5, GotoOK
<1>. QED BY <1>4, <1>5 DEF Advance, next

LEMMA InsertType ==
    ASSUME TypeInv, NEW l \in Lanes, Insert(l)
    PROVE  TypeInv'
<1>. USE TypeParts, TypePartsNext
<1>1. /\ RestTypeOK' /\ lane[l].pc = "insert" /\ lane[l].now \in Nat
      /\ WorkerOf(l) \in Workers /\ ActivationOK(lane[l])
  BY QuietFrame, LaneFields DEF Insert
<1>2. lane[l].key \in RunKey
  BY <1>1 DEF ActivationOK, KeyedPCs, DispatchingPCs
<1>3. CASE InsertRun(lane[l].key, lane[l].now, WorkerOf(l)) /\ Advance(l, "authorize")
  <2>1. StoreTypeOK'
    BY <1>1, <1>2, <1>3, InsertRunType DEF Insert
  <2>2. LaneTypeOK' /\ LanesOK'
    BY <1>1, <1>2, <1>3, AdvanceOK
  <2>. QED BY <1>1, <2>1, <2>2
<1>4. CASE Goto(l, "conflict") /\ UNCHANGED runs
  <2>1. StoreTypeOK'
    BY <1>4, StoreKept DEF Insert, storeVars
  <2>2. LaneTypeOK' /\ LanesOK'
    BY <1>1, <1>2, <1>4, GotoOK DEF PCs
  <2>. QED BY <1>1, <2>1, <2>2
<1>. QED BY <1>3, <1>4 DEF Insert

LEMMA ConflictType ==
    ASSUME TypeInv, NEW l \in Lanes, Conflict(l)
    PROVE  TypeInv'
<1>. USE TypeParts, TypePartsNext
<1>1. StoreTypeOK' /\ RestTypeOK' /\ lane[l].pc = "conflict" /\ ActivationOK(lane[l])
  BY StoreKept, QuietFrame, LaneFields DEF Conflict
<1>2. lane[l].key \in RunKey
  BY <1>1 DEF ActivationOK, KeyedPCs, DispatchingPCs
<1>3. CASE Goto(l, "finishStale")
  BY <1>1, <1>2, <1>3, GotoOK DEF PCs
<1>4. CASE Advance(l, "release")
  BY <1>1, <1>2, <1>4, AdvanceOK
<1>. QED BY <1>3, <1>4 DEF Conflict

LEMMA FinishStaleType ==
    ASSUME TypeInv, NEW l \in Lanes, FinishStale(l)
    PROVE  TypeInv'
<1>. USE TypeParts, TypePartsNext
<1>1. RestTypeOK' /\ lane[l].pc = "finishStale" /\ ActivationOK(lane[l])
  BY QuietFrame, LaneFields DEF FinishStale
<1>2. lane[l].key \in RunKey
  BY <1>1 DEF ActivationOK, KeyedPCs, DispatchingPCs
<1>3. StoreTypeOK'
  BY FinishRunType DEF FinishStale, RunStatuses, TerminalStatuses
<1>4. LaneTypeOK' /\ LanesOK'
  BY <1>1, <1>2, AdvanceOK DEF FinishStale
<1>. QED BY <1>1, <1>3, <1>4

LEMMA AdvanceFailsType ==
    ASSUME TypeInv, NEW l \in Lanes, AdvanceFails(l)
    PROVE  TypeInv'
<1>. USE TypeParts, TypePartsNext
<1>1. failures' \in Nat
  BY DEF AdvanceFails, StoreFails, RestTypeOK
<1>2. StoreTypeOK' /\ RestTypeOK'
  BY <1>1, StoreKept, LaneFrame DEF AdvanceFails
<1>3. /\ lane[l].pc \in {"read", "write"} /\ lane[l].ret \in {"authorize", "release"}
      /\ ActivationOK(lane[l])
  BY LaneFields DEF AdvanceFails, CatchesAdvance
<1>4. lane[l].key \in RunKey
  BY <1>3 DEF ActivationOK, KeyedPCs, DispatchingPCs
<1>5. LaneTypeOK' /\ LanesOK'
  BY <1>3, <1>4, ResumeOK DEF AdvanceFails, PCs
<1>. QED BY <1>2, <1>5

\* complete(status) is called.
LEMMA CompletingOK ==
    ASSUME LaneTypeOK, LanesOK, NEW l \in Lanes, lane[l].pc # "idle",
           lane[l].key \in RunKey, NEW status \in RunStatuses, clock \in Nat
    PROVE  /\ ActivationOK(Completing(l, status))
           /\ ActivationOK([Completing(l, status) EXCEPT !.sent = TRUE])
<1>. DEFINE row == [NoRow EXCEPT !.lastTriggeredAt = clock]
            a == [lane[l] EXCEPT !.pc = "finish", !.status = status, !.row = row]
            b == [a EXCEPT !.sent = TRUE]
<1>1. row \in Row
  BY PatchRowType DEF TimeOrNull
<1>2. ActivationOK(lane[l]) /\ lane[l] \in LaneState
  BY LaneFields
<1>3. Completing(l, status) = a
  BY DEF Completing
<1>. HIDE DEF row
<1>4. /\ a \in LaneState /\ a.pc = "finish" /\ a.ret = lane[l].ret /\ a.key = lane[l].key
      /\ a.rule = lane[l].rule /\ a.task = lane[l].task /\ a.event = lane[l].event
  BY <1>1, <1>2 DEF LaneState, PCs
<1>. HIDE DEF a
<1>5. /\ b \in LaneState /\ b.pc = a.pc /\ b.ret = a.ret /\ b.key = a.key
      /\ b.rule = a.rule /\ b.task = a.task /\ b.event = a.event
  BY <1>4 DEF LaneState
<1>6. ActivationOK(a) /\ ActivationOK(b)
  BY <1>2, <1>4, <1>5 DEF ActivationOK
<1>. QED BY <1>3, <1>6

LEMMA AuthorizeType ==
    ASSUME TypeInv, NEW l \in Lanes, Authorize(l)
    PROVE  TypeInv'
<1>. DEFINE w == WorkerOf(l)
            entry == [key |-> lane[l].key, at |-> lane[l].now]
<1>. USE TypeParts, TypePartsNext
<1>1. /\ StoreTypeOK' /\ lane[l].pc = "authorize" /\ ActivationOK(lane[l])
      /\ w \in Workers /\ lane[l].now \in Nat /\ clock \in Nat
  BY StoreKept, LaneFields DEF Authorize, RestTypeOK
<1>2. lane[l].key \in RunKey
  BY <1>1 DEF ActivationOK, KeyedPCs, DispatchingPCs
<1>3. ASSUME NEW s \in {"denied", "skipped", "unknown"},
             lane' = [lane EXCEPT ![l] = Completing(l, s)]
      PROVE  LaneTypeOK' /\ LanesOK'
  <2>1. ActivationOK(Completing(l, s))
    BY <1>1, <1>2, CompletingOK DEF RunStatuses, TerminalStatuses
  <2>. QED BY <1>3, <2>1, LaneUpdate
<1>4. ASSUME Goto(l, "dispatch")
      PROVE  LaneTypeOK' /\ LanesOK'
  <2>1. "dispatch" \in PCs \ {"read", "write"} /\ lane[l].pc # "idle"
    BY <1>1 DEF PCs
  <2>. QED BY <1>2, <1>4, <2>1, GotoOK
<1>5. LaneTypeOK' /\ LanesOK'
  <2>1. \/ lane' = [lane EXCEPT ![l] = Completing(l, "denied")]
        \/ lane' = [lane EXCEPT ![l] = Completing(l, "skipped")]
        \/ lane' = [lane EXCEPT ![l] = Completing(l, "unknown")]
        \/ Goto(l, "dispatch")
    BY Zenon DEF Authorize
  <2>. QED BY <1>3, <1>4, <2>1
<1>6. Recent(l) \in SUBSET [key : RunKey, at : Nat]
  BY <1>1 DEF Recent, RestTypeOK
<1>7. entry \in [key : RunKey, at : Nat]
  BY <1>1, <1>2
<1>8. window' \in [Workers -> SUBSET [key : RunKey, at : Nat]]
  <2>1. \/ window' = window
        \/ window' = [window EXCEPT ![w] = Recent(l)]
        \/ window' = [window EXCEPT ![w] = Recent(l) \cup {entry}]
    BY DEF Authorize
  <2>. QED BY <1>1, <1>6, <1>7, <2>1 DEF RestTypeOK
<1>9. RestTypeOK'
  BY <1>8 DEF Authorize, RestTypeOK, laneFrame, catchFrame
<1>. QED BY <1>1, <1>5, <1>9

LEMMA DispatchType ==
    ASSUME TypeInv, NEW l \in Lanes, Dispatch(l)
    PROVE  TypeInv'
<1>. DEFINE k == lane[l].key
            called == IF k \in DOMAIN calls THEN calls[k] + 1 ELSE 1
<1>. USE TypeParts, TypePartsNext
<1>1. StoreTypeOK' /\ lane[l].pc = "dispatch" /\ ActivationOK(lane[l])
  BY StoreKept, LaneFields DEF Dispatch
<1>2. k \in RunKey
  BY <1>1 DEF ActivationOK, KeyedPCs, DispatchingPCs
<1>3. LaneTypeOK' /\ LanesOK'
  BY <1>1, <1>2, GotoOK DEF Dispatch, PCs
<1>4. called \in Nat
  BY DEF RestTypeOK
<1>. HIDE DEF called
<1>5. calls' = [x \in DOMAIN calls \cup {k} |-> IF x # k THEN calls[x] ELSE called]
  BY Zenon DEF Dispatch, called
<1>6. /\ DOMAIN calls' \subseteq RunKey
      /\ calls' \in [DOMAIN calls' -> Nat]
  BY <1>2, <1>4, <1>5 DEF RestTypeOK
<1>7. RestTypeOK'
  BY <1>6 DEF Dispatch, RestTypeOK, laneFrame, catchFrame
<1>. QED BY <1>1, <1>3, <1>7

\* An event that is published: every worker that is up receives it.
LEMMA PublishedOK ==
    ASSUME RestTypeOK, NEW e \in Event, events' = Append(events, e), Deliver(e)
    PROVE  events' \in Seq(Event) /\ inbox' \in [Workers -> SUBSET Event]
BY DEF RestTypeOK, Deliver

LEMMA DispatchReturnsType ==
    ASSUME TypeInv, NEW l \in Lanes, DispatchReturns(l)
    PROVE  TypeInv'
<1>. DEFINE e == [id |-> Len(events) + 1, type |-> "integration.data.changed",
                  svc |-> Config[lane[l].rule].target, status |-> NoStatus,
                  at |-> clock, cause |-> lane[l].rule]
<1>. USE TypeParts, TypePartsNext
<1>1. /\ StoreTypeOK' /\ lane[l].pc = "acting" /\ ActivationOK(lane[l])
      /\ lane[l].rule \in Rules /\ clock \in Nat
  BY StoreKept, LaneFields DEF DispatchReturns, RestTypeOK
<1>2. lane[l].key \in RunKey
  BY <1>1 DEF ActivationOK, KeyedPCs, DispatchingPCs
<1>3. PICK s \in Outcomes :
        /\ lane' = [lane EXCEPT ![l] = [Completing(l, s) EXCEPT !.sent = TRUE]]
        /\ \/ events' = Append(events, e) /\ Deliver(e)
           \/ UNCHANGED <<events, inbox>>
  BY Zenon DEF DispatchReturns
<1>4. s \in RunStatuses
  BY SchedulerAssumption DEF RunStatuses
<1>5. LaneTypeOK' /\ LanesOK'
  <2>1. ActivationOK([Completing(l, s) EXCEPT !.sent = TRUE])
    BY <1>1, <1>2, <1>4, CompletingOK
  <2>. QED BY <1>3, <2>1, LaneUpdate
<1>6. e \in Event
  BY <1>1, TriggersAssumption DEF RestTypeOK, Event, EventTypes, StatusOrNull
<1>. HIDE DEF e
<1>7. events' \in Seq(Event) /\ inbox' \in [Workers -> SUBSET Event]
  BY <1>3, <1>6, PublishedOK DEF RestTypeOK
<1>8. RestTypeOK'
  BY <1>7 DEF DispatchReturns, RestTypeOK
<1>. QED BY <1>1, <1>5, <1>8

LEMMA FinishType ==
    ASSUME TypeInv, NEW l \in Lanes, Finish(l)
    PROVE  TypeInv'
<1>. USE TypeParts, TypePartsNext
<1>1. /\ RestTypeOK' /\ lane[l].pc = "finish" /\ ActivationOK(lane[l])
      /\ lane[l].row \in Row /\ lane[l].status \in RunStatuses
  BY QuietFrame, LaneFields DEF Finish
<1>2. lane[l].key \in RunKey
  BY <1>1 DEF ActivationOK, KeyedPCs, DispatchingPCs
<1>3. StoreTypeOK'
  BY <1>1, FinishRunType DEF Finish
<1>4. {"lastTriggeredAt"} \in SUBSET Columns /\ "release" \in Returns
  BY DEF Columns, Returns
<1>5. LaneTypeOK' /\ LanesOK'
  BY <1>1, <1>2, <1>4, PatchOK DEF Finish
<1>. QED BY <1>1, <1>3, <1>5

LEMMA ReturnOK ==
    ASSUME LaneTypeOK, LanesOK, NEW l \in Lanes, lane[l].pc # "idle", Return(l)
    PROVE  LaneTypeOK' /\ LanesOK'
<1>1. "finally" \in PCs \ {"read", "write"} /\ "finally" \notin KeyedPCs
  BY DEF PCs, KeyedPCs, DispatchingPCs
<1>. QED BY <1>1, GotoOK, DoneOK DEF Return

LEMMA CompleteFailsType ==
    ASSUME TypeInv, NEW l \in Lanes, CompleteFails(l)
    PROVE  TypeInv'
<1>. USE TypeParts, TypePartsNext
<1>1. failures' \in Nat
  BY DEF CompleteFails, StoreFails, RestTypeOK
<1>2. StoreTypeOK' /\ RestTypeOK'
  BY <1>1, StoreKept, LaneFrame DEF CompleteFails
<1>3. LaneTypeOK' /\ LanesOK'
  BY ReturnOK DEF CompleteFails
<1>. QED BY <1>2, <1>3

LEMMA ReleaseType ==
    ASSUME TypeInv, NEW l \in Lanes, Release(l)
    PROVE  TypeInv'
<1>. USE TypeParts, TypePartsNext
<1>1. StoreTypeOK'
  BY ReleaseLeaseType DEF Release
<1>2. RestTypeOK' /\ LaneTypeOK' /\ LanesOK'
  BY QuietFrame, ReturnOK DEF Release
<1>. QED BY <1>1, <1>2

LEMMA FinallyType ==
    ASSUME TypeInv, NEW l \in Lanes, Finally(l)
    PROVE  TypeInv'
<1>. USE TypeParts, TypePartsNext
<1>1. StoreTypeOK'
  BY ReleaseLeaseType DEF Finally
<1>2. RestTypeOK' /\ LaneTypeOK' /\ LanesOK'
  BY QuietFrame, DoneOK DEF Finally
<1>. QED BY <1>1, <1>2

LEMMA UnwindOK ==
    ASSUME LaneTypeOK, LanesOK, NEW l \in Lanes, MayThrow(l), Unwind(l)
    PROVE  LaneTypeOK' /\ LanesOK'
<1>1. CASE Done(l)
  BY <1>1, DoneOK
<1>2. CASE ~Done(l)
  <2>1. "finally" \in PCs \ {"read", "write"} /\ "finally" \notin KeyedPCs
    BY DEF PCs, KeyedPCs, DispatchingPCs
  <2>2. lane[l].pc # "idle"
    BY DEF MayThrow
  <2>. QED BY <1>2, <2>1, <2>2, ResumeOK DEF Unwind
<1>. QED BY <1>1, <1>2

LEMMA IdleTickType == IdleTick \in TickState
BY DEF IdleTick, TickState, Phases

LEMMA ThrowsInTickType ==
    ASSUME TypeInv, NEW l \in Lanes, ThrowsInTick(l)
    PROVE  TypeInv'
<1>. USE TypeParts, TypePartsNext
<1>1. StoreTypeOK' /\ LaneTypeOK' /\ LanesOK' /\ failures' \in Nat
  BY StoreKept, UnwindOK DEF ThrowsInTick, StoreFails, RestTypeOK
<1>2. tick' \in [Workers -> TickState]
  <2>1. \/ tick' = tick
        \/ tick' = [tick EXCEPT ![WorkerOf(l)].queue = {}]
        \/ tick' = [tick EXCEPT ![WorkerOf(l)] = IdleTick]
    <3>. DEFINE caught == lane[l].task = "seed" /\ lane[l].pc # "getRule"
    <3>1. tick' = CASE caught -> tick
                    [] lane[l].task = "debounce" -> [tick EXCEPT ![WorkerOf(l)].queue = {}]
                    [] OTHER -> [tick EXCEPT ![WorkerOf(l)] = IdleTick]
      BY Zenon DEF ThrowsInTick
    <3>2. CASE caught
      BY <3>1, <3>2
    <3>3. CASE ~caught /\ lane[l].task = "debounce"
      BY <3>1, <3>3
    <3>4. CASE ~caught /\ lane[l].task # "debounce"
      BY <3>1, <3>4
    <3>. QED BY <3>2, <3>3, <3>4
  <2>2. WorkerOf(l) \in Workers
    BY LaneFields
  <2>3. tick \in [Workers -> TickState]
    BY DEF RestTypeOK
  <2>4. CASE tick' = [tick EXCEPT ![WorkerOf(l)].queue = {}]
    BY <2>2, <2>3, <2>4 DEF TickState
  <2>5. CASE tick' = [tick EXCEPT ![WorkerOf(l)] = IdleTick]
    BY <2>3, <2>5, IdleTickType
  <2>. QED BY <2>1, <2>3, <2>4, <2>5
<1>3. RestTypeOK'
  BY <1>1, <1>2 DEF ThrowsInTick, RestTypeOK
<1>. QED BY <1>1, <1>3

LEMMA ThrowsInEventType ==
    ASSUME TypeInv, NEW l \in Lanes, ThrowsInEvent(l)
    PROVE  TypeInv'
<1>. USE TypeParts, TypePartsNext
<1>1. StoreTypeOK' /\ LaneTypeOK' /\ LanesOK' /\ failures' \in Nat
  BY StoreKept, UnwindOK DEF ThrowsInEvent, StoreFails, RestTypeOK
<1>2. backlog' \in [Workers -> SUBSET (Event \X Rules)]
  BY DEF ThrowsInEvent, RestTypeOK
<1>3. RestTypeOK'
  BY <1>1, <1>2 DEF ThrowsInEvent, RestTypeOK
<1>. QED BY <1>1, <1>3

LEMMA LaneStepType ==
    ASSUME TypeInv, NEW l \in Lanes, LaneStep(l) \/ LaneFails(l)
    PROVE  TypeInv'
BY GetRuleType, GetRuntimeOfScheduleType, GetRuntimeOfDebounceType,
   GetRuntimeOfEventType, PreclaimType, FreshDebounceType, FreshEventType,
   EnterType, ReadType, WriteType, ClaimType, InsertType, ConflictType,
   FinishStaleType, AuthorizeType, DispatchType, DispatchReturnsType, FinishType,
   ReleaseType, FinallyType, AdvanceFailsType, CompleteFailsType,
   ThrowsInTickType, ThrowsInEventType
   DEF LaneStep, LaneFails
-----------------------------------------------------------------------------
\* Steps of a worker.
LEMMA LanesKept ==
    ASSUME LaneTypeOK, LanesOK, UNCHANGED lane
    PROVE  LaneTypeOK' /\ LanesOK'
BY DEF LaneTypeOK, LanesOK

\* A tick step that changes only the tick.
LEMMA TickFrameType ==
    ASSUME TypeInv, tick' \in [Workers -> TickState], UNCHANGED <<tickFrame, lane>>
    PROVE  TypeInv'
<1>. USE TypeParts, TypePartsNext
<1>1. StoreTypeOK' /\ LaneTypeOK' /\ LanesOK'
  BY StoreKept, LanesKept DEF tickFrame
<1>2. RestTypeOK'
  BY DEF tickFrame, RestTypeOK
<1>. QED BY <1>1, <1>2

LEMMA EnqueueType ==
    ASSUME RestTypeOK, NEW w \in Workers, NEW phase \in Phases, NEW ids \in SUBSET Rules,
           Enqueue(w, phase, ids)
    PROVE  tick' \in [Workers -> TickState]
BY DEF Enqueue, RestTypeOK, TickState

LEMMA ScansType ==
    ASSUME NEW ids \in SUBSET Rules, NEW s \in Scans(ids)
    PROVE  s \in SUBSET Rules
BY DEF Scans

LEMMA TickStepType ==
    ASSUME TypeInv, NEW w \in Workers, TickStep(w)
    PROVE  TypeInv'
<1>. USE TypeParts, TypePartsNext
<1>1. CASE TickStart(w)
  <2>1. tick' \in [Workers -> TickState]
    BY <1>1 DEF TickStart, RestTypeOK, TickState, Phases
  <2>. QED BY <1>1, <2>1, TickFrameType DEF TickStart
<1>2. CASE Sweep(w)
  <2>1. StoreTypeOK' /\ LaneTypeOK' /\ LanesOK'
    BY <1>2, MarkStaleType, LanesKept DEF Sweep
  <2>2. tick' \in [Workers -> TickState]
    BY <1>2 DEF Sweep, RestTypeOK, TickState, Phases
  <2>3. RestTypeOK'
    BY <1>2, <2>2 DEF Sweep, RestTypeOK
  <2>. QED BY <2>1, <2>3
<1>3. CASE ListUnscheduled(w)
  <2>1. PICK ids \in Scans(ListUnscheduledScheduleIds) : Enqueue(w, "seed", ids)
    BY <1>3 DEF ListUnscheduled
  <2>2. ids \in SUBSET Rules /\ "seed" \in Phases
    BY ScansType DEF ListUnscheduledScheduleIds, Phases
  <2>. QED BY <1>3, <2>1, <2>2, EnqueueType, TickFrameType DEF ListUnscheduled
<1>4. CASE SeedStops(w)
  <2>1. "seed" \in Phases /\ {} \in SUBSET Rules
    BY DEF Phases
  <2>. QED BY <1>4, <2>1, EnqueueType, TickFrameType DEF SeedStops
<1>5. CASE ListDueSchedule(w)
  <2>1. PICK ids \in DueScans("schedule", tick[w].now) : Enqueue(w, "schedule", ids)
    BY <1>5 DEF ListDueSchedule
  <2>2. ids \in SUBSET Rules /\ "schedule" \in Phases
    BY ScansType DEF DueScans, ListDue, Phases
  <2>. QED BY <1>5, <2>1, <2>2, EnqueueType, TickFrameType DEF ListDueSchedule
<1>6. CASE ListDueStatusDebounce(w)
  <2>1. PICK ids \in DueScans("status-transition", tick[w].now) : Enqueue(w, "debounce", ids)
    BY <1>6 DEF ListDueStatusDebounce
  <2>2. ids \in SUBSET Rules /\ "debounce" \in Phases
    BY ScansType DEF DueScans, ListDue, Phases
  <2>. QED BY <1>6, <2>1, <2>2, EnqueueType, TickFrameType DEF ListDueStatusDebounce
<1>7. CASE TickEnd(w)
  <2>1. tick' \in [Workers -> TickState]
    BY <1>7, IdleTickType DEF TickEnd, RestTypeOK
  <2>. QED BY <1>7, <2>1, TickFrameType DEF TickEnd
<1>. QED BY <1>1, <1>2, <1>3, <1>4, <1>5, <1>6, <1>7 DEF TickStep

\* The stores and the lanes are left alone.
LEMMA WorkerFrameType ==
    ASSUME TypeInv, UNCHANGED <<storeVars, lane>>, RestTypeOK'
    PROVE  TypeInv'
BY TypeParts, TypePartsNext, StoreKept, LanesKept

LEMMA DieType ==
    ASSUME TypeInv, NEW w \in Workers, NEW how \in {"exited", "crashed"}, Die(w, how)
    PROVE  TypeInv'
<1>. USE TypeParts, TypePartsNext
<1>1. StoreTypeOK'
  BY StoreKept DEF Die
<1>2. LaneTypeOK'
  <2>1. IdleLane \in LaneState
    BY IdleLaneOK DEF ActivationOK
  <2>. QED BY <2>1 DEF Die, LaneTypeOK
<1>3. LanesOK'
  BY IdleLaneOK DEF Die, LanesOK
<1>4. RestTypeOK'
  BY IdleTickType DEF Die, RestTypeOK, envVars
<1>. QED BY <1>1, <1>2, <1>3, <1>4

LEMMA WorkerStepType ==
    ASSUME TypeInv, NEW w \in Workers, WorkerStep(w)
    PROVE  TypeInv'
<1>. USE TypeParts, TypePartsNext
<1>1. CASE Start(w)
  <2>1. RestTypeOK'
    BY <1>1 DEF Start, RestTypeOK, envVars
  <2>. QED BY <1>1, <2>1, WorkerFrameType DEF Start
<1>2. CASE Stop(w)
  <2>1. RestTypeOK'
    BY <1>2 DEF Stop, RestTypeOK, envVars
  <2>. QED BY <1>2, <2>1, WorkerFrameType DEF Stop
<1>3. CASE Exit(w)
  BY <1>3, DieType DEF Exit
<1>4. CASE Crash(w)
  BY <1>4, DieType DEF Crash
<1>5. CASE TickStep(w)
  BY <1>5, TickStepType
<1>6. CASE TickThrows(w)
  <2>1. tick' \in [Workers -> TickState] /\ failures' \in Nat
    BY <1>6, IdleTickType DEF TickThrows, StoreFails, RestTypeOK
  <2>2. RestTypeOK'
    BY <1>6, <2>1 DEF TickThrows, RestTypeOK
  <2>. QED BY <1>6, <2>2, WorkerFrameType DEF TickThrows
<1>7. CASE HandleEvent(w)
  <2>1. PICK e \in inbox[w], ids \in Scans(ListEnabledEventRuleIds) :
          /\ inbox' = [inbox EXCEPT ![w] = inbox[w] \ {e}]
          /\ backlog' = [backlog EXCEPT ![w] = backlog[w] \cup ({e} \X ids)]
    BY <1>7 DEF HandleEvent
  <2>2. e \in Event /\ ids \in SUBSET Rules
    BY ScansType DEF ListEnabledEventRuleIds, RestTypeOK
  <2>3. {e} \X ids \in SUBSET (Event \X Rules)
    BY <2>2
  <2>4. /\ inbox' \in [Workers -> SUBSET Event]
        /\ backlog' \in [Workers -> SUBSET (Event \X Rules)]
    BY <2>1, <2>3 DEF RestTypeOK
  <2>5. RestTypeOK'
    BY <1>7, <2>4 DEF HandleEvent, RestTypeOK, envVars
  <2>. QED BY <1>7, <2>5, WorkerFrameType DEF HandleEvent
<1>8. CASE HandleEventThrows(w)
  <2>1. inbox' \in [Workers -> SUBSET Event] /\ failures' \in Nat
    BY <1>8 DEF HandleEventThrows, StoreFails, RestTypeOK
  <2>2. RestTypeOK'
    BY <1>8, <2>1 DEF HandleEventThrows, RestTypeOK
  <2>. QED BY <1>8, <2>2, WorkerFrameType DEF HandleEventThrows
<1>. QED BY <1>1, <1>2, <1>3, <1>4, <1>5, <1>6, <1>7, <1>8 DEF WorkerStep

LEMMA TakeRuleType ==
    ASSUME TypeInv, NEW l \in TickLanes, TakeRule(l)
    PROVE  TypeInv'
<1>. DEFINE w == WorkerOf(l)
            phase == tick[w].phase
<1>. USE TypeParts, TypePartsNext
<1>1. l \in Lanes /\ w \in Workers
  BY DEF TickLanes, Lanes, WorkerOf
<1>2. PICK r \in tick[w].queue :
        /\ tick' = [tick EXCEPT ![w].queue = tick[w].queue \ {r}]
        /\ lane' = [lane EXCEPT
             ![l] = [IdleLane EXCEPT !.pc = "getRule", !.task = phase,
                                     !.rule = r, !.now = tick[w].now]]
  BY DEF TakeRule
<1>3. tick[w] \in TickState /\ phase \in {"seed", "schedule", "debounce"}
  BY <1>1 DEF TakeRule, RestTypeOK
<1>4. r \in Rules /\ tick[w].now \in Nat
  BY <1>3 DEF TickState
<1>. DEFINE a == [IdleLane EXCEPT !.pc = "getRule", !.task = phase,
                                  !.rule = r, !.now = tick[w].now]
<1>5. ActivationOK(a)
  BY <1>3, <1>4, IdleLaneOK
     DEF ActivationOK, IdleLane, LaneState, PCs, Tasks, KeyedPCs, DispatchingPCs
<1>6. LaneTypeOK' /\ LanesOK'
  BY <1>1, <1>2, <1>5, LaneUpdate
<1>7. tick' \in [Workers -> TickState]
  BY <1>1, <1>2 DEF RestTypeOK, TickState
<1>8. StoreTypeOK' /\ RestTypeOK'
  BY <1>7, StoreKept DEF TakeRule, tickFrame, RestTypeOK
<1>. QED BY <1>6, <1>8

LEMMA TakeEventType ==
    ASSUME TypeInv, NEW l \in EventLanes, TakeEvent(l)
    PROVE  TypeInv'
<1>. DEFINE w == WorkerOf(l)
<1>. USE TypeParts, TypePartsNext
<1>1. l \in Lanes /\ w \in Workers
  BY DEF EventLanes, Lanes, WorkerOf
<1>2. PICK p \in backlog[w] :
        /\ backlog' = [backlog EXCEPT ![w] = backlog[w] \ {p}]
        /\ lane' = [lane EXCEPT
             ![l] = [IdleLane EXCEPT !.pc = "getRule", !.task = "event",
                                     !.rule = p[2], !.event = p[1]]]
  BY DEF TakeEvent
<1>3. p[1] \in Event /\ p[2] \in Rules
  BY <1>1 DEF RestTypeOK
<1>. DEFINE a == [IdleLane EXCEPT !.pc = "getRule", !.task = "event",
                                  !.rule = p[2], !.event = p[1]]
<1>4. ActivationOK(a)
  BY <1>3, IdleLaneOK
     DEF ActivationOK, IdleLane, LaneState, PCs, Tasks, KeyedPCs, DispatchingPCs
<1>5. LaneTypeOK' /\ LanesOK'
  BY <1>1, <1>2, <1>4, LaneUpdate
<1>6. backlog' \in [Workers -> SUBSET (Event \X Rules)]
  BY <1>1, <1>2 DEF RestTypeOK
<1>7. StoreTypeOK' /\ RestTypeOK'
  BY <1>6, StoreKept DEF TakeEvent, envVars, RestTypeOK
<1>. QED BY <1>5, <1>7
-----------------------------------------------------------------------------
LEMMA EnvironmentType ==
    ASSUME TypeInv, Environment
    PROVE  TypeInv'
<1>. USE TypeParts, TypePartsNext
<1>1. CASE ClockTick
  <2>1. RestTypeOK'
    BY <1>1 DEF ClockTick, RestTypeOK, workerVars
  <2>. QED BY <1>1, <2>1, WorkerFrameType DEF ClockTick, workerVars
<1>2. CASE \E p \in Feed : Publish(p[1], p[2], p[3])
  <2>1. PICK p \in Feed : Publish(p[1], p[2], p[3])
    BY <1>2
  <2>. DEFINE e == [id |-> Len(events) + 1, type |-> p[1], svc |-> p[2],
                    status |-> p[3], at |-> clock, cause |-> NoRule]
  <2>2. p[1] \in EventTypes /\ p[2] \in Services /\ p[3] \in StatusOrNull
    BY SchedulerAssumption
  <2>3. e \in Event
    BY <2>2 DEF RestTypeOK, Event
  <2>. HIDE DEF e
  <2>4. events' = Append(events, e) /\ Deliver(e)
    BY <2>1 DEF Publish, e
  <2>5. events' \in Seq(Event) /\ inbox' \in [Workers -> SUBSET Event]
    BY <2>3, <2>4, PublishedOK
  <2>6. RestTypeOK'
    BY <2>1, <2>5 DEF Publish, RestTypeOK
  <2>. QED BY <2>1, <2>6, WorkerFrameType DEF Publish
<1>3. CASE \E r \in Rules, value \in BOOLEAN : AdminRule(r, value)
  <2>1. PICK r \in Rules, value \in BOOLEAN : AdminRule(r, value)
    BY <1>3
  <2>2. StoreTypeOK'
    BY <2>1 DEF AdminRule, SetEnabledRule, StoreTypeOK
  <2>3. /\ LosingCalls(r) \subseteq AdminCall
        /\ [rule |-> r, value |-> value, now |-> clock, won |-> TRUE] \in AdminCall
    <3>1. clock \in Nat
      BY DEF RestTypeOK
    <3>2. \A v, won \in BOOLEAN :
            [rule |-> r, value |-> v, now |-> clock, won |-> won] \in AdminCall
      BY <3>1 DEF AdminCall
    <3>. QED BY <3>2 DEF LosingCalls
  <2>4. admin' \subseteq AdminCall
    BY <2>1, <2>3 DEF AdminRule, RestTypeOK
  <2>5. RestTypeOK' /\ LaneTypeOK' /\ LanesOK'
    BY <2>1, <2>4, LanesKept DEF AdminRule, workerVars, RestTypeOK
  <2>. QED BY <2>2, <2>5
<1>4. CASE \E call \in admin : AdminRuntime(call)
  <2>1. PICK call \in admin : AdminRuntime(call)
    BY <1>4
  <2>2. call.rule \in Rules /\ call.now \in Nat
    BY DEF RestTypeOK, AdminCall
  <2>3. StoreTypeOK'
    BY <2>1, <2>2, SetEnabledRuntimeType DEF AdminRuntime
  <2>4. RestTypeOK' /\ LaneTypeOK' /\ LanesOK'
    BY <2>1, LanesKept DEF AdminRuntime, workerVars, RestTypeOK
  <2>. QED BY <2>3, <2>4
<1>. QED BY <1>1, <1>2, <1>3, <1>4 DEF Environment

LEMMA InitType == Init => TypeInv
<1>. SUFFICES ASSUME Init PROVE TypeInv
  OBVIOUS
<1>1. PICK cut \in SUBSET {r \in Rules : Config[r].trigger = "schedule"} :
        runtime = [r \in Rules |->
           [nextRunAt |-> IF Config[r].trigger = "schedule" /\ r \notin cut
                          THEN NextScheduleRunAt(r, 0) ELSE NoTime,
            lastTriggeredAt |-> NoTime,
            observed |-> NoRow.observed,
            leaseOwner |-> NoWorker, leaseUntil |-> NoTime]]
  BY DEF Init
<1>2. \A r \in Rules : NextScheduleRunAt(r, 0) \in TimeOrNull
  BY NextRunType
<1>3. runtime \in [Rules -> RuntimeState]
  BY <1>1, <1>2, NoRowType DEF RuntimeState, TimeOrNull
<1>4. StoreTypeOK
  BY <1>3 DEF Init, StoreTypeOK
<1>5. LaneTypeOK /\ LanesOK
  BY IdleLaneOK DEF Init, LaneTypeOK, LanesOK, ActivationOK
<1>6. RestTypeOK
  BY IdleTickType DEF Init, RestTypeOK
<1>. QED BY <1>4, <1>5, <1>6, TypeParts

LEMMA NextType ==
    ASSUME TypeInv, [Next]_vars
    PROVE  TypeInv'
<1>1. CASE \E l \in Lanes : LaneStep(l) \/ LaneFails(l)
  BY <1>1, LaneStepType
<1>2. CASE \E l \in TickLanes : TakeRule(l)
  BY <1>2, TakeRuleType
<1>3. CASE \E l \in EventLanes : TakeEvent(l)
  BY <1>3, TakeEventType
<1>4. CASE \E w \in Workers : WorkerStep(w)
  BY <1>4, WorkerStepType
<1>5. CASE Environment
  BY <1>5, EnvironmentType
<1>6. CASE UNCHANGED vars
  <2>1. UNCHANGED <<storeVars, lane>>
    BY <1>6 DEF vars, storeVars
  <2>2. RestTypeOK'
    BY <1>6, TypeParts DEF vars, RestTypeOK
  <2>. QED BY <2>1, <2>2, WorkerFrameType
<1>. QED BY <1>1, <1>2, <1>3, <1>4, <1>5, <1>6 DEF Next

\* Every step stays within the types, and every activation has, at every place
\* where the code uses them, its rule, its event and its run key.
THEOREM TypeInvariant == Spec => []TypeInv
BY InitType, NextType, PTL DEF Spec

\* In particular TypeOK, which the runs check.
THEOREM TypeCorrect == Spec => []TypeOK
<1>1. TypeInv => TypeOK
  BY DEF TypeInv
<1>. QED BY <1>1, TypeInvariant, PTL
-----------------------------------------------------------------------------
(***************************************************************************)
(* How an activation moves.  Its stage is the statement it is at, or the   *)
(* one it goes on to when the updateRuntime it is in is over.              *)
(***************************************************************************)
Stage(a) == IF a.pc \in {"read", "write"} THEN a.ret ELSE a.pc

Flow(from, to) ==
    \/ from = "getRule" /\ to \in {"idle", "getRuntime"}
    \/ from = "getRuntime" /\ to \in {"preclaim", "claim"}
    \/ from = "preclaim" /\ to \in {"finally", "fresh"}
    \/ from = "fresh" /\ to \in {"finally", "enter"}
    \/ from = "enter" /\ to \in {"finally", "insert"}
    \/ from = "claim" /\ to = "insert"
    \/ from = "insert" /\ to \in {"authorize", "conflict"}
    \/ from = "conflict" /\ to \in {"finishStale", "release"}
    \/ from = "finishStale" /\ to = "release"
    \/ from = "authorize" /\ to = "dispatch"
    \/ from = "dispatch" /\ to = "acting"
    \/ from = "finish" /\ to = "release"
    \/ from = "release" /\ to = "finally"

SameJob(a, b) == b.task = a.task /\ b.rule = a.rule /\ b.event = a.event

MovesOn(a, b) ==
    /\ b.pc # "idle"
    /\ SameJob(a, b)
    /\ a.pc # "getRuntime" => b.now = a.now
    /\ a.pc \notin {"getRuntime", "fresh"} => b.key = a.key
    /\ \/ Stage(b) = Stage(a) /\ a.pc \in {"read", "write"}
       \/ Flow(a.pc, Stage(b)) /\ b.status = a.status
       \/ a.pc = "authorize" /\ b.pc = "finish" /\ b.status \in {"denied", "skipped", "unknown"}
       \/ a.pc = "acting" /\ b.pc = "finish" /\ b.status \in Outcomes

Moves(l) == \E a : lane' = [lane EXCEPT ![l] = a] /\ MovesOn(lane[l], a)

MayEnd(a) ==
    \/ a.pc \in {"getRule", "getRuntime", "preclaim", "claim", "release", "finally"}
    \/ a.pc = "write" /\ a.ret = "idle"

LEMMA GotoMoves ==
    ASSUME TypeInv, NEW l \in Lanes, NEW pc \in PCs \ {"read", "write", "idle"},
           Flow(lane[l].pc, pc), Goto(l, pc)
    PROVE  Moves(l)
<1>. DEFINE a == [lane[l] EXCEPT !.pc = pc]
<1>1. lane[l] \in LaneState
  BY TypeParts DEF LaneTypeOK
<1>2. a.pc = pc /\ SameJob(lane[l], a) /\ a.now = lane[l].now /\ a.key = lane[l].key
      /\ a.status = lane[l].status
  BY <1>1 DEF LaneState, SameJob
<1>3. lane' = [lane EXCEPT ![l] = a]
  BY DEF Goto
<1>4. MovesOn(lane[l], a)
  BY <1>2 DEF MovesOn, Stage
<1>. QED BY <1>3, <1>4 DEF Moves

LEMMA PatchMoves ==
    ASSUME TypeInv, NEW l \in Lanes, NEW columns, NEW row, NEW ret,
           Flow(lane[l].pc, ret), Patch(l, columns, row, ret)
    PROVE  Moves(l)
<1>. DEFINE a == Patched(l, columns, row, ret)
<1>1. lane[l] \in LaneState
  BY TypeParts DEF LaneTypeOK
<1>2. a.pc = "read" /\ a.ret = ret
  BY <1>1 DEF LaneState, Patched
<1>3. SameJob(lane[l], a) /\ a.now = lane[l].now /\ a.key = lane[l].key
      /\ a.status = lane[l].status
  BY <1>1 DEF LaneState, SameJob, Patched
<1>4. lane' = [lane EXCEPT ![l] = a]
  BY DEF Patch
<1>. HIDE DEF a
<1>5. MovesOn(lane[l], a)
  BY <1>2, <1>3 DEF MovesOn, Stage
<1>. QED BY <1>4, <1>5 DEF Moves

LEMMA AdvanceMoves ==
    ASSUME TypeInv, NEW l \in Lanes, NEW ret \in {"authorize", "release"},
           Flow(lane[l].pc, ret), Advance(l, ret)
    PROVE  Moves(l)
<1>. DEFINE row == [NoRow EXCEPT !.nextRunAt = NextScheduleRunAt(lane[l].rule, lane[l].now)]
<1>1. Patch(l, {"nextRunAt"}, row, ret) \/ Goto(l, ret)
  BY DEF Advance
<1>. QED BY <1>1, PatchMoves, GotoMoves DEF PCs

\* The observed state is written and the dispatch entered afterwards.
LEMMA EnterMoves ==
    ASSUME TypeInv, NEW l \in Lanes, NEW columns, NEW row, NEW k, lane[l].pc = "fresh",
           lane' = [lane EXCEPT ![l] = [Patched(l, columns, row, "enter") EXCEPT !.key = k]]
    PROVE  Moves(l)
<1>. DEFINE a == [Patched(l, columns, row, "enter") EXCEPT !.key = k]
<1>1. lane[l] \in LaneState
  BY TypeParts DEF LaneTypeOK
<1>2. a.pc = "read" /\ a.ret = "enter"
  BY <1>1 DEF LaneState, Patched
<1>3. SameJob(lane[l], a) /\ a.now = lane[l].now /\ a.status = lane[l].status
  BY <1>1 DEF LaneState, SameJob, Patched
<1>. HIDE DEF a
<1>4. MovesOn(lane[l], a)
  BY <1>2, <1>3 DEF MovesOn, Stage, Flow
<1>. QED BY <1>4 DEF Moves, a

\* complete is called.
LEMMA CompletingMoves ==
    ASSUME TypeInv, NEW l \in Lanes, NEW s,
           \/ /\ lane[l].pc = "authorize" /\ s \in {"denied", "skipped", "unknown"}
              /\ lane' = [lane EXCEPT ![l] = Completing(l, s)]
           \/ /\ lane[l].pc = "acting" /\ s \in Outcomes
              /\ lane' = [lane EXCEPT ![l] = [Completing(l, s) EXCEPT !.sent = TRUE]]
    PROVE  Moves(l)
<1>. DEFINE a == Completing(l, s)
            b == [Completing(l, s) EXCEPT !.sent = TRUE]
<1>1. lane[l] \in LaneState
  BY TypeParts DEF LaneTypeOK
<1>2. a.pc = "finish" /\ a.status = s /\ b.pc = "finish" /\ b.status = s
  BY <1>1 DEF LaneState, Completing
<1>3. SameJob(lane[l], a) /\ a.now = lane[l].now /\ a.key = lane[l].key
  BY <1>1 DEF LaneState, SameJob, Completing
<1>4. SameJob(lane[l], b) /\ b.now = lane[l].now /\ b.key = lane[l].key
  BY <1>1 DEF LaneState, SameJob, Completing
<1>. HIDE DEF a, b
<1>5. lane[l].pc = "authorize" /\ s \in {"denied", "skipped", "unknown"} => MovesOn(lane[l], a)
  BY <1>2, <1>3 DEF MovesOn
<1>6. lane[l].pc = "acting" /\ s \in Outcomes => MovesOn(lane[l], b)
  BY <1>2, <1>4 DEF MovesOn
<1>. QED BY <1>5, <1>6 DEF Moves, a, b

LEMMA ReadWriteMoves ==
    ASSUME TypeInv, NEW l \in Lanes, Read(l) \/ Write(l)
    PROVE  Moves(l) \/ (Done(l) /\ MayEnd(lane[l]))
<1>. DEFINE row == MergedRow(lane[l].rule, lane[l].columns, lane[l].row)
            a == [lane[l] EXCEPT !.pc = "write", !.row = row]
            b == [lane[l] EXCEPT !.pc = lane[l].ret, !.ret = "idle",
                                 !.columns = {}, !.row = NoRow]
<1>1. lane[l] \in LaneState /\ lane[l].ret \in Returns
  BY TypeParts, LaneFields
<1>2. CASE Read(l)
  <2>1. lane' = [lane EXCEPT ![l] = a] /\ lane[l].pc = "read"
    BY <1>2 DEF Read
  <2>. HIDE DEF row
  <2>2. a.pc = "write" /\ a.ret = lane[l].ret
    BY <1>1 DEF LaneState
  <2>3. SameJob(lane[l], a) /\ a.now = lane[l].now /\ a.key = lane[l].key
    BY <1>1 DEF LaneState, SameJob
  <2>. HIDE DEF a
  <2>4. MovesOn(lane[l], a)
    BY <2>1, <2>2, <2>3 DEF MovesOn, Stage
  <2>. QED BY <2>1, <2>4 DEF Moves
<1>3. CASE Write(l) /\ lane[l].ret = "idle"
  BY <1>3 DEF Write, MayEnd
<1>4. CASE Write(l) /\ lane[l].ret # "idle"
  <2>1. lane' = [lane EXCEPT ![l] = b] /\ lane[l].pc = "write"
    BY <1>4 DEF Write
  <2>2. b.pc = lane[l].ret /\ b.ret = "idle"
    BY <1>1 DEF LaneState
  <2>3. SameJob(lane[l], b) /\ b.now = lane[l].now /\ b.key = lane[l].key
    BY <1>1 DEF LaneState, SameJob
  <2>. HIDE DEF b
  <2>4. MovesOn(lane[l], b)
    BY <1>1, <1>4, <2>1, <2>2, <2>3 DEF MovesOn, Stage, Returns
  <2>. QED BY <2>1, <2>4 DEF Moves
<1>. QED BY <1>2, <1>3, <1>4

LEMMA GetRuntimeMoves ==
    ASSUME TypeInv, NEW l \in Lanes,
           GetRuntimeOfSchedule(l) \/ GetRuntimeOfDebounce(l) \/ GetRuntimeOfEvent(l)
    PROVE  Moves(l) \/ (Done(l) /\ MayEnd(lane[l]))
<1>1. lane[l] \in LaneState /\ lane[l].pc = "getRuntime"
  BY TypeParts DEF LaneTypeOK, GetRuntimeOfSchedule, GetRuntimeOfDebounce, GetRuntimeOfEvent
<1>2. Done(l) => MayEnd(lane[l])
  BY <1>1 DEF MayEnd
<1>3. ASSUME NEW k, lane' = [lane EXCEPT ![l].pc = "claim", ![l].key = k] PROVE Moves(l)
  <2>. DEFINE a == [lane[l] EXCEPT !.pc = "claim", !.key = k]
  <2>1. a.pc = "claim" /\ SameJob(lane[l], a) /\ a.status = lane[l].status
    BY <1>1 DEF LaneState, SameJob
  <2>2. MovesOn(lane[l], a)
    BY <1>1, <2>1 DEF MovesOn, Stage, Flow
  <2>. QED BY <1>3, <2>2 DEF Moves
<1>4. ASSUME lane' = [lane EXCEPT ![l].pc = "preclaim", ![l].now = clock] PROVE Moves(l)
  <2>. DEFINE a == [lane[l] EXCEPT !.pc = "preclaim", !.now = clock]
  <2>1. a.pc = "preclaim" /\ SameJob(lane[l], a) /\ a.status = lane[l].status
    BY <1>1 DEF LaneState, SameJob
  <2>2. MovesOn(lane[l], a)
    BY <1>1, <2>1 DEF MovesOn, Stage, Flow
  <2>. QED BY <1>4, <2>2 DEF Moves
<1>5. ASSUME NEW k, lane' = [lane EXCEPT ![l].pc = "claim", ![l].now = clock, ![l].key = k]
      PROVE  Moves(l)
  <2>. DEFINE a == [lane[l] EXCEPT !.pc = "claim", !.now = clock, !.key = k]
  <2>1. a.pc = "claim" /\ SameJob(lane[l], a) /\ a.status = lane[l].status
    BY <1>1 DEF LaneState, SameJob
  <2>2. MovesOn(lane[l], a)
    BY <1>1, <2>1 DEF MovesOn, Stage, Flow
  <2>. QED BY <1>5, <2>2 DEF Moves
<1>6. CASE GetRuntimeOfSchedule(l)
  BY <1>2, <1>3, <1>6 DEF GetRuntimeOfSchedule
<1>7. CASE GetRuntimeOfDebounce(l)
  <2>1. Done(l) \/ Goto(l, "preclaim")
    BY <1>7 DEF GetRuntimeOfDebounce
  <2>. QED BY <1>1, <1>2, <2>1, GotoMoves DEF PCs, Flow
<1>8. CASE GetRuntimeOfEvent(l)
  BY <1>2, <1>4, <1>5, <1>8 DEF GetRuntimeOfEvent
<1>. QED BY <1>6, <1>7, <1>8

LEMMA FreshMoves ==
    ASSUME TypeInv, NEW l \in Lanes, FreshDebounce(l) \/ FreshEvent(l)
    PROVE  Moves(l)
<1>. DEFINE r == lane[l].rule
            e == lane[l].event
            status == runtime[r].observed.status
            pending == runtime[r].observed.pending
            started == [from |-> status, to |-> e.status,
                        since |-> lane[l].now, svc |-> e.svc]
            row(s) == [NoRow EXCEPT !.observed = ObservedStateWithPending(s, NoPending)]
            kd == BuildStatusDebounceRunKey(r, pending.since, status)
            ke == BuildEventRunKey(r, e)
<1>1. lane[l].pc = "fresh"
  BY DEF FreshDebounce, FreshEvent
<1>2. Flow(lane[l].pc, "finally")
  BY <1>1 DEF Flow
<1>3. ASSUME NEW s, NEW p, NEW next, Observe(l, s, p, next, "finally") PROVE Moves(l)
  BY <1>2, <1>3, PatchMoves DEF Observe
<1>4. CASE FreshDebounce(l)
  <2>1. \/ Observe(l, status, NoPending, NoTime, "finally")
        \/ Goto(l, "finally")
        \/ lane' = [lane EXCEPT ![l] =
             [Patched(l, {"observed", "nextRunAt"}, row(status), "enter") EXCEPT !.key = kd]]
    BY <1>4, Zenon DEF FreshDebounce
  <2>. HIDE DEF status, kd, row
  <2>2. Goto(l, "finally") => Moves(l)
    BY <1>2, GotoMoves DEF PCs
  <2>. QED BY <1>1, <1>3, <2>1, <2>2, EnterMoves
<1>5. CASE FreshEvent(l)
  <2>1. \/ Observe(l, e.status, NoPending, NoTime, "finally")
        \/ lane' = [lane EXCEPT ![l] =
             [Patched(l, {"observed", "nextRunAt"}, row(e.status), "enter") EXCEPT !.key = ke]]
        \/ Observe(l, e.status, started, lane[l].now + Config[r].forDuration, "finally")
        \/ Patch(l, {"observed"},
                 [NoRow EXCEPT !.observed = ObservedStateWithPending(e.status, pending)],
                 "finally")
    BY <1>5, Zenon DEF FreshEvent
  <2>. HIDE DEF e, started, ke, row, pending, r
  <2>2. ASSUME NEW x, Patch(l, {"observed"}, x, "finally") PROVE Moves(l)
    BY <1>2, <2>2, PatchMoves
  <2>. QED BY <1>1, <1>3, <2>1, <2>2, EnterMoves
<1>. QED BY <1>4, <1>5

\* Where each step begins.
LEMMA StepsBegin ==
    ASSUME NEW l
    PROVE  /\ GetRule(l) => lane[l].pc = "getRule"
           /\ GetRuntimeOfSchedule(l) => lane[l].pc = "getRuntime"
           /\ GetRuntimeOfDebounce(l) => lane[l].pc = "getRuntime"
           /\ GetRuntimeOfEvent(l) => lane[l].pc = "getRuntime"
           /\ Preclaim(l) => lane[l].pc = "preclaim"
           /\ FreshDebounce(l) => lane[l].pc = "fresh"
           /\ FreshEvent(l) => lane[l].pc = "fresh"
           /\ Enter(l) => lane[l].pc = "enter"
           /\ Read(l) => lane[l].pc = "read"
           /\ Write(l) => lane[l].pc = "write"
           /\ Claim(l) => lane[l].pc = "claim"
           /\ Insert(l) => lane[l].pc = "insert"
           /\ Conflict(l) => lane[l].pc = "conflict"
           /\ FinishStale(l) => lane[l].pc = "finishStale"
           /\ Authorize(l) => lane[l].pc = "authorize"
           /\ Dispatch(l) => lane[l].pc = "dispatch"
           /\ DispatchReturns(l) => lane[l].pc = "acting"
           /\ Finish(l) => lane[l].pc = "finish"
           /\ Release(l) => lane[l].pc = "release"
           /\ Finally(l) => lane[l].pc = "finally"
BY DEF GetRule, GetRuntimeOfSchedule, GetRuntimeOfDebounce, GetRuntimeOfEvent, Preclaim,
       FreshDebounce, FreshEvent, Enter, Read, Write, Claim, Insert, Conflict, FinishStale,
       Authorize, Dispatch, DispatchReturns, Finish, Release, Finally

LEMMA GetRuleMoves ==
    ASSUME TypeInv, NEW l \in Lanes, GetRule(l)
    PROVE  Moves(l) \/ (Done(l) /\ MayEnd(lane[l]))
<1>1. lane[l].pc = "getRule"
  BY DEF GetRule
<1>2. \/ Done(l) \/ Goto(l, "getRuntime")
      \/ \E row : Patch(l, {"nextRunAt"}, row, "idle")
  BY DEF GetRule
<1>3. Flow(lane[l].pc, "idle") /\ Flow(lane[l].pc, "getRuntime")
  BY <1>1 DEF Flow
<1>. QED BY <1>1, <1>2, <1>3, GotoMoves, PatchMoves DEF PCs, MayEnd

LEMMA StoreStepMoves ==
    ASSUME TypeInv, NEW l \in Lanes,
           Preclaim(l) \/ Enter(l) \/ Claim(l) \/ Insert(l) \/ Conflict(l) \/ FinishStale(l)
    PROVE  Moves(l) \/ (Done(l) /\ MayEnd(lane[l]))
<1>1. CASE Preclaim(l)
  <2>1. Done(l) \/ Goto(l, "finally") \/ Goto(l, "fresh")
    BY <1>1 DEF Preclaim
  <2>. QED BY <1>1, <2>1, StepsBegin, GotoMoves DEF PCs, Flow, MayEnd
<1>2. CASE Enter(l)
  <2>1. Goto(l, "finally") \/ Goto(l, "insert")
    BY <1>2 DEF Enter
  <2>. QED BY <1>2, <2>1, StepsBegin, GotoMoves DEF PCs, Flow
<1>3. CASE Claim(l)
  <2>1. Done(l) \/ Goto(l, "insert")
    BY <1>3 DEF Claim
  <2>. QED BY <1>3, <2>1, StepsBegin, GotoMoves DEF PCs, Flow, MayEnd
<1>4. CASE Insert(l)
  <2>1. Advance(l, "authorize") \/ Goto(l, "conflict")
    BY <1>4 DEF Insert
  <2>. QED BY <1>4, <2>1, StepsBegin, GotoMoves, AdvanceMoves DEF PCs, Flow
<1>5. CASE Conflict(l)
  <2>1. Advance(l, "release") \/ Goto(l, "finishStale")
    BY <1>5 DEF Conflict
  <2>. QED BY <1>5, <2>1, StepsBegin, GotoMoves, AdvanceMoves DEF PCs, Flow
<1>6. CASE FinishStale(l)
  <2>1. Advance(l, "release")
    BY <1>6 DEF FinishStale
  <2>. QED BY <1>6, <2>1, StepsBegin, AdvanceMoves DEF Flow
<1>. QED BY <1>1, <1>2, <1>3, <1>4, <1>5, <1>6

LEMMA DispatchStepMoves ==
    ASSUME TypeInv, NEW l \in Lanes,
           Authorize(l) \/ Dispatch(l) \/ DispatchReturns(l) \/ Finish(l) \/ Release(l) \/ Finally(l)
    PROVE  Moves(l) \/ (Done(l) /\ MayEnd(lane[l]))
<1>1. CASE Authorize(l)
  <2>1. \/ lane' = [lane EXCEPT ![l] = Completing(l, "denied")]
        \/ lane' = [lane EXCEPT ![l] = Completing(l, "skipped")]
        \/ lane' = [lane EXCEPT ![l] = Completing(l, "unknown")]
        \/ Goto(l, "dispatch")
    BY <1>1, Zenon DEF Authorize
  <2>2. Goto(l, "dispatch") => Moves(l)
    BY <1>1, StepsBegin, GotoMoves DEF PCs, Flow
  <2>3. \A s \in {"denied", "skipped", "unknown"} :
          lane' = [lane EXCEPT ![l] = Completing(l, s)] => Moves(l)
    BY <1>1, StepsBegin, CompletingMoves
  <2>. QED BY <2>1, <2>2, <2>3
<1>2. CASE Dispatch(l)
  <2>1. Goto(l, "acting")
    BY <1>2 DEF Dispatch
  <2>. QED BY <1>2, <2>1, StepsBegin, GotoMoves DEF PCs, Flow
<1>3. CASE DispatchReturns(l)
  <2>1. PICK s \in Outcomes : lane' = [lane EXCEPT ![l] = [Completing(l, s) EXCEPT !.sent = TRUE]]
    BY <1>3 DEF DispatchReturns
  <2>. QED BY <1>3, <2>1, StepsBegin, CompletingMoves
<1>4. CASE Finish(l)
  <2>1. Patch(l, {"lastTriggeredAt"}, lane[l].row, "release")
    BY <1>4 DEF Finish
  <2>. QED BY <1>4, <2>1, StepsBegin, PatchMoves DEF Flow
<1>5. CASE Release(l)
  <2>1. Goto(l, "finally") \/ Done(l)
    BY <1>5 DEF Release, Return
  <2>. QED BY <1>5, <2>1, StepsBegin, GotoMoves DEF PCs, Flow, MayEnd
<1>6. CASE Finally(l)
  <2>1. Done(l)
    BY <1>6 DEF Finally
  <2>. QED BY <1>6, <2>1, StepsBegin DEF MayEnd
<1>. QED BY <1>1, <1>2, <1>3, <1>4, <1>5, <1>6

LEMMA LaneStepMoves ==
    ASSUME TypeInv, NEW l \in Lanes, LaneStep(l)
    PROVE  Moves(l) \/ (Done(l) /\ MayEnd(lane[l]))
BY GetRuleMoves, GetRuntimeMoves, StoreStepMoves, FreshMoves, ReadWriteMoves, DispatchStepMoves
   DEF LaneStep

\* An error: the activation is over, or it gives back its lease.
GivesUp(l) ==
    \E a : /\ lane' = [lane EXCEPT ![l] = a]
           /\ SameJob(lane[l], a) /\ a.now = lane[l].now /\ a.key = lane[l].key
           /\ a.pc \in {"release", "finally"}

LEMMA LaneFailsMoves ==
    ASSUME TypeInv, NEW l \in Lanes, LaneFails(l)
    PROVE  /\ GivesUp(l) \/ Done(l)
           /\ failures' = failures + 1
           /\ UNCHANGED <<storeVars, clock, mode, window, inbox, events, admin, toggles, calls>>
<1>1. lane[l] \in LaneState
  BY TypeParts DEF LaneTypeOK
<1>2. failures' = failures + 1
      /\ UNCHANGED <<storeVars, clock, mode, window, inbox, events, admin, toggles, calls>>
  BY DEF LaneFails, AdvanceFails, CompleteFails, ThrowsInTick, ThrowsInEvent, StoreFails, catchFrame
<1>3. ASSUME NEW pc \in {"release", "finally"},
             lane' = [lane EXCEPT ![l] = [lane[l] EXCEPT !.pc = pc, !.ret = "idle",
                                                         !.columns = {}, !.row = NoRow]]
      PROVE  GivesUp(l)
  <2>. DEFINE a == [lane[l] EXCEPT !.pc = pc, !.ret = "idle", !.columns = {}, !.row = NoRow]
  <2>1. a.pc = pc /\ SameJob(lane[l], a) /\ a.now = lane[l].now /\ a.key = lane[l].key
    BY <1>1 DEF LaneState, SameJob
  <2>. QED BY <1>3, <2>1 DEF GivesUp
<1>4. CASE AdvanceFails(l)
  BY <1>2, <1>3, <1>4 DEF AdvanceFails
<1>5. CASE CompleteFails(l)
  <2>. DEFINE a == [lane[l] EXCEPT !.pc = "finally"]
  <2>1. Goto(l, "finally") \/ Done(l)
    BY <1>5 DEF CompleteFails, Return
  <2>2. a.pc = "finally" /\ SameJob(lane[l], a) /\ a.now = lane[l].now /\ a.key = lane[l].key
    BY <1>1 DEF LaneState, SameJob
  <2>3. Goto(l, "finally") => GivesUp(l)
    BY <2>2 DEF Goto, GivesUp
  <2>. QED BY <1>2, <2>1, <2>3
<1>6. CASE Unwind(l)
  <2>1. \/ Done(l)
        \/ lane' = [lane EXCEPT ![l] = [lane[l] EXCEPT !.pc = "finally", !.ret = "idle",
                                                       !.columns = {}, !.row = NoRow]]
    BY <1>6 DEF Unwind
  <2>. QED BY <1>2, <1>3, <2>1
<1>. QED BY <1>4, <1>5, <1>6 DEF LaneFails, ThrowsInTick, ThrowsInEvent

\* What an error leaves of the activation a.
LeftBy(a, b) ==
    SameJob(a, b) /\ b.now = a.now /\ b.key = a.key /\ b.pc \in {"release", "finally"}

\* What the activation of lane l is after a step of it.
Becomes(l, a) ==
    /\ \A x \in Lanes : lane'[x] = IF x = l THEN a ELSE lane[x]
    /\ a \in LaneState /\ a.ret \in Returns
    /\ \/ a = IdleLane /\ (MayEnd(lane[l]) \/ LaneFails(l))
       \/ LaneStep(l) /\ MovesOn(lane[l], a)
       \/ LaneFails(l) /\ LeftBy(lane[l], a)

LEMMA LaneBecomes ==
    ASSUME TypeInv, NEW l \in Lanes, LaneStep(l) \/ LaneFails(l)
    PROVE  \E a : Becomes(l, a)
<1>1. PICK a : /\ lane' = [lane EXCEPT ![l] = a]
               /\ \/ a = IdleLane /\ (MayEnd(lane[l]) \/ LaneFails(l))
                  \/ LaneStep(l) /\ MovesOn(lane[l], a)
                  \/ LaneFails(l) /\ LeftBy(lane[l], a)
  BY LaneStepMoves, LaneFailsMoves DEF Moves, GivesUp, LeftBy, Done
<1>2. \A x \in Lanes : lane'[x] = IF x = l THEN a ELSE lane[x]
  BY <1>1, TypeParts DEF LaneTypeOK
<1>3. LaneTypeOK' /\ LanesOK'
  BY LaneStepType DEF TypeInv, TypeOK, LaneTypeOK
<1>4. a \in LaneState /\ a.ret \in Returns
  BY <1>2, <1>3 DEF LaneTypeOK, LanesOK, ActivationOK
<1>. QED BY <1>1, <1>2, <1>4 DEF Becomes

-----------------------------------------------------------------------------
LEMMA TakesLane ==
    ASSUME TypeInv, NEW l, TakeRule(l) \/ TakeEvent(l),
           l \in TickLanes \/ l \in EventLanes
    PROVE  /\ l \in Lanes
           /\ \A x \in Lanes : x # l => lane'[x] = lane[x]
           /\ lane[l].pc = "idle" /\ lane'[l].pc = "getRule"
           /\ UNCHANGED <<storeVars, calls, clock, mode, failures, toggles, admin, inbox>>
<1>1. l \in Lanes
  BY DEF TickLanes, EventLanes, Lanes
<1>2. \E a : a.pc = "getRule" /\ lane' = [lane EXCEPT ![l] = a]
  <2>1. CASE TakeRule(l)
    <3>1. PICK r : lane' = [lane EXCEPT
               ![l] = [IdleLane EXCEPT !.pc = "getRule", !.task = tick[WorkerOf(l)].phase,
                                       !.rule = r, !.now = tick[WorkerOf(l)].now]]
      BY <2>1 DEF TakeRule
    <3>. QED BY <3>1 DEF IdleLane
  <2>2. CASE TakeEvent(l)
    <3>1. PICK p : lane' = [lane EXCEPT
               ![l] = [IdleLane EXCEPT !.pc = "getRule", !.task = "event",
                                       !.rule = p[2], !.event = p[1]]]
      BY <2>2 DEF TakeEvent
    <3>. QED BY <3>1 DEF IdleLane
  <2>. QED BY <2>1, <2>2
<1>3. lane[l].pc = "idle" /\ UNCHANGED <<storeVars, calls, clock, mode, failures, toggles, admin, inbox>>
  BY DEF TakeRule, TakeEvent, tickFrame, envVars
<1>. QED BY <1>1, <1>2, <1>3, TypeParts DEF LaneTypeOK

LEMMA DiesLane ==
    ASSUME NEW w, NEW how, Die(w, how)
    PROVE  /\ \A x \in Lanes : lane'[x] = IF WorkerOf(x) = w THEN IdleLane ELSE lane[x]
           /\ UNCHANGED <<storeVars, envVars>>
BY DEF Die

\* The steps of a worker outside of its activations.
LEMMA WorkerStepLane ==
    ASSUME TypeInv, NEW w \in Workers, WorkerStep(w)
    PROVE  /\ \/ UNCHANGED lane
              \/ /\ \A x \in Lanes : lane'[x] = IF WorkerOf(x) = w THEN IdleLane ELSE lane[x]
                 /\ mode'[w] \in {"exited", "crashed"} /\ UNCHANGED runs
           /\ \A v \in Workers : /\ mode'[v] # mode[v] => v = w
                                 /\ mode'[v] # "new" \/ mode[v] = "new"
           /\ UNCHANGED <<enabled, runtime, calls, clock, toggles, admin>>
           /\ UNCHANGED runs \/ Sweep(w)
<1>. mode \in [Workers -> {"new", "up", "stopping", "exited", "crashed"}]
  BY TypeParts DEF RestTypeOK
<1>1. CASE Start(w) \/ Stop(w)
  BY <1>1 DEF Start, Stop, storeVars, envVars
<1>2. CASE Exit(w) \/ Crash(w)
  <2>1. PICK how \in {"exited", "crashed"} : Die(w, how)
    BY <1>2 DEF Exit, Crash
  <2>2. mode' = [mode EXCEPT ![w] = how]
    BY <2>1 DEF Die
  <2>. QED BY <2>1, <2>2, DiesLane DEF storeVars, envVars
<1>3. CASE TickStep(w)
  BY <1>3
     DEF TickStep, TickStart, Sweep, ListUnscheduled, SeedStops, ListDueSchedule,
         ListDueStatusDebounce, TickEnd, tickFrame, storeVars
<1>4. CASE TickThrows(w) \/ HandleEvent(w) \/ HandleEventThrows(w)
  BY <1>4 DEF TickThrows, HandleEvent, HandleEventThrows, storeVars, envVars
<1>. QED BY <1>1, <1>2, <1>3, <1>4 DEF WorkerStep

LEMMA EnvironmentLane ==
    ASSUME Environment
    PROVE  UNCHANGED <<lane, runs, calls, mode, tick, window, backlog>>
BY DEF Environment, ClockTick, Publish, AdminRule, AdminRuntime, storeVars, workerVars

LEMMA LaneStepWorker ==
    ASSUME TypeInv, NEW l \in Lanes, LaneStep(l) \/ LaneFails(l)
    PROVE  /\ lane[l].pc # "idle"
           /\ UNCHANGED <<mode, toggles, admin, enabled>>
           /\ \A w \in Workers : /\ tick'[w].phase \in {tick[w].phase, "idle"}
                                 /\ backlog'[w] \subseteq backlog[w]
                                 /\ inbox'[w] = inbox[w] \/ mode[w] = "up"
<1>. /\ tick \in [Workers -> TickState] /\ backlog \in [Workers -> SUBSET (Event \X Rules)]
     /\ inbox \in [Workers -> SUBSET Event]
  BY TypeParts DEF RestTypeOK
<1>1. CASE LaneStep(l) /\ ~DispatchReturns(l)
  <2>1. UNCHANGED <<mode, tick, backlog, inbox, toggles, admin, enabled>>
    BY <1>1 DEF LaneStep, GetRule, GetRuntimeOfSchedule, GetRuntimeOfDebounce,
       GetRuntimeOfEvent, Preclaim, FreshDebounce, FreshEvent, Enter, Read, Write, Claim, Insert,
       Conflict, FinishStale, Authorize, Dispatch, Finish, Release, Finally,
       laneFrame, catchFrame, storeVars
  <2>2. lane[l].pc # "idle"
    BY <1>1, StepsBegin DEF LaneStep
  <2>. QED BY <2>1, <2>2
<1>2. CASE DispatchReturns(l)
  <2>1. UNCHANGED inbox \/ \E e : Deliver(e)
    BY <1>2 DEF DispatchReturns
  <2>2. \A w \in Workers : inbox'[w] = inbox[w] \/ mode[w] = "up"
    BY <2>1 DEF Deliver
  <2>3. UNCHANGED <<mode, tick, backlog, toggles, admin, enabled>>
    BY <1>2 DEF DispatchReturns, storeVars
  <2>. QED BY <1>2, <2>2, <2>3, StepsBegin
<1>3. CASE AdvanceFails(l) \/ CompleteFails(l)
  <2>1. UNCHANGED <<mode, tick, backlog, inbox, toggles, admin, enabled>>
    BY <1>3 DEF AdvanceFails, CompleteFails, catchFrame, storeVars
  <2>2. lane[l].pc # "idle"
    BY <1>3 DEF AdvanceFails, CatchesAdvance, CompleteFails
  <2>. QED BY <2>1, <2>2
<1>4. CASE ThrowsInTick(l)
  <2>1. UNCHANGED <<mode, backlog, inbox, toggles, admin, enabled>> /\ lane[l].pc # "idle"
    BY <1>4 DEF ThrowsInTick, MayThrow, storeVars
  <2>2. \/ tick' = tick
        \/ tick' = [tick EXCEPT ![WorkerOf(l)].queue = {}]
        \/ tick' = [tick EXCEPT ![WorkerOf(l)] = IdleTick]
    BY <1>4 DEF ThrowsInTick
  <2>3. \A w \in Workers : tick'[w].phase \in {tick[w].phase, "idle"}
    BY <2>2 DEF IdleTick, TickState
  <2>. QED BY <2>1, <2>3
<1>5. CASE ThrowsInEvent(l)
  <2>1. UNCHANGED <<mode, tick, inbox, toggles, admin, enabled>> /\ lane[l].pc # "idle"
    BY <1>5 DEF ThrowsInEvent, MayThrow, storeVars
  <2>2. \A w \in Workers : backlog'[w] \subseteq backlog[w]
    BY <1>5 DEF ThrowsInEvent
  <2>. QED BY <2>1, <2>2
<1>. QED BY <1>1, <1>2, <1>3, <1>4, <1>5 DEF LaneFails

LEMMA LaneStepIsNoFailure ==
    ASSUME TypeInv, NEW l \in Lanes, LaneStep(l)
    PROVE  UNCHANGED <<clock, failures>> /\ ~LaneFails(l)
<1>1. UNCHANGED <<clock, failures>>
  <2>1. CASE ~DispatchReturns(l)
    <3>1. UNCHANGED laneFrame
      BY <2>1 DEF LaneStep, GetRule, GetRuntimeOfSchedule, GetRuntimeOfDebounce,
         GetRuntimeOfEvent, Preclaim, FreshDebounce, FreshEvent, Enter, Read, Write, Claim,
         Insert, Conflict, FinishStale, Authorize, Dispatch, Finish, Release, Finally
    <3>. QED BY <3>1 DEF laneFrame, catchFrame
  <2>2. CASE DispatchReturns(l)
    BY <2>2 DEF DispatchReturns
  <2>. QED BY <2>1, <2>2
<1>2. LaneFails(l) => failures' # failures
  <2>1. failures \in Nat
    BY TypeParts DEF RestTypeOK
  <2>2. LaneFails(l) => failures' = failures + 1
    BY DEF LaneFails, AdvanceFails, CompleteFails, ThrowsInTick, ThrowsInEvent, StoreFails
  <2>. QED BY <2>1, <2>2
<1>. QED BY <1>1, <1>2

\* Modes, failures and toggles never go back.
LEMMA NextModes ==
    ASSUME TypeInv, [Next]_vars
    PROVE  /\ \A w \in Workers : mode'[w] = "new" => mode[w] = "new"
           /\ \A w \in Workers : Running(w)' => Running(w) \/ mode[w] = "new"
           /\ failures' = 0 => failures = 0
           /\ toggles' = 0 => toggles = 0
<1>. /\ mode \in [Workers -> {"new", "up", "stopping", "exited", "crashed"}]
     /\ failures \in Nat /\ toggles \in Nat
  BY TypeParts DEF RestTypeOK
<1>1. CASE \E l \in Lanes : LaneStep(l)
  BY <1>1, LaneStepWorker, LaneStepIsNoFailure DEF Running
<1>2. CASE \E l \in Lanes : LaneFails(l)
  BY <1>2, LaneFailsMoves DEF Running
<1>3. CASE \/ \E l \in TickLanes : TakeRule(l)
           \/ \E l \in EventLanes : TakeEvent(l)
  BY <1>3, TakesLane DEF Running
<1>4. CASE \E w \in Workers : WorkerStep(w)
  <2>1. PICK w \in Workers : WorkerStep(w)
    BY <1>4
  <2>2. CASE Start(w) \/ Stop(w) \/ Exit(w) \/ Crash(w)
    BY <2>2 DEF Start, Stop, Exit, Crash, Die, Running, envVars
  <2>3. CASE TickStep(w) \/ HandleEvent(w)
    BY <2>3 DEF TickStep, TickStart, Sweep, ListUnscheduled, SeedStops, ListDueSchedule,
       ListDueStatusDebounce, TickEnd, tickFrame, HandleEvent, Running, envVars
  <2>4. CASE TickThrows(w) \/ HandleEventThrows(w)
    BY <2>4 DEF TickThrows, HandleEventThrows, StoreFails, Running
  <2>. QED BY <2>1, <2>2, <2>3, <2>4 DEF WorkerStep
<1>5. CASE Environment
  <2>1. UNCHANGED <<mode, failures>>
    BY <1>5 DEF Environment, ClockTick, Publish, AdminRule, AdminRuntime, workerVars
  <2>2. toggles' = toggles \/ toggles' = toggles + 1
    BY <1>5 DEF Environment, ClockTick, Publish, AdminRule, AdminRuntime
  <2>. QED BY <2>1, <2>2 DEF Running
<1>6. CASE UNCHANGED vars
  BY <1>6 DEF vars, Running
<1>. QED BY <1>1, <1>2, <1>3, <1>4, <1>5, <1>6 DEF Next

\* The steps of other lanes and workers leave a lane at work alone.
LEMMA OthersLeave ==
    ASSUME TypeInv, [Next]_vars, failures' = 0, NEW l \in Lanes, lane[l].pc # "idle",
           Running(WorkerOf(l))'
    PROVE  lane'[l] = lane[l] \/ LaneStep(l)
<1>1. ASSUME NEW x \in Lanes, LaneStep(x) PROVE lane'[l] = lane[l] \/ LaneStep(l)
  BY <1>1, LaneBecomes DEF Becomes
<1>2. ASSUME NEW x \in Lanes, LaneFails(x) PROVE FALSE
  <2>1. failures \in Nat
    BY TypeParts DEF RestTypeOK
  <2>. QED BY <1>2, <2>1, LaneFailsMoves
<1>3. ASSUME NEW x, x \in TickLanes \/ x \in EventLanes, TakeRule(x) \/ TakeEvent(x)
      PROVE  lane'[l] = lane[l]
  BY <1>3, TakesLane
<1>4. ASSUME NEW w \in Workers, WorkerStep(w) PROVE lane'[l] = lane[l]
  <2>1. mode'[WorkerOf(l)] \notin {"exited", "crashed"}
    BY DEF Running
  <2>. QED BY <1>4, <2>1, WorkerStepLane
<1>5. CASE Environment \/ UNCHANGED vars
  BY <1>5, EnvironmentLane DEF vars
<1>. QED BY <1>1, <1>2, <1>3, <1>4, <1>5 DEF Next
=============================================================================
