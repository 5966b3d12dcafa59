----------------------------- MODULE RunProofs -----------------------------
(***************************************************************************)
(* Theorems about the runs of the automation engine and the leases.        *)
(*                                                                         *)
(* At most once comes first: the argument is the order of claimAndDispatch *)
(* (insert the run, authorize, dispatch) and the unique run key.  The      *)
(* lease plays no part in it.                                              *)
(***************************************************************************)
EXTENDS AutomationProofs, FiniteSetTheorems

(***************************************************************************)
(* An activation owns the run it has inserted until it hands the action to *)
(* the dispatcher.                                                         *)
(***************************************************************************)
OwnerPCs == {"authorize", "dispatch"}

Owns(a) ==
    \/ a.pc \in OwnerPCs
    \/ a.pc \in {"read", "write"} /\ a.ret = "authorize"

OwnedIsNew ==
    \A l \in Lanes : Owns(lane[l]) => lane[l].key \in DOMAIN runs \ DOMAIN calls

OwnersDiffer ==
    \A l1, l2 \in Lanes :
        (l1 # l2 /\ Owns(lane[l1]) /\ Owns(lane[l2])) => lane[l1].key # lane[l2].key

OwnInv ==
    /\ DOMAIN calls \subseteq DOMAIN runs
    /\ AtMostOnce
    /\ OwnedIsNew
    /\ OwnersDiffer

\* No run and no call disappears, and whoever owns a run owned it before.
LEMMA OwnershipKept ==
    ASSUME OwnInv, UNCHANGED calls, DOMAIN runs \subseteq DOMAIN runs',
           \A l \in Lanes : Owns(lane'[l]) => Owns(lane[l]) /\ lane'[l].key = lane[l].key
    PROVE  OwnInv'
<1>1. (DOMAIN calls \subseteq DOMAIN runs)'
  BY DEF OwnInv
<1>2. AtMostOnce'
  BY DEF OwnInv, AtMostOnce
<1>3. OwnedIsNew'
  BY DEF OwnInv, OwnedIsNew
<1>4. OwnersDiffer'
  BY DEF OwnInv, OwnersDiffer
<1>. QED BY <1>1, <1>2, <1>3, <1>4 DEF OwnInv
-----------------------------------------------------------------------------
\* Lane l goes on as an activation that owns nothing.
Disowns(l) == \E a : ~Owns(a) /\ lane' = [lane EXCEPT ![l] = a]

LEMMA Disowned ==
    ASSUME TypeInv, OwnInv, NEW l \in Lanes, Disowns(l),
           UNCHANGED calls, DOMAIN runs \subseteq DOMAIN runs'
    PROVE  OwnInv'
<1>1. PICK a : ~Owns(a) /\ lane' = [lane EXCEPT ![l] = a]
  BY DEF Disowns
<1>2. \A x \in Lanes : lane'[x] = IF x = l THEN a ELSE lane[x]
  BY <1>1, TypeParts DEF LaneTypeOK
<1>3. \A x \in Lanes : Owns(lane'[x]) => Owns(lane[x]) /\ lane'[x].key = lane[x].key
  BY <1>1, <1>2
<1>. QED BY <1>3, OwnershipKept

LEMMA GotoDisowns ==
    ASSUME TypeInv, NEW l \in Lanes, NEW pc \in PCs \ (OwnerPCs \cup {"read", "write"}),
           Goto(l, pc)
    PROVE  Disowns(l)
<1>. DEFINE a == [lane[l] EXCEPT !.pc = pc]
<1>1. lane[l] \in LaneState
  BY TypeParts DEF LaneTypeOK
<1>2. a.pc = pc
  BY <1>1 DEF LaneState
<1>3. ~Owns(a)
  BY <1>2 DEF Owns
<1>4. lane' = [lane EXCEPT ![l] = a]
  BY DEF Goto
<1>. QED BY <1>3, <1>4 DEF Disowns

LEMMA DoneDisowns ==
    ASSUME NEW l, Done(l)
    PROVE  Disowns(l)
<1>1. ~Owns(IdleLane)
  BY DEF Owns, IdleLane, OwnerPCs
<1>. QED BY <1>1 DEF Done, Disowns

LEMMA PatchDisowns ==
    ASSUME TypeInv, NEW l \in Lanes, NEW columns, NEW row, NEW ret, ret # "authorize",
           Patch(l, columns, row, ret)
    PROVE  Disowns(l)
<1>. DEFINE a == Patched(l, columns, row, ret)
<1>1. lane[l] \in LaneState
  BY TypeParts DEF LaneTypeOK
<1>2. a.pc = "read" /\ a.ret = ret
  BY <1>1 DEF LaneState, Patched
<1>3. ~Owns(a)
  BY <1>2 DEF Owns, OwnerPCs
<1>. QED BY <1>3 DEF Patch, Disowns

\* An exception, or the end of an updateRuntime.
LEMMA ResumeDisowns ==
    ASSUME TypeInv, NEW l \in Lanes, NEW pc \in PCs \ (OwnerPCs \cup {"read", "write"}),
           lane' = [lane EXCEPT ![l] = [lane[l] EXCEPT !.pc = pc, !.ret = "idle",
                                                       !.columns = {}, !.row = NoRow]]
    PROVE  Disowns(l)
<1>. DEFINE a == [lane[l] EXCEPT !.pc = pc, !.ret = "idle", !.columns = {}, !.row = NoRow]
<1>1. lane[l] \in LaneState
  BY TypeParts DEF LaneTypeOK
<1>2. a.pc = pc
  BY <1>1 DEF LaneState
<1>3. ~Owns(a)
  BY <1>2 DEF Owns
<1>. QED BY <1>3 DEF Disowns

\* The observed state is written and the dispatch entered afterwards.
LEMMA EnteringDisowns ==
    ASSUME TypeInv, NEW l \in Lanes, NEW columns, NEW row, NEW k,
           lane' = [lane EXCEPT ![l] = [Patched(l, columns, row, "enter") EXCEPT !.key = k]]
    PROVE  Disowns(l)
<1>. DEFINE a == [Patched(l, columns, row, "enter") EXCEPT !.key = k]
<1>1. lane[l] \in LaneState
  BY TypeParts DEF LaneTypeOK
<1>2. a.pc = "read" /\ a.ret = "enter"
  BY <1>1 DEF LaneState, Patched
<1>3. ~Owns(a)
  BY <1>2 DEF Owns, OwnerPCs
<1>. QED BY <1>3 DEF Disowns

LEMMA FreshDebounceDisowns ==
    ASSUME TypeInv, NEW l \in Lanes, FreshDebounce(l)
    PROVE  Disowns(l)
<1>. DEFINE r == lane[l].rule
            status == runtime[r].observed.status
            row == [NoRow EXCEPT !.observed = ObservedStateWithPending(status, NoPending)]
            k == BuildStatusDebounceRunKey(r, runtime[r].observed.pending.since, status)
<1>1. CASE Observe(l, status, NoPending, NoTime, "finally")
  BY <1>1, PatchDisowns DEF Observe
<1>2. CASE Goto(l, "finally")
  BY <1>2, GotoDisowns DEF PCs, OwnerPCs
<1>3. CASE lane' = [lane EXCEPT ![l] =
             [Patched(l, {"observed", "nextRunAt"}, row, "enter") EXCEPT !.key = k]]
  BY <1>3, EnteringDisowns
<1>. QED BY <1>1, <1>2, <1>3, Zenon DEF FreshDebounce

LEMMA FreshEventDisowns ==
    ASSUME TypeInv, NEW l \in Lanes, FreshEvent(l)
    PROVE  Disowns(l)
<1>. DEFINE r == lane[l].rule
            e == lane[l].event
            pending == runtime[r].observed.pending
            started == [from |-> runtime[r].observed.status, to |-> e.status,
                        since |-> lane[l].now, svc |-> e.svc]
            row == [NoRow EXCEPT !.observed = ObservedStateWithPending(e.status, NoPending)]
            k == BuildEventRunKey(r, e)
<1>1. CASE Observe(l, e.status, NoPending, NoTime, "finally")
  BY <1>1, PatchDisowns DEF Observe
<1>2. CASE lane' = [lane EXCEPT ![l] =
             [Patched(l, {"observed", "nextRunAt"}, row, "enter") EXCEPT !.key = k]]
  BY <1>2, EnteringDisowns
<1>3. CASE Observe(l, e.status, started, lane[l].now + Config[r].forDuration, "finally")
  BY <1>3, PatchDisowns DEF Observe
<1>4. CASE Patch(l, {"observed"},
                 [NoRow EXCEPT !.observed = ObservedStateWithPending(e.status, pending)],
                 "finally")
  BY <1>4, PatchDisowns
<1>. QED BY <1>1, <1>2, <1>3, <1>4, Zenon DEF FreshEvent
-----------------------------------------------------------------------------
\* The steps up to the insertion, and those after the dispatch.
LEMMA BeforeInsert ==
    ASSUME TypeInv, OwnInv, NEW l \in Lanes,
           \/ GetRule(l) \/ GetRuntimeOfSchedule(l) \/ GetRuntimeOfDebounce(l)
           \/ GetRuntimeOfEvent(l) \/ Preclaim(l) \/ FreshDebounce(l) \/ FreshEvent(l)
           \/ Enter(l) \/ Claim(l)
    PROVE  OwnInv'
<1>1. UNCHANGED <<runs, calls>>
  BY DEF GetRule, GetRuntimeOfSchedule, GetRuntimeOfDebounce, GetRuntimeOfEvent,
         Preclaim, FreshDebounce, FreshEvent, Enter, Claim, storeVars
<1>2. SUFFICES Disowns(l)
  BY <1>1, <1>2, Disowned
<1>3. lane[l] \in LaneState
  BY TypeParts DEF LaneTypeOK
<1>4. CASE GetRule(l)
  BY <1>4, GotoDisowns, DoneDisowns, PatchDisowns DEF GetRule, PCs, OwnerPCs
<1>5. CASE GetRuntimeOfSchedule(l)
  <2>. DEFINE k == BuildScheduleRunKey(lane[l].rule, runtime[lane[l].rule].nextRunAt)
              a == [lane[l] EXCEPT !.pc = "claim", !.key = k]
  <2>1. Done(l) \/ lane' = [lane EXCEPT ![l].pc = "claim", ![l].key = k]
    BY <1>5 DEF GetRuntimeOfSchedule
  <2>. HIDE DEF k
  <2>2. ~Owns(a)
    BY <1>3 DEF Owns, OwnerPCs, LaneState
  <2>3. lane' = [lane EXCEPT ![l].pc = "claim", ![l].key = k] => lane' = [lane EXCEPT ![l] = a]
    OBVIOUS
  <2>. QED BY <2>1, <2>2, <2>3, DoneDisowns DEF Disowns
<1>6. CASE GetRuntimeOfDebounce(l)
  BY <1>6, GotoDisowns, DoneDisowns DEF GetRuntimeOfDebounce, PCs, OwnerPCs
<1>7. CASE GetRuntimeOfEvent(l)
  <2>. DEFINE k == BuildEventRunKey(lane[l].rule, lane[l].event)
              a == [lane[l] EXCEPT !.pc = "preclaim", !.now = clock]
              b == [lane[l] EXCEPT !.pc = "claim", !.now = clock, !.key = k]
  <2>1. \/ Done(l)
        \/ lane' = [lane EXCEPT ![l].pc = "preclaim", ![l].now = clock]
        \/ lane' = [lane EXCEPT ![l].pc = "claim", ![l].now = clock, ![l].key = k]
    BY <1>7 DEF GetRuntimeOfEvent
  <2>. HIDE DEF k
  <2>2. ~Owns(a) /\ ~Owns(b)
    BY <1>3 DEF Owns, OwnerPCs, LaneState
  <2>3. lane' = [lane EXCEPT ![l].pc = "preclaim", ![l].now = clock]
        => lane' = [lane EXCEPT ![l] = a]
    OBVIOUS
  <2>4. lane' = [lane EXCEPT ![l].pc = "claim", ![l].now = clock, ![l].key = k]
        => lane' = [lane EXCEPT ![l] = b]
    OBVIOUS
  <2>. QED BY <2>1, <2>2, <2>3, <2>4, DoneDisowns DEF Disowns
<1>8. CASE Preclaim(l)
  <2>1. Done(l) \/ Goto(l, "finally") \/ Goto(l, "fresh")
    BY <1>8 DEF Preclaim
  <2>. QED BY <2>1, GotoDisowns, DoneDisowns DEF PCs, OwnerPCs
<1>9. CASE FreshDebounce(l)
  BY <1>9, FreshDebounceDisowns
<1>10. CASE FreshEvent(l)
  BY <1>10, FreshEventDisowns
<1>11. CASE Enter(l)
  <2>1. Goto(l, "finally") \/ Goto(l, "insert")
    BY <1>11 DEF Enter
  <2>. QED BY <2>1, GotoDisowns DEF PCs, OwnerPCs
<1>12. CASE Claim(l)
  <2>1. Done(l) \/ Goto(l, "insert")
    BY <1>12 DEF Claim
  <2>. QED BY <2>1, GotoDisowns, DoneDisowns DEF PCs, OwnerPCs
<1>. QED BY <1>4, <1>5, <1>6, <1>7, <1>8, <1>9, <1>10, <1>11, <1>12

LEMMA AfterDispatch ==
    ASSUME TypeInv, OwnInv, NEW l \in Lanes,
           \/ Conflict(l) \/ FinishStale(l) \/ DispatchReturns(l) \/ Finish(l)
           \/ Release(l) \/ Finally(l)
    PROVE  OwnInv'
<1>. USE TypeParts
<1>1. UNCHANGED calls
  BY DEF Conflict, FinishStale, DispatchReturns, Finish, Release, Finally
<1>2. DOMAIN runs \subseteq DOMAIN runs'
  BY DEF Conflict, FinishStale, DispatchReturns, Finish, Release, Finally,
         FinishRun, storeVars
<1>3. SUFFICES Disowns(l)
  BY <1>1, <1>2, <1>3, Disowned
<1>4. lane[l] \in LaneState
  BY DEF LaneTypeOK
<1>5. ASSUME NEW ret, ret = "release", Advance(l, ret) PROVE Disowns(l)
  <2>1. \/ Patch(l, {"nextRunAt"},
                 [NoRow EXCEPT !.nextRunAt =
                    NextScheduleRunAt(lane[l].rule, lane[l].now)], "release")
        \/ Goto(l, "release")
    BY <1>5 DEF Advance
  <2>. QED BY <2>1, GotoDisowns, PatchDisowns DEF PCs, OwnerPCs
<1>6. ASSUME Return(l) PROVE Disowns(l)
  BY <1>6, GotoDisowns, DoneDisowns DEF Return, PCs, OwnerPCs
<1>7. CASE Conflict(l)
  <2>1. Goto(l, "finishStale") \/ Advance(l, "release")
    BY <1>7 DEF Conflict
  <2>. QED BY <1>5, <2>1, GotoDisowns DEF PCs, OwnerPCs
<1>8. CASE FinishStale(l)
  BY <1>5, <1>8 DEF FinishStale
<1>9. CASE DispatchReturns(l)
  <2>1. PICK s : lane' = [lane EXCEPT ![l] = [Completing(l, s) EXCEPT !.sent = TRUE]]
    BY <1>9 DEF DispatchReturns
  <2>. DEFINE a == [Completing(l, s) EXCEPT !.sent = TRUE]
  <2>2. a.pc = "finish"
    BY <1>4 DEF Completing, LaneState
  <2>3. ~Owns(a)
    BY <2>2 DEF Owns, OwnerPCs
  <2>. QED BY <2>1, <2>3 DEF Disowns
<1>10. CASE Finish(l)
  BY <1>10, PatchDisowns DEF Finish
<1>11. CASE Release(l)
  BY <1>6, <1>11 DEF Release
<1>12. CASE Finally(l)
  BY <1>12, DoneDisowns DEF Finally
<1>. QED BY <1>7, <1>8, <1>9, <1>10, <1>11, <1>12

LEMMA Failures ==
    ASSUME TypeInv, OwnInv, NEW l \in Lanes, LaneFails(l)
    PROVE  OwnInv'
<1>1. UNCHANGED <<runs, calls>>
  BY DEF LaneFails, AdvanceFails, CompleteFails, ThrowsInTick, ThrowsInEvent, storeVars
<1>2. SUFFICES Disowns(l)
  BY <1>1, <1>2, Disowned
<1>3. CASE AdvanceFails(l)
  BY <1>3, ResumeDisowns DEF AdvanceFails, PCs, OwnerPCs
<1>4. CASE CompleteFails(l)
  <2>1. Goto(l, "finally") \/ Done(l)
    BY <1>4 DEF CompleteFails, Return
  <2>. QED BY <2>1, GotoDisowns, DoneDisowns DEF PCs, OwnerPCs
<1>5. CASE Unwind(l)
  <2>1. \/ Done(l)
        \/ lane' = [lane EXCEPT ![l] = [lane[l] EXCEPT !.pc = "finally", !.ret = "idle",
                                                       !.columns = {}, !.row = NoRow]]
    BY <1>5 DEF Unwind
  <2>2. "finally" \in PCs \ (OwnerPCs \cup {"read", "write"})
    BY DEF PCs, OwnerPCs
  <2>. QED BY <2>1, <2>2, ResumeDisowns, DoneDisowns
<1>. QED BY <1>3, <1>4, <1>5 DEF LaneFails, ThrowsInTick, ThrowsInEvent
-----------------------------------------------------------------------------
\* The steps of an owner, from the insertion to the dispatch.
LEMMA UpdatesRuntime ==
    ASSUME TypeInv, OwnInv, NEW l \in Lanes, Read(l) \/ Write(l)
    PROVE  OwnInv'
<1>. DEFINE row == MergedRow(lane[l].rule, lane[l].columns, lane[l].row)
            a == [lane[l] EXCEPT !.pc = "write", !.row = row]
            b == [lane[l] EXCEPT !.pc = lane[l].ret, !.ret = "idle",
                                 !.columns = {}, !.row = NoRow]
<1>. USE TypeParts
<1>1. UNCHANGED <<runs, calls>>
  BY DEF Read, Write, storeVars
<1>2. lane[l] \in LaneState /\ lane[l].ret \in Returns
  BY LaneFields
<1>3. CASE Read(l)
  <2>1. lane' = [lane EXCEPT ![l] = a] /\ lane[l].pc = "read"
    BY <1>3 DEF Read
  <2>. HIDE DEF row
  <2>2. a.pc = "write" /\ a.ret = lane[l].ret /\ a.key = lane[l].key
    BY <1>2 DEF LaneState
  <2>3. Owns(a) => Owns(lane[l])
    BY <2>1, <2>2 DEF Owns, OwnerPCs
  <2>. HIDE DEF a
  <2>4. \A x \in Lanes : lane'[x] = IF x = l THEN a ELSE lane[x]
    BY <2>1 DEF LaneTypeOK
  <2>5. \A x \in Lanes : Owns(lane'[x]) => Owns(lane[x]) /\ lane'[x].key = lane[x].key
    BY <2>2, <2>3, <2>4
  <2>. QED BY <1>1, <2>5, OwnershipKept
<1>4. CASE Write(l) /\ lane[l].ret = "idle"
  BY <1>1, <1>4, DoneDisowns, Disowned DEF Write
<1>5. CASE Write(l) /\ lane[l].ret # "idle"
  <2>1. lane' = [lane EXCEPT ![l] = b] /\ lane[l].pc = "write"
    BY <1>5 DEF Write
  <2>2. b.pc = lane[l].ret /\ b.ret = "idle" /\ b.key = lane[l].key
    BY <1>2 DEF LaneState
  <2>3. Owns(b) => Owns(lane[l])
    BY <1>2, <2>1, <2>2 DEF Owns, OwnerPCs, Returns
  <2>. HIDE DEF b
  <2>4. \A x \in Lanes : lane'[x] = IF x = l THEN b ELSE lane[x]
    BY <2>1 DEF LaneTypeOK
  <2>5. \A x \in Lanes : Owns(lane'[x]) => Owns(lane[x]) /\ lane'[x].key = lane[x].key
    BY <2>2, <2>3, <2>4
  <2>. QED BY <1>1, <2>5, OwnershipKept
<1>. QED BY <1>3, <1>4, <1>5

LEMMA Authorizes ==
    ASSUME TypeInv, OwnInv, NEW l \in Lanes, Authorize(l)
    PROVE  OwnInv'
<1>. DEFINE a == [lane[l] EXCEPT !.pc = "dispatch"]
<1>. USE TypeParts
<1>1. UNCHANGED <<runs, calls>> /\ lane[l].pc = "authorize" /\ lane[l] \in LaneState
  BY DEF Authorize, storeVars, LaneTypeOK
<1>2. ASSUME NEW s, lane' = [lane EXCEPT ![l] = Completing(l, s)]
      PROVE  OwnInv'
  <2>1. Completing(l, s).pc = "finish"
    BY <1>1 DEF Completing, LaneState
  <2>2. ~Owns(Completing(l, s))
    BY <2>1 DEF Owns, OwnerPCs
  <2>3. Disowns(l)
    BY <1>2, <2>2 DEF Disowns
  <2>. QED BY <1>1, <2>3, Disowned
<1>3. ASSUME Goto(l, "dispatch")
      PROVE  OwnInv'
  <2>1. lane' = [lane EXCEPT ![l] = a]
    BY <1>3 DEF Goto
  <2>2. a.key = lane[l].key
    BY <1>1 DEF LaneState
  <2>. HIDE DEF a
  <2>3. \A x \in Lanes : lane'[x] = IF x = l THEN a ELSE lane[x]
    BY <2>1 DEF LaneTypeOK
  <2>4. Owns(lane[l])
    BY <1>1 DEF Owns, OwnerPCs
  <2>5. \A x \in Lanes : Owns(lane'[x]) => Owns(lane[x]) /\ lane'[x].key = lane[x].key
    BY <2>2, <2>3, <2>4
  <2>. QED BY <1>1, <2>5, OwnershipKept
<1>4. \/ lane' = [lane EXCEPT ![l] = Completing(l, "denied")]
      \/ lane' = [lane EXCEPT ![l] = Completing(l, "skipped")]
      \/ lane' = [lane EXCEPT ![l] = Completing(l, "unknown")]
      \/ Goto(l, "dispatch")
  BY Zenon DEF Authorize
<1>. QED BY <1>2, <1>3, <1>4

LEMMA Inserts ==
    ASSUME TypeInv, OwnInv, NEW l \in Lanes, Insert(l)
    PROVE  OwnInv'
<1>. DEFINE k == lane[l].key
            a == lane'[l]
<1>. USE TypeParts
<1>1. UNCHANGED calls
  BY DEF Insert
<1>2. lane[l] \in LaneState
  BY DEF LaneTypeOK
<1>3. CASE Goto(l, "conflict") /\ UNCHANGED runs
  <2>1. Disowns(l)
    BY <1>3, GotoDisowns DEF PCs, OwnerPCs
  <2>. QED BY <1>1, <1>3, <2>1, Disowned
<1>4. CASE /\ CanInsertRun(k) /\ InsertRun(k, lane[l].now, WorkerOf(l))
           /\ Advance(l, "authorize")
  <2>1. k \notin DOMAIN runs /\ DOMAIN runs' = DOMAIN runs \cup {k}
    BY <1>4 DEF CanInsertRun, InsertRun
  <2>2. /\ a.key = k
        /\ \A x \in Lanes : x # l => lane'[x] = lane[x]
    <3>1. \/ lane' = [lane EXCEPT ![l] = Patched(l, {"nextRunAt"},
                 [NoRow EXCEPT !.nextRunAt =
                    NextScheduleRunAt(lane[l].rule, lane[l].now)], "authorize")]
          \/ lane' = [lane EXCEPT ![l].pc = "authorize"]
      BY <1>4 DEF Advance, Patch, Goto
    <3>. QED BY <1>2, <3>1 DEF LaneTypeOK, LaneState, Patched
  <2>. HIDE DEF a
  <2>3. \A x \in Lanes : x # l /\ Owns(lane'[x]) => lane'[x].key \in DOMAIN runs \ DOMAIN calls
    BY <2>2 DEF OwnInv, OwnedIsNew
  <2>4. (DOMAIN calls \subseteq DOMAIN runs)' /\ AtMostOnce'
    BY <1>1, <2>1 DEF OwnInv, AtMostOnce
  <2>5. OwnedIsNew'
    <3>1. a.key \in DOMAIN runs' \ DOMAIN calls'
      BY <1>1, <2>1, <2>2 DEF OwnInv
    <3>. QED BY <1>1, <2>1, <2>3, <3>1 DEF OwnedIsNew, a
  <2>6. OwnersDiffer'
    <3>1. ASSUME NEW x \in Lanes, NEW y \in Lanes, x # y, Owns(lane'[x]), Owns(lane'[y])
          PROVE  lane'[x].key # lane'[y].key
      <4>1. CASE x = l
        BY <2>1, <2>2, <2>3, <3>1, <4>1 DEF a
      <4>2. CASE y = l
        BY <2>1, <2>2, <2>3, <3>1, <4>2 DEF a
      <4>3. CASE x # l /\ y # l
        BY <2>2, <3>1, <4>3 DEF OwnInv, OwnersDiffer
      <4>. QED BY <4>1, <4>2, <4>3
    <3>. QED BY <3>1 DEF OwnersDiffer
  <2>. QED BY <2>4, <2>5, <2>6 DEF OwnInv
<1>. QED BY <1>3, <1>4 DEF Insert

LEMMA Dispatches ==
    ASSUME TypeInv, OwnInv, NEW l \in Lanes, Dispatch(l)
    PROVE  OwnInv'
<1>. DEFINE k == lane[l].key
            called == IF k \in DOMAIN calls THEN calls[k] + 1 ELSE 1
            a == [lane[l] EXCEPT !.pc = "acting"]
<1>. USE TypeParts
<1>1. /\ UNCHANGED runs /\ lane[l].pc = "dispatch" /\ lane[l] \in LaneState
      /\ lane' = [lane EXCEPT ![l] = a]
  BY DEF Dispatch, storeVars, Goto, LaneTypeOK
<1>2. Owns(lane[l])
  BY <1>1 DEF Owns, OwnerPCs
<1>3. k \in DOMAIN runs \ DOMAIN calls
  BY <1>2 DEF OwnInv, OwnedIsNew
<1>4. called = 1
  BY <1>3
<1>. HIDE DEF called
<1>5. calls' = [x \in DOMAIN calls \cup {k} |-> IF x # k THEN calls[x] ELSE called]
  BY Zenon DEF Dispatch, called
<1>6. ~Owns(a)
  BY <1>1 DEF Owns, OwnerPCs, LaneState
<1>7. \A x \in Lanes : Owns(lane'[x]) => x # l /\ lane'[x] = lane[x]
  BY <1>1, <1>6 DEF LaneTypeOK
<1>8. (DOMAIN calls \subseteq DOMAIN runs)' /\ AtMostOnce'
  BY <1>1, <1>3, <1>4, <1>5 DEF OwnInv, AtMostOnce
<1>9. OwnedIsNew'
  <2>1. ASSUME NEW x \in Lanes, Owns(lane'[x])
        PROVE  lane'[x].key \in DOMAIN runs' \ DOMAIN calls'
    <3>1. x # l /\ lane'[x] = lane[x]
      BY <1>7, <2>1
    <3>2. lane[x].key \in DOMAIN runs \ DOMAIN calls
      BY <2>1, <3>1 DEF OwnInv, OwnedIsNew
    <3>3. lane[x].key # k
      BY <1>2, <2>1, <3>1 DEF OwnInv, OwnersDiffer
    <3>. QED BY <1>1, <1>5, <3>1, <3>2, <3>3
  <2>. QED BY <2>1 DEF OwnedIsNew
<1>10. OwnersDiffer'
  BY <1>7 DEF OwnInv, OwnersDiffer
<1>. QED BY <1>8, <1>9, <1>10 DEF OwnInv
-----------------------------------------------------------------------------
LEMMA LaneStepOwn ==
    ASSUME TypeInv, OwnInv, NEW l \in Lanes, LaneStep(l) \/ LaneFails(l)
    PROVE  OwnInv'
BY BeforeInsert, AfterDispatch, Failures, UpdatesRuntime, Authorizes, Inserts, Dispatches
   DEF LaneStep

\* Neither lanes nor runs nor calls change.
LEMMA OwnFrame ==
    ASSUME OwnInv, UNCHANGED <<runs, calls, lane>>
    PROVE  OwnInv'
BY OwnershipKept

LEMMA TakesOwn ==
    ASSUME TypeInv, OwnInv,
           \/ \E l \in TickLanes : TakeRule(l)
           \/ \E l \in EventLanes : TakeEvent(l)
    PROVE  OwnInv'
<1>1. ASSUME NEW l \in TickLanes, TakeRule(l) PROVE OwnInv'
  <2>1. PICK r : lane' = [lane EXCEPT
             ![l] = [IdleLane EXCEPT !.pc = "getRule", !.task = tick[WorkerOf(l)].phase,
                                     !.rule = r, !.now = tick[WorkerOf(l)].now]]
    BY <1>1 DEF TakeRule
  <2>. DEFINE a == [IdleLane EXCEPT !.pc = "getRule", !.task = tick[WorkerOf(l)].phase,
                                    !.rule = r, !.now = tick[WorkerOf(l)].now]
  <2>2. ~Owns(a)
    BY DEF Owns, OwnerPCs, IdleLane
  <2>3. l \in Lanes /\ Disowns(l)
    BY <2>1, <2>2 DEF Disowns, TickLanes, Lanes
  <2>4. UNCHANGED <<runs, calls>>
    BY <1>1 DEF TakeRule, tickFrame, storeVars
  <2>. QED BY <2>3, <2>4, Disowned
<1>2. ASSUME NEW l \in EventLanes, TakeEvent(l) PROVE OwnInv'
  <2>1. PICK p : lane' = [lane EXCEPT
             ![l] = [IdleLane EXCEPT !.pc = "getRule", !.task = "event",
                                     !.rule = p[2], !.event = p[1]]]
    BY <1>2 DEF TakeEvent
  <2>. DEFINE a == [IdleLane EXCEPT !.pc = "getRule", !.task = "event",
                                    !.rule = p[2], !.event = p[1]]
  <2>2. ~Owns(a)
    BY DEF Owns, OwnerPCs, IdleLane
  <2>3. l \in Lanes /\ Disowns(l)
    BY <2>1, <2>2 DEF Disowns, EventLanes, Lanes
  <2>4. UNCHANGED <<runs, calls>>
    BY <1>2 DEF TakeEvent, envVars, storeVars
  <2>. QED BY <2>3, <2>4, Disowned
<1>. QED BY <1>1, <1>2

LEMMA DieOwn ==
    ASSUME TypeInv, OwnInv, NEW w, NEW how, Die(w, how)
    PROVE  OwnInv'
<1>1. UNCHANGED <<runs, calls>>
  BY DEF Die, storeVars, envVars
<1>2. ~Owns(IdleLane)
  BY DEF Owns, OwnerPCs, IdleLane
<1>3. \A l \in Lanes : Owns(lane'[l]) => Owns(lane[l]) /\ lane'[l].key = lane[l].key
  BY <1>2 DEF Die
<1>. QED BY <1>1, <1>3, OwnershipKept

LEMMA WorkerStepOwn ==
    ASSUME TypeInv, OwnInv, NEW w \in Workers, WorkerStep(w)
    PROVE  OwnInv'
<1>1. CASE Start(w) \/ Stop(w)
  BY <1>1, OwnFrame DEF Start, Stop, storeVars, envVars
<1>2. CASE Exit(w) \/ Crash(w)
  BY <1>2, DieOwn DEF Exit, Crash
<1>3. CASE Sweep(w)
  <2>1. DOMAIN runs \subseteq DOMAIN runs' /\ UNCHANGED <<calls, lane>>
    BY <1>3 DEF Sweep, MarkStaleRunsUnknown
  <2>. QED BY <2>1, OwnershipKept
<1>4. CASE TickStep(w) /\ ~Sweep(w)
  BY <1>4, OwnFrame
     DEF TickStep, TickStart, ListUnscheduled, SeedStops, ListDueSchedule,
         ListDueStatusDebounce, TickEnd, tickFrame, storeVars
<1>5. CASE TickThrows(w)
  BY <1>5, OwnFrame DEF TickThrows, storeVars
<1>6. CASE HandleEvent(w) \/ HandleEventThrows(w)
  BY <1>6, OwnFrame DEF HandleEvent, HandleEventThrows, storeVars, envVars
<1>. QED BY <1>1, <1>2, <1>3, <1>4, <1>5, <1>6 DEF WorkerStep

LEMMA EnvironmentOwn ==
    ASSUME TypeInv, OwnInv, Environment
    PROVE  OwnInv'
BY OwnFrame DEF Environment, ClockTick, Publish, AdminRule, AdminRuntime,
                storeVars, workerVars

LEMMA InitOwn == Init => OwnInv
<1>1. ~Owns(IdleLane)
  BY DEF Owns, OwnerPCs, IdleLane
<1>. QED BY <1>1 DEF Init, OwnInv, AtMostOnce, OwnedIsNew, OwnersDiffer

LEMMA NextOwn ==
    ASSUME TypeInv, OwnInv, [Next]_vars
    PROVE  OwnInv'
<1>1. CASE UNCHANGED vars
  BY <1>1, OwnFrame DEF vars
<1>. QED BY <1>1, LaneStepOwn, TakesOwn, WorkerStepOwn, EnvironmentOwn DEF Next

\* Dispatched runs were inserted before, and an activation that is about to
\* dispatch is alone in doing so.
THEOREM Ownership == Spec => []OwnInv
BY TypeInvariant, InitOwn, NextOwn, PTL DEF Spec

\* The promise of the documentation: whatever overlaps, crashes or throws, the
\* action of a run is handed to the dispatcher once at most.
THEOREM DispatchedAtMostOnce == Spec => []AtMostOnce
<1>1. OwnInv => AtMostOnce
  BY DEF OwnInv
<1>. QED BY <1>1, Ownership, PTL
-----------------------------------------------------------------------------
(***************************************************************************)
(* The runs are a ledger: what complete writes of a dispatched action is   *)
(* written of a run whose dispatcher call was made.                        *)
(***************************************************************************)
Reports(a) ==
    \/ a.pc = "acting"
    \/ a.pc = "finish" /\ a.status \notin {"denied", "skipped", "unknown"}

ReportsCalled ==
    \A l \in Lanes :
        /\ Reports(lane[l]) => lane[l].key \in DOMAIN calls
        /\ lane[l].pc = "finish" => lane[l].status \in TerminalStatuses

LEMMA LaneReports ==
    ASSUME TypeInv, ReportsCalled, NEW l \in Lanes, LaneStep(l) \/ LaneFails(l)
    PROVE  ReportsCalled'
<1>. USE DEF Becomes
<1>1. PICK a : Becomes(l, a)
  BY LaneBecomes
<1>2. DOMAIN calls \subseteq DOMAIN calls'
  <2>1. CASE Dispatch(l)
    BY <2>1 DEF Dispatch
  <2>2. CASE ~Dispatch(l)
    BY <2>2 DEF LaneStep, LaneFails, GetRule, GetRuntimeOfSchedule, GetRuntimeOfDebounce,
       GetRuntimeOfEvent, Preclaim, FreshDebounce, FreshEvent, Enter, Read, Write, Claim, Insert,
       Conflict, FinishStale, Authorize, DispatchReturns, Finish, Release, Finally,
       AdvanceFails, CompleteFails, ThrowsInTick, ThrowsInEvent
  <2>. QED BY <2>1, <2>2
<1>3. ASSUME NEW x \in Lanes, x # l
      PROVE  /\ Reports(lane'[x]) => lane'[x].key \in DOMAIN calls'
             /\ lane'[x].pc = "finish" => lane'[x].status \in TerminalStatuses
  BY <1>1, <1>2, <1>3 DEF ReportsCalled
<1>4. /\ Reports(a) => a.key \in DOMAIN calls'
      /\ a.pc = "finish" => a.status \in TerminalStatuses
  <2>1. CASE a = IdleLane
    BY <2>1 DEF IdleLane, Reports
  <2>2. CASE LaneFails(l) /\ LeftBy(lane[l], a)
    BY <2>2 DEF LeftBy, Reports
  <2>3. CASE LaneStep(l) /\ MovesOn(lane[l], a)
    <3>1. lane[l].ret \in Returns
      BY TypeParts, LaneFields
    <3>2. CASE a.pc = "acting"
      <4>1. lane[l].pc = "dispatch" /\ a.key = lane[l].key
        BY <2>3, <3>1, <3>2 DEF MovesOn, Stage, Flow, Returns
      <4>2. Dispatch(l)
        BY <2>3, <4>1, StepsBegin DEF LaneStep
      <4>. QED BY <3>2, <4>1, <4>2 DEF Dispatch
    <3>3. CASE a.pc = "finish"
      <4>1. \/ a.status \in {"denied", "skipped", "unknown"}
            \/ lane[l].pc = "acting" /\ a.key = lane[l].key /\ a.status \in Outcomes
        BY <2>3, <3>1, <3>3 DEF MovesOn, Stage, Flow, Returns
      <4>2. lane[l].pc = "acting" => lane[l].key \in DOMAIN calls
        BY DEF ReportsCalled, Reports
      <4>. QED BY <1>2, <3>3, <4>1, <4>2, SchedulerAssumption DEF Reports, TerminalStatuses
    <3>. QED BY <3>2, <3>3 DEF Reports
  <2>. QED BY <1>1, <2>1, <2>2, <2>3
<1>. QED BY <1>1, <1>3, <1>4 DEF ReportsCalled

\* Steps that start or end activations, or touch none.
LEMMA NextReports ==
    ASSUME TypeInv, ReportsCalled, [Next]_vars
    PROVE  ReportsCalled'
<1>1. CASE \E l \in Lanes : LaneStep(l) \/ LaneFails(l)
  BY <1>1, LaneReports
<1>2. CASE \/ \E l \in TickLanes : TakeRule(l)
           \/ \E l \in EventLanes : TakeEvent(l)
  <2>1. PICK l : (TakeRule(l) \/ TakeEvent(l)) /\ (l \in TickLanes \/ l \in EventLanes)
    BY <1>2
  <2>2. UNCHANGED calls /\ \A x \in Lanes : lane'[x].pc # "getRule" => lane'[x] = lane[x]
    BY <2>1, TakesLane
  <2>3. \A x \in Lanes : Reports(lane'[x]) \/ lane'[x].pc = "finish" => lane'[x].pc # "getRule"
    BY DEF Reports
  <2>. QED BY <2>2, <2>3 DEF ReportsCalled
<1>3. CASE \E w \in Workers : WorkerStep(w)
  <2>1. /\ UNCHANGED calls
        /\ \A x \in Lanes : lane'[x] = IdleLane \/ lane'[x] = lane[x]
    BY <1>3, WorkerStepLane
  <2>2. ~Reports(IdleLane) /\ IdleLane.pc # "finish"
    BY DEF Reports, IdleLane
  <2>. QED BY <2>1, <2>2 DEF ReportsCalled
<1>4. CASE Environment \/ UNCHANGED vars
  BY <1>4, EnvironmentLane DEF ReportsCalled, vars
<1>. QED BY <1>1, <1>2, <1>3, <1>4 DEF Next

LEMMA InitReports == Init => ReportsCalled
BY DEF Init, ReportsCalled, Reports, IdleLane
-----------------------------------------------------------------------------
\* An insertion claims a run, finishRun and the sweep settle runs, dispatch sends.
LEMMA LaneStepLedger ==
    ASSUME TypeInv, OwnInv, ReportsCalled, NEW l \in Lanes, LaneStep(l)
    PROVE  [Ledger!LedgerNext]_(Ledger!ledgerVars)
<1>. DEFINE book == [k \in DOMAIN runs |-> runs[k].status]
            key == lane[l].key
<1>1. ASSUME UNCHANGED <<runs, calls>>
      PROVE  [Ledger!LedgerNext]_(Ledger!ledgerVars)
  BY <1>1 DEF Ledger!ledgerVars
<1>2. ASSUME NEW status, FinishRun(key, status), UNCHANGED calls, status \in TerminalStatuses,
             status \in {"succeeded", "failed"} => key \in DOMAIN calls
      PROVE  [Ledger!LedgerNext]_(Ledger!ledgerVars)
  <2>1. DOMAIN runs' = DOMAIN runs
    BY <1>2 DEF FinishRun
  <2>2. ASSUME NEW k \in DOMAIN runs, runs'[k].status # runs[k].status
        PROVE  k = key /\ runs[k].status = "running" /\ runs'[k].status = status
    <3>1. runs[k] \in Run
      BY TypeParts DEF StoreTypeOK
    <3>. QED BY <1>2, <2>2, <3>1 DEF FinishRun, Run
  <2>3. Ledger!SettleRuns
    BY <1>2, <2>1, <2>2 DEF Ledger!SettleRuns, Ledger!Settled, Ledger!DispatchedOnly, TerminalStatuses
  <2>. QED BY <2>3 DEF Ledger!LedgerNext
<1>3. CASE Insert(l)
  <2>1. CASE UNCHANGED runs
    BY <1>1, <1>3, <2>1 DEF Insert
  <2>2. CASE CanInsertRun(key) /\ InsertRun(key, lane[l].now, WorkerOf(l))
    <3>1. /\ key \in DOMAIN runs' \ DOMAIN runs
          /\ DOMAIN runs' = DOMAIN runs \cup {key}
          /\ \A k \in DOMAIN runs' : runs'[k].status = IF k = key THEN "running" ELSE runs[k].status
      BY <2>2 DEF CanInsertRun, InsertRun
    <3>2. UNCHANGED calls
      BY <1>3 DEF Insert
    <3>3. Ledger!ClaimRun
      BY <3>1, <3>2 DEF Ledger!ClaimRun
    <3>. QED BY <3>3 DEF Ledger!LedgerNext
  <2>. QED BY <1>3, <2>1, <2>2 DEF Insert
<1>4. CASE FinishStale(l)
  BY <1>2, <1>4 DEF FinishStale, TerminalStatuses
<1>5. CASE Finish(l)
  <2>1. lane[l].pc = "finish" /\ FinishRun(key, lane[l].status) /\ UNCHANGED calls
    BY <1>5 DEF Finish
  <2>2. /\ lane[l].status \in TerminalStatuses
        /\ lane[l].status \in {"succeeded", "failed"} => key \in DOMAIN calls
    BY <2>1 DEF ReportsCalled, Reports
  <2>. QED BY <1>2, <2>1, <2>2
<1>6. CASE Dispatch(l)
  <2>1. Owns(lane[l]) /\ UNCHANGED runs
    BY <1>6 DEF Dispatch, Owns, OwnerPCs, storeVars
  <2>2. key \in DOMAIN runs \ DOMAIN calls
    BY <2>1 DEF OwnInv, OwnedIsNew
  <2>3. calls' = [x \in DOMAIN calls \cup {key} |-> IF x = key THEN 1 ELSE calls[x]]
    BY <1>6, <2>2 DEF Dispatch
  <2>4. Ledger!DispatchRun
    BY <2>1, <2>2, <2>3 DEF Ledger!DispatchRun
  <2>. QED BY <2>4 DEF Ledger!LedgerNext
<1>7. CASE ~(Insert(l) \/ FinishStale(l) \/ Finish(l) \/ Dispatch(l))
  <2>1. UNCHANGED <<runs, calls>>
    BY <1>7 DEF LaneStep, GetRule, GetRuntimeOfSchedule, GetRuntimeOfDebounce,
       GetRuntimeOfEvent, Preclaim, FreshDebounce, FreshEvent, Enter, Read, Write, Claim,
       Conflict, Authorize, DispatchReturns, Release, Finally, storeVars
  <2>. QED BY <1>1, <2>1
<1>. QED BY <1>3, <1>4, <1>5, <1>6, <1>7

LEMMA SweepLedger ==
    ASSUME TypeInv, NEW w, Sweep(w)
    PROVE  [Ledger!LedgerNext]_(Ledger!ledgerVars)
<1>1. DOMAIN runs' = DOMAIN runs /\ UNCHANGED calls
  BY DEF Sweep, MarkStaleRunsUnknown
<1>2. ASSUME NEW k \in DOMAIN runs
      PROVE  \/ runs'[k].status = runs[k].status
             \/ runs[k].status = "running" /\ runs'[k].status = "unknown"
  <2>1. runs[k] \in Run
    BY TypeParts DEF StoreTypeOK
  <2>2. runs'[k] = IF IsStale(k, tick[w].now) THEN [runs[k] EXCEPT !.status = "unknown"] ELSE runs[k]
    BY DEF Sweep, MarkStaleRunsUnknown
  <2>. QED BY <2>1, <2>2 DEF IsStale, Run
<1>3. Ledger!SettleRuns
  BY <1>1, <1>2 DEF Ledger!SettleRuns, Ledger!Settled, Ledger!DispatchedOnly
<1>. QED BY <1>3 DEF Ledger!LedgerNext

LEMMA NextLedger ==
    ASSUME TypeInv, OwnInv, ReportsCalled, [Next]_vars
    PROVE  [Ledger!LedgerNext]_(Ledger!ledgerVars)
<1>1. ASSUME UNCHANGED <<runs, calls>> PROVE [Ledger!LedgerNext]_(Ledger!ledgerVars)
  BY <1>1 DEF Ledger!ledgerVars
<1>2. CASE \E l \in Lanes : LaneStep(l)
  BY <1>2, LaneStepLedger
<1>3. CASE \E l \in Lanes : LaneFails(l)
  BY <1>1, <1>3, LaneFailsMoves DEF storeVars
<1>4. CASE \/ \E l \in TickLanes : TakeRule(l)
           \/ \E l \in EventLanes : TakeEvent(l)
  BY <1>1, <1>4, TakesLane DEF storeVars
<1>5. CASE \E w \in Workers : WorkerStep(w)
  BY <1>1, <1>5, WorkerStepLane, SweepLedger
<1>6. CASE Environment \/ UNCHANGED vars
  BY <1>1, <1>6, EnvironmentLane DEF vars
<1>. QED BY <1>2, <1>3, <1>4, <1>5, <1>6 DEF Next

LEMMA InitLedger == Init => Ledger!LedgerInit
BY DEF Init, Ledger!LedgerInit

\* The automation_runs table and the dispatcher calls are a run ledger: a run is
\* inserted once, dispatched once, settled once, and never "succeeded" or "failed"
\* without a dispatcher call, whatever ticks, handlers, crashes and errors do.
THEOREM RunsAreLedger == Spec => LedgerSpec
BY TypeInvariant, Ownership, InitReports, NextReports, InitLedger, NextLedger, PTL
   DEF Spec, LedgerSpec, Ledger!LedgerSpec
-----------------------------------------------------------------------------
\* The rows of automation_runs keep their key, worker and beginning; only an
\* insertion adds one.
RunsGrow ==
    /\ DOMAIN runs \subseteq DOMAIN runs'
    /\ \A k \in DOMAIN runs : /\ runs'[k].startedAt = runs[k].startedAt
                              /\ runs'[k].by = runs[k].by
                              /\ runs'[k].status = "running" => runs[k].status = "running"
    /\ \A k \in DOMAIN runs' \ DOMAIN runs :
         \E l \in Lanes : /\ Insert(l) /\ lane[l].key = k
                          /\ runs'[k] = [status |-> "running", startedAt |-> lane[l].now,
                                         by |-> WorkerOf(l)]

LEMMA UnchangedRunsGrow ==
    ASSUME UNCHANGED runs
    PROVE  RunsGrow
BY DEF RunsGrow

LEMMA LaneStepRuns ==
    ASSUME TypeInv, NEW l \in Lanes, LaneStep(l)
    PROVE  RunsGrow
<1>1. CASE Insert(l)
  <2>1. CASE UNCHANGED runs
    BY <2>1, UnchangedRunsGrow
  <2>2. CASE CanInsertRun(lane[l].key) /\ InsertRun(lane[l].key, lane[l].now, WorkerOf(l))
    BY <1>1, <2>2 DEF RunsGrow, CanInsertRun, InsertRun
  <2>. QED BY <1>1, <2>1, <2>2 DEF Insert
<1>2. ASSUME NEW s, FinishRun(lane[l].key, s)
      PROVE  RunsGrow
  <2>1. DOMAIN runs' = DOMAIN runs
    BY <1>2 DEF FinishRun
  <2>2. ASSUME NEW k \in DOMAIN runs
        PROVE  /\ runs'[k].startedAt = runs[k].startedAt /\ runs'[k].by = runs[k].by
               /\ runs'[k].status = "running" => runs[k].status = "running"
    <3>1. runs[k] \in Run
      BY TypeParts DEF StoreTypeOK
    <3>. QED BY <1>2, <3>1 DEF FinishRun, Run
  <2>. QED BY <2>1, <2>2 DEF RunsGrow
<1>3. CASE FinishStale(l) \/ Finish(l)
  BY <1>2, <1>3 DEF FinishStale, Finish
<1>4. CASE ~(Insert(l) \/ FinishStale(l) \/ Finish(l))
  <2>1. UNCHANGED runs
    BY <1>4 DEF LaneStep, GetRule, GetRuntimeOfSchedule, GetRuntimeOfDebounce,
       GetRuntimeOfEvent, Preclaim, FreshDebounce, FreshEvent, Enter, Read, Write, Claim,
       Conflict, Authorize, Dispatch, DispatchReturns, Release, Finally, storeVars
  <2>. QED BY <2>1, UnchangedRunsGrow
<1>. QED BY <1>1, <1>3, <1>4

LEMMA NextRuns ==
    ASSUME TypeInv, [Next]_vars
    PROVE  RunsGrow
<1>1. CASE \E l \in Lanes : LaneStep(l)
  BY <1>1, LaneStepRuns
<1>2. CASE \E l \in Lanes : LaneFails(l)
  BY <1>2, LaneFailsMoves, UnchangedRunsGrow DEF storeVars
<1>3. CASE \/ \E l \in TickLanes : TakeRule(l)
           \/ \E l \in EventLanes : TakeEvent(l)
  BY <1>3, TakesLane, UnchangedRunsGrow DEF storeVars
<1>4. CASE \E w \in Workers : Sweep(w)
  <2>1. PICK w \in Workers : Sweep(w)
    BY <1>4
  <2>2. DOMAIN runs' = DOMAIN runs
    BY <2>1 DEF Sweep, MarkStaleRunsUnknown
  <2>3. ASSUME NEW k \in DOMAIN runs
        PROVE  /\ runs'[k].startedAt = runs[k].startedAt /\ runs'[k].by = runs[k].by
               /\ runs'[k].status = "running" => runs[k].status = "running"
    <3>1. runs[k] \in Run
      BY TypeParts DEF StoreTypeOK
    <3>2. runs'[k] = IF IsStale(k, tick[w].now) THEN [runs[k] EXCEPT !.status = "unknown"]
                     ELSE runs[k]
      BY <2>1 DEF Sweep, MarkStaleRunsUnknown
    <3>. QED BY <3>1, <3>2 DEF Run
  <2>. QED BY <2>2, <2>3 DEF RunsGrow
<1>5. CASE \E w \in Workers : WorkerStep(w) /\ UNCHANGED runs
  BY <1>5, UnchangedRunsGrow
<1>6. CASE Environment \/ UNCHANGED vars
  BY <1>6, EnvironmentLane, UnchangedRunsGrow DEF vars
<1>. QED BY <1>1, <1>2, <1>3, <1>4, <1>5, <1>6, WorkerStepLane DEF Next
-----------------------------------------------------------------------------
\* A key that may be claimed at the instant t.
RipeAt(k, t) ==
    /\ k.kind = "sch" => k.at <= t
    /\ k.kind = "deb" => k.at + Config[k.rule].forDuration <= t

Ripe(a) == a.key.rule = a.rule /\ RipeAt(a.key, a.now)

\* The stages of an activation that has the key of its run.
KeyStages == {"claim", "enter", "insert", "conflict", "finishStale",
              "authorize", "dispatch", "acting", "finish"}

ClaimsRipe == \A l \in Lanes : Stage(lane[l]) \in KeyStages => Ripe(lane[l])

LEMMA ScheduleIsRipe ==
    ASSUME TypeInv, NEW l \in Lanes, GetRuntimeOfSchedule(l), lane'[l].pc = "claim"
    PROVE  Ripe(lane'[l])
<1>. DEFINE next == runtime[lane[l].rule].nextRunAt
            k == BuildScheduleRunKey(lane[l].rule, next)
<1>1. lane[l] \in LaneState /\ l \in DOMAIN lane
  BY TypeParts DEF LaneTypeOK
<1>2. ~Done(l)
  BY <1>1, TypeParts DEF Done, IdleLane, LaneTypeOK
<1>3. next <= lane[l].now /\ lane' = [lane EXCEPT ![l].pc = "claim", ![l].key = k]
  BY <1>2 DEF GetRuntimeOfSchedule, IsDue
<1>4. lane'[l].key = k /\ lane'[l].now = lane[l].now /\ lane'[l].rule = lane[l].rule
  BY <1>1, <1>3 DEF LaneState
<1>. QED BY <1>3, <1>4 DEF Ripe, RipeAt, BuildScheduleRunKey

LEMMA EventIsRipe ==
    ASSUME TypeInv, NEW l \in Lanes, GetRuntimeOfEvent(l), lane'[l].pc = "claim"
    PROVE  Ripe(lane'[l])
<1>. DEFINE k == BuildEventRunKey(lane[l].rule, lane[l].event)
<1>1. lane[l] \in LaneState /\ l \in DOMAIN lane
  BY TypeParts DEF LaneTypeOK
<1>2. ~Done(l)
  BY <1>1, TypeParts DEF Done, IdleLane, LaneTypeOK
<1>3. \/ lane' = [lane EXCEPT ![l].pc = "preclaim", ![l].now = clock]
      \/ lane' = [lane EXCEPT ![l].pc = "claim", ![l].now = clock, ![l].key = k]
  BY <1>2 DEF GetRuntimeOfEvent
<1>. HIDE DEF k
<1>4. \/ lane'[l] = [lane[l] EXCEPT !.pc = "preclaim", !.now = clock]
      \/ lane'[l] = [lane[l] EXCEPT !.pc = "claim", !.now = clock, !.key = k]
  BY <1>1, <1>3
<1>5. lane'[l].key = k /\ lane'[l].rule = lane[l].rule
  BY <1>1, <1>4 DEF LaneState
<1>. QED BY <1>5 DEF Ripe, RipeAt, BuildEventRunKey, k

LEMMA DebounceIsRipe ==
    ASSUME TypeInv, NEW l \in Lanes, FreshDebounce(l), Stage(lane'[l]) = "enter"
    PROVE  Ripe(lane'[l])
<1>. DEFINE r == lane[l].rule
            status == runtime[r].observed.status
            since == runtime[r].observed.pending.since
            row == [NoRow EXCEPT !.observed = ObservedStateWithPending(status, NoPending)]
            k == BuildStatusDebounceRunKey(r, since, status)
            a == [Patched(l, {"observed", "nextRunAt"}, row, "enter") EXCEPT !.key = k]
<1>1. lane[l] \in LaneState /\ l \in DOMAIN lane /\ lane[l].pc = "fresh" /\ r \in Rules
      /\ lane[l].now \in Nat
  BY TypeParts, LaneFields DEF FreshDebounce, LaneTypeOK
<1>2. runtime[r] \in RuntimeState
  BY <1>1, TypeParts DEF StoreTypeOK
<1>3. \/ Observe(l, status, NoPending, NoTime, "finally")
      \/ Goto(l, "finally")
      \/ /\ since # NoTime /\ Elapsed(r, since, lane[l].now)
         /\ lane' = [lane EXCEPT ![l] = a]
  BY Zenon DEF FreshDebounce, HasPending
<1>4. ~Goto(l, "finally")
  BY <1>1 DEF Goto, Stage, LaneState
<1>5. ~Observe(l, status, NoPending, NoTime, "finally")
  BY <1>1 DEF Observe, Patch, Patched, Stage, LaneState
<1>6. lane'[l] = a
  BY <1>1, <1>3, <1>4, <1>5
<1>7. a.key = k /\ a.now = lane[l].now /\ a.rule = r
  BY <1>1 DEF LaneState, Patched
<1>. HIDE DEF a
<1>8. since \in Nat /\ Config[r].forDuration \in Nat
  BY <1>1, <1>2, <1>3, <1>4, <1>5, TriggersAssumption DEF RuntimeState, ObservedState, Pending, TimeOrNull
<1>9. since + Config[r].forDuration <= lane[l].now
  BY <1>1, <1>3, <1>4, <1>5, <1>8 DEF Elapsed
<1>. QED BY <1>6, <1>7, <1>9 DEF Ripe, RipeAt, BuildStatusDebounceRunKey

LEMMA FreshEventIsRipe ==
    ASSUME TypeInv, NEW l \in Lanes, FreshEvent(l), Stage(lane'[l]) = "enter"
    PROVE  Ripe(lane'[l])
<1>. DEFINE r == lane[l].rule
            e == lane[l].event
            pending == runtime[r].observed.pending
            started == [from |-> runtime[r].observed.status, to |-> e.status,
                        since |-> lane[l].now, svc |-> e.svc]
            row == [NoRow EXCEPT !.observed = ObservedStateWithPending(e.status, NoPending)]
            k == BuildEventRunKey(r, e)
            a == [Patched(l, {"observed", "nextRunAt"}, row, "enter") EXCEPT !.key = k]
<1>1. lane[l] \in LaneState /\ l \in DOMAIN lane
  BY TypeParts DEF LaneTypeOK
<1>2. \/ Observe(l, e.status, NoPending, NoTime, "finally")
      \/ lane' = [lane EXCEPT ![l] = a]
      \/ Observe(l, e.status, started, lane[l].now + Config[r].forDuration, "finally")
      \/ Patch(l, {"observed"},
               [NoRow EXCEPT !.observed = ObservedStateWithPending(e.status, pending)],
               "finally")
  BY Zenon DEF FreshEvent
<1>3. ASSUME NEW columns, NEW x, Patch(l, columns, x, "finally") PROVE FALSE
  BY <1>1, <1>3 DEF Patch, Patched, Stage, LaneState
<1>. HIDE DEF k, started, row
<1>4. lane'[l] = a
  BY <1>1, <1>2, <1>3 DEF Observe
<1>5. a.key = k /\ a.rule = r
  BY <1>1 DEF LaneState, Patched
<1>. QED BY <1>4, <1>5 DEF Ripe, RipeAt, BuildEventRunKey, k

LEMMA LaneStepRipe ==
    ASSUME TypeInv, ClaimsRipe, NEW l \in Lanes, LaneStep(l) \/ LaneFails(l)
    PROVE  ClaimsRipe'
<1>. USE DEF Becomes, KeyStages
<1>1. PICK a : Becomes(l, a)
  BY LaneBecomes
<1>2. lane[l].ret \in Returns
  BY TypeParts, LaneFields
<1>3. ASSUME Stage(a) \in KeyStages PROVE Ripe(a)
  <2>1. LaneStep(l) /\ MovesOn(lane[l], a)
    <3>1. IdleLane.pc = "idle"
      BY DEF IdleLane
    <3>. QED BY <1>1, <1>3, <3>1 DEF Stage, LeftBy
  <2>2. CASE lane[l].pc = "getRuntime"
    <3>1. a.pc = "claim"
      BY <1>1, <1>3, <2>1, <2>2 DEF MovesOn, Flow, Stage, Returns
    <3>2. GetRuntimeOfSchedule(l) \/ GetRuntimeOfEvent(l) \/ GetRuntimeOfDebounce(l)
      BY <2>1, <2>2, StepsBegin DEF LaneStep
    <3>3. ~GetRuntimeOfDebounce(l)
      <4>1. lane[l] \in LaneState /\ l \in DOMAIN lane
        BY TypeParts DEF LaneTypeOK
      <4>. QED BY <1>1, <3>1, <4>1 DEF GetRuntimeOfDebounce, Goto, Done, IdleLane, LaneState
    <3>. QED BY <1>1, <3>1, <3>2, <3>3, ScheduleIsRipe, EventIsRipe
  <2>3. CASE lane[l].pc = "fresh"
    <3>1. Stage(a) = "enter"
      BY <1>3, <2>1, <2>3 DEF MovesOn, Flow, Stage
    <3>2. FreshDebounce(l) \/ FreshEvent(l)
      BY <2>1, <2>3, StepsBegin DEF LaneStep
    <3>. QED BY <1>1, <3>1, <3>2, DebounceIsRipe, FreshEventIsRipe
  <2>4. CASE lane[l].pc \notin {"getRuntime", "fresh"}
    <3>1. a.key = lane[l].key /\ a.now = lane[l].now /\ a.rule = lane[l].rule
      BY <2>1, <2>4 DEF MovesOn, SameJob
    <3>2. Stage(lane[l]) \in KeyStages
      BY <1>2, <1>3, <2>1, <2>4 DEF MovesOn, Flow, Stage, Returns
    <3>. QED BY <3>1, <3>2 DEF ClaimsRipe, Ripe
  <2>. QED BY <2>2, <2>3, <2>4
<1>. QED BY <1>1, <1>3 DEF ClaimsRipe

LEMMA NextRipe ==
    ASSUME TypeInv, ClaimsRipe, [Next]_vars
    PROVE  ClaimsRipe'
<1>1. CASE \E l \in Lanes : LaneStep(l) \/ LaneFails(l)
  BY <1>1, LaneStepRipe
<1>2. CASE \/ \E l \in TickLanes : TakeRule(l)
           \/ \E l \in EventLanes : TakeEvent(l)
  <2>1. \A x \in Lanes : lane'[x].pc # "getRule" => lane'[x] = lane[x]
    BY <1>2, TakesLane
  <2>. QED BY <2>1 DEF ClaimsRipe, Stage, KeyStages
<1>3. CASE \E w \in Workers : WorkerStep(w)
  <2>1. \A x \in Lanes : lane'[x] = IdleLane \/ lane'[x] = lane[x]
    BY <1>3, WorkerStepLane
  <2>2. Stage(IdleLane) = "idle"
    BY DEF Stage, IdleLane
  <2>. QED BY <2>1, <2>2 DEF ClaimsRipe, KeyStages
<1>4. CASE Environment \/ UNCHANGED vars
  BY <1>4, EnvironmentLane DEF ClaimsRipe, vars
<1>. QED BY <1>1, <1>2, <1>3, <1>4 DEF Next

LEMMA InitRipe == Init => ClaimsRipe /\ NeverEarly
BY DEF Init, ClaimsRipe, NeverEarly, Stage, IdleLane, KeyStages

LEMMA NextEarly ==
    ASSUME TypeInv, ClaimsRipe, NeverEarly, [Next]_vars
    PROVE  NeverEarly'
<1>1. RunsGrow
  BY NextRuns
<1>2. ASSUME NEW k \in DOMAIN runs' PROVE RipeAt(k, runs'[k].startedAt)
  <2>1. CASE k \in DOMAIN runs
    BY <1>1, <2>1 DEF RunsGrow, NeverEarly, RipeAt
  <2>2. CASE k \notin DOMAIN runs
    <3>1. PICK l \in Lanes : Insert(l) /\ lane[l].key = k /\ runs'[k].startedAt = lane[l].now
      BY <1>1, <2>2 DEF RunsGrow
    <3>2. Stage(lane[l]) = "insert"
      BY <3>1 DEF Insert, Stage
    <3>. QED BY <3>1, <3>2 DEF ClaimsRipe, Ripe, KeyStages
  <2>. QED BY <2>1, <2>2
<1>. QED BY <1>2 DEF NeverEarly, RipeAt

\* The instant read again after the claim, and not the one the tick listed, decides:
\* no run of a schedule begins before its instant, and no alert before its duration
\* has elapsed.
THEOREM RunsAreNeverEarly == Spec => []NeverEarly
BY TypeInvariant, InitRipe, NextRipe, NextEarly, PTL DEF Spec
-----------------------------------------------------------------------------
(***************************************************************************)
(* Only a process that runs has activations, a tick or events to handle,   *)
(* and what a process wrote it wrote after its start.                      *)
(***************************************************************************)
OnlyTheLivingWork ==
    /\ \A l \in Lanes : lane[l].pc # "idle" => Running(WorkerOf(l))
    /\ \A w \in Workers :
         Running(w) \/ (tick[w].phase = "idle" /\ backlog[w] = {} /\ inbox[w] = {})

LEMMA LaneStepLiving ==
    ASSUME TypeInv, OnlyTheLivingWork, NEW l \in Lanes, LaneStep(l) \/ LaneFails(l)
    PROVE  OnlyTheLivingWork'
<1>1. PICK a : Becomes(l, a)
  BY LaneBecomes
<1>2. \A x \in Lanes : lane'[x].pc # "idle" => Running(WorkerOf(x))'
  BY <1>1, LaneStepWorker DEF Becomes, OnlyTheLivingWork, Running
<1>3. ASSUME NEW w \in Workers
      PROVE  (Running(w) \/ (tick[w].phase = "idle" /\ backlog[w] = {} /\ inbox[w] = {}))'
  BY LaneStepWorker DEF OnlyTheLivingWork, Running
<1>. QED BY <1>2, <1>3 DEF OnlyTheLivingWork

LEMMA TakesLiving ==
    ASSUME TypeInv, OnlyTheLivingWork, NEW l, TakeRule(l) \/ TakeEvent(l),
           l \in TickLanes \/ l \in EventLanes
    PROVE  OnlyTheLivingWork'
<1>. /\ tick \in [Workers -> TickState] /\ backlog \in [Workers -> SUBSET (Event \X Rules)]
     /\ WorkerOf(l) \in Workers
  BY TypeParts DEF RestTypeOK, TickLanes, EventLanes, WorkerOf
<1>1. Running(WorkerOf(l))
  BY DEF TakeRule, TakeEvent, OnlyTheLivingWork
<1>2. \A w \in Workers : w # WorkerOf(l) => tick'[w] = tick[w] /\ backlog'[w] = backlog[w]
  <2>1. CASE TakeRule(l)
    BY <2>1 DEF TakeRule, tickFrame
  <2>2. CASE TakeEvent(l)
    BY <2>2 DEF TakeEvent
  <2>. QED BY <2>1, <2>2
<1>. QED BY <1>1, <1>2, TakesLane DEF OnlyTheLivingWork, Running

LEMMA WorkerStepLiving ==
    ASSUME TypeInv, OnlyTheLivingWork, NEW w \in Workers, WorkerStep(w)
    PROVE  OnlyTheLivingWork'
<1>. /\ tick \in [Workers -> TickState] /\ backlog \in [Workers -> SUBSET (Event \X Rules)]
     /\ inbox \in [Workers -> SUBSET Event]
     /\ mode \in [Workers -> {"new", "up", "stopping", "exited", "crashed"}]
  BY TypeParts DEF RestTypeOK
<1>1. CASE Start(w) \/ Stop(w)
  <2>1. UNCHANGED <<tick, lane, inbox, backlog>>
    BY <1>1 DEF Start, Stop
  <2>2. \A v \in Workers : Running(v) => Running(v)'
    BY <1>1 DEF Start, Stop, Running
  <2>. QED BY <2>1, <2>2 DEF OnlyTheLivingWork, Lanes, WorkerOf
<1>2. CASE Exit(w) \/ Crash(w)
  <2>1. PICK how : Die(w, how)
    BY <1>2 DEF Exit, Crash
  <2>2. \A x \in Lanes : lane'[x] = IF WorkerOf(x) = w THEN IdleLane ELSE lane[x]
    BY <2>1, DiesLane
  <2>3. \A v \in Workers :
          IF v = w THEN tick'[v].phase = "idle" /\ backlog'[v] = {} /\ inbox'[v] = {}
          ELSE mode'[v] = mode[v] /\ tick'[v] = tick[v] /\ backlog'[v] = backlog[v] /\ inbox'[v] = inbox[v]
    BY <2>1 DEF Die, IdleTick
  <2>4. IdleLane.pc = "idle"
    BY DEF IdleLane
  <2>5. \A x \in Lanes : WorkerOf(x) \in Workers
    BY DEF Lanes, WorkerOf
  <2>. QED BY <2>2, <2>3, <2>4, <2>5 DEF OnlyTheLivingWork, Running
<1>3. ASSUME Running(w), UNCHANGED <<mode, lane>>,
             \A v \in Workers \ {w} :
               tick'[v] = tick[v] /\ backlog'[v] = backlog[v] /\ inbox'[v] = inbox[v]
      PROVE  OnlyTheLivingWork'
  BY <1>3 DEF OnlyTheLivingWork, Running
<1>4. CASE TickStep(w)
  <2>1. Running(w)
    BY <1>4 DEF TickStep, TickStart, Sweep, ListUnscheduled, SeedStops, ListDueSchedule,
       ListDueStatusDebounce, TickEnd, PhaseOver, OnlyTheLivingWork, Running
  <2>2. UNCHANGED <<mode, lane, backlog, inbox>>
    BY <1>4 DEF TickStep, TickStart, Sweep, ListUnscheduled, SeedStops, ListDueSchedule,
       ListDueStatusDebounce, TickEnd, tickFrame
  <2>3. \A v \in Workers \ {w} : tick'[v] = tick[v]
    BY <1>4 DEF TickStep, TickStart, Sweep, ListUnscheduled, SeedStops, ListDueSchedule,
       ListDueStatusDebounce, TickEnd, Enqueue
  <2>. QED BY <1>3, <2>1, <2>2, <2>3
<1>5. CASE TickThrows(w)
  <2>1. Running(w)
    BY <1>5 DEF TickThrows, PhaseOver, OnlyTheLivingWork
  <2>. QED BY <1>3, <1>5, <2>1 DEF TickThrows
<1>6. CASE HandleEvent(w) \/ HandleEventThrows(w)
  <2>1. Running(w)
    BY <1>6 DEF HandleEvent, HandleEventThrows, OnlyTheLivingWork
  <2>2. UNCHANGED <<mode, lane, tick>>
    BY <1>6 DEF HandleEvent, HandleEventThrows
  <2>3. \A v \in Workers \ {w} : inbox'[v] = inbox[v]
    BY <1>6 DEF HandleEvent, HandleEventThrows
  <2>4. \A v \in Workers \ {w} : backlog'[v] = backlog[v]
    BY <1>6 DEF HandleEvent, HandleEventThrows
  <2>. QED BY <1>3, <2>1, <2>2, <2>3, <2>4
<1>. QED BY <1>1, <1>2, <1>4, <1>5, <1>6 DEF WorkerStep

LEMMA EnvironmentLiving ==
    ASSUME TypeInv, OnlyTheLivingWork, Environment
    PROVE  OnlyTheLivingWork'
<1>1. UNCHANGED inbox \/ \E e : Deliver(e)
  BY DEF Environment, ClockTick, Publish, AdminRule, AdminRuntime, workerVars
<1>2. \A w \in Workers : inbox'[w] = inbox[w] \/ Running(w)
  BY <1>1 DEF Deliver, Running
<1>. QED BY <1>2, EnvironmentLane DEF OnlyTheLivingWork, Running

LEMMA NextLiving ==
    ASSUME TypeInv, OnlyTheLivingWork, [Next]_vars
    PROVE  OnlyTheLivingWork'
<1>1. CASE UNCHANGED vars
  BY <1>1 DEF vars, OnlyTheLivingWork, Running
<1>. QED BY <1>1, LaneStepLiving, TakesLiving, WorkerStepLiving, EnvironmentLiving DEF Next

LEMMA InitLiving == Init => OnlyTheLivingWork
BY DEF Init, OnlyTheLivingWork, IdleLane, IdleTick, Lanes, WorkerOf, Running
-----------------------------------------------------------------------------
(***************************************************************************)
(* The stages at which an activation answers for the run it inserted: a    *)
(* "running" run of a live worker has one of its activations there.        *)
(***************************************************************************)
AtWork == {"authorize", "dispatch", "acting", "finish"}

WorksOn(l, k) == lane[l].key = k /\ Stage(lane[l]) \in AtWork

RunsHaveWorker ==
    /\ \A k \in DOMAIN runs : mode[runs[k].by] # "new"
    /\ failures = 0 => \A k \in DOMAIN runs :
         (runs[k].status = "running" /\ Running(runs[k].by))
         => \E l \in Lanes : WorkerOf(l) = runs[k].by /\ WorksOn(l, k)

LEMMA InitHaveWorker == Init => RunsHaveWorker
BY DEF Init, RunsHaveWorker

\* The steps of an activation at work: it stays so until its run is settled.
LEMMA StaysAtWork ==
    ASSUME TypeInv, ReportsCalled, NEW l \in Lanes, NEW k \in DOMAIN runs, WorksOn(l, k),
           LaneStep(l)
    PROVE  WorksOn(l, k)' \/ runs'[k].status # "running"
<1>1. PICK a : Becomes(l, a)
  BY LaneBecomes
<1>2. lane[l].ret \in Returns /\ runs[k] \in Run
  BY TypeParts, LaneFields DEF StoreTypeOK
<1>3. ~MayEnd(lane[l])
  BY <1>2 DEF WorksOn, AtWork, Stage, MayEnd, Returns
<1>4. ~LaneFails(l)
  BY LaneStepIsNoFailure
<1>5. CASE MovesOn(lane[l], a)
  <2>1. a.key = lane[l].key
    BY <1>5 DEF MovesOn, WorksOn, AtWork, Stage
  <2>2. Stage(a) \in AtWork \/ lane[l].pc = "finish"
    BY <1>2, <1>5 DEF MovesOn, Flow, WorksOn, AtWork, Stage, Returns
  <2>3. CASE lane[l].pc = "finish"
    <3>1. Finish(l)
      BY <2>3, StepsBegin DEF LaneStep
    <3>2. FinishRun(k, lane[l].status) /\ lane[l].status # "running"
      BY <2>3, <3>1 DEF Finish, WorksOn, ReportsCalled, TerminalStatuses
    <3>. QED BY <1>2, <3>2 DEF FinishRun, Run
  <2>. QED BY <1>1, <2>1, <2>2, <2>3 DEF WorksOn, Becomes
<1>. QED BY <1>1, <1>3, <1>4, <1>5 DEF Becomes

LEMMA NextHaveWorker ==
    ASSUME TypeInv, ReportsCalled, OnlyTheLivingWork, RunsHaveWorker, [Next]_vars
    PROVE  RunsHaveWorker'
<1>. USE NextModes, NextRuns
<1>1. ASSUME NEW k \in DOMAIN runs' PROVE mode'[runs'[k].by] # "new"
  <2>1. CASE k \in DOMAIN runs
    <3>1. runs[k].by \in Workers /\ runs'[k].by = runs[k].by
      BY <2>1, TypeParts DEF StoreTypeOK, Run, RunsGrow
    <3>. QED BY <2>1, <3>1 DEF RunsHaveWorker
  <2>2. CASE k \notin DOMAIN runs
    <3>1. PICK l \in Lanes : Insert(l) /\ runs'[k].by = WorkerOf(l)
      BY <2>2 DEF RunsGrow
    <3>2. WorkerOf(l) \in Workers /\ mode[WorkerOf(l)] # "new"
      BY <3>1, StepsBegin DEF OnlyTheLivingWork, Running, Lanes, WorkerOf
    <3>. QED BY <3>1, <3>2
  <2>. QED BY <2>1, <2>2
<1>2. ASSUME failures' = 0, NEW k \in DOMAIN runs', runs'[k].status = "running",
             mode'[runs'[k].by] \in {"up", "stopping"}
      PROVE  \E l \in Lanes : WorkerOf(l) = runs'[k].by /\ WorksOn(l, k)'
  <2>1. CASE k \notin DOMAIN runs
    <3>1. PICK l \in Lanes : Insert(l) /\ lane[l].key = k /\ runs'[k].by = WorkerOf(l)
      BY <2>1 DEF RunsGrow
    <3>2. PICK a : Becomes(l, a)
      BY <3>1, LaneBecomes DEF LaneStep
    <3>3. LaneStep(l) /\ lane[l].pc = "insert"
      BY <3>1, StepsBegin DEF LaneStep
    <3>4. MovesOn(lane[l], a)
      BY <3>2, <3>3, LaneStepIsNoFailure DEF Becomes, MayEnd
    <3>5. a.key = k
      BY <3>1, <3>3, <3>4 DEF MovesOn
    <3>6. a.pc # "conflict"
      <4>1. runs' # runs
        BY <1>2, <2>1
      <4>2. Advance(l, "authorize")
        BY <3>1, <4>1 DEF Insert
      <4>3. lane[l] \in LaneState /\ l \in DOMAIN lane
        BY TypeParts DEF LaneTypeOK
      <4>4. a.pc \in {"read", "authorize"}
        <5>1. lane'[l] = a
          BY <3>2 DEF Becomes
        <5>2. \E row : \/ lane'[l] = Patched(l, {"nextRunAt"}, row, "authorize")
                        \/ lane'[l] = [lane[l] EXCEPT !.pc = "authorize"]
          BY <4>2, <4>3 DEF Advance, Patch, Goto
        <5>. QED BY <4>3, <5>1, <5>2 DEF Patched, LaneState
      <4>. QED BY <4>4
    <3>7. Stage(a) \in AtWork
      BY <3>2, <3>3, <3>4, <3>6 DEF MovesOn, Flow, Stage, AtWork, Becomes, Returns
    <3>. QED BY <3>1, <3>2, <3>5, <3>7 DEF WorksOn, Becomes
  <2>2. CASE k \in DOMAIN runs
    <3>1. /\ runs'[k].by = runs[k].by /\ runs[k].by \in Workers /\ runs[k].status = "running"
          /\ failures = 0
      BY <1>2, <2>2, TypeParts DEF StoreTypeOK, Run, RunsGrow
    <3>2. Running(runs[k].by)
      <4>1. Running(runs[k].by)'
        BY <1>2, <3>1 DEF Running
      <4>. QED BY <2>2, <3>1, <4>1 DEF RunsHaveWorker
    <3>3. PICK l \in Lanes : WorkerOf(l) = runs[k].by /\ WorksOn(l, k)
      BY <2>2, <3>1, <3>2 DEF RunsHaveWorker
    <3>4. lane[l].pc # "idle"
      BY <3>3 DEF WorksOn, Stage, AtWork
    <3>5. CASE lane'[l] = lane[l]
      BY <3>1, <3>3, <3>5 DEF WorksOn
    <3>6. CASE LaneStep(l)
      BY <1>2, <2>2, <3>1, <3>3, <3>6, StaysAtWork
    <3>7. lane'[l] = lane[l] \/ LaneStep(l)
      <4>1. Running(WorkerOf(l))'
        BY <1>2, <3>1, <3>3 DEF Running
      <4>. QED BY <1>2, <3>4, <4>1, OthersLeave
    <3>. QED BY <3>5, <3>6, <3>7
  <2>. QED BY <2>1, <2>2
<1>3. failures' = 0 => \A k \in DOMAIN runs' :
        (runs'[k].status = "running" /\ mode'[runs'[k].by] \in {"up", "stopping"})
        => \E l \in Lanes : WorkerOf(l) = runs'[k].by /\ WorksOn(l, k)'
  BY <1>2
<1>. QED BY <1>1, <1>3 DEF RunsHaveWorker, Running

LEMMA HaveWorkerNoOrphan ==
    ASSUME TypeInv, RunsHaveWorker
    PROVE  NoOrphanRun
<1>1. ASSUME NEW l \in Lanes, NEW k \in RunKey, WorksOn(l, k)
      PROVE  InClaimAndDispatch(l) /\ lane[l].key = k
  <2>1. k # NoKey
    BY TriggersAssumption DEF RunKey, NoKey
  <2>2. lane[l].ret \in Returns
    BY TypeParts, LaneFields
  <2>. QED BY <1>1, <2>1, <2>2 DEF InClaimAndDispatch, WorksOn, Stage, AtWork, DispatchingPCs
<1>2. DOMAIN runs \subseteq RunKey
  BY TypeParts DEF StoreTypeOK
<1>. QED BY <1>1, <1>2 DEF RunsHaveWorker, NoOrphanRun

\* No return path of claimAndDispatch forgets the run it inserted, as long as no
\* store call throws.
THEOREM NoRunIsOrphan == Spec => []NoOrphanRun
BY TypeInvariant, InitReports, NextReports, InitLiving, NextLiving, InitHaveWorker,
   NextHaveWorker, HaveWorkerNoOrphan, PTL DEF Spec
-----------------------------------------------------------------------------
(***************************************************************************)
(* What a step may do to the lease of a rule.                              *)
(***************************************************************************)
LeaseKept(r) ==
    /\ runtime'[r].leaseOwner = runtime[r].leaseOwner
    /\ runtime'[r].leaseUntil = runtime[r].leaseUntil

LeaseGiven(r, l) ==
    /\ Release(l) \/ Finally(l)
    /\ lane[l].rule = r /\ runtime[r].leaseOwner = WorkerOf(l)
    /\ runtime'[r].leaseOwner = NoWorker

LeaseTaken(r, l) ==
    /\ Preclaim(l) \/ Claim(l)
    /\ lane[l].rule = r /\ CanClaimLease(r, WorkerOf(l), lane[l].now)
    /\ runtime'[r].leaseOwner = WorkerOf(l)
    /\ runtime'[r].leaseUntil = lane[l].now + LeaseMs
    /\ \E pc \in {"fresh", "finally", "insert"} : Goto(l, pc)

LeaseCleared(r) == admin # {} /\ runtime'[r].leaseOwner = NoWorker

LeaseChange(r) ==
    \/ LeaseKept(r) \/ LeaseCleared(r)
    \/ \E l \in Lanes : LeaseGiven(r, l) \/ LeaseTaken(r, l)

LEMMA LaneLeases ==
    ASSUME TypeInv, NEW l \in Lanes, LaneStep(l), NEW r \in Rules
    PROVE  LeaseChange(r)
<1>. runtime \in [Rules -> RuntimeState]
  BY TypeParts DEF StoreTypeOK
<1>1. CASE UNCHANGED runtime
  BY <1>1 DEF LeaseChange, LeaseKept
<1>2. CASE Write(l)
  <2>1. WriteRow(lane[l].rule, lane[l].row)
    BY <1>2 DEF Write
  <2>2. LeaseKept(r)
    BY <2>1 DEF WriteRow, LeaseKept, RuntimeState
  <2>. QED BY <2>2 DEF LeaseChange
<1>3. CASE Release(l) \/ Finally(l)
  <2>1. ReleaseLease(lane[l].rule, WorkerOf(l))
    BY <1>3 DEF Release, Finally
  <2>2. LeaseKept(r) \/ LeaseGiven(r, l)
    BY <1>3, <2>1 DEF ReleaseLease, LeaseKept, LeaseGiven, RuntimeState
  <2>. QED BY <2>2 DEF LeaseChange
<1>4. ASSUME Preclaim(l) \/ Claim(l), CanClaimLease(lane[l].rule, WorkerOf(l), lane[l].now),
             ClaimLease(lane[l].rule, WorkerOf(l), lane[l].now),
             NEW pc \in {"fresh", "finally", "insert"}, Goto(l, pc)
      PROVE  LeaseChange(r)
  <2>1. LeaseKept(r) \/ LeaseTaken(r, l)
    BY <1>4 DEF ClaimLease, LeaseKept, LeaseTaken, RuntimeState
  <2>. QED BY <2>1 DEF LeaseChange
<1>5. CASE Preclaim(l)
  <2>1. UNCHANGED runtime \/ (/\ CanClaimLease(lane[l].rule, WorkerOf(l), lane[l].now)
                              /\ ClaimLease(lane[l].rule, WorkerOf(l), lane[l].now)
                              /\ Goto(l, "finally") \/ Goto(l, "fresh"))
    BY <1>5 DEF Preclaim
  <2>. QED BY <1>1, <1>4, <1>5, <2>1
<1>6. CASE Claim(l)
  <2>1. UNCHANGED runtime \/ (/\ CanClaimLease(lane[l].rule, WorkerOf(l), lane[l].now)
                              /\ ClaimLease(lane[l].rule, WorkerOf(l), lane[l].now)
                              /\ Goto(l, "insert"))
    BY <1>6 DEF Claim
  <2>. QED BY <1>1, <1>4, <1>6, <2>1
<1>7. CASE ~(Write(l) \/ Release(l) \/ Finally(l) \/ Preclaim(l) \/ Claim(l))
  <2>1. UNCHANGED runtime
    BY <1>7 DEF LaneStep, GetRule, GetRuntimeOfSchedule, GetRuntimeOfDebounce,
       GetRuntimeOfEvent, FreshDebounce, FreshEvent, Enter, Read, Insert,
       Conflict, FinishStale, Authorize, Dispatch, DispatchReturns, Finish, storeVars
  <2>. QED BY <1>1, <2>1
<1>. QED BY <1>2, <1>3, <1>5, <1>6, <1>7

LEMMA NextLeases ==
    ASSUME TypeInv, [Next]_vars, NEW r \in Rules
    PROVE  LeaseChange(r)
<1>1. CASE UNCHANGED runtime
  BY <1>1 DEF LeaseChange, LeaseKept
<1>2. CASE \E l \in Lanes : LaneFails(l)
  BY <1>1, <1>2, LaneFailsMoves DEF storeVars
<1>3. CASE \/ \E l \in TickLanes : TakeRule(l)
           \/ \E l \in EventLanes : TakeEvent(l)
  BY <1>1, <1>3, TakesLane DEF storeVars
<1>4. CASE \E w \in Workers : WorkerStep(w)
  BY <1>1, <1>4, WorkerStepLane
<1>5. CASE Environment
  <2>1. UNCHANGED runtime \/ \E call \in admin : AdminRuntime(call)
    BY <1>5 DEF Environment, ClockTick, Publish, AdminRule, storeVars
  <2>2. ASSUME NEW call \in admin, AdminRuntime(call) PROVE LeaseKept(r) \/ LeaseCleared(r)
    <3>1. runtime \in [Rules -> RuntimeState]
      BY TypeParts DEF StoreTypeOK
    <3>2. PICK next : runtime' = [runtime EXCEPT ![call.rule].nextRunAt = next,
                                                 ![call.rule].leaseOwner = NoWorker,
                                                 ![call.rule].leaseUntil = NoTime]
      BY <2>2, Zenon DEF AdminRuntime, SetEnabledRuntime
    <3>. QED BY <3>1, <3>2 DEF LeaseKept, LeaseCleared, RuntimeState
  <2>. QED BY <1>1, <2>1, <2>2 DEF LeaseChange
<1>6. CASE UNCHANGED vars
  BY <1>1, <1>6 DEF vars
<1>. QED BY <1>2, <1>3, <1>4, <1>5, <1>6, LaneLeases DEF Next
-----------------------------------------------------------------------------
\* The stages between the claim of a lease and the last statement that gives it back.
HoldingStages ==
    {"insert", "conflict", "finishStale", "authorize", "dispatch", "acting", "finish",
     "release", "fresh", "enter", "finally"}

LEMMA HoldingIsStage ==
    ASSUME TypeInv, NEW l \in Lanes
    PROVE  Holding(l) <=> Stage(lane[l]) \in HoldingStages
<1>1. lane[l].ret \in Returns
  BY TypeParts, LaneFields
<1>. QED BY <1>1 DEF Holding, Working, Stage, HoldingStages, Returns

Holds(l, r) == lane[l].rule = r /\ Stage(lane[l]) \in HoldingStages

LeasesHaveHolder ==
    /\ \A r \in Rules, w \in Workers : runtime[r].leaseOwner = w => mode[w] # "new"
    /\ failures = 0 => \A r \in Rules, w \in Workers :
         (Running(w) /\ runtime[r].leaseOwner = w)
         => \E l \in Lanes : WorkerOf(l) = w /\ Holds(l, r)

LEMMA InitHaveHolder == Init => LeasesHaveHolder
BY StoreAssumption DEF Init, LeasesHaveHolder

\* An activation keeps to its stages until it gives the lease back.
LEMMA StaysHolding ==
    ASSUME TypeInv, NEW l \in Lanes, NEW r, Holds(l, r), LaneStep(l)
    PROVE  Holds(l, r)' \/ Release(l) \/ Finally(l)
<1>1. PICK a : Becomes(l, a)
  BY LaneBecomes
<1>2. lane[l].ret \in Returns
  BY TypeParts, LaneFields
<1>3. CASE MayEnd(lane[l])
  <2>1. lane[l].pc \in {"release", "finally"}
    BY <1>2, <1>3 DEF Holds, HoldingStages, Stage, MayEnd, Returns
  <2>. QED BY <2>1, StepsBegin DEF LaneStep
<1>4. ~LaneFails(l)
  BY LaneStepIsNoFailure
<1>5. CASE MovesOn(lane[l], a)
  <2>1. a.rule = lane[l].rule
    BY <1>5 DEF MovesOn, SameJob
  <2>2. Stage(a) \in HoldingStages
    BY <1>2, <1>5 DEF MovesOn, Flow, Holds, HoldingStages, Stage, Returns
  <2>. QED BY <1>1, <2>1, <2>2 DEF Holds, Becomes
<1>. QED BY <1>1, <1>3, <1>4, <1>5 DEF Becomes

LEMMA NextHaveHolder ==
    ASSUME TypeInv, OnlyTheLivingWork, LeasesHaveHolder, [Next]_vars
    PROVE  LeasesHaveHolder'
<1>. /\ \A r \in Rules : LeaseChange(r)
     /\ NoWorker \notin Workers
  BY NextLeases, StoreAssumption
<1>1. ASSUME NEW r \in Rules, NEW w \in Workers, runtime'[r].leaseOwner = w
      PROVE  mode'[w] # "new"
  <2>1. CASE LeaseKept(r)
    BY <1>1, <2>1, NextModes DEF LeaseKept, LeasesHaveHolder
  <2>2. ASSUME NEW l \in Lanes, LeaseTaken(r, l) PROVE mode'[w] # "new"
    <3>1. lane[l].pc # "idle" /\ WorkerOf(l) = w
      BY <1>1, <2>2, StepsBegin DEF LeaseTaken
    <3>. QED BY <3>1, NextModes DEF OnlyTheLivingWork, Running
  <2>. QED BY <1>1, <2>1, <2>2 DEF LeaseChange, LeaseGiven, LeaseCleared
<1>2. ASSUME failures' = 0, NEW r \in Rules, NEW w \in Workers, Running(w)',
             runtime'[r].leaseOwner = w
      PROVE  \E l \in Lanes : WorkerOf(l) = w /\ Holds(l, r)'
  <2>1. CASE LeaseKept(r)
    <3>1. runtime[r].leaseOwner = w /\ failures = 0 /\ Running(w)
      BY <1>2, <2>1, NextModes DEF LeaseKept, LeasesHaveHolder
    <3>2. PICK l \in Lanes : WorkerOf(l) = w /\ Holds(l, r)
      BY <3>1 DEF LeasesHaveHolder
    <3>3. lane[l].pc # "idle"
      BY <3>2 DEF Holds, Stage, HoldingStages
    <3>4. lane'[l] = lane[l] \/ LaneStep(l)
      BY <1>2, <3>2, <3>3, OthersLeave
    <3>5. ~(Release(l) \/ Finally(l))
      <4>1. ASSUME ReleaseLease(r, w) PROVE FALSE
        <5>1. runtime \in [Rules -> RuntimeState]
          BY TypeParts DEF StoreTypeOK
        <5>. QED BY <1>2, <3>1, <4>1, <5>1 DEF ReleaseLease, RuntimeState
      <4>. QED BY <3>2, <4>1 DEF Release, Finally, Holds
    <3>. QED BY <3>2, <3>4, <3>5, StaysHolding DEF Holds
  <2>2. ASSUME NEW l \in Lanes, LeaseTaken(r, l)
        PROVE  WorkerOf(l) = w /\ Holds(l, r)'
    <3>1. lane[l] \in LaneState /\ l \in DOMAIN lane
      BY TypeParts DEF LaneTypeOK
    <3>2. lane'[l].pc \in {"fresh", "finally", "insert"} /\ lane'[l].rule = r
      BY <2>2, <3>1 DEF LeaseTaken, Goto, LaneState
    <3>. QED BY <1>2, <2>2, <3>2 DEF LeaseTaken, Holds, Stage, HoldingStages
  <2>. QED BY <1>2, <2>1, <2>2 DEF LeaseChange, LeaseGiven, LeaseCleared
<1>. QED BY <1>1, <1>2 DEF LeasesHaveHolder

LEMMA HaveHolderNoLeak ==
    ASSUME TypeInv, LeasesHaveHolder
    PROVE  NoLeakedLease
BY HoldingIsStage DEF LeasesHaveHolder, NoLeakedLease, Holds

\* Every return path of claimAndDispatch, processEvent and processStatusDebounce
\* gives the lease back, as long as no store call throws.
THEOREM NoLeaseLeaks == Spec => []NoLeakedLease
BY TypeInvariant, InitLiving, NextLiving, InitHaveHolder, NextHaveHolder, HaveHolderNoLeak,
   PTL DEF Spec
-----------------------------------------------------------------------------
(***************************************************************************)
(* The tick hands a rule to one activation at a time, and no handler works *)
(* on a schedule.                                                          *)
(***************************************************************************)
IsSchedule(r) == Config[r].trigger = "schedule"
QuietPhases == {"idle", "sweep", "unscheduled"}

OneLane ==
    failures = 0 =>
      /\ \A w \in Workers : tick[w].phase \in QuietPhases => TickQuiet(w)
      /\ \A l1 \in TickLanes : lane[l1].pc # "idle" =>
           /\ lane[l1].rule \notin tick[WorkerOf(l1)].queue
           /\ \A l2 \in TickLanes :
                (/\ lane[l2].pc # "idle" /\ WorkerOf(l2) = WorkerOf(l1)
                 /\ lane[l2].rule = lane[l1].rule) => l2 = l1

HandlersSpareSchedules ==
    /\ \A w \in Workers : \A p \in backlog[w] : ~IsSchedule(p[2])
    /\ \A l \in EventLanes : lane[l].pc # "idle" => ~IsSchedule(lane[l].rule)

\* Activations end or keep their rule; none begins.
LanesRemain ==
    \A x \in Lanes : lane'[x].pc # "idle" => lane[x].pc # "idle" /\ lane'[x].rule = lane[x].rule

LEMMA TakesOrRemains ==
    ASSUME TypeInv, [Next]_vars
    PROVE  \/ LanesRemain
           \/ \E l \in TickLanes : TakeRule(l)
           \/ \E l \in EventLanes : TakeEvent(l)
<1>1. ASSUME NEW l \in Lanes, LaneStep(l) \/ LaneFails(l) PROVE LanesRemain
  <2>1. PICK a : Becomes(l, a)
    BY <1>1, LaneBecomes
  <2>2. lane[l].pc # "idle"
    BY <1>1, LaneStepWorker
  <2>3. a.pc = "idle" \/ a.rule = lane[l].rule
    BY <2>1 DEF Becomes, IdleLane, MovesOn, LeftBy, SameJob
  <2>. QED BY <2>1, <2>2, <2>3 DEF Becomes, LanesRemain
<1>2. CASE \E w \in Workers : WorkerStep(w)
  <2>1. \A x \in Lanes : lane'[x] = IdleLane \/ lane'[x] = lane[x]
    BY <1>2, WorkerStepLane
  <2>. QED BY <2>1 DEF LanesRemain, IdleLane
<1>3. CASE Environment \/ UNCHANGED vars
  BY <1>3, EnvironmentLane DEF vars, LanesRemain
<1>. QED BY <1>1, <1>2, <1>3 DEF Next

\* A tick goes on to another phase when its activations are over.
LEMMA TickGoesOn ==
    ASSUME TypeInv, OneLane, failures' = 0, failures = 0, LanesRemain, [Next]_vars,
           NEW w \in Workers
    PROVE  tick'[w] = tick[w] \/ TickQuiet(w)'
<1>. /\ tick \in [Workers -> TickState] /\ failures \in Nat
  BY TypeParts DEF RestTypeOK
<1>0. ASSUME TickQuiet(w) PROVE TickQuiet(w)'
  BY <1>0 DEF TickQuiet, LanesRemain, Lanes
<1>1. ASSUME NEW l \in Lanes, LaneStep(l) PROVE tick' = tick
  BY <1>1 DEF LaneStep, GetRule, GetRuntimeOfSchedule, GetRuntimeOfDebounce,
     GetRuntimeOfEvent, Preclaim, FreshDebounce, FreshEvent, Enter, Read, Write, Claim, Insert,
     Conflict, FinishStale, Authorize, Dispatch, DispatchReturns, Finish, Release, Finally,
     laneFrame, catchFrame
<1>2. ASSUME NEW l \in Lanes, LaneFails(l) PROVE FALSE
  BY <1>2, LaneFailsMoves
<1>3. ASSUME NEW l \in TickLanes, TakeRule(l) PROVE FALSE
  BY <1>3, TakesLane DEF LanesRemain
<1>4. ASSUME NEW l \in EventLanes, TakeEvent(l) PROVE FALSE
  BY <1>4, TakesLane DEF LanesRemain
<1>5. ASSUME NEW v \in Workers, WorkerStep(v) PROVE tick'[w] = tick[w] \/ TickQuiet(w)'
  <2>1. CASE Start(v) \/ Stop(v) \/ HandleEvent(v)
    BY <1>5, <2>1 DEF Start, Stop, HandleEvent
  <2>2. CASE Exit(v) \/ Crash(v)
    <3>1. PICK how : Die(v, how)
      BY <2>2 DEF Exit, Crash
    <3>2. w = v => TickQuiet(w)'
      BY <3>1, DiesLane DEF TickQuiet, Lanes, WorkerOf, IdleLane
    <3>3. w # v => tick'[w] = tick[w]
      BY <3>1 DEF Die
    <3>. QED BY <3>2, <3>3
  <2>3. CASE TickStep(v)
    <3>1. v # w => tick'[w] = tick[w]
      BY <2>3 DEF TickStep, TickStart, Sweep, ListUnscheduled, SeedStops, ListDueSchedule,
         ListDueStatusDebounce, TickEnd, Enqueue
    <3>2. tick[v].phase \in QuietPhases \/ TickQuiet(v)
      BY <2>3 DEF TickStep, TickStart, Sweep, ListUnscheduled, SeedStops, ListDueSchedule,
         ListDueStatusDebounce, TickEnd, PhaseOver, QuietPhases
    <3>. QED BY <1>0, <3>1, <3>2 DEF OneLane
  <2>4. ~(TickThrows(v) \/ HandleEventThrows(v))
    BY DEF TickThrows, HandleEventThrows, StoreFails
  <2>. QED BY <1>5, <2>1, <2>2, <2>3, <2>4 DEF WorkerStep
<1>6. CASE Environment \/ UNCHANGED vars
  BY <1>6, EnvironmentLane DEF vars
<1>. QED BY <1>1, <1>2, <1>3, <1>4, <1>5, <1>6 DEF Next

LEMMA NextOneLane ==
    ASSUME TypeInv, OneLane, [Next]_vars
    PROVE  OneLane'
<1>1. CASE failures' # 0
  BY <1>1 DEF OneLane
<1>. SUFFICES ASSUME failures' = 0 PROVE OneLane'
  BY <1>1
<1>2. failures = 0
  BY NextModes
<1>. /\ tick \in [Workers -> TickState]
     /\ \A x \in TickLanes : x \in Lanes /\ WorkerOf(x) \in Workers
  BY TypeParts DEF RestTypeOK, TickLanes, Lanes, WorkerOf
<1>3. CASE LanesRemain
  <2>1. \A w \in Workers : tick'[w] = tick[w] \/ TickQuiet(w)'
    BY <1>2, <1>3, TickGoesOn
  <2>2. \A w \in Workers : TickQuiet(w) => TickQuiet(w)'
    BY <1>3 DEF TickQuiet, LanesRemain, Lanes
  <2>3. \A x \in TickLanes : lane'[x].pc # "idle" => ~TickQuiet(WorkerOf(x))'
    BY DEF TickLanes, TickQuiet, WorkerOf
  <2>4. \A w \in Workers : tick'[w].phase \in QuietPhases => TickQuiet(w)'
    BY <1>2, <2>1, <2>2 DEF OneLane
  <2>5. ASSUME NEW l1 \in TickLanes, lane'[l1].pc # "idle"
        PROVE  /\ lane'[l1].rule \notin tick'[WorkerOf(l1)].queue
               /\ \A l2 \in TickLanes :
                    (/\ lane'[l2].pc # "idle" /\ WorkerOf(l2) = WorkerOf(l1)
                     /\ lane'[l2].rule = lane'[l1].rule) => l2 = l1
    BY <1>2, <1>3, <2>1, <2>3, <2>5 DEF OneLane, LanesRemain
  <2>. QED BY <2>4, <2>5 DEF OneLane
<1>4. ASSUME NEW l \in TickLanes, TakeRule(l) PROVE OneLane'
  <2>. DEFINE w == WorkerOf(l)
  <2>1. PICK r \in tick[w].queue :
          /\ tick' = [tick EXCEPT ![w].queue = @ \ {r}]
          /\ lane' = [lane EXCEPT
               ![l] = [IdleLane EXCEPT !.pc = "getRule", !.task = tick[w].phase,
                                       !.rule = r, !.now = tick[w].now]]
    BY <1>4 DEF TakeRule
  <2>2. /\ tick[w].phase \notin QuietPhases /\ lane[l].pc = "idle"
        /\ \A x \in Lanes : x # l => lane'[x] = lane[x]
    BY <1>4, TakesLane DEF TakeRule, QuietPhases
  <2>3. lane'[l].rule = r
    BY <2>1, TypeParts DEF LaneTypeOK, IdleLane
  <2>4. /\ \A v \in Workers : tick'[v].phase = tick[v].phase
        /\ \A v \in Workers : tick'[v].queue = IF v = w THEN tick[w].queue \ {r} ELSE tick[v].queue
    BY <2>1 DEF TickState
  <2>5. \A v \in Workers : v # w /\ TickQuiet(v) => TickQuiet(v)'
    BY <2>2 DEF TickQuiet, Lanes, WorkerOf
  <2>6. \A v \in Workers : tick'[v].phase \in QuietPhases => TickQuiet(v)'
    BY <1>2, <2>2, <2>4, <2>5 DEF OneLane
  <2>7. ASSUME NEW l1 \in TickLanes, lane'[l1].pc # "idle"
        PROVE  lane'[l1].rule \notin tick'[WorkerOf(l1)].queue
    BY <1>2, <2>2, <2>3, <2>4, <2>7 DEF OneLane
  <2>8. ASSUME NEW l1 \in TickLanes, lane'[l1].pc # "idle", NEW l2 \in TickLanes,
               lane'[l2].pc # "idle", WorkerOf(l2) = WorkerOf(l1), lane'[l2].rule = lane'[l1].rule
        PROVE  l2 = l1
    BY <1>2, <2>1, <2>2, <2>3, <2>8 DEF OneLane
  <2>. QED BY <2>6, <2>7, <2>8 DEF OneLane
<1>5. ASSUME NEW l \in EventLanes, TakeEvent(l) PROVE OneLane'
  <2>1. \A x \in TickLanes : x # l
    BY SchedulerAssumption DEF TickLanes, EventLanes
  <2>2. \A x \in TickLanes : lane'[x] = lane[x]
    BY <1>5, <2>1, TakesLane
  <2>3. tick' = tick
    BY <1>5 DEF TakeEvent
  <2>4. \A w \in Workers : TickQuiet(w)' <=> TickQuiet(w)
    BY <2>2 DEF TickQuiet, TickLanes
  <2>. QED BY <1>2, <2>2, <2>3, <2>4 DEF OneLane
<1>. QED BY <1>3, <1>4, <1>5, TakesOrRemains

LEMMA InitOneLane == Init => OneLane /\ HandlersSpareSchedules
<1>1. SUFFICES ASSUME Init PROVE OneLane /\ HandlersSpareSchedules
  OBVIOUS
<1>2. \A l \in Lanes : lane[l].pc = "idle"
  BY <1>1 DEF Init, IdleLane
<1>3. \A w \in Workers : TickQuiet(w)
  BY <1>2 DEF TickQuiet, Lanes
<1>4. \A l \in TickLanes \cup EventLanes : l \in Lanes
  BY DEF TickLanes, EventLanes, Lanes
<1>5. \A w \in Workers : backlog[w] = {}
  BY <1>1 DEF Init
<1>. QED BY <1>2, <1>3, <1>4, <1>5 DEF OneLane, HandlersSpareSchedules

LEMMA NextSpareSchedules ==
    ASSUME TypeInv, HandlersSpareSchedules, [Next]_vars
    PROVE  HandlersSpareSchedules'
<1>. /\ backlog \in [Workers -> SUBSET (Event \X Rules)]
     /\ \A x \in EventLanes : x \in Lanes /\ WorkerOf(x) \in Workers
  BY TypeParts DEF RestTypeOK, EventLanes, Lanes, WorkerOf
<1>1. ASSUME NEW w \in Workers PROVE \A p \in backlog'[w] : p \in backlog[w] \/ ~IsSchedule(p[2])
  <2>1. ASSUME NEW l \in Lanes, LaneStep(l) \/ LaneFails(l) PROVE backlog'[w] \subseteq backlog[w]
    BY <2>1, LaneStepWorker
  <2>2. ASSUME NEW l \in TickLanes, TakeRule(l) PROVE backlog' = backlog
    BY <2>2 DEF TakeRule, tickFrame
  <2>3. ASSUME NEW l \in EventLanes, TakeEvent(l) PROVE backlog'[w] \subseteq backlog[w]
    BY <2>3 DEF TakeEvent
  <2>4. ASSUME NEW v \in Workers, WorkerStep(v), ~HandleEvent(v)
        PROVE  backlog'[w] \subseteq backlog[w]
    BY <2>4 DEF WorkerStep, Start, Stop, Exit, Crash, Die, TickThrows, HandleEventThrows,
       TickStep, TickStart, Sweep, ListUnscheduled, SeedStops, ListDueSchedule,
       ListDueStatusDebounce, TickEnd, tickFrame
  <2>5. ASSUME NEW v \in Workers, HandleEvent(v)
        PROVE  \A p \in backlog'[w] : p \in backlog[w] \/ ~IsSchedule(p[2])
    <3>1. PICK e \in inbox[v], ids \in Scans(ListEnabledEventRuleIds) :
            backlog' = [backlog EXCEPT ![v] = @ \cup ({e} \X ids)]
      BY <2>5 DEF HandleEvent
    <3>2. ids \subseteq ListEnabledEventRuleIds
      BY DEF Scans
    <3>3. \A p \in {e} \X ids : ~IsSchedule(p[2])
      BY <3>2 DEF ListEnabledEventRuleIds, IsSchedule
    <3>. DEFINE new == {e} \X ids
    <3>4. backlog' = [backlog EXCEPT ![v] = @ \cup new]
      BY <3>1
    <3>. HIDE DEF new
    <3>5. \A p \in backlog'[w] : p \in backlog[w] \/ p \in new
      BY <3>4
    <3>. QED BY <3>3, <3>5 DEF new
  <2>6. CASE Environment \/ UNCHANGED vars
    BY <2>6, EnvironmentLane DEF vars
  <2>. QED BY <2>1, <2>2, <2>3, <2>4, <2>5, <2>6 DEF Next
<1>2. ASSUME NEW x \in EventLanes, lane'[x].pc # "idle" PROVE ~IsSchedule(lane'[x].rule)
  <2>1. CASE LanesRemain
    BY <1>2, <2>1 DEF LanesRemain, HandlersSpareSchedules
  <2>2. ASSUME NEW l \in TickLanes, TakeRule(l) PROVE ~IsSchedule(lane'[x].rule)
    <3>1. x # l
      BY SchedulerAssumption DEF TickLanes, EventLanes
    <3>. QED BY <1>2, <2>2, <3>1, TakesLane DEF HandlersSpareSchedules
  <2>3. ASSUME NEW l \in EventLanes, TakeEvent(l) PROVE ~IsSchedule(lane'[x].rule)
    <3>1. PICK p \in backlog[WorkerOf(l)] :
            lane' = [lane EXCEPT ![l] = [IdleLane EXCEPT !.pc = "getRule", !.task = "event",
                                                         !.rule = p[2], !.event = p[1]]]
      BY <2>3 DEF TakeEvent
    <3>2. x = l => lane'[x].rule = p[2]
      BY <3>1, TypeParts DEF LaneTypeOK, IdleLane
    <3>3. x # l => lane'[x] = lane[x]
      BY <2>3, TakesLane
    <3>. QED BY <1>2, <3>2, <3>3 DEF HandlersSpareSchedules
  <2>. QED BY <2>1, <2>2, <2>3, TakesOrRemains
<1>. QED BY <1>1, <1>2 DEF HandlersSpareSchedules
-----------------------------------------------------------------------------
\* No activation and no tick is ahead of the clock.
InTime ==
    /\ \A w \in Workers : tick[w].now <= clock
    /\ \A l \in Lanes : lane[l].now <= clock

LEMMA LaneNow ==
    ASSUME TypeInv, NEW l \in Lanes, LaneStep(l) \/ LaneFails(l)
    PROVE  /\ \A x \in Lanes : x # l => lane'[x] = lane[x]
           /\ lane'[l].now \in {0, lane[l].now, clock}
<1>1. PICK a : Becomes(l, a)
  BY LaneBecomes
<1>2. lane[l] \in LaneState /\ l \in DOMAIN lane
  BY TypeParts DEF LaneTypeOK
<1>3. CASE a = IdleLane
  BY <1>1, <1>3 DEF Becomes, IdleLane
<1>4. CASE MovesOn(lane[l], a) /\ lane[l].pc # "getRuntime"
  BY <1>1, <1>4 DEF Becomes, MovesOn
<1>5. CASE LeftBy(lane[l], a)
  BY <1>1, <1>5 DEF Becomes, LeftBy
<1>6. CASE LaneStep(l) /\ lane[l].pc = "getRuntime"
  <2>1. GetRuntimeOfSchedule(l) \/ GetRuntimeOfEvent(l) \/ GetRuntimeOfDebounce(l)
    BY <1>6, StepsBegin DEF LaneStep
  <2>2. Done(l) => lane'[l].now = 0
    BY <1>2 DEF Done, IdleLane
  <2>3. ASSUME NEW pc, NEW key, lane' = [lane EXCEPT ![l].pc = pc, ![l].key = key]
        PROVE  lane'[l].now = lane[l].now
    BY <1>2, <2>3 DEF LaneState
  <2>4. ASSUME NEW pc, NEW key, NEW now, lane' = [lane EXCEPT ![l].pc = pc, ![l].now = now, ![l].key = key]
        PROVE  lane'[l].now = now
    BY <1>2, <2>4 DEF LaneState
  <2>5. ASSUME NEW pc, NEW now, lane' = [lane EXCEPT ![l].pc = pc, ![l].now = now]
        PROVE  lane'[l].now = now
    BY <1>2, <2>5 DEF LaneState
  <2>6. CASE GetRuntimeOfSchedule(l)
    <3>1. \E key : Done(l) \/ lane' = [lane EXCEPT ![l].pc = "claim", ![l].key = key]
      BY <2>6, Zenon DEF GetRuntimeOfSchedule
    <3>. QED BY <1>1, <2>2, <2>3, <3>1 DEF Becomes
  <2>7. CASE GetRuntimeOfEvent(l)
    <3>. DEFINE key == BuildEventRunKey(lane[l].rule, lane[l].event)
    <3>1. \/ Done(l)
          \/ lane' = [lane EXCEPT ![l].pc = "preclaim", ![l].now = clock]
          \/ lane' = [lane EXCEPT ![l].pc = "claim", ![l].now = clock, ![l].key = key]
      <4>1. CASE ~Done(l)
        BY <2>7, <4>1 DEF GetRuntimeOfEvent
      <4>. QED BY <4>1
    <3>. HIDE DEF key
    <3>2. lane'[l].now = 0 \/ lane'[l].now = clock
      <4>1. CASE Done(l)
        BY <2>2, <4>1
      <4>2. CASE lane' = [lane EXCEPT ![l].pc = "preclaim", ![l].now = clock]
        BY <2>5, <4>2
      <4>3. CASE lane' = [lane EXCEPT ![l].pc = "claim", ![l].now = clock, ![l].key = key]
        BY ONLY <2>4, <4>3
      <4>. QED BY <3>1, <4>1, <4>2, <4>3
    <3>. QED BY <1>1, <3>2 DEF Becomes
  <2>8. CASE GetRuntimeOfDebounce(l)
    <3>1. Done(l) \/ Goto(l, "preclaim")
      BY <2>8 DEF GetRuntimeOfDebounce
    <3>2. Goto(l, "preclaim") => lane'[l].now = lane[l].now
      BY <1>2 DEF Goto, LaneState
    <3>. QED BY <1>1, <2>2, <3>1, <3>2 DEF Becomes
  <2>. QED BY <2>1, <2>6, <2>7, <2>8
<1>. QED BY <1>1, <1>3, <1>4, <1>5, <1>6 DEF Becomes

LEMMA NextInTime ==
    ASSUME TypeInv, InTime, [Next]_vars
    PROVE  InTime' /\ clock' >= clock
<1>. /\ tick \in [Workers -> TickState] /\ clock \in Nat /\ clock' \in Nat
     /\ \A x \in Lanes : lane[x].now \in Nat /\ lane[x] \in LaneState
     /\ \A w \in Workers : tick[w].now \in Nat
  <2>1. TypeInv'
    BY NextType
  <2>2. clock' \in Nat
    BY <2>1, TypeParts DEF TypeInv, TypeOK
  <2>. QED BY <2>2, TypeParts, LaneFields DEF RestTypeOK, TickState
<1>1. clock' >= clock
  <2>1. ASSUME NEW l \in Lanes, LaneStep(l) \/ LaneFails(l) PROVE clock' = clock
    BY <2>1, LaneStepIsNoFailure, LaneFailsMoves
  <2>2. CASE (\E l \in TickLanes : TakeRule(l)) \/ (\E l \in EventLanes : TakeEvent(l))
    BY <2>2, TakesLane
  <2>3. CASE \E w \in Workers : WorkerStep(w)
    BY <2>3, WorkerStepLane
  <2>4. CASE Environment \/ UNCHANGED vars
    <3>1. clock' = clock \/ clock' = clock + 1
      BY <2>4 DEF Environment, ClockTick, Publish, AdminRule, AdminRuntime, vars
    <3>. QED BY <3>1
  <2>. QED BY <2>1, <2>2, <2>3, <2>4 DEF Next
<1>2. ASSUME NEW w \in Workers PROVE tick'[w].now \in {0, tick[w].now, clock}
  <2>1. ASSUME NEW l \in Lanes, LaneStep(l) PROVE tick' = tick
    BY <2>1 DEF LaneStep, GetRule, GetRuntimeOfSchedule, GetRuntimeOfDebounce,
       GetRuntimeOfEvent, Preclaim, FreshDebounce, FreshEvent, Enter, Read, Write, Claim, Insert,
       Conflict, FinishStale, Authorize, Dispatch, DispatchReturns, Finish, Release, Finally,
       laneFrame, catchFrame
  <2>2. ASSUME NEW l \in Lanes, LaneFails(l) PROVE tick'[w].now \in {0, tick[w].now}
    <3>1. \/ tick' = tick
          \/ tick' = [tick EXCEPT ![WorkerOf(l)].queue = {}]
          \/ tick' = [tick EXCEPT ![WorkerOf(l)] = IdleTick]
      BY <2>2 DEF LaneFails, AdvanceFails, CompleteFails, ThrowsInTick, ThrowsInEvent, catchFrame
    <3>. QED BY <3>1 DEF IdleTick, TickState
  <2>3. ASSUME NEW l \in TickLanes, TakeRule(l) PROVE tick'[w].now = tick[w].now
    <3>1. \E r : tick' = [tick EXCEPT ![WorkerOf(l)].queue = @ \ {r}]
      BY <2>3 DEF TakeRule
    <3>. QED BY <3>1 DEF TickState
  <2>4. ASSUME NEW l \in EventLanes, TakeEvent(l) PROVE tick' = tick
    BY <2>4 DEF TakeEvent
  <2>5. ASSUME NEW v \in Workers, WorkerStep(v) PROVE tick'[w].now \in {0, tick[w].now, clock}
    <3>1. CASE Start(v) \/ Stop(v) \/ HandleEvent(v) \/ HandleEventThrows(v)
      BY <3>1 DEF Start, Stop, HandleEvent, HandleEventThrows
    <3>2. CASE Exit(v) \/ Crash(v) \/ TickThrows(v) \/ TickEnd(v)
      <4>1. tick' = [tick EXCEPT ![v] = IdleTick]
        BY <3>2 DEF Exit, Crash, Die, TickThrows, TickEnd
      <4>. QED BY <4>1 DEF IdleTick
    <3>3. CASE TickStart(v)
      BY <3>3 DEF TickStart, TickState
    <3>4. CASE Sweep(v)
      BY <3>4 DEF Sweep, TickState
    <3>5. CASE ListUnscheduled(v) \/ SeedStops(v) \/ ListDueSchedule(v) \/ ListDueStatusDebounce(v)
      <4>1. \E phase, ids : Enqueue(v, phase, ids)
        BY <3>5 DEF ListUnscheduled, SeedStops, ListDueSchedule, ListDueStatusDebounce
      <4>. QED BY <4>1 DEF Enqueue, TickState
    <3>. QED BY <2>5, <3>1, <3>2, <3>3, <3>4, <3>5 DEF WorkerStep, TickStep
  <2>6. CASE Environment \/ UNCHANGED vars
    BY <2>6, EnvironmentLane DEF vars
  <2>. QED BY <2>1, <2>2, <2>3, <2>4, <2>5, <2>6 DEF Next
<1>3. ASSUME NEW x \in Lanes
      PROVE  \/ lane'[x].now \in {0, lane[x].now, clock}
             \/ \E w \in Workers : lane'[x].now = tick[w].now
  <2>1. ASSUME NEW l \in Lanes, LaneStep(l) \/ LaneFails(l) PROVE lane'[x].now \in {0, lane[x].now, clock}
    BY <2>1, LaneNow
  <2>2. ASSUME NEW l \in TickLanes, TakeRule(l) PROVE lane'[x].now \in {lane[x].now, tick[WorkerOf(l)].now}
    <3>1. PICK r : lane' = [lane EXCEPT
               ![l] = [IdleLane EXCEPT !.pc = "getRule", !.task = tick[WorkerOf(l)].phase,
                                       !.rule = r, !.now = tick[WorkerOf(l)].now]]
      BY <2>2 DEF TakeRule
    <3>. QED BY <3>1, TypeParts DEF LaneTypeOK, IdleLane
  <2>3. ASSUME NEW l \in EventLanes, TakeEvent(l) PROVE lane'[x].now \in {0, lane[x].now}
    <3>1. PICK p : lane' = [lane EXCEPT ![l] = [IdleLane EXCEPT !.pc = "getRule", !.task = "event",
                                                         !.rule = p[2], !.event = p[1]]]
      BY <2>3 DEF TakeEvent
    <3>. QED BY <3>1, TypeParts DEF LaneTypeOK, IdleLane
  <2>4. CASE \E w \in Workers : WorkerStep(w)
    <3>1. lane'[x] = IdleLane \/ lane'[x] = lane[x]
      BY <2>4, WorkerStepLane
    <3>. QED BY <3>1 DEF IdleLane
  <2>5. CASE Environment \/ UNCHANGED vars
    BY <2>5, EnvironmentLane DEF vars
  <2>6. \A l \in TickLanes : WorkerOf(l) \in Workers
    BY DEF TickLanes, WorkerOf
  <2>. QED BY <2>1, <2>2, <2>3, <2>4, <2>5, <2>6 DEF Next
<1>4. \A w \in Workers : tick'[w].now <= clock'
  BY <1>1, <1>2 DEF InTime
<1>5. \A x \in Lanes : lane'[x].now <= clock'
  BY <1>1, <1>3 DEF InTime
<1>. QED BY <1>1, <1>4, <1>5 DEF InTime

LEMMA InitInTime == Init => InTime
BY DEF Init, InTime, IdleLane, IdleTick
-----------------------------------------------------------------------------
(***************************************************************************)
(* The lease of a schedule is that of whoever works on it, or that of the  *)
(* run in progress, unless it has run out.                                 *)
(***************************************************************************)
Covered(r, w, t) ==
    \/ runtime[r].leaseOwner = w /\ runtime[r].leaseUntil = t + LeaseMs
    \/ t + LeaseMs < clock

Leased ==
    (toggles = 0 /\ failures = 0) =>
      /\ admin = {}
      /\ \A l \in Lanes : (Working(l) /\ IsSchedule(lane[l].rule))
           => Covered(lane[l].rule, WorkerOf(l), lane[l].now)
      /\ \A k \in DOMAIN runs : (runs[k].status = "running" /\ IsSchedule(k.rule))
           => Covered(k.rule, runs[k].by, runs[k].startedAt)

LEMMA OneAtWork ==
    ASSUME OneLane, HandlersSpareSchedules, failures = 0, NEW l1 \in Lanes, NEW l2 \in Lanes,
           lane[l1].pc # "idle", lane[l2].pc # "idle", WorkerOf(l1) = WorkerOf(l2),
           lane[l1].rule = lane[l2].rule, IsSchedule(lane[l1].rule)
    PROVE  l1 = l2
<1>1. l1 \in TickLanes /\ l2 \in TickLanes
  BY DEF HandlersSpareSchedules, Lanes, TickLanes, EventLanes
<1>. QED BY <1>1 DEF OneLane

LEMMA ClaimTakes ==
    ASSUME TypeInv, NEW l \in Lanes, Preclaim(l) \/ Claim(l), Working(l)'
    PROVE  LeaseTaken(lane[l].rule, l)
<1>. DEFINE r == lane[l].rule
<1>1. runtime \in [Rules -> RuntimeState] /\ lane[l] \in LaneState /\ l \in DOMAIN lane
  BY TypeParts DEF StoreTypeOK, LaneTypeOK
<1>2. r \in Rules
  <2>1. lane[l].pc # "idle"
    BY DEF Preclaim, Claim
  <2>. QED BY <2>1, TypeParts, LaneFields DEF ActivationOK
<1>3. ~Done(l)
  BY <1>1 DEF Done, IdleLane, Working
<1>4. /\ CanClaimLease(r, WorkerOf(l), lane[l].now)
      /\ ClaimLease(r, WorkerOf(l), lane[l].now)
      /\ \E pc \in {"fresh", "finally", "insert"} : Goto(l, pc)
  BY <1>3 DEF Preclaim, Claim
<1>5. /\ runtime'[r].leaseOwner = WorkerOf(l)
      /\ runtime'[r].leaseUntil = lane[l].now + LeaseMs
  BY <1>1, <1>2, <1>4 DEF ClaimLease, RuntimeState
<1>. QED BY <1>4, <1>5 DEF LeaseTaken

\* An activation at work was at work before, or it has just taken the lease.
LEMMA WorkingBefore ==
    ASSUME TypeInv, OnlyTheLivingWork, [Next]_vars, failures' = 0, NEW l \in Lanes, Working(l)'
    PROVE  /\ lane'[l].rule = lane[l].rule /\ lane'[l].now = lane[l].now
           /\ lane[l].pc # "idle"
           /\ Working(l) \/ LeaseTaken(lane[l].rule, l)
<1>1. lane'[l].pc \notin {"idle", "getRule"}
  BY DEF Working
<1>2. lane[l].pc # "idle"
  <2>1. CASE LanesRemain
    BY <1>1, <2>1 DEF LanesRemain
  <2>2. ASSUME NEW x, x \in TickLanes \/ x \in EventLanes, TakeRule(x) \/ TakeEvent(x)
        PROVE  lane'[l] = lane[l]
    BY <1>1, <2>2, TakesLane
  <2>. QED BY <1>1, <2>1, <2>2, TakesOrRemains
<1>3. Running(WorkerOf(l))'
  BY <1>1, NextLiving DEF OnlyTheLivingWork, Running
<1>4. lane'[l] = lane[l] \/ LaneStep(l)
  BY <1>2, <1>3, OthersLeave
<1>5. CASE lane'[l] = lane[l]
  BY <1>2, <1>5 DEF Working
<1>6. CASE LaneStep(l)
  <2>1. PICK a : Becomes(l, a)
    BY <1>6, LaneBecomes
  <2>2. lane'[l] = a /\ a # IdleLane
    BY <1>1, <2>1 DEF Becomes, IdleLane
  <2>3. MovesOn(lane[l], a)
    BY <1>6, <2>1, <2>2, LaneStepIsNoFailure DEF Becomes
  <2>4. lane[l].ret \in Returns /\ a.ret \in Returns
    BY <2>1, TypeParts, LaneFields DEF Becomes
  <2>5. a.rule = lane[l].rule
    BY <2>3 DEF MovesOn, SameJob
  <2>6. Working(l) \/ lane[l].pc \in {"preclaim", "claim"}
    BY <1>1, <2>2, <2>3, <2>4 DEF MovesOn, Flow, Stage, Working, Returns
  <2>7. a.now = lane[l].now
    BY <2>3, <2>6 DEF MovesOn, Working
  <2>8. lane[l].pc \in {"preclaim", "claim"} => Preclaim(l) \/ Claim(l)
    BY <1>6, StepsBegin DEF LaneStep
  <2>. QED BY <1>2, <2>2, <2>5, <2>6, <2>7, <2>8, ClaimTakes
<1>. QED BY <1>4, <1>5, <1>6

LEMMA NoAdmin ==
    ASSUME TypeInv, [Next]_vars, toggles' = 0, toggles = 0, admin = {}
    PROVE  admin' = {}
<1>1. CASE \E l \in Lanes : LaneStep(l) \/ LaneFails(l)
  BY <1>1, LaneStepWorker
<1>2. CASE (\E l \in TickLanes : TakeRule(l)) \/ (\E l \in EventLanes : TakeEvent(l))
  BY <1>2, TakesLane
<1>3. CASE \E w \in Workers : WorkerStep(w)
  BY <1>3, WorkerStepLane
<1>4. CASE Environment \/ UNCHANGED vars
  <2>1. ~(\E r \in Rules, value \in BOOLEAN : AdminRule(r, value))
    BY DEF AdminRule
  <2>2. ~(\E call \in admin : AdminRuntime(call))
    OBVIOUS
  <2>. QED BY <1>4, <2>1, <2>2 DEF Environment, ClockTick, Publish, vars
<1>. QED BY <1>1, <1>2, <1>3, <1>4 DEF Next

\* Whoever is covered stays so, or the lease changes hands in its own worker.
LEMMA StaysCovered ==
    ASSUME TypeInv, InTime, [Next]_vars, admin = {},
           NEW r \in Rules, NEW w \in Workers, NEW t \in Nat, Covered(r, w, t)
    PROVE  \/ Covered(r, w, t)'
           \/ \E l \in Lanes : /\ LeaseGiven(r, l) \/ LeaseTaken(r, l)
                               /\ lane[l].rule = r /\ WorkerOf(l) = w
<1>. /\ LeaseMs \in Nat /\ clock \in Nat /\ clock' \in Nat
     /\ \A l \in Lanes : lane[l].now \in Nat
  <2>1. TypeInv'
    BY NextType
  <2>. QED BY <2>1, TypeParts, LaneFields, StoreAssumption DEF TypeInv, TypeOK
<1>1. clock' >= clock
  BY NextInTime
<1>2. CASE t + LeaseMs < clock
  BY <1>1, <1>2 DEF Covered
<1>3. CASE runtime[r].leaseOwner = w /\ runtime[r].leaseUntil = t + LeaseMs
           /\ ~(t + LeaseMs < clock)
  <2>1. CASE LeaseKept(r)
    BY <1>3, <2>1 DEF LeaseKept, Covered
  <2>2. ASSUME NEW l \in Lanes, LeaseGiven(r, l) PROVE lane[l].rule = r /\ WorkerOf(l) = w
    BY <1>3, <2>2 DEF LeaseGiven
  <2>3. ASSUME NEW l \in Lanes, LeaseTaken(r, l) PROVE lane[l].rule = r /\ WorkerOf(l) = w
    <3>1. ~LeaseVisible(r, lane[l].now)
      BY <1>3 DEF LeaseVisible, InTime, NoTime
    <3>. QED BY <1>3, <2>3, <3>1 DEF LeaseTaken, CanClaimLease
  <2>. QED BY <2>1, <2>2, <2>3, NextLeases DEF LeaseChange, LeaseCleared
<1>. QED BY <1>2, <1>3 DEF Covered

LEMMA NextLeased ==
    ASSUME TypeInv, OnlyTheLivingWork, RunsHaveWorker, ClaimsRipe, OneLane, HandlersSpareSchedules,
           InTime, Leased, [Next]_vars
    PROVE  Leased'
<1>. SUFFICES ASSUME toggles' = 0, failures' = 0
              PROVE  /\ admin' = {}
                     /\ \A l \in Lanes : (Working(l)' /\ IsSchedule(lane'[l].rule))
                          => Covered(lane[l].rule, WorkerOf(l), lane[l].now)'
                     /\ \A k \in DOMAIN runs' : (runs'[k].status = "running" /\ IsSchedule(k.rule))
                          => Covered(k.rule, runs[k].by, runs[k].startedAt)'
  BY DEF Leased
<1>1. toggles = 0 /\ failures = 0 /\ admin = {}
  BY NextModes DEF Leased
<1>2. admin' = {}
  BY <1>1, NoAdmin
<1>3. \A l \in Lanes : LeaseGiven(lane[l].rule, l) \/ LeaseTaken(lane[l].rule, l)
                       => /\ lane[l].pc \in {"release", "finally", "preclaim", "claim"}
                          /\ lane[l].pc # "idle"
  BY StepsBegin DEF LeaseGiven, LeaseTaken
<1>4. ASSUME NEW l \in Lanes, Working(l)', IsSchedule(lane'[l].rule)
      PROVE  Covered(lane[l].rule, WorkerOf(l), lane[l].now)'
  <2>. DEFINE r == lane[l].rule
  <2>1. /\ lane'[l].rule = r /\ lane'[l].now = lane[l].now /\ lane[l].pc # "idle"
        /\ Working(l) \/ LeaseTaken(r, l)
    BY <1>4, WorkingBefore
  <2>2. CASE LeaseTaken(r, l)
    BY <2>1, <2>2 DEF LeaseTaken, Covered
  <2>3. CASE Working(l)
    <3>1. r \in Rules /\ lane[l].now \in Nat /\ WorkerOf(l) \in Workers
      BY <2>1, TypeParts, LaneFields DEF ActivationOK, Lanes, WorkerOf
    <3>2. Covered(r, WorkerOf(l), lane[l].now)
      BY <1>1, <1>4, <2>1, <2>3 DEF Leased
    <3>3. ASSUME NEW x \in Lanes, LeaseGiven(r, x) \/ LeaseTaken(r, x), lane[x].rule = r,
                 WorkerOf(x) = WorkerOf(l)
          PROVE  FALSE
      <4>1. x = l
        BY <1>1, <1>3, <1>4, <2>1, <3>3, OneAtWork
      <4>2. lane[l].pc \in {"release", "finally", "preclaim", "claim"}
        BY <1>3, <3>3, <4>1
      <4>3. Release(l)
        BY <2>3, <3>3, <4>1, <4>2, StepsBegin DEF Working, LeaseGiven, LeaseTaken
      <4>4. lane'[l].pc \in {"finally", "idle"}
        <5>1. lane[l] \in LaneState /\ l \in DOMAIN lane
          BY TypeParts DEF LaneTypeOK
        <5>. QED BY <4>3, <5>1 DEF Release, Return, Goto, Done, IdleLane, LaneState
      <4>. QED BY <1>4, <4>4 DEF Working
    <3>4. Covered(r, WorkerOf(l), lane[l].now)' \/ Covered(r, WorkerOf(l), lane[l].now)
      BY <3>2
    <3>. HIDE DEF r
    <3>5. ASSUME NEW t \in Nat, t = lane[l].now, NEW s \in Rules, s = r
          PROVE  Covered(s, WorkerOf(l), t)'
      BY <1>1, <3>1, <3>2, <3>3, <3>5, StaysCovered
    <3>. QED BY <2>1, <3>1, <3>5 DEF Covered, r
  <2>. QED BY <2>1, <2>2, <2>3
<1>5. ASSUME NEW k \in DOMAIN runs', runs'[k].status = "running", IsSchedule(k.rule)
      PROVE  Covered(k.rule, runs[k].by, runs[k].startedAt)'
  <2>1. CASE k \notin DOMAIN runs
    <3>1. PICK l \in Lanes : Insert(l) /\ lane[l].key = k /\ runs'[k].by = WorkerOf(l)
                             /\ runs'[k].startedAt = lane[l].now
      BY <2>1, NextRuns DEF RunsGrow
    <3>2. lane[l].pc = "insert" /\ UNCHANGED <<runtime, clock>>
      BY <3>1 DEF Insert, laneFrame, catchFrame
    <3>3. k.rule = lane[l].rule
      BY <3>1, <3>2 DEF ClaimsRipe, Ripe, Stage, KeyStages
    <3>4. Covered(k.rule, WorkerOf(l), lane[l].now)
      BY <1>1, <1>5, <3>2, <3>3 DEF Leased, Working
    <3>. QED BY <3>1, <3>2, <3>4 DEF Covered
  <2>2. CASE k \in DOMAIN runs
    <3>1. /\ runs'[k].by = runs[k].by /\ runs'[k].startedAt = runs[k].startedAt
          /\ runs[k].status = "running"
      BY <1>5, <2>2, NextRuns DEF RunsGrow
    <3>2. runs[k].by \in Workers /\ runs[k].startedAt \in Nat /\ k.rule \in Rules
      BY <2>2, TypeParts DEF StoreTypeOK, Run, RunKey
    <3>3. ASSUME NEW x \in Lanes, LeaseGiven(k.rule, x) \/ LeaseTaken(k.rule, x),
                 lane[x].rule = k.rule, WorkerOf(x) = runs[k].by
          PROVE  FALSE
      <4>1. lane[x].pc \in {"release", "finally", "preclaim", "claim"}
        BY <1>3, <3>3
      <4>2. Running(runs[k].by)
        BY <3>3, <4>1 DEF OnlyTheLivingWork
      <4>3. PICK y \in Lanes : WorkerOf(y) = runs[k].by /\ WorksOn(y, k)
        BY <1>1, <2>2, <3>1, <4>2 DEF RunsHaveWorker
      <4>4. lane[y].rule = k.rule
        BY <4>3 DEF WorksOn, AtWork, ClaimsRipe, Ripe, KeyStages
      <4>5. lane[y].pc # "idle"
        BY <4>3 DEF WorksOn, AtWork, Stage
      <4>6. x = y
        BY <1>1, <1>5, <3>3, <4>1, <4>3, <4>4, <4>5, OneAtWork
      <4>. QED BY <4>1, <4>3, <4>6 DEF WorksOn, AtWork, Stage
    <3>4. Covered(k.rule, runs[k].by, runs[k].startedAt)
      BY <1>1, <1>5, <2>2, <3>1 DEF Leased
    <3>5. ASSUME NEW s \in Rules, s = k.rule, NEW w \in Workers, w = runs[k].by,
                 NEW t \in Nat, t = runs[k].startedAt
          PROVE  Covered(s, w, t)'
      BY <1>1, <3>3, <3>4, <3>5, StaysCovered
    <3>. QED BY <3>1, <3>2, <3>5 DEF Covered
  <2>. QED BY <2>1, <2>2
<1>. QED BY <1>2, <1>4, <1>5

LEMMA InitLeased == Init => Leased
<1>1. SUFFICES ASSUME Init PROVE Leased
  OBVIOUS
<1>2. \A l \in Lanes : lane[l].pc = "idle"
  BY <1>1 DEF Init, IdleLane
<1>3. DOMAIN runs = {} /\ admin = {}
  BY <1>1 DEF Init
<1>. QED BY <1>2, <1>3 DEF Leased, Working
-----------------------------------------------------------------------------
\* Everything the lease of a schedule rests on.
LeaseInv ==
    /\ OnlyTheLivingWork /\ ReportsCalled /\ RunsHaveWorker /\ ClaimsRipe
    /\ OneLane /\ HandlersSpareSchedules /\ InTime /\ Leased

LEMMA LeaseInvariant == Spec => [](TypeInv /\ LeaseInv)
<1>1. Init => LeaseInv
  BY InitLiving, InitReports, InitHaveWorker, InitRipe, InitOneLane, InitInTime, InitLeased
     DEF LeaseInv
<1>2. ASSUME TypeInv, LeaseInv, [Next]_vars PROVE LeaseInv'
  BY <1>2, NextLiving, NextReports, NextHaveWorker, NextRipe, NextOneLane, NextSpareSchedules,
     NextInTime, NextLeased DEF LeaseInv
<1>. QED BY <1>1, <1>2, TypeInvariant, PTL DEF Spec

LEMMA LeasedExclusive ==
    ASSUME TypeInv, LeaseInv
    PROVE  LeaseExclusive
<1>1. ASSUME NEW l1 \in Lanes, NEW l2 \in Lanes, WorkerOf(l1) # WorkerOf(l2),
             Working(l1), Working(l2), lane[l1].rule = lane[l2].rule,
             Undisturbed(lane[l1].rule)
      PROVE  Outlived(l1) \/ Outlived(l2)
  <2>1. /\ Covered(lane[l1].rule, WorkerOf(l1), lane[l1].now)
        /\ Covered(lane[l2].rule, WorkerOf(l2), lane[l2].now)
    BY <1>1 DEF LeaseInv, Leased, Undisturbed, IsSchedule
  <2>. QED BY <1>1, <2>1 DEF Covered, Outlived
<1>. QED BY <1>1 DEF LeaseExclusive

\* The lease of a schedule is a mutual exclusion between workers as long as it
\* lasts: claimLease refuses whoever comes meanwhile, and nobody else clears it.
THEOREM LeaseExcludes == Spec => []LeaseExclusive
BY LeaseInvariant, LeasedExclusive, PTL

LEMMA NextSettled ==
    ASSUME TypeInv, LeaseInv, [Next]_vars, NEW k \in DOMAIN runs,
           runs[k].status = "running", runs'[k].status # "running", Undisturbed(k.rule)
    PROVE  \/ runs[k].startedAt + LeaseMs <= clock
           \/ \E l \in Lanes : /\ lane[l].key = k
                               /\ \/ lane[l].pc = "finish"
                                  \/ lane[l].pc = "finishStale" /\ Outlived(l)
<1>. USE DEF LeaseInv
<1>. /\ LeaseMs \in Nat /\ clock \in Nat
     /\ runs[k].by \in Workers /\ runs[k].startedAt \in Nat
     /\ \A w \in Workers : tick[w].now \in Nat
  BY TypeParts, StoreAssumption DEF TypeInv, TypeOK, StoreTypeOK, Run, TickState
<1>1. CASE UNCHANGED runs
  BY <1>1
<1>2. ASSUME NEW status, NEW key, FinishRun(key, status) PROVE k = key
  BY <1>2 DEF FinishRun
<1>3. ASSUME NEW l \in Lanes, Insert(l) PROVE FALSE
  BY <1>1, <1>3 DEF Insert, InsertRun
<1>4. ASSUME NEW l \in Lanes, Finish(l) PROVE lane[l].key = k /\ lane[l].pc = "finish"
  BY <1>2, <1>4 DEF Finish
<1>5. ASSUME NEW l \in Lanes, FinishStale(l)
      PROVE  /\ lane[l].key = k /\ lane[l].pc = "finishStale"
             /\ Outlived(l) \/ runs[k].startedAt + LeaseMs <= clock
  <2>1. lane[l].key = k /\ lane[l].pc = "finishStale"
    BY <1>2, <1>5 DEF FinishStale
  <2>2. lane[l].rule = k.rule
    BY <2>1 DEF ClaimsRipe, Ripe, Stage, KeyStages
  <2>3. /\ Covered(k.rule, WorkerOf(l), lane[l].now)
        /\ Covered(k.rule, runs[k].by, runs[k].startedAt)
    BY <2>1, <2>2 DEF Leased, Undisturbed, IsSchedule, Working
  <2>4. WorkerOf(l) # runs[k].by
    <3>. SUFFICES ASSUME WorkerOf(l) = runs[k].by PROVE FALSE
      OBVIOUS
    <3>1. Running(runs[k].by)
      BY <2>1 DEF OnlyTheLivingWork
    <3>2. PICK y \in Lanes : WorkerOf(y) = runs[k].by /\ WorksOn(y, k)
      BY <3>1 DEF RunsHaveWorker, Undisturbed
    <3>3. lane[y].rule = k.rule
      BY <3>2 DEF WorksOn, AtWork, ClaimsRipe, Ripe, KeyStages
    <3>4. lane[y].pc \notin {"idle", "finishStale"}
      BY <3>2 DEF WorksOn, AtWork, Stage
    <3>5. y = l
      BY <2>1, <2>2, <3>2, <3>3, <3>4, OneAtWork DEF Undisturbed, IsSchedule
    <3>. QED BY <2>1, <3>4, <3>5
  <2>. QED BY <2>1, <2>3, <2>4 DEF Covered, Outlived
<1>6. ASSUME NEW w \in Workers, Sweep(w) PROVE runs[k].startedAt + LeaseMs <= clock
  <2>1. IsStale(k, tick[w].now)
    BY <1>6 DEF Sweep, MarkStaleRunsUnknown
  <2>2. runs[k].startedAt <= tick[w].now - LeaseMs /\ tick[w].now <= clock
    BY <2>1 DEF IsStale, InTime
  <2>. QED BY <2>2
<1>7. ASSUME NEW l \in Lanes, LaneStep(l), ~Insert(l), ~Finish(l), ~FinishStale(l)
      PROVE  UNCHANGED runs
  BY <1>7 DEF LaneStep, GetRule, GetRuntimeOfSchedule, GetRuntimeOfDebounce,
     GetRuntimeOfEvent, Preclaim, FreshDebounce, FreshEvent, Enter, Read, Write, Claim,
     Conflict, Authorize, Dispatch, DispatchReturns, Release, Finally, storeVars
<1>8. CASE \E l \in Lanes : LaneFails(l)
  BY <1>1, <1>8, LaneFailsMoves DEF storeVars
<1>9. CASE (\E l \in TickLanes : TakeRule(l)) \/ (\E l \in EventLanes : TakeEvent(l))
  BY <1>1, <1>9, TakesLane DEF storeVars
<1>10. CASE \E w \in Workers : WorkerStep(w)
  BY <1>1, <1>6, <1>10, WorkerStepLane
<1>11. CASE Environment \/ UNCHANGED vars
  BY <1>1, <1>11, EnvironmentLane DEF vars
<1>12. CASE \E l \in Lanes : LaneStep(l)
  BY <1>1, <1>3, <1>4, <1>5, <1>7, <1>12
<1>. QED BY <1>8, <1>9, <1>10, <1>11, <1>12 DEF Next

\* The run of a schedule that is still being worked on is settled by its owner:
\* the sweep of stale runs and tryInsertRun's loser wait until a lease has run out.
THEOREM OwnerSettles == Spec => SettledByOwner
<1>1. ASSUME TypeInv, LeaseInv, [Next]_vars
      PROVE  [\A k \in DOMAIN runs :
         (runs[k].status = "running" /\ runs'[k].status # "running" /\ Undisturbed(k.rule))
         => \/ runs[k].startedAt + LeaseMs <= clock
            \/ \E l \in Lanes : /\ lane[l].key = k
                                /\ \/ lane[l].pc = "finish"
                                   \/ lane[l].pc = "finishStale" /\ Outlived(l)]_vars
  BY <1>1, NextSettled
<1>. QED BY <1>1, LeaseInvariant, PTL DEF Spec, SettledByOwner
-----------------------------------------------------------------------------
(***************************************************************************)
(* The rate limit.  The window forgets nothing that an activation which    *)
(* was not overtaken would have to count: when it drops a run that began   *)
(* at s, either something that began one window later has been let pass,   *)
(* or it is full of what began after s.                                    *)
(***************************************************************************)
Passed(k) ==
    \/ k \in DOMAIN calls
    \/ \E l \in Lanes : lane[l].pc = "dispatch" /\ lane[l].key = k

Entry(k, at) == [key |-> k, at |-> at]

Later(W, s) == {c \in W : s < c.at}

Closed(W, s) ==
    \/ \E c \in W : s + Minute <= c.at
    \/ MaxActionsPerMinute <= Cardinality(Later(W, s))

\* An activation that owns a run inserted it, with its own worker and instant.
OwnersBegan ==
    \A l \in Lanes : Owns(lane[l]) => /\ runs[lane[l].key].by = WorkerOf(l)
                                      /\ runs[lane[l].key].startedAt = lane[l].now

\* A process that has ended has lost its window, and lets nothing pass any more.
Ended(m) == m \in {"exited", "crashed"}

WindowsFinite == \A w \in Workers : IsFiniteSet(window[w])

PassedAreKept ==
    \A k \in DOMAIN runs : Passed(k) =>
        \/ Ended(mode[runs[k].by])
        \/ Entry(k, runs[k].startedAt) \in window[runs[k].by]
        \/ Closed(window[runs[k].by], runs[k].startedAt)

RateInv == OwnersBegan /\ WindowsFinite /\ PassedAreKept

LEMMA OwnsIsStage ==
    ASSUME NEW a, a.ret \in Returns
    PROVE  Owns(a) <=> Stage(a) \in {"authorize", "dispatch"}
BY DEF Owns, OwnerPCs, Stage, Returns

\* What else happens to the lanes: nothing, they end, or they begin.
LEMMA OtherSteps ==
    ASSUME TypeInv, [Next]_vars, ~(\E l \in Lanes : LaneStep(l) \/ LaneFails(l))
    PROVE  /\ \A x \in Lanes : lane'[x] = lane[x] \/ lane'[x].pc \in {"idle", "getRule"}
           /\ UNCHANGED calls
           /\ \A w \in Workers : window'[w] = window[w] \/ (window'[w] = {} /\ Ended(mode'[w]))
<1>1. CASE \/ \E l \in TickLanes : TakeRule(l)
           \/ \E l \in EventLanes : TakeEvent(l)
  <2>1. UNCHANGED window
    BY <1>1 DEF TakeRule, TakeEvent, tickFrame
  <2>. QED BY <1>1, <2>1, TakesLane
<1>2. CASE \E w \in Workers : WorkerStep(w)
  <2>1. IdleLane.pc = "idle"
    BY DEF IdleLane
  <2>2. PICK v \in Workers : WorkerStep(v)
    BY <1>2
  <2>3. CASE Exit(v) \/ Crash(v)
    <3>1. PICK how \in {"exited", "crashed"} : Die(v, how)
      BY <2>3 DEF Exit, Crash
    <3>2. mode' = [mode EXCEPT ![v] = how] /\ window' = [window EXCEPT ![v] = {}]
      BY <3>1 DEF Die
    <3>3. DOMAIN mode = Workers /\ DOMAIN window = Workers
      BY TypeParts DEF RestTypeOK
    <3>4. \A w \in Workers : window'[w] = window[w] \/ (window'[w] = {} /\ Ended(mode'[w]))
      BY <3>2, <3>3 DEF Ended
    <3>. QED BY <2>1, <2>2, <3>4, WorkerStepLane
  <2>4. CASE ~(Exit(v) \/ Crash(v))
    <3>1. UNCHANGED window
      BY <2>2, <2>4 DEF WorkerStep, Start, Stop, HandleEvent, HandleEventThrows, TickThrows,
         TickStep, TickStart, Sweep, ListUnscheduled, SeedStops, ListDueSchedule,
         ListDueStatusDebounce, TickEnd, tickFrame
    <3>. QED BY <2>1, <2>2, <3>1, WorkerStepLane
  <2>. QED BY <2>3, <2>4
<1>3. CASE Environment \/ UNCHANGED vars
  BY <1>3, EnvironmentLane DEF vars, workerVars
<1>. QED BY <1>1, <1>2, <1>3 DEF Next

\* Only Authorize writes the window, only Dispatch calls.
LEMMA LaneStepWindow ==
    ASSUME TypeInv, NEW l \in Lanes, LaneStep(l) \/ LaneFails(l)
    PROVE  /\ UNCHANGED window \/ (LaneStep(l) /\ Authorize(l))
           /\ UNCHANGED calls \/ (lane[l].pc = "dispatch" /\ DOMAIN calls' = DOMAIN calls \cup {lane[l].key})
<1>1. CASE LaneStep(l)
  <2>1. Dispatch(l) => lane[l].pc = "dispatch" /\ DOMAIN calls' = DOMAIN calls \cup {lane[l].key}
    BY DEF Dispatch
  <2>2. ~Dispatch(l) => UNCHANGED calls
    BY <1>1 DEF LaneStep, GetRule, GetRuntimeOfSchedule, GetRuntimeOfDebounce,
       GetRuntimeOfEvent, Preclaim, FreshDebounce, FreshEvent, Enter, Read, Write, Claim, Insert,
       Conflict, FinishStale, Authorize, DispatchReturns, Finish, Release, Finally
  <2>3. ~Authorize(l) => UNCHANGED window
    BY <1>1 DEF LaneStep, GetRule, GetRuntimeOfSchedule, GetRuntimeOfDebounce,
       GetRuntimeOfEvent, Preclaim, FreshDebounce, FreshEvent, Enter, Read, Write, Claim, Insert,
       Conflict, FinishStale, Dispatch, DispatchReturns, Finish, Release, Finally
  <2>. QED BY <1>1, <2>1, <2>2, <2>3
<1>2. CASE LaneFails(l)
  BY <1>2, LaneFailsMoves
<1>. QED BY <1>1, <1>2

\* An activation reaches the dispatcher by Authorize, with its key and instant.
LEMMA ReachesDispatch ==
    ASSUME TypeInv, [Next]_vars, NEW x \in Lanes, lane'[x].pc = "dispatch", lane'[x] # lane[x]
    PROVE  /\ LaneStep(x) /\ Authorize(x)
           /\ lane'[x].key = lane[x].key /\ lane'[x].now = lane[x].now
           /\ \A y \in Lanes \ {x} : lane'[y] = lane[y]
<1>1. PICK l \in Lanes : LaneStep(l) \/ LaneFails(l)
  BY OtherSteps
<1>2. PICK a : Becomes(l, a)
  BY <1>1, LaneBecomes
<1>3. x = l /\ a = lane'[x]
  BY <1>2 DEF Becomes
<1>4. LaneStep(x) /\ MovesOn(lane[x], a)
  BY <1>2, <1>3 DEF Becomes, IdleLane, LeftBy
<1>5. lane[x].pc = "authorize"
  <2>1. lane[x].ret \in Returns
    BY TypeParts, LaneFields
  <2>2. Stage(a) = "dispatch"
    BY <1>3 DEF Stage
  <2>. QED BY <1>3, <1>4, <2>1, <2>2 DEF MovesOn, Flow, Stage, Returns
<1>6. Authorize(x)
  BY <1>4, <1>5, StepsBegin DEF LaneStep
<1>7. a.key = lane[x].key /\ a.now = lane[x].now
  BY <1>4, <1>5 DEF MovesOn
<1>. QED BY <1>2, <1>3, <1>4, <1>6, <1>7 DEF Becomes

\* Who has been let pass was so before, or is by this step.
LEMMA NewlyPassed ==
    ASSUME TypeInv, [Next]_vars, NEW k, Passed(k)', ~Passed(k)
    PROVE  \E l \in Lanes : /\ LaneStep(l) /\ Authorize(l) /\ lane[l].key = k
                            /\ lane[l].pc = "authorize" /\ lane'[l].pc = "dispatch"
<1>1. k \notin DOMAIN calls'
  <2>1. SUFFICES ASSUME k \in DOMAIN calls' PROVE FALSE
    OBVIOUS
  <2>2. k \notin DOMAIN calls
    BY DEF Passed
  <2>3. PICK l \in Lanes : LaneStep(l) \/ LaneFails(l)
    BY <2>1, <2>2, OtherSteps
  <2>4. lane[l].pc = "dispatch" /\ k = lane[l].key
    BY <2>1, <2>2, <2>3, LaneStepWindow
  <2>. QED BY <2>4 DEF Passed
<1>2. PICK l \in Lanes : lane'[l].pc = "dispatch" /\ lane'[l].key = k
  BY <1>1 DEF Passed
<1>3. lane'[l] # lane[l]
  BY <1>2 DEF Passed
<1>4. LaneStep(l) /\ Authorize(l) /\ lane'[l].key = lane[l].key
  BY <1>2, <1>3, ReachesDispatch
<1>. QED BY <1>2, <1>4, StepsBegin

LEMMA InitRate == Init => RateInv
<1>1. ASSUME Init PROVE RateInv
  <2>1. IdleLane.pc = "idle"
    BY DEF IdleLane
  <2>2. OwnersBegan
    BY <1>1, <2>1 DEF Init, OwnersBegan, Owns, OwnerPCs
  <2>3. WindowsFinite
    BY <1>1, FS_EmptySet DEF Init, WindowsFinite
  <2>4. PassedAreKept
    BY <1>1 DEF Init, PassedAreKept
  <2>. QED BY <2>2, <2>3, <2>4 DEF RateInv
<1>. QED BY <1>1

LEMMA NextOwnersBegan ==
    ASSUME TypeInv, OwnInv, OwnersBegan, [Next]_vars
    PROVE  OwnersBegan'
<1>1. RunsGrow
  BY NextRuns
<1>2. ASSUME NEW x \in Lanes, Owns(lane'[x]), Owns(lane[x]),
             lane'[x].key = lane[x].key, lane'[x].now = lane[x].now
      PROVE  runs'[lane'[x].key].by = WorkerOf(x) /\ runs'[lane'[x].key].startedAt = lane'[x].now
  <2>1. lane[x].key \in DOMAIN runs
    BY <1>2 DEF OwnInv, OwnedIsNew
  <2>. QED BY <1>1, <1>2, <2>1 DEF OwnersBegan, RunsGrow
<1>3. ASSUME NEW x \in Lanes, Owns(lane'[x]), lane'[x] # lane[x]
      PROVE  runs'[lane'[x].key].by = WorkerOf(x) /\ runs'[lane'[x].key].startedAt = lane'[x].now
  <2>1. PICK l \in Lanes : LaneStep(l) \/ LaneFails(l)
    BY <1>3, OtherSteps DEF Owns, OwnerPCs
  <2>2. PICK a : Becomes(l, a)
    BY <2>1, LaneBecomes
  <2>3. x = l /\ a = lane'[x] /\ a.ret \in Returns /\ lane[x].ret \in Returns
    BY <1>3, <2>2, TypeParts, LaneFields DEF Becomes
  <2>4. LaneStep(x) /\ MovesOn(lane[x], a)
    BY <1>3, <2>2, <2>3 DEF Becomes, IdleLane, LeftBy, Owns, OwnerPCs
  <2>5. Stage(a) \in {"authorize", "dispatch"}
    BY <1>3, <2>3, OwnsIsStage
  <2>6. Owns(lane[x]) \/ lane[x].pc = "insert"
    BY <2>3, <2>4, <2>5, OwnsIsStage DEF MovesOn, Flow, Stage, Returns
  <2>7. a.key = lane[x].key /\ a.now = lane[x].now
    BY <2>4, <2>6 DEF MovesOn, Owns, OwnerPCs
  <2>8. CASE Owns(lane[x])
    BY <1>2, <1>3, <2>3, <2>7, <2>8
  <2>9. CASE lane[x].pc = "insert"
    <3>1. Insert(x)
      BY <2>4, <2>9, StepsBegin DEF LaneStep
    <3>2. ~Goto(x, "conflict")
      <4>1. lane[x] \in LaneState /\ x \in DOMAIN lane
        BY TypeParts DEF LaneTypeOK
      <4>. QED BY <2>3, <2>5, <4>1 DEF Goto, Stage, LaneState
    <3>3. InsertRun(lane[x].key, lane[x].now, WorkerOf(x))
      BY <3>1, <3>2 DEF Insert
    <3>. QED BY <2>3, <2>7, <3>3 DEF InsertRun
  <2>. QED BY <2>6, <2>8, <2>9
<1>. QED BY <1>2, <1>3 DEF OwnersBegan

\* What Authorize does to the window of its worker.
LEMMA AuthorizeWindow ==
    ASSUME TypeInv, WindowsFinite, NEW l \in Lanes, Authorize(l)
    PROVE  /\ WorkerOf(l) \in Workers /\ lane[l].now \in Nat
           /\ \A w \in Workers \ {WorkerOf(l)} : window'[w] = window[w]
           /\ IsFiniteSet(Recent(l)) /\ Cardinality(Recent(l)) \in Nat
           /\ \/ window'[WorkerOf(l)] = window[WorkerOf(l)] /\ lane'[l].pc # "dispatch"
              \/ /\ MaxActionsPerMinute <= Cardinality(Recent(l))
                 /\ window'[WorkerOf(l)] = Recent(l) /\ lane'[l].pc # "dispatch"
              \/ /\ Cardinality(Recent(l)) < MaxActionsPerMinute
                 /\ window'[WorkerOf(l)] = Recent(l) \cup {Entry(lane[l].key, lane[l].now)}
<1>. DEFINE w == WorkerOf(l)
            e == Entry(lane[l].key, lane[l].now)
<1>1. /\ w \in Workers /\ lane[l].now \in Nat /\ lane[l] \in LaneState /\ l \in DOMAIN lane
      /\ DOMAIN window = Workers
  BY TypeParts, LaneFields DEF RestTypeOK, LaneTypeOK
<1>2. IsFiniteSet(Recent(l)) /\ Cardinality(Recent(l)) \in Nat
  <2>1. Recent(l) \in SUBSET window[w]
    BY DEF Recent
  <2>2. IsFiniteSet(window[w])
    BY <1>1 DEF WindowsFinite
  <2>. QED BY <2>1, <2>2, FS_Subset, FS_CardinalityType
<1>3. MaxActionsPerMinute \in Nat
  BY SchedulerAssumption
<1>4. \A s : Completing(l, s).pc = "finish"
  BY <1>1 DEF Completing, LaneState
<1>5. \/ lane' = [lane EXCEPT ![l] = Completing(l, "denied")] /\ UNCHANGED window
      \/ /\ ~(Cardinality(Recent(l)) < MaxActionsPerMinute)
         /\ lane' = [lane EXCEPT ![l] = Completing(l, "skipped")]
         /\ window' = [window EXCEPT ![w] = Recent(l)]
      \/ /\ Cardinality(Recent(l)) < MaxActionsPerMinute
         /\ window' = [window EXCEPT ![w] = Recent(l) \cup {e}]
  BY DEF Authorize, Entry
<1>6. CASE lane' = [lane EXCEPT ![l] = Completing(l, "denied")] /\ UNCHANGED window
  BY <1>1, <1>2, <1>4, <1>6
<1>7. CASE /\ ~(Cardinality(Recent(l)) < MaxActionsPerMinute)
           /\ lane' = [lane EXCEPT ![l] = Completing(l, "skipped")]
           /\ window' = [window EXCEPT ![w] = Recent(l)]
  <2>1. MaxActionsPerMinute <= Cardinality(Recent(l))
    BY <1>2, <1>3, <1>7
  <2>2. lane'[l].pc # "dispatch"
    BY <1>1, <1>4, <1>7
  <2>. QED BY <1>1, <1>2, <1>7, <2>1, <2>2
<1>8. CASE /\ Cardinality(Recent(l)) < MaxActionsPerMinute
           /\ window' = [window EXCEPT ![w] = Recent(l) \cup {e}]
  BY <1>1, <1>2, <1>8
<1>. QED BY <1>5, <1>6, <1>7, <1>8

LEMMA NextFinite ==
    ASSUME TypeInv, WindowsFinite, [Next]_vars
    PROVE  WindowsFinite'
<1>1. ASSUME NEW l \in Lanes, Authorize(l), NEW w \in Workers PROVE IsFiniteSet(window'[w])
  <2>1. \A v \in Workers : IsFiniteSet(window[v])
    BY DEF WindowsFinite
  <2>2. CASE w # WorkerOf(l)
    BY <1>1, <2>1, <2>2, AuthorizeWindow
  <2>3. CASE w = WorkerOf(l)
    <3>1. IsFiniteSet(Recent(l) \cup {Entry(lane[l].key, lane[l].now)})
      BY <1>1, AuthorizeWindow, FS_AddElement
    <3>. QED BY <1>1, <2>1, <2>3, <3>1, AuthorizeWindow
  <2>. QED BY <2>2, <2>3
<1>2. CASE \E l \in Lanes : LaneStep(l) \/ LaneFails(l)
  BY <1>1, <1>2, LaneStepWindow DEF WindowsFinite
<1>3. CASE ~(\E l \in Lanes : LaneStep(l) \/ LaneFails(l))
  <2>1. \A w \in Workers : IsFiniteSet(window'[w])
    BY <1>3, OtherSteps, FS_EmptySet DEF WindowsFinite
  <2>. QED BY <2>1 DEF WindowsFinite
<1>. QED BY <1>2, <1>3

(***************************************************************************)
(* An attempt at the instant n drops what began one window before it.  If  *)
(* s is one window before n, it is closed by the entry the attempt adds,   *)
(* or by the full window that refused it; if not, what began after s stays.*)
(***************************************************************************)
LEMMA AttemptCloses ==
    ASSUME NEW W, NEW V, IsFiniteSet(W), IsFiniteSet(V),
           \A c \in W \cup V : c.at \in Nat,
           NEW n \in Nat, NEW s \in Nat,
           \A c \in W : n - Minute < c.at => c \in V,
           \/ \E c \in V : c.at = n
           \/ /\ MaxActionsPerMinute <= Cardinality(V)
              /\ \A c \in V : n - Minute < c.at,
           Closed(W, s) \/ s + Minute <= n
    PROVE  Closed(V, s)
<1>. Minute \in Nat /\ MaxActionsPerMinute \in Nat
  BY SchedulerAssumption
<1>1. CASE s + Minute <= n
  <2>1. CASE \E c \in V : c.at = n
    BY <1>1, <2>1 DEF Closed
  <2>2. CASE /\ MaxActionsPerMinute <= Cardinality(V)
             /\ \A c \in V : n - Minute < c.at
    <3>1. Later(V, s) = V
      BY <1>1, <2>2 DEF Later
    <3>. QED BY <2>2, <3>1 DEF Closed
  <2>. QED BY <2>1, <2>2
<1>2. CASE ~(s + Minute <= n)
  <2>1. \A c \in W : s <= c.at => c \in V
    BY <1>2
  <2>2. CASE \E c \in W : s + Minute <= c.at
    BY <2>1, <2>2 DEF Closed
  <2>3. CASE MaxActionsPerMinute <= Cardinality(Later(W, s))
    <3>1. Later(W, s) \subseteq Later(V, s) /\ Later(V, s) \subseteq V /\ Later(W, s) \subseteq W
      BY <2>1 DEF Later
    <3>2. IsFiniteSet(Later(V, s)) /\ IsFiniteSet(Later(W, s))
      BY <3>1, FS_Subset
    <3>3. Cardinality(Later(W, s)) <= Cardinality(Later(V, s))
      BY <3>1, <3>2, FS_Subset
    <3>4. Cardinality(Later(W, s)) \in Nat /\ Cardinality(Later(V, s)) \in Nat
      BY <3>2, FS_CardinalityType
    <3>. QED BY <2>3, <3>3, <3>4 DEF Closed
  <2>. QED BY <1>2, <2>2, <2>3 DEF Closed
<1>. QED BY <1>1, <1>2

LEMMA AuthorizeCloses ==
    ASSUME TypeInv, TypeInv', WindowsFinite, WindowsFinite', NEW l \in Lanes, Authorize(l),
           NEW w \in Workers, NEW s \in Nat
    PROVE  /\ Closed(window[w], s) => Closed(window'[w], s)
           /\ \A c \in window[w] : c.at = s => c \in window'[w] \/ Closed(window'[w], s)
<1>1. CASE window'[w] = window[w]
  BY <1>1
<1>2. CASE window'[w] # window[w]
  <2>. DEFINE n == lane[l].now
              e == Entry(lane[l].key, n)
              W == window[w]
              V == window'[w]
  <2>1. w = WorkerOf(l) /\ n \in Nat /\ Cardinality(Recent(l)) \in Nat
    BY <1>2, AuthorizeWindow
  <2>2. \/ MaxActionsPerMinute <= Cardinality(Recent(l)) /\ V = Recent(l)
        \/ V = Recent(l) \cup {e}
    BY <1>2, <2>1, AuthorizeWindow
  <2>3. IsFiniteSet(W) /\ IsFiniteSet(V)
    BY DEF WindowsFinite
  <2>4. \A c \in W \cup V : c.at \in Nat
    <3>1. window \in [Workers -> SUBSET [key : RunKey, at : Nat]]
      BY TypeParts DEF RestTypeOK
    <3>2. window' \in [Workers -> SUBSET [key : RunKey, at : Nat]]
      BY DEF TypeInv, TypeOK
    <3>3. W \cup V \subseteq [key : RunKey, at : Nat]
      BY <3>1, <3>2
    <3>. QED BY <3>3
  <2>5. \A c \in W : n - Minute < c.at => c \in V
    BY <2>1, <2>2, <2>4 DEF Recent
  <2>6. \/ \E c \in V : c.at = n
        \/ /\ MaxActionsPerMinute <= Cardinality(V)
           /\ \A c \in V : n - Minute < c.at
    <3>1. CASE V = Recent(l) \cup {e}
      <4>1. e \in V /\ e.at = n
        BY <3>1 DEF Entry
      <4>. QED BY <4>1
    <3>2. CASE MaxActionsPerMinute <= Cardinality(Recent(l)) /\ V = Recent(l)
      <4>1. \A c \in Recent(l) : n - Minute < c.at
        BY <2>1, <2>4 DEF Recent
      <4>. QED BY <3>2, <4>1
    <3>. QED BY <2>2, <3>1, <3>2
  <2>. HIDE DEF W, V, n, e
  <2>7. Closed(W, s) \/ s + Minute <= n => Closed(V, s)
    BY <2>1, <2>3, <2>4, <2>5, <2>6, AttemptCloses
  <2>8. ASSUME NEW c \in W, c.at = s, c \notin V PROVE s + Minute <= n
    <3>1. Minute \in Nat
      BY SchedulerAssumption
    <3>. QED BY <2>1, <2>5, <2>8, <3>1
  <2>. QED BY <2>7, <2>8 DEF W, V
<1>. QED BY <1>1, <1>2

LEMMA NextKept ==
    ASSUME TypeInv, OwnInv, RateInv, OnlyTheLivingWork, [Next]_vars
    PROVE  PassedAreKept'
<1>1. RunsGrow /\ TypeInv' /\ WindowsFinite' /\ WindowsFinite /\ OwnersBegan
  BY NextRuns, NextType, NextFinite DEF RateInv
<1>2. ASSUME NEW k \in DOMAIN runs, ~Ended(mode'[runs[k].by]), Passed(k)
      PROVE  \/ Entry(k, runs[k].startedAt) \in window'[runs[k].by]
             \/ Closed(window'[runs[k].by], runs[k].startedAt)
  <2>. DEFINE w == runs[k].by
              s == runs[k].startedAt
  <2>1. w \in Workers /\ s \in Nat
    BY TypeParts DEF StoreTypeOK, Run
  <2>2. ~Ended(mode[w])
    <3>1. /\ mode \in [Workers -> {"new", "up", "stopping", "exited", "crashed"}]
          /\ mode' \in [Workers -> {"new", "up", "stopping", "exited", "crashed"}]
      BY <1>1, TypeParts DEF RestTypeOK, TypeInv, TypeOK
    <3>2. mode'[w] \in {"new", "up", "stopping"}
      BY <1>2, <2>1, <3>1 DEF Ended
    <3>3. mode[w] \in {"new", "up", "stopping"}
      BY <2>1, <3>1, <3>2, NextModes DEF Running
    <3>. QED BY <3>3 DEF Ended
  <2>3. Entry(k, s) \in window[w] \/ Closed(window[w], s)
    BY <1>2, <2>2 DEF RateInv, PassedAreKept
  <2>. HIDE DEF w, s
  <2>4. CASE window'[w] = window[w]
    BY <2>3, <2>4 DEF w, s
  <2>5. CASE \E l \in Lanes : Authorize(l)
    <3>1. Entry(k, s).at = s
      BY DEF Entry
    <3>2. Entry(k, s) \in window'[w] \/ Closed(window'[w], s)
      BY <1>1, <2>1, <2>3, <2>5, <3>1, AuthorizeCloses
    <3>. QED BY <3>2 DEF w, s
  <2>6. window'[w] = window[w] \/ \E l \in Lanes : Authorize(l)
    <3>1. CASE \E l \in Lanes : LaneStep(l) \/ LaneFails(l)
      BY <3>1, LaneStepWindow
    <3>2. CASE ~(\E l \in Lanes : LaneStep(l) \/ LaneFails(l))
      <4>1. ~Ended(mode'[w])
        BY <1>2 DEF w
      <4>. QED BY <2>1, <3>2, <4>1, OtherSteps
    <3>. QED BY <3>1, <3>2
  <2>. QED BY <2>4, <2>5, <2>6
<1>3. ASSUME NEW k \in DOMAIN runs', Passed(k)', ~Passed(k)
      PROVE  Entry(k, runs'[k].startedAt) \in window'[runs'[k].by]
  <2>1. PICK l \in Lanes : /\ Authorize(l) /\ lane[l].key = k
                          /\ lane[l].pc = "authorize" /\ lane'[l].pc = "dispatch"
    BY <1>3, NewlyPassed
  <2>2. Owns(lane[l])
    BY <2>1 DEF Owns, OwnerPCs
  <2>3. k \in DOMAIN runs
    BY <2>1, <2>2 DEF OwnInv, OwnedIsNew
  <2>4. runs'[k].by = WorkerOf(l) /\ runs'[k].startedAt = lane[l].now
    BY <1>1, <2>1, <2>2, <2>3 DEF RunsGrow, OwnersBegan
  <2>5. window'[WorkerOf(l)] = Recent(l) \cup {Entry(lane[l].key, lane[l].now)}
    BY <1>1, <2>1, AuthorizeWindow
  <2>. QED BY <2>1, <2>4, <2>5
<1>4. ASSUME NEW k \in DOMAIN runs', Passed(k)
      PROVE  k \in DOMAIN runs
  <2>1. CASE k \in DOMAIN calls
    BY <2>1 DEF OwnInv
  <2>2. CASE \E l \in Lanes : lane[l].pc = "dispatch" /\ lane[l].key = k
    BY <2>2 DEF OwnInv, OwnedIsNew, Owns, OwnerPCs
  <2>. QED BY <1>4, <2>1, <2>2 DEF Passed
<1>. SUFFICES ASSUME NEW k \in DOMAIN runs', Passed(k)'
              PROVE  \/ Ended(mode'[runs'[k].by])
                     \/ Entry(k, runs'[k].startedAt) \in window'[runs'[k].by]
                     \/ Closed(window'[runs'[k].by], runs'[k].startedAt)
  BY DEF PassedAreKept
<1>5. CASE Passed(k)
  <2>1. k \in DOMAIN runs /\ runs'[k].by = runs[k].by /\ runs'[k].startedAt = runs[k].startedAt
    BY <1>1, <1>4, <1>5 DEF RunsGrow
  <2>. QED BY <1>2, <1>5, <2>1
<1>6. CASE ~Passed(k)
  BY <1>3, <1>6
<1>. QED BY <1>5, <1>6

(***************************************************************************)
(* What Authorize lets pass.  A run that began in the window before and    *)
(* was let pass has its entry: if it did not, something that began later   *)
(* than this activation would have been let pass, or there were no room.   *)
(* So there are no more of them than entries, this one included.           *)
(***************************************************************************)
LEMMA PassedHasEntry ==
    ASSUME TypeInv, OwnInv, RateInv, OnlyTheLivingWork, NEW l \in Lanes, Authorize(l),
           Cardinality(Recent(l)) < MaxActionsPerMinute, ~Overtaken(l),
           NEW k \in DOMAIN runs, Passed(k), runs[k].by = WorkerOf(l),
           lane[l].now - Minute < runs[k].startedAt, runs[k].startedAt <= lane[l].now
    PROVE  Entry(k, runs[k].startedAt) \in Recent(l)
<1>. DEFINE w == WorkerOf(l)
            n == lane[l].now
            s == runs[k].startedAt
<1>1. w \in Workers /\ n \in Nat /\ s \in Nat /\ Minute \in Nat /\ MaxActionsPerMinute \in Nat
  BY TypeParts, LaneFields, SchedulerAssumption DEF StoreTypeOK, Run
<1>2. \A c \in window[w] : c.at \in Nat
  <2>1. window \in [Workers -> SUBSET [key : RunKey, at : Nat]]
    BY TypeParts DEF RestTypeOK
  <2>2. window[w] \subseteq [key : RunKey, at : Nat]
    BY <1>1, <2>1
  <2>. QED BY <2>2
<1>3. ~Ended(mode[w])
  <2>1. lane[l].pc # "idle"
    BY StepsBegin
  <2>2. Running(w)
    BY <2>1 DEF OnlyTheLivingWork
  <2>. QED BY <2>2 DEF Running, Ended
<1>4. Entry(k, s) \in window[w] \/ Closed(window[w], s)
  BY <1>3 DEF RateInv, PassedAreKept
<1>5. n - Minute < s /\ s <= n
  OBVIOUS
<1>6. ~Closed(window[w], s)
  <2>1. ~\E c \in window[w] : s + Minute <= c.at
    <3>1. SUFFICES ASSUME NEW c \in window[w], s + Minute <= c.at PROVE FALSE
      OBVIOUS
    <3>2. c.at \in Nat
      BY <1>2
    <3>3. n < c.at
      BY <1>1, <1>5, <3>1, <3>2
    <3>. QED BY <3>3 DEF Overtaken
  <2>2. Later(window[w], s) \in SUBSET Recent(l)
    <3>1. ASSUME NEW c \in window[w], s < c.at PROVE n - Minute < c.at
      BY <1>1, <1>2, <1>5, <3>1
    <3>. QED BY <3>1, <1>2, <1>1 DEF Later, Recent
  <2>3. IsFiniteSet(Recent(l)) /\ Cardinality(Recent(l)) \in Nat
    BY AuthorizeWindow DEF RateInv
  <2>4. /\ Cardinality(Later(window[w], s)) <= Cardinality(Recent(l))
        /\ Cardinality(Later(window[w], s)) \in Nat
    BY <2>2, <2>3, FS_Subset, FS_CardinalityType
  <2>5. ~(MaxActionsPerMinute <= Cardinality(Later(window[w], s)))
    BY <1>1, <2>3, <2>4
  <2>. QED BY <2>1, <2>5 DEF Closed
<1>7. Entry(k, s).at = s
  BY DEF Entry
<1>. QED BY <1>1, <1>4, <1>5, <1>6, <1>7 DEF Recent

LEMMA NextRateLimited ==
    ASSUME TypeInv, OwnInv, RateInv, OnlyTheLivingWork, [Next]_vars, NEW l \in Lanes,
           lane[l].pc = "authorize", lane'[l].pc = "dispatch", ~Overtaken(l)
    PROVE  Cardinality(Admitted(WorkerOf(l), lane[l].now - Minute, lane[l].now)')
             <= MaxActionsPerMinute
<1>. DEFINE R == Recent(l)
            e == Entry(lane[l].key, lane[l].now)
            A == Admitted(WorkerOf(l), lane[l].now - Minute, lane[l].now)'
            f == [k \in A |-> Entry(k, runs'[k].startedAt)]
<1>1. /\ Authorize(l) /\ LaneStep(l) /\ lane'[l].key = lane[l].key /\ lane'[l].now = lane[l].now
      /\ \A y \in Lanes \ {l} : lane'[y] = lane[y]
  BY ReachesDispatch
<1>2. MaxActionsPerMinute \in Nat
  BY SchedulerAssumption
<1>3. /\ IsFiniteSet(R) /\ Cardinality(R) \in Nat
      /\ Cardinality(R) < MaxActionsPerMinute
  BY <1>1, AuthorizeWindow DEF RateInv, Authorize, Goto
<1>4. UNCHANGED <<runs, calls>>
  BY <1>1 DEF Authorize, storeVars
<1>5. Owns(lane[l])
  BY DEF Owns, OwnerPCs
<1>6. runs[lane[l].key].startedAt = lane[l].now
  BY <1>5 DEF RateInv, OwnersBegan
<1>7. ASSUME NEW k \in A PROVE Entry(k, runs'[k].startedAt) \in R \cup {e}
  <2>1. /\ k \in DOMAIN runs /\ runs[k].by = WorkerOf(l)
        /\ lane[l].now - Minute < runs[k].startedAt /\ runs[k].startedAt <= lane[l].now
    BY <1>1, <1>4 DEF Admitted
  <2>2. k \in DOMAIN calls \/ \E x \in Lanes : lane'[x].pc = "dispatch" /\ lane'[x].key = k
    BY <1>4 DEF Admitted
  <2>3. Passed(k) \/ k = lane[l].key
    BY <1>1, <2>2 DEF Passed
  <2>4. CASE Passed(k)
    <3>1. Entry(k, runs[k].startedAt) \in R
      BY <1>1, <1>3, <2>1, <2>4, PassedHasEntry
    <3>. QED BY <1>4, <3>1
  <2>5. CASE k = lane[l].key
    BY <1>4, <1>6, <2>5
  <2>. QED BY <2>3, <2>4, <2>5
<1>. HIDE DEF A
<1>8. f \in Injection(A, R \cup {e})
  <2>1. f \in [A -> R \cup {e}]
    BY <1>7
  <2>2. \A x, y \in A : f[x] = f[y] => x = y
    BY DEF Entry
  <2>. HIDE DEF f
  <2>. QED BY <2>1, <2>2 DEF Injection, IsInjective
<1>. HIDE DEF f, R, e
<1>9. IsFiniteSet(R \cup {e}) /\ Cardinality(R \cup {e}) \in Nat
      /\ Cardinality(R \cup {e}) <= MaxActionsPerMinute
  <2>1. /\ IsFiniteSet(R \cup {e})
        /\ Cardinality(R \cup {e}) = IF e \in R THEN Cardinality(R) ELSE Cardinality(R) + 1
    BY <1>3, FS_AddElement
  <2>. QED BY <1>2, <1>3, <2>1
<1>10. Cardinality(A) <= Cardinality(R \cup {e}) /\ Cardinality(A) \in Nat
  BY <1>8, <1>9, FS_Injection, FS_CardinalityType
<1>11. Cardinality(A) <= MaxActionsPerMinute
  BY <1>2, <1>9, <1>10
<1>. QED BY <1>11 DEF A

\* MinuteWindow keeps what has to be counted: whoever is let pass and was not
\* overtaken is one of at most MaxActionsPerMinute of its worker in the window
\* before it, for any number of ticks, handlers and actions under way.
THEOREM RateIsLimited == Spec => RateLimited
<1>1. ASSUME TypeInv, OwnInv, RateInv, OnlyTheLivingWork, [Next]_vars
      PROVE  RateInv'
  BY <1>1, NextOwnersBegan, NextFinite, NextKept DEF RateInv
<1>2. ASSUME TypeInv, OwnInv, RateInv, OnlyTheLivingWork, [Next]_vars
      PROVE  [\A l \in Lanes :
         (lane[l].pc = "authorize" /\ lane'[l].pc = "dispatch" /\ ~Overtaken(l))
         => Cardinality(Admitted(WorkerOf(l), lane[l].now - Minute, lane[l].now)')
              <= MaxActionsPerMinute]_vars
  BY <1>2, NextRateLimited
<1>. QED BY <1>1, <1>2, TypeInvariant, Ownership, InitRate, InitLiving, NextLiving, PTL
         DEF Spec, RateLimited
=============================================================================
