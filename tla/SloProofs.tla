----------------------------- MODULE SloProofs -----------------------------
(***************************************************************************)
(* The notifications of an alert policy, for any number of workers, any    *)
(* hours, thresholds and objective: what the cooldown and the recovery     *)
(* promise of two notifications in a row.  And the accounts they rest on:  *)
(* what a row says of its hour, and what is evaluated from the rows.       *)
(***************************************************************************)
EXTENDS SloAlerts, FiniteSetTheorems, TLAPS

\* A policy that has notified knows when.
Stamped(r) == r \in Runtime /\ (r.lastNotifiedState # NoState => r.lastNotifiedAt \in Nat)

TickOK(t) ==
    /\ DOMAIN t = {"pc", "now", "seen", "todo", "state", "previous"}
    /\ t.now \in Nat /\ t.state \in States \cup {NoState} /\ Stamped(t.previous)
    /\ t.pc \in {"previous", "record"} => t.state \in States

Typed ==
    /\ clock \in Nat
    /\ Stamped(runtime)
    /\ tick = [w \in Workers |-> tick[w]]
    /\ \A w \in Workers : TickOK(tick[w])

\* What may follow the notification s.
Follows(s, state, now) ==
    /\ state = "healthy" => s.state \in {"warning", "critical"}
    /\ s.state = state => now - s.at >= CooldownTime

Telling(w) == tick[w].pc = "notify"

(***************************************************************************)
(* The state of the policy runs ahead of the last notification by at most  *)
(* the one that a tick has recorded and not sent yet.                      *)
(***************************************************************************)
SentIsRecorded ==
    /\ \A w \in Workers : Telling(w) =>
         /\ tick[w].state = runtime.lastNotifiedState
         /\ tick[w].now = runtime.lastNotifiedAt
         /\ Follows(lastSent, tick[w].state, tick[w].now)
         /\ \A v \in Workers : Telling(v) => v = w
    /\ (\A w \in Workers : ~Telling(w)) =>
         /\ lastSent.state = runtime.lastNotifiedState
         /\ lastSent.at = runtime.lastNotifiedAt

SloInv == Typed /\ (muddled = TRUE \/ SentIsRecorded)
-----------------------------------------------------------------------------
LEMMA NoRuntimeIsStamped == Stamped(NoRuntime)
BY DEF Stamped, Runtime, NoRuntime, NoState, NoTime

LEMMA NoTickIsOK == TickOK(NoTick) /\ NoTick.pc = "idle"
BY NoRuntimeIsStamped DEF NoTick, TickOK, NoState

LEMMA EvaluatesToState ==
    ASSUME NEW rows, NEW now
    PROVE  EvaluateBurnRate(rows, now) \in States
BY DEF EvaluateBurnRate, Merged, States

\* A decision to notify follows the notification that it takes for the last.
LEMMA DecisionFollows ==
    ASSUME NEW p, Stamped(p), NEW state \in States, NEW now \in Nat
    PROVE  /\ Stamped(NextRuntime(p, state, now))
           /\ Notifies(p, state, now) =>
                /\ NextRuntime(p, state, now).lastNotifiedState = state
                /\ NextRuntime(p, state, now).lastNotifiedAt = now
                /\ \A s : s.state = p.lastNotifiedState /\ s.at = p.lastNotifiedAt =>
                     Follows(s, state, now)
           /\ ~Notifies(p, state, now) =>
                /\ NextRuntime(p, state, now).lastNotifiedState = p.lastNotifiedState
                /\ NextRuntime(p, state, now).lastNotifiedAt = p.lastNotifiedAt
<1>1. /\ p.lastState \in States \cup {NoState} /\ p.lastNotifiedState \in States \cup {NoState}
      /\ p.lastNotifiedAt \in Nat \cup {NoTime}
      /\ p.lastNotifiedState # NoState => p.lastNotifiedAt \in Nat
  BY DEF Stamped, Runtime
<1>2. CASE Notifies(p, state, now)
  <2>1. NextRuntime(p, state, now) =
          [lastState |-> state, lastNotifiedState |-> state, lastNotifiedAt |-> now]
    BY <1>2 DEF NextRuntime
  <2>2. Stamped(NextRuntime(p, state, now))
    BY <2>1 DEF Stamped, Runtime
  <2>3. ASSUME NEW s, s.state = p.lastNotifiedState, s.at = p.lastNotifiedAt
        PROVE  Follows(s, state, now)
    <3>1. CASE state = "healthy"
      <4>1. p.lastNotifiedState \in {"warning", "critical"}
        BY <1>2, <3>1 DEF Notifies, Recovers
      <4>. QED BY <2>3, <3>1, <4>1 DEF Follows
    <3>2. CASE state # "healthy"
      <4>1. ~WithinCooldown(p, state, now)
        BY <1>2, <3>2 DEF Notifies
      <4>2. s.state = state => now - s.at >= CooldownTime
        BY <1>1, <2>3, <4>1, ReliabilityAssumption DEF WithinCooldown, States, NoState
      <4>. QED BY <3>2, <4>2 DEF Follows
    <3>. QED BY <3>1, <3>2
  <2>. QED BY <1>2, <2>1, <2>2, <2>3
<1>3. CASE ~Notifies(p, state, now)
  <2>1. NextRuntime(p, state, now) =
          [lastState |-> state, lastNotifiedState |-> p.lastNotifiedState,
           lastNotifiedAt |-> p.lastNotifiedAt]
    BY <1>3 DEF NextRuntime
  <2>. QED BY <1>1, <1>3, <2>1 DEF Stamped, Runtime
<1>. QED BY <1>2, <1>3
-----------------------------------------------------------------------------
(***************************************************************************)
(* A tick that goes on, or ends, without recording or telling anything.    *)
(***************************************************************************)
LEMMA QuietStep ==
    ASSUME SloInv, NEW w \in Workers, NEW t, TickOK(t), t.pc # "notify", ~Telling(w),
           tick' = [tick EXCEPT ![w] = t], UNCHANGED <<clock, runtime, lastSent, muddled>>
    PROVE  SloInv'
<1>1. /\ tick' = [v \in Workers |-> tick'[v]] /\ tick'[w] = t
      /\ \A v \in Workers : v # w => tick'[v] = tick[v]
  BY DEF SloInv, Typed
<1>2. Typed'
  BY <1>1 DEF SloInv, Typed
<1>3. \A v \in Workers : /\ Telling(v)' <=> Telling(v)
                         /\ Telling(v) => tick'[v] = tick[v]
  BY <1>1 DEF Telling
<1>4. SentIsRecorded => SentIsRecorded'
  BY <1>3 DEF SentIsRecorded
<1>. QED BY <1>2, <1>4 DEF SloInv

LEMMA TickStartKeeps ==
    ASSUME SloInv, NEW w \in Workers, TickStart(w)
    PROVE  SloInv'
<1>. DEFINE t == [NoTick EXCEPT !.pc = "list", !.now = clock]
<1>1. TickOK(t) /\ t.pc = "list"
  BY NoTickIsOK DEF TickOK, SloInv, Typed
<1>2. tick' = [tick EXCEPT ![w] = t] /\ ~Telling(w)
  BY DEF TickStart, Telling
<1>3. UNCHANGED <<clock, runtime, lastSent, muddled>>
  BY DEF TickStart, world, tables, history
<1>. HIDE DEF t
<1>. QED BY <1>1, <1>2, <1>3, QuietStep

LEMMA ListIntervalsKeeps ==
    ASSUME SloInv, NEW w \in Workers, ListIntervals(w)
    PROVE  SloInv'
<1>1. PICK seen, todo : tick' = [tick EXCEPT ![w].pc = "rebuild", ![w].todo = todo,
                                             ![w].seen = seen]
  BY DEF ListIntervals
<1>. DEFINE t == [tick[w] EXCEPT !.pc = "rebuild", !.todo = todo, !.seen = seen]
<1>2. TickOK(tick[w]) /\ tick[w].pc = "list" /\ tick = [v \in Workers |-> tick[v]]
  BY DEF SloInv, Typed, ListIntervals
<1>3. TickOK(t) /\ t.pc = "rebuild"
  BY <1>2 DEF TickOK
<1>4. tick' = [tick EXCEPT ![w] = t]
  BY <1>1, <1>2
<1>5. UNCHANGED <<clock, runtime, lastSent, muddled>> /\ ~Telling(w)
  BY <1>2 DEF ListIntervals, world, tables, history, Telling
<1>. HIDE DEF t
<1>. QED BY <1>3, <1>4, <1>5, QuietStep

LEMMA UpsertHourlyKeeps ==
    ASSUME SloInv, NEW w \in Workers, UpsertHourly(w)
    PROVE  SloInv'
<1>1. TickOK(tick[w]) /\ tick[w].pc = "rebuild"
  BY DEF SloInv, Typed, UpsertHourly
<1>2. PICK t : /\ tick' = [tick EXCEPT ![w] = t]
               /\ \/ t = [NoTick EXCEPT !.pc = "evaluate", !.now = tick[w].now]
                  \/ t = [tick[w] EXCEPT !.todo = tick[w].todo \ {Min(tick[w].todo)}]
  BY DEF UpsertHourly
<1>3. TickOK(t) /\ t.pc # "notify"
  BY <1>1, <1>2, NoTickIsOK DEF TickOK
<1>4. UNCHANGED <<clock, runtime, lastSent, muddled>> /\ ~Telling(w)
  BY <1>1 DEF UpsertHourly, world, history, Telling
<1>. QED BY <1>2, <1>3, <1>4, QuietStep

LEMMA EvaluateKeeps ==
    ASSUME SloInv, NEW w \in Workers, Evaluate(w)
    PROVE  SloInv'
<1>. DEFINE state == EvaluateBurnRate(hourly, tick[w].now)
            t == [tick[w] EXCEPT !.pc = "previous", !.state = state]
<1>1. TickOK(tick[w]) /\ tick[w].pc = "evaluate" /\ tick = [v \in Workers |-> tick[v]]
  BY DEF SloInv, Typed, Evaluate
<1>2. tick' = [tick EXCEPT ![w] = t] /\ UNCHANGED <<clock, runtime, lastSent, muddled>>
  BY <1>1 DEF Evaluate, world, tables, history
<1>3. state \in States
  BY EvaluatesToState
<1>. HIDE DEF state
<1>4. TickOK(t) /\ t.pc = "previous"
  BY <1>1, <1>3 DEF TickOK
<1>. HIDE DEF t
<1>. QED BY <1>1, <1>2, <1>4, QuietStep DEF Telling

LEMMA GetAlertRuntimeKeeps ==
    ASSUME SloInv, NEW w \in Workers, GetAlertRuntime(w)
    PROVE  SloInv'
<1>. DEFINE t == [tick[w] EXCEPT !.pc = "record", !.previous = runtime]
<1>1. /\ TickOK(tick[w]) /\ tick[w].pc = "previous" /\ tick = [v \in Workers |-> tick[v]]
      /\ Stamped(runtime)
  BY DEF SloInv, Typed, GetAlertRuntime
<1>2. tick' = [tick EXCEPT ![w] = t] /\ UNCHANGED <<clock, runtime, lastSent, muddled>>
  BY <1>1 DEF GetAlertRuntime, world, tables, history
<1>3. TickOK(t) /\ t.pc = "record"
  BY <1>1 DEF TickOK
<1>. HIDE DEF t
<1>. QED BY <1>1, <1>2, <1>3, QuietStep DEF Telling
-----------------------------------------------------------------------------
(***************************************************************************)
(* The steps that record, tell or are cut.                                 *)
(***************************************************************************)
LEMMA UpsertAlertRuntimeKeeps ==
    ASSUME SloInv, NEW w \in Workers, UpsertAlertRuntime(w)
    PROVE  SloInv'
<1>. DEFINE p == tick[w].previous
            state == tick[w].state
            now == tick[w].now
            notifies == Notifies(p, state, now)
<1>1. /\ TickOK(tick[w]) /\ tick[w].pc = "record" /\ tick = [v \in Workers |-> tick[v]]
      /\ Stamped(p) /\ state \in States /\ now \in Nat
  BY DEF SloInv, Typed, TickOK, UpsertAlertRuntime
<1>2. PICK t : /\ tick' = [tick EXCEPT ![w] = t]
               /\ t = IF notifies
                      THEN [NoTick EXCEPT !.pc = "notify", !.state = state, !.now = now]
                      ELSE NoTick
  BY DEF UpsertAlertRuntime
<1>3. /\ runtime' = NextRuntime(p, state, now) /\ UNCHANGED <<clock, lastSent>>
      /\ muddled' = (muddled \/ runtime # p \/ \E v \in Workers : tick[v].pc = "notify")
  BY DEF UpsertAlertRuntime, world
<1>4. /\ TickOK(t)
      /\ notifies => t.pc = "notify" /\ t.state = state /\ t.now = now
      /\ ~notifies => t.pc = "idle"
  <2>1. CASE notifies
    <3>1. t = [NoTick EXCEPT !.pc = "notify", !.state = state, !.now = now]
      BY <1>2, <2>1
    <3>. QED BY <1>1, <2>1, <3>1, NoTickIsOK DEF TickOK
  <2>2. CASE ~notifies
    BY <1>2, <2>2, NoTickIsOK
  <2>. QED BY <2>1, <2>2
<1>5. /\ tick' = [v \in Workers |-> tick'[v]] /\ tick'[w] = t
      /\ \A v \in Workers : v # w => tick'[v] = tick[v]
  BY <1>1, <1>2
<1>6. Stamped(runtime')
  BY <1>1, <1>3, DecisionFollows
<1>7. Typed'
  BY <1>3, <1>4, <1>5, <1>6 DEF SloInv, Typed, Stamped
<1>8. CASE muddled = TRUE \/ runtime # p \/ \E v \in Workers : Telling(v)
  <2>1. muddled' = TRUE
    BY <1>3, <1>8 DEF Telling
  <2>. QED BY <1>7, <2>1 DEF SloInv
<1>9. CASE SentIsRecorded /\ runtime = p /\ \A v \in Workers : ~Telling(v)
  <2>1. lastSent.state = p.lastNotifiedState /\ lastSent.at = p.lastNotifiedAt
    BY <1>9 DEF SentIsRecorded
  <2>2. \A v \in Workers : v # w => ~Telling(v)'
    BY <1>5, <1>9 DEF Telling
  <2>3. CASE notifies
    <3>1. /\ runtime'.lastNotifiedState = state /\ runtime'.lastNotifiedAt = now
          /\ Follows(lastSent, state, now)
      BY <1>1, <1>3, <2>1, <2>3, DecisionFollows
    <3>2. Telling(w)' /\ tick'[w].state = state /\ tick'[w].now = now
      BY <1>4, <1>5, <2>3 DEF Telling
    <3>3. SentIsRecorded'
      BY <1>3, <2>2, <3>1, <3>2 DEF SentIsRecorded, Follows
    <3>. QED BY <1>7, <3>3 DEF SloInv
  <2>4. CASE ~notifies
    <3>1. /\ runtime'.lastNotifiedState = p.lastNotifiedState
          /\ runtime'.lastNotifiedAt = p.lastNotifiedAt
      BY <1>1, <1>3, <2>4, DecisionFollows
    <3>2. ~Telling(w)'
      BY <1>4, <1>5, <2>4 DEF Telling
    <3>3. SentIsRecorded'
      BY <1>3, <2>1, <2>2, <3>1, <3>2 DEF SentIsRecorded
    <3>. QED BY <1>7, <3>3 DEF SloInv
  <2>. QED BY <2>3, <2>4
<1>. QED BY <1>8, <1>9 DEF SloInv

LEMMA IdleTick ==
    ASSUME Typed, NEW w \in Workers, tick' = [tick EXCEPT ![w] = NoTick],
           UNCHANGED <<clock, runtime>>
    PROVE  /\ Typed' /\ ~Telling(w)'
           /\ \A v \in Workers : v # w => tick'[v] = tick[v]
<1>1. /\ tick' = [v \in Workers |-> tick'[v]] /\ tick'[w] = NoTick
      /\ \A v \in Workers : v # w => tick'[v] = tick[v]
  BY DEF Typed
<1>. QED BY <1>1, NoTickIsOK DEF Typed, Telling

LEMMA NotifyKeeps ==
    ASSUME SloInv, NEW w \in Workers, Notify(w)
    PROVE  SloInv'
<1>1. /\ Telling(w) /\ tick' = [tick EXCEPT ![w] = NoTick] /\ UNCHANGED <<clock, runtime>>
      /\ lastSent'.state = tick[w].state /\ lastSent'.at = tick[w].now /\ muddled' = muddled
  BY DEF Notify, Telling, world, tables
<1>2. /\ Typed' /\ ~Telling(w)'
      /\ \A v \in Workers : v # w => tick'[v] = tick[v]
  BY <1>1, IdleTick DEF SloInv
<1>3. SentIsRecorded => SentIsRecorded'
  <2>. SUFFICES ASSUME SentIsRecorded PROVE SentIsRecorded'
    OBVIOUS
  <2>1. \A v \in Workers : ~Telling(v)'
    BY <1>1, <1>2 DEF SentIsRecorded, Telling
  <2>2. lastSent'.state = runtime.lastNotifiedState /\ lastSent'.at = runtime.lastNotifiedAt
    BY <1>1 DEF SentIsRecorded
  <2>. QED BY <1>1, <2>1, <2>2 DEF SentIsRecorded
<1>. QED BY <1>1, <1>2, <1>3 DEF SloInv

LEMMA CutKeeps ==
    ASSUME SloInv, NEW w \in Workers, Cut(w)
    PROVE  SloInv'
<1>1. /\ tick' = [tick EXCEPT ![w] = NoTick] /\ UNCHANGED <<clock, runtime, lastSent>>
      /\ muddled' = (muddled \/ tick[w].pc = "notify")
  BY DEF Cut, world, tables
<1>2. /\ Typed' /\ ~Telling(w)'
      /\ \A v \in Workers : v # w => tick'[v] = tick[v]
  BY <1>1, IdleTick DEF SloInv
<1>3. CASE muddled = TRUE \/ Telling(w)
  <2>1. muddled' = TRUE
    BY <1>1, <1>3 DEF Telling
  <2>. QED BY <1>2, <2>1 DEF SloInv
<1>4. CASE SentIsRecorded /\ ~Telling(w)
  <2>1. \A v \in Workers : /\ Telling(v)' <=> Telling(v)
                           /\ Telling(v) => tick'[v] = tick[v]
    BY <1>2, <1>4 DEF Telling
  <2>2. SentIsRecorded'
    BY <1>1, <1>4, <2>1 DEF SentIsRecorded
  <2>. QED BY <1>2, <2>2 DEF SloInv
<1>. QED BY <1>3, <1>4 DEF SloInv

LEMMA SloStays ==
    ASSUME SloInv, clock' \in Nat, UNCHANGED <<runtime, tick, lastSent, muddled>>
    PROVE  SloInv'
BY DEF SloInv, Typed, SentIsRecorded, Telling

LEMMA InitSlo == Init => SloInv
<1>. SUFFICES ASSUME Init PROVE SloInv
  OBVIOUS
<1>1. Typed
  BY NoRuntimeIsStamped, NoTickIsOK DEF Init, Typed
<1>2. SentIsRecorded
  BY NoTickIsOK DEF Init, SentIsRecorded, Telling, NoRuntime
<1>. QED BY <1>1, <1>2 DEF SloInv

\* What a notification follows.
TellingFollows ==
    \A w \in Workers : Notify(w) => muddled = TRUE \/ Follows(lastSent, tick[w].state, tick[w].now)

LEMMA NextSlo ==
    ASSUME SloInv, [Next]_vars
    PROVE  SloInv' /\ TellingFollows
<1>1. TellingFollows
  BY DEF TellingFollows, SloInv, SentIsRecorded, Notify, Telling
<1>2. ASSUME NEW w \in Workers,
             \/ TickStart(w) \/ ListIntervals(w) \/ UpsertHourly(w) \/ Evaluate(w)
             \/ GetAlertRuntime(w) \/ UpsertAlertRuntime(w) \/ Notify(w) \/ Cut(w)
      PROVE  SloInv'
  BY <1>2, TickStartKeeps, ListIntervalsKeeps, UpsertHourlyKeeps, EvaluateKeeps,
     GetAlertRuntimeKeeps, UpsertAlertRuntimeKeeps, NotifyKeeps, CutKeeps
<1>0. clock \in Nat
  BY DEF SloInv, Typed
<1>3. CASE Tick
  <2>1. clock' \in Nat
    BY <1>0, <1>3 DEF Tick
  <2>2. UNCHANGED <<runtime, tick, lastSent, muddled>>
    BY <1>3 DEF Tick, Quiet, tables, history
  <2>. QED BY <1>1, <2>1, <2>2, SloStays
<1>4. CASE IncidentOpens \/ IncidentResolved \/ WindowCancelled
  <2>1. clock' = clock
    BY <1>4 DEF IncidentOpens, IncidentResolved, WindowCancelled
  <2>2. UNCHANGED <<runtime, tick, lastSent, muddled>>
    BY <1>4 DEF IncidentOpens, IncidentResolved, WindowCancelled, Quiet, tables, history
  <2>. QED BY <1>0, <1>1, <2>1, <2>2, SloStays
<1>5. CASE UNCHANGED vars
  <2>1. clock' = clock
    BY <1>5 DEF vars
  <2>2. UNCHANGED <<runtime, tick, lastSent, muddled>>
    BY <1>5 DEF vars
  <2>. QED BY <1>0, <1>1, <2>1, <2>2, SloStays
<1>. QED BY <1>1, <1>2, <1>3, <1>4, <1>5 DEF Next

\* docs/27, "Dedup": two notifications in a row that say the same are at least
\* the cooldown apart, unless a tick was cut or two ticks decided at once.
THEOREM CooldownIsKept == Spec => QuietWithinCooldown
<1>1. SloInv /\ [Next]_vars => SloInv' /\ TellingFollows
  BY NextSlo
<1>2. TellingFollows =>
        \A w \in Workers :
          (Notify(w) /\ lastSent.state = tick[w].state)
            => muddled \/ tick[w].now - lastSent.at >= CooldownTime
  BY DEF TellingFollows, Follows
<1>. QED BY <1>1, <1>2, InitSlo, PTL DEF Spec, QuietWithinCooldown

\* docs/27: a recovery is notified only to those who were last told of an
\* alert, with the same exceptions.
THEOREM RecoveryAfterAlert == Spec => RecoveryFollowsAlert
<1>1. SloInv /\ [Next]_vars => SloInv' /\ TellingFollows
  BY NextSlo
<1>2. TellingFollows =>
        \A w \in Workers :
          (Notify(w) /\ tick[w].state = "healthy")
            => muddled \/ lastSent.state \in {"warning", "critical"}
  BY DEF TellingFollows, Follows
<1>. QED BY <1>1, <1>2, InitSlo, PTL DEF Spec, RecoveryFollowsAlert
-----------------------------------------------------------------------------
(***************************************************************************)
(* The accounts.  From here on: a row counts the instants of its hour, the *)
(* evaluation of rows that are up to date says what the time line says.    *)
(***************************************************************************)

(***************************************************************************)
(* A sum of cardinalities of disjoint sets is the cardinality of their     *)
(* union.  The prover has no induction over a finite set, but every        *)
(* non-empty set of finite sets has a minimal element (WFMin): a smallest  *)
(* set on which the sum and the cardinality differ does not exist.         *)
(***************************************************************************)
Adds(f, g, S) ==
    g = [s \in SUBSET S |-> IF s = {} THEN 0
                            ELSE f[CHOOSE x \in s : TRUE] + g[s \ {CHOOSE x \in s : TRUE}]]

LEMMA SumIs ==
    ASSUME NEW f, NEW g, Adds(f, g, DOMAIN f)
    PROVE  \E h : Adds(f, h, DOMAIN f) /\ SumFunction(f) = h[DOMAIN f]
<1>1. SumFunction(f) = (CHOOSE h : Adds(f, h, DOMAIN f))[DOMAIN f]
  BY Zenon DEF SumFunction, SumFunctionOnSet, FoldFunctionOnSet, MapThenFoldSet, Adds
<1>. QED BY <1>1, Zenon

LEMMA SumIsUnique ==
    ASSUME NEW f, NEW g, NEW h, NEW S, IsFiniteSet(S), Adds(f, g, S), Adds(f, h, S)
    PROVE  g[S] = h[S]
<1>. DEFINE T == {s \in SUBSET S : g[s] # h[s]}
<1>1. ASSUME T # {} PROVE FALSE
  <2>1. \A s \in SUBSET S : IsFiniteSet(s)
    BY FS_Subset
  <2>2. T \subseteq FiniteSubsetsOf(S)
    BY <2>1 DEF FiniteSubsetsOf
  <2>. HIDE DEF T
  <2>3. PICK s \in T : \A y \in T : <<y, s>> \notin StrictSubsetOrdering(S)
    BY <1>1, <2>2, FS_StrictSubsetOrderingWellFounded, WFMin
  <2>. USE DEF T
  <2>4. CASE s = {}
    BY <2>4 DEF Adds
  <2>5. CASE s # {}
    <3>. DEFINE c == CHOOSE x \in s : TRUE
    <3>1. c \in s
      BY <2>5
    <3>2. g[s] = f[c] + g[s \ {c}] /\ h[s] = f[c] + h[s \ {c}]
      BY <2>5 DEF Adds
    <3>. HIDE DEF c
    <3>3. s \ {c} \in SUBSET S /\ s \in SUBSET S /\ s \ {c} \subseteq s /\ s \ {c} # s
      BY <3>1
    <3>4. <<s \ {c}, s>> \in StrictSubsetOrdering(S)
      BY <3>3 DEF StrictSubsetOrdering
    <3>5. s \ {c} \notin T
      BY <2>3, <3>4
    <3>. QED BY <2>3, <3>2, <3>3, <3>5
  <2>. QED BY <2>4, <2>5
<1>. QED BY <1>1

LEMMA SumCounts ==
    ASSUME NEW S, IsFiniteSet(S), NEW A,
           \A x \in S : IsFiniteSet(A[x]),
           \A x, y \in S : x # y => A[x] \cap A[y] = {}
    PROVE  SumFunction([x \in S |-> Cardinality(A[x])]) = Cardinality(UNION {A[x] : x \in S})
<1>. DEFINE f == [x \in S |-> Cardinality(A[x])]
            U(s) == UNION {A[x] : x \in s}
            g == [s \in SUBSET S |-> Cardinality(U(s))]
<1>1. \A s \in SUBSET S : IsFiniteSet(U(s))
  <2>. SUFFICES ASSUME NEW s \in SUBSET S PROVE IsFiniteSet(U(s))
    OBVIOUS
  <2>1. IsFiniteSet(s)
    BY FS_Subset
  <2>2. IsFiniteSet({A[x] : x \in s})
    <3>. DEFINE m == [x \in s |-> A[x]]
    <3>1. m \in Surjection(s, {A[x] : x \in s})
      BY DEF Surjection
    <3>. HIDE DEF m
    <3>. QED BY <2>1, <3>1, FS_Surjection
  <2>3. \A T \in {A[x] : x \in s} : IsFiniteSet(T)
    OBVIOUS
  <2>. QED BY <2>2, <2>3, FS_UNION
<1>2. Adds(f, g, S)
  <2>0. SUFFICES ASSUME NEW s \in SUBSET S, s # {}, NEW c, c = CHOOSE x \in s : TRUE
                 PROVE  g[s] = f[c] + g[s \ {c}]
    <3>1. U({}) = {}
      OBVIOUS
    <3>2. g[{}] = 0
      <4>1. Cardinality(U({})) = 0
        BY <3>1, FS_EmptySet
      <4>. HIDE DEF U
      <4>. QED BY <4>1
    <3>3. g = [s \in SUBSET S |-> g[s]]
      <4>. HIDE DEF U
      <4>. QED OBVIOUS
    <3>. HIDE DEF f, g
    <3>4. \A s \in SUBSET S : g[s] = IF s = {} THEN 0 ELSE f[CHOOSE x \in s : TRUE]
                                                        + g[s \ {CHOOSE x \in s : TRUE}]
      BY <2>0, <3>2
    <3>. QED BY <3>3, <3>4 DEF Adds
  <2>1. c \in s /\ c \in S
    BY <2>0
  <2>2. U(s) = A[c] \cup U(s \ {c})
    BY <2>0, <2>1
  <2>3. A[c] \cap U(s \ {c}) = {}
    BY <2>1
  <2>4. IsFiniteSet(A[c]) /\ IsFiniteSet(U(s \ {c}))
    <3>1. s \ {c} \in SUBSET S
      OBVIOUS
    <3>. HIDE DEF U
    <3>. QED BY <1>1, <2>1, <3>1
  <2>5. Cardinality(U(s)) = Cardinality(A[c]) + Cardinality(U(s \ {c})) - 0
    <3>. DEFINE P == A[c]
                Q == U(s \ {c})
    <3>. HIDE DEF P, Q
    <3>1. IsFiniteSet(P) /\ IsFiniteSet(Q) /\ P \cap Q = {}
      BY <2>3, <2>4 DEF P, Q
    <3>2. Cardinality(P \cup Q) = Cardinality(P) + Cardinality(Q) - Cardinality(P \cap Q)
      BY <3>1, FS_Union
    <3>3. Cardinality(P \cap Q) = 0
      BY <3>1, FS_EmptySet
    <3>. QED BY <2>2, <3>2, <3>3 DEF P, Q
  <2>6. f[c] = Cardinality(A[c]) /\ g[s \ {c}] = Cardinality(U(s \ {c}))
    BY <2>1
  <2>7. Cardinality(A[c]) \in Nat /\ Cardinality(U(s \ {c})) \in Nat
    <3>. HIDE DEF U
    <3>. QED BY <2>4, FS_CardinalityType
  <2>8. g[s] = Cardinality(U(s))
    OBVIOUS
  <2>. HIDE DEF U, f, g
  <2>. QED BY <2>5, <2>6, <2>7, <2>8
<1>3. DOMAIN f = S /\ g[S] = Cardinality(U(S))
  OBVIOUS
<1>. HIDE DEF f, g, U
<1>4. PICK h : Adds(f, h, S) /\ SumFunction(f) = h[S]
  BY <1>2, <1>3, SumIs
<1>5. SumFunction(f) = Cardinality(U(S))
  BY <1>2, <1>3, <1>4, SumIsUnique
<1>. QED BY <1>5 DEF f, U

\* Every non-empty set of naturals has a least element.
LEMMA MinIs ==
    ASSUME NEW S, S # {}, S \subseteq Nat
    PROVE  Min(S) \in S
<1>. DEFINE T == {0..n : n \in S}
<1>1. T \subseteq FiniteSubsetsOf(Nat)
  <2>1. ASSUME NEW n \in S PROVE 0..n \in FiniteSubsetsOf(Nat)
    <3>1. IsFiniteSet(0..n)
      BY FS_Interval
    <3>2. 0..n \in SUBSET Nat
      OBVIOUS
    <3>. QED BY <3>1, <3>2 DEF FiniteSubsetsOf
  <2>. QED BY <2>1
<1>2. PICK u \in T : \A v \in T : <<v, u>> \notin StrictSubsetOrdering(Nat)
  <2>1. T # {}
    OBVIOUS
  <2>2. IsWellFoundedOn(StrictSubsetOrdering(Nat), FiniteSubsetsOf(Nat))
    BY FS_StrictSubsetOrderingWellFounded
  <2>. HIDE DEF T
  <2>. QED BY <1>1, <2>1, <2>2, WFMin
<1>3. PICK x \in S : u = 0..x
  OBVIOUS
<1>4. ASSUME NEW y \in S PROVE x <= y
  <2>1. SUFFICES ASSUME y < x PROVE FALSE
    OBVIOUS
  <2>2. 0..y \subseteq 0..x /\ 0..y # 0..x /\ 0..y \in SUBSET Nat /\ 0..x \in SUBSET Nat
    BY <2>1
  <2>3. <<0..y, 0..x>> \in StrictSubsetOrdering(Nat)
    BY <2>2 DEF StrictSubsetOrdering
  <2>. QED BY <1>2, <1>3, <2>3
<1>. QED BY <1>4 DEF Min

\* Hours follow one another.
LEMMA HoursAreOrdered ==
    ASSUME NEW a \in Int, NEW b \in Int
    PROVE  /\ HourStart(a) \in Int /\ HourEnd(a) = HourStart(a) + HourLen
           /\ HourEnd(a) = HourStart(a + 1)
           /\ a < b => HourEnd(a) <= HourStart(b)
           /\ a >= 0 => HourStart(a) >= 0
           /\ a < 0 => HourEnd(a) <= 0
<1>. DEFINE L == HourLen
<1>1. L \in Nat /\ L > 0
  BY ReliabilityAssumption
<1>. HIDE DEF L
<1>2. /\ a * L \in Int /\ b * L \in Int /\ (a + 1) * L = a * L + L
  BY <1>1
<1>3. a < b => (a + 1) * L <= b * L
  BY <1>1
<1>4. a >= 0 => a * L >= 0
  BY <1>1
<1>5. a < 0 => (a + 1) * L <= 0
  BY <1>1
<1>. QED BY <1>1, <1>2, <1>3, <1>4, <1>5 DEF HourStart, HourEnd, L

LEMMA HourOfInstant ==
    ASSUME NEW t \in Nat
    PROVE  HourOf(t) \in Nat /\ HourStart(HourOf(t)) <= t /\ t < HourEnd(HourOf(t))
<1>. DEFINE L == HourLen
<1>1. L \in Nat /\ L > 0
  BY ReliabilityAssumption
<1>. HIDE DEF L
<1>2. t \div L \in Nat /\ (t \div L) * L <= t /\ t < (t \div L + 1) * L
  BY <1>1
<1>. QED BY <1>2 DEF HourOf, HourStart, HourEnd, L

\* An instant is of one hour.
LEMMA HourIs ==
    ASSUME NEW a \in Int, NEW b \in Int, NEW t \in Int,
           HourStart(a) <= t, t < HourEnd(a), HourStart(b) <= t, t < HourEnd(b)
    PROVE  a = b
<1>1. ~(a < b)
  BY HoursAreOrdered
<1>2. ~(b < a)
  BY HoursAreOrdered
<1>. QED BY <1>1, <1>2
-----------------------------------------------------------------------------
\* What the tables say now of an instant that is over.
BucketNow(t) == BucketAt(t, t + 1, incidents, maintenances)

IncidentOK(i) ==
    /\ i \in [from : Nat, to : Nat \cup {Ongoing}]
    /\ i.from <= clock /\ i.to <= clock

\* What an active tick has read is what the tables still say, unless a window
\* has been cancelled since.
TickTells(t) ==
    /\ t.pc \in TickSteps /\ t.now \in 0..clock
    /\ t.pc = "rebuild" =>
         /\ t.todo # {} /\ t.todo \subseteq Rebuilt(t.now)
         /\ t.seen.edition \in 0..edition
         /\ t.seen.edition = edition => \A h \in t.todo : \A x \in Elapsed(h, t.now) :
              BucketAt(x, t.now, t.seen.incidents, t.seen.maintenances) = BucketNow(x)

\* A row counts the instants of its hour, as the tables still tell them unless
\* a window has been cancelled since.
RowTells(h) ==
    \E B \in [Elapsed(h, written[h].now) -> Buckets] :
      /\ hourly[h] = [b \in Buckets |-> Cardinality({x \in Elapsed(h, written[h].now) : B[x] = b})]
      /\ written[h].edition = edition => \A x \in Elapsed(h, written[h].now) : B[x] = BucketNow(x)

RowOK(h) ==
    /\ h \in Nat
    /\ written[h].now \in HourStart(h)..clock /\ written[h].edition \in 0..edition
    /\ RowTells(h)

WorldOK ==
    /\ clock \in 0..MaxTime /\ edition \in Nat
    /\ maintenances \subseteq PlannedWindows
    /\ \A i \in incidents : IncidentOK(i)

RowsTell == DOMAIN hourly = DOMAIN written /\ \A h \in DOMAIN hourly : RowOK(h)

DataInv == WorldOK /\ (\A w \in Workers : TickTells(tick[w])) /\ RowsTell
-----------------------------------------------------------------------------
\* The incident i made the service unavailable at x.
Hits(i, x) == i.from <= x /\ (i.to = Ongoing \/ x < i.to)
Incident == [from : Nat, to : Nat \cup {Ongoing}]

LEMMA BucketIs == ASSUME NEW x, NEW n, NEW I, NEW M PROVE BucketAt(x, n, I, M) \in Buckets
BY DEF BucketAt, Buckets

\* Of an instant that is over, the bucket depends on whether an incident hit it
\* and a window covered it, and not on when one looks.
LEMMA BucketOfPast ==
    ASSUME NEW x \in Nat, NEW n \in Int, x < n, NEW I \in SUBSET Incident, NEW M
    PROVE  /\ (\E m \in M : Covers(m, x)) => BucketAt(x, n, I, M) = "maintenance"
           /\ (\A m \in M : ~Covers(m, x)) =>
                /\ (\E i \in I : Hits(i, x)) => BucketAt(x, n, I, M) = "unavailable"
                /\ (\A i \in I : ~Hits(i, x)) =>
                     BucketAt(x, n, I, M) = IF x < ObservableFrom THEN "unknown" ELSE "available"
<1>1. ASSUME NEW i \in I
      PROVE  Covers(Until(i, n), x) <=> Hits(i, x)
  <2>1. i.to \in Nat \/ i.to = Ongoing
    BY DEF Incident
  <2>2. CASE i.to = Ongoing
    BY <2>2 DEF Covers, Until, Hits
  <2>3. CASE i.to # Ongoing
    BY <2>3 DEF Covers, Until, Hits
  <2>. QED BY <2>2, <2>3
<1>2. (\E i \in I : Covers(Until(i, n), x)) <=> (\E i \in I : Hits(i, x))
  BY <1>1
<1>. QED BY <1>2 DEF BucketAt

LEMMA TheIncidents ==
    ASSUME WorldOK
    PROVE  incidents \in SUBSET Incident /\ \A i \in incidents : i.from <= clock /\ i.to <= clock
BY DEF WorldOK, IncidentOK, Incident

LEMMA WorldStays ==
    ASSUME WorldOK, [Next]_vars
    PROVE  /\ WorldOK'
           /\ clock' \in {clock, clock + 1}
           /\ edition' \in {edition, edition + 1}
<1>. USE SloAssumption DEF WorldOK
<1>1. clock \in Int /\ edition \in Int /\ MaxTime \in Int
  OBVIOUS
<1>2. CASE UNCHANGED <<clock, incidents, maintenances, edition>>
  <2>1. \A i \in incidents : IncidentOK(i)'
    BY <1>2 DEF IncidentOK
  <2>. QED BY <1>2, <2>1
<1>3. CASE Tick
  <2>1. clock' = clock + 1 /\ clock < MaxTime /\ UNCHANGED <<incidents, maintenances, edition>>
    BY <1>3 DEF Tick
  <2>2. \A i \in incidents : IncidentOK(i)'
    <3>. SUFFICES ASSUME NEW i \in incidents PROVE IncidentOK(i)'
      OBVIOUS
    <3>1. i.to \in Int
      BY DEF IncidentOK, Ongoing
    <3>. QED BY <1>1, <2>1, <3>1 DEF IncidentOK
  <2>. QED BY <1>1, <2>1, <2>2
<1>4. CASE IncidentOpens
  <2>1. /\ UNCHANGED <<clock, maintenances, edition>>
        /\ incidents' = incidents \cup {[from |-> clock, to |-> Ongoing]}
    BY <1>4 DEF IncidentOpens
  <2>2. \A i \in incidents' : IncidentOK(i)'
    BY <1>1, <2>1 DEF IncidentOK, Ongoing
  <2>. QED BY <2>1, <2>2
<1>5. CASE IncidentResolved
  <2>1. UNCHANGED <<clock, maintenances, edition>>
    BY <1>5 DEF IncidentResolved
  <2>2. PICK i \in incidents : incidents' = (incidents \ {i}) \cup {[i EXCEPT !.to = clock]}
    BY <1>5 DEF IncidentResolved
  <2>3. IncidentOK([i EXCEPT !.to = clock])
    BY <1>1 DEF IncidentOK
  <2>4. \A j \in incidents' : IncidentOK(j)
    BY <2>2, <2>3
  <2>5. \A j \in incidents' : IncidentOK(j)'
    BY <2>1, <2>4 DEF IncidentOK
  <2>. QED BY <2>1, <2>5
<1>6. CASE WindowCancelled
  <2>1. UNCHANGED <<clock, incidents>> /\ edition' = edition + 1
        /\ maintenances' \subseteq maintenances
    BY <1>6 DEF WindowCancelled
  <2>2. \A i \in incidents : IncidentOK(i)'
    BY <2>1 DEF IncidentOK
  <2>. QED BY <1>1, <2>1, <2>2
<1>7. ASSUME NEW w \in Workers,
             \/ TickStart(w) \/ ListIntervals(w) \/ UpsertHourly(w) \/ Evaluate(w)
             \/ GetAlertRuntime(w) \/ UpsertAlertRuntime(w) \/ Notify(w) \/ Cut(w)
      PROVE  UNCHANGED <<clock, incidents, maintenances, edition>>
  BY <1>7 DEF TickStart, ListIntervals, UpsertHourly, Evaluate, GetAlertRuntime,
              UpsertAlertRuntime, Notify, Cut, world
<1>8. CASE UNCHANGED vars
  BY <1>2, <1>8 DEF vars
<1>. QED BY <1>2, <1>3, <1>4, <1>5, <1>6, <1>7, <1>8 DEF Next

\* The past stays: an incident that opens or is resolved changes nothing of the
\* time before it, only a cancelled window does.
LEMMA PastStays ==
    ASSUME WorldOK, [Next]_vars, edition' = edition, NEW x \in Nat, x < clock
    PROVE  BucketNow(x)' = BucketNow(x)
<1>1. /\ incidents \in SUBSET Incident /\ incidents' \in SUBSET Incident
      /\ clock \in Int /\ edition \in Int
  BY WorldStays, TheIncidents DEF WorldOK, IncidentOK, Incident
<1>2. ASSUME maintenances' = maintenances,
             (\E i \in incidents : Hits(i, x)) <=> (\E i \in incidents' : Hits(i, x))
      PROVE  BucketNow(x)' = BucketNow(x)
  <2>. DEFINE I == incidents
              J == incidents'
              M == maintenances
  <2>1. /\ I \in SUBSET Incident /\ J \in SUBSET Incident
        /\ (\E i \in J : Hits(i, x)) <=> (\E i \in I : Hits(i, x))
    BY <1>1, <1>2
  <2>. HIDE DEF I, J, M
  <2>2. PICK n \in Int : n = x + 1 /\ x < n
    OBVIOUS
  <2>6. x < n
    BY <2>2
  <2>3. /\ (\E m \in M : Covers(m, x)) => BucketAt(x, n, I, M) = "maintenance"
        /\ (\A m \in M : ~Covers(m, x)) =>
             /\ (\E i \in I : Hits(i, x)) => BucketAt(x, n, I, M) = "unavailable"
             /\ (\A i \in I : ~Hits(i, x)) =>
                  BucketAt(x, n, I, M) = IF x < ObservableFrom THEN "unknown" ELSE "available"
    BY <2>1, <2>6, BucketOfPast
  <2>4. /\ (\E m \in M : Covers(m, x)) => BucketAt(x, n, J, M) = "maintenance"
        /\ (\A m \in M : ~Covers(m, x)) =>
             /\ (\E i \in J : Hits(i, x)) => BucketAt(x, n, J, M) = "unavailable"
             /\ (\A i \in J : ~Hits(i, x)) =>
                  BucketAt(x, n, J, M) = IF x < ObservableFrom THEN "unknown" ELSE "available"
    BY <2>1, <2>6, BucketOfPast
  <2>5. BucketAt(x, n, J, M) = BucketAt(x, n, I, M)
    BY <2>1, <2>3, <2>4
  <2>. QED BY <1>2, <2>2, <2>5 DEF BucketNow, I, J, M
<1>3. CASE incidents' = incidents /\ maintenances' = maintenances
  BY <1>2, <1>3
<1>4. CASE IncidentOpens
  <2>1. /\ maintenances' = maintenances
        /\ incidents' = incidents \cup {[from |-> clock, to |-> Ongoing]}
    BY <1>4 DEF IncidentOpens
  <2>2. ~Hits([from |-> clock, to |-> Ongoing], x)
    BY <1>1 DEF Hits
  <2>. QED BY <1>2, <2>1, <2>2
<1>5. CASE IncidentResolved
  <2>1. maintenances' = maintenances
    BY <1>5 DEF IncidentResolved
  <2>2. PICK i \in incidents : /\ incidents' = (incidents \ {i}) \cup {[i EXCEPT !.to = clock]}
                               /\ i.to = Ongoing
    BY <1>5 DEF IncidentResolved
  <2>3. i \in Incident
    BY <1>1
  <2>4. [i EXCEPT !.to = clock].from = i.from /\ [i EXCEPT !.to = clock].to = clock
    BY <2>3 DEF Incident
  <2>5. Hits([i EXCEPT !.to = clock], x) <=> Hits(i, x)
    BY <2>2, <2>4 DEF Hits
  <2>6. (\E j \in incidents : Hits(j, x)) <=> (\E j \in incidents' : Hits(j, x))
    BY <2>2, <2>5
  <2>. QED BY <1>2, <2>1, <2>6
<1>6. CASE WindowCancelled
  BY <1>1, <1>6 DEF WindowCancelled
<1>7. ASSUME NEW w \in Workers,
             \/ TickStart(w) \/ ListIntervals(w) \/ UpsertHourly(w) \/ Evaluate(w)
             \/ GetAlertRuntime(w) \/ UpsertAlertRuntime(w) \/ Notify(w) \/ Cut(w)
      PROVE  incidents' = incidents /\ maintenances' = maintenances
  BY <1>7 DEF TickStart, ListIntervals, UpsertHourly, Evaluate, GetAlertRuntime,
              UpsertAlertRuntime, Notify, Cut, world
<1>8. CASE Tick
  BY <1>3, <1>8 DEF Tick
<1>9. CASE UNCHANGED vars
  BY <1>3, <1>9 DEF vars
<1>. QED BY <1>3, <1>4, <1>5, <1>6, <1>7, <1>8, <1>9 DEF Next
-----------------------------------------------------------------------------
\* The hours of a rebuild, and the instants of an hour it accounts for, are past.
LEMMA RebuiltHours ==
    ASSUME NEW now \in Nat, NEW h \in Rebuilt(now)
    PROVE  /\ h \in Nat /\ HourStart(h) \in Nat /\ HourStart(h) <= now
           /\ HourStart(HourOf(now) - RebuildHours) < HourStart(h)
           /\ \A x \in Elapsed(h, now) : x \in Nat /\ x < now /\ HourStart(h) <= x
<1>. DEFINE H == HourOf(now)
<1>1. H \in Nat /\ HourStart(H) <= now /\ RebuildHours \in Nat /\ HourLen \in Nat \ {0}
  BY HourOfInstant, SloAssumption, ReliabilityAssumption
<1>2. h \in H - RebuildHours + 1..H /\ h >= 0
  BY DEF Rebuilt
<1>. HIDE DEF H
<1>3. h \in Int /\ h \in Nat /\ h <= H /\ H - RebuildHours < h
  BY <1>1, <1>2
<1>4. HourStart(h) \in Int /\ HourStart(h) >= 0
  BY <1>3, HoursAreOrdered
<1>5. HourStart(h) <= HourStart(H)
  <2>1. CASE h = H
    BY <1>4, <2>1
  <2>2. CASE h < H
    <3>1. HourEnd(h) <= HourStart(H) /\ HourEnd(h) = HourStart(h) + HourLen
          /\ HourStart(H) \in Int
      BY <1>1, <1>3, <2>2, HoursAreOrdered
    <3>. QED BY <1>1, <1>4, <3>1
  <2>. QED BY <1>1, <1>3, <2>1, <2>2
<1>6. HourStart(H - RebuildHours) < HourStart(h)
  <2>. DEFINE a == H - RebuildHours
  <2>1. a \in Int /\ a < h
    BY <1>1, <1>3
  <2>. HIDE DEF a
  <2>2. /\ HourStart(a) \in Int /\ HourEnd(a) = HourStart(a) + HourLen
        /\ HourEnd(a) <= HourStart(h)
    BY <1>3, <2>1, HoursAreOrdered
  <2>3. HourStart(a) < HourStart(h)
    BY <1>1, <1>4, <2>2
  <2>. QED BY <2>3 DEF a
<1>7. HourStart(H) \in Int
  BY <1>1, HoursAreOrdered
<1>8. HourStart(h) <= now
  BY <1>1, <1>4, <1>5, <1>7
<1>9. \A x \in Elapsed(h, now) : x \in Nat /\ x < now /\ HourStart(h) <= x
  <2>1. HourEnd(h) \in Int
    BY <1>1, <1>3, <1>4, HoursAreOrdered
  <2>. QED BY <1>4, <2>1 DEF Elapsed
<1>. QED BY <1>3, <1>4, <1>6, <1>8, <1>9 DEF H

\* What a tick has read stays true while others work.
LEMMA TickTellsStays ==
    ASSUME WorldOK, [Next]_vars, NEW t, TickTells(t)
    PROVE  TickTells(t)'
<1>1. /\ clock \in Nat /\ clock' \in {clock, clock + 1}
      /\ edition \in Nat /\ edition' \in {edition, edition + 1}
  BY WorldStays DEF WorldOK
<1>2. t.pc \in TickSteps /\ t.now \in 0..clock'
  BY <1>1 DEF TickTells
<1>3. ASSUME t.pc = "rebuild"
      PROVE  /\ t.todo # {} /\ t.todo \subseteq Rebuilt(t.now)
             /\ t.seen.edition \in 0..edition'
  BY <1>1, <1>3 DEF TickTells
<1>4. ASSUME t.pc = "rebuild", t.seen.edition = edition',
             NEW h \in t.todo, NEW x \in Elapsed(h, t.now)
      PROVE  BucketAt(x, t.now, t.seen.incidents, t.seen.maintenances) = BucketNow(x)'
  <2>1. t.seen.edition \in 0..edition /\ h \in Rebuilt(t.now) /\ t.now \in 0..clock
    BY <1>4 DEF TickTells
  <2>2. edition' = edition /\ t.seen.edition = edition
    BY <1>1, <1>4, <2>1
  <2>3. t.now \in Nat
    BY <1>1, <2>1
  <2>4. x \in Nat /\ x < t.now
    BY <1>4, <2>1, <2>3, RebuiltHours
  <2>5. x < clock
    BY <1>1, <2>1, <2>4
  <2>6. BucketNow(x)' = BucketNow(x)
    BY <2>2, <2>4, <2>5, PastStays
  <2>7. BucketAt(x, t.now, t.seen.incidents, t.seen.maintenances) = BucketNow(x)
    BY <1>4, <2>2 DEF TickTells
  <2>. QED BY <2>6, <2>7
<1>. QED BY <1>2, <1>3, <1>4 DEF TickTells

\* What a row says stays true while it is not overwritten.
LEMMA RowStays ==
    ASSUME WorldOK, [Next]_vars, NEW h, RowOK(h), hourly'[h] = hourly[h], written'[h] = written[h]
    PROVE  RowOK(h)'
<1>1. /\ clock \in Nat /\ clock' \in {clock, clock + 1}
      /\ edition \in Nat /\ edition' \in {edition, edition + 1}
  BY WorldStays DEF WorldOK
<1>2. /\ h \in Nat /\ written[h].now \in HourStart(h)..clock /\ written[h].edition \in 0..edition
      /\ HourStart(h) \in Nat /\ HourEnd(h) \in Int
  <2>1. h \in Nat
    BY DEF RowOK
  <2>2. HourStart(h) \in Int /\ HourStart(h) >= 0 /\ HourEnd(h) = HourStart(h) + HourLen
    BY <2>1, HoursAreOrdered
  <2>. QED BY <2>1, <2>2, ReliabilityAssumption DEF RowOK
<1>3. written'[h].now \in HourStart(h)..clock' /\ written'[h].edition \in 0..edition'
  BY <1>1, <1>2
<1>. DEFINE E == Elapsed(h, written[h].now)
<1>4. PICK B \in [E -> Buckets] :
        /\ hourly[h] = [b \in Buckets |-> Cardinality({x \in E : B[x] = b})]
        /\ written[h].edition = edition => \A x \in E : B[x] = BucketNow(x)
  BY DEF RowOK, RowTells
<1>5. ASSUME written[h].edition = edition', NEW x \in E
      PROVE  B[x] = BucketNow(x)'
  <2>1. edition' = edition /\ written[h].edition = edition
    BY <1>1, <1>2, <1>5
  <2>2. x \in Nat /\ x < clock
    BY <1>1, <1>2, <1>5 DEF Elapsed
  <2>3. BucketNow(x)' = BucketNow(x)
    BY <2>1, <2>2, PastStays
  <2>. QED BY <1>4, <1>5, <2>1, <2>3
<1>6. RowTells(h)'
  <2>1. Elapsed(h, written'[h].now) = E
    OBVIOUS
  <2>. HIDE DEF E
  <2>2. hourly'[h] = [b \in Buckets |-> Cardinality({x \in E : B[x] = b})]
    BY <1>4
  <2>3. written'[h].edition = edition' => \A x \in E : B[x] = BucketNow(x)'
    BY <1>5
  <2>. QED BY <2>1, <2>2, <2>3 DEF RowTells
<1>. QED BY <1>2, <1>3, <1>6 DEF RowOK

\* A step that writes no row keeps the rows true.
LEMMA RowsStay ==
    ASSUME WorldOK, [Next]_vars, RowsTell, UNCHANGED <<hourly, written>>
    PROVE  RowsTell'
<1>1. \A h \in DOMAIN hourly : RowOK(h)'
  BY RowStays DEF RowsTell
<1>. QED BY <1>1 DEF RowsTell
-----------------------------------------------------------------------------
\* Outside of a rebuild a tick claims nothing of the tables.
LEMMA SilentTick ==
    ASSUME NEW t, t.pc \in TickSteps, t.pc # "rebuild", t.now \in 0..clock
    PROVE  TickTells(t)
BY DEF TickTells

\* What is left when one tick moves on.
LEMMA TickMoves ==
    ASSUME DataInv, [Next]_vars, NEW w \in Workers, NEW t, TickTells(t),
           tick = [v \in Workers |-> tick[v]], tick' = [tick EXCEPT ![w] = t]
    PROVE  WorldOK' /\ \A v \in Workers : TickTells(tick[v])'
<1>1. WorldOK
  BY DEF DataInv
<1>2. ASSUME NEW v \in Workers PROVE TickTells(tick[v])'
  <2>1. PICK u : u = tick'[v]
    OBVIOUS
  <2>2. u = t \/ u = tick[v]
    BY <2>1
  <2>3. TickTells(u)
    BY <2>2 DEF DataInv
  <2>4. TickTells(u)'
    BY <1>1, <2>3, TickTellsStays
  <2>. QED BY <2>1, <2>4 DEF TickTells
<1>. QED BY <1>1, <1>2, WorldStays

LEMMA TickKeepsTables ==
    ASSUME DataInv, [Next]_vars, NEW w \in Workers, NEW t, TickTells(t),
           tick = [v \in Workers |-> tick[v]], tick' = [tick EXCEPT ![w] = t],
           UNCHANGED <<hourly, written>>
    PROVE  DataInv'
<1>1. WorldOK' /\ \A v \in Workers : TickTells(tick[v])'
  BY TickMoves
<1>2. RowsTell'
  BY RowsStay DEF DataInv
<1>. QED BY <1>1, <1>2 DEF DataInv

\* The reads of a rebuild leave out what ended before its hours: nothing of
\* that hit an instant of these.
LEMMA ReadTells ==
    ASSUME WorldOK, NEW now \in Nat, NEW h \in Rebuilt(now), NEW x \in Elapsed(h, now), NEW from,
           from = HourStart(HourOf(now) - RebuildHours)
    PROVE  BucketAt(x, now, {i \in incidents : i.to = Ongoing \/ i.to >= from},
                    {m \in maintenances : m.to >= from}) = BucketNow(x)
<1>. DEFINE I == {i \in incidents : i.to = Ongoing \/ i.to >= from}
            M == {m \in maintenances : m.to >= from}
            J == incidents
            N == maintenances
<1>1. x \in Nat /\ x < now /\ from < x /\ from \in Int
  <2>1. /\ HourStart(h) \in Nat /\ HourStart(HourOf(now) - RebuildHours) < HourStart(h)
        /\ x \in Nat /\ x < now /\ HourStart(h) <= x
    BY RebuiltHours
  <2>2. HourOf(now) - RebuildHours \in Int
    BY HourOfInstant, SloAssumption
  <2>3. from \in Int
    BY <2>2, HoursAreOrdered
  <2>. QED BY <2>1, <2>3
<1>2. J \in SUBSET Incident /\ I \in SUBSET Incident
  BY TheIncidents
<1>3. (\E m \in M : Covers(m, x)) <=> (\E m \in N : Covers(m, x))
  <2>1. ASSUME NEW m \in N, Covers(m, x) PROVE m \in M
    <3>1. m \in [from : Nat, to : Nat]
      BY SloAssumption DEF WorldOK
    <3>2. x < m.to /\ m.to \in Int
      BY <2>1, <3>1 DEF Covers
    <3>. QED BY <1>1, <3>2
  <2>. QED BY <2>1
<1>4. (\E i \in I : Hits(i, x)) <=> (\E i \in J : Hits(i, x))
  <2>1. ASSUME NEW i \in J, Hits(i, x) PROVE i \in I
    <3>1. i.to \in Nat \/ i.to = Ongoing
      BY <1>2 DEF Incident
    <3>. QED BY <1>1, <2>1, <3>1 DEF Hits
  <2>. QED BY <2>1
<1>. HIDE DEF I, J, M, N
<1>5. /\ (\E m \in M : Covers(m, x)) => BucketAt(x, now, I, M) = "maintenance"
      /\ (\A m \in M : ~Covers(m, x)) =>
           /\ (\E i \in I : Hits(i, x)) => BucketAt(x, now, I, M) = "unavailable"
           /\ (\A i \in I : ~Hits(i, x)) =>
                BucketAt(x, now, I, M) = IF x < ObservableFrom THEN "unknown" ELSE "available"
  BY <1>1, <1>2, BucketOfPast
<1>6. PICK n \in Int : n = x + 1
  BY <1>1
<1>7. x < n
  BY <1>1, <1>6
<1>8. /\ (\E m \in N : Covers(m, x)) => BucketAt(x, n, J, N) = "maintenance"
      /\ (\A m \in N : ~Covers(m, x)) =>
           /\ (\E i \in J : Hits(i, x)) => BucketAt(x, n, J, N) = "unavailable"
           /\ (\A i \in J : ~Hits(i, x)) =>
                BucketAt(x, n, J, N) = IF x < ObservableFrom THEN "unknown" ELSE "available"
  BY <1>1, <1>2, <1>7, BucketOfPast
<1>9. BucketAt(x, now, I, M) = BucketAt(x, n, J, N)
  BY <1>3, <1>4, <1>5, <1>8
<1>. QED BY <1>6, <1>9 DEF BucketNow, I, J, M, N

LEMMA ListIntervalsTells ==
    ASSUME SloInv, DataInv, NEW w \in Workers, ListIntervals(w)
    PROVE  DataInv'
<1>. DEFINE now == tick[w].now
            from == HourStart(HourOf(now) - RebuildHours)
            seen == [incidents |-> {i \in incidents : i.to = Ongoing \/ i.to >= from},
                     maintenances |-> {m \in maintenances : m.to >= from},
                     edition |-> edition]
            todo == Rebuilt(now)
            t == [tick[w] EXCEPT !.pc = "rebuild", !.todo = todo, !.seen = seen]
<1>1. TickOK(tick[w]) /\ tick = [v \in Workers |-> tick[v]]
  BY DEF SloInv, Typed
<1>2. now \in 0..clock /\ now \in Nat /\ clock \in Nat /\ edition \in Nat /\ WorldOK
  BY DEF DataInv, TickTells, WorldOK
<1>3. tick' = [tick EXCEPT ![w] = t] /\ UNCHANGED <<hourly, written>>
  <2>1. tick' = [tick EXCEPT ![w].pc = "rebuild", ![w].todo = todo, ![w].seen = seen]
    BY DEF ListIntervals
  <2>. HIDE DEF seen, todo, now
  <2>. QED BY <1>1, <2>1 DEF ListIntervals, tables
<1>4. t.pc = "rebuild" /\ t.now = now /\ t.todo = todo /\ t.seen = seen
  <2>. HIDE DEF seen, todo
  <2>. QED BY <1>1 DEF TickOK
<1>5. todo # {}
  <2>1. HourOf(now) \in Nat
    BY <1>2, HourOfInstant
  <2>2. HourOf(now) \in Rebuilt(now)
    BY <2>1, SloAssumption DEF Rebuilt
  <2>. QED BY <2>2
<1>6. ASSUME NEW h \in todo, NEW x \in Elapsed(h, now)
      PROVE  BucketAt(x, now, seen.incidents, seen.maintenances) = BucketNow(x)
  <2>1. h \in Rebuilt(now)
    OBVIOUS
  <2>. HIDE DEF now, todo
  <2>2. BucketAt(x, now, {i \in incidents : i.to = Ongoing \/ i.to >= from},
                 {m \in maintenances : m.to >= from}) = BucketNow(x)
    BY <1>2, <2>1, ReadTells
  <2>. QED BY <2>2
<1>7. seen.edition = edition
  OBVIOUS
<1>8. todo \subseteq Rebuilt(now)
  OBVIOUS
<1>. HIDE DEF t, seen, todo, now
<1>9. TickTells(t)
  BY <1>2, <1>4, <1>5, <1>6, <1>7, <1>8 DEF TickTells, TickSteps
<1>10. [Next]_vars
  BY DEF Next
<1>. QED BY <1>1, <1>3, <1>9, <1>10, TickKeepsTables

\* A row is written from the reads of its tick.
LEMMA RowIsTold ==
    ASSUME DataInv, NEW w \in Workers, UpsertHourly(w), NEW h, h = Min(tick[w].todo)
    PROVE  /\ h \in tick[w].todo
           /\ hourly' = Upserted(hourly, h, hourly'[h]) /\ written' = Upserted(written, h, written'[h])
           /\ RowOK(h)'
<1>. DEFINE t == tick[w]
            now == t.now
            I == t.seen.incidents
            M == t.seen.maintenances
<1>1. /\ TickTells(t) /\ t.pc = "rebuild"
      /\ WorldOK /\ clock \in Nat /\ edition \in Nat
  BY DEF DataInv, UpsertHourly, WorldOK
<1>2. /\ t.todo # {} /\ t.todo \subseteq Rebuilt(now) /\ now \in 0..clock /\ now \in Nat
      /\ t.seen.edition \in 0..edition
  BY <1>1 DEF TickTells
<1>3. h \in t.todo
  <2>1. t.todo \subseteq Nat
    BY <1>2, RebuiltHours
  <2>. QED BY <1>2, <2>1, MinIs
<1>4. /\ hourly' = Upserted(hourly, h, HourlyRollup(h, now, I, M))
      /\ written' = Upserted(written, h, [now |-> now, edition |-> t.seen.edition])
      /\ UNCHANGED <<clock, incidents, maintenances, edition>>
  BY DEF UpsertHourly, world
<1>5. \A x \in Elapsed(h, now) : t.seen.edition = edition => BucketAt(x, now, I, M) = BucketNow(x)
  BY <1>1, <1>3 DEF TickTells
<1>6. h \in Nat /\ HourStart(h) <= now /\ HourStart(h) \in Nat
  BY <1>2, <1>3, RebuiltHours
<1>. HIDE DEF t, now, I, M
<1>7. hourly'[h] = HourlyRollup(h, now, I, M)
  BY <1>4 DEF Upserted
<1>8. written'[h] = [now |-> now, edition |-> t.seen.edition]
  BY <1>4 DEF Upserted
<1>9. PICK B, E : E = Elapsed(h, now) /\ B = [x \in E |-> BucketAt(x, now, I, M)]
  OBVIOUS
<1>10. B \in [E -> Buckets]
  BY <1>9, BucketIs
<1>11. hourly'[h] = [b \in Buckets |-> Cardinality({x \in E : B[x] = b})]
  <2>1. \A b \in Buckets : {x \in E : B[x] = b} = {x \in E : BucketAt(x, now, I, M) = b}
    BY <1>9
  <2>. QED BY <1>7, <1>9, <2>1 DEF HourlyRollup
<1>12. \A x \in E : BucketNow(x)' = BucketNow(x)
  BY <1>4 DEF BucketNow
<1>13. written'[h].edition = edition' => \A x \in E : B[x] = BucketNow(x)'
  BY <1>4, <1>5, <1>8, <1>9, <1>12
<1>14. RowTells(h)'
  <2>1. Elapsed(h, written'[h].now) = E
    BY <1>8, <1>9
  <2>. QED BY <1>10, <1>11, <1>13, <2>1 DEF RowTells
<1>15. /\ written'[h].now \in HourStart(h)..clock' /\ written'[h].edition \in 0..edition'
  BY <1>1, <1>2, <1>4, <1>6, <1>8
<1>16. RowOK(h)'
  BY <1>6, <1>14, <1>15 DEF RowOK
<1>17. hourly' = Upserted(hourly, h, hourly'[h]) /\ written' = Upserted(written, h, written'[h])
  BY <1>4, <1>7, <1>8
<1>. QED BY <1>3, <1>16, <1>17 DEF t

LEMMA UpsertHourlyTells ==
    ASSUME SloInv, DataInv, NEW w \in Workers, UpsertHourly(w)
    PROVE  DataInv'
<1>1. TickOK(tick[w]) /\ tick = [v \in Workers |-> tick[v]]
  BY DEF SloInv, Typed
<1>2. [Next]_vars
  BY DEF Next
<1>3. TickTells(tick[w]) /\ tick[w].pc = "rebuild" /\ WorldOK /\ RowsTell
  BY DEF DataInv, UpsertHourly
<1>4. PICK h : /\ h = Min(tick[w].todo) /\ h \in tick[w].todo
               /\ hourly' = Upserted(hourly, h, hourly'[h]) /\ written' = Upserted(written, h, written'[h])
               /\ RowOK(h)'
  <2>1. PICK h : h = Min(tick[w].todo)
    OBVIOUS
  <2>. QED BY <2>1, RowIsTold
<1>5. PICK t : /\ tick' = [tick EXCEPT ![w] = t]
               /\ \/ t = [NoTick EXCEPT !.pc = "evaluate", !.now = tick[w].now]
                  \/ t = [tick[w] EXCEPT !.todo = tick[w].todo \ {h}] /\ tick[w].todo # {h}
  BY <1>4 DEF UpsertHourly
<1>6. TickTells(t)
  <2>1. CASE t = [NoTick EXCEPT !.pc = "evaluate", !.now = tick[w].now]
    <3>1. t.pc = "evaluate" /\ t.now = tick[w].now
      BY <2>1 DEF NoTick
    <3>. QED BY <1>3, <3>1 DEF TickTells, TickSteps
  <2>2. CASE t = [tick[w] EXCEPT !.todo = tick[w].todo \ {h}] /\ tick[w].todo # {h}
    <3>1. /\ t.pc = "rebuild" /\ t.now = tick[w].now /\ t.seen = tick[w].seen
          /\ t.todo = tick[w].todo \ {h}
      BY <1>1, <1>3, <2>2 DEF TickOK
    <3>2. t.todo # {} /\ t.todo \subseteq tick[w].todo
      BY <1>4, <2>2, <3>1
    <3>. QED BY <1>3, <3>1, <3>2 DEF TickTells
  <2>. QED BY <1>5, <2>1, <2>2
<1>7. WorldOK' /\ \A v \in Workers : TickTells(tick[v])'
  BY <1>1, <1>2, <1>5, <1>6, TickMoves
<1>8. DOMAIN hourly' = DOMAIN hourly \cup {h} /\ DOMAIN written' = DOMAIN written \cup {h}
  BY <1>4 DEF Upserted
<1>9. ASSUME NEW k \in DOMAIN hourly, k # h PROVE RowOK(k)'
  <2>1. hourly'[k] = hourly[k] /\ written'[k] = written[k]
    BY <1>3, <1>4, <1>9 DEF Upserted, RowsTell
  <2>2. RowOK(k)
    BY <1>3 DEF RowsTell
  <2>. QED BY <1>2, <1>3, <2>1, <2>2, RowStays
<1>10. \A k \in DOMAIN hourly' : RowOK(k)'
  BY <1>4, <1>8, <1>9
<1>11. RowsTell'
  BY <1>3, <1>8, <1>10 DEF RowsTell
<1>. QED BY <1>7, <1>11 DEF DataInv

LEMMA InitData == Init => DataInv
<1>. SUFFICES ASSUME Init PROVE DataInv
  OBVIOUS
<1>1. WorldOK
  BY SloAssumption DEF Init, WorldOK
<1>2. TickTells(NoTick)
  BY <1>1 DEF NoTick, TickTells, TickSteps, WorldOK
<1>3. RowsTell
  BY DEF Init, RowsTell
<1>. QED BY <1>1, <1>2, <1>3 DEF Init, DataInv

LEMMA NextData ==
    ASSUME SloInv, DataInv, [Next]_vars
    PROVE  DataInv'
<1>0. /\ WorldOK /\ clock \in Nat /\ clock \in 0..clock
      /\ tick = [v \in Workers |-> tick[v]]
  BY DEF SloInv, Typed, DataInv, WorldOK
<1>1. ASSUME NEW w \in Workers, TickStart(w) PROVE DataInv'
  <2>. DEFINE t == [NoTick EXCEPT !.pc = "list", !.now = clock]
  <2>1. t.pc = "list" /\ t.now = clock
    BY DEF NoTick
  <2>2. tick' = [tick EXCEPT ![w] = t] /\ UNCHANGED <<hourly, written>>
    BY <1>1 DEF TickStart, tables
  <2>. HIDE DEF t
  <2>3. TickTells(t)
    BY <1>0, <2>1, SilentTick DEF TickSteps
  <2>. QED BY <1>0, <2>2, <2>3, TickKeepsTables
<1>2. ASSUME NEW w \in Workers, Evaluate(w) \/ GetAlertRuntime(w) PROVE DataInv'
  <2>1. TickOK(tick[w]) /\ TickTells(tick[w])
    BY DEF SloInv, Typed, DataInv
  <2>2. PICK t : /\ tick' = [tick EXCEPT ![w] = t]
                 /\ t.pc \in {"previous", "record"} /\ t.now = tick[w].now
    <3>1. CASE Evaluate(w)
      <4>. DEFINE state == EvaluateBurnRate(hourly, tick[w].now)
                  t == [tick[w] EXCEPT !.pc = "previous", !.state = state]
      <4>1. tick' = [tick EXCEPT ![w] = t]
        BY <1>0, <3>1 DEF Evaluate
      <4>. HIDE DEF state
      <4>2. t.pc = "previous" /\ t.now = tick[w].now
        BY <2>1 DEF TickOK
      <4>. HIDE DEF t
      <4>. QED BY <4>1, <4>2
    <3>2. CASE GetAlertRuntime(w)
      <4>. DEFINE t == [tick[w] EXCEPT !.pc = "record", !.previous = runtime]
      <4>1. tick' = [tick EXCEPT ![w] = t]
        BY <1>0, <3>2 DEF GetAlertRuntime
      <4>2. t.pc = "record" /\ t.now = tick[w].now
        BY <2>1 DEF TickOK
      <4>. HIDE DEF t
      <4>. QED BY <4>1, <4>2
    <3>. QED BY <1>2, <3>1, <3>2
  <2>3. UNCHANGED <<hourly, written>>
    BY <1>2 DEF Evaluate, GetAlertRuntime, tables
  <2>4. TickTells(t)
    BY <2>1, <2>2 DEF TickTells, TickSteps
  <2>. QED BY <1>0, <2>2, <2>3, <2>4, TickKeepsTables
<1>3. ASSUME NEW w \in Workers, UpsertAlertRuntime(w) \/ Notify(w) \/ Cut(w) PROVE DataInv'
  <2>1. TickTells(tick[w])
    BY DEF DataInv
  <2>2. PICK t : /\ tick' = [tick EXCEPT ![w] = t]
                 /\ \/ t = NoTick
                    \/ t = [NoTick EXCEPT !.pc = "notify", !.state = tick[w].state,
                                          !.now = tick[w].now]
    BY <1>3 DEF UpsertAlertRuntime, Notify, Cut
  <2>3. UNCHANGED <<hourly, written>>
    BY <1>3 DEF UpsertAlertRuntime, Notify, Cut, tables
  <2>4. t.pc \in {"idle", "notify"} /\ (t.now = 0 \/ t.now = tick[w].now)
    <3>1. CASE t = NoTick
      BY <3>1 DEF NoTick
    <3>2. CASE t = [NoTick EXCEPT !.pc = "notify", !.state = tick[w].state, !.now = tick[w].now]
      BY <3>2 DEF NoTick
    <3>. QED BY <2>2, <3>1, <3>2
  <2>5. TickTells(t)
    BY <1>0, <2>1, <2>4 DEF TickTells, TickSteps
  <2>. QED BY <1>0, <2>2, <2>3, <2>5, TickKeepsTables
<1>4. ASSUME UNCHANGED <<tick, hourly, written>> PROVE DataInv'
  <2>1. WorldOK'
    BY <1>0, WorldStays
  <2>2. RowsTell'
    BY <1>0, <1>4, RowsStay DEF DataInv
  <2>3. ASSUME NEW v \in Workers PROVE TickTells(tick[v])'
    <3>1. PICK u : u = tick[v]
      OBVIOUS
    <3>2. TickTells(u)'
      BY <1>0, <3>1, TickTellsStays DEF DataInv
    <3>. QED BY <1>4, <3>1, <3>2 DEF TickTells
  <2>. QED BY <2>1, <2>2, <2>3 DEF DataInv
<1>5. CASE Tick \/ IncidentOpens \/ IncidentResolved \/ WindowCancelled
  BY <1>4, <1>5 DEF Tick, IncidentOpens, IncidentResolved, WindowCancelled, Quiet, tables
<1>6. CASE UNCHANGED vars
  BY <1>4, <1>6 DEF vars
<1>. QED BY <1>1, <1>2, <1>3, <1>5, <1>6, ListIntervalsTells, UpsertHourlyTells DEF Next
-----------------------------------------------------------------------------
(***************************************************************************)
(* What a row adds up to.                                                  *)
(***************************************************************************)
LEMMA ElapsedIs ==
    ASSUME NEW h \in Nat, NEW now \in Int, HourStart(h) <= now
    PROVE  /\ IsFiniteSet(Elapsed(h, now))
           /\ Cardinality(Elapsed(h, now)) = IF now >= HourEnd(h) THEN HourLen
                                             ELSE now - HourStart(h)
           /\ Cardinality(Elapsed(h, now)) <= HourLen
<1>. DEFINE a == HourStart(h)
            L == HourLen
<1>1. a \in Int /\ HourEnd(h) = a + L /\ L \in Nat /\ a <= now
  BY HoursAreOrdered, ReliabilityAssumption
<1>2. Elapsed(h, now) = {t \in a..(a + L - 1) : t < now}
  BY <1>1 DEF Elapsed
<1>. HIDE DEF a, L
<1>3. CASE now >= a + L
  <2>1. Elapsed(h, now) = a..(a + L - 1)
    BY <1>1, <1>2, <1>3
  <2>2. IsFiniteSet(a..(a + L - 1)) /\ Cardinality(a..(a + L - 1)) = L
    <3>. DEFINE z == a + L - 1
    <3>1. z \in Int /\ z = a + L - 1
      BY <1>1
    <3>. HIDE DEF z
    <3>2. IsFiniteSet(a..z) /\ Cardinality(a..z) = IF a > z THEN 0 ELSE z - a + 1
      BY <1>1, <3>1, FS_Interval
    <3>. QED BY <1>1, <3>1, <3>2 DEF z
  <2>. QED BY <1>1, <1>3, <2>1, <2>2 DEF L, a
<1>4. CASE now < a + L
  <2>1. Elapsed(h, now) = a..(now - 1)
    BY <1>1, <1>2, <1>4
  <2>2. IsFiniteSet(a..(now - 1)) /\ Cardinality(a..(now - 1)) = now - a
    <3>. DEFINE z == now - 1
    <3>1. z \in Int /\ z = now - 1
      OBVIOUS
    <3>. HIDE DEF z
    <3>2. IsFiniteSet(a..z) /\ Cardinality(a..z) = IF a > z THEN 0 ELSE z - a + 1
      BY <1>1, <3>1, FS_Interval
    <3>. QED BY <1>1, <3>1, <3>2 DEF z
  <2>. QED BY <1>1, <1>4, <2>1, <2>2 DEF L, a
<1>. QED BY <1>1, <1>3, <1>4

LEMMA FourBuckets == IsFiniteSet(Buckets)
<1>1. IsFiniteSet({"maintenance"} \cup {"unavailable"})
  BY FS_Singleton, FS_AddElement
<1>2. IsFiniteSet(({"maintenance"} \cup {"unavailable"}) \cup {"available"})
  BY <1>1, FS_AddElement
<1>3. IsFiniteSet((({"maintenance"} \cup {"unavailable"}) \cup {"available"}) \cup {"unknown"})
  BY <1>2, FS_AddElement
<1>4. Buckets = (({"maintenance"} \cup {"unavailable"}) \cup {"available"}) \cup {"unknown"}
  BY DEF Buckets
<1>. QED BY <1>3, <1>4

\* A partition of an hour into buckets accounts for each instant once.
LEMMA PartitionAddsUp ==
    ASSUME NEW E, IsFiniteSet(E), NEW B \in [E -> Buckets]
    PROVE  /\ SumFunction([b \in Buckets |-> Cardinality({x \in E : B[x] = b})]) = Cardinality(E)
           /\ \A b \in Buckets : Cardinality({x \in E : B[x] = b}) \in 0..Cardinality(E)
<1>1. PICK A : A = [b \in Buckets |-> {x \in E : B[x] = b}]
  OBVIOUS
<1>2. \A b \in Buckets : A[b] \in SUBSET E
  BY <1>1
<1>3. \A b \in Buckets : /\ IsFiniteSet(A[b]) /\ Cardinality(A[b]) \in Nat
                         /\ Cardinality(A[b]) <= Cardinality(E)
  BY <1>2, FS_Subset, FS_CardinalityType
<1>4. \A b, c \in Buckets : b # c => A[b] \cap A[c] = {}
  BY <1>1
<1>5. SumFunction([b \in Buckets |-> Cardinality(A[b])]) = Cardinality(UNION {A[b] : b \in Buckets})
  BY <1>3, <1>4, FourBuckets, SumCounts
<1>6. UNION {A[b] : b \in Buckets} = E
  BY <1>1
<1>7. \A b \in Buckets : A[b] = {x \in E : B[x] = b}
  BY <1>1
<1>8. [b \in Buckets |-> Cardinality(A[b])] = [b \in Buckets |-> Cardinality({x \in E : B[x] = b})]
  BY <1>7
<1>9. Cardinality(E) \in Nat
  BY FS_CardinalityType
<1>10. SumFunction([b \in Buckets |-> Cardinality({x \in E : B[x] = b})]) = Cardinality(E)
  BY <1>5, <1>6, <1>8
<1>11. \A b \in Buckets : Cardinality(A[b]) \in 0..Cardinality(E)
  BY <1>3, <1>9
<1>12. \A b \in Buckets : Cardinality({x \in E : B[x] = b}) \in 0..Cardinality(E)
  BY <1>7, <1>11
<1>. QED BY <1>10, <1>12

LEMMA RowIsTyped ==
    ASSUME WorldOK, NEW h, RowOK(h)
    PROVE  /\ hourly[h] \in [Buckets -> 0..HourLen]
           /\ SumFunction(hourly[h]) = IF written[h].now >= HourEnd(h) THEN HourLen
                                       ELSE written[h].now - HourStart(h)
<1>. DEFINE n == written[h].now
            E == Elapsed(h, n)
<1>1. h \in Nat /\ n \in Int /\ HourStart(h) <= n /\ HourLen \in Nat
  <2>1. h \in Nat /\ n \in HourStart(h)..clock /\ clock \in Int
    BY DEF RowOK, WorldOK
  <2>2. HourStart(h) \in Int
    BY <2>1, HoursAreOrdered
  <2>. HIDE DEF n
  <2>. QED BY <2>1, <2>2, ReliabilityAssumption
<1>2. PICK B \in [E -> Buckets] :
        hourly[h] = [b \in Buckets |-> Cardinality({x \in E : B[x] = b})]
  BY DEF RowOK, RowTells
<1>. HIDE DEF n
<1>3. /\ IsFiniteSet(E) /\ Cardinality(E) <= HourLen
      /\ Cardinality(E) = IF n >= HourEnd(h) THEN HourLen ELSE n - HourStart(h)
  BY <1>1, ElapsedIs
<1>4. Cardinality(E) \in Nat
  BY <1>3, FS_CardinalityType
<1>. HIDE DEF E
<1>5. /\ SumFunction([b \in Buckets |-> Cardinality({x \in E : B[x] = b})]) = Cardinality(E)
      /\ \A b \in Buckets : Cardinality({x \in E : B[x] = b}) \in 0..Cardinality(E)
  BY <1>3, PartitionAddsUp
<1>6. \A b \in Buckets : Cardinality({x \in E : B[x] = b}) \in 0..HourLen
  BY <1>1, <1>3, <1>4, <1>5
<1>. QED BY <1>2, <1>3, <1>5, <1>6 DEF n

LEMMA MuddledIsTyped ==
    ASSUME muddled \in BOOLEAN, [Next]_vars
    PROVE  muddled' \in BOOLEAN
<1>1. ASSUME NEW w \in Workers, UpsertAlertRuntime(w) \/ Cut(w) PROVE muddled' \in BOOLEAN
  BY <1>1 DEF UpsertAlertRuntime, Cut
<1>2. ASSUME UNCHANGED muddled PROVE muddled' \in BOOLEAN
  BY <1>2
<1>3. ASSUME NEW w \in Workers,
             \/ TickStart(w) \/ ListIntervals(w) \/ UpsertHourly(w) \/ Evaluate(w)
             \/ GetAlertRuntime(w) \/ Notify(w)
      PROVE  UNCHANGED muddled
  BY <1>3 DEF TickStart, ListIntervals, UpsertHourly, Evaluate, GetAlertRuntime, Notify, history
<1>4. CASE Tick \/ IncidentOpens \/ IncidentResolved \/ WindowCancelled
  BY <1>4 DEF Tick, IncidentOpens, IncidentResolved, WindowCancelled, Quiet, history
<1>5. CASE UNCHANGED vars
  BY <1>5 DEF vars
<1>. QED BY <1>1, <1>2, <1>3, <1>4, <1>5 DEF Next

\* A row accounts for every instant of its hour that was over when the tick
\* behind it began, once, and for no other; and the types.
THEOREM RowsAreComplete == Spec => []TypeOK
<1>. DEFINE Inv == SloInv /\ DataInv /\ muddled \in BOOLEAN
<1>1. Init => Inv
  BY InitSlo, InitData DEF Init
<1>2. Inv /\ [Next]_vars => Inv'
  BY NextSlo, NextData, MuddledIsTyped
<1>3. Inv => TypeOK
  <2>. SUFFICES ASSUME Inv PROVE TypeOK
    OBVIOUS
  <2>1. WorldOK /\ RowsTell
    BY DEF DataInv
  <2>2. \A h \in DOMAIN hourly :
          /\ hourly[h] \in [Buckets -> 0..HourLen]
          /\ SumFunction(hourly[h]) = IF written[h].now >= HourEnd(h) THEN HourLen
                                      ELSE written[h].now - HourStart(h)
    BY <2>1, RowIsTyped DEF RowsTell
  <2>3. \A h \in DOMAIN hourly : written[h].now \in 0..clock /\ written[h].edition \in 0..edition
    <3>. SUFFICES ASSUME NEW h \in DOMAIN hourly
                  PROVE  written[h].now \in 0..clock /\ written[h].edition \in 0..edition
      OBVIOUS
    <3>1. h \in Nat /\ written[h].now \in HourStart(h)..clock /\ written[h].edition \in 0..edition
      BY <2>1 DEF RowsTell, RowOK
    <3>2. HourStart(h) \in Int /\ HourStart(h) >= 0
      BY <3>1, HoursAreOrdered
    <3>. QED BY <3>1, <3>2
  <2>4. \A w \in Workers : /\ tick[w].pc \in TickSteps /\ tick[w].now \in 0..clock
                           /\ tick[w].previous \in Runtime
    BY DEF DataInv, TickTells, SloInv, Typed, TickOK, Stamped
  <2>5. runtime \in Runtime /\ clock \in 0..MaxTime /\ DOMAIN hourly = DOMAIN written
    BY <2>1 DEF SloInv, Typed, Stamped, WorldOK, RowsTell
  <2>. QED BY <2>2, <2>3, <2>4, <2>5 DEF TypeOK
<1>. HIDE DEF Inv
<1>. QED BY <1>1, <1>2, <1>3, PTL DEF Spec
-----------------------------------------------------------------------------
(***************************************************************************)
(* What the closed hours add up to, when each of them has a row that is up *)
(* to date: to what the time line says.                                    *)
(***************************************************************************)
LEMMA SpanIsPast ==
    ASSUME NEW now \in Nat, NEW n \in Nat
    PROVE  /\ IsFiniteSet(Span(now, n))
           /\ \A x \in Span(now, n) : x \in Nat /\ x < now
           /\ \A x \in Nat : x \in Span(now, n) <=>
                \E h \in ClosedHours(now, n) : h \in Nat /\ HourStart(h) <= x /\ x < HourEnd(h)
<1>. DEFINE H == HourOf(now)
<1>1. H \in Nat /\ HourStart(H) <= now /\ H - n \in Int
  BY HourOfInstant
<1>2. HourStart(H) \in Int /\ HourStart(H - n) \in Int
  BY <1>1, HoursAreOrdered
<1>3. ClosedHours(now, n) = (H - n)..(H - 1)
  BY <1>1 DEF ClosedHours
<1>4. Span(now, n) = {t \in HourStart(H - n)..(HourStart(H) - 1) : t >= 0}
  BY DEF Span
<1>. HIDE DEF H
<1>5. IsFiniteSet(Span(now, n))
  <2>. DEFINE a == HourStart(H - n)
              z == HourStart(H) - 1
  <2>1. a \in Int /\ z \in Int
    BY <1>2
  <2>2. Span(now, n) \subseteq a..z
    BY <1>4
  <2>. HIDE DEF a, z
  <2>3. IsFiniteSet(a..z)
    BY <2>1, FS_Interval
  <2>. QED BY <2>2, <2>3, FS_Subset
<1>6. \A x \in Span(now, n) : x \in Nat /\ x < now
  BY <1>1, <1>2, <1>4
<1>7. ASSUME NEW x \in Span(now, n)
      PROVE  \E h \in ClosedHours(now, n) : h \in Nat /\ HourStart(h) <= x /\ x < HourEnd(h)
  <2>1. x \in Nat /\ HourStart(H - n) <= x /\ x < HourStart(H)
    BY <1>2, <1>4
  <2>2. PICK h \in Nat : HourStart(h) <= x /\ x < HourEnd(h)
    BY <2>1, HourOfInstant
  <2>3. HourStart(h) \in Int /\ HourEnd(h) = HourStart(h) + HourLen /\ HourLen \in Nat
    <3>1. h \in Int
      OBVIOUS
    <3>2. HourStart(h) \in Int /\ HourEnd(h) = HourStart(h) + HourLen
      BY <3>1, HoursAreOrdered
    <3>. QED BY <3>2, ReliabilityAssumption
  <2>4. ~(h < H - n)
    <3>1. h < H - n => HourEnd(h) <= HourStart(H - n)
      BY <1>1, HoursAreOrdered
    <3>. QED BY <1>2, <2>1, <2>2, <2>3, <3>1
  <2>5. ~(H < h) /\ h # H
    <3>1. H < h => HourEnd(H) <= HourStart(h)
      BY <1>1, HoursAreOrdered
    <3>2. HourEnd(H) = HourStart(H) + HourLen
      BY <1>1, HoursAreOrdered
    <3>. QED BY <1>2, <2>1, <2>2, <2>3, <3>1, <3>2
  <2>6. h \in (H - n)..(H - 1)
    BY <1>1, <2>4, <2>5
  <2>. QED BY <1>3, <2>2, <2>6
<1>8. ASSUME NEW x \in Nat, NEW h \in ClosedHours(now, n), h \in Nat,
             HourStart(h) <= x, x < HourEnd(h)
      PROVE  x \in Span(now, n)
  <2>1. h \in Int /\ H - n <= h /\ h < H
    BY <1>1, <1>3
  <2>2. HourEnd(h) <= HourStart(H) /\ HourStart(h) \in Int
        /\ HourEnd(h) = HourStart(h) + HourLen /\ HourLen \in Nat
    BY <1>1, <2>1, HoursAreOrdered, ReliabilityAssumption
  <2>3. HourStart(H - n) <= HourStart(h)
    <3>1. H - n < h => HourEnd(H - n) <= HourStart(h)
      BY <1>1, <2>1, HoursAreOrdered
    <3>2. HourEnd(H - n) = HourStart(H - n) + HourLen
      BY <1>1, HoursAreOrdered
    <3>3. CASE H - n < h
      BY <1>2, <2>2, <3>1, <3>2, <3>3
    <3>4. CASE H - n = h
      BY <2>2, <3>4
    <3>. QED BY <1>1, <2>1, <3>3, <3>4
  <2>4. x \in HourStart(H - n)..(HourStart(H) - 1)
    BY <1>2, <1>8, <2>2, <2>3
  <2>. QED BY <1>4, <2>4
<1>. QED BY <1>5, <1>6, <1>7, <1>8

\* The hours evaluated are among those of the longest window.
LEMMA ClosedHoursOfSlow ==
    ASSUME NEW now \in Nat, NEW n \in 1..SlowLong
    PROVE  ClosedHours(now, n) \subseteq ClosedHours(now, SlowLong)
BY HourOfInstant, ReliabilityAssumption DEF ClosedHours

\* A row that is up to date counts the instants of its hour as they were.
LEMMA RowIsRight ==
    ASSUME WorldOK, NEW h, RowOK(h), written[h].now >= HourEnd(h), written[h].edition = edition,
           NEW b \in Buckets
    PROVE  hourly[h][b] = Cardinality({x \in HourStart(h)..(HourEnd(h) - 1) : BucketNow(x) = b})
<1>. DEFINE E == Elapsed(h, written[h].now)
            W == HourStart(h)..(HourEnd(h) - 1)
<1>1. PICK B \in [E -> Buckets] :
        /\ hourly[h] = [c \in Buckets |-> Cardinality({x \in E : B[x] = c})]
        /\ written[h].edition = edition => \A x \in E : B[x] = BucketNow(x)
  BY DEF RowOK, RowTells
<1>2. h \in Nat /\ written[h].now \in HourStart(h)..clock /\ clock \in Int
  BY DEF RowOK, WorldOK
<1>3. HourStart(h) \in Int /\ HourEnd(h) = HourStart(h) + HourLen /\ HourLen \in Nat
  BY <1>2, HoursAreOrdered, ReliabilityAssumption
<1>4. written[h].now \in Int
  BY <1>2, <1>3
<1>5. E = W
  <2>1. \A x \in W : x < written[h].now
    BY <1>3, <1>4
  <2>. QED BY <2>1 DEF Elapsed
<1>. HIDE DEF E, W
<1>6. {x \in E : B[x] = b} = {x \in W : BucketNow(x) = b}
  BY <1>1, <1>5
<1>7. hourly[h][b] = Cardinality({x \in E : B[x] = b})
  BY <1>1
<1>. QED BY <1>6, <1>7 DEF W

LEMMA TotalIsRight ==
    ASSUME DataInv, NEW now \in Nat, NEW n \in 1..SlowLong, UpToDate(now), NEW b \in Buckets
    PROVE  Total(hourly, ClosedHours(now, n), b) =
             Cardinality({x \in Span(now, n) : BucketNow(x) = b})
<1>1. n \in Nat /\ WorldOK /\ RowsTell
  BY ReliabilityAssumption DEF DataInv
<1>2. PICK S : S = ClosedHours(now, n) \cap DOMAIN hourly
  OBVIOUS
<1>3. \A h \in ClosedHours(now, n) : h \in Nat =>
        /\ h \in DOMAIN written /\ written[h].now >= HourEnd(h) /\ written[h].edition = edition
  BY ClosedHoursOfSlow DEF UpToDate
<1>4. \A h : h \in S <=> h \in ClosedHours(now, n) /\ h \in Nat
  BY <1>1, <1>2, <1>3 DEF RowsTell, RowOK
<1>5. PICK A : A = [h \in S |-> {x \in HourStart(h)..(HourEnd(h) - 1) : BucketNow(x) = b}]
  OBVIOUS
<1>6. \A h \in S : hourly[h][b] = Cardinality(A[h])
  <2>. SUFFICES ASSUME NEW h \in S PROVE hourly[h][b] = Cardinality(A[h])
    OBVIOUS
  <2>1. RowOK(h) /\ written[h].now >= HourEnd(h) /\ written[h].edition = edition
    BY <1>1, <1>2, <1>3, <1>4 DEF RowsTell
  <2>2. hourly[h][b] = Cardinality({x \in HourStart(h)..(HourEnd(h) - 1) : BucketNow(x) = b})
    BY <1>1, <2>1, RowIsRight
  <2>. QED BY <1>5, <2>2
<1>7. \A h \in S : HourStart(h) \in Int /\ HourEnd(h) \in Int /\ HourStart(h) >= 0
  <2>. SUFFICES ASSUME NEW h \in S
                PROVE  HourStart(h) \in Int /\ HourEnd(h) \in Int /\ HourStart(h) >= 0
    OBVIOUS
  <2>1. h \in Nat
    BY <1>4
  <2>. QED BY <2>1, HoursAreOrdered, ReliabilityAssumption
<1>8. IsFiniteSet(S)
  <2>. DEFINE H == HourOf(now)
  <2>1. H \in Nat
    BY HourOfInstant
  <2>2. S \subseteq (H - n)..(H - 1)
    BY <1>1, <1>2, <2>1 DEF ClosedHours
  <2>. HIDE DEF H
  <2>3. PICK y, z \in Int : y = H - n /\ z = H - 1
    BY <1>1, <2>1
  <2>4. IsFiniteSet(y..z)
    BY <2>3, FS_Interval
  <2>. QED BY <2>2, <2>3, <2>4, FS_Subset
<1>9. \A h \in S : IsFiniteSet(A[h])
  <2>. SUFFICES ASSUME NEW h \in S PROVE IsFiniteSet(A[h])
    OBVIOUS
  <2>1. PICK y, z \in Int : y = HourStart(h) /\ z = HourEnd(h) - 1
    BY <1>7
  <2>2. A[h] \subseteq y..z
    BY <1>5, <2>1
  <2>3. IsFiniteSet(y..z)
    BY <2>1, FS_Interval
  <2>. QED BY <2>2, <2>3, FS_Subset
<1>10. \A h \in S : \A x \in A[h] :
         x \in Nat /\ HourStart(h) <= x /\ x < HourEnd(h) /\ BucketNow(x) = b
  BY <1>5, <1>7
<1>11. ASSUME NEW h \in S, NEW k \in S, h # k PROVE A[h] \cap A[k] = {}
  <2>1. ASSUME NEW x \in A[h], x \in A[k] PROVE FALSE
    <3>1. h \in Int /\ k \in Int
      BY <1>4
    <3>2. x \in Int /\ HourStart(h) <= x /\ x < HourEnd(h) /\ HourStart(k) <= x /\ x < HourEnd(k)
      BY <1>10, <2>1
    <3>. QED BY <1>11, <3>1, <3>2, HourIs
  <2>. QED BY <2>1
<1>12. UNION {A[h] : h \in S} = {x \in Span(now, n) : BucketNow(x) = b}
  <2>1. ASSUME NEW h \in S, NEW x \in A[h] PROVE x \in Span(now, n) /\ BucketNow(x) = b
    BY <1>1, <1>4, <1>10, SpanIsPast
  <2>2. ASSUME NEW x \in Span(now, n), BucketNow(x) = b PROVE \E h \in S : x \in A[h]
    <3>1. x \in Nat
      BY <1>1, SpanIsPast
    <3>2. PICK h \in ClosedHours(now, n) : h \in Nat /\ HourStart(h) <= x /\ x < HourEnd(h)
      BY <1>1, <3>1, SpanIsPast
    <3>3. h \in S
      BY <1>4, <3>2
    <3>4. x \in HourStart(h)..(HourEnd(h) - 1)
      BY <1>7, <3>1, <3>2, <3>3
    <3>. QED BY <1>5, <2>2, <3>3, <3>4
  <2>. QED BY <2>1, <2>2
<1>13. SumFunction([h \in S |-> Cardinality(A[h])]) = Cardinality(UNION {A[h] : h \in S})
  BY <1>8, <1>9, <1>11, SumCounts
<1>14. [h \in S |-> hourly[h][b]] = [h \in S |-> Cardinality(A[h])]
  BY <1>6
<1>15. Total(hourly, ClosedHours(now, n), b) = SumFunction([h \in S |-> hourly[h][b]])
  BY <1>2 DEF Total
<1>. QED BY <1>12, <1>13, <1>14, <1>15

\* The buckets of the past, as TrueState sees them.
LEMMA BucketsOfSpan ==
    ASSUME WorldOK, NEW now \in Nat, NEW n \in Nat
    PROVE  \A x \in Span(now, n) : BucketAt(x, now, incidents, maintenances) = BucketNow(x)
<1>. SUFFICES ASSUME NEW x \in Span(now, n)
              PROVE  BucketAt(x, now, incidents, maintenances) = BucketNow(x)
  OBVIOUS
<1>. DEFINE J == incidents
            N == maintenances
<1>1. x \in Nat /\ x < now /\ now \in Int /\ J \in SUBSET Incident
  BY SpanIsPast, TheIncidents
<1>. HIDE DEF J, N
<1>2. /\ (\E m \in N : Covers(m, x)) => BucketAt(x, now, J, N) = "maintenance"
      /\ (\A m \in N : ~Covers(m, x)) =>
           /\ (\E i \in J : Hits(i, x)) => BucketAt(x, now, J, N) = "unavailable"
           /\ (\A i \in J : ~Hits(i, x)) =>
                BucketAt(x, now, J, N) = IF x < ObservableFrom THEN "unknown" ELSE "available"
  BY <1>1, BucketOfPast
<1>3. PICK k \in Int : k = x + 1
  BY <1>1
<1>4. x < k
  BY <1>1, <1>3
<1>5. /\ (\E m \in N : Covers(m, x)) => BucketAt(x, k, J, N) = "maintenance"
      /\ (\A m \in N : ~Covers(m, x)) =>
           /\ (\E i \in J : Hits(i, x)) => BucketAt(x, k, J, N) = "unavailable"
           /\ (\A i \in J : ~Hits(i, x)) =>
                BucketAt(x, k, J, N) = IF x < ObservableFrom THEN "unknown" ELSE "available"
  BY <1>1, <1>4, BucketOfPast
<1>6. BucketAt(x, now, J, N) = BucketAt(x, k, J, N)
  BY <1>2, <1>5
<1>. QED BY <1>3, <1>6 DEF BucketNow, J, N

\* The eligible and the consumed time of a window are those of the time line.
LEMMA WindowIsRight ==
    ASSUME DataInv, NEW now \in Nat, NEW n \in 1..SlowLong, UpToDate(now)
    PROVE  /\ Eligible(hourly, ClosedHours(now, n)) =
                Cardinality({t \in Span(now, n) : Counts(t, now)})
           /\ Consumed(hourly, ClosedHours(now, n)) =
                Cardinality({t \in Span(now, n) : Bad(t, now)})
           /\ Eligible(hourly, ClosedHours(now, n)) = 0 <=> ~HasData(now, n)
<1>0. n \in Nat /\ WorldOK
  BY ReliabilityAssumption DEF DataInv
<1>1. PICK P : P = [b \in Buckets |-> {x \in Span(now, n) : BucketNow(x) = b}]
  OBVIOUS
<1>2. \A b \in Buckets : Total(hourly, ClosedHours(now, n), b) = Cardinality(P[b])
  BY <1>1, TotalIsRight
<1>3. IsFiniteSet(Span(now, n))
  BY <1>0, SpanIsPast
<1>4. \A b \in Buckets : IsFiniteSet(P[b]) /\ Cardinality(P[b]) \in Nat
  <2>1. \A b \in Buckets : P[b] \subseteq Span(now, n)
    BY <1>1
  <2>. QED BY <1>3, <2>1, FS_Subset, FS_CardinalityType
<1>5. {"available", "unavailable", "maintenance"} \subseteq Buckets
  BY DEF Buckets
<1>6. PICK a, u, m : a = P["available"] /\ u = P["unavailable"] /\ m = P["maintenance"]
  OBVIOUS
<1>7. /\ IsFiniteSet(a) /\ IsFiniteSet(u) /\ IsFiniteSet(m)
      /\ Cardinality(a) \in Nat /\ Cardinality(u) \in Nat /\ Cardinality(m) \in Nat
      /\ a \cap u = {} /\ a \cap m = {} /\ u \cap m = {}
  BY <1>1, <1>4, <1>5, <1>6
<1>8. /\ Total(hourly, ClosedHours(now, n), "available") = Cardinality(a)
      /\ Total(hourly, ClosedHours(now, n), "unavailable") = Cardinality(u)
      /\ Total(hourly, ClosedHours(now, n), "maintenance") = Cardinality(m)
  BY <1>2, <1>5, <1>6
<1>9. PICK bad : bad = IF ExcludeMaintenance THEN u ELSE u \cup m
  OBVIOUS
<1>10. IsFiniteSet(bad) /\ a \cap bad = {}
       /\ Cardinality(bad) = Cardinality(u) + IF ExcludeMaintenance THEN 0 ELSE Cardinality(m)
  <2>1. IsFiniteSet(u \cup m)
        /\ Cardinality(u \cup m) = Cardinality(u) + Cardinality(m) - Cardinality(u \cap m)
    BY <1>7, FS_Union
  <2>2. Cardinality(u \cap m) = 0
    BY <1>7, FS_EmptySet
  <2>. QED BY <1>7, <1>9, <2>1, <2>2
<1>11. IsFiniteSet(a \cup bad) /\ Cardinality(a \cup bad) = Cardinality(a) + Cardinality(bad)
       /\ Cardinality(bad) \in Nat
  <2>1. IsFiniteSet(a \cup bad)
        /\ Cardinality(a \cup bad) = Cardinality(a) + Cardinality(bad) - Cardinality(a \cap bad)
    BY <1>7, <1>10, FS_Union
  <2>2. Cardinality(a \cap bad) = 0
    BY <1>10, FS_EmptySet
  <2>3. Cardinality(bad) \in Nat
    BY <1>10, FS_CardinalityType
  <2>. QED BY <1>7, <2>1, <2>2, <2>3
<1>12. Eligible(hourly, ClosedHours(now, n)) = Cardinality(a \cup bad)
  BY <1>7, <1>8, <1>10, <1>11 DEF Eligible
<1>13. Consumed(hourly, ClosedHours(now, n)) = Cardinality(bad)
  BY <1>7, <1>8, <1>11, <1>12 DEF Consumed
<1>14. \A x \in Span(now, n) : BucketAt(x, now, incidents, maintenances) = BucketNow(x)
  BY <1>0, BucketsOfSpan
<1>15. a \cup bad = {t \in Span(now, n) : Counts(t, now)}
  BY <1>1, <1>5, <1>6, <1>9, <1>14, ReliabilityAssumption DEF Counts
<1>16. bad = {t \in Span(now, n) : Bad(t, now)}
  BY <1>1, <1>5, <1>6, <1>9, <1>14, ReliabilityAssumption DEF Counts, Bad
<1>17. Cardinality(a \cup bad) = 0 <=> a \cup bad = {}
  BY <1>11, FS_EmptySet
<1>18. a \cup bad = {} <=> ~HasData(now, n)
  BY <1>15 DEF HasData
<1>. QED BY <1>12, <1>13, <1>15, <1>16, <1>17, <1>18

\* A window burns at a threshold exactly when the time line does.
LEMMA WindowBurns ==
    ASSUME DataInv, NEW now \in Nat, NEW n \in 1..SlowLong, UpToDate(now), NEW threshold
    PROVE  /\ Burning(now, n, threshold) <=>
                HasData(now, n) /\ BurnsAt(hourly, ClosedHours(now, n), threshold)
           /\ Eligible(hourly, ClosedHours(now, n)) = 0 <=> ~HasData(now, n)
<1>1. /\ Eligible(hourly, ClosedHours(now, n)) = Cardinality({t \in Span(now, n) : Counts(t, now)})
      /\ Consumed(hourly, ClosedHours(now, n)) = Cardinality({t \in Span(now, n) : Bad(t, now)})
      /\ Eligible(hourly, ClosedHours(now, n)) = 0 <=> ~HasData(now, n)
  BY WindowIsRight
<1>2. HasData(now, n) <=> {t \in Span(now, n) : Counts(t, now)} # {}
  BY DEF HasData
<1>. QED BY <1>1, <1>2, Zenon DEF Burning, BurnsAt

LEMMA PairIs ==
    ASSUME DataInv, NEW now \in Nat, NEW s \in 1..SlowLong, NEW l \in 1..SlowLong, UpToDate(now)
    PROVE  LET All(threshold) == Burning(now, s, threshold) /\ Burning(now, l, threshold)
               pair == BurnPair(hourly, now, s, l) IN
           /\ pair = "critical" <=> All(CriticalThreshold)
           /\ pair = "warning" <=> All(WarningThreshold) /\ ~All(CriticalThreshold)
           /\ pair = "healthy" <=> /\ HasData(now, s) /\ HasData(now, l)
                                   /\ ~All(WarningThreshold) /\ ~All(CriticalThreshold)
           /\ pair \in States
<1>1. \A threshold : \A n \in {s, l} :
        /\ Burning(now, n, threshold) <=>
             HasData(now, n) /\ BurnsAt(hourly, ClosedHours(now, n), threshold)
        /\ Eligible(hourly, ClosedHours(now, n)) = 0 <=> ~HasData(now, n)
  BY WindowBurns
<1>2. CASE HasData(now, s) /\ HasData(now, l)
  BY <1>1, <1>2 DEF BurnPair, States
<1>3. CASE ~(HasData(now, s) /\ HasData(now, l))
  <2>1. BurnPair(hourly, now, s, l) = "insufficient-data"
    BY <1>1, <1>3 DEF BurnPair
  <2>. QED BY <1>1, <1>3, <2>1 DEF States
<1>. QED BY <1>2, <1>3

LEMMA StateIsTrue ==
    ASSUME DataInv, NEW now \in Nat, UpToDate(now)
    PROVE  EvaluateBurnRate(hourly, now) = TrueState(now)
<1>1. PICK fast, slow : /\ fast = BurnPair(hourly, now, FastShort, FastLong)
                        /\ slow = BurnPair(hourly, now, SlowShort, SlowLong)
  OBVIOUS
<1>. DEFINE Fast(threshold) == Burning(now, FastShort, threshold) /\ Burning(now, FastLong, threshold)
            Slow(threshold) == Burning(now, SlowShort, threshold) /\ Burning(now, SlowLong, threshold)
            C == CriticalThreshold
            W == WarningThreshold
<1>2. {FastShort, FastLong, SlowShort, SlowLong} \subseteq 1..SlowLong
  BY ReliabilityAssumption, SloAssumption
<1>3. /\ fast = "critical" <=> Fast(C)
      /\ fast = "warning" <=> Fast(W) /\ ~Fast(C)
      /\ fast = "healthy" <=> /\ HasData(now, FastShort) /\ HasData(now, FastLong)
                              /\ ~Fast(W) /\ ~Fast(C)
      /\ fast \in States
  BY <1>1, <1>2, PairIs
<1>4. /\ slow = "critical" <=> Slow(C)
      /\ slow = "warning" <=> Slow(W) /\ ~Slow(C)
      /\ slow = "healthy" <=> /\ HasData(now, SlowShort) /\ HasData(now, SlowLong)
                              /\ ~Slow(W) /\ ~Slow(C)
      /\ slow \in States
  BY <1>1, <1>2, PairIs
<1>5. \A threshold : SomePair(now, threshold) <=> Fast(threshold) \/ Slow(threshold)
  BY DEF SomePair, Pairs
<1>6. (\A n \in UNION Pairs : HasData(now, n)) <=>
        /\ HasData(now, FastShort) /\ HasData(now, FastLong)
        /\ HasData(now, SlowShort) /\ HasData(now, SlowLong)
  BY DEF Pairs
<1>7. EvaluateBurnRate(hourly, now) = Merged(fast, slow)
  BY <1>1 DEF EvaluateBurnRate
<1>8. PICK all : all = (\A n \in UNION Pairs : HasData(now, n)) /\ all \in BOOLEAN
  OBVIOUS
<1>. HIDE DEF Fast, Slow, C, W
<1>9. SomePair(now, C) <=> Fast(C) \/ Slow(C)
  BY <1>5
<1>10. SomePair(now, W) <=> Fast(W) \/ Slow(W)
  BY <1>5
<1>11. CASE SomePair(now, C)
  <2>1. TrueState(now) = "critical"
    BY <1>11 DEF TrueState, C
  <2>2. Merged(fast, slow) = "critical"
    BY <1>3, <1>4, <1>9, <1>11 DEF Merged
  <2>. QED BY <1>7, <2>1, <2>2
<1>12. CASE ~SomePair(now, C) /\ SomePair(now, W)
  <2>1. TrueState(now) = "warning"
    BY <1>12 DEF TrueState, C, W
  <2>2. fast # "critical" /\ slow # "critical" /\ (fast = "warning" \/ slow = "warning")
    BY <1>3, <1>4, <1>9, <1>10, <1>12
  <2>3. Merged(fast, slow) = "warning"
    BY <2>2 DEF Merged
  <2>. QED BY <1>7, <2>1, <2>3
<1>13. CASE ~SomePair(now, C) /\ ~SomePair(now, W)
  <2>1. TrueState(now) = IF \A n \in UNION Pairs : HasData(now, n) THEN "healthy"
                         ELSE "insufficient-data"
    BY <1>13 DEF TrueState, C, W
  <2>2. fast \notin {"critical", "warning"} /\ slow \notin {"critical", "warning"}
    BY <1>3, <1>4, <1>9, <1>10, <1>13
  <2>3. fast = "healthy" /\ slow = "healthy" <=> \A n \in UNION Pairs : HasData(now, n)
    BY <1>3, <1>4, <1>6, <1>9, <1>10, <1>13
  <2>4. Merged(fast, slow) = IF fast = "healthy" /\ slow = "healthy" THEN "healthy"
                             ELSE "insufficient-data"
    BY <2>2 DEF Merged
  <2>. QED BY <1>7, <2>1, <2>3, <2>4
<1>. QED BY <1>11, <1>12, <1>13

\* docs/27: a state is right.  What a tick evaluates from the rows is what the
\* incidents and windows say of the closed hours, if each of these has a row
\* that is up to date.
THEOREM StateIsRight == Spec => EvaluationIsRight
<1>1. SloInv /\ DataInv /\ [Next]_vars => (SloInv /\ DataInv)'
  BY NextSlo, NextData
<1>2. SloInv /\ DataInv =>
        \A w \in Workers : (Evaluate(w) /\ UpToDate(tick[w].now))
                             => tick'[w].state = TrueState(tick[w].now)
  <2>. SUFFICES ASSUME SloInv, DataInv, NEW w \in Workers, Evaluate(w), UpToDate(tick[w].now)
                PROVE  tick'[w].state = TrueState(tick[w].now)
    OBVIOUS
  <2>1. TickOK(tick[w]) /\ tick = [v \in Workers |-> tick[v]] /\ tick[w].now \in Nat
    BY DEF SloInv, Typed, TickOK
  <2>2. tick'[w].state = EvaluateBurnRate(hourly, tick[w].now)
    BY <2>1 DEF Evaluate, TickOK
  <2>3. EvaluateBurnRate(hourly, tick[w].now) = TrueState(tick[w].now)
    BY <2>1, StateIsTrue
  <2>. QED BY <2>2, <2>3
<1>. QED BY <1>1, <1>2, InitSlo, InitData, PTL DEF Spec, EvaluationIsRight
=============================================================================
