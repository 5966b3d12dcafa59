-------------------------- MODULE MaintenanceProofs --------------------------
(***************************************************************************)
(* Maintenance windows for any number of workers, administrators, windows  *)
(* and ranges: the end of a window is announced at most once, no status    *)
(* goes back but under a tick that has been overtaken, no window overlaps  *)
(* another but after a race, every phase is announced unless its fan-out   *)
(* was cut, and a tick leaves nothing behind.                              *)
(***************************************************************************)
EXTENDS Maintenance, TLAPS

Window == [target : SUBSET Integrations, range : Nat \X Nat, status : Statuses]

\* What a tick may have listed, and what it may have to announce.
Listed == UNION {[S -> {"scheduled", "active"}] : S \in SUBSET Nat}
TickPhases == {<< >>, <<"starting">>, <<"completed">>, <<"starting", "completed">>}
RequestPhases == {<< >>, <<"scheduled">>, <<"starting">>, <<"scheduled", "starting">>}

TickState == [pc : {"idle", "list", "walk", "announce"}, now : Nat, todo : Listed, id : Nat,
              phases : TickPhases, overtaken : BOOLEAN]
RequestState == [pc : {"idle", "check", "insert", "announce", "cancel"}, now : Nat,
                 target : SUBSET Integrations, range : Nat \X Nat, id : Nat,
                 phases : RequestPhases, overtaken : BOOLEAN]

WindowsOK ==
    /\ windows \in Seq(Window) /\ Len(windows) <= MaxWindows
    /\ clock \in Nat
    /\ \A i \in DOMAIN windows :
         windows[i].status = "active" => windows[i].range[1] <= clock

\* A window that a tick not overtaken finds active had started when it began.
SeesActive(t, ws) ==
    \/ t.overtaken = TRUE
    \/ \A i \in DOMAIN ws : ws[i].status = "active" => ws[i].range[1] <= t.now

TickOK(t, ws, now) ==
    /\ t.now <= now
    /\ DOMAIN t.todo \subseteq DOMAIN ws
    /\ t.pc = "announce" => t.id \in DOMAIN ws
    /\ (t.pc = "announce") <=> (t.phases # << >>)
    /\ t.pc = "idle" \/ SeesActive(t, ws)

RequestOK(r, ws, now) ==
    /\ r.now <= now
    /\ r.pc \in {"announce", "cancel"} => r.id \in DOMAIN ws
    /\ r.pc = "announce" => r.phases # << >>

TicksOK == tick \in [Workers -> TickState] /\ \A w \in Workers : TickOK(tick[w], windows, clock)
RequestsOK ==
    /\ request \in [Admins -> RequestState]
    /\ \A a \in Admins : RequestOK(request[a], windows, clock)

\* The tick still has the end of the window to announce.
Owes(t, i) ==
    t.pc = "announce" /\ t.id = i /\ t.phases \in {<<"completed">>, <<"starting", "completed">>}

\* Only one tick completes a window, so only one owes its end, and owes it
\* until the end is announced.
EndsOK ==
    /\ ends \in [Ids -> Nat]
    /\ \A i \in Ids : i \notin DOMAIN windows => ends[i] = 0
    /\ \A i \in DOMAIN windows :
         /\ ends[i] <= 1
         /\ ends[i] = 1 => windows[i].status = "completed"
         /\ \A w \in Workers : Owes(tick[w], i) =>
              /\ windows[i].status = "completed" /\ ends[i] = 0
              /\ \A v \in Workers : Owes(tick[v], i) => v = w

MaintenanceInv == WindowsOK /\ TicksOK /\ RequestsOK /\ EndsOK
-----------------------------------------------------------------------------
(***************************************************************************)
(* Facts about the operators.                                              *)
(***************************************************************************)
LEMMA WindowIs ==
    ASSUME WindowsOK, NEW i \in DOMAIN windows
    PROVE  /\ i \in 1..Len(windows) /\ i \in Ids
           /\ windows[i] \in Window /\ windows[i].status \in Statuses
           /\ windows[i].range \in Nat \X Nat /\ windows[i].range[1] \in Nat
<1>1. i \in 1..Len(windows) /\ windows[i] \in Window
  BY DEF WindowsOK
<1>2. windows[i].status \in Statuses /\ windows[i].range \in Nat \X Nat
  BY <1>1 DEF Window
<1>. QED BY <1>1, <1>2, MaintenanceAssumption DEF WindowsOK, Ids

LEMMA DeriveStatus ==
    ASSUME NEW stored \in Statuses, NEW range \in Nat \X Nat, NEW now \in Nat
    PROVE  /\ Derive(stored, range, now) \in Statuses
           /\ Derive(stored, range, now) = "active" => stored = "active" \/ range[1] <= now
           /\ Derive(stored, range, now) = "active" /\ stored # "completed" => range[1] <= now
           /\ Derive(stored, range, now) = "scheduled" => now < range[1]
BY DEF Derive, Statuses

LEMMA ListedHas ==
    ASSUME NEW f \in Listed
    PROVE  \A i \in DOMAIN f : f[i] \in {"scheduled", "active"}
BY DEF Listed

LEMMA ListedIs ==
    ASSUME NEW S \in SUBSET Nat, NEW f \in [S -> {"scheduled", "active"}]
    PROVE  f \in Listed
BY DEF Listed

LEMMA NothingIsListed == Nothing \in Listed /\ DOMAIN Nothing = {}
<1>1. Nothing \in [{} -> {"scheduled", "active"}] /\ DOMAIN Nothing = {}
  BY DEF Nothing
<1>. QED BY <1>1, ListedIs

LEMMA NoTickIsIdle ==
    /\ NoTick \in TickState
    /\ NoTick.pc = "idle" /\ NoTick.now = 0 /\ DOMAIN NoTick.todo = {} /\ NoTick.phases = << >>
BY NothingIsListed DEF NoTick, TickState, TickPhases

LEMMA NoRequestIsIdle ==
    /\ NoRequest \in RequestState
    /\ NoRequest.pc = "idle" /\ NoRequest.now = 0
BY DEF NoRequest, RequestState, RequestPhases

\* A tick that goes on ends, or announces just what it has to, or walks.
LEMMA ProceedsIs ==
    ASSUME NEW t \in TickState
    PROVE  /\ Proceeds(t) \in TickState
           /\ \/ Proceeds(t) = NoTick
              \/ /\ Proceeds(t).pc \in {"walk", "announce"}
                 /\ Proceeds(t).now = t.now /\ Proceeds(t).todo = t.todo
                 /\ Proceeds(t).phases = t.phases /\ Proceeds(t).overtaken = t.overtaken
           /\ Proceeds(t).pc = "announce" => Proceeds(t).id = t.id /\ Proceeds(t).phases = t.phases
           /\ Proceeds(t).pc # "announce" => Proceeds(t).phases = << >>
           /\ (Proceeds(t).pc = "announce") <=> (t.phases # << >>)
<1>1. CASE t.phases = << >> /\ t.todo = Nothing
  BY <1>1, NoTickIsIdle DEF Proceeds
<1>2. CASE t.phases = << >> /\ t.todo # Nothing
  <2>1. Proceeds(t) = [t EXCEPT !.pc = "walk", !.id = 0]
    <3>1. ~(t.phases = << >> /\ t.todo = Nothing)
      BY <1>2
    <3>2. Proceeds(t) = [t EXCEPT !.pc = IF t.phases = << >> THEN "walk" ELSE "announce",
                                  !.id = IF t.phases = << >> THEN 0 ELSE t.id]
      BY <3>1, Zenon DEF Proceeds
    <3>. QED BY <1>2, <3>2
  <2>2. Proceeds(t) \in TickState /\ Proceeds(t).pc = "walk"
    <3>1. 0 \in Nat
      OBVIOUS
    <3>. QED BY <2>1, <3>1, Zenon DEF TickState
  <2>3. /\ Proceeds(t).now = t.now /\ Proceeds(t).todo = t.todo
        /\ Proceeds(t).phases = t.phases /\ Proceeds(t).overtaken = t.overtaken
    BY <2>1 DEF TickState
  <2>. QED BY <1>2, <2>2, <2>3
<1>3. CASE t.phases # << >>
  <2>1. Proceeds(t) = [t EXCEPT !.pc = "announce", !.id = t.id]
    BY <1>3 DEF Proceeds
  <2>. QED BY <1>3, <2>1 DEF TickState
<1>. QED BY <1>1, <1>2, <1>3

LEMMA OvertakesIs ==
    ASSUME tick \in [Workers -> TickState], NEW w
    PROVE  /\ Overtakes(w) \in [Workers -> TickState]
           /\ \A v \in Workers :
                /\ Overtakes(w)[v].pc = tick[v].pc /\ Overtakes(w)[v].now = tick[v].now
                /\ Overtakes(w)[v].todo = tick[v].todo /\ Overtakes(w)[v].id = tick[v].id
                /\ Overtakes(w)[v].phases = tick[v].phases
                /\ v # w => tick[v].pc = "idle" \/ Overtakes(w)[v].overtaken = TRUE
                /\ v = w => Overtakes(w)[v] = tick[v]
<1>1. ASSUME NEW v \in Workers
      PROVE  \E b \in BOOLEAN :
                /\ Overtakes(w)[v] = [tick[v] EXCEPT !.overtaken = b]
                /\ v # w /\ tick[v].pc # "idle" => b = TRUE
                /\ v = w => b = tick[v].overtaken
  <2>1. Overtakes(w)[v] = [tick[v] EXCEPT !.overtaken =
                              tick[v].overtaken \/ (v # w /\ tick[v].pc # "idle")]
    BY <1>1 DEF Overtakes
  <2>2. tick[v].overtaken \in BOOLEAN
    BY <1>1 DEF TickState
  <2>3. CASE v # w /\ tick[v].pc # "idle"
    <3>1. (tick[v].overtaken \/ (v # w /\ tick[v].pc # "idle")) = TRUE
      BY <2>3
    <3>. QED BY <2>1, <2>3, <3>1
  <2>4. CASE ~(v # w /\ tick[v].pc # "idle")
    <3>1. (tick[v].overtaken \/ (v # w /\ tick[v].pc # "idle")) = tick[v].overtaken
      BY <2>2, <2>4, Zenon
    <3>. QED BY <2>1, <2>2, <2>4, <3>1
  <2>. QED BY <2>3, <2>4
<1>2. ASSUME NEW v \in Workers
      PROVE  /\ Overtakes(w)[v] \in TickState
             /\ Overtakes(w)[v].pc = tick[v].pc /\ Overtakes(w)[v].now = tick[v].now
             /\ Overtakes(w)[v].todo = tick[v].todo /\ Overtakes(w)[v].id = tick[v].id
             /\ Overtakes(w)[v].phases = tick[v].phases
             /\ v # w => tick[v].pc = "idle" \/ Overtakes(w)[v].overtaken = TRUE
             /\ v = w => Overtakes(w)[v] = tick[v]
  <2>1. PICK b \in BOOLEAN :
            /\ Overtakes(w)[v] = [tick[v] EXCEPT !.overtaken = b]
            /\ v # w /\ tick[v].pc # "idle" => b = TRUE
            /\ v = w => b = tick[v].overtaken
    BY <1>1, <1>2
  <2>2. tick[v] \in TickState
    BY <1>2
  <2>. QED BY <2>1, <2>2 DEF TickState
<1>3. Overtakes(w) = [v \in Workers |-> Overtakes(w)[v]]
  BY DEF Overtakes
<1>. QED BY <1>2, <1>3
-----------------------------------------------------------------------------
(***************************************************************************)
(* Steps of one request.                                                   *)
(***************************************************************************)
LEMMA RequestStep ==
    ASSUME MaintenanceInv, NEW a \in Admins, NEW r \in RequestState, RequestOK(r, windows, clock),
           request' = [request EXCEPT ![a] = r], UNCHANGED <<clock, windows, tick, ends>>
    PROVE  MaintenanceInv'
<1>1. RequestsOK'
  BY DEF MaintenanceInv, RequestsOK, RequestOK
<1>2. WindowsOK' /\ TicksOK' /\ EndsOK'
  BY DEF MaintenanceInv, WindowsOK, TicksOK, EndsOK, TickOK, SeesActive, Owes
<1>. QED BY <1>1, <1>2 DEF MaintenanceInv

LEMMA IdleRequestOK == ASSUME WindowsOK PROVE RequestOK(NoRequest, windows, clock)
BY NoRequestIsIdle DEF RequestOK, WindowsOK

LEMMA ScheduleKeeps ==
    ASSUME MaintenanceInv, NEW a \in Admins, NEW target \in SUBSET Integrations,
           NEW range \in Ranges, Schedule(a, target, range)
    PROVE  MaintenanceInv'
<1>. DEFINE r == [NoRequest EXCEPT !.pc = "check", !.now = clock,
                                   !.target = target, !.range = range]
<1>1. r \in RequestState /\ RequestOK(r, windows, clock)
  <2>1. range \in Nat \X Nat /\ clock \in Nat
    BY MaintenanceAssumption DEF MaintenanceInv, WindowsOK
  <2>2. r \in RequestState
    BY <2>1, NoRequestIsIdle DEF RequestState
  <2>3. r.pc = "check" /\ r.now = clock
    BY NoRequestIsIdle DEF RequestState
  <2>. HIDE DEF r
  <2>. QED BY <2>1, <2>2, <2>3 DEF RequestOK
<1>2. request' = [request EXCEPT ![a] = r] /\ UNCHANGED <<clock, windows, tick, ends>>
  BY DEF Schedule, historyVars
<1>. HIDE DEF r
<1>. QED BY <1>1, <1>2, RequestStep

LEMMA AssertNoOverlapKeeps ==
    ASSUME MaintenanceInv, NEW a \in Admins, AssertNoOverlap(a)
    PROVE  MaintenanceInv'
<1>1. /\ request[a] \in RequestState /\ RequestOK(request[a], windows, clock)
      /\ request[a].pc = "check"
  BY DEF MaintenanceInv, RequestsOK, AssertNoOverlap
<1>. DEFINE r == [request[a] EXCEPT !.pc = "insert"]
<1>2. r \in RequestState /\ RequestOK(r, windows, clock)
  BY <1>1 DEF RequestState, RequestOK
<1>3. UNCHANGED <<clock, windows, tick, ends>>
  BY DEF AssertNoOverlap, historyVars
<1>4. \/ request' = [request EXCEPT ![a] = r]
      \/ request' = [request EXCEPT ![a] = NoRequest]
  BY DEF AssertNoOverlap
<1>5. NoRequest \in RequestState /\ RequestOK(NoRequest, windows, clock)
  BY NoRequestIsIdle, IdleRequestOK DEF MaintenanceInv
<1>. HIDE DEF r
<1>. QED BY <1>2, <1>3, <1>4, <1>5, RequestStep

LEMMA CancelKeeps ==
    ASSUME MaintenanceInv, NEW a \in Admins, NEW i \in DOMAIN windows, Cancel(a, i)
    PROVE  MaintenanceInv'
<1>1. request[a] = NoRequest /\ i \in Nat
  BY DEF Cancel, MaintenanceInv, WindowsOK
<1>. DEFINE r == [NoRequest EXCEPT !.pc = "cancel", !.id = i]
<1>2. r \in RequestState /\ RequestOK(r, windows, clock)
  <2>1. r \in RequestState
    BY <1>1, NoRequestIsIdle DEF RequestState
  <2>2. r.pc = "cancel" /\ r.now = 0 /\ r.id = i
    BY NoRequestIsIdle DEF RequestState
  <2>. HIDE DEF r
  <2>. QED BY <2>1, <2>2 DEF RequestOK, MaintenanceInv, WindowsOK
<1>3. request' = [request EXCEPT ![a] = r] /\ UNCHANGED <<clock, windows, tick, ends>>
  <2>1. request' = [request EXCEPT ![a] = [request[a] EXCEPT !.pc = "cancel", !.id = i]]
    BY DEF Cancel, MaintenanceInv, RequestsOK, RequestState
  <2>. QED BY <1>1, <2>1 DEF Cancel, historyVars
<1>. HIDE DEF r
<1>. QED BY <1>2, <1>3, RequestStep

LEMMA RequestCutKeeps ==
    ASSUME MaintenanceInv, NEW a \in Admins, RequestCut(a)
    PROVE  MaintenanceInv'
<1>1. request' = [request EXCEPT ![a] = NoRequest] /\ UNCHANGED <<clock, windows, tick, ends>>
  BY DEF RequestCut, historyVars
<1>2. NoRequest \in RequestState /\ RequestOK(NoRequest, windows, clock)
  BY NoRequestIsIdle, IdleRequestOK DEF MaintenanceInv
<1>. QED BY <1>1, <1>2, RequestStep

\* A request announces no end.
LEMMA FanOutInRequestKeeps ==
    ASSUME MaintenanceInv, NEW a \in Admins, FanOutInRequest(a)
    PROVE  MaintenanceInv'
<1>1. /\ request[a] \in RequestState /\ RequestOK(request[a], windows, clock)
      /\ request[a].pc = "announce"
  BY DEF MaintenanceInv, RequestsOK, FanOutInRequest, FanOut
<1>2. ends' = [ends EXCEPT ![request[a].id] =
                 IF Head(request[a].phases) = "completed" THEN @ + 1 ELSE @]
  BY DEF FanOutInRequest, FanOut
<1>3. \/ request' = [request EXCEPT ![a] = NoRequest]
      \/ /\ request' = [request EXCEPT ![a] =
                          [request[a] EXCEPT !.phases = Tail(request[a].phases)]]
         /\ Tail(request[a].phases) # << >>
  BY DEF FanOutInRequest, LastPhase
<1>4. UNCHANGED <<clock, windows, tick>>
  BY DEF FanOutInRequest
<1>5. NoRequest \in RequestState /\ RequestOK(NoRequest, windows, clock)
  BY NoRequestIsIdle, IdleRequestOK DEF MaintenanceInv
<1>6. request[a].phases \in RequestPhases \ {<< >>}
  BY <1>1 DEF RequestState, RequestOK
<1>7. ends' = ends
  <2>1. Head(request[a].phases) # "completed"
    BY <1>6 DEF RequestPhases
  <2>2. ends' = [ends EXCEPT ![request[a].id] = ends[request[a].id]]
    BY <1>2, <2>1
  <2>. QED BY <2>2 DEF MaintenanceInv, EndsOK
<1>8. CASE request' = [request EXCEPT ![a] = NoRequest]
  BY <1>4, <1>5, <1>7, <1>8, RequestStep
<1>9. CASE /\ request' = [request EXCEPT ![a] =
                            [request[a] EXCEPT !.phases = Tail(request[a].phases)]]
           /\ Tail(request[a].phases) # << >>
  <2>. DEFINE r == [request[a] EXCEPT !.phases = Tail(request[a].phases)]
  <2>1. Tail(request[a].phases) \in RequestPhases
    <3>1. CASE request[a].phases = <<"scheduled", "starting">>
      <4>1. Tail(request[a].phases) = <<"starting">>
        BY <3>1
      <4>. QED BY <4>1 DEF RequestPhases
    <3>2. CASE request[a].phases \in {<<"scheduled">>, <<"starting">>}
      <4>1. Tail(<<"scheduled">>) = << >> /\ Tail(<<"starting">>) = << >>
        OBVIOUS
      <4>2. Tail(request[a].phases) = << >>
        BY <3>2, <4>1
      <4>. QED BY <4>2 DEF RequestPhases
    <3>. QED BY <1>6, <3>1, <3>2 DEF RequestPhases
  <2>2. r \in RequestState /\ RequestOK(r, windows, clock)
    BY <1>1, <1>9, <2>1 DEF RequestState, RequestOK
  <2>3. request' = [request EXCEPT ![a] = r]
    BY <1>9
  <2>. HIDE DEF r
  <2>. QED BY <1>4, <1>7, <2>2, <2>3, RequestStep
<1>. QED BY <1>3, <1>8, <1>9
-----------------------------------------------------------------------------
(***************************************************************************)
(* Steps of one tick that write no window.                                 *)
(***************************************************************************)
LEMMA OneTick ==
    ASSUME MaintenanceInv, NEW w \in Workers, NEW t \in TickState, TickOK(t, windows, clock),
           tick' = [tick EXCEPT ![w] = t], UNCHANGED <<clock, windows, request>>
    PROVE  TicksOK' /\ WindowsOK' /\ RequestsOK'
<1>1. TicksOK'
  BY DEF MaintenanceInv, TicksOK, TickOK, SeesActive
<1>2. WindowsOK' /\ RequestsOK'
  BY DEF MaintenanceInv, WindowsOK, RequestsOK, RequestOK
<1>. QED BY <1>1, <1>2

LEMMA TickStepKeeps ==
    ASSUME MaintenanceInv, NEW w \in Workers, NEW t \in TickState, TickOK(t, windows, clock),
           \A i : Owes(t, i) => Owes(tick[w], i),
           tick' = [tick EXCEPT ![w] = t], UNCHANGED <<clock, windows, request, ends>>
    PROVE  MaintenanceInv'
<1>1. TicksOK' /\ WindowsOK' /\ RequestsOK'
  BY OneTick
<1>3. \A v \in Workers : \A i : Owes(tick'[v], i) => Owes(tick[v], i)
  BY DEF MaintenanceInv, TicksOK
<1>4. EndsOK'
  BY <1>3 DEF MaintenanceInv, EndsOK, Owes
<1>. QED BY <1>1, <1>4 DEF MaintenanceInv

LEMMA IdleTickOK ==
    ASSUME MaintenanceInv
    PROVE  TickOK(NoTick, windows, clock) /\ \A i : ~Owes(NoTick, i)
BY NoTickIsIdle DEF TickOK, SeesActive, Owes, MaintenanceInv, WindowsOK

LEMMA TickCutKeeps ==
    ASSUME MaintenanceInv, NEW w \in Workers, TickCut(w)
    PROVE  MaintenanceInv'
<1>1. tick' = [tick EXCEPT ![w] = NoTick] /\ UNCHANGED <<clock, windows, request, ends>>
  BY DEF TickCut, historyVars
<1>. QED BY <1>1, NoTickIsIdle, IdleTickOK, TickStepKeeps

\* A tick begins with the time at which it sees every active window started.
LEMMA BeginTickKeeps ==
    ASSUME MaintenanceInv, NEW w \in Workers, BeginTick(w)
    PROVE  MaintenanceInv'
<1>. DEFINE t == [tick[w] EXCEPT !.pc = "list", !.now = clock]
<1>1. /\ tick[w] \in TickState /\ TickOK(tick[w], windows, clock)
      /\ tick[w].pc = "idle" /\ clock \in Nat
  BY DEF MaintenanceInv, TicksOK, WindowsOK, BeginTick
<1>2. /\ t \in TickState
      /\ t.pc = "list" /\ t.now = clock /\ t.todo = tick[w].todo /\ t.phases = tick[w].phases
  BY <1>1 DEF TickState
<1>3. tick' = [tick EXCEPT ![w] = t] /\ UNCHANGED <<clock, windows, request, ends>>
  BY <1>1 DEF BeginTick, historyVars, MaintenanceInv, TicksOK
<1>. HIDE DEF t
<1>4. TickOK(t, windows, clock) /\ \A i : ~Owes(t, i)
  BY <1>1, <1>2 DEF TickOK, SeesActive, Owes, MaintenanceInv, WindowsOK
<1>. QED BY <1>2, <1>3, <1>4, TickStepKeeps

LEMMA ListNonTerminalKeeps ==
    ASSUME MaintenanceInv, NEW w \in Workers, ListNonTerminal(w)
    PROVE  MaintenanceInv'
<1>. DEFINE moving == {i \in NonTerminal : Desired(w, i, windows[i].status) # windows[i].status}
            todo == [i \in moving |-> windows[i].status]
            t == [tick[w] EXCEPT !.todo = todo]
<1>1. tick[w] \in TickState /\ TickOK(tick[w], windows, clock) /\ tick[w].pc = "list"
  BY DEF MaintenanceInv, TicksOK, ListNonTerminal
<1>2. todo \in Listed /\ DOMAIN todo \subseteq DOMAIN windows
  <2>1. moving \in SUBSET Nat /\ moving \subseteq DOMAIN windows
    BY DEF NonTerminal, MaintenanceInv, WindowsOK
  <2>2. \A i \in moving : windows[i].status \in {"scheduled", "active"}
    BY WindowIs DEF NonTerminal, Terminal, MaintenanceInv, Statuses
  <2>. HIDE DEF moving
  <2>3. todo \in [moving -> {"scheduled", "active"}]
    BY <2>2
  <2>. QED BY <2>1, <2>3, ListedIs
<1>3. tick' = [tick EXCEPT ![w] = Proceeds(t)] /\ UNCHANGED <<clock, windows, request, ends>>
  BY DEF ListNonTerminal, historyVars
<1>. HIDE DEF todo
<1>4. /\ t \in TickState /\ t.phases = << >> /\ t.todo = todo
      /\ t.now = tick[w].now /\ t.overtaken = tick[w].overtaken
  BY <1>1, <1>2 DEF TickState, TickOK
<1>. HIDE DEF t
<1>5. Proceeds(t) \in TickState
  BY <1>4, ProceedsIs
<1>6. TickOK(Proceeds(t), windows, clock) /\ \A i : ~Owes(Proceeds(t), i)
  <2>1. Proceeds(t).pc # "announce"
    BY <1>4, ProceedsIs
  <2>2. CASE Proceeds(t) = NoTick
    BY <2>2, IdleTickOK
  <2>3. CASE /\ Proceeds(t).pc \in {"walk", "announce"}
             /\ Proceeds(t).now = t.now /\ Proceeds(t).todo = t.todo
             /\ Proceeds(t).phases = t.phases /\ Proceeds(t).overtaken = t.overtaken
    BY <1>1, <1>2, <1>4, <2>1, <2>3, ProceedsIs DEF TickOK, SeesActive, Owes
  <2>. QED BY <1>4, <2>2, <2>3, ProceedsIs
<1>. QED BY <1>3, <1>5, <1>6, TickStepKeeps

LEMMA TimePassesKeeps ==
    ASSUME MaintenanceInv, TimePasses
    PROVE  MaintenanceInv'
<1>1. clock' \in Nat /\ clock <= clock' /\ UNCHANGED <<windows, request, tick, ends>>
  BY DEF TimePasses, historyVars, MaintenanceInv, WindowsOK
<1>2. WindowsOK'
  <2>1. \A i \in DOMAIN windows : windows[i].range[1] \in Nat
    BY WindowIs DEF MaintenanceInv
  <2>. QED BY <1>1, <2>1 DEF MaintenanceInv, WindowsOK
<1>3. TicksOK'
  <2>1. \A w \in Workers : tick[w].now \in Nat
    BY DEF MaintenanceInv, TicksOK, TickState
  <2>. QED BY <1>1, <2>1 DEF MaintenanceInv, WindowsOK, TicksOK, TickOK, SeesActive
<1>4. RequestsOK'
  <2>1. \A a \in Admins : request[a].now \in Nat
    BY DEF MaintenanceInv, RequestsOK, RequestState
  <2>. QED BY <1>1, <2>1 DEF MaintenanceInv, WindowsOK, RequestsOK, RequestOK
<1>5. EndsOK'
  BY <1>1 DEF MaintenanceInv, EndsOK, Owes
<1>. QED BY <1>2, <1>3, <1>4, <1>5 DEF MaintenanceInv

\* What a tick proceeds with, whatever it has just written.
LEMMA ProceedsOK ==
    ASSUME NEW t \in TickState, NEW ws, NEW c, t.now <= c, 0 <= c,
           DOMAIN t.todo \subseteq DOMAIN ws, t.id \in DOMAIN ws, SeesActive(t, ws)
    PROVE  /\ TickOK(Proceeds(t), ws, c)
           /\ \A i : Owes(Proceeds(t), i) =>
                i = t.id /\ t.phases \in {<<"completed">>, <<"starting", "completed">>}
<1>1. CASE Proceeds(t) = NoTick
  BY <1>1, NoTickIsIdle DEF TickOK, Owes
<1>2. CASE /\ Proceeds(t).pc \in {"walk", "announce"}
           /\ Proceeds(t).now = t.now /\ Proceeds(t).todo = t.todo
           /\ Proceeds(t).phases = t.phases /\ Proceeds(t).overtaken = t.overtaken
  BY <1>2, ProceedsIs DEF TickOK, SeesActive, Owes
<1>. QED BY <1>1, <1>2, ProceedsIs

\* The end of a window is announced by the tick that owes it.
LEMMA FanOutInTickKeeps ==
    ASSUME MaintenanceInv, NEW w \in Workers, FanOutInTick(w)
    PROVE  MaintenanceInv'
<1>1. /\ tick[w] \in TickState /\ TickOK(tick[w], windows, clock)
      /\ tick[w].pc = "announce" /\ clock \in Nat
  BY DEF MaintenanceInv, TicksOK, WindowsOK, FanOutInTick, FanOut
<1>. DEFINE i == tick[w].id
            t == [tick[w] EXCEPT !.phases = Tail(tick[w].phases)]
<1>2. /\ ends' = [ends EXCEPT ![i] = IF Head(tick[w].phases) = "completed" THEN @ + 1 ELSE @]
      /\ tick' = [tick EXCEPT ![w] = Proceeds(t)]
      /\ UNCHANGED <<clock, windows, request>>
  BY DEF FanOutInTick, FanOut
<1>3. i \in DOMAIN windows /\ i \in Ids /\ tick[w].phases \in TickPhases \ {<< >>}
  BY <1>1, WindowIs DEF TickState, TickOK, MaintenanceInv
<1>4. Tail(tick[w].phases) \in TickPhases
  <2>1. /\ Tail(<<"starting">>) = << >> /\ Tail(<<"completed">>) = << >>
        /\ Tail(<<"starting", "completed">>) = <<"completed">>
    OBVIOUS
  <2>. QED BY <1>3, <2>1 DEF TickPhases
<1>5. /\ t \in TickState /\ t.now = tick[w].now /\ t.todo = tick[w].todo /\ t.id = i
      /\ t.phases = Tail(tick[w].phases) /\ t.overtaken = tick[w].overtaken
  BY <1>1, <1>4 DEF TickState
<1>. HIDE DEF t
<1>6. /\ TickOK(Proceeds(t), windows, clock) /\ Proceeds(t) \in TickState
      /\ \A j : Owes(Proceeds(t), j) =>
           j = i /\ t.phases \in {<<"completed">>, <<"starting", "completed">>}
  <2>1. t.now <= clock /\ 0 <= clock /\ DOMAIN t.todo \subseteq DOMAIN windows
    BY <1>1, <1>5 DEF TickOK
  <2>2. SeesActive(t, windows)
    BY <1>1, <1>5 DEF TickOK, SeesActive
  <2>. QED BY <1>3, <1>5, <2>1, <2>2, ProceedsOK, ProceedsIs
<1>7. CASE tick[w].phases \in {<<"starting">>, <<"starting", "completed">>}
  <2>1. Head(tick[w].phases) # "completed"
    BY <1>7
  <2>2. ends' = ends
    <3>1. ends' = [ends EXCEPT ![i] = ends[i]]
      BY <1>2, <2>1
    <3>. QED BY <3>1 DEF MaintenanceInv, EndsOK
  <2>3. \A j : Owes(Proceeds(t), j) => Owes(tick[w], j)
    <3>1. Tail(<<"starting">>) = << >>
      OBVIOUS
    <3>2. CASE tick[w].phases = <<"starting">>
      BY <1>5, <1>6, <3>1, <3>2
    <3>3. CASE tick[w].phases = <<"starting", "completed">>
      BY <1>1, <1>6, <3>3 DEF Owes
    <3>. QED BY <1>7, <3>2, <3>3
  <2>. QED BY <1>2, <1>6, <2>2, <2>3, TickStepKeeps
<1>8. CASE tick[w].phases = <<"completed">>
  <2>1. Owes(tick[w], i) /\ \A j : ~Owes(Proceeds(t), j)
    <3>1. Tail(<<"completed">>) = << >>
      OBVIOUS
    <3>. QED BY <1>1, <1>5, <1>6, <1>8, <3>1 DEF Owes
  <2>2. TicksOK' /\ WindowsOK' /\ RequestsOK'
    BY <1>2, <1>6, OneTick
  <2>3. ends' = [ends EXCEPT ![i] = 1]
    <3>1. ends[i] = 0
      BY <1>3, <2>1 DEF MaintenanceInv, EndsOK
    <3>2. ends' = [ends EXCEPT ![i] = ends[i] + 1]
      BY <1>2, <1>8
    <3>. QED BY <3>1, <3>2
  <2>4. /\ windows[i].status = "completed"
        /\ \A v \in Workers : Owes(tick[v], i) => v = w
    BY <1>3, <2>1 DEF MaintenanceInv, EndsOK
  <2>5. \A v \in Workers : \A j : Owes(tick'[v], j) => v # w /\ Owes(tick[v], j)
    BY <1>2, <2>1 DEF MaintenanceInv, TicksOK
  <2>6. EndsOK'
    <3>1. ends' \in [Ids -> Nat]
      BY <2>3 DEF MaintenanceInv, EndsOK
    <3>2. \A j \in Ids : j # i => ends'[j] = ends[j]
      BY <2>3 DEF MaintenanceInv, EndsOK
    <3>3. ends'[i] = 1
      BY <1>3, <2>3 DEF MaintenanceInv, EndsOK
    <3>4. \A j \in Ids : j \notin DOMAIN windows' => ends'[j] = 0
      BY <1>2, <1>3, <3>2 DEF MaintenanceInv, EndsOK
    <3>5. ASSUME NEW j \in DOMAIN windows'
          PROVE  /\ ends'[j] <= 1
                 /\ ends'[j] = 1 => windows'[j].status = "completed"
                 /\ \A u \in Workers : Owes(tick'[u], j) =>
                      /\ windows'[j].status = "completed" /\ ends'[j] = 0
                      /\ \A v \in Workers : Owes(tick'[v], j) => v = u
      <4>1. j \in DOMAIN windows /\ j \in Ids
        BY <1>2, <3>5, WindowIs DEF MaintenanceInv
      <4>2. CASE j = i
        BY <1>2, <2>4, <2>5, <3>3, <4>2
      <4>3. CASE j # i
        BY <1>2, <2>5, <3>2, <4>1, <4>3 DEF MaintenanceInv, EndsOK
      <4>. QED BY <4>2, <4>3
    <3>. QED BY <3>1, <3>4, <3>5 DEF EndsOK, Owes
  <2>. QED BY <2>2, <2>6 DEF MaintenanceInv
<1>. QED BY <1>3, <1>7, <1>8 DEF TickPhases
-----------------------------------------------------------------------------
(***************************************************************************)
(* Steps that write a window: the other ticks have been overtaken.         *)
(***************************************************************************)
LEMMA WriteWindow ==
    ASSUME WindowsOK, NEW i \in DOMAIN windows, NEW st \in Statuses,
           windows' = [windows EXCEPT ![i].status = st], clock' = clock,
           st = "active" => windows[i].range[1] <= clock
    PROVE  /\ WindowsOK' /\ DOMAIN windows' = DOMAIN windows
           /\ \A j \in DOMAIN windows : j # i => windows'[j] = windows[j]
           /\ windows'[i].status = st /\ windows'[i].range = windows[i].range
<1>. DEFINE row == [windows[i] EXCEPT !.status = st]
<1>1. row \in Window /\ row.status = st /\ row.range = windows[i].range
  BY WindowIs DEF Window
<1>2. windows' = [windows EXCEPT ![i] = row]
  OBVIOUS
<1>. HIDE DEF row
<1>3. windows \in Seq(Window) /\ i \in 1..Len(windows)
  BY WindowIs DEF WindowsOK
<1>4. windows' \in Seq(Window) /\ Len(windows') = Len(windows) /\ DOMAIN windows' = DOMAIN windows
  BY <1>1, <1>2, <1>3
<1>5. /\ \A j \in DOMAIN windows : j # i => windows'[j] = windows[j]
      /\ windows'[i] = row
  BY <1>2, <1>3
<1>. QED BY <1>1, <1>4, <1>5 DEF WindowsOK

LEMMA OtherTick ==
    ASSUME MaintenanceInv, NEW w, NEW v \in Workers, v # w,
           clock' = clock, DOMAIN windows \subseteq DOMAIN windows'
    PROVE  /\ TickOK(Overtakes(w)[v], windows', clock') /\ Overtakes(w)[v] \in TickState
           /\ \A i : Owes(Overtakes(w)[v], i) => Owes(tick[v], i)
<1>1. tick \in [Workers -> TickState] /\ TickOK(tick[v], windows, clock)
  BY DEF MaintenanceInv, TicksOK
<1>2. /\ Overtakes(w)[v] \in TickState
      /\ Overtakes(w)[v].pc = tick[v].pc /\ Overtakes(w)[v].now = tick[v].now
      /\ Overtakes(w)[v].todo = tick[v].todo /\ Overtakes(w)[v].id = tick[v].id
      /\ Overtakes(w)[v].phases = tick[v].phases
      /\ tick[v].pc = "idle" \/ Overtakes(w)[v].overtaken = TRUE
  BY <1>1, OvertakesIs
<1>. DEFINE o == Overtakes(w)[v]
<1>3. TickOK(o, windows', clock')
  <2>. HIDE DEF o
  <2>1. /\ o.pc = tick[v].pc /\ o.now = tick[v].now /\ o.todo = tick[v].todo
        /\ o.id = tick[v].id /\ o.phases = tick[v].phases
        /\ o.pc = "idle" \/ o.overtaken = TRUE
    BY <1>2 DEF o
  <2>. QED BY <1>1, <2>1 DEF TickOK, SeesActive
<1>. QED BY <1>2, <1>3 DEF Owes

\* A request writes: nobody owes more than before.
LEMMA RequestOvertakes ==
    ASSUME MaintenanceInv, NEW a \in Admins, tick' = Overtakes(a),
           clock' = clock, DOMAIN windows \subseteq DOMAIN windows'
    PROVE  /\ TicksOK'
           /\ \A v \in Workers : \A i : Owes(tick'[v], i) => Owes(tick[v], i)
<1>1. tick' \in [Workers -> TickState]
  BY OvertakesIs DEF MaintenanceInv, TicksOK
<1>2. ASSUME NEW v \in Workers
      PROVE  /\ TickOK(tick'[v], windows', clock')
             /\ \A i : Owes(tick'[v], i) => Owes(tick[v], i)
  <2>1. v # a
    BY MaintenanceAssumption
  <2>. QED BY <2>1, OtherTick
<1>. QED BY <1>1, <1>2 DEF TicksOK

LEMMA CreateKeeps ==
    ASSUME MaintenanceInv, NEW a \in Admins, CreateMaintenanceWindow(a)
    PROVE  /\ MaintenanceInv'
           /\ \A i \in DOMAIN windows : windows'[i] = windows[i]
<1>. DEFINE r == request[a]
            n == Len(windows) + 1
<1>1. /\ r \in RequestState /\ RequestOK(r, windows, clock) /\ r.pc = "insert"
      /\ clock \in Nat /\ r.now <= clock
  BY DEF MaintenanceInv, RequestsOK, RequestOK, WindowsOK, CreateMaintenanceWindow
<1>2. PICK status : /\ status = Derive("scheduled", r.range, r.now)
                    /\ windows' = Append(windows, [target |-> r.target, range |-> r.range,
                                                   status |-> status])
                    /\ request' = [b \in Admins |->
                         IF b = a
                         THEN [NoRequest EXCEPT !.pc = "announce", !.id = n,
                                 !.phases = IF status = "active" THEN <<"scheduled", "starting">>
                                            ELSE <<"scheduled">>]
                         ELSE [request[b] EXCEPT !.overtaken =
                                 request[b].overtaken \/ request[b].pc = "insert"]]
  BY DEF CreateMaintenanceWindow
<1>3. /\ status \in Statuses
      /\ status = "active" => r.range[1] <= r.now
      /\ r.range \in Nat \X Nat /\ r.now \in Nat /\ r.target \in SUBSET Integrations
  <2>1. r.range \in Nat \X Nat /\ r.now \in Nat /\ r.target \in SUBSET Integrations
    BY <1>1 DEF RequestState
  <2>2. "scheduled" \in Statuses
    BY DEF Statuses
  <2>. QED BY <1>2, <2>1, <2>2, DeriveStatus
<1>4. /\ tick' = Overtakes(a) /\ UNCHANGED <<clock, ends>> /\ Len(windows) < MaxWindows
  BY DEF CreateMaintenanceWindow, historyVars
<1>5. PICK row \in Window :
        windows' = Append(windows, row) /\ row.range = r.range /\ row.status = status
  <2>1. [target |-> r.target, range |-> r.range, status |-> status] \in Window
    BY <1>3 DEF Window
  <2>. QED BY <1>2, <2>1
<1>6. /\ windows' \in Seq(Window) /\ Len(windows') = n /\ n \in Nat /\ n <= MaxWindows
      /\ DOMAIN windows' = DOMAIN windows \cup {n} /\ n \notin DOMAIN windows
      /\ windows'[n] = row /\ \A i \in DOMAIN windows : windows'[i] = windows[i]
  BY <1>4, <1>5, MaintenanceAssumption DEF MaintenanceInv, WindowsOK
<1>7. WindowsOK'
  <2>1. row.status = "active" => row.range[1] <= clock
    BY <1>1, <1>3, <1>5
  <2>. QED BY <1>4, <1>6, <2>1 DEF MaintenanceInv, WindowsOK
<1>8. TicksOK' /\ \A v \in Workers : \A i : Owes(tick'[v], i) => Owes(tick[v], i)
  BY <1>4, <1>6, RequestOvertakes
<1>9. RequestsOK'
  <2>1. ASSUME NEW b \in Admins, b # a
        PROVE  request'[b] \in RequestState /\ RequestOK(request'[b], windows', clock')
    <3>1. request[b] \in RequestState /\ RequestOK(request[b], windows, clock)
      BY DEF MaintenanceInv, RequestsOK
    <3>2. PICK x \in BOOLEAN : request'[b] = [request[b] EXCEPT !.overtaken = x]
      <4>1. (request[b].overtaken \/ request[b].pc = "insert") \in BOOLEAN
        OBVIOUS
      <4>2. request'[b] = [request[b] EXCEPT !.overtaken =
                             request[b].overtaken \/ request[b].pc = "insert"]
        BY <1>2, <2>1, Zenon
      <4>. QED BY <4>1, <4>2, Zenon
    <3>. QED BY <1>4, <1>6, <3>1, <3>2 DEF RequestState, RequestOK
  <2>2. request'[a] \in RequestState /\ RequestOK(request'[a], windows', clock')
    <3>1. PICK ps \in RequestPhases \ {<< >>} :
             request'[a] = [NoRequest EXCEPT !.pc = "announce", !.id = n, !.phases = ps]
      <4>1. /\ <<"scheduled", "starting">> \in RequestPhases \ {<< >>}
            /\ <<"scheduled">> \in RequestPhases \ {<< >>}
        BY DEF RequestPhases
      <4>. QED BY <1>2, <4>1
    <3>2. request'[a] \in RequestState
      BY <1>6, <3>1, NoRequestIsIdle DEF RequestState
    <3>3. /\ request'[a].now = 0 /\ request'[a].id = n /\ request'[a].phases = ps
      BY <3>1, NoRequestIsIdle DEF RequestState
    <3>. QED BY <1>1, <1>4, <1>6, <3>2, <3>3 DEF RequestOK
  <2>3. request' = [b \in Admins |-> request'[b]]
    BY <1>2
  <2>. QED BY <2>1, <2>2, <2>3 DEF RequestsOK
<1>10. EndsOK'
  <2>1. n \in Ids /\ ends[n] = 0
    BY <1>6, MaintenanceAssumption DEF MaintenanceInv, EndsOK, Ids
  <2>2. \A v \in Workers : ~Owes(tick'[v], n)
    BY <1>6, <1>8 DEF MaintenanceInv, TicksOK, TickOK, Owes
  <2>3. ASSUME NEW j \in DOMAIN windows'
        PROVE  /\ ends'[j] <= 1
               /\ ends'[j] = 1 => windows'[j].status = "completed"
               /\ \A u \in Workers : Owes(tick'[u], j) =>
                    /\ windows'[j].status = "completed" /\ ends'[j] = 0
                    /\ \A v \in Workers : Owes(tick'[v], j) => v = u
    <3>1. CASE j = n
      BY <1>4, <2>1, <2>2, <3>1
    <3>2. CASE j \in DOMAIN windows
      BY <1>4, <1>6, <1>8, <3>2 DEF MaintenanceInv, EndsOK
    <3>. QED BY <1>6, <3>1, <3>2
  <2>4. ends' \in [Ids -> Nat] /\ \A j \in Ids : j \notin DOMAIN windows' => ends'[j] = 0
    BY <1>4, <1>6 DEF MaintenanceInv, EndsOK
  <2>. QED BY <2>3, <2>4 DEF EndsOK, Owes
<1>. QED BY <1>6, <1>7, <1>8, <1>9, <1>10 DEF MaintenanceInv

\* What is over stays over, and what was active is not scheduled again, unless.
Forward(unless) ==
    \A i \in DOMAIN windows :
        /\ Terminal(windows[i]) => windows'[i] = windows[i]
        /\ windows[i].status = "active" /\ windows'[i].status = "scheduled" => unless

LEMMA EndsStay ==
    ASSUME MaintenanceInv, ends' = ends, DOMAIN windows' = DOMAIN windows,
           \A v \in Workers : \A i : Owes(tick'[v], i) => Owes(tick[v], i),
           \A i \in DOMAIN windows : Terminal(windows[i]) => windows'[i] = windows[i]
    PROVE  EndsOK'
<1>1. ASSUME NEW j \in DOMAIN windows'
      PROVE  /\ ends'[j] <= 1
             /\ ends'[j] = 1 => windows'[j].status = "completed"
             /\ \A u \in Workers : Owes(tick'[u], j) =>
                  /\ windows'[j].status = "completed" /\ ends'[j] = 0
                  /\ \A v \in Workers : Owes(tick'[v], j) => v = u
  <2>1. windows[j].status = "completed" => windows'[j].status = "completed"
    BY DEF Terminal
  <2>. QED BY <2>1 DEF MaintenanceInv, EndsOK
<1>. QED BY <1>1 DEF MaintenanceInv, EndsOK, Owes

LEMMA CancelWindowKeeps ==
    ASSUME MaintenanceInv, NEW a \in Admins, CancelWindow(a)
    PROVE  MaintenanceInv' /\ Forward(FALSE)
<1>. DEFINE i == request[a].id
<1>1. i \in DOMAIN windows /\ WindowsOK
  BY DEF MaintenanceInv, RequestsOK, RequestOK, CancelWindow
<1>2. /\ request' = [request EXCEPT ![a] = NoRequest] /\ tick' = Overtakes(a)
      /\ UNCHANGED <<clock, ends>>
  BY DEF CancelWindow, historyVars
<1>3. /\ WindowsOK' /\ DOMAIN windows' = DOMAIN windows /\ Forward(FALSE)
  <2>1. CASE Terminal(windows[i])
    <3>1. windows' = windows
      BY <2>1 DEF CancelWindow
    <3>. QED BY <1>1, <1>2, <3>1 DEF WindowsOK, Forward
  <2>2. CASE ~Terminal(windows[i])
    <3>1. windows' = [windows EXCEPT ![i].status = "cancelled"] /\ "cancelled" \in Statuses
      BY <2>2 DEF CancelWindow, Statuses
    <3>2. /\ WindowsOK' /\ DOMAIN windows' = DOMAIN windows
          /\ \A j \in DOMAIN windows : j # i => windows'[j] = windows[j]
          /\ windows'[i].status = "cancelled"
      BY <1>1, <1>2, <3>1, WriteWindow
    <3>. QED BY <2>2, <3>2 DEF Forward
  <2>. QED BY <2>1, <2>2
<1>4. TicksOK' /\ \A v \in Workers : \A j : Owes(tick'[v], j) => Owes(tick[v], j)
  BY <1>2, <1>3, RequestOvertakes
<1>5. RequestsOK'
  <2>1. NoRequest \in RequestState /\ RequestOK(NoRequest, windows', clock')
    BY <1>1, <1>2, NoRequestIsIdle DEF RequestOK, WindowsOK
  <2>. QED BY <1>2, <1>3, <2>1 DEF MaintenanceInv, RequestsOK, RequestOK
<1>6. EndsOK'
  BY <1>2, <1>3, <1>4, EndsStay DEF Forward
<1>. QED BY <1>3, <1>4, <1>5, <1>6 DEF MaintenanceInv

\* A tick that completes a window owes its end from then on.
LEMMA UpdateStatusKeeps ==
    ASSUME MaintenanceInv, NEW w \in Workers, NEW i \in DOMAIN tick[w].todo, UpdateStatus(w, i)
    PROVE  MaintenanceInv' /\ Forward(tick[w].pc = "walk" /\ tick[w].overtaken = TRUE)
<1>. DEFINE from == tick[w].todo[i]
            to == Desired(w, i, from)
            phases == IF StillIn(i, from) THEN PhasesOf(from, to) ELSE << >>
            t == [tick[w] EXCEPT !.todo = Without(tick[w].todo, i), !.id = i, !.phases = phases]
<1>1. /\ tick \in [Workers -> TickState]
      /\ tick[w] \in TickState /\ TickOK(tick[w], windows, clock) /\ tick[w].pc = "walk"
      /\ clock \in Nat /\ tick[w].now \in Nat /\ tick[w].now <= clock /\ tick[w].todo \in Listed
  BY DEF MaintenanceInv, TicksOK, TickState, TickOK, WindowsOK, UpdateStatus
<1>2. i \in DOMAIN windows /\ i \in Nat /\ i \in Ids /\ windows[i].range \in Nat \X Nat
  BY <1>1, WindowIs DEF TickOK, MaintenanceInv
<1>3. from \in {"scheduled", "active"}
  BY <1>1, ListedHas
<1>4. /\ to \in Statuses
      /\ to = "active" => windows[i].range[1] <= tick[w].now
      /\ to = "scheduled" => tick[w].now < windows[i].range[1]
  <2>1. from \in Statuses /\ from # "completed"
    BY <1>3 DEF Statuses
  <2>. QED BY <1>1, <1>2, <2>1, DeriveStatus DEF Desired
<1>5. /\ UNCHANGED <<clock, request, ends>>
      /\ windows' = IF StillIn(i, from) THEN [windows EXCEPT ![i].status = to] ELSE windows
      /\ tick' = [(IF StillIn(i, from) THEN Overtakes(w) ELSE tick) EXCEPT ![w] = Proceeds(t)]
  BY DEF UpdateStatus, historyVars
<1>. HIDE DEF to, from
<1>6. phases \in TickPhases
  BY DEF PhasesOf, TickPhases
<1>7. phases \in {<<"completed">>, <<"starting", "completed">>} =>
        StillIn(i, from) /\ to = "completed"
  BY DEF PhasesOf
<1>. HIDE DEF phases
<1>8. /\ Without(tick[w].todo, i) \in Listed
      /\ DOMAIN Without(tick[w].todo, i) \subseteq DOMAIN windows
  <2>1. PICK S \in SUBSET Nat : tick[w].todo \in [S -> {"scheduled", "active"}]
    BY <1>1 DEF Listed
  <2>2. Without(tick[w].todo, i) \in [S \ {i} -> {"scheduled", "active"}]
    BY <2>1 DEF Without
  <2>. QED BY <1>1, <2>1, <2>2, ListedIs DEF TickOK
<1>9. /\ t \in TickState /\ t.now = tick[w].now /\ t.id = i /\ t.phases = phases
      /\ t.todo = Without(tick[w].todo, i) /\ t.overtaken = tick[w].overtaken
  BY <1>1, <1>2, <1>6, <1>8 DEF TickState
<1>. HIDE DEF t
<1>10. Proceeds(t) \in TickState
  BY <1>9, ProceedsIs
<1>11. ASSUME SeesActive(t, windows'), DOMAIN windows' = DOMAIN windows
       PROVE  /\ TickOK(Proceeds(t), windows', clock')
              /\ \A j : Owes(Proceeds(t), j) => j = i /\ StillIn(i, from) /\ to = "completed"
  <2>1. /\ t.now <= clock' /\ 0 <= clock'
        /\ DOMAIN t.todo \subseteq DOMAIN windows' /\ t.id \in DOMAIN windows'
    BY <1>1, <1>2, <1>5, <1>8, <1>9, <1>11
  <2>. QED BY <1>7, <1>9, <1>11, <2>1, ProceedsOK
<1>12. CASE ~StillIn(i, from)
  <2>1. windows' = windows /\ tick' = [tick EXCEPT ![w] = Proceeds(t)]
    BY <1>5, <1>12
  <2>2. SeesActive(t, windows)
    BY <1>1, <1>9 DEF TickOK, SeesActive
  <2>3. TickOK(Proceeds(t), windows, clock) /\ \A j : ~Owes(Proceeds(t), j)
    BY <1>5, <1>11, <1>12, <2>1, <2>2
  <2>. QED BY <1>5, <1>10, <2>1, <2>3, TickStepKeeps DEF Forward
<1>13. CASE StillIn(i, from)
  <2>1. /\ windows' = [windows EXCEPT ![i].status = to] /\ windows[i].status = from
        /\ tick' = [Overtakes(w) EXCEPT ![w] = Proceeds(t)]
    BY <1>5, <1>13 DEF StillIn
  <2>2. /\ WindowsOK' /\ DOMAIN windows' = DOMAIN windows
        /\ \A j \in DOMAIN windows : j # i => windows'[j] = windows[j]
        /\ windows'[i].status = to /\ windows'[i].range = windows[i].range
    <3>1. to = "active" => windows[i].range[1] <= clock
      BY <1>1, <1>2, <1>4, WindowIs DEF MaintenanceInv
    <3>. QED BY <1>2, <1>4, <1>5, <2>1, <3>1, WriteWindow DEF MaintenanceInv
  <2>3. SeesActive(t, windows')
    BY <1>1, <1>4, <1>9, <2>2 DEF TickOK, SeesActive
  <2>4. /\ TickOK(Proceeds(t), windows', clock')
        /\ \A j : Owes(Proceeds(t), j) => j = i /\ to = "completed"
    BY <1>11, <2>2, <2>3
  <2>5. tick' \in [Workers -> TickState] /\ tick'[w] = Proceeds(t)
    BY <1>1, <1>10, <2>1, OvertakesIs
  <2>6. ASSUME NEW v \in Workers, v # w
        PROVE  /\ TickOK(tick'[v], windows', clock')
               /\ \A j : Owes(tick'[v], j) => Owes(tick[v], j)
    <3>1. tick'[v] = Overtakes(w)[v]
      BY <1>1, <2>1, <2>6, OvertakesIs
    <3>. QED BY <1>5, <2>2, <2>6, <3>1, OtherTick
  <2>7. TicksOK'
    BY <2>4, <2>5, <2>6 DEF TicksOK
  <2>8. RequestsOK'
    BY <1>5, <2>2 DEF MaintenanceInv, RequestsOK, RequestOK
  <2>9. EndsOK'
    <3>1. ends[i] = 0 /\ \A v \in Workers : ~Owes(tick[v], i)
      BY <1>2, <1>3, <2>1 DEF MaintenanceInv, EndsOK
    <3>2. ASSUME NEW j \in DOMAIN windows'
          PROVE  /\ ends'[j] <= 1
                 /\ ends'[j] = 1 => windows'[j].status = "completed"
                 /\ \A u \in Workers : Owes(tick'[u], j) =>
                      /\ windows'[j].status = "completed" /\ ends'[j] = 0
                      /\ \A v \in Workers : Owes(tick'[v], j) => v = u
      <4>1. CASE j = i
        BY <1>5, <2>2, <2>4, <2>5, <2>6, <3>1, <4>1
      <4>2. CASE j # i
        <5>1. \A v \in Workers : Owes(tick'[v], j) => Owes(tick[v], j)
          BY <2>4, <2>5, <2>6, <4>2
        <5>. QED BY <1>5, <2>2, <4>2, <5>1 DEF MaintenanceInv, EndsOK
      <4>. QED BY <4>1, <4>2
    <3>3. ends' \in [Ids -> Nat] /\ \A j \in Ids : j \notin DOMAIN windows' => ends'[j] = 0
      BY <1>5, <2>2 DEF MaintenanceInv, EndsOK
    <3>. QED BY <3>2, <3>3 DEF EndsOK, Owes
  <2>10. Forward(tick[w].pc = "walk" /\ tick[w].overtaken = TRUE)
    <3>1. ~Terminal(windows[i])
      BY <1>3, <2>1 DEF Terminal
    <3>2. ASSUME windows[i].status = "active", to = "scheduled"
          PROVE  tick[w].overtaken = TRUE
      <4>1. windows[i].range[1] \in Nat /\ tick[w].now < windows[i].range[1]
        BY <1>2, <1>4, <3>2, WindowIs DEF MaintenanceInv
      <4>. QED BY <1>1, <1>2, <3>2, <4>1 DEF TickOK, SeesActive
    <3>. QED BY <1>1, <2>2, <3>1, <3>2 DEF Forward
  <2>. QED BY <2>2, <2>7, <2>8, <2>9, <2>10 DEF MaintenanceInv
<1>. QED BY <1>12, <1>13
-----------------------------------------------------------------------------
LEMMA InitMaintenance == Init => MaintenanceInv
<1>. SUFFICES ASSUME Init PROVE MaintenanceInv
  OBVIOUS
<1>1. WindowsOK
  BY MaintenanceAssumption DEF Init, WindowsOK
<1>2. TicksOK
  BY NoTickIsIdle DEF Init, TicksOK, TickOK
<1>3. RequestsOK
  BY NoRequestIsIdle DEF Init, RequestsOK, RequestOK
<1>4. EndsOK
  BY DEF Init, EndsOK
<1>. QED BY <1>1, <1>2, <1>3, <1>4 DEF MaintenanceInv

\* The step of NoWayBack.
StepForward ==
    \A i \in DOMAIN windows :
         /\ Terminal(windows[i]) => windows'[i] = windows[i]
         /\ windows[i].status = "active" /\ windows'[i].status = "scheduled" =>
              \E w \in Workers : tick[w].pc = "walk" /\ tick[w].overtaken

LEMMA SameWindows == windows' = windows => StepForward
BY DEF StepForward

LEMMA NextMaintenance ==
    ASSUME MaintenanceInv, [Next]_vars
    PROVE  MaintenanceInv' /\ StepForward
<1>1. ASSUME NEW a \in Admins, NEW target \in SUBSET Integrations, NEW range \in Ranges,
             Schedule(a, target, range)
      PROVE  MaintenanceInv' /\ StepForward
  BY <1>1, ScheduleKeeps, SameWindows DEF Schedule
<1>2. ASSUME NEW a \in Admins, AssertNoOverlap(a)
      PROVE  MaintenanceInv' /\ StepForward
  BY <1>2, AssertNoOverlapKeeps, SameWindows DEF AssertNoOverlap
<1>3. ASSUME NEW a \in Admins, CreateMaintenanceWindow(a)
      PROVE  MaintenanceInv' /\ StepForward
  BY <1>3, CreateKeeps DEF StepForward
<1>4. ASSUME NEW a \in Admins, NEW i \in DOMAIN windows, Cancel(a, i)
      PROVE  MaintenanceInv' /\ StepForward
  BY <1>4, CancelKeeps, SameWindows DEF Cancel
<1>5. ASSUME NEW a \in Admins, CancelWindow(a)
      PROVE  MaintenanceInv' /\ StepForward
  BY <1>5, CancelWindowKeeps DEF StepForward, Forward
<1>6. ASSUME NEW a \in Admins, FanOutInRequest(a)
      PROVE  MaintenanceInv' /\ StepForward
  BY <1>6, FanOutInRequestKeeps, SameWindows DEF FanOutInRequest
<1>7. ASSUME NEW a \in Admins, RequestCut(a)
      PROVE  MaintenanceInv' /\ StepForward
  BY <1>7, RequestCutKeeps, SameWindows DEF RequestCut
<1>8. ASSUME NEW w \in Workers, BeginTick(w)
      PROVE  MaintenanceInv' /\ StepForward
  BY <1>8, BeginTickKeeps, SameWindows DEF BeginTick
<1>9. ASSUME NEW w \in Workers, ListNonTerminal(w)
      PROVE  MaintenanceInv' /\ StepForward
  BY <1>9, ListNonTerminalKeeps, SameWindows DEF ListNonTerminal
<1>10. ASSUME NEW w \in Workers, NEW i \in DOMAIN tick[w].todo, UpdateStatus(w, i)
       PROVE  MaintenanceInv' /\ StepForward
  <2>1. MaintenanceInv' /\ Forward(tick[w].pc = "walk" /\ tick[w].overtaken = TRUE)
    BY <1>10, UpdateStatusKeeps
  <2>2. tick[w].pc = "walk" /\ tick[w].overtaken = TRUE =>
          \E v \in Workers : tick[v].pc = "walk" /\ tick[v].overtaken
    OBVIOUS
  <2>. QED BY <2>1, <2>2, Zenon DEF StepForward, Forward
<1>11. ASSUME NEW w \in Workers, FanOutInTick(w)
       PROVE  MaintenanceInv' /\ StepForward
  BY <1>11, FanOutInTickKeeps, SameWindows DEF FanOutInTick
<1>12. ASSUME NEW w \in Workers, TickCut(w)
       PROVE  MaintenanceInv' /\ StepForward
  BY <1>12, TickCutKeeps, SameWindows DEF TickCut
<1>13. CASE TimePasses
  BY <1>13, TimePassesKeeps, SameWindows DEF TimePasses
<1>14. CASE UNCHANGED vars
  <2>1. UNCHANGED <<clock, windows, request, tick, ends>>
    BY <1>14 DEF vars, historyVars
  <2>. QED BY <2>1, SameWindows
           DEF MaintenanceInv, WindowsOK, TicksOK, TickOK, SeesActive, RequestsOK, RequestOK,
               EndsOK, Owes
<1>. QED BY <1>1, <1>2, <1>3, <1>4, <1>5, <1>6, <1>7, <1>8, <1>9, <1>10, <1>11, <1>12, <1>13,
            <1>14 DEF Next, TickStep

\* maintenance.ts, "Idempotent via CAS status updates": the end of a window is
\* announced at most once, by whichever tick completed it, and never of a
\* window that is not completed.
THEOREM EndsOnce == Spec => []EndAnnouncedOnce
<1>1. MaintenanceInv /\ [Next]_vars => MaintenanceInv'
  BY NextMaintenance
<1>2. MaintenanceInv => EndAnnouncedOnce
  BY DEF MaintenanceInv, EndsOK, EndAnnouncedOnce
<1>. QED BY <1>1, <1>2, InitMaintenance, PTL DEF Spec

\* docs/25, "scheduled -> active -> completed, or cancelled": what is over
\* stays over, and only a tick that was overtaken takes a start back.
THEOREM StatusForward == Spec => NoWayBack
<1>1. MaintenanceInv /\ [Next]_vars => MaintenanceInv' /\ [StepForward]_windows
  BY NextMaintenance
<1>. QED BY <1>1, InitMaintenance, PTL DEF Spec, NoWayBack, StepForward
-----------------------------------------------------------------------------
(***************************************************************************)
(* Overlaps.  What a request that was not overtaken has seen to be free    *)
(* stays free until it inserts its window: windows are only added by other *)
(* requests, which overtake it, and never come back once they are over.    *)
(***************************************************************************)
Shares(ws, i, target) == ~Terminal(ws[i]) /\ ws[i].target \cap target # {}

Apart(ws) ==
    \A i, j \in DOMAIN ws :
        i # j /\ ~Terminal(ws[j]) /\ Shares(ws, i, ws[j].target) =>
          ~RangesOverlap(ws[i].range, ws[j].range)

Free(ws, r) ==
    \A i \in DOMAIN ws : Shares(ws, i, r.target) => ~RangesOverlap(r.range, ws[i].range)

OverlapInv ==
    /\ raced = TRUE \/ Apart(windows)
    /\ \A a \in Admins : request[a].pc = "insert" =>
         request[a].overtaken = TRUE \/ Free(windows, request[a])

\* No window is added, moved, retargeted or revived.
Fewer(ws, vs) ==
    /\ DOMAIN vs = DOMAIN ws
    /\ \A i \in DOMAIN ws :
         /\ vs[i].target = ws[i].target /\ vs[i].range = ws[i].range
         /\ Terminal(ws[i]) => Terminal(vs[i])

LEMMA FewerOverlaps ==
    ASSUME NEW ws, NEW vs, Fewer(ws, vs)
    PROVE  /\ Apart(ws) => Apart(vs)
           /\ \A r : Free(ws, r) => Free(vs, r)
BY DEF Fewer, Apart, Free, Shares

LEMMA OverlapStays ==
    ASSUME OverlapInv, Fewer(windows, windows'), raced' = raced,
           \A a \in Admins : request'[a].pc = "insert" =>
              request'[a] = request[a] \/ Free(windows, request'[a])
    PROVE  OverlapInv'
<1>1. Apart(windows) => Apart(windows')
  BY FewerOverlaps
<1>2. \A a \in Admins : Free(windows, request'[a]) => Free(windows', request'[a])
  BY FewerOverlaps
<1>. QED BY <1>1, <1>2 DEF OverlapInv

LEMMA SameIsFewer == windows' = windows => Fewer(windows, windows')
BY DEF Fewer

LEMMA WriteIsFewer ==
    ASSUME WindowsOK, NEW i \in DOMAIN windows, NEW st \in Statuses, ~Terminal(windows[i]),
           windows' = [windows EXCEPT ![i].status = st]
    PROVE  Fewer(windows, windows')
<1>1. windows \in Seq(Window) /\ windows[i] \in Window
  BY WindowIs DEF WindowsOK
<1>2. DOMAIN windows' = DOMAIN windows
  OBVIOUS
<1>3. \A j \in DOMAIN windows : j # i => windows'[j] = windows[j]
  OBVIOUS
<1>4. windows'[i].target = windows[i].target /\ windows'[i].range = windows[i].range
  BY <1>1 DEF Window
<1>. QED BY <1>2, <1>3, <1>4 DEF Fewer

\* A request that has not been overtaken inserts where it is free.
LEMMA CreateOverlap ==
    ASSUME MaintenanceInv, OverlapInv, NEW a \in Admins, CreateMaintenanceWindow(a)
    PROVE  OverlapInv'
<1>. DEFINE r == request[a]
            n == Len(windows) + 1
<1>1. r.pc = "insert" /\ r \in RequestState
  BY DEF CreateMaintenanceWindow, MaintenanceInv, RequestsOK
<1>2. PICK row : row.target = r.target /\ row.range = r.range /\ windows' = Append(windows, row)
  BY DEF CreateMaintenanceWindow
<1>3. /\ DOMAIN windows' = DOMAIN windows \cup {n} /\ n \notin DOMAIN windows
      /\ windows'[n] = row /\ \A i \in DOMAIN windows : windows'[i] = windows[i]
  BY <1>2 DEF MaintenanceInv, WindowsOK
<1>4. raced' = (raced \/ r.overtaken)
  BY DEF CreateMaintenanceWindow
<1>5. raced' = TRUE \/ Apart(windows')
  <2>1. CASE raced = TRUE
    BY <1>4, <2>1
  <2>2. CASE r.overtaken = TRUE
    BY <1>4, <2>2
  <2>3. CASE Apart(windows) /\ Free(windows, r)
    <3>. SUFFICES ASSUME NEW i \in DOMAIN windows', NEW j \in DOMAIN windows', i # j,
                         ~Terminal(windows'[j]), Shares(windows', i, windows'[j].target)
                  PROVE  ~RangesOverlap(windows'[i].range, windows'[j].range)
      BY DEF Apart
    <3>1. CASE i \in DOMAIN windows /\ j \in DOMAIN windows
      BY <1>3, <2>3, <3>1 DEF Apart, Shares
    <3>2. CASE i \in DOMAIN windows /\ j = n
      BY <1>2, <1>3, <2>3, <3>2 DEF Free, Shares, RangesOverlap
    <3>3. CASE i = n /\ j \in DOMAIN windows
      BY <1>2, <1>3, <2>3, <3>3 DEF Free, Shares, RangesOverlap
    <3>. QED BY <1>3, <3>1, <3>2, <3>3
  <2>. QED BY <1>1, <2>1, <2>2, <2>3 DEF OverlapInv
<1>6. ASSUME NEW b \in Admins, request'[b].pc = "insert"
      PROVE  request'[b].overtaken = TRUE
  <2>1. b # a
    BY <1>6, NoRequestIsIdle DEF CreateMaintenanceWindow, RequestState
  <2>2. request'[b] = [request[b] EXCEPT !.overtaken =
                         request[b].overtaken \/ request[b].pc = "insert"]
    BY <2>1, Zenon DEF CreateMaintenanceWindow
  <2>3. request[b] \in RequestState
    BY DEF MaintenanceInv, RequestsOK
  <2>4. request[b].pc = "insert"
    BY <1>6, <2>2, <2>3 DEF RequestState
  <2>5. (request[b].overtaken \/ request[b].pc = "insert") = TRUE
    BY <2>4
  <2>. QED BY <2>2, <2>3, <2>5 DEF RequestState
<1>. QED BY <1>5, <1>6 DEF OverlapInv

LEMMA NextOverlap ==
    ASSUME MaintenanceInv, OverlapInv, [Next]_vars
    PROVE  OverlapInv'
<1>1. ASSUME NEW a \in Admins, NEW target \in SUBSET Integrations, NEW range \in Ranges,
             Schedule(a, target, range)
      PROVE  OverlapInv'
  <2>1. windows' = windows /\ raced' = raced
    BY <1>1 DEF Schedule
  <2>2. request \in [Admins -> RequestState]
    BY DEF MaintenanceInv, RequestsOK
  <2>3. \A b \in Admins : b # a => request'[b] = request[b]
    BY <1>1, <2>2 DEF Schedule
  <2>4. request'[a].pc = "check"
    BY <1>1, <2>2, NoRequestIsIdle DEF Schedule, RequestState
  <2>. QED BY <2>1, <2>3, <2>4, SameIsFewer, OverlapStays
<1>2. ASSUME NEW a \in Admins, AssertNoOverlap(a)
      PROVE  OverlapInv'
  <2>1. windows' = windows /\ raced' = raced
    BY <1>2 DEF AssertNoOverlap
  <2>2. request \in [Admins -> RequestState] /\ request[a] \in RequestState
    BY DEF MaintenanceInv, RequestsOK
  <2>3. \A b \in Admins : b # a => request'[b] = request[b]
    BY <1>2, <2>2 DEF AssertNoOverlap
  <2>4. request'[a].pc = "insert" => Free(windows, request'[a])
    <3>1. CASE Conflicts(request[a].target, request[a].range)
      <4>1. request'[a] = NoRequest
        BY <1>2, <2>2, <3>1 DEF AssertNoOverlap
      <4>. QED BY <4>1, NoRequestIsIdle
    <3>2. CASE ~Conflicts(request[a].target, request[a].range)
      <4>1. request'[a] = [request[a] EXCEPT !.pc = "insert"]
        BY <1>2, <2>2, <3>2 DEF AssertNoOverlap
      <4>2. request'[a].target = request[a].target /\ request'[a].range = request[a].range
        BY <2>2, <4>1 DEF RequestState
      <4>. QED BY <3>2, <4>2 DEF Conflicts, Free, Shares
    <3>. QED BY <3>1, <3>2
  <2>. QED BY <2>1, <2>3, <2>4, SameIsFewer, OverlapStays
<1>3. ASSUME NEW a \in Admins, CreateMaintenanceWindow(a)
      PROVE  OverlapInv'
  BY <1>3, CreateOverlap
<1>4. ASSUME NEW a \in Admins, NEW i \in DOMAIN windows, Cancel(a, i)
      PROVE  OverlapInv'
  <2>1. windows' = windows /\ raced' = raced
    BY <1>4 DEF Cancel
  <2>2. request \in [Admins -> RequestState]
    BY DEF MaintenanceInv, RequestsOK
  <2>3. \A b \in Admins : b # a => request'[b] = request[b]
    BY <1>4, <2>2 DEF Cancel
  <2>4. request'[a].pc = "cancel"
    BY <1>4, <2>2 DEF Cancel, RequestState
  <2>. QED BY <2>1, <2>3, <2>4, SameIsFewer, OverlapStays
<1>5. ASSUME NEW a \in Admins, CancelWindow(a)
      PROVE  OverlapInv'
  <2>. DEFINE i == request[a].id
  <2>1. /\ i \in DOMAIN windows /\ WindowsOK /\ raced' = raced
        /\ request' = [request EXCEPT ![a] = NoRequest]
    BY <1>5 DEF MaintenanceInv, RequestsOK, RequestOK, CancelWindow
  <2>2. Fewer(windows, windows')
    <3>1. CASE Terminal(windows[i])
      BY <1>5, <3>1, SameIsFewer DEF CancelWindow
    <3>2. CASE ~Terminal(windows[i])
      <4>1. windows' = [windows EXCEPT ![i].status = "cancelled"] /\ "cancelled" \in Statuses
        BY <1>5, <3>2 DEF CancelWindow, Statuses
      <4>. QED BY <2>1, <3>2, <4>1, WriteIsFewer
    <3>. QED BY <3>1, <3>2
  <2>. QED BY <2>1, <2>2, NoRequestIsIdle, OverlapStays DEF MaintenanceInv, RequestsOK
<1>6. ASSUME NEW a \in Admins, FanOutInRequest(a) \/ RequestCut(a)
      PROVE  OverlapInv'
  <2>1. windows' = windows /\ raced' = raced /\ request[a].pc = "announce"
    BY <1>6 DEF FanOutInRequest, FanOut, RequestCut
  <2>2. request \in [Admins -> RequestState] /\ request[a] \in RequestState
    BY DEF MaintenanceInv, RequestsOK
  <2>3. \A b \in Admins : b # a => request'[b] = request[b]
    BY <1>6, <2>2 DEF FanOutInRequest, RequestCut
  <2>4. request'[a].pc # "insert"
    <3>1. \/ request'[a] = NoRequest
          \/ request'[a] = [request[a] EXCEPT !.phases = Tail(request[a].phases)]
      BY <1>6, <2>2 DEF FanOutInRequest, RequestCut
    <3>. QED BY <2>1, <2>2, <3>1, NoRequestIsIdle DEF RequestState
  <2>. QED BY <2>1, <2>3, <2>4, SameIsFewer, OverlapStays
<1>7. ASSUME NEW w \in Workers, NEW i \in DOMAIN tick[w].todo, UpdateStatus(w, i)
      PROVE  OverlapInv'
  <2>. DEFINE from == tick[w].todo[i]
              to == Desired(w, i, from)
  <2>1. /\ WindowsOK /\ tick[w] \in TickState /\ i \in DOMAIN windows
        /\ tick[w].now \in Nat /\ tick[w].todo \in Listed
    BY DEF MaintenanceInv, TicksOK, TickOK, TickState
  <2>2. from \in {"scheduled", "active"} /\ windows[i].range \in Nat \X Nat
    BY <2>1, ListedHas, WindowIs
  <2>3. to \in Statuses
    BY <2>1, <2>2, DeriveStatus DEF Desired, Statuses
  <2>4. /\ UNCHANGED <<request, raced>>
        /\ windows' = IF StillIn(i, from) THEN [windows EXCEPT ![i].status = to] ELSE windows
    BY <1>7 DEF UpdateStatus
  <2>. HIDE DEF from, to
  <2>5. Fewer(windows, windows')
    <3>1. CASE StillIn(i, from)
      <4>1. ~Terminal(windows[i])
        BY <2>2, <3>1 DEF StillIn, Terminal
      <4>. QED BY <2>1, <2>3, <2>4, <3>1, <4>1, WriteIsFewer
    <3>2. CASE ~StillIn(i, from)
      BY <2>4, <3>2, SameIsFewer
    <3>. QED BY <3>1, <3>2
  <2>. QED BY <2>4, <2>5, OverlapStays
<1>8. CASE UNCHANGED <<windows, request, raced>>
  BY <1>8, SameIsFewer, OverlapStays
<1>9. ASSUME NEW w \in Workers,
             BeginTick(w) \/ ListNonTerminal(w) \/ FanOutInTick(w) \/ TickCut(w)
      PROVE  UNCHANGED <<windows, request, raced>>
  BY <1>9 DEF BeginTick, ListNonTerminal, FanOutInTick, TickCut
<1>10. TimePasses \/ UNCHANGED vars => UNCHANGED <<windows, request, raced>>
  BY DEF TimePasses, vars
<1>. QED BY <1>1, <1>2, <1>3, <1>4, <1>5, <1>6, <1>7, <1>8, <1>9, <1>10 DEF Next, TickStep

\* maintenance.ts, "overlaps an existing window for a shared integration": two
\* windows that are not over and share an integration do not overlap, unless
\* one was inserted between the listing and the insertion of the other.
THEOREM NoOverlapAlone == Spec => []OverlapNeedsRace
<1>1. Init => OverlapInv
  BY NoRequestIsIdle DEF Init, OverlapInv, Apart
<1>2. MaintenanceInv /\ OverlapInv /\ [Next]_vars => MaintenanceInv' /\ OverlapInv'
  BY NextMaintenance, NextOverlap
<1>3. MaintenanceInv /\ OverlapInv => OverlapNeedsRace
  <2>. SUFFICES ASSUME MaintenanceInv, OverlapInv, ~raced,
                       NEW i \in DOMAIN windows, NEW j \in DOMAIN windows, i # j,
                       ~Terminal(windows[i]), ~Terminal(windows[j]),
                       windows[i].target \cap windows[j].target # {}, NEW t \in 0..MaxTime,
                       windows[i].range[1] <= t, t < windows[i].range[2],
                       windows[j].range[1] <= t, t < windows[j].range[2]
                PROVE  FALSE
    BY DEF OverlapNeedsRace
  <2>1. ~RangesOverlap(windows[i].range, windows[j].range)
    BY DEF OverlapInv, Apart, Shares
  <2>2. /\ windows[i].range[1] \in Nat /\ windows[i].range[2] \in Nat
        /\ windows[j].range[1] \in Nat /\ windows[j].range[2] \in Nat
    BY WindowIs DEF MaintenanceInv
  <2>. QED BY <2>1, <2>2 DEF RangesOverlap
<1>. QED BY <1>1, <1>2, <1>3, InitMaintenance, PTL DEF Spec
-----------------------------------------------------------------------------
(***************************************************************************)
(* Phases.  What the status of a window says it has been through has been  *)
(* announced, or is in the hands of the request or the tick that moved it, *)
(* unless that one was cut.                                                *)
(***************************************************************************)
Passed(status) ==
    IF status = "scheduled" THEN {"scheduled"}
    ELSE IF status = "active" THEN {"scheduled", "starting"}
    ELSE IF status = "completed" THEN Phases ELSE {}

Item(phases, p) == \E k \in DOMAIN phases : phases[k] = p

\* A request or a tick still has a phase of the window to announce.
Holds(x, i, p) == x.pc = "announce" /\ x.id = i /\ Item(x.phases, p)

ToCome(i, p) ==
    \/ \E a \in Admins : Holds(request[a], i, p)
    \/ \E w \in Workers : Holds(tick[w], i, p)

PhasesKept ==
    /\ announced \in [Ids -> SUBSET Phases]
    /\ \A i \in DOMAIN windows \ lost :
         \A p \in Passed(windows[i].status) : p \in announced[i] \/ ToCome(i, p)

\* A request asks for a window that is not over, by the clock it has read.
Asks(r) ==
    /\ r.pc \in {"check", "insert"} => r.range \in Ranges /\ r.now < r.range[2]
    /\ r.phases # << >> => r.pc = "announce"

AskedOK ==
    /\ clock \in 0..MaxTime
    /\ \A i \in DOMAIN windows : windows[i].range \in Ranges
    /\ \A a \in Admins : Asks(request[a])
    /\ lost \subseteq DOMAIN windows
    /\ spent \in [{"cancels", "cuts"} -> Nat]

PhaseInv == AskedOK /\ PhasesKept

LEMMA ItemOfTail ==
    ASSUME NEW phases \in TickPhases \cup RequestPhases, phases # << >>, NEW p, Item(phases, p)
    PROVE  p = Head(phases) \/ Item(Tail(phases), p)
<1>1. CASE phases \in {<<"starting">>, <<"completed">>, <<"scheduled">>}
  BY <1>1 DEF Item
<1>2. CASE phases = <<"starting", "completed">>
  <2>1. Head(phases) = "starting" /\ Tail(phases) = <<"completed">>
    BY <1>2
  <2>2. p \in {"starting", "completed"}
    BY <1>2 DEF Item
  <2>3. Item(<<"completed">>, "completed")
    BY DEF Item
  <2>. QED BY <2>1, <2>2, <2>3
<1>3. CASE phases = <<"scheduled", "starting">>
  <2>1. Head(phases) = "scheduled" /\ Tail(phases) = <<"starting">>
    BY <1>3
  <2>2. p \in {"scheduled", "starting"}
    BY <1>3 DEF Item
  <2>3. Item(<<"starting">>, "starting")
    BY DEF Item
  <2>. QED BY <2>1, <2>2, <2>3
<1>. QED BY <1>1, <1>2, <1>3 DEF TickPhases, RequestPhases

LEMMA ItemsAre ==
    /\ \A p : ~Item(<< >>, p)
    /\ Item(<<"starting">>, "starting")
    /\ Item(<<"completed">>, "completed")
    /\ Item(<<"scheduled">>, "scheduled")
    /\ Item(<<"starting", "completed">>, "starting")
    /\ Item(<<"starting", "completed">>, "completed")
    /\ Item(<<"scheduled", "starting">>, "scheduled")
    /\ Item(<<"scheduled", "starting">>, "starting")
<1>1. \A p : ~Item(<< >>, p)
  BY DEF Item
<1>2. /\ Item(<<"starting">>, "starting") /\ Item(<<"completed">>, "completed")
      /\ Item(<<"scheduled">>, "scheduled")
  BY DEF Item
<1>3. ASSUME NEW x, NEW y PROVE Item(<<x, y>>, x) /\ Item(<<x, y>>, y)
  <2>1. DOMAIN <<x, y>> = 1..2 /\ <<x, y>>[1] = x /\ <<x, y>>[2] = y
    OBVIOUS
  <2>. QED BY <2>1 DEF Item
<1>. QED BY <1>1, <1>2, <1>3

LEMMA HeadIsPhase ==
    ASSUME NEW phases \in TickPhases \cup RequestPhases, phases # << >>
    PROVE  Head(phases) \in Phases
BY DEF TickPhases, RequestPhases, Phases

\* A step that lets go of a phase has announced it, or loses the window.
LEMMA PhasesStay ==
    ASSUME PhasesKept, announced' \in [Ids -> SUBSET Phases], lost \subseteq lost',
           \A i \in DOMAIN windows : announced[i] \subseteq announced'[i],
           \A i \in DOMAIN windows \ lost', a \in Admins : \A p :
             Holds(request[a], i, p) => Holds(request'[a], i, p) \/ p \in announced'[i],
           \A i \in DOMAIN windows \ lost', w \in Workers : \A p :
             Holds(tick[w], i, p) => Holds(tick'[w], i, p) \/ p \in announced'[i],
           \A i \in DOMAIN windows' \ lost' : \A p \in Passed(windows'[i].status) :
             \/ i \in DOMAIN windows /\ p \in Passed(windows[i].status)
             \/ ToCome(i, p)'
    PROVE  PhasesKept'
<1>1. ASSUME NEW i \in DOMAIN windows \ lost', NEW p, ToCome(i, p)
      PROVE  ToCome(i, p)' \/ p \in announced'[i]
  BY <1>1 DEF ToCome, Holds
<1>2. ASSUME NEW i \in DOMAIN windows' \ lost', NEW p \in Passed(windows'[i].status)
      PROVE  p \in announced'[i] \/ ToCome(i, p)'
  <2>1. CASE i \in DOMAIN windows /\ p \in Passed(windows[i].status)
    <3>1. p \in announced[i] \/ ToCome(i, p)
      BY <1>2, <2>1 DEF PhasesKept
    <3>. QED BY <1>1, <1>2, <2>1, <3>1
  <2>. QED BY <1>2, <2>1
<1>. QED BY <1>2 DEF PhasesKept, ToCome, Holds

LEMMA OvertakenHolds ==
    ASSUME MaintenanceInv, NEW w, NEW v \in Workers
    PROVE  \A i, p : Holds(Overtakes(w)[v], i, p) <=> Holds(tick[v], i, p)
BY OvertakesIs DEF MaintenanceInv, TicksOK, Holds

\* A request that announces nothing writes no more than a cancellation.
LEMMA QuietRequest ==
    ASSUME MaintenanceInv, PhaseInv, NEW a \in Admins, NEW r, request[a].pc # "announce",
           request' = [request EXCEPT ![a] = r], tick' = tick \/ tick' = Overtakes(a),
           UNCHANGED <<announced, lost>>, DOMAIN windows' = DOMAIN windows,
           \A i \in DOMAIN windows :
             Passed(windows'[i].status) \subseteq Passed(windows[i].status)
    PROVE  PhasesKept'
<1>1. \A i \in DOMAIN windows \ lost', b \in Admins : \A p :
        Holds(request[b], i, p) => Holds(request'[b], i, p)
  BY DEF Holds, MaintenanceInv, RequestsOK
<1>2. \A i \in DOMAIN windows \ lost', w \in Workers : \A p :
        Holds(tick[w], i, p) => Holds(tick'[w], i, p)
  BY OvertakenHolds
<1>3. PhasesKept /\ announced' \in [Ids -> SUBSET Phases]
  BY DEF PhaseInv, PhasesKept
<1>4. \A i \in DOMAIN windows' \ lost' : \A p \in Passed(windows'[i].status) :
        i \in DOMAIN windows /\ p \in Passed(windows[i].status)
  OBVIOUS
<1>. QED BY <1>1, <1>2, <1>3, <1>4, PhasesStay

LEMMA CreatePhases ==
    ASSUME MaintenanceInv, PhaseInv, NEW a \in Admins, CreateMaintenanceWindow(a)
    PROVE  PhasesKept'
<1>. DEFINE r == request[a]
<1>. PICK n : n = Len(windows) + 1
  OBVIOUS
<1>1. /\ r.pc = "insert" /\ r \in RequestState /\ r.now < r.range[2]
      /\ tick' = Overtakes(a) /\ UNCHANGED <<announced, lost>>
  BY DEF CreateMaintenanceWindow, MaintenanceInv, RequestsOK, PhaseInv, AskedOK, Asks, historyVars
<1>2. PICK status : /\ status = Derive("scheduled", r.range, r.now)
                    /\ windows' = Append(windows, [target |-> r.target, range |-> r.range,
                                                   status |-> status])
                    /\ request' = [b \in Admins |->
                         IF b = a
                         THEN [NoRequest EXCEPT !.pc = "announce", !.id = n,
                                 !.phases = IF status = "active" THEN <<"scheduled", "starting">>
                                            ELSE <<"scheduled">>]
                         ELSE [request[b] EXCEPT !.overtaken =
                                 request[b].overtaken \/ request[b].pc = "insert"]]
  BY Zenon DEF CreateMaintenanceWindow
<1>3. status \in {"scheduled", "active"}
  <2>1. r.range \in Nat \X Nat /\ r.now \in Nat
    BY <1>1 DEF RequestState
  <2>2. r.range[2] \in Nat /\ ~(r.now >= r.range[2])
    BY <1>1, <2>1
  <2>. QED BY <1>2, <2>2 DEF Derive
<1>4. /\ DOMAIN windows' = DOMAIN windows \cup {n}
      /\ windows'[n].status = status /\ \A i \in DOMAIN windows : windows'[i] = windows[i]
  BY <1>2 DEF MaintenanceInv, WindowsOK
<1>5. \A p \in Passed(status) : ToCome(n, p)'
  <2>1. PICK ps \in {<<"scheduled", "starting">>, <<"scheduled">>} :
          /\ request'[a] = [NoRequest EXCEPT !.pc = "announce", !.id = n, !.phases = ps]
          /\ status = "active" <=> ps = <<"scheduled", "starting">>
    BY <1>2, <1>3
  <2>2. request'[a].pc = "announce" /\ request'[a].id = n /\ request'[a].phases = ps
    BY <2>1 DEF NoRequest
  <2>3. \A p \in Passed(status) : Item(ps, p)
    BY <1>3, <2>1, ItemsAre DEF Passed
  <2>. QED BY <2>2, <2>3 DEF ToCome, Holds
<1>6. \A i \in DOMAIN windows \ lost', b \in Admins : \A p :
        Holds(request[b], i, p) => Holds(request'[b], i, p)
  <2>. SUFFICES ASSUME NEW b \in Admins, NEW i, NEW p, Holds(request[b], i, p)
                PROVE  Holds(request'[b], i, p)
    OBVIOUS
  <2>1. b # a
    BY <1>1 DEF Holds
  <2>2. request'[b] = [request[b] EXCEPT !.overtaken =
                         request[b].overtaken \/ request[b].pc = "insert"]
    BY <1>2, <2>1, Zenon
  <2>3. request[b] \in RequestState
    BY DEF MaintenanceInv, RequestsOK
  <2>4. /\ request'[b].pc = request[b].pc /\ request'[b].id = request[b].id
        /\ request'[b].phases = request[b].phases
    BY <2>2, <2>3 DEF RequestState
  <2>. QED BY <2>4 DEF Holds
<1>7. \A i \in DOMAIN windows \ lost', w \in Workers : \A p :
        Holds(tick[w], i, p) => Holds(tick'[w], i, p)
  BY <1>1, OvertakenHolds
<1>8. PhasesKept /\ announced' \in [Ids -> SUBSET Phases]
  BY <1>1 DEF PhaseInv, PhasesKept
<1>9. \A i \in DOMAIN windows' \ lost' : \A p \in Passed(windows'[i].status) :
        \/ i \in DOMAIN windows /\ p \in Passed(windows[i].status)
        \/ ToCome(i, p)'
  BY <1>4, <1>5
<1>. QED BY <1>1, <1>6, <1>7, <1>8, <1>9, PhasesStay

LEMMA FanOutPhases ==
    ASSUME MaintenanceInv, PhaseInv, NEW x, x.phases \in TickPhases \cup RequestPhases,
           x.phases # << >>, x.id \in DOMAIN windows, FanOut(x)
    PROVE  /\ announced' \in [Ids -> SUBSET Phases]
           /\ \A i \in DOMAIN windows : announced[i] \subseteq announced'[i]
           /\ Head(x.phases) \in announced'[x.id]
<1>1. /\ announced' = [announced EXCEPT ![x.id] = announced[x.id] \cup {Head(x.phases)}]
      /\ announced \in [Ids -> SUBSET Phases] /\ x.id \in Ids /\ Head(x.phases) \in Phases
  BY WindowIs, HeadIsPhase DEF FanOut, PhaseInv, PhasesKept, MaintenanceInv
<1>2. \A i \in DOMAIN windows : i \in Ids
  BY WindowIs DEF MaintenanceInv
<1>. QED BY <1>1, <1>2

LEMMA FanOutInRequestPhases ==
    ASSUME MaintenanceInv, PhaseInv, NEW a \in Admins, FanOutInRequest(a)
    PROVE  PhasesKept'
<1>1. /\ request \in [Admins -> RequestState] /\ request[a] \in RequestState
      /\ request[a].pc = "announce" /\ request[a].phases # << >>
      /\ request[a].id \in DOMAIN windows /\ FanOut(request[a])
  BY DEF MaintenanceInv, RequestsOK, RequestOK, FanOutInRequest, FanOut
<1>2. request[a].phases \in TickPhases \cup RequestPhases
  BY <1>1 DEF RequestState
<1>3. /\ announced' \in [Ids -> SUBSET Phases]
      /\ \A i \in DOMAIN windows : announced[i] \subseteq announced'[i]
      /\ Head(request[a].phases) \in announced'[request[a].id]
  BY <1>1, <1>2, FanOutPhases
<1>4. \A p : Holds(request[a], request[a].id, p) =>
        p \in announced'[request[a].id] \/ Holds(request'[a], request[a].id, p)
  <2>. SUFFICES ASSUME NEW p, Holds(request[a], request[a].id, p), p # Head(request[a].phases)
                PROVE  Holds(request'[a], request[a].id, p)
    BY <1>3
  <2>1. Item(Tail(request[a].phases), p)
    BY <1>1, <1>2, ItemOfTail DEF Holds
  <2>2. Tail(request[a].phases) # << >>
    BY <2>1, ItemsAre
  <2>3. request'[a] = [request[a] EXCEPT !.phases = Tail(request[a].phases)]
    BY <1>1, <2>2 DEF FanOutInRequest, LastPhase
  <2>4. /\ request'[a].pc = "announce" /\ request'[a].id = request[a].id
        /\ request'[a].phases = Tail(request[a].phases)
    BY <1>1, <2>3 DEF RequestState
  <2>. QED BY <2>1, <2>4 DEF Holds
<1>5. \A i \in DOMAIN windows \ lost', b \in Admins : \A p :
        Holds(request[b], i, p) => Holds(request'[b], i, p) \/ p \in announced'[i]
  <2>1. \A b \in Admins : b # a => request'[b] = request[b]
    BY <1>1 DEF FanOutInRequest
  <2>. QED BY <1>4, <2>1 DEF Holds
<1>6. UNCHANGED <<windows, tick, lost>> /\ PhasesKept
  BY DEF FanOutInRequest, PhaseInv
<1>. QED BY <1>3, <1>5, <1>6, PhasesStay

LEMMA RequestCutPhases ==
    ASSUME MaintenanceInv, PhaseInv, NEW a \in Admins, RequestCut(a)
    PROVE  PhasesKept'
<1>1. /\ UNCHANGED <<windows, tick, announced>> /\ lost' = lost \cup {request[a].id}
      /\ request' = [request EXCEPT ![a] = NoRequest]
  BY DEF RequestCut, historyVars
<1>2. \A i \in DOMAIN windows \ lost', b \in Admins : \A p :
        Holds(request[b], i, p) => Holds(request'[b], i, p)
  BY <1>1 DEF Holds, MaintenanceInv, RequestsOK
<1>3. PhasesKept /\ announced' \in [Ids -> SUBSET Phases]
  BY <1>1 DEF PhaseInv, PhasesKept
<1>. QED BY <1>1, <1>2, <1>3, PhasesStay

\* A tick that announces nothing before the step.
LEMMA QuietTick ==
    ASSUME MaintenanceInv, PhaseInv, NEW w \in Workers, NEW t, tick[w].phases = << >>,
           tick' = [tick EXCEPT ![w] = t], UNCHANGED <<windows, request, announced, lost>>
    PROVE  PhasesKept'
<1>1. \A i \in DOMAIN windows \ lost', v \in Workers : \A p :
        Holds(tick[v], i, p) => Holds(tick'[v], i, p)
  <2>1. \A i, p : ~Holds(tick[w], i, p)
    BY ItemsAre DEF Holds
  <2>2. \A v \in Workers : v # w => tick'[v] = tick[v]
    BY DEF MaintenanceInv, TicksOK
  <2>. QED BY <2>1, <2>2
<1>2. PhasesKept /\ announced' \in [Ids -> SUBSET Phases]
  BY DEF PhaseInv, PhasesKept
<1>. QED BY <1>1, <1>2, PhasesStay

LEMMA TickIs ==
    ASSUME MaintenanceInv, NEW w \in Workers
    PROVE  /\ tick \in [Workers -> TickState] /\ tick[w] \in TickState
           /\ tick[w].pc = "announce" => tick[w].id \in DOMAIN windows
           /\ (tick[w].pc = "announce") <=> (tick[w].phases # << >>)
BY DEF MaintenanceInv, TicksOK, TickOK

LEMMA TickCutPhases ==
    ASSUME MaintenanceInv, PhaseInv, NEW w \in Workers, TickCut(w)
    PROVE  PhasesKept'
<1>1. /\ UNCHANGED <<windows, request, announced>>
      /\ tick' = [tick EXCEPT ![w] = NoTick]
      /\ lost' = IF tick[w].pc = "announce" THEN lost \cup {tick[w].id} ELSE lost
  BY DEF TickCut, historyVars
<1>2. \A i \in DOMAIN windows \ lost', v \in Workers : \A p :
        Holds(tick[v], i, p) => Holds(tick'[v], i, p)
  <2>1. \A i, p : Holds(tick[w], i, p) => i \in lost'
    BY <1>1 DEF Holds
  <2>2. \A v \in Workers : v # w => tick'[v] = tick[v]
    BY <1>1, TickIs
  <2>. QED BY <2>1, <2>2
<1>3. PhasesKept /\ announced' \in [Ids -> SUBSET Phases] /\ lost \subseteq lost'
  BY <1>1 DEF PhaseInv, PhasesKept
<1>. QED BY <1>1, <1>2, <1>3, PhasesStay

\* What proceeds holds what it has still to announce.
LEMMA ProceedsHolds ==
    ASSUME NEW t \in TickState, NEW p, Item(t.phases, p)
    PROVE  Holds(Proceeds(t), t.id, p)
<1>1. t.phases # << >>
  BY ItemsAre
<1>. QED BY <1>1, ProceedsIs DEF Holds

LEMMA FanOutInTickPhases ==
    ASSUME MaintenanceInv, PhaseInv, NEW w \in Workers, FanOutInTick(w)
    PROVE  PhasesKept'
<1>. DEFINE t == [tick[w] EXCEPT !.phases = Tail(tick[w].phases)]
<1>1. /\ tick \in [Workers -> TickState] /\ tick[w] \in TickState
      /\ tick[w].pc = "announce" /\ tick[w].phases # << >>
      /\ tick[w].id \in DOMAIN windows /\ FanOut(tick[w])
      /\ tick' = [tick EXCEPT ![w] = Proceeds(t)]
      /\ UNCHANGED <<windows, request, lost>>
  BY TickIs DEF FanOutInTick, FanOut
<1>2. tick[w].phases \in TickPhases \cup RequestPhases /\ tick[w].phases \in TickPhases
  BY <1>1 DEF TickState
<1>3. /\ announced' \in [Ids -> SUBSET Phases]
      /\ \A i \in DOMAIN windows : announced[i] \subseteq announced'[i]
      /\ Head(tick[w].phases) \in announced'[tick[w].id]
  BY <1>1, <1>2, FanOutPhases
<1>4. t \in TickState /\ t.id = tick[w].id /\ t.phases = Tail(tick[w].phases)
  <2>1. /\ Tail(<<"starting">>) = << >> /\ Tail(<<"completed">>) = << >>
        /\ Tail(<<"starting", "completed">>) = <<"completed">>
    OBVIOUS
  <2>2. Tail(tick[w].phases) \in TickPhases
    BY <1>1, <1>2, <2>1 DEF TickPhases
  <2>. QED BY <1>1, <2>2 DEF TickState
<1>. HIDE DEF t
<1>5. \A p : Holds(tick[w], tick[w].id, p) =>
        p \in announced'[tick[w].id] \/ Holds(tick'[w], tick[w].id, p)
  <2>. SUFFICES ASSUME NEW p, Holds(tick[w], tick[w].id, p), p # Head(tick[w].phases)
                PROVE  Holds(tick'[w], tick[w].id, p)
    BY <1>3
  <2>1. Item(t.phases, p)
    BY <1>1, <1>2, <1>4, ItemOfTail DEF Holds
  <2>2. Holds(Proceeds(t), tick[w].id, p)
    BY <1>4, <2>1, ProceedsHolds
  <2>. QED BY <1>1, <2>2
<1>6. \A i \in DOMAIN windows \ lost', v \in Workers : \A p :
        Holds(tick[v], i, p) => Holds(tick'[v], i, p) \/ p \in announced'[i]
  <2>1. \A v \in Workers : v # w => tick'[v] = tick[v]
    BY <1>1
  <2>. QED BY <1>5, <2>1 DEF Holds
<1>. QED BY <1>1, <1>3, <1>6, PhasesStay DEF PhaseInv

\* A tick that moves a window has all that the new status adds to announce.
LEMMA UpdateStatusPhases ==
    ASSUME MaintenanceInv, PhaseInv, NEW w \in Workers, NEW i \in DOMAIN tick[w].todo,
           UpdateStatus(w, i)
    PROVE  PhasesKept'
<1>. DEFINE from == tick[w].todo[i]
            to == Desired(w, i, from)
            phases == IF StillIn(i, from) THEN PhasesOf(from, to) ELSE << >>
            t == [tick[w] EXCEPT !.todo = Without(tick[w].todo, i), !.id = i, !.phases = phases]
<1>1. /\ tick \in [Workers -> TickState] /\ tick[w] \in TickState
      /\ tick[w].phases = << >> /\ tick[w].todo \in Listed /\ i \in DOMAIN windows
      /\ tick[w].now \in Nat /\ windows[i].range \in Nat \X Nat
  BY TickIs, WindowIs DEF UpdateStatus, TickState, MaintenanceInv, TicksOK, TickOK
<1>2. from \in {"scheduled", "active"}
  BY <1>1, ListedHas
<1>3. to \in {"scheduled", "active", "completed"}
  BY <1>1, <1>2 DEF Desired, Derive
<1>4. /\ UNCHANGED <<request, announced, lost>>
      /\ windows' = IF StillIn(i, from) THEN [windows EXCEPT ![i].status = to] ELSE windows
      /\ tick' = [(IF StillIn(i, from) THEN Overtakes(w) ELSE tick) EXCEPT ![w] = Proceeds(t)]
  BY DEF UpdateStatus, historyVars
<1>. HIDE DEF to, from
<1>5. phases \in TickPhases
  BY DEF PhasesOf, TickPhases
<1>6. StillIn(i, from) => \A p \in Passed(to) : p \in Passed(from) \/ Item(phases, p)
  BY <1>2, <1>3, ItemsAre DEF PhasesOf, Passed, Phases
<1>. HIDE DEF phases
<1>7. t \in TickState /\ t.id = i /\ t.phases = phases
  <2>1. PICK S \in SUBSET Nat : tick[w].todo \in [S -> {"scheduled", "active"}]
    BY <1>1 DEF Listed
  <2>2. Without(tick[w].todo, i) \in [S \ {i} -> {"scheduled", "active"}]
    BY <2>1 DEF Without
  <2>3. Without(tick[w].todo, i) \in Listed /\ i \in Nat
    BY <2>1, <2>2, ListedIs
  <2>. QED BY <1>1, <1>5, <2>3 DEF TickState
<1>. HIDE DEF t
<1>8. CASE ~StillIn(i, from)
  <2>1. windows' = windows /\ tick' = [tick EXCEPT ![w] = Proceeds(t)]
    BY <1>4, <1>8
  <2>. QED BY <1>1, <1>4, <2>1, QuietTick
<1>9. CASE StillIn(i, from)
  <2>1. /\ windows' = [windows EXCEPT ![i].status = to] /\ windows[i].status = from
        /\ tick' = [Overtakes(w) EXCEPT ![w] = Proceeds(t)]
    BY <1>4, <1>9 DEF StillIn
  <2>2. /\ DOMAIN windows' = DOMAIN windows /\ windows'[i].status = to
        /\ \A j \in DOMAIN windows : j # i => windows'[j] = windows[j]
    <3>1. windows \in Seq(Window) /\ i \in 1..Len(windows) /\ windows[i] \in Window
      BY <1>1, WindowIs DEF MaintenanceInv, WindowsOK
    <3>2. DOMAIN windows' = DOMAIN windows /\ windows'[i] = [windows[i] EXCEPT !.status = to]
      BY <2>1, <3>1
    <3>3. windows'[i].status = to
      BY <3>1, <3>2 DEF Window
    <3>. QED BY <2>1, <3>2, <3>3
  <2>3. /\ tick'[w] = Proceeds(t)
        /\ \A v \in Workers : v # w => tick'[v] = Overtakes(w)[v]
    BY <1>1, <2>1, OvertakesIs
  <2>4. \A j \in DOMAIN windows \ lost', v \in Workers : \A p :
          Holds(tick[v], j, p) => Holds(tick'[v], j, p)
    <3>1. \A j, p : ~Holds(tick[w], j, p)
      BY <1>1, ItemsAre DEF Holds
    <3>. QED BY <2>3, <3>1, OvertakenHolds
  <2>5. ASSUME NEW p \in Passed(to) PROVE p \in Passed(from) \/ ToCome(i, p)'
    <3>1. CASE Item(phases, p)
      <4>1. Holds(tick'[w], i, p)
        BY <1>7, <2>3, <3>1, ProceedsHolds
      <4>. QED BY <4>1 DEF ToCome, Holds
    <3>. QED BY <1>6, <1>9, <2>5, <3>1
  <2>6. \A j \in DOMAIN windows' \ lost' : \A p \in Passed(windows'[j].status) :
          \/ j \in DOMAIN windows /\ p \in Passed(windows[j].status)
          \/ ToCome(j, p)'
    <3>. SUFFICES ASSUME NEW j \in DOMAIN windows, NEW p \in Passed(windows'[j].status)
                  PROVE  p \in Passed(windows[j].status) \/ ToCome(j, p)'
      BY <2>2
    <3>1. CASE j = i
      BY <2>1, <2>2, <2>5, <3>1
    <3>. QED BY <2>2, <3>1
  <2>7. PhasesKept /\ announced' \in [Ids -> SUBSET Phases]
    BY <1>4 DEF PhaseInv, PhasesKept
  <2>. QED BY <1>4, <2>4, <2>6, <2>7, PhasesStay
<1>. QED BY <1>8, <1>9

\* One request changes, and no window but for its status.
LEMMA AskedStays ==
    ASSUME AskedOK, request \in [Admins -> RequestState], NEW a \in Admins, NEW r, Asks(r),
           request' = [request EXCEPT ![a] = r] \/ request' = request, clock' \in 0..MaxTime,
           DOMAIN windows' = DOMAIN windows,
           \A i \in DOMAIN windows : windows'[i].range = windows[i].range,
           lost' \subseteq DOMAIN windows, spent' \in [{"cancels", "cuts"} -> Nat]
    PROVE  AskedOK'
<1>1. \A b \in Admins : Asks(request'[b])
  BY DEF AskedOK
<1>. QED BY <1>1 DEF AskedOK, Asks

LEMMA NoRequestAsks == Asks(NoRequest)
BY NoRequestIsIdle DEF Asks, NoRequest

LEMMA SpendIs ==
    ASSUME AskedOK, NEW what \in {"cancels", "cuts"}, NEW max, Spend(what, max)
    PROVE  spent' \in [{"cancels", "cuts"} -> Nat] /\ spent' # spent
<1>1. spent' = [spent EXCEPT ![what] = spent[what] + 1] /\ spent[what] \in Nat
  BY DEF AskedOK, Spend
<1>. QED BY <1>1 DEF AskedOK

\* A status is written, or nothing.
LEMMA WriteKeepsRanges ==
    ASSUME WindowsOK, NEW i, NEW st,
           \/ windows' = windows
           \/ i \in DOMAIN windows /\ windows' = [windows EXCEPT ![i].status = st]
    PROVE  /\ DOMAIN windows' = DOMAIN windows
           /\ \A j \in DOMAIN windows : windows'[j].range = windows[j].range
<1>1. CASE windows' = windows
  BY <1>1
<1>2. CASE i \in DOMAIN windows /\ windows' = [windows EXCEPT ![i].status = st]
  <2>1. windows \in Seq(Window) /\ windows[i] \in Window
    BY <1>2, WindowIs DEF WindowsOK
  <2>2. /\ DOMAIN windows' = DOMAIN windows
        /\ \A j \in DOMAIN windows : j # i => windows'[j] = windows[j]
    BY <1>2
  <2>3. windows'[i].range = windows[i].range
    BY <1>2, <2>1 DEF Window
  <2>. QED BY <2>2, <2>3
<1>. QED BY <1>1, <1>2

LEMMA NextAsked ==
    ASSUME MaintenanceInv, AskedOK, [Next]_vars
    PROVE  AskedOK'
<1>0. /\ request \in [Admins -> RequestState] /\ WindowsOK
      /\ clock \in 0..MaxTime /\ lost \subseteq DOMAIN windows
      /\ spent \in [{"cancels", "cuts"} -> Nat] /\ MaxTime \in Nat
  BY MaintenanceAssumption DEF MaintenanceInv, RequestsOK, AskedOK
<1>1. ASSUME NEW a \in Admins, NEW target \in SUBSET Integrations, NEW range \in Ranges,
             Schedule(a, target, range)
      PROVE  AskedOK'
  <2>. DEFINE r == [NoRequest EXCEPT !.pc = "check", !.now = clock,
                                     !.target = target, !.range = range]
  <2>1. Asks(r)
    <3>1. r.pc = "check" /\ r.range = range /\ r.now = clock /\ r.phases = << >>
      BY DEF NoRequest
    <3>2. clock < range[2]
      BY <1>0, <1>1, MaintenanceAssumption DEF Schedule
    <3>. QED BY <3>1, <3>2 DEF Asks
  <2>2. request' = [request EXCEPT ![a] = r] /\ UNCHANGED <<clock, windows, lost, spent>>
    BY <1>1 DEF Schedule
  <2>. HIDE DEF r
  <2>. QED BY <1>0, <2>1, <2>2, AskedStays
<1>2. ASSUME NEW a \in Admins, AssertNoOverlap(a)
      PROVE  AskedOK'
  <2>. DEFINE r == [request[a] EXCEPT !.pc = "insert"]
  <2>1. Asks(r)
    <3>1. Asks(request[a]) /\ request[a] \in RequestState /\ request[a].pc = "check"
      BY <1>0, <1>2 DEF AskedOK, AssertNoOverlap
    <3>2. /\ r.pc = "insert" /\ r.range = request[a].range /\ r.now = request[a].now
          /\ r.phases = request[a].phases
      BY <3>1 DEF RequestState
    <3>. QED BY <3>1, <3>2 DEF Asks
  <2>2. UNCHANGED <<clock, windows, lost, spent>>
    BY <1>2 DEF AssertNoOverlap
  <2>3. request' = [request EXCEPT ![a] = r] \/ request' = [request EXCEPT ![a] = NoRequest]
    BY <1>2 DEF AssertNoOverlap
  <2>. HIDE DEF r
  <2>. QED BY <1>0, <2>1, <2>2, <2>3, NoRequestAsks, AskedStays
<1>3. ASSUME NEW a \in Admins, CreateMaintenanceWindow(a)
      PROVE  AskedOK'
  <2>1. PICK row : row.range = request[a].range /\ windows' = Append(windows, row)
    BY <1>3 DEF CreateMaintenanceWindow
  <2>2. UNCHANGED <<clock, lost, spent>> /\ request[a].range \in Ranges
    BY <1>0, <1>3 DEF CreateMaintenanceWindow, AskedOK, Asks
  <2>3. /\ DOMAIN windows' = DOMAIN windows \cup {Len(windows) + 1}
        /\ windows'[Len(windows) + 1] = row
        /\ \A i \in DOMAIN windows : windows'[i] = windows[i]
    BY <1>0, <2>1 DEF WindowsOK
  <2>4. \A i \in DOMAIN windows' : windows'[i].range \in Ranges
    BY <2>1, <2>2, <2>3 DEF AskedOK
  <2>5. \A b \in Admins : Asks(request'[b])
    <3>1. ASSUME NEW b \in Admins, b # a PROVE Asks(request'[b])
      <4>1. request'[b] = [request[b] EXCEPT !.overtaken =
                             request[b].overtaken \/ request[b].pc = "insert"]
        BY <1>3, <3>1, Zenon DEF CreateMaintenanceWindow
      <4>2. request[b] \in RequestState /\ Asks(request[b])
        BY <1>0 DEF AskedOK
      <4>3. /\ request'[b].pc = request[b].pc /\ request'[b].phases = request[b].phases
            /\ request'[b].range = request[b].range /\ request'[b].now = request[b].now
        BY <4>1, <4>2 DEF RequestState
      <4>. QED BY <4>2, <4>3 DEF Asks
    <3>2. request'[a].pc = "announce"
      BY <1>3 DEF CreateMaintenanceWindow, NoRequest
    <3>. QED BY <3>1, <3>2 DEF Asks
  <2>6. clock' \in 0..MaxTime /\ lost' \subseteq DOMAIN windows'
    BY <1>0, <2>2, <2>3
  <2>. QED BY <1>0, <2>2, <2>4, <2>5, <2>6 DEF AskedOK, Asks
<1>4. ASSUME NEW a \in Admins, NEW i \in DOMAIN windows, Cancel(a, i)
      PROVE  AskedOK'
  <2>. DEFINE r == [request[a] EXCEPT !.pc = "cancel", !.id = i]
  <2>1. Asks(r)
    <3>1. request[a] \in RequestState /\ request[a] = NoRequest
      BY <1>0, <1>4 DEF Cancel
    <3>2. r.pc = "cancel" /\ r.phases = << >>
      BY <3>1 DEF RequestState, NoRequest
    <3>. QED BY <3>2 DEF Asks
  <2>2. UNCHANGED <<clock, windows, lost>> /\ spent' \in [{"cancels", "cuts"} -> Nat]
    BY <1>4, SpendIs DEF Cancel
  <2>3. request' = [request EXCEPT ![a] = r]
    BY <1>0, <1>4 DEF Cancel, RequestState
  <2>. HIDE DEF r
  <2>. QED BY <1>0, <2>1, <2>2, <2>3, AskedStays
<1>5. ASSUME NEW a \in Admins, CancelWindow(a)
      PROVE  AskedOK'
  <2>1. /\ request[a].id \in DOMAIN windows
        /\ request' = [request EXCEPT ![a] = NoRequest] /\ UNCHANGED <<clock, lost, spent>>
        /\ \/ windows' = windows
           \/ windows' = [windows EXCEPT ![request[a].id].status = "cancelled"]
    BY <1>5 DEF MaintenanceInv, RequestsOK, RequestOK, CancelWindow
  <2>2. /\ DOMAIN windows' = DOMAIN windows
        /\ \A j \in DOMAIN windows : windows'[j].range = windows[j].range
    BY <1>0, <2>1, WriteKeepsRanges
  <2>. QED BY <1>0, <2>1, <2>2, NoRequestAsks, AskedStays
<1>6. ASSUME NEW a \in Admins, FanOutInRequest(a)
      PROVE  AskedOK'
  <2>. DEFINE r == [request[a] EXCEPT !.phases = Tail(request[a].phases)]
  <2>1. Asks(r)
    <3>1. request[a] \in RequestState /\ request[a].pc = "announce"
      BY <1>0, <1>6 DEF FanOutInRequest, FanOut
    <3>2. r.pc = "announce"
      BY <3>1 DEF RequestState
    <3>. QED BY <3>2 DEF Asks
  <2>2. UNCHANGED <<clock, windows, lost, spent>>
    BY <1>6 DEF FanOutInRequest
  <2>3. request' = [request EXCEPT ![a] = r] \/ request' = [request EXCEPT ![a] = NoRequest]
    BY <1>6 DEF FanOutInRequest
  <2>. HIDE DEF r
  <2>. QED BY <1>0, <2>1, <2>2, <2>3, NoRequestAsks, AskedStays
<1>7. ASSUME NEW a \in Admins, RequestCut(a)
      PROVE  AskedOK'
  <2>1. /\ request' = [request EXCEPT ![a] = NoRequest] /\ UNCHANGED <<clock, windows>>
        /\ lost' = lost \cup {request[a].id} /\ request[a].id \in DOMAIN windows
    BY <1>7 DEF RequestCut, MaintenanceInv, RequestsOK, RequestOK
  <2>2. spent' \in [{"cancels", "cuts"} -> Nat]
    BY <1>7, SpendIs DEF RequestCut
  <2>. QED BY <1>0, <2>1, <2>2, NoRequestAsks, AskedStays
<1>8. ASSUME NEW w \in Workers, TickCut(w)
      PROVE  AskedOK'
  <2>1. UNCHANGED <<clock, windows, request>> /\ lost' \subseteq DOMAIN windows
    BY <1>0, <1>8, TickIs DEF TickCut
  <2>2. spent' \in [{"cancels", "cuts"} -> Nat]
    BY <1>8, SpendIs DEF TickCut
  <2>. QED BY <1>0, <2>1, <2>2 DEF AskedOK, Asks
<1>9. ASSUME NEW w \in Workers, NEW i \in DOMAIN tick[w].todo, UpdateStatus(w, i)
      PROVE  AskedOK'
  <2>1. /\ i \in DOMAIN windows /\ UNCHANGED <<clock, request, lost, spent>>
        /\ \/ windows' = windows
           \/ windows' = [windows EXCEPT ![i].status = Desired(w, i, tick[w].todo[i])]
    BY <1>9 DEF UpdateStatus, MaintenanceInv, TicksOK, TickOK
  <2>2. /\ DOMAIN windows' = DOMAIN windows
        /\ \A j \in DOMAIN windows : windows'[j].range = windows[j].range
    BY <1>0, <2>1, WriteKeepsRanges
  <2>. QED BY <1>0, <2>1, <2>2 DEF AskedOK, Asks
<1>10. CASE TimePasses
  <2>1. clock' \in 0..MaxTime /\ UNCHANGED <<windows, request, lost, spent>>
    BY <1>0, <1>10 DEF TimePasses
  <2>. QED BY <2>1 DEF AskedOK, Asks
<1>11. ASSUME NEW w \in Workers, BeginTick(w) \/ ListNonTerminal(w) \/ FanOutInTick(w)
       PROVE  UNCHANGED <<clock, windows, request, lost, spent>>
  BY <1>11 DEF BeginTick, ListNonTerminal, FanOutInTick
<1>12. UNCHANGED vars => UNCHANGED <<clock, windows, request, lost, spent>>
  BY DEF vars
<1>13. UNCHANGED <<clock, windows, request, lost, spent>> => AskedOK'
  BY DEF AskedOK, Asks
<1>. QED BY <1>1, <1>2, <1>3, <1>4, <1>5, <1>6, <1>7, <1>8, <1>9, <1>10, <1>11, <1>12, <1>13
         DEF Next, TickStep

LEMMA NextPhases ==
    ASSUME MaintenanceInv, PhaseInv, [Next]_vars
    PROVE  PhaseInv'
<1>1. AskedOK'
  BY NextAsked DEF PhaseInv
<1>2. ASSUME NEW a \in Admins, NEW target \in SUBSET Integrations, NEW range \in Ranges,
             Schedule(a, target, range)
      PROVE  PhasesKept'
  <2>1. /\ request[a].pc # "announce" /\ UNCHANGED <<announced, lost, windows, tick>>
        /\ request' = [request EXCEPT ![a] = [NoRequest EXCEPT !.pc = "check", !.now = clock,
                                            !.target = target, !.range = range]]
    BY <1>2, NoRequestIsIdle DEF Schedule, historyVars
  <2>. QED BY <2>1, QuietRequest
<1>3. ASSUME NEW a \in Admins, AssertNoOverlap(a)
      PROVE  PhasesKept'
  <2>1. /\ request[a].pc # "announce" /\ UNCHANGED <<announced, lost, windows, tick>>
        /\ \/ request' = [request EXCEPT ![a] = NoRequest]
           \/ request' = [request EXCEPT ![a] = [request[a] EXCEPT !.pc = "insert"]]
    BY <1>3 DEF AssertNoOverlap, historyVars
  <2>. QED BY <2>1, QuietRequest
<1>4. ASSUME NEW a \in Admins, NEW i \in DOMAIN windows, Cancel(a, i)
      PROVE  PhasesKept'
  <2>1. /\ request[a].pc # "announce" /\ UNCHANGED <<announced, lost, windows, tick>>
        /\ request' = [request EXCEPT ![a] = [request[a] EXCEPT !.pc = "cancel", !.id = i]]
    BY <1>4, NoRequestIsIdle DEF Cancel, historyVars, MaintenanceInv, RequestsOK, RequestState
  <2>. QED BY <2>1, QuietRequest
<1>5. ASSUME NEW a \in Admins, CancelWindow(a)
      PROVE  PhasesKept'
  <2>. DEFINE i == request[a].id
  <2>1. /\ request[a].pc # "announce" /\ UNCHANGED <<announced, lost>> /\ tick' = Overtakes(a)
        /\ request' = [request EXCEPT ![a] = NoRequest] /\ i \in DOMAIN windows
        /\ windows \in Seq(Window)
    BY <1>5 DEF CancelWindow, historyVars, MaintenanceInv, RequestsOK, RequestOK, WindowsOK
  <2>2. /\ DOMAIN windows' = DOMAIN windows
        /\ \A j \in DOMAIN windows :
             windows'[j] = windows[j] \/ windows'[j].status = "cancelled"
    <3>1. CASE windows' = windows
      BY <3>1
    <3>2. CASE windows' = [windows EXCEPT ![i] = [windows[i] EXCEPT !.status = "cancelled"]]
      <4>1. windows[i] \in Window
        BY <2>1
      <4>2. windows'[i].status = "cancelled"
        BY <2>1, <3>2, <4>1 DEF Window
      <4>. QED BY <2>1, <3>2, <4>2
    <3>. QED BY <1>5, <3>1, <3>2 DEF CancelWindow
  <2>3. Passed("cancelled") = {}
    BY DEF Passed
  <2>4. \A j \in DOMAIN windows :
          Passed(windows'[j].status) \subseteq Passed(windows[j].status)
    BY <2>2, <2>3
  <2>. QED BY <2>1, <2>2, <2>4, QuietRequest
<1>6. ASSUME NEW w \in Workers, BeginTick(w)
      PROVE  PhasesKept'
  <2>1. /\ tick[w].phases = << >> /\ UNCHANGED <<windows, request, announced, lost>>
        /\ tick' = [tick EXCEPT ![w] = [tick[w] EXCEPT !.pc = "list", !.now = clock]]
    BY <1>6, TickIs DEF BeginTick, historyVars
  <2>. QED BY <2>1, QuietTick
<1>7. ASSUME NEW w \in Workers, ListNonTerminal(w)
      PROVE  PhasesKept'
  <2>1. tick[w].phases = << >> /\ UNCHANGED <<windows, request, announced, lost>>
    BY <1>7, TickIs DEF ListNonTerminal, historyVars
  <2>2. PICK t : tick' = [tick EXCEPT ![w] = t]
    BY <1>7 DEF ListNonTerminal
  <2>. QED BY <2>1, <2>2, QuietTick
<1>8. ASSUME UNCHANGED <<windows, request, tick, announced, lost>>
      PROVE  PhasesKept'
  BY <1>8 DEF PhaseInv, PhasesKept, ToCome, Holds
<1>9. TimePasses \/ UNCHANGED vars => UNCHANGED <<windows, request, tick, announced, lost>>
  BY DEF TimePasses, vars, historyVars
<1>10. PhasesKept'
  BY <1>2, <1>3, <1>4, <1>5, <1>6, <1>7, <1>8, <1>9, CreatePhases, FanOutInRequestPhases,
     RequestCutPhases, UpdateStatusPhases, FanOutInTickPhases, TickCutPhases DEF Next, TickStep
<1>. QED BY <1>1, <1>10 DEF PhaseInv

LEMMA InitPhases == Init => PhaseInv
<1>. SUFFICES ASSUME Init PROVE PhaseInv
  OBVIOUS
<1>1. AskedOK
  BY NoRequestAsks, MaintenanceAssumption DEF Init, AskedOK
<1>2. PhasesKept
  BY DEF Init, PhasesKept
<1>. QED BY <1>1, <1>2 DEF PhaseInv

LEMMA ElementsAre ==
    ASSUME NEW S, NEW T, NEW s \in Seq(T), \A i \in 1..Len(s) : s[i] \in S
    PROVE  s \in Seq(S)
OBVIOUS

\* The windows, the requests and the ticks keep their types, and whoever
\* announces something has something to announce, of a window that exists.
THEOREM MaintenanceTypes == Spec => []TypeOK
<1>1. ASSUME MaintenanceInv, PhaseInv PROVE TypeOK
  <2>1. /\ clock \in 0..MaxTime /\ lost \subseteq DOMAIN windows /\ Len(windows) <= MaxWindows
    BY <1>1 DEF PhaseInv, AskedOK, MaintenanceInv, WindowsOK
  <2>2. windows \in Seq([target : SUBSET Integrations, range : Ranges, status : Statuses])
    <3>1. windows \in Seq(Window)
      BY <1>1 DEF MaintenanceInv, WindowsOK
    <3>2. ASSUME NEW i \in 1..Len(windows)
          PROVE  windows[i] \in [target : SUBSET Integrations, range : Ranges, status : Statuses]
      <4>1. windows[i] \in Window /\ windows[i].range \in Ranges
        BY <1>1, <3>1 DEF PhaseInv, AskedOK
      <4>. QED BY <4>1 DEF Window
    <3>. QED BY <3>1, <3>2, ElementsAre
  <2>3. ASSUME NEW a \in Admins
        PROVE  /\ request[a].pc \in {"idle", "check", "insert", "announce", "cancel"}
               /\ request[a].pc \in {"announce", "cancel"} => request[a].id \in DOMAIN windows
               /\ (request[a].pc = "announce") = (request[a].phases # << >>)
    <3>1. /\ request[a] \in RequestState /\ RequestOK(request[a], windows, clock)
          /\ Asks(request[a])
      BY <1>1 DEF MaintenanceInv, RequestsOK, PhaseInv, AskedOK
    <3>2. (request[a].pc = "announce") <=> (request[a].phases # << >>)
      BY <3>1 DEF RequestOK, Asks
    <3>3. request[a].pc \in {"idle", "check", "insert", "announce", "cancel"}
      BY <3>1 DEF RequestState
    <3>. QED BY <3>1, <3>2, <3>3 DEF RequestOK
  <2>4. ASSUME NEW w \in Workers
        PROVE  /\ tick[w].pc \in {"idle", "list", "walk", "announce"}
               /\ DOMAIN tick[w].todo \subseteq DOMAIN windows
               /\ (tick[w].pc = "announce") = (tick[w].phases # << >>)
               /\ tick[w].now <= clock
    <3>1. tick[w] \in TickState /\ TickOK(tick[w], windows, clock)
      BY <1>1 DEF MaintenanceInv, TicksOK
    <3>2. tick[w].pc \in {"idle", "list", "walk", "announce"}
      BY <3>1 DEF TickState
    <3>. QED BY <3>1, <3>2 DEF TickOK
  <2>. QED BY <2>1, <2>2, <2>3, <2>4 DEF TypeOK
<1>2. MaintenanceInv /\ PhaseInv /\ [Next]_vars => MaintenanceInv' /\ PhaseInv'
  BY NextMaintenance, NextPhases
<1>. QED BY <1>1, <1>2, InitMaintenance, InitPhases, PTL DEF Spec

\* maintenance.ts, the tick: when a window is over and nobody is announcing
\* anything of it, all its phases have been announced, also when no tick ever
\* saw it active, unless a fan-out of it was cut.
THEOREM PhasesAnnounced == Spec => []EveryPhaseAnnounced
<1>1. ASSUME MaintenanceInv, PhaseInv PROVE EveryPhaseAnnounced
  <2>. SUFFICES ASSUME NEW i \in DOMAIN windows \ lost, windows[i].status = "completed",
                       ~InProgress(i)
                PROVE  announced[i] = Phases
    BY DEF EveryPhaseAnnounced
  <2>1. \A p : ~ToCome(i, p)
    BY DEF ToCome, Holds, InProgress
  <2>2. Phases \subseteq announced[i]
    BY <1>1, <2>1 DEF PhaseInv, PhasesKept, Passed
  <2>3. i \in Ids
    BY <1>1, WindowIs DEF MaintenanceInv
  <2>. QED BY <1>1, <2>2, <2>3 DEF PhaseInv, PhasesKept
<1>2. MaintenanceInv /\ PhaseInv /\ [Next]_vars => MaintenanceInv' /\ PhaseInv'
  BY NextMaintenance, NextPhases
<1>. QED BY <1>1, <1>2, InitMaintenance, InitPhases, PTL DEF Spec
-----------------------------------------------------------------------------
(***************************************************************************)
(* What a tick leaves behind.  A tick that nobody has overtaken knows the  *)
(* status of the windows it has still to write, and of those that were     *)
(* over when it began it has left none out.                                *)
(***************************************************************************)
Knows(t, ws) ==
    \A i \in DOMAIN ws :
        /\ i \in DOMAIN t.todo => t.todo[i] = ws[i].status
        /\ t.now >= ws[i].range[2] => Terminal(ws[i]) \/ i \in DOMAIN t.todo

Walks(t, ws) == t.pc \in {"walk", "announce"} => t.overtaken = TRUE \/ Knows(t, ws)

WalksOK == \A w \in Workers : Walks(tick[w], windows)

NoneBehind(now, ws) ==
    \A i \in DOMAIN ws : now >= ws[i].range[2] => Terminal(ws[i])

\* The step of TickLeavesNoneBehind, for one worker and for all.
Leaves(w) ==
    tick[w].pc # "idle" /\ tick'[w].pc = "idle" /\ ~tick[w].overtaken /\ spent' = spent
    => \A i \in DOMAIN windows :
         tick[w].now >= windows[i].range[2] => Terminal(windows'[i])

NoneLeft ==
    \A w \in Workers :
         /\ tick[w].pc # "idle" /\ tick'[w].pc = "idle"
         /\ ~tick[w].overtaken
         /\ spent' = spent
         => \A i \in DOMAIN windows :
              tick[w].now >= windows[i].range[2] => Terminal(windows'[i])

\* A tick ends only when it has nothing left to do.
LEMMA ProceedsWalks ==
    ASSUME NEW t \in TickState, NEW ws, t.overtaken = TRUE \/ Knows(t, ws)
    PROVE  /\ Walks(Proceeds(t), ws)
           /\ Proceeds(t).pc = "idle" => t.overtaken = TRUE \/ NoneBehind(t.now, ws)
<1>1. CASE Proceeds(t) = NoTick
  <2>1. t.phases = << >> /\ t.todo = Nothing
    <3>1. NoTick.pc = "idle"
      BY NoTickIsIdle
    <3>2. CASE t.phases # << >>
      BY <1>1, <3>1, <3>2, ProceedsIs
    <3>3. CASE t.phases = << >> /\ t.todo # Nothing
      <4>1. Proceeds(t) = [t EXCEPT !.pc = "walk", !.id = 0]
        BY <3>3, Zenon DEF Proceeds
      <4>2. Proceeds(t).pc = "walk"
        BY <4>1 DEF TickState
      <4>. QED BY <1>1, <3>1, <4>2
    <3>. QED BY <3>2, <3>3
  <2>2. DOMAIN t.todo = {}
    BY <2>1, NothingIsListed
  <2>. QED BY <1>1, <2>2, NoTickIsIdle DEF Walks, Knows, NoneBehind
<1>2. CASE /\ Proceeds(t).pc \in {"walk", "announce"}
           /\ Proceeds(t).now = t.now /\ Proceeds(t).todo = t.todo
           /\ Proceeds(t).phases = t.phases /\ Proceeds(t).overtaken = t.overtaken
  BY <1>2 DEF Walks, Knows
<1>. QED BY <1>1, <1>2, ProceedsIs

\* One tick takes a step, and nobody else is concerned.
LEMMA OneWalks ==
    ASSUME MaintenanceInv, WalksOK, NEW w \in Workers, NEW t, windows' = windows,
           tick' = [tick EXCEPT ![w] = t], Walks(t, windows),
           t.pc = "idle" => \/ tick[w].pc = "idle" \/ spent' # spent
                            \/ tick[w].overtaken \/ NoneBehind(tick[w].now, windows)
    PROVE  WalksOK' /\ \A v \in Workers : Leaves(v)
<1>1. tick'[w] = t /\ \A v \in Workers : v # w => tick'[v] = tick[v]
  BY TickIs
<1>2. WalksOK'
  BY <1>1 DEF WalksOK, Walks, Knows
<1>3. Leaves(w)
  BY <1>1 DEF Leaves, NoneBehind
<1>. QED BY <1>1, <1>2, <1>3 DEF Leaves

\* A request that writes has overtaken every tick.
LEMMA RequestWalks ==
    ASSUME MaintenanceInv, NEW a \in Admins, tick' = Overtakes(a)
    PROVE  WalksOK' /\ \A v \in Workers : Leaves(v)
<1>1. ASSUME NEW v \in Workers
      PROVE  /\ tick'[v].pc = "idle" \/ tick'[v].overtaken = TRUE
             /\ tick'[v].pc = tick[v].pc
  <2>1. v # a /\ tick \in [Workers -> TickState]
    BY MaintenanceAssumption, TickIs
  <2>. QED BY <2>1, OvertakesIs
<1>. QED BY <1>1 DEF WalksOK, Walks, Knows, Leaves

LEMMA ListWalks ==
    ASSUME MaintenanceInv, WalksOK, NEW w \in Workers, ListNonTerminal(w)
    PROVE  WalksOK' /\ \A v \in Workers : Leaves(v)
<1>. DEFINE moving == {i \in NonTerminal : Desired(w, i, windows[i].status) # windows[i].status}
            todo == [i \in moving |-> windows[i].status]
            t == [tick[w] EXCEPT !.todo = todo]
<1>1. tick[w] \in TickState /\ tick[w].now \in Nat
  BY TickIs DEF TickState
<1>2. todo \in Listed /\ DOMAIN todo = moving
  <2>1. moving \in SUBSET Nat
    BY DEF NonTerminal, MaintenanceInv, WindowsOK
  <2>2. \A i \in moving : windows[i].status \in {"scheduled", "active"}
    BY WindowIs DEF NonTerminal, Terminal, MaintenanceInv, Statuses
  <2>. HIDE DEF moving
  <2>3. todo \in [moving -> {"scheduled", "active"}]
    BY <2>2
  <2>. QED BY <2>1, <2>3, ListedIs
<1>3. ASSUME NEW i \in DOMAIN windows, tick[w].now >= windows[i].range[2], ~Terminal(windows[i])
      PROVE  i \in moving
  <2>1. Desired(w, i, windows[i].status) = "completed"
    BY <1>3 DEF Desired, Derive, Terminal
  <2>. QED BY <1>3, <2>1 DEF NonTerminal, Terminal
<1>4. tick' = [tick EXCEPT ![w] = Proceeds(t)] /\ windows' = windows
  BY DEF ListNonTerminal
<1>5. \A i \in moving : todo[i] = windows[i].status
  OBVIOUS
<1>. HIDE DEF moving, todo
<1>6. /\ t \in TickState /\ t.todo = todo
      /\ t.now = tick[w].now /\ t.overtaken = tick[w].overtaken
  BY <1>1, <1>2 DEF TickState
<1>7. Knows(t, windows)
  BY <1>2, <1>3, <1>5, <1>6 DEF Knows
<1>. HIDE DEF t
<1>8. /\ Walks(Proceeds(t), windows)
      /\ Proceeds(t).pc = "idle" => tick[w].overtaken \/ NoneBehind(tick[w].now, windows)
  BY <1>6, <1>7, ProceedsWalks
<1>. QED BY <1>4, <1>8, OneWalks

LEMMA FanOutInTickWalks ==
    ASSUME MaintenanceInv, WalksOK, NEW w \in Workers, FanOutInTick(w)
    PROVE  WalksOK' /\ \A v \in Workers : Leaves(v)
<1>. DEFINE t == [tick[w] EXCEPT !.phases = Tail(tick[w].phases)]
<1>1. /\ tick[w] \in TickState /\ tick[w].pc = "announce" /\ windows' = windows
      /\ tick' = [tick EXCEPT ![w] = Proceeds(t)] /\ tick[w].phases \in TickPhases \ {<< >>}
  BY TickIs DEF FanOutInTick, FanOut, TickState
<1>2. Tail(tick[w].phases) \in TickPhases
  <2>1. /\ Tail(<<"starting">>) = << >> /\ Tail(<<"completed">>) = << >>
        /\ Tail(<<"starting", "completed">>) = <<"completed">>
    OBVIOUS
  <2>. QED BY <1>1, <2>1 DEF TickPhases
<1>3. /\ t \in TickState /\ t.todo = tick[w].todo
      /\ t.now = tick[w].now /\ t.overtaken = tick[w].overtaken
  BY <1>1, <1>2 DEF TickState
<1>. HIDE DEF t
<1>4. t.overtaken = TRUE \/ Knows(t, windows)
  BY <1>1, <1>3 DEF WalksOK, Walks, Knows
<1>5. /\ Walks(Proceeds(t), windows)
      /\ Proceeds(t).pc = "idle" => tick[w].overtaken \/ NoneBehind(tick[w].now, windows)
  BY <1>3, <1>4, ProceedsWalks
<1>. QED BY <1>1, <1>5, OneWalks

\* The tick completes what was over, and has overtaken the others.
LEMMA UpdateStatusWalks ==
    ASSUME MaintenanceInv, WalksOK, NEW w \in Workers, NEW i \in DOMAIN tick[w].todo,
           UpdateStatus(w, i)
    PROVE  WalksOK' /\ \A v \in Workers : Leaves(v)
<1>. DEFINE from == tick[w].todo[i]
            to == Desired(w, i, from)
            phases == IF StillIn(i, from) THEN PhasesOf(from, to) ELSE << >>
            t == [tick[w] EXCEPT !.todo = Without(tick[w].todo, i), !.id = i, !.phases = phases]
<1>1. /\ tick \in [Workers -> TickState] /\ tick[w] \in TickState /\ tick[w].pc = "walk"
      /\ tick[w].todo \in Listed /\ i \in DOMAIN windows
      /\ tick[w].now \in Nat /\ windows[i].range \in Nat \X Nat
      /\ tick[w].overtaken = TRUE \/ Knows(tick[w], windows)
  BY TickIs, WindowIs
     DEF UpdateStatus, TickState, MaintenanceInv, TicksOK, TickOK, WalksOK, Walks
<1>2. from \in {"scheduled", "active"}
  BY <1>1, ListedHas
<1>3. tick[w].now >= windows[i].range[2] => to = "completed"
  BY <1>2 DEF Desired, Derive
<1>4. /\ windows' = IF StillIn(i, from) THEN [windows EXCEPT ![i].status = to] ELSE windows
      /\ tick' = [(IF StillIn(i, from) THEN Overtakes(w) ELSE tick) EXCEPT ![w] = Proceeds(t)]
  BY DEF UpdateStatus
<1>. HIDE DEF to
<1>5. phases \in TickPhases
  BY DEF PhasesOf, TickPhases
<1>. HIDE DEF phases
<1>6. /\ Without(tick[w].todo, i) \in Listed /\ i \in Nat
      /\ DOMAIN Without(tick[w].todo, i) = DOMAIN tick[w].todo \ {i}
      /\ \A j \in DOMAIN tick[w].todo \ {i} : Without(tick[w].todo, i)[j] = tick[w].todo[j]
  <2>1. PICK S \in SUBSET Nat : tick[w].todo \in [S -> {"scheduled", "active"}]
    BY <1>1 DEF Listed
  <2>2. Without(tick[w].todo, i) \in [S \ {i} -> {"scheduled", "active"}]
    BY <2>1 DEF Without
  <2>3. Without(tick[w].todo, i) \in Listed
    BY <2>1, <2>2, ListedIs
  <2>. QED BY <2>1, <2>3 DEF Without
<1>7. /\ t \in TickState /\ t.todo = Without(tick[w].todo, i)
      /\ t.now = tick[w].now /\ t.overtaken = tick[w].overtaken
  BY <1>1, <1>5, <1>6 DEF TickState
<1>. HIDE DEF t
<1>8. CASE ~StillIn(i, from)
  <2>1. windows' = windows /\ tick' = [tick EXCEPT ![w] = Proceeds(t)]
    BY <1>4, <1>8
  <2>2. tick[w].overtaken = TRUE
    BY <1>1, <1>8 DEF StillIn, Knows
  <2>3. Walks(Proceeds(t), windows)
    BY <1>7, <2>2, ProceedsWalks
  <2>. QED BY <2>1, <2>2, <2>3, OneWalks
<1>9. CASE StillIn(i, from)
  <2>1. /\ windows' = [windows EXCEPT ![i].status = to]
        /\ tick' = [Overtakes(w) EXCEPT ![w] = Proceeds(t)]
    BY <1>4, <1>9
  <2>2. /\ DOMAIN windows' = DOMAIN windows
        /\ windows'[i].status = to /\ windows'[i].range = windows[i].range
        /\ \A j \in DOMAIN windows : j # i => windows'[j] = windows[j]
    <3>1. windows \in Seq(Window) /\ i \in 1..Len(windows) /\ windows[i] \in Window
      BY <1>1, WindowIs DEF MaintenanceInv, WindowsOK
    <3>2. DOMAIN windows' = DOMAIN windows /\ windows'[i] = [windows[i] EXCEPT !.status = to]
      BY <2>1, <3>1
    <3>3. windows'[i].status = to /\ windows'[i].range = windows[i].range
      BY <3>1, <3>2 DEF Window
    <3>. QED BY <2>1, <3>2, <3>3
  <2>3. ASSUME Knows(tick[w], windows) PROVE Knows(t, windows')
    <3>. SUFFICES ASSUME NEW j \in DOMAIN windows
                  PROVE  /\ j \in DOMAIN t.todo => t.todo[j] = windows'[j].status
                         /\ t.now >= windows'[j].range[2] =>
                              Terminal(windows'[j]) \/ j \in DOMAIN t.todo
      BY <2>2 DEF Knows
    <3>1. CASE j = i
      BY <1>3, <1>6, <1>7, <2>2, <3>1 DEF Terminal
    <3>2. CASE j # i
      BY <1>6, <1>7, <2>2, <2>3, <3>2 DEF Knows
    <3>. QED BY <3>1, <3>2
  <2>4. /\ Walks(Proceeds(t), windows')
        /\ Proceeds(t).pc = "idle" => tick[w].overtaken = TRUE \/ NoneBehind(t.now, windows')
    BY <1>1, <1>7, <2>3, ProceedsWalks
  <2>5. tick'[w] = Proceeds(t)
    BY <1>1, <2>1, OvertakesIs
  <2>6. ASSUME NEW v \in Workers, v # w
        PROVE  /\ tick'[v].pc = "idle" \/ tick'[v].overtaken = TRUE
               /\ tick'[v].pc = tick[v].pc
    <3>1. tick'[v] = Overtakes(w)[v]
      BY <1>1, <2>1, <2>6, OvertakesIs
    <3>2. /\ Overtakes(w)[v].pc = tick[v].pc
          /\ tick[v].pc = "idle" \/ Overtakes(w)[v].overtaken = TRUE
      BY <1>1, <2>6, OvertakesIs
    <3>. QED BY <3>1, <3>2
  <2>7. WalksOK'
    BY <2>4, <2>5, <2>6 DEF WalksOK, Walks, Knows
  <2>8. Leaves(w)
    BY <1>7, <2>2, <2>4, <2>5 DEF Leaves, NoneBehind
  <2>. QED BY <2>6, <2>7, <2>8 DEF Leaves
<1>. QED BY <1>8, <1>9

LEMMA NextWalks ==
    ASSUME MaintenanceInv, PhaseInv, WalksOK, [Next]_vars
    PROVE  WalksOK' /\ \A v \in Workers : Leaves(v)
<1>1. ASSUME NEW w \in Workers, BeginTick(w)
      PROVE  WalksOK' /\ \A v \in Workers : Leaves(v)
  <2>1. [tick[w] EXCEPT !.pc = "list", !.now = clock].pc = "list"
    BY TickIs DEF TickState
  <2>2. windows' = windows /\ tick' = [tick EXCEPT ![w] = [tick[w] EXCEPT !.pc = "list", !.now = clock]]
    BY <1>1, TickIs DEF BeginTick
  <2>. QED BY <2>1, <2>2, OneWalks DEF Walks
<1>2. ASSUME NEW w \in Workers, TickCut(w)
      PROVE  WalksOK' /\ \A v \in Workers : Leaves(v)
  <2>1. spent' # spent
    BY <1>2, SpendIs DEF TickCut, PhaseInv
  <2>2. Walks(NoTick, windows)
    BY NoTickIsIdle DEF Walks
  <2>3. windows' = windows /\ tick' = [tick EXCEPT ![w] = NoTick]
    BY <1>2 DEF TickCut
  <2>. QED BY <2>1, <2>2, <2>3, OneWalks
<1>3. ASSUME UNCHANGED <<windows, tick>>
      PROVE  WalksOK' /\ \A v \in Workers : Leaves(v)
  BY <1>3 DEF WalksOK, Walks, Knows, Leaves
<1>4. ASSUME NEW a \in Admins, CreateMaintenanceWindow(a) \/ CancelWindow(a)
      PROVE  tick' = Overtakes(a)
  BY <1>4 DEF CreateMaintenanceWindow, CancelWindow
<1>5. ASSUME NEW a \in Admins, FanOutInRequest(a) \/ RequestCut(a) \/ AssertNoOverlap(a)
      PROVE  UNCHANGED <<windows, tick>>
  BY <1>5 DEF FanOutInRequest, RequestCut, AssertNoOverlap
<1>6. ASSUME NEW a \in Admins, NEW target \in SUBSET Integrations, NEW range \in Ranges,
             Schedule(a, target, range)
      PROVE  UNCHANGED <<windows, tick>>
  BY <1>6 DEF Schedule
<1>7. ASSUME NEW a \in Admins, NEW i \in DOMAIN windows, Cancel(a, i)
      PROVE  UNCHANGED <<windows, tick>>
  BY <1>7 DEF Cancel
<1>8. TimePasses \/ UNCHANGED vars => UNCHANGED <<windows, tick>>
  BY DEF TimePasses, vars
<1>. QED BY <1>1, <1>2, <1>3, <1>4, <1>5, <1>6, <1>7, <1>8, RequestWalks, ListWalks,
            FanOutInTickWalks, UpdateStatusWalks DEF Next, TickStep

\* maintenance.ts, the tick: a tick that runs to its end, and during which
\* nobody else wrote a window, leaves none behind that was over when it began.
THEOREM TickIsThorough == Spec => TickLeavesNoneBehind
<1>1. Init => WalksOK
  BY NoTickIsIdle DEF Init, WalksOK, Walks
<1>2. MaintenanceInv /\ PhaseInv /\ WalksOK /\ [Next]_vars =>
        /\ MaintenanceInv' /\ PhaseInv' /\ WalksOK'
        /\ [NoneLeft]_<<tick, spent>>
  <2>1. (\A v \in Workers : Leaves(v)) => NoneLeft
    BY DEF Leaves, NoneLeft
  <2>. QED BY <2>1, NextMaintenance, NextPhases, NextWalks
<1>. QED BY <1>1, <1>2, InitMaintenance, InitPhases, PTL
         DEF Spec, TickLeavesNoneBehind, NoneLeft
=============================================================================
