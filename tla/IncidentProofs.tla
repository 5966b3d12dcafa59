--------------------------- MODULE IncidentProofs ---------------------------
(***************************************************************************)
(* The incident table for any number of workers, handlers, events and      *)
(* integrations, lost events, crashes and fan-outs that throw: it is the   *)
(* log that IncidentLedger promises, each recovery is announced by the one *)
(* handler that resolved the incident, and the table follows the last      *)
(* status published, as far as every event found somebody to handle it     *)
(* undisturbed.                                                            *)
(***************************************************************************)
EXTENDS IncidentEngine, InboxProofs

HandlerState ==
    [pc : HandlerSteps, worker : Workers \cup {NoWorker}, svc : Services \cup {"none"},
     down : BOOLEAN, event : Nat, incident : Nat, todo : SUBSET Users]

\* The table, and handlers that are at work on an integration of the model.
TableOK ==
    /\ incidents \in Seq(Incident)
    /\ recoveries \in Seq(Nat) /\ Len(recoveries) = Len(incidents)

HandlersOK ==
    /\ handler \in [Handlers -> HandlerState]
    /\ down \in [Services -> BOOLEAN] /\ published \in Nat
    /\ \A h \in Handlers : Busy(h) => handler[h].svc \in Services
    /\ \A h \in Handlers :
         handler[h].pc = "resolve" => handler[h].incident \in DOMAIN incidents

IncidentInv == TableOK /\ HandlersOK /\ RecoveryAnnouncedOnce

LEMMA NoHandlerIsIdle == NoHandler \in HandlerState /\ NoHandler.pc = "idle"
BY DEF NoHandler, HandlerState, HandlerSteps, NoEvent

LEMMA InitIncidents == Init => IncidentInv
<1>. SUFFICES ASSUME Init PROVE IncidentInv
  OBVIOUS
<1>1. TableOK /\ RecoveryAnnouncedOnce
  BY DEF Init, TableOK, RecoveryAnnouncedOnce
<1>2. HandlersOK
  BY NoHandlerIsIdle DEF Init, HandlersOK, Busy
<1>. QED BY <1>1, <1>2 DEF IncidentInv

(***************************************************************************)
(* Handlers.  A step of one of them leaves it in a state s in which, if it *)
(* is to resolve an incident, the incident exists; no incident goes.       *)
(***************************************************************************)
LEMMA HandlerStep ==
    ASSUME HandlersOK, NEW h \in Handlers, NEW s \in HandlerState,
           s.pc # "idle" => Busy(h) /\ s.svc = handler[h].svc,
           s.pc = "resolve" => s.incident \in DOMAIN incidents,
           handler' = [handler EXCEPT ![h] = s],
           DOMAIN incidents \subseteq DOMAIN incidents',
           UNCHANGED <<down, published>>
    PROVE  HandlersOK'
BY DEF HandlersOK, Busy

LEMMA HandlerGoesTo ==
    ASSUME HandlersOK, NEW h \in Handlers, Busy(h),
           NEW pc \in HandlerSteps \ {"resolve"}, Goto(h, pc),
           DOMAIN incidents \subseteq DOMAIN incidents', UNCHANGED <<down, published>>
    PROVE  HandlersOK'
<1>1. handler[h] \in HandlerState
  BY DEF HandlersOK
<1>2. [handler[h] EXCEPT !.pc = pc] \in HandlerState
  BY <1>1 DEF HandlerState
<1>3. handler' = [handler EXCEPT ![h] = [handler[h] EXCEPT !.pc = pc]]
  BY DEF Goto
<1>. QED BY <1>1, <1>2, <1>3, HandlerStep DEF HandlerState

LEMMA HandlerReturns ==
    ASSUME HandlersOK, NEW h \in Handlers, Returns(h),
           DOMAIN incidents \subseteq DOMAIN incidents', UNCHANGED <<down, published>>
    PROVE  HandlersOK'
BY NoHandlerIsIdle, HandlerStep DEF Returns

LEMMA HandlerAnnounces ==
    ASSUME HandlersOK, NEW h \in Handlers, Busy(h), NEW i \in Nat, Announces(h, i),
           DOMAIN incidents \subseteq DOMAIN incidents', UNCHANGED <<down, published>>
    PROVE  HandlersOK'
<1>1. handler[h] \in HandlerState
  BY DEF HandlersOK
<1>2. [handler[h] EXCEPT !.pc = "tell", !.incident = i, !.todo = Users] \in HandlerState
  BY <1>1 DEF HandlerState, HandlerSteps
<1>3. handler' = [handler EXCEPT ![h] =
                    [handler[h] EXCEPT !.pc = "tell", !.incident = i, !.todo = Users]]
  BY DEF Announces
<1>. QED BY <1>1, <1>2, <1>3, HandlerStep DEF HandlerState

\* Steps that leave the table alone.
LEMMA TableAlone ==
    ASSUME IncidentInv, HandlersOK', UNCHANGED <<incidents, recoveries>>
    PROVE  IncidentInv' /\ Book' = Book
BY DEF IncidentInv, TableOK, RecoveryAnnouncedOnce, Book

LEMMA IncidentsAreNumbered ==
    ASSUME TableOK
    PROVE  DOMAIN incidents \subseteq Nat /\ DOMAIN incidents = 1..Len(incidents)
BY DEF TableOK

LEMMA ReceiveKeepsHandlers ==
    ASSUME HandlersOK, NEW s \in Services, NEW d \in BOOLEAN,
           NEW R \in SUBSET Workers, Receive(s, d, R)
    PROVE  /\ handler' \in [Handlers -> HandlerState]
           /\ \A h \in Handlers : Busy(h)' => handler'[h].svc \in Services
           /\ \A h \in Handlers :
                handler'[h].pc = "resolve" => handler'[h].incident \in DOMAIN incidents
<1>1. PICK slot \in [R -> {h \in Handlers : ~Busy(h)}] :
        handler' = [h \in Handlers |->
          IF \E w \in R : slot[w] = h
          THEN [NoHandler EXCEPT !.pc = "byEvent", !.svc = s, !.down = d,
                                 !.worker = CHOOSE w \in R : slot[w] = h,
                                 !.event = published + 1]
          ELSE handler[h]]
  BY DEF Receive
<1>2. ASSUME NEW h \in Handlers, \E w \in R : slot[w] = h
      PROVE  /\ handler'[h] \in HandlerState
             /\ handler'[h].svc = s /\ handler'[h].pc = "byEvent"
  <2>. DEFINE v == CHOOSE w \in R : slot[w] = h
  <2>1. v \in Workers
    BY <1>2
  <2>2. handler'[h] =
          [pc |-> "byEvent", worker |-> v, svc |-> s, down |-> d,
           event |-> published + 1, incident |-> 0, todo |-> {}]
    BY <1>1, <1>2 DEF NoHandler
  <2>. HIDE DEF v
  <2>. QED BY <2>1, <2>2 DEF HandlerState, HandlerSteps, HandlersOK
<1>3. ASSUME NEW h \in Handlers, ~ \E w \in R : slot[w] = h
      PROVE  handler'[h] = handler[h]
  BY <1>1, <1>3
<1>4. handler' \in [Handlers -> HandlerState]
  <2>1. \A h \in Handlers : handler'[h] \in HandlerState
    BY <1>2, <1>3 DEF HandlersOK
  <2>. QED BY <1>1, <2>1
<1>5. \A h \in Handlers : Busy(h)' => handler'[h].svc \in Services
  BY <1>2, <1>3 DEF HandlersOK, Busy
<1>6. \A h \in Handlers :
        handler'[h].pc = "resolve" => handler'[h].incident \in DOMAIN incidents
  BY <1>2, <1>3 DEF HandlersOK
<1>. QED BY <1>4, <1>5, <1>6

LEMMA PublishKeepsHandlers ==
    ASSUME HandlersOK, NEW s \in Services, NEW st \in Statuses,
           NEW R \in SUBSET Workers, Publish(s, st, R)
    PROVE  HandlersOK' /\ UNCHANGED <<incidents, recoveries>>
<1>. DEFINE d == st = "unavailable"
<1>1. d \in BOOLEAN /\ down \in [Services -> BOOLEAN] /\ published \in Nat
  BY DEF HandlersOK
<1>2. Receive(s, d, R) \/ UNCHANGED handler
  BY DEF Publish
<1>3. down' = [down EXCEPT ![s] = d] \/ UNCHANGED down
  BY DEF Publish
<1>4. published' = published + 1 /\ UNCHANGED <<incidents, recoveries>>
  BY DEF Publish
<1>. HIDE DEF d
<1>5. /\ handler' \in [Handlers -> HandlerState]
      /\ \A h \in Handlers : Busy(h)' => handler'[h].svc \in Services
      /\ \A h \in Handlers :
           handler'[h].pc = "resolve" => handler'[h].incident \in DOMAIN incidents
  <2>1. CASE Receive(s, d, R)
    BY <1>1, <2>1, ReceiveKeepsHandlers
  <2>2. CASE UNCHANGED handler
    BY <2>2 DEF HandlersOK, Busy
  <2>. QED BY <1>2, <2>1, <2>2
<1>6. down' \in [Services -> BOOLEAN] /\ published' \in Nat
  BY <1>1, <1>3, <1>4
<1>. QED BY <1>4, <1>5, <1>6 DEF HandlersOK

LEMMA CrashKeepsHandlers ==
    ASSUME HandlersOK, NEW w \in Workers, Crash(w)
    PROVE  HandlersOK' /\ UNCHANGED <<incidents, recoveries>>
<1>1. \A h \in Handlers : handler'[h] = NoHandler \/ handler'[h] = handler[h]
  BY DEF Crash
<1>2. /\ handler' = [h \in Handlers |-> handler'[h]]
      /\ UNCHANGED <<incidents, recoveries, down, published>>
  BY DEF Crash
<1>. QED BY <1>1, <1>2, NoHandlerIsIdle DEF HandlersOK, Busy

LEMMA TellKeepsHandlers ==
    ASSUME HandlersOK, NEW h \in Handlers, Tell(h)
    PROVE  HandlersOK' /\ UNCHANGED <<incidents, recoveries>>
<1>1. PICK u \in handler[h].todo : handler' = [handler EXCEPT ![h].todo = @ \ {u}]
  BY DEF Tell
<1>2. handler[h] \in HandlerState /\ Busy(h) /\ handler[h].pc = "tell"
  BY DEF Tell, HandlersOK, Busy
<1>3. [handler[h] EXCEPT !.todo = handler[h].todo \ {u}] \in HandlerState
  BY <1>2 DEF HandlerState
<1>4. handler' = [handler EXCEPT ![h] = [handler[h] EXCEPT !.todo = handler[h].todo \ {u}]]
  BY <1>1
<1>5. UNCHANGED <<incidents, recoveries, down, published>>
  BY DEF Tell
<1>. QED BY <1>2, <1>3, <1>4, <1>5, HandlerStep DEF HandlerState

LEMMA ReadsKeepHandlers ==
    ASSUME HandlersOK, TableOK, NEW h \in Handlers,
           FindByEventId(h) \/ FindOpen(h) \/ Conflict(h) \/ ConflictByEvent(h)
    PROVE  HandlersOK' /\ UNCHANGED <<incidents, recoveries>>
<1>1. UNCHANGED <<incidents, recoveries, down, published>>
  BY DEF FindByEventId, FindOpen, Conflict, ConflictByEvent
<1>2. Busy(h) /\ handler[h] \in HandlerState
  BY DEF FindByEventId, FindOpen, Conflict, ConflictByEvent, Busy, HandlersOK
<1>3. CASE Returns(h)
  BY <1>1, <1>2, <1>3, HandlerReturns
<1>4. CASE \E pc \in HandlerSteps \ {"resolve"} : Goto(h, pc)
  BY <1>1, <1>2, <1>4, HandlerGoesTo
<1>5. CASE \E i \in DOMAIN incidents : Announces(h, i)
  BY <1>1, <1>2, <1>5, HandlerAnnounces, IncidentsAreNumbered
<1>6. ASSUME NEW i \in DOMAIN incidents,
             handler' = [handler EXCEPT ![h].pc = "resolve", ![h].incident = i]
      PROVE  HandlersOK'
  <2>1. [handler[h] EXCEPT !.pc = "resolve", !.incident = i] \in HandlerState
    BY <1>2, IncidentsAreNumbered DEF HandlerState, HandlerSteps
  <2>2. handler' = [handler EXCEPT ![h] =
                      [handler[h] EXCEPT !.pc = "resolve", !.incident = i]]
    BY <1>6
  <2>. QED BY <1>1, <1>2, <2>1, <2>2, HandlerStep DEF HandlerState
<1>7. CASE FindByEventId(h)
  BY <1>3, <1>4, <1>7 DEF FindByEventId, HandlerSteps
<1>8. CASE FindOpen(h)
  <2>1. OpenFor(handler[h].svc) \subseteq DOMAIN incidents
    BY DEF OpenFor
  <2>2. CASE handler[h].down
    BY <1>3, <1>4, <1>8, <2>2 DEF FindOpen, HandlerSteps
  <2>3. CASE ~handler[h].down
    BY <1>3, <1>6, <1>8, <2>1, <2>3 DEF FindOpen
  <2>. QED BY <2>2, <2>3
<1>9. CASE Conflict(h)
  <2>1. Winner(h) \subseteq DOMAIN incidents
    BY DEF Winner, OpenFor
  <2>. QED BY <1>4, <1>5, <1>9, <2>1 DEF Conflict, HandlerSteps
<1>10. CASE ConflictByEvent(h)
  BY <1>3, <1>5, <1>10 DEF ConflictByEvent
<1>. QED BY <1>1, <1>7, <1>8, <1>9, <1>10

LEMMA FanOutKeepsHandlers ==
    ASSUME HandlersOK, NEW h \in Handlers,
           CallStep(h) \/ FanOutEnds(h) \/ FanOutThrows(h)
    PROVE  HandlersOK' /\ UNCHANGED <<incidents, recoveries>>
<1>1. CASE CallStep(h)
  BY <1>1 DEF CallStep, engineVars, HandlersOK, Busy
<1>2. CASE FanOutEnds(h)
  BY <1>2, HandlerReturns DEF FanOutEnds
<1>3. CASE FanOutThrows(h)
  BY <1>3, HandlerReturns DEF FanOutThrows
<1>. QED BY <1>1, <1>2, <1>3
-----------------------------------------------------------------------------
(***************************************************************************)
(* The two statements that write the table.  The insertion that the index  *)
(* lets through is an opening of the log, the update that finds its row    *)
(* open is a resolution, and counts as the one fan-out of that incident.   *)
(***************************************************************************)
LEMMA OpenStep ==
    ASSUME IncidentInv, NEW h \in Handlers, OpenAvailability(h)
    PROVE  IncidentInv' /\ (Ledger!Next \/ Book' = Book)
<1>. DEFINE s == handler[h].svc
            row == [svc |-> s, status |-> "open", opening |-> handler[h].event,
                    closing |-> NoEvent]
<1>0. handler[h].pc = "open" /\ s \in Services /\ handler[h].event \in Nat /\ Busy(h)
  BY DEF OpenAvailability, IncidentInv, HandlersOK, HandlerState, Busy
<1>1. CASE UniqueOpen(s)
  <2>1. /\ incidents' = Append(incidents, row) /\ recoveries' = Append(recoveries, 0)
        /\ Announces(h, Len(incidents) + 1) /\ UNCHANGED <<down, published>>
    BY <1>1 DEF OpenAvailability
  <2>2. row \in Incident
    BY <1>0 DEF Incident, NoEvent
  <2>. HIDE DEF row
  <2>3. TableOK' /\ DOMAIN incidents \subseteq DOMAIN incidents'
    BY <2>1, <2>2 DEF IncidentInv, TableOK
  <2>4. HandlersOK'
    <3>1. Len(incidents) + 1 \in Nat
      BY DEF IncidentInv, TableOK
    <3>. QED BY <1>0, <2>1, <2>3, <3>1, HandlerAnnounces DEF IncidentInv
  <2>5. /\ DOMAIN incidents' = DOMAIN incidents \cup {Len(incidents) + 1}
        /\ \A i \in DOMAIN incidents : /\ incidents'[i] = incidents[i]
                                       /\ recoveries'[i] = recoveries[i]
        /\ incidents'[Len(incidents) + 1] = row /\ recoveries'[Len(incidents) + 1] = 0
        /\ Len(incidents) + 1 \notin DOMAIN incidents
    BY <2>1, <2>2 DEF IncidentInv, TableOK
  <2>6. RecoveryAnnouncedOnce'
    <3>1. row.status = "open"
      BY DEF row
    <3>. QED BY <2>5, <3>1 DEF IncidentInv, RecoveryAnnouncedOnce
  <2>7. Ledger!Open(s)
    <3>1. ~Ledger!HasOpen(s)
      BY <1>1 DEF UniqueOpen, OpenFor, Ledger!HasOpen, Book
    <3>2. Book' = Append(Book, [svc |-> s, status |-> "open"])
      <4>1. row.svc = s /\ row.status = "open"
        BY DEF row
      <4>. QED BY <2>1, <2>5, <4>1 DEF Book, IncidentInv, TableOK
    <3>. QED BY <3>1, <3>2 DEF Ledger!Open
  <2>. QED BY <1>0, <2>3, <2>4, <2>6, <2>7 DEF IncidentInv, Ledger!Next
<1>2. CASE ~UniqueOpen(s)
  <2>1. Goto(h, "conflict") /\ UNCHANGED <<incidents, recoveries, down, published>>
    BY <1>2 DEF OpenAvailability
  <2>2. HandlersOK'
    BY <1>0, <2>1, HandlerGoesTo DEF IncidentInv, HandlerSteps
  <2>. QED BY <2>1, <2>2, TableAlone
<1>. QED BY <1>1, <1>2

LEMMA ResolveStep ==
    ASSUME IncidentInv, NEW h \in Handlers, Resolve(h)
    PROVE  IncidentInv' /\ (Ledger!Next \/ Book' = Book)
<1>0. PICK i \in DOMAIN incidents : i = handler[h].incident
  BY DEF Resolve, IncidentInv, HandlersOK
<1>1. handler[h].event \in Nat /\ Busy(h) /\ i \in Nat
  BY <1>0, IncidentsAreNumbered DEF Resolve, IncidentInv, HandlersOK, HandlerState, Busy
<1>2. CASE StillOpen(i)
  <2>. DEFINE row == [incidents[i] EXCEPT !.status = "resolved", !.closing = handler[h].event]
  <2>1. /\ incidents' = [incidents EXCEPT ![i] = row]
        /\ recoveries' = [recoveries EXCEPT ![i] = @ + 1]
        /\ Announces(h, i) /\ UNCHANGED <<down, published>>
    BY <1>0, <1>2 DEF Resolve
  <2>2. incidents[i] \in Incident
    BY DEF IncidentInv, TableOK
  <2>3. row \in Incident /\ row.svc = incidents[i].svc /\ row.status = "resolved"
    BY <1>1, <2>2 DEF Incident
  <2>. HIDE DEF row
  <2>4. i \in DOMAIN recoveries /\ recoveries[i] \in Nat
    BY DEF IncidentInv, TableOK
  <2>5. TableOK' /\ DOMAIN incidents' = DOMAIN incidents
    BY <2>1, <2>3, <2>4 DEF IncidentInv, TableOK
  <2>6. HandlersOK'
    BY <1>1, <2>1, <2>5, HandlerAnnounces DEF IncidentInv
  <2>7. /\ incidents'[i] = row /\ recoveries'[i] = recoveries[i] + 1
        /\ \A j \in DOMAIN incidents \ {i} : /\ incidents'[j] = incidents[j]
                                            /\ recoveries'[j] = recoveries[j]
    BY <2>1, <2>4 DEF IncidentInv, TableOK
  <2>8. recoveries[i] = 0
    BY <1>2 DEF StillOpen, IncidentInv, RecoveryAnnouncedOnce
  <2>9. RecoveryAnnouncedOnce'
    BY <2>3, <2>5, <2>7, <2>8 DEF IncidentInv, RecoveryAnnouncedOnce
  <2>10. Ledger!Resolve(i) /\ i \in DOMAIN Book
    <3>1. Book[i].status = "open" /\ i \in DOMAIN Book
      BY <1>2 DEF StillOpen, Book
    <3>2. Book' = [Book EXCEPT ![i].status = "resolved"]
      <4>1. Book' = [j \in DOMAIN incidents |->
                       IF j = i THEN [svc |-> incidents[i].svc, status |-> "resolved"]
                       ELSE Book[j]]
        BY <2>3, <2>5, <2>7 DEF Book
      <4>2. Book[i] = [svc |-> incidents[i].svc, status |-> "open"]
        BY <1>2 DEF StillOpen, Book
      <4>3. Book = [j \in DOMAIN incidents |-> Book[j]]
        BY DEF Book
      <4>. HIDE DEF Book
      <4>. QED BY <4>1, <4>2, <4>3
    <3>. QED BY <3>1, <3>2 DEF Ledger!Resolve
  <2>. QED BY <2>5, <2>6, <2>9, <2>10 DEF IncidentInv, Ledger!Next
<1>3. CASE ~StillOpen(i)
  <2>1. Returns(h) /\ UNCHANGED <<incidents, recoveries, down, published>>
    BY <1>0, <1>3 DEF Resolve
  <2>2. HandlersOK'
    BY <2>1, HandlerReturns DEF IncidentInv
  <2>. QED BY <2>1, <2>2, TableAlone
<1>. QED BY <1>2, <1>3

LEMMA NextIncidents ==
    ASSUME IncidentInv, [Next]_vars
    PROVE  IncidentInv' /\ (Ledger!Next \/ Book' = Book)
<1>1. ASSUME NEW s \in Services, NEW st \in Statuses,
             NEW R \in SUBSET Workers, Publish(s, st, R)
      PROVE  IncidentInv' /\ Book' = Book
  BY <1>1, PublishKeepsHandlers, TableAlone DEF IncidentInv
<1>2. ASSUME NEW h \in Handlers,
             FindByEventId(h) \/ FindOpen(h) \/ Conflict(h) \/ ConflictByEvent(h)
      PROVE  IncidentInv' /\ Book' = Book
  BY <1>2, ReadsKeepHandlers, TableAlone DEF IncidentInv
<1>3. ASSUME NEW h \in Handlers, OpenAvailability(h)
      PROVE  IncidentInv' /\ (Ledger!Next \/ Book' = Book)
  BY <1>3, OpenStep
<1>4. ASSUME NEW h \in Handlers, Resolve(h)
      PROVE  IncidentInv' /\ (Ledger!Next \/ Book' = Book)
  BY <1>4, ResolveStep
<1>5. ASSUME NEW h \in Handlers, Tell(h)
      PROVE  IncidentInv' /\ Book' = Book
  BY <1>5, TellKeepsHandlers, TableAlone DEF IncidentInv
<1>6. ASSUME NEW h \in Handlers, CallStep(h) \/ FanOutEnds(h) \/ FanOutThrows(h)
      PROVE  IncidentInv' /\ Book' = Book
  BY <1>6, FanOutKeepsHandlers, TableAlone DEF IncidentInv
<1>7. ASSUME NEW w \in Workers, Crash(w)
      PROVE  IncidentInv' /\ Book' = Book
  BY <1>7, CrashKeepsHandlers, TableAlone DEF IncidentInv
<1>8. CASE UNCHANGED engineVars
  <2>1. HandlersOK'
    BY <1>8 DEF engineVars, IncidentInv, HandlersOK, Busy
  <2>. QED BY <1>8, <2>1, TableAlone DEF engineVars
<1>. QED BY <1>1, <1>2, <1>3, <1>4, <1>5, <1>6, <1>7, <1>8 DEF Next, HandleStatusChanged, vars

\* docs/23, "recovery dupliquee -> no-op": the recovery of an incident is
\* announced by one fan-out, and only if the incident is resolved.
THEOREM OneRecovery == Spec => []RecoveryAnnouncedOnce
<1>1. IncidentInv /\ [Next]_vars => IncidentInv'
  BY NextIncidents
<1>2. IncidentInv => RecoveryAnnouncedOnce
  BY DEF IncidentInv
<1>. QED BY <1>1, <1>2, InitIncidents, PTL DEF Spec

\* docs/23, "un incident open max par (integrationId, kind)": the table is a
\* log in which an incident is opened only when none is, and resolved once.
THEOREM TableIsLedger == Spec => LedgerSpec
<1>1. IncidentInv /\ [Next]_vars => IncidentInv' /\ [Ledger!Next]_Book
  BY NextIncidents
<1>2. Init => Ledger!Init
  BY DEF Init, Ledger!Init, Book
<1>. QED BY <1>1, <1>2, InitIncidents, PTL DEF Spec, LedgerSpec, Ledger!Spec
-----------------------------------------------------------------------------
(***************************************************************************)
(* The table and the status.  BookFollowsStatus speaks of an integration   *)
(* nobody is at work on.  What is inductive says of one on which somebody  *)
(* is: either the table is settled already, or the handlers of its last    *)
(* event, and there is one, still are before the statement that will       *)
(* settle it, and their event is not in the table yet.  The first of them  *)
(* that gets through settles the table for all.                            *)
(***************************************************************************)
Settled(s) == OpenFor(s) # {} <=> down[s]
Attended(s) == Settled(s) \/ HandlersOf(s) # {}

\* A handler of the last event of an integration that was not disturbed.
Fits(h) ==
    LET s == handler[h].svc IN
    /\ handler[h].down = down[s]
    /\ handler[h].pc # "conflictByEvent"
    /\ ~Settled(s) =>
         /\ ~Known(h)
         /\ handler[h].pc \in {"byEvent", "findOpen", "open", "resolve"}
         /\ handler[h].pc = "resolve" => handler[h].incident \in OpenFor(s)
    /\ handler[h].pc = "tell" /\ handler[h].down => handler[h].incident \in OpenFor(s)

\* What the statements before this one have established for any handler.
OnItsWay(h) ==
    /\ handler[h].event <= published
    /\ IF Busy(h) THEN handler[h].event # NoEvent ELSE handler[h].worker = NoWorker
    /\ handler[h].incident <= Len(incidents)
    /\ handler[h].pc \in {"resolve", "tell"} => handler[h].incident # 0
    /\ handler[h].pc \in {"open", "conflict", "conflictByEvent"} => handler[h].down
    /\ handler[h].pc = "resolve" =>
         ~handler[h].down /\ incidents[handler[h].incident].svc = handler[h].svc

\* An event is about one integration; the table holds no event to come.
OneSubject ==
    \A g, h \in Handlers :
        Busy(g) /\ Busy(h) /\ handler[g].event = handler[h].event
            => handler[g].svc = handler[h].svc

EventsPassed ==
    \A i \in DOMAIN incidents :
        incidents[i].opening <= published /\ incidents[i].closing <= published

OneOpen ==
    \A i, j \in DOMAIN incidents :
        /\ incidents[i].svc = incidents[j].svc
        /\ incidents[i].status = "open" /\ incidents[j].status = "open"
        => i = j

StatusInv ==
    /\ IncidentInv
    /\ OneSubject /\ EventsPassed /\ OneOpen
    /\ \A h \in Handlers : OnItsWay(h)
    /\ \A s \in Services \ unsure : Attended(s)
    /\ \A h \in Handlers : Busy(h) /\ handler[h].svc \notin unsure => Fits(h)

LEMMA InitStatus == Init => StatusInv
<1>. SUFFICES ASSUME Init PROVE StatusInv
  OBVIOUS
<1>1. incidents = << >> /\ published = 0 /\ \A s \in Services : ~down[s]
  BY DEF Init
<1>2. \A h \in Handlers : handler[h] = NoHandler
  BY DEF Init
<1>3. \A h \in Handlers : ~Busy(h)
  BY <1>2 DEF Busy, NoHandler
<1>4. OneSubject /\ EventsPassed /\ OneOpen
  BY <1>1, <1>3 DEF OneSubject, EventsPassed, OneOpen
<1>5. \A h \in Handlers : OnItsWay(h)
  BY <1>1, <1>2 DEF OnItsWay, Busy, NoHandler, NoEvent
<1>6. \A s \in Services : Attended(s)
  <2>1. \A s : OpenFor(s) = {}
    BY <1>1 DEF OpenFor
  <2>. QED BY <1>1, <2>1 DEF Attended, Settled
<1>. QED BY <1>3, <1>4, <1>5, <1>6, InitIncidents DEF StatusInv
-----------------------------------------------------------------------------
(***************************************************************************)
(* How one handler moves: it returns, or goes on with the same event.      *)
(***************************************************************************)
Others(h) == \A g \in Handlers \ {h} : handler'[g] = handler[g]

GoesOn(h) ==
    /\ Busy(h) /\ handler'[h].pc # "idle" /\ handler'[h] \in HandlerState
    /\ handler'[h].svc = handler[h].svc /\ handler'[h].down = handler[h].down
    /\ handler'[h].event = handler[h].event

LEMMA GotoMoves ==
    ASSUME HandlersOK, NEW h \in Handlers, Busy(h),
           NEW pc \in HandlerSteps \ {"idle"}, Goto(h, pc)
    PROVE  /\ GoesOn(h) /\ Others(h)
           /\ handler'[h].pc = pc /\ handler'[h].incident = handler[h].incident
<1>. DEFINE x == [handler[h] EXCEPT !.pc = pc]
<1>1. handler[h] \in HandlerState /\ DOMAIN handler = Handlers
  BY DEF HandlersOK
<1>2. /\ x \in HandlerState /\ x.pc = pc /\ x.incident = handler[h].incident
      /\ x.svc = handler[h].svc /\ x.down = handler[h].down /\ x.event = handler[h].event
  BY <1>1 DEF HandlerState
<1>3. handler' = [handler EXCEPT ![h] = x]
  BY DEF Goto
<1>. HIDE DEF x
<1>4. handler'[h] = x /\ Others(h)
  BY <1>1, <1>3 DEF Others
<1>. QED BY <1>2, <1>4 DEF GoesOn

LEMMA AnnounceMoves ==
    ASSUME HandlersOK, NEW h \in Handlers, Busy(h), NEW i \in Nat, Announces(h, i)
    PROVE  /\ GoesOn(h) /\ Others(h)
           /\ handler'[h].pc = "tell" /\ handler'[h].incident = i
<1>. DEFINE x == [handler[h] EXCEPT !.pc = "tell", !.incident = i, !.todo = Users]
<1>1. handler[h] \in HandlerState /\ DOMAIN handler = Handlers
  BY DEF HandlersOK
<1>2. /\ x \in HandlerState /\ x.pc = "tell" /\ x.incident = i
      /\ x.svc = handler[h].svc /\ x.down = handler[h].down /\ x.event = handler[h].event
  BY <1>1 DEF HandlerState, HandlerSteps
<1>3. handler' = [handler EXCEPT ![h] = x]
  BY DEF Announces
<1>. HIDE DEF x
<1>4. handler'[h] = x /\ Others(h)
  BY <1>1, <1>3 DEF Others
<1>. QED BY <1>2, <1>4 DEF GoesOn

LEMMA ReturnMoves ==
    ASSUME HandlersOK, NEW h \in Handlers, Returns(h)
    PROVE  handler'[h] = NoHandler /\ Others(h)
BY DEF Returns, HandlersOK, Others

LEMMA KnownStays ==
    ASSUME NEW g, handler'[g].event = handler[g].event, handler'[g].down = handler[g].down,
           incidents' = incidents
    PROVE  Known(g)' = Known(g)
BY DEF Known

(***************************************************************************)
(* A step of one handler that leaves the table and the status alone keeps  *)
(* everything that is said of the others; the handler may leave only an    *)
(* integration that is settled.                                            *)
(***************************************************************************)
LEMMA QuietStep ==
    ASSUME StatusInv, IncidentInv', NEW h \in Handlers, Busy(h), Others(h),
           UNCHANGED <<incidents, down, published, unsure>>,
           \/ /\ handler'[h] = NoHandler
              /\ handler[h].svc \in unsure \/ Settled(handler[h].svc)
           \/ /\ GoesOn(h) /\ OnItsWay(h)'
              /\ handler[h].svc \notin unsure => Fits(h)'
    PROVE  StatusInv'
<1>1. OneSubject'
  BY DEF StatusInv, OneSubject, Others, GoesOn, Busy, NoHandler
<1>2. EventsPassed' /\ OneOpen'
  BY DEF StatusInv, EventsPassed, OneOpen
<1>3. \A s : OpenFor(s)' = OpenFor(s) /\ (Settled(s)' <=> Settled(s))
  BY DEF OpenFor, Settled
<1>4. ASSUME NEW g \in Handlers PROVE OnItsWay(g)'
  <2>1. CASE g # h
    BY <2>1 DEF StatusInv, OnItsWay, Others, Busy
  <2>2. CASE handler'[h] = NoHandler
    BY <2>1, <2>2 DEF OnItsWay, NoHandler, NoEvent, Busy, StatusInv, IncidentInv, TableOK, HandlersOK
  <2>. QED BY <2>1, <2>2
<1>5. ASSUME NEW s \in Services \ unsure PROVE Attended(s)'
  <2>1. CASE Settled(s)
    BY <1>3, <2>1 DEF Attended
  <2>2. CASE ~Settled(s)
    <3>1. PICK g \in Handlers : Busy(g) /\ handler[g].svc = s
      BY <2>2 DEF StatusInv, Attended, HandlersOf
    <3>2. handler'[g].pc # "idle" /\ handler'[g].svc = s
      BY <2>2, <3>1 DEF Others, GoesOn, Busy
    <3>. QED BY <3>2 DEF Attended, HandlersOf, Busy
  <2>. QED BY <2>1, <2>2
<1>6. ASSUME NEW g \in Handlers, Busy(g)', handler'[g].svc \notin unsure PROVE Fits(g)'
  <2>1. CASE g # h
    <3>1. handler'[g] = handler[g] /\ Busy(g) /\ Fits(g)
      BY <1>6, <2>1 DEF Others, Busy, StatusInv
    <3>2. Known(g)' = Known(g)
      BY <3>1, KnownStays
    <3>. QED BY <1>3, <3>1, <3>2 DEF Fits
  <2>2. CASE g = h
    BY <1>6, <2>2 DEF GoesOn, Busy, NoHandler
  <2>. QED BY <2>1, <2>2
<1>. QED BY <1>1, <1>2, <1>4, <1>5, <1>6 DEF StatusInv
\* What is known of the handler that moves.
LEMMA MoverFits ==
    ASSUME StatusInv, NEW h \in Handlers, Busy(h)
    PROVE  /\ handler[h] \in HandlerState /\ handler[h].svc \in Services
           /\ HandlersOK /\ TableOK /\ OnItsWay(h)
           /\ handler[h].svc \notin unsure => Fits(h)
BY DEF StatusInv, IncidentInv, HandlersOK

LEMMA ReadSteps ==
    ASSUME StatusInv, IncidentInv', NEW h \in Handlers,
           FindByEventId(h) \/ FindOpen(h)
    PROVE  StatusInv'
<1>1. Busy(h) /\ UNCHANGED <<incidents, down, published, unsure>>
  BY DEF FindByEventId, FindOpen, Busy
<1>2. /\ handler[h] \in HandlerState /\ handler[h].svc \in Services
      /\ HandlersOK /\ TableOK /\ OnItsWay(h)
      /\ handler[h].svc \notin unsure => Fits(h)
  BY <1>1, MoverFits
<1>3. \A s : OpenFor(s)' = OpenFor(s) /\ (Settled(s)' <=> Settled(s))
  BY <1>1 DEF OpenFor, Settled
<1>4. CASE Returns(h) /\ (handler[h].svc \in unsure \/ Settled(handler[h].svc))
  BY <1>1, <1>2, <1>4, ReturnMoves, QuietStep
<1>5. ASSUME NEW pc \in {"findOpen", "open"}, Goto(h, pc), pc = "open" => handler[h].down,
             handler[h].pc \in {"byEvent", "findOpen"}
      PROVE  StatusInv'
  <2>1. /\ GoesOn(h) /\ Others(h)
        /\ handler'[h].pc = pc /\ handler'[h].incident = handler[h].incident
    BY <1>1, <1>2, <1>5, GotoMoves DEF HandlerSteps
  <2>2. OnItsWay(h)'
    BY <1>1, <1>2, <1>5, <2>1 DEF OnItsWay, GoesOn, Busy
  <2>3. Known(h)' = Known(h)
    BY <1>1, <2>1, KnownStays DEF GoesOn
  <2>4. Fits(h) => Fits(h)'
    BY <1>1, <1>3, <1>5, <2>1, <2>3 DEF Fits, GoesOn
  <2>. QED BY <1>1, <1>2, <2>1, <2>2, <2>4, QuietStep
<1>6. CASE FindByEventId(h)
  <2>1. CASE Known(h)
    <3>1. Returns(h)
      BY <1>6, <2>1 DEF FindByEventId
    <3>. QED BY <1>2, <1>4, <2>1, <3>1 DEF Fits
  <2>2. CASE ~Known(h)
    BY <1>5, <1>6, <2>2 DEF FindByEventId
  <2>. QED BY <2>1, <2>2
<1>7. CASE FindOpen(h)
  <2>. DEFINE s == handler[h].svc
  <2>0. handler[h].pc = "findOpen"
    BY <1>7 DEF FindOpen
  <2>1. CASE handler[h].down /\ OpenFor(s) # {}
    <3>1. Returns(h)
      BY <1>7, <2>1 DEF FindOpen
    <3>2. Fits(h) => Settled(s)
      BY <2>1 DEF Fits, Settled
    <3>. QED BY <1>2, <1>4, <3>1, <3>2
  <2>2. CASE handler[h].down /\ OpenFor(s) = {}
    BY <1>5, <1>7, <2>0, <2>2 DEF FindOpen
  <2>3. CASE ~handler[h].down /\ OpenFor(s) = {}
    <3>1. Returns(h)
      BY <1>7, <2>3 DEF FindOpen
    <3>2. Fits(h) => Settled(s)
      BY <2>3 DEF Fits, Settled
    <3>. QED BY <1>2, <1>4, <3>1, <3>2
  <2>4. CASE ~handler[h].down /\ OpenFor(s) # {}
    <3>1. PICK i \in OpenFor(s) :
            handler' = [handler EXCEPT ![h].pc = "resolve", ![h].incident = i]
      BY <1>7, <2>4 DEF FindOpen
    <3>2. /\ i \in DOMAIN incidents /\ incidents[i].svc = s
          /\ i \in Nat /\ i # 0 /\ i <= Len(incidents)
      BY <1>2, IncidentsAreNumbered DEF OpenFor
    <3>. DEFINE x == [handler[h] EXCEPT !.pc = "resolve", !.incident = i]
    <3>3. /\ x \in HandlerState /\ x.pc = "resolve" /\ x.incident = i
          /\ x.svc = s /\ x.down = handler[h].down /\ x.event = handler[h].event
      BY <1>2, <3>2 DEF HandlerState, HandlerSteps
    <3>4. handler' = [handler EXCEPT ![h] = x]
      BY <3>1
    <3>. HIDE DEF x
    <3>5. handler'[h] = x /\ Others(h)
      BY <1>2, <3>4 DEF HandlersOK, Others
    <3>6. GoesOn(h)
      BY <1>1, <3>3, <3>5 DEF GoesOn
    <3>7. OnItsWay(h)'
      BY <1>1, <1>2, <2>4, <3>2, <3>3, <3>5 DEF OnItsWay, Busy
    <3>8. Known(h)' = Known(h)
      BY <1>1, <3>3, <3>5, KnownStays
    <3>9. Fits(h) => Fits(h)'
      BY <1>1, <1>3, <2>0, <2>4, <3>3, <3>5, <3>8 DEF Fits
    <3>. QED BY <1>1, <1>2, <3>5, <3>6, <3>7, <3>9, QuietStep
  <2>. QED BY <2>1, <2>2, <2>3, <2>4
<1>. QED BY <1>6, <1>7

\* The handler whose insert was refused finds the incident that refused it,
\* if nobody of another event is about.
LEMMA ConflictSteps ==
    ASSUME StatusInv, IncidentInv', NEW h \in Handlers,
           Conflict(h) \/ ConflictByEvent(h)
    PROVE  StatusInv'
<1>1. Busy(h) /\ UNCHANGED <<incidents, down, published, unsure>>
  BY DEF Conflict, ConflictByEvent, Busy
<1>2. /\ handler[h] \in HandlerState /\ handler[h].svc \in Services
      /\ HandlersOK /\ TableOK /\ OnItsWay(h)
      /\ handler[h].svc \notin unsure => Fits(h)
  BY <1>1, MoverFits
<1>3. \A s : OpenFor(s)' = OpenFor(s) /\ (Settled(s)' <=> Settled(s))
  BY <1>1 DEF OpenFor, Settled
<1>4. handler[h].down
  BY <1>2 DEF Conflict, ConflictByEvent, OnItsWay
<1>5. Fits(h) => Settled(handler[h].svc)
  BY DEF Conflict, ConflictByEvent, Fits
<1>6. ASSUME NEW i \in DOMAIN incidents, Announces(h, i),
             handler[h].svc \in unsure \/ i \in OpenFor(handler[h].svc)
      PROVE  StatusInv'
  <2>1. i \in Nat /\ i # 0 /\ i <= Len(incidents)
    BY <1>2, IncidentsAreNumbered
  <2>2. /\ GoesOn(h) /\ Others(h)
        /\ handler'[h].pc = "tell" /\ handler'[h].incident = i
    BY <1>1, <1>2, <1>6, <2>1, AnnounceMoves
  <2>3. OnItsWay(h)'
    BY <1>1, <1>2, <2>1, <2>2 DEF OnItsWay, GoesOn, Busy
  <2>4. handler[h].svc \notin unsure => Fits(h)'
    BY <1>1, <1>2, <1>3, <1>5, <1>6, <2>2 DEF Fits, GoesOn
  <2>. QED BY <1>1, <2>2, <2>3, <2>4, QuietStep
<1>7. CASE Conflict(h)
  <2>1. CASE Winner(h) = {}
    <3>1. Goto(h, "conflictByEvent")
      BY <1>7, <2>1 DEF Conflict
    <3>2. /\ GoesOn(h) /\ Others(h)
          /\ handler'[h].pc = "conflictByEvent" /\ handler'[h].incident = handler[h].incident
      BY <1>1, <1>2, <3>1, GotoMoves DEF HandlerSteps
    <3>3. OnItsWay(h)'
      BY <1>1, <1>2, <1>4, <3>2 DEF OnItsWay, GoesOn, Busy
    <3>4. handler[h].svc \in unsure
      BY <1>2, <1>4, <1>5, <2>1 DEF Fits, Settled, Winner
    <3>. QED BY <1>1, <3>2, <3>3, <3>4, QuietStep
  <2>2. CASE Winner(h) # {}
    <3>1. PICK i \in Winner(h) : Announces(h, i)
      BY <1>7, <2>2 DEF Conflict
    <3>. QED BY <1>6, <3>1 DEF Winner, OpenFor
  <2>. QED BY <2>1, <2>2
<1>8. CASE ConflictByEvent(h)
  <2>1. handler[h].svc \in unsure
    BY <1>2, <1>8 DEF ConflictByEvent, Fits
  <2>2. CASE Returns(h)
    BY <1>1, <1>2, <2>1, <2>2, ReturnMoves, QuietStep
  <2>3. CASE \E i \in DOMAIN incidents : Announces(h, i)
    BY <1>6, <2>1, <2>3
  <2>. QED BY <1>8, <2>2, <2>3 DEF ConflictByEvent
<1>. QED BY <1>7, <1>8
\* Steps of the centre and the user, which the engine does not see.
LEMMA EngineAlone ==
    ASSUME StatusInv, IncidentInv', UNCHANGED engineVars
    PROVE  StatusInv'
<1>1. UNCHANGED <<incidents, handler, down, published, unsure>>
  BY DEF engineVars
<1>2. \A s : OpenFor(s)' = OpenFor(s) /\ HandlersOf(s)' = HandlersOf(s)
             /\ (Settled(s)' <=> Settled(s))
  BY <1>1 DEF OpenFor, HandlersOf, Busy, Settled
<1>3. \A h \in Handlers : Fits(h) => Fits(h)'
  BY <1>1, <1>2 DEF Fits, Known
<1>4. OneSubject' /\ EventsPassed' /\ OneOpen'
  BY <1>1 DEF StatusInv, OneSubject, EventsPassed, OneOpen, Busy
<1>5. \A h \in Handlers : OnItsWay(h)'
  BY <1>1 DEF StatusInv, OnItsWay, Busy
<1>. QED BY <1>1, <1>2, <1>3, <1>4, <1>5 DEF StatusInv, Attended, Busy

LEMMA FanOutSteps ==
    ASSUME StatusInv, IncidentInv', NEW h \in Handlers,
           Tell(h) \/ FanOutEnds(h) \/ FanOutThrows(h), handler[h].pc = "tell"
    PROVE  StatusInv'
<1>1. Busy(h) /\ UNCHANGED <<incidents, down, published, unsure>>
  BY DEF Tell, FanOutEnds, FanOutThrows, Busy
<1>2. /\ handler[h] \in HandlerState /\ handler[h].svc \in Services
      /\ HandlersOK /\ TableOK /\ OnItsWay(h)
      /\ handler[h].svc \notin unsure => Fits(h)
  BY <1>1, MoverFits
<1>3. \A s : OpenFor(s)' = OpenFor(s) /\ (Settled(s)' <=> Settled(s))
  BY <1>1 DEF OpenFor, Settled
<1>4. Fits(h) => Settled(handler[h].svc)
  BY DEF Fits
<1>5. CASE Returns(h)
  BY <1>1, <1>2, <1>4, <1>5, ReturnMoves, QuietStep
<1>6. CASE Tell(h)
  <2>1. PICK u \in handler[h].todo : handler' = [handler EXCEPT ![h].todo = @ \ {u}]
    BY <1>6 DEF Tell
  <2>. DEFINE x == [handler[h] EXCEPT !.todo = handler[h].todo \ {u}]
  <2>2. /\ x \in HandlerState /\ x.pc = "tell" /\ x.incident = handler[h].incident
        /\ x.svc = handler[h].svc /\ x.down = handler[h].down /\ x.event = handler[h].event
    BY <1>2 DEF HandlerState
  <2>3. handler' = [handler EXCEPT ![h] = x]
    BY <2>1
  <2>. HIDE DEF x
  <2>4. handler'[h] = x /\ Others(h)
    BY <1>2, <2>3 DEF HandlersOK, Others
  <2>5. GoesOn(h) /\ OnItsWay(h)'
    BY <1>1, <1>2, <2>2, <2>4 DEF GoesOn, OnItsWay, Busy
  <2>6. Fits(h) => Fits(h)'
    BY <1>1, <1>3, <1>4, <2>2, <2>4 DEF Fits
  <2>. QED BY <1>1, <1>2, <2>4, <2>5, <2>6, QuietStep
<1>. QED BY <1>5, <1>6 DEF FanOutEnds, FanOutThrows

(***************************************************************************)
(* A step of one handler that settles its integration: whoever is at work  *)
(* on it finds it settled, and nobody else's event has entered the table.  *)
(***************************************************************************)
LEMMA SettlingStep ==
    ASSUME StatusInv, IncidentInv', NEW h \in Handlers, Busy(h), Others(h),
           NEW s \in Services, s = handler[h].svc,
           UNCHANGED <<down, published, unsure>>,
           EventsPassed', OneOpen', Len(incidents) <= Len(incidents'),
           \A i \in DOMAIN incidents : incidents'[i].svc = incidents[i].svc,
           \A t \in Services \ {s} : OpenFor(t)' = OpenFor(t),
           \A g \in Handlers : Busy(g) /\ Known(g)' /\ ~Known(g)
                => handler[g].event = handler[h].event,
           s \notin unsure => Settled(s)' /\ (down[s] => OpenFor(s) \subseteq OpenFor(s)'),
           GoesOn(h), OnItsWay(h)',
           handler'[h].pc = "tell",
           handler[h].down => handler'[h].incident \in OpenFor(s)'
    PROVE  StatusInv'
<1>1. OneSubject'
  BY DEF StatusInv, OneSubject, Others, GoesOn, Busy
<1>2. ASSUME NEW g \in Handlers PROVE OnItsWay(g)'
  <2>1. CASE g # h
    <3>1. handler'[g] = handler[g] /\ OnItsWay(g) /\ handler[g] \in HandlerState
      BY <2>1 DEF Others, StatusInv, IncidentInv, HandlersOK
    <3>2. handler[g].pc = "resolve" => handler[g].incident \in DOMAIN incidents
      BY DEF StatusInv, IncidentInv, HandlersOK
    <3>3. Len(incidents) \in Nat /\ Len(incidents') \in Nat
      BY DEF StatusInv, IncidentInv, TableOK
    <3>. QED BY <3>1, <3>2, <3>3 DEF OnItsWay, Busy, HandlerState
  <2>. QED BY <2>1
<1>3. ASSUME NEW t \in Services \ unsure PROVE Attended(t)'
  <2>1. CASE t = s
    BY <2>1 DEF Attended
  <2>2. CASE t # s
    <3>1. Settled(t)' <=> Settled(t)
      BY <2>2 DEF Settled
    <3>2. HandlersOf(t) \subseteq HandlersOf(t)'
      BY <2>2 DEF HandlersOf, Others, Busy
    <3>. QED BY <3>1, <3>2 DEF Attended, StatusInv
  <2>. QED BY <2>1, <2>2
<1>4. ASSUME NEW g \in Handlers, Busy(g)', handler'[g].svc \notin unsure PROVE Fits(g)'
  <2>1. CASE g = h
    <3>1. handler[h].down = down[s]
      BY <1>4, <2>1 DEF StatusInv, Fits, GoesOn
    <3>. QED BY <1>4, <2>1, <3>1 DEF Fits, GoesOn
  <2>2. CASE g # h
    <3>1. handler'[g] = handler[g] /\ Busy(g) /\ Fits(g) /\ handler[g].svc \in Services
      BY <1>4, <2>2 DEF Others, Busy, StatusInv, IncidentInv, HandlersOK
    <3>2. CASE handler[g].svc = s
      <4>1. handler'[g].svc = s /\ s \notin unsure
        BY <1>4, <3>1, <3>2
      <4>2. handler[g].pc = "tell" /\ handler[g].down => handler[g].incident \in OpenFor(s)'
        BY <3>1, <3>2, <4>1 DEF Fits
      <4>. QED BY <3>1, <3>2, <4>1, <4>2 DEF Fits
    <3>3. CASE handler[g].svc # s
      <4>1. handler[g].event # handler[h].event
        BY <3>1, <3>3 DEF StatusInv, OneSubject
      <4>2. Known(g)' => Known(g)
        BY <3>1, <4>1
      <4>3. Settled(handler[g].svc)' <=> Settled(handler[g].svc)
        BY <3>1, <3>3 DEF Settled
      <4>. QED BY <3>1, <3>3, <4>2, <4>3 DEF Fits
    <3>. QED BY <3>2, <3>3
  <2>. QED BY <2>1, <2>2
<1>. QED BY <1>1, <1>2, <1>3, <1>4 DEF StatusInv

LEMMA OpenSettles ==
    ASSUME StatusInv, IncidentInv', NEW h \in Handlers, OpenAvailability(h)
    PROVE  StatusInv'
<1>1. Busy(h) /\ handler[h].pc = "open" /\ UNCHANGED <<down, published, unsure>>
  BY DEF OpenAvailability, Busy
<1>0. PICK s \in Services : s = handler[h].svc
  BY <1>1, MoverFits
<1>. DEFINE row == [svc |-> s, status |-> "open", opening |-> handler[h].event,
                    closing |-> NoEvent]
            n == Len(incidents) + 1
<1>2. /\ handler[h] \in HandlerState /\ s \in Services
      /\ HandlersOK /\ TableOK /\ OnItsWay(h)
      /\ s \notin unsure => Fits(h)
  BY <1>0, <1>1, MoverFits
<1>3. handler[h].down /\ handler[h].event \in Nat /\ handler[h].event # 0
  BY <1>1, <1>2 DEF OnItsWay, HandlerState, NoEvent
<1>4. CASE ~UniqueOpen(s)
  <2>1. Goto(h, "conflict") /\ UNCHANGED incidents
    BY <1>0, <1>4 DEF OpenAvailability
  <2>2. /\ GoesOn(h) /\ Others(h)
        /\ handler'[h].pc = "conflict" /\ handler'[h].incident = handler[h].incident
    BY <1>1, <1>2, <2>1, GotoMoves DEF HandlerSteps
  <2>3. OnItsWay(h)'
    BY <1>1, <1>2, <1>3, <2>1, <2>2 DEF OnItsWay, GoesOn, Busy
  <2>4. OpenFor(s)' = OpenFor(s) /\ OpenFor(s) # {}
    BY <1>4, <2>1 DEF UniqueOpen, OpenFor
  <2>5. s \notin unsure => Settled(s)'
    BY <1>0, <1>1, <1>2, <1>3, <2>4 DEF Fits, Settled
  <2>6. handler'[h].svc = s
    BY <1>0, <2>2 DEF GoesOn
  <2>7. s \notin unsure => Fits(h)'
    BY <1>0, <1>1, <1>2, <2>2, <2>5, <2>6 DEF Fits, GoesOn
  <2>. QED BY <1>0, <1>1, <2>1, <2>2, <2>3, <2>7, QuietStep
<1>5. CASE UniqueOpen(s)
  <2>1. incidents' = Append(incidents, row) /\ Announces(h, n)
    BY <1>0, <1>5 DEF OpenAvailability
  <2>2. row \in Incident
    BY <1>0, <1>2, <1>3 DEF Incident, NoEvent
  <2>3. n \in Nat /\ n # 0 /\ Len(incidents) \in Nat
    BY <1>2 DEF TableOK
  <2>4. row.svc = s /\ row.status = "open" /\ row.opening = handler[h].event /\ row.closing = 0
    BY DEF NoEvent
  <2>. HIDE DEF row
  <2>5. /\ DOMAIN incidents' = DOMAIN incidents \cup {n} /\ n \notin DOMAIN incidents
        /\ Len(incidents') = n
        /\ \A i \in DOMAIN incidents : incidents'[i] = incidents[i]
        /\ incidents'[n] = row
    BY <1>2, <2>1, <2>2 DEF TableOK
  <2>. HIDE DEF n
  <2>6. /\ GoesOn(h) /\ Others(h)
        /\ handler'[h].pc = "tell" /\ handler'[h].incident = n
    BY <1>1, <1>2, <2>1, <2>3, AnnounceMoves
  <2>7. OnItsWay(h)'
    BY <1>1, <1>2, <2>3, <2>5, <2>6 DEF OnItsWay, GoesOn, Busy
  <2>8. EventsPassed'
    BY <1>1, <1>2, <2>4, <2>5 DEF StatusInv, EventsPassed, OnItsWay, IncidentInv, HandlersOK
  <2>9. \A t : OpenFor(t)' = OpenFor(t) \cup (IF t = s THEN {n} ELSE {})
    BY <2>4, <2>5 DEF OpenFor
  <2>10. OpenFor(s) = {}
    BY <1>5 DEF UniqueOpen
  <2>11. OneOpen'
    <3>1. \A i \in DOMAIN incidents : ~(incidents[i].svc = s /\ incidents[i].status = "open")
      BY <2>10 DEF OpenFor
    <3>. QED BY <2>4, <2>5, <3>1 DEF StatusInv, OneOpen
  <2>12. ASSUME NEW g \in Handlers, Busy(g), Known(g)', ~Known(g)
         PROVE  handler[g].event = handler[h].event
    <3>1. handler'[g].event = handler[g].event /\ handler'[g].down = handler[g].down
      BY <2>6 DEF GoesOn, Others
    <3>2. handler[g].event # 0
      BY <2>12 DEF StatusInv, OnItsWay, NoEvent
    <3>3. PICK i \in DOMAIN incidents' :
            handler[g].event = IF handler[g].down THEN incidents'[i].opening
                               ELSE incidents'[i].closing
      BY <2>12, <3>1 DEF Known
    <3>4. i = n
      BY <2>5, <2>12, <3>3 DEF Known
    <3>. QED BY <2>4, <2>5, <3>2, <3>3, <3>4
  <2>13. s \notin unsure => Settled(s)'
    BY <1>0, <1>1, <1>2, <1>3, <2>9 DEF Fits, Settled
  <2>14. Len(incidents) <= Len(incidents')
    BY <2>3, <2>5 DEF n
  <2>15. handler'[h].incident \in OpenFor(s)'
    BY <2>6, <2>9
  <2>16. \A i \in DOMAIN incidents : incidents'[i].svc = incidents[i].svc
    BY <2>5
  <2>17. /\ \A t \in Services \ {s} : OpenFor(t)' = OpenFor(t)
         /\ OpenFor(s) \subseteq OpenFor(s)'
    BY <2>9
  <2>. QED BY <1>0, <1>1, <2>6, <2>7, <2>8, <2>11, <2>12, <2>13, <2>14, <2>15, <2>16,
              <2>17, SettlingStep
<1>. QED BY <1>4, <1>5
LEMMA ResolveSettles ==
    ASSUME StatusInv, IncidentInv', NEW h \in Handlers, Resolve(h)
    PROVE  StatusInv'
<1>1. Busy(h) /\ handler[h].pc = "resolve" /\ UNCHANGED <<down, published, unsure>>
  BY DEF Resolve, Busy
<1>0. PICK s \in Services : s = handler[h].svc
  BY <1>1, MoverFits
<1>2. /\ handler[h] \in HandlerState
      /\ HandlersOK /\ TableOK /\ OnItsWay(h)
      /\ s \notin unsure => Fits(h)
  BY <1>0, <1>1, MoverFits
<1>3. PICK i \in DOMAIN incidents : i = handler[h].incident
  BY <1>1, <1>2 DEF HandlersOK
<1>4. /\ ~handler[h].down /\ incidents[i].svc = s
      /\ i \in Nat /\ i # 0 /\ i <= Len(incidents)
  BY <1>0, <1>1, <1>2, <1>3, IncidentsAreNumbered DEF OnItsWay
<1>5. CASE ~StillOpen(i)
  <2>1. Returns(h) /\ UNCHANGED incidents
    BY <1>3, <1>5 DEF Resolve
  <2>2. s \in unsure \/ Settled(s)
    BY <1>0, <1>1, <1>2, <1>3, <1>5 DEF Fits, StillOpen, OpenFor
  <2>. QED BY <1>0, <1>1, <1>2, <2>1, <2>2, ReturnMoves, QuietStep
<1>6. CASE StillOpen(i)
  <2>. DEFINE row == [incidents[i] EXCEPT !.status = "resolved", !.closing = handler[h].event]
  <2>1. incidents' = [incidents EXCEPT ![i] = row] /\ Announces(h, i)
    BY <1>3, <1>6 DEF Resolve
  <2>2. incidents[i] \in Incident
    BY <1>2 DEF TableOK
  <2>3. /\ row.svc = s /\ row.status = "resolved" /\ row.opening = incidents[i].opening
        /\ row.closing = handler[h].event
    BY <1>4, <2>2 DEF Incident
  <2>. HIDE DEF row
  <2>4. /\ DOMAIN incidents' = DOMAIN incidents /\ Len(incidents') = Len(incidents)
        /\ incidents'[i] = row
        /\ \A j \in DOMAIN incidents \ {i} : incidents'[j] = incidents[j]
    BY <1>2, <2>1 DEF TableOK
  <2>5. /\ GoesOn(h) /\ Others(h)
        /\ handler'[h].pc = "tell" /\ handler'[h].incident = i
    BY <1>1, <1>2, <1>4, <2>1, AnnounceMoves
  <2>6. OnItsWay(h)'
    BY <1>1, <1>2, <1>4, <2>4, <2>5 DEF OnItsWay, GoesOn, Busy
  <2>7. EventsPassed'
    BY <1>1, <1>2, <2>3, <2>4 DEF StatusInv, EventsPassed, OnItsWay
  <2>8. incidents[i].status = "open"
    BY <1>6 DEF StillOpen
  <2>9. \A t : OpenFor(t)' = OpenFor(t) \ {i}
    BY <2>3, <2>4 DEF OpenFor
  <2>10. OneOpen'
    <3>1. \A j \in DOMAIN incidents : /\ incidents'[j].svc = incidents[j].svc
                                      /\ incidents'[j].status = "open" => incidents[j].status = "open"
      BY <1>4, <2>3, <2>4
    <3>. QED BY <2>4, <3>1 DEF StatusInv, OneOpen
  <2>11. ASSUME NEW g \in Handlers, Busy(g), Known(g)', ~Known(g)
         PROVE  handler[g].event = handler[h].event
    <3>1. handler'[g].event = handler[g].event /\ handler'[g].down = handler[g].down
      BY <2>5 DEF GoesOn, Others
    <3>2. PICK j \in DOMAIN incidents :
            handler[g].event = IF handler[g].down THEN incidents'[j].opening
                               ELSE incidents'[j].closing
      BY <2>4, <2>11, <3>1 DEF Known
    <3>3. CASE j = i
      BY <2>3, <2>4, <2>11, <3>2, <3>3 DEF Known
    <3>4. CASE j # i
      BY <2>4, <2>11, <3>2, <3>4 DEF Known
    <3>. QED BY <3>3, <3>4
  <2>12. s \notin unsure => ~down[s] /\ Settled(s)'
    <3>1. OpenFor(s) \subseteq {i}
      BY <1>4, <2>8 DEF OpenFor, StatusInv, OneOpen
    <3>2. OpenFor(s)' = {}
      BY <2>9, <3>1
    <3>. QED BY <1>0, <1>1, <1>2, <1>4, <3>2 DEF Fits, Settled
  <2>13. \A t \in Services \ {s} : OpenFor(t)' = OpenFor(t)
    BY <1>4, <2>9 DEF OpenFor
  <2>14. \A j \in DOMAIN incidents : incidents'[j].svc = incidents[j].svc
    BY <1>4, <2>3, <2>4
  <2>15. Len(incidents) <= Len(incidents')
    BY <1>2, <2>4 DEF TableOK
  <2>. QED BY <1>0, <1>1, <1>4, <2>5, <2>6, <2>7, <2>10, <2>11, <2>12, <2>13, <2>14, <2>15,
              SettlingStep
<1>. QED BY <1>5, <1>6

(***************************************************************************)
(* A new event.  Nobody knows it yet.  If somebody receives it and nobody  *)
(* is at work on an earlier one, its handlers are all there is; otherwise  *)
(* the integration was unsure and stays so, becomes so, or hears what the  *)
(* handlers at work have heard as well.                                    *)
(***************************************************************************)
LEMMA HeededSteps ==
    ASSUME StatusInv, IncidentInv', NEW s \in Services, NEW d \in BOOLEAN,
           NEW R \in SUBSET Workers, Receive(s, d, R),
           published' = published + 1, down' = [down EXCEPT ![s] = d],
           unsure' = (IF R # {} /\ HandlersOf(s) = {} THEN unsure \ {s}
                      ELSE IF d = down[s] THEN unsure ELSE unsure \cup {s}),
           incidents' = incidents
    PROVE  StatusInv'
<1>1. PICK slot \in [R -> {h \in Handlers : ~Busy(h)}] :
        handler' = [h \in Handlers |->
          IF \E w \in R : slot[w] = h
          THEN [NoHandler EXCEPT !.pc = "byEvent", !.svc = s, !.down = d,
                                 !.worker = CHOOSE w \in R : slot[w] = h,
                                 !.event = published + 1]
          ELSE handler[h]]
  BY DEF Receive
<1>2. incidents' = incidents /\ published' = published + 1
  OBVIOUS
<1>3. /\ down \in [Services -> BOOLEAN] /\ published \in Nat /\ TableOK
      /\ \A h \in Handlers : handler[h] \in HandlerState
  BY DEF StatusInv, IncidentInv, HandlersOK
<1>4. down'[s] = d /\ \A t \in Services \ {s} : down'[t] = down[t]
  BY <1>3
<1>. DEFINE new == {h \in Handlers : \E w \in R : slot[w] = h}
<1>5. ASSUME NEW h \in new
      PROVE  /\ ~Busy(h)
             /\ handler'[h].pc = "byEvent" /\ handler'[h].svc = s
             /\ handler'[h].down = d
             /\ handler'[h].event = published + 1 /\ handler'[h].incident = 0
  BY <1>1 DEF NoHandler
<1>6. ASSUME NEW h \in Handlers \ new PROVE handler'[h] = handler[h]
  BY <1>1
<1>7. R # {} => new # {}
  BY <1>1
<1>. HIDE DEF new
<1>8. \A t : OpenFor(t)' = OpenFor(t)
  BY <1>2 DEF OpenFor
<1>9. ASSUME NEW h \in Handlers PROVE OnItsWay(h)'
  <2>1. CASE h \in new
    BY <1>2, <1>3, <1>5, <2>1 DEF OnItsWay, Busy, NoEvent, TableOK
  <2>2. CASE h \notin new
    <3>1. handler'[h] = handler[h] /\ OnItsWay(h) /\ handler[h].event \in Nat
      BY <1>3, <1>6, <2>2 DEF StatusInv, HandlerState
    <3>2. published + 1 = published' /\ handler[h].event <= published + 1
      BY <1>2, <1>3, <3>1 DEF OnItsWay
    <3>. QED BY <1>2, <3>1, <3>2 DEF OnItsWay, Busy
  <2>. QED BY <2>1, <2>2
<1>10. \A h \in Handlers \ new : handler[h].event \in Nat /\ handler[h].event <= published
  BY <1>3 DEF StatusInv, OnItsWay, HandlerState
<1>11. OneSubject'
  <2>. SUFFICES ASSUME NEW g \in Handlers, NEW h \in Handlers, Busy(g)', Busy(h)',
                       handler'[g].event = handler'[h].event
                PROVE  handler'[g].svc = handler'[h].svc
    BY DEF OneSubject
  <2>1. g \in new <=> h \in new
    BY <1>3, <1>5, <1>6, <1>10
  <2>2. CASE g \in new
    BY <1>5, <2>1, <2>2
  <2>3. CASE g \notin new
    BY <1>6, <2>1, <2>3 DEF StatusInv, OneSubject, Busy
  <2>. QED BY <2>2, <2>3
<1>12. EventsPassed' /\ OneOpen'
  <2>1. \A i \in DOMAIN incidents :
           /\ incidents[i].opening \in Nat /\ incidents[i].opening <= published
           /\ incidents[i].closing \in Nat /\ incidents[i].closing <= published
    <3>1. \A i \in DOMAIN incidents : incidents[i] \in Incident
      BY <1>3 DEF TableOK
    <3>. QED BY <3>1 DEF Incident, StatusInv, EventsPassed
  <2>2. EventsPassed'
    BY <1>2, <1>3, <2>1 DEF EventsPassed
  <2>3. OneOpen'
    BY <1>2 DEF StatusInv, OneOpen
  <2>. QED BY <2>2, <2>3
<1>13. ASSUME NEW t \in Services, t \notin unsure' PROVE Attended(t)'
  <2>1. HandlersOf(t) \subseteq HandlersOf(t)'
    BY <1>5, <1>6 DEF HandlersOf, Busy
  <2>2. CASE t = s /\ R # {} /\ HandlersOf(s) = {}
    <3>1. PICK h : h \in new
      BY <1>7, <2>2
    <3>2. h \in HandlersOf(s)'
      BY <1>5, <3>1 DEF HandlersOf, Busy, new
    <3>. QED BY <2>2, <3>2 DEF Attended
  <2>3. CASE ~(t = s /\ R # {} /\ HandlersOf(s) = {})
    <3>1. t \notin unsure /\ down'[t] = down[t]
      BY <1>4, <1>13, <2>3
    <3>2. Settled(t)' <=> Settled(t)
      BY <1>8, <3>1 DEF Settled
    <3>. QED BY <2>1, <3>1, <3>2 DEF StatusInv, Attended
  <2>. QED BY <2>2, <2>3
<1>14. ASSUME NEW h \in Handlers, Busy(h)', handler'[h].svc \notin unsure' PROVE Fits(h)'
  <2>1. CASE h \in new
    <3>1. /\ handler'[h].pc = "byEvent" /\ handler'[h].svc = s
          /\ handler'[h].down = down'[s]
          /\ handler'[h].event = published + 1
      BY <1>4, <1>5, <2>1
    <3>2. ~Known(h)'
      <4>1. \A i \in DOMAIN incidents :
               incidents[i].opening # published + 1 /\ incidents[i].closing # published + 1
        BY <1>3 DEF TableOK, Incident, StatusInv, EventsPassed
      <4>. QED BY <1>2, <3>1, <4>1 DEF Known
    <3>. QED BY <3>1, <3>2 DEF Fits
  <2>2. CASE h \notin new
    <3>1. handler'[h] = handler[h] /\ Busy(h) /\ handler[h].svc \in Services
      BY <1>6, <1>14, <2>2 DEF Busy, StatusInv, IncidentInv, HandlersOK
    <3>2. ~(handler[h].svc = s /\ HandlersOf(s) = {})
      BY <3>1 DEF HandlersOf
    <3>3. handler[h].svc \notin unsure /\ down'[handler[h].svc] = down[handler[h].svc]
      <4>1. CASE handler[h].svc = s
        <5>1. HandlersOf(s) # {}
          BY <3>2, <4>1
        <5>2. s \notin unsure'
          BY <1>14, <3>1, <4>1
        <5>. QED BY <1>4, <4>1, <5>1, <5>2
      <4>2. CASE handler[h].svc # s
        BY <1>4, <1>14, <3>1, <4>2
      <4>. QED BY <4>1, <4>2
    <3>4. Settled(handler[h].svc)' <=> Settled(handler[h].svc)
      BY <1>8, <3>1, <3>3 DEF Settled
    <3>5. Known(h)' = Known(h)
      BY <1>2, <3>1, KnownStays
    <3>6. Fits(h)
      BY <3>1, <3>3 DEF StatusInv
    <3>. QED BY <1>8, <3>1, <3>3, <3>4, <3>5, <3>6 DEF Fits
  <2>. QED BY <2>1, <2>2
<1>. QED BY <1>9, <1>11, <1>12, <1>13, <1>14 DEF StatusInv

LEMMA PublishSteps ==
    ASSUME StatusInv, IncidentInv', NEW s \in Services, NEW st \in Statuses,
           NEW R \in SUBSET Workers, Publish(s, st, R)
    PROVE  StatusInv'
<1>1. incidents' = incidents /\ published' = published + 1 /\ published \in Nat
  BY DEF Publish, StatusInv, IncidentInv, HandlersOK
<1>2. CASE st = "unknown"
  <2>1. UNCHANGED <<handler, down, unsure>>
    BY <1>2 DEF Publish, Heeded
  <2>2. \A t : OpenFor(t)' = OpenFor(t) /\ (Settled(t)' <=> Settled(t))
    BY <1>1, <2>1 DEF OpenFor, Settled
  <2>3. \A h \in Handlers : OnItsWay(h)'
    <3>1. \A h \in Handlers : handler[h].event \in Nat
      BY DEF StatusInv, IncidentInv, HandlersOK, HandlerState
    <3>. QED BY <1>1, <2>1, <3>1 DEF StatusInv, OnItsWay, Busy
  <2>4. OneSubject' /\ EventsPassed' /\ OneOpen'
    <3>1. \A i \in DOMAIN incidents : incidents[i] \in Incident
      BY DEF StatusInv, IncidentInv, TableOK
    <3>2. \A i \in DOMAIN incidents : incidents[i].opening \in Nat /\ incidents[i].closing \in Nat
      BY <3>1 DEF Incident
    <3>. QED BY <1>1, <2>1, <3>2 DEF StatusInv, OneSubject, EventsPassed, OneOpen, Busy
  <2>5. \A t \in Services \ unsure' : Attended(t)'
    BY <2>1, <2>2 DEF StatusInv, Attended, HandlersOf, Busy
  <2>6. ASSUME NEW h \in Handlers, Busy(h)', handler'[h].svc \notin unsure' PROVE Fits(h)'
    <3>1. Known(h)' = Known(h)
      BY <1>1, <2>1, KnownStays
    <3>. QED BY <2>1, <2>2, <2>6, <3>1 DEF StatusInv, Fits, Busy
  <2>. QED BY <2>3, <2>4, <2>5, <2>6 DEF StatusInv
<1>3. CASE st # "unknown"
  <2>. DEFINE d == st = "unavailable"
  <2>1. Receive(s, d, R)
    BY <1>3 DEF Publish, Heeded
  <2>2. down' = [down EXCEPT ![s] = d]
    BY <1>3 DEF Publish
  <2>3. unsure' = IF R # {} /\ HandlersOf(s) = {} THEN unsure \ {s}
                  ELSE IF d = down[s] THEN unsure ELSE unsure \cup {s}
    BY <1>3, Zenon DEF Publish
  <2>4. d \in BOOLEAN
    OBVIOUS
  <2>. HIDE DEF d
  <2>. QED BY <1>1, <2>1, <2>2, <2>3, <2>4, HeededSteps
<1>. QED BY <1>2, <1>3

\* A worker dies: whatever its handlers were at work on is no longer sure.
LEMMA CrashSteps ==
    ASSUME StatusInv, IncidentInv', NEW w \in Workers, Crash(w)
    PROVE  StatusInv'
<1>. DEFINE lost == {h \in Handlers : handler[h].worker = w}
<1>1. /\ handler' = [h \in Handlers |-> IF h \in lost THEN NoHandler ELSE handler[h]]
      /\ unsure' = unsure \cup {handler[h].svc : h \in lost}
      /\ UNCHANGED <<incidents, down, published>>
  BY DEF Crash
<1>2. \A h \in lost : handler'[h] = NoHandler /\ handler[h].svc \in unsure'
  BY <1>1
<1>3. \A h \in Handlers \ lost : handler'[h] = handler[h]
  BY <1>1
<1>4. unsure \subseteq unsure'
  BY <1>1
<1>. HIDE DEF lost
<1>5. \A s : OpenFor(s)' = OpenFor(s) /\ (Settled(s)' <=> Settled(s))
  BY <1>1 DEF OpenFor, Settled
<1>6. ASSUME NEW h \in Handlers PROVE OnItsWay(h)'
  <2>1. CASE h \in lost
    BY <1>1, <1>2, <2>1
       DEF OnItsWay, NoHandler, NoEvent, Busy, StatusInv, IncidentInv, TableOK, HandlersOK
  <2>2. CASE h \notin lost
    BY <1>1, <1>3, <2>2 DEF StatusInv, OnItsWay, Busy
  <2>. QED BY <2>1, <2>2
<1>7. \A h \in Handlers : Busy(h)' => h \notin lost /\ handler'[h] = handler[h] /\ Busy(h)
  BY <1>2, <1>3 DEF Busy, NoHandler
<1>8. OneSubject' /\ EventsPassed' /\ OneOpen'
  BY <1>1, <1>7 DEF StatusInv, OneSubject, EventsPassed, OneOpen
<1>9. ASSUME NEW s \in Services, s \notin unsure' PROVE Attended(s)'
  <2>1. \A h \in HandlersOf(s) : h \notin lost
    BY <1>2, <1>9 DEF HandlersOf
  <2>2. HandlersOf(s) \subseteq HandlersOf(s)'
    BY <1>3, <2>1 DEF HandlersOf, Busy
  <2>. QED BY <1>4, <1>5, <1>9, <2>2 DEF StatusInv, Attended
<1>10. ASSUME NEW h \in Handlers, Busy(h)', handler'[h].svc \notin unsure' PROVE Fits(h)'
  <2>1. handler'[h] = handler[h] /\ Fits(h)
    BY <1>4, <1>7, <1>10 DEF StatusInv
  <2>2. Known(h)' = Known(h)
    BY <1>1, <2>1, KnownStays
  <2>. QED BY <1>1, <1>5, <2>1, <2>2 DEF Fits
<1>. QED BY <1>6, <1>8, <1>9, <1>10 DEF StatusInv
LEMMA NextStatus ==
    ASSUME StatusInv, [Next]_vars,
           \A h \in Handlers : FanOutThrows(h) => handler[h].pc = "tell"
    PROVE  StatusInv'
<1>1. IncidentInv'
  BY NextIncidents DEF StatusInv
<1>2. ASSUME NEW s \in Services, NEW st \in Statuses,
             NEW R \in SUBSET Workers, Publish(s, st, R) PROVE StatusInv'
  BY <1>1, <1>2, PublishSteps
<1>3. ASSUME NEW w \in Workers, Crash(w) PROVE StatusInv'
  BY <1>1, <1>3, CrashSteps
<1>4. ASSUME NEW h \in Handlers, HandleStatusChanged(h) PROVE StatusInv'
  <2>1. CASE FindByEventId(h) \/ FindOpen(h)
    BY <1>1, <2>1, ReadSteps
  <2>2. CASE Conflict(h) \/ ConflictByEvent(h)
    BY <1>1, <2>2, ConflictSteps
  <2>3. CASE OpenAvailability(h)
    BY <1>1, <2>3, OpenSettles
  <2>4. CASE Resolve(h)
    BY <1>1, <2>4, ResolveSettles
  <2>5. CASE Tell(h) \/ FanOutEnds(h) \/ FanOutThrows(h)
    BY <1>1, <2>5, FanOutSteps DEF Tell, FanOutEnds
  <2>6. CASE CallStep(h)
    BY <1>1, <2>6, EngineAlone DEF CallStep
  <2>. QED BY <1>4, <2>1, <2>2, <2>3, <2>4, <2>5, <2>6 DEF HandleStatusChanged
<1>5. CASE UNCHANGED engineVars
  BY <1>1, <1>5, EngineAlone
<1>. QED BY <1>2, <1>3, <1>4, <1>5 DEF Next, vars
-----------------------------------------------------------------------------
(***************************************************************************)
(* The calls of the centre that the handlers make, and the types.          *)
(***************************************************************************)
OnlyFanOutsCall == \A h \in Handlers : ~Idle(h) => handler[h].pc = "tell"

CallsInv == InboxTypes /\ OnlyFanOutsCall /\ unsure \subseteq Services

LEMMA KeysAreKeys ==
    ASSUME StatusInv, Len(incidents) <= MaxIncidents, NEW h \in Handlers,
           handler[h].pc = "tell"
    PROVE  KeyOf(h) \in Keys
<1>1. handler[h].svc \in Services /\ handler[h].incident \in 1..MaxIncidents
  <2>1. Busy(h) /\ handler[h] \in HandlerState
    BY MoverFits DEF Busy
  <2>2. handler[h].incident # 0 /\ handler[h].incident <= Len(incidents)
    BY DEF StatusInv, OnItsWay
  <2>3. Len(incidents) \in Nat
    BY <2>1, MoverFits DEF TableOK
  <2>. QED BY <2>1, <2>2, <2>3, MoverFits, EngineAssumption DEF HandlerState
<1>. QED BY <1>1, EngineAssumption DEF KeyOf

LEMMA CallTypes ==
    ASSUME InboxTypes, NEW c \in Callers, CreateForUser(c)
    PROVE  InboxTypes'
BY FindTypes, UpdateTypes, CreateTypes, CountTypes, KeepTypes, DeleteTypes DEF CreateForUser

LEMMA CutTypes ==
    ASSUME InboxTypes, NEW C, CutCalls(C), UNCHANGED <<clock, notes, nextNote, acts, raced>>
    PROVE  InboxTypes' /\ \A c \in Callers : ~Idle(c)' => c \notin C /\ ~Idle(c)
<1>1. \A c \in Callers : call'[c] = IF c \in C THEN NoCall ELSE call[c]
  BY DEF CutCalls
<1>2. call' \in [Callers -> Call] /\ CallsAreFor'
  BY <1>1, NoCallIsCall DEF CutCalls, InboxTypes, CenterTypeOK, CallsAreFor, Idle
<1>3. disturbed' \subseteq Callers
  BY DEF CutCalls, InboxTypes, CenterTypeOK
<1>. QED BY <1>1, <1>2, <1>3, NoCallIsCall DEF InboxTypes, CenterTypeOK, Idle

\* The other calls do not move.
LEMMA CallOfOne ==
    ASSUME InboxTypes, NEW c \in Callers,
           CreateForUser(c) \/ CreateForUserFails(c)
    PROVE  ~Idle(c) /\ \A d \in Callers \ {c} : call'[d] = call[d]
<1>1. ~Idle(c)
  BY DEF CreateForUser, CreateForUserFails, FindRecentByDedup, UpdateCoalesced, Create, Count,
         Keep, DeleteOldestBeyondCap, CoalesceFails, CreateFails, Idle
<1>2. \E x : call' = [call EXCEPT ![c] = x]
  <2>1. CASE FindRecentByDedup(c)
    BY <2>1, Zenon DEF FindRecentByDedup
  <2>2. CASE UpdateCoalesced(c) \/ Count(c) \/ DeleteOldestBeyondCap(c) \/ CreateForUserFails(c)
    BY <2>2, Zenon DEF UpdateCoalesced, Count, DeleteOldestBeyondCap, CreateForUserFails,
       CoalesceFails, CreateFails, Ends
  <2>3. CASE Create(c) \/ Keep(c)
    BY <2>3, Zenon DEF Create, Keep
  <2>. QED BY <2>1, <2>2, <2>3 DEF CreateForUser
<1>. QED BY <1>1, <1>2 DEF InboxTypes, CenterTypeOK
Capped == Len(incidents) <= MaxIncidents

EngineInv == StatusInv /\ CallsInv /\ Capped

LEMMA NextCapped ==
    ASSUME StatusInv, Capped, [Next]_vars
    PROVE  Capped'
<1>1. TableOK
  BY DEF StatusInv, IncidentInv
<1>2. ASSUME NEW h \in Handlers, OpenAvailability(h) PROVE Capped'
  <2>. DEFINE row == [svc |-> handler[h].svc, status |-> "open",
                      opening |-> handler[h].event, closing |-> NoEvent]
  <2>1. \/ incidents' = incidents
        \/ Len(incidents) < MaxIncidents /\ incidents' = Append(incidents, row)
    BY <1>2 DEF OpenAvailability
  <2>. HIDE DEF row
  <2>2. Len(incidents) \in Nat /\ Len(Append(incidents, row)) = Len(incidents) + 1
    BY <1>1 DEF TableOK
  <2>. QED BY <2>1, <2>2, EngineAssumption DEF Capped
<1>3. ASSUME NEW h \in Handlers, Resolve(h) PROVE Capped'
  <2>1. incidents' = incidents \/ \E x : incidents' = [incidents EXCEPT ![handler[h].incident] = x]
    <3>. DEFINE i == handler[h].incident
    <3>1. CASE StillOpen(i)
      <4>1. incidents' = [incidents EXCEPT ![i] = [incidents[i] EXCEPT
                            !.status = "resolved", !.closing = handler[h].event]]
        BY <1>3, <3>1 DEF Resolve
      <4>. QED BY <4>1
    <3>2. CASE ~StillOpen(i)
      BY <1>3, <3>2 DEF Resolve
    <3>. QED BY <3>1, <3>2
  <2>2. Len(incidents') = Len(incidents)
    BY <1>1, <2>1 DEF TableOK
  <2>. QED BY <2>2 DEF Capped
<1>4. CASE UNCHANGED incidents
  BY <1>4 DEF Capped
<1>5. ASSUME NEW h \in Handlers, HandleStatusChanged(h) PROVE Capped'
  BY <1>2, <1>3, <1>4, <1>5
     DEF HandleStatusChanged, FindByEventId, FindOpen, Conflict, ConflictByEvent, Tell,
         CallStep, engineVars, FanOutEnds, FanOutThrows
<1>6. ASSUME NEW s \in Services, NEW st \in Statuses,
             NEW R \in SUBSET Workers, Publish(s, st, R) PROVE Capped'
  BY <1>4, <1>6 DEF Publish
<1>7. ASSUME NEW w \in Workers, Crash(w) PROVE Capped'
  BY <1>4, <1>7 DEF Crash
<1>. QED BY <1>4, <1>5, <1>6, <1>7 DEF Next, vars, engineVars

\* A step of the engine in which no call moves, and no handler leaves tell.
LEMMA CallsRest ==
    ASSUME CallsInv, UNCHANGED centerVars, unsure' \subseteq Services,
           \A h \in Handlers : ~Idle(h) => handler'[h].pc = "tell"
    PROVE  CallsInv'
<1>1. UNCHANGED <<clock, notes, nextNote, call, acts, disturbed, raced>>
  BY DEF centerVars
<1>2. InboxTypes'
  BY <1>1 DEF CallsInv, InboxTypes, CenterTypeOK, CallsAreFor, Idle
<1>. QED BY <1>1, <1>2 DEF CallsInv, OnlyFanOutsCall, Idle

LEMMA NextCalls ==
    ASSUME EngineInv, [Next]_vars
    PROVE  CallsInv'
<1>. USE EngineAssumption
<1>0. /\ StatusInv /\ CallsInv /\ InboxTypes /\ OnlyFanOutsCall /\ HandlersOK /\ Capped
      /\ unsure \subseteq Services
  BY DEF EngineInv, CallsInv, StatusInv, IncidentInv
<1>1. ASSUME NEW s \in Services, NEW st \in Statuses,
             NEW R \in SUBSET Workers, Publish(s, st, R) PROVE CallsInv'
  <2>1. UNCHANGED centerVars /\ unsure' \subseteq Services
    BY <1>0, <1>1 DEF Publish
  <2>2. \A h \in Handlers : Busy(h) => handler'[h] = handler[h]
    <3>1. CASE Heeded(st)
      <4>1. Receive(s, st = "unavailable", R)
        BY <1>1, <3>1 DEF Publish
      <4>2. PICK slot \in [R -> {h \in Handlers : ~Busy(h)}] :
               handler' = [h \in Handlers |->
                 IF \E w \in R : slot[w] = h
                 THEN [NoHandler EXCEPT !.pc = "byEvent", !.svc = s,
                                        !.down = (st = "unavailable"),
                                        !.worker = CHOOSE w \in R : slot[w] = h,
                                        !.event = published + 1]
                 ELSE handler[h]]
        BY <4>1 DEF Receive
      <4>3. ASSUME NEW h \in Handlers, Busy(h) PROVE ~\E w \in R : slot[w] = h
        BY <4>3
      <4>. QED BY <4>2, <4>3
    <3>2. CASE ~Heeded(st)
      BY <1>1, <3>2 DEF Publish
    <3>. QED BY <3>1, <3>2
  <2>3. ASSUME NEW h \in Handlers, ~Idle(h) PROVE handler'[h].pc = "tell"
    <3>1. handler[h].pc = "tell"
      BY <1>0, <2>3 DEF OnlyFanOutsCall
    <3>. QED BY <2>2, <3>1 DEF Busy
  <2>. QED BY <1>0, <2>1, <2>3, CallsRest
<1>2. ASSUME NEW w \in Workers, Crash(w) PROVE CallsInv'
  <2>. DEFINE lost == {h \in Handlers : handler[h].worker = w}
  <2>1. /\ CutCalls(lost) /\ UNCHANGED <<clock, notes, nextNote, acts, raced>>
        /\ \A h \in Handlers \ lost : handler'[h] = handler[h]
        /\ unsure' = unsure \cup {handler[h].svc : h \in lost}
    BY <1>2 DEF Crash
  <2>. HIDE DEF lost
  <2>2. InboxTypes' /\ \A c \in Callers : ~Idle(c)' => c \notin lost /\ ~Idle(c)
    BY <1>0, <2>1, CutTypes
  <2>3. OnlyFanOutsCall'
    BY <1>0, <2>1, <2>2 DEF OnlyFanOutsCall
  <2>4. unsure' \subseteq Services
    <3>1. \A h \in lost : Busy(h)
      BY <1>0 DEF lost, StatusInv, OnItsWay
    <3>2. \A h \in lost : handler[h].svc \in Services
      BY <1>0, <3>1 DEF lost, HandlersOK
    <3>. QED BY <1>0, <2>1, <3>2
  <2>. QED BY <2>2, <2>3, <2>4 DEF CallsInv
<1>3. ASSUME NEW h \in Handlers, HandleStatusChanged(h) PROVE CallsInv'
  <2>1. CASE /\ UNCHANGED <<centerVars, unsure>> /\ handler[h].pc # "tell"
             /\ \E x : handler' = [handler EXCEPT ![h] = x]
    <3>1. \A g \in Handlers \ {h} : handler'[g] = handler[g]
      BY <1>0, <2>1 DEF HandlersOK
    <3>2. \A g \in Handlers : ~Idle(g) => handler'[g].pc = "tell"
      BY <1>0, <2>1, <3>1 DEF OnlyFanOutsCall
    <3>. QED BY <1>0, <2>1, <3>2, CallsRest
  <2>2. CASE FindByEventId(h) \/ FindOpen(h) \/ Conflict(h) \/ ConflictByEvent(h)
    <3>1. UNCHANGED <<centerVars, unsure>> /\ handler[h].pc # "tell"
      BY <2>2 DEF FindByEventId, FindOpen, Conflict, ConflictByEvent
    <3>2. \E x : handler' = [handler EXCEPT ![h] = x]
      <4>1. CASE \E pc : Goto(h, pc)
        BY <4>1 DEF Goto
      <4>2. CASE \E i : Announces(h, i)
        BY <4>2 DEF Announces
      <4>3. CASE Returns(h)
        BY <4>3 DEF Returns
      <4>4. CASE \E i : handler' = [handler EXCEPT ![h].pc = "resolve", ![h].incident = i]
        BY <4>4
      <4>. QED BY <2>2, <4>1, <4>2, <4>3, <4>4
               DEF FindByEventId, FindOpen, Conflict, ConflictByEvent
    <3>. QED BY <2>1, <3>1, <3>2
  <2>3. CASE OpenAvailability(h) \/ Resolve(h)
    <3>1. UNCHANGED <<centerVars, unsure>> /\ handler[h].pc # "tell"
      BY <2>3 DEF OpenAvailability, Resolve
    <3>2. \/ \E pc : Goto(h, pc)
          \/ \E i : Announces(h, i)
          \/ Returns(h)
      BY <2>3 DEF OpenAvailability, Resolve
    <3>3. \E x : handler' = [handler EXCEPT ![h] = x]
      BY <3>2 DEF Goto, Announces, Returns
    <3>. QED BY <2>1, <3>1, <3>3
  <2>4. CASE Tell(h)
    <3>1. handler[h].pc = "tell" /\ unsure' = unsure
      BY <2>4 DEF Tell
    <3>2. PICK u \in handler[h].todo :
            Begin(h, u, KeyOf(h)) /\ handler' = [handler EXCEPT ![h].todo = @ \ {u}]
      BY <2>4 DEF Tell
    <3>3. u \in Users /\ KeyOf(h) \in Keys
      BY <1>0, <3>1, KeysAreKeys DEF HandlersOK, HandlerState, Capped
    <3>4. InboxTypes'
      BY <1>0, <3>2, <3>3, BeginTypes
    <3>5. \A g \in Handlers : handler'[g].pc = handler[g].pc
      BY <1>0, <3>2 DEF HandlersOK, HandlerState
    <3>6. \A g \in Handlers \ {h} : call'[g] = call[g]
      BY <1>0, <3>2 DEF Begin, InboxTypes, CenterTypeOK
    <3>7. OnlyFanOutsCall'
      BY <1>0, <3>1, <3>5, <3>6 DEF OnlyFanOutsCall, Idle
    <3>. QED BY <1>0, <3>1, <3>4, <3>7 DEF CallsInv
  <2>5. CASE CallStep(h)
    <3>1. CreateForUser(h) /\ UNCHANGED <<handler, unsure>>
      BY <2>5 DEF CallStep, engineVars
    <3>2. InboxTypes' /\ ~Idle(h) /\ \A d \in Callers \ {h} : call'[d] = call[d]
      BY <1>0, <3>1, CallTypes, CallOfOne
    <3>. QED BY <1>0, <3>1, <3>2 DEF CallsInv, OnlyFanOutsCall, Idle
  <2>6. CASE FanOutThrows(h)
    <3>1. CreateForUserFails(h) /\ Returns(h) /\ unsure' = unsure
      BY <2>6 DEF FanOutThrows
    <3>2. InboxTypes' /\ \A d \in Callers \ {h} : call'[d] = call[d]
      BY <1>0, <3>1, FailsTypes, CallOfOne
    <3>3. Idle(h)'
      BY <1>0, <3>1, NoCallIsCall
         DEF CreateForUserFails, CoalesceFails, CreateFails, Ends, Idle, InboxTypes, CenterTypeOK
    <3>4. \A g \in Handlers \ {h} : handler'[g] = handler[g]
      BY <1>0, <3>1, ReturnMoves DEF Others
    <3>. QED BY <1>0, <3>1, <3>2, <3>3, <3>4 DEF CallsInv, OnlyFanOutsCall, Idle
  <2>7. CASE FanOutEnds(h)
    <3>1. UNCHANGED <<centerVars, unsure>> /\ Idle(h) /\ Returns(h)
      BY <2>7 DEF FanOutEnds
    <3>2. \A g \in Handlers \ {h} : handler'[g] = handler[g]
      BY <1>0, <3>1, ReturnMoves DEF Others
    <3>3. \A g \in Handlers : ~Idle(g) => handler'[g].pc = "tell"
      BY <1>0, <3>1, <3>2 DEF OnlyFanOutsCall
    <3>. QED BY <1>0, <3>1, <3>3, CallsRest
  <2>. QED BY <1>3, <2>2, <2>3, <2>4, <2>5, <2>6, <2>7 DEF HandleStatusChanged
<1>4. CASE Environment /\ UNCHANGED engineVars
  <2>1. InboxTypes' /\ UNCHANGED <<call, handler, unsure>>
    BY <1>0, <1>4, EnvironmentTypes DEF engineVars
  <2>. QED BY <1>0, <2>1 DEF CallsInv, OnlyFanOutsCall, Idle
<1>5. CASE UNCHANGED vars
  <2>1. UNCHANGED <<centerVars, handler, unsure>>
    BY <1>5 DEF vars, engineVars
  <2>. QED BY <1>0, <2>1, CallsRest DEF OnlyFanOutsCall
<1>. QED BY <1>1, <1>2, <1>3, <1>4, <1>5 DEF Next
LEMMA InitEngine == Init => EngineInv
<1>. SUFFICES ASSUME Init PROVE EngineInv
  OBVIOUS
<1>1. InboxTypes /\ \A h \in Handlers : Idle(h)
  BY InitTypes, EngineAssumption DEF Init, CenterInit, Idle, NoCall
<1>2. unsure \subseteq Services /\ Len(incidents) = 0
  BY DEF Init
<1>. QED BY <1>1, <1>2, InitStatus, EngineAssumption
         DEF EngineInv, CallsInv, OnlyFanOutsCall, Capped

LEMMA NextEngine == EngineInv /\ [Next]_vars => EngineInv'
<1>. SUFFICES ASSUME EngineInv, [Next]_vars PROVE EngineInv'
  OBVIOUS
<1>1. \A h \in Handlers : FanOutThrows(h) => handler[h].pc = "tell"
  <2>1. InboxTypes /\ OnlyFanOutsCall
    BY DEF EngineInv, CallsInv
  <2>2. \A h \in Handlers : CreateForUserFails(h) => ~Idle(h)
    BY <2>1, CallOfOne, EngineAssumption
  <2>. QED BY <2>1, <2>2 DEF FanOutThrows, OnlyFanOutsCall
<1>2. StatusInv'
  BY <1>1, NextStatus DEF EngineInv
<1>3. CallsInv' /\ Capped'
  BY NextCalls, NextCapped DEF EngineInv
<1>. QED BY <1>2, <1>3 DEF EngineInv

\* Every variable of the engine, the table and the calls it makes has its
\* type: numbers of events and incidents are ones there are, and only a
\* handler that fans out has a call in progress.
THEOREM EngineTypes == Spec => []TypeOK
<1>1. ASSUME EngineInv PROVE TypeOK
  <2>1. /\ CenterTypeOK /\ OnlyFanOutsCall /\ unsure \subseteq Services
        /\ HandlersOK /\ TableOK
    BY <1>1 DEF EngineInv, CallsInv, InboxTypes, StatusInv, IncidentInv
  <2>2. \A i \in DOMAIN incidents : incidents[i] \in Incident
    BY <2>1 DEF TableOK
  <2>3. \A h \in Handlers : handler[h] \in HandlerState /\ OnItsWay(h)
    BY <1>1, <2>1 DEF EngineInv, StatusInv, HandlersOK
  <2>4. Len(incidents) \in Nat /\ published \in Nat /\ down \in [Services -> BOOLEAN]
    BY <2>1 DEF TableOK, HandlersOK
  <2>5. \A h \in Handlers :
           /\ handler[h].pc \in HandlerSteps
           /\ handler[h].worker \in Workers \cup {NoWorker}
           /\ handler[h].event \in 0..published
           /\ handler[h].incident \in 0..Len(incidents)
           /\ handler[h].pc \in {"resolve", "tell"} => handler[h].incident # 0
    BY <2>3, <2>4 DEF HandlerState, OnItsWay
  <2>. QED BY <2>1, <2>2, <2>4, <2>5 DEF TypeOK, OnlyFanOutsCall
<1>. QED BY <1>1, InitEngine, NextEngine, PTL DEF Spec

\* An integration nobody is at work on has an open incident exactly if its
\* last status was "unavailable", unless its event was lost or disturbed.
THEOREM BookFollows == Spec => []BookFollowsStatus
<1>1. ASSUME EngineInv PROVE BookFollowsStatus
  <2>1. \A s \in Services \ unsure : HandlersOf(s) = {} => Settled(s)
    BY <1>1 DEF EngineInv, StatusInv, Attended
  <2>2. down \in [Services -> BOOLEAN]
    BY <1>1 DEF EngineInv, StatusInv, IncidentInv, HandlersOK
  <2>3. ASSUME NEW s \in Services \ unsure, HandlersOf(s) = {}
        PROVE  (OpenFor(s) # {}) = down[s]
    <3>1. down[s] \in BOOLEAN
      BY <2>2
    <3>2. OpenFor(s) # {} <=> down[s]
      BY <2>1, <2>3 DEF Settled
    <3>. QED BY <3>1, <3>2, Zenon
  <2>. QED BY <2>3 DEF BookFollowsStatus
<1>. QED BY <1>1, InitEngine, NextEngine, PTL DEF Spec

\* Nobody is told that an integration is down by a handler whose incident is
\* over, unless events of the integration overlapped.
THEOREM NoAlarmIsStale == Spec => []NoStaleAlarm
<1>1. ASSUME EngineInv PROVE NoStaleAlarm
  <2>. SUFFICES ASSUME NEW h \in Handlers, handler[h].pc = "tell", handler[h].down,
                       handler[h].svc \notin unsure
                PROVE  incidents[handler[h].incident].status # "resolved"
    BY DEF NoStaleAlarm
  <2>1. Fits(h)
    BY <1>1 DEF EngineInv, StatusInv, Busy
  <2>. QED BY <2>1 DEF Fits, OpenFor
<1>. QED BY <1>1, InitEngine, NextEngine, PTL DEF Spec
=============================================================================
