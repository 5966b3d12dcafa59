--------------------------- MODULE IncidentEngine ---------------------------
(***************************************************************************)
(* The incident engine of packages/notifications as the workers run it:    *)
(* every worker that is subscribed to the event bus handles every          *)
(* integration.status.changed, statement by statement, against one         *)
(* PostgreSQL store, and announces what it opened or resolved through the  *)
(* notification centre.                                                    *)
(*                                                                         *)
(* The bus keeps nothing: an event reaches the workers that are connected  *)
(* when it is published, or none.  A worker starts a handler for it at     *)
(* once and awaits no other handler, so handlers of one worker interleave  *)
(* like those of several.  A handler that throws is dropped.               *)
(***************************************************************************)
EXTENDS NotificationCenter, Sequences

CONSTANTS
    Services,     \* integrations
    Workers,
    NoWorker,
    Handlers,     \* slots for handlers in progress (bound)
    OpenKey,      \* Services -> deduplication key of the opening
    RecoverKey,   \* deduplication key of the recovery of each incident
    MaxEvents, MaxIncidents, MaxCrashes   \* bounds

ASSUME EngineAssumption ==
    /\ Handlers = Callers
    /\ NoWorker \notin Workers
    /\ MaxIncidents \in Nat
    /\ OpenKey \in [Services -> Keys]
    /\ RecoverKey \in [1..MaxIncidents -> Keys]

VARIABLES
    incidents,   \* the table, in order of insertion
    handler,     \* Handlers -> progress of handleStatusChanged
    down,        \* Services -> last status published but "unknown": is it unavailable?
    published,   \* events so far
    crashes,
    unsure,      \* history: services whose last event was lost, cut or overtaken
    recoveries   \* history: number of fan-outs of the recovery of each incident

engineVars == <<incidents, handler, down, published, crashes, unsure, recoveries>>
vars == <<centerVars, engineVars>>

Statuses == {"available", "unavailable", "unknown"}

\* buildStatusEventId: the event, named by the order of publication.
Incident == [svc : Services, status : {"open", "resolved"},
             opening : Nat, closing : Nat]
NoEvent == 0

HandlerSteps == {"idle", "byEvent", "findOpen", "open", "conflict", "conflictByEvent",
                 "resolve", "tell"}
NoHandler == [pc |-> "idle", worker |-> NoWorker, svc |-> "none", down |-> FALSE,
              event |-> NoEvent, incident |-> 0, todo |-> {}]
Busy(h) == handler[h].pc # "idle"
OpenFor(s) == {i \in DOMAIN incidents : incidents[i].svc = s /\ incidents[i].status = "open"}

Init ==
    /\ CenterInit
    /\ incidents = << >>
    /\ handler = [h \in Handlers |-> NoHandler]
    /\ down = [s \in Services |-> FALSE]
    /\ published = 0
    /\ crashes = 0
    /\ unsure = {}
    /\ recoveries = << >>

Goto(h, pc) == handler' = [handler EXCEPT ![h].pc = pc]
Returns(h) == handler' = [handler EXCEPT ![h] = NoHandler]

\* The incident is committed: the users to tell are listed.  They are a
\* constant here, so that the listing is part of the step that calls for it.
Announces(h, i) ==
    handler' = [handler EXCEPT ![h].pc = "tell", ![h].incident = i, ![h].todo = Users]
-----------------------------------------------------------------------------
HandlersOf(s) == {h \in Handlers : Busy(h) /\ handler[h].svc = s}

\* bus.subscribe: every receiver starts a handler and waits for none.  Slots are
\* interchangeable, so that any injection of the receivers will do.
Receive(s, unavailable, R) ==
    LET free == {h \in Handlers : ~Busy(h)} IN
    \E slot \in [R -> free] :
        /\ \A v, w \in R : v # w => slot[v] # slot[w]
        /\ handler' = [h \in Handlers |->
             IF \E w \in R : slot[w] = h
             THEN [NoHandler EXCEPT !.pc = "byEvent", !.svc = s, !.down = unavailable,
                                    !.worker = CHOOSE w \in R : slot[w] = h,
                                    !.event = published + 1]
             ELSE handler[h]]

\* (faulty) Whatever is not "unavailable" is a recovery.
HeededAlike(status) == TRUE

\* handleStatusChanged: "unknown" neither opens nor resolves.
Heeded(status) == status # "unknown"

(***************************************************************************)
(* The integration service publishes the status of every connection test,  *)
(* whether it has changed or not, and "unknown" when an edit has reset it. *)
(* History: an integration is unsure from an event that contradicts the    *)
(* last one and reached nobody, or reached somebody before the handlers of *)
(* earlier ones were through, to an event that finds a receiver and no     *)
(* handler at work.  A repeat disturbs nothing, whoever receives it.       *)
(***************************************************************************)
Publish(s, status, R) ==
    LET unavailable == status = "unavailable" IN
    /\ published < MaxEvents
    /\ published' = published + 1
    /\ IF Heeded(status) THEN Receive(s, unavailable, R) ELSE UNCHANGED handler
    /\ IF status = "unknown" THEN UNCHANGED <<down, unsure>>
       ELSE /\ down' = [down EXCEPT ![s] = unavailable]
            /\ unsure' = IF R # {} /\ HandlersOf(s) = {} THEN unsure \ {s}
                         ELSE IF unavailable = down[s] THEN unsure ELSE unsure \cup {s}
    /\ UNCHANGED <<centerVars, incidents, crashes, recoveries>>

Known(h) ==
    \E i \in DOMAIN incidents :
        handler[h].event = IF handler[h].down THEN incidents[i].opening ELSE incidents[i].closing

FindByEventId(h) ==
    /\ handler[h].pc = "byEvent"
    /\ IF Known(h) THEN Returns(h) ELSE Goto(h, "findOpen")
    /\ UNCHANGED <<centerVars, incidents, down, published, crashes, unsure, recoveries>>

\* Down and already open, or up and nothing open: a no-op.
FindOpen(h) ==
    LET open == OpenFor(handler[h].svc) IN
    /\ handler[h].pc = "findOpen"
    /\ IF handler[h].down
       THEN IF open # {} THEN Returns(h) ELSE Goto(h, "open")
       ELSE IF open = {} THEN Returns(h)
            ELSE \E i \in open : handler' = [handler EXCEPT ![h].pc = "resolve",
                                                            ![h].incident = i]
    /\ UNCHANGED <<centerVars, incidents, down, published, crashes, unsure, recoveries>>

\* (faulty) No partial unique index.
AnyInsert(s) == TRUE

\* incidents_open_integration_kind_uq
UniqueOpen(s) == OpenFor(s) = {}

OpenAvailability(h) ==
    LET s == handler[h].svc IN
    /\ handler[h].pc = "open"
    /\ IF UniqueOpen(s)
       THEN /\ Len(incidents) < MaxIncidents
            /\ incidents' = Append(incidents, [svc |-> s, status |-> "open",
                                     opening |-> handler[h].event, closing |-> NoEvent])
            /\ recoveries' = Append(recoveries, 0)
            /\ Announces(h, Len(incidents) + 1)
       ELSE Goto(h, "conflict") /\ UNCHANGED <<incidents, recoveries>>
    /\ UNCHANGED <<centerVars, down, published, crashes, unsure>>

\* (faulty) The incidents of the integration, whatever their status.
AnyWinner(h) == {i \in DOMAIN incidents : incidents[i].svc = handler[h].svc}

Winner(h) == OpenFor(handler[h].svc)

\* The unique index refused the row: whose incident is it?  The caller of
\* openAvailability is not told that the incident is not its own.
Conflict(h) ==
    /\ handler[h].pc = "conflict"
    /\ IF Winner(h) = {} THEN Goto(h, "conflictByEvent")
       ELSE \E i \in Winner(h) : Announces(h, i)
    /\ UNCHANGED <<centerVars, incidents, down, published, crashes, unsure, recoveries>>

ConflictByEvent(h) ==
    LET same == {i \in DOMAIN incidents : incidents[i].opening = handler[h].event} IN
    /\ handler[h].pc = "conflictByEvent"
    /\ IF same = {} THEN Returns(h) ELSE \E i \in same : Announces(h, i)
    /\ UNCHANGED <<centerVars, incidents, down, published, crashes, unsure, recoveries>>

\* (faulty) UPDATE incidents ... WHERE id = :id
AnyStatus(i) == TRUE

\* UPDATE incidents ... WHERE id = :id AND status = 'open'
StillOpen(i) == incidents[i].status = "open"

Resolve(h) ==
    LET i == handler[h].incident IN
    /\ handler[h].pc = "resolve"
    /\ IF StillOpen(i)
       THEN /\ incidents' = [incidents EXCEPT ![i].status = "resolved",
                                              ![i].closing = handler[h].event]
            /\ Announces(h, i)
            /\ recoveries' = [recoveries EXCEPT ![i] = @ + 1]
       ELSE Returns(h) /\ UNCHANGED <<incidents, recoveries>>
    /\ UNCHANGED <<centerVars, down, published, crashes, unsure>>

(***************************************************************************)
(* fanOut: one createForUser after the other; the first that throws ends   *)
(* the fan-out, and the handler.                                           *)
(***************************************************************************)
KeyOf(h) ==
    IF handler[h].down THEN OpenKey[handler[h].svc] ELSE RecoverKey[handler[h].incident]

Tell(h) ==
    /\ handler[h].pc = "tell"
    /\ \E u \in handler[h].todo :
         /\ Begin(h, u, KeyOf(h))
         /\ handler' = [handler EXCEPT ![h].todo = @ \ {u}]
    /\ UNCHANGED <<incidents, down, published, crashes, unsure, recoveries>>

CallStep(h) ==
    /\ CreateForUser(h)
    /\ UNCHANGED engineVars

FanOutEnds(h) ==
    /\ handler[h].pc = "tell" /\ handler[h].todo = {} /\ Idle(h)
    /\ Returns(h)
    /\ UNCHANGED <<centerVars, incidents, down, published, crashes, unsure, recoveries>>

FanOutThrows(h) ==
    /\ CreateForUserFails(h)
    /\ Returns(h)
    /\ UNCHANGED <<incidents, down, published, crashes, unsure, recoveries>>

HandleStatusChanged(h) ==
    \/ FindByEventId(h)
    \/ FindOpen(h)
    \/ OpenAvailability(h)
    \/ Conflict(h)
    \/ ConflictByEvent(h)
    \/ Resolve(h)
    \/ Tell(h)
    \/ CallStep(h)
    \/ FanOutEnds(h)
    \/ FanOutThrows(h)

\* A worker dies and a new one subscribes: nothing is handled again.
Crash(w) ==
    LET lost == {h \in Handlers : handler[h].worker = w} IN
    /\ crashes < MaxCrashes
    /\ crashes' = crashes + 1
    /\ lost # {}
    /\ CutCalls(lost)
    /\ handler' = [h \in Handlers |-> IF h \in lost THEN NoHandler ELSE handler[h]]
    /\ unsure' = unsure \cup {handler[h].svc : h \in lost}
    /\ UNCHANGED <<clock, notes, nextNote, acts, raced, incidents, down, published, recoveries>>

Next ==
    \/ \E s \in Services, status \in Statuses, R \in SUBSET Workers : Publish(s, status, R)
    \/ \E h \in Handlers : HandleStatusChanged(h)
    \/ \E w \in Workers : Crash(w)
    \/ Environment /\ UNCHANGED engineVars

Spec == Init /\ [][Next]_vars
-----------------------------------------------------------------------------
TypeOK ==
    /\ CenterTypeOK
    /\ \A i \in DOMAIN incidents : incidents[i] \in Incident
    /\ \A h \in Handlers :
         /\ handler[h].pc \in HandlerSteps
         /\ handler[h].worker \in Workers \cup {NoWorker}
         /\ handler[h].event \in 0..published
         /\ handler[h].incident \in 0..Len(incidents)
         /\ handler[h].pc \in {"resolve", "tell"} => handler[h].incident # 0
         /\ ~Idle(h) => handler[h].pc = "tell"
    /\ down \in [Services -> BOOLEAN]
    /\ unsure \subseteq Services

\* The table implements the log that it promises to be.
Book == [i \in DOMAIN incidents |-> [svc |-> incidents[i].svc,
                                     status |-> incidents[i].status]]
Ledger == INSTANCE IncidentLedger WITH book <- Book
LedgerSpec == Ledger!Spec

(***************************************************************************)
(* docs/23, "recovery dupliquee -> no-op": whichever workers handle the    *)
(* events, a recovery is announced by one fan-out, and only of an incident *)
(* that is over.                                                           *)
(***************************************************************************)
RecoveryAnnouncedOnce ==
    \A i \in DOMAIN incidents :
        recoveries[i] = IF incidents[i].status = "resolved" THEN 1 ELSE 0

(***************************************************************************)
(* When no handler is at work on an integration, it has an open incident   *)
(* exactly if the last status published other than "unknown" is            *)
(* "unavailable" (docs/23: unknown is a no-op), however often a status is  *)
(* repeated.  The exception is a change that reached no worker, whose      *)
(* handler died, or that met a handler of an earlier event: an "available" *)
(* that overtakes the "unavailable" before it leaves an incident open that *)
(* only a later event, a repeat will do, closes.                           *)
(***************************************************************************)
BookFollowsStatus ==
    \A s \in Services \ unsure :
        HandlersOf(s) = {} => (OpenFor(s) # {}) = down[s]

(***************************************************************************)
(* Nobody is told that an integration is down once its incident is over:   *)
(* a handler that announces an opening announces one that is still open,   *)
(* also the handler whose own insert the unique index refused, unless a    *)
(* handler of another event of the integration ran at the same time.       *)
(***************************************************************************)
NoStaleAlarm ==
    \A h \in Handlers :
        /\ handler[h].pc = "tell" /\ handler[h].down
        /\ incidents[handler[h].incident].status = "resolved"
        => handler[h].svc \in unsure
=============================================================================
