------------------------- MODULE AutomationTriggers -------------------------
(***************************************************************************)
(* The pure part of packages/automations: when does a rule fire?           *)
(*                                                                         *)
(* A rule's stored configuration is a constant here: the scheduler never   *)
(* writes it.  A condition tree is a pure predicate of the event's fields, *)
(* so it is abstracted to the set "accepts" of triples <<integration,      *)
(* previous status, status>> for which it is true.  Times are numbers of   *)
(* clock units; the unit is the granularity at which two instants of a run *)
(* of the model can be told apart.                                         *)
(***************************************************************************)
EXTENDS Integers

CONSTANTS
    Rules,        \* automation rules
    NoRule,       \* "no rule": an idle lane, or an event nobody caused
    Services,     \* integrations that events speak about
    AnyService,   \* a trigger without integrationId filter
    Lookahead,    \* MAX_LOOKAHEAD_MINUTES: how far a cron match is searched for
    Config        \* Rules -> configuration record

\* A null timestamp or a null status of a database column.
NoTime == -1
NoStatus == "none"

Statuses == {"unknown", "available", "unavailable"}
StatusOrNull == Statuses \cup {NoStatus}
TimeOrNull == Nat \cup {NoTime}
TriggerTypes == {"schedule", "event", "status-transition"}
EventTypes == {"integration.status.changed", "integration.data.changed"}

(***************************************************************************)
(* "every" is the interval of an interval schedule, 0 for a cron schedule; *)
(* "slots" is then the set of instants the cron expression matches.        *)
(* "emits" says that the rule's action publishes integration.data.changed  *)
(* for "target" when it succeeds, as every wired safe action does.         *)
(***************************************************************************)
RuleConfig ==
    [trigger     : TriggerTypes,
     every       : Nat,
     slots       : SUBSET Nat,
     cooldown    : Nat,
     forDuration : Nat,
     eventType   : EventTypes,
     from        : Statuses \cup {"*"},
     to          : Statuses \cup {"*"},
     watched     : Services \cup {AnyService},
     accepts     : SUBSET (Services \X StatusOrNull \X StatusOrNull),
     emits       : BOOLEAN,
     target      : Services]

Event ==
    [id     : Nat \ {0},
     type   : EventTypes,
     svc    : Services,
     status : StatusOrNull,   \* null for integration.data.changed
     at     : Nat,
     cause  : Rules \cup {NoRule}]

ASSUME TriggersAssumption ==
    /\ NoRule \notin Rules
    /\ AnyService \notin Services
    /\ Lookahead \in Nat
    /\ DOMAIN Config = Rules
    /\ \A r \in Rules :
         /\ Config[r].trigger \in TriggerTypes
         /\ Config[r].every \in Nat
         /\ Config[r].slots \subseteq Nat
         /\ Config[r].cooldown \in Nat
         /\ Config[r].forDuration \in Nat
         /\ Config[r].target \in Services
-----------------------------------------------------------------------------
(***************************************************************************)
(* nextScheduleRunAt: the first instant after "from", null when the cron   *)
(* expression has none within its lookahead (the rule is then one of those *)
(* that every tick tries to seed).                                         *)
(***************************************************************************)
LaterSlots(r, from) == {s \in Config[r].slots : from < s /\ s <= from + Lookahead}

NextScheduleRunAt(r, from) ==
    IF Config[r].every > 0
    THEN from + Config[r].every
    ELSE IF \E s \in LaterSlots(r, from) : \A t \in LaterSlots(r, from) : s <= t
         THEN CHOOSE s \in LaterSlots(r, from) :
                \A t \in LaterSlots(r, from) : s <= t
         ELSE NoTime

InCooldown(r, lastTriggeredAt, now) ==
    /\ lastTriggeredAt # NoTime
    /\ Config[r].cooldown > 0
    /\ now - lastTriggeredAt < Config[r].cooldown

MatchesStatusFilters(r, svc) == Config[r].watched \in {AnyService, svc}

MatchesStatusTransition(r, previous, current, svc) ==
    /\ previous # NoStatus
    /\ previous # current
    /\ Config[r].from \in {"*", previous}
    /\ Config[r].to \in {"*", current}
    /\ MatchesStatusFilters(r, svc)

(***************************************************************************)
(* evaluateAutomationTrigger for the three trigger types: TRUE is the      *)
(* outcome "match".  The causationAutomationId input of the code is not a  *)
(* parameter: no caller passes it.                                         *)
(***************************************************************************)
EvaluateSchedule(r, lastTriggeredAt, now) == ~InCooldown(r, lastTriggeredAt, now)

EvaluateEvent(r, lastTriggeredAt, now, e) ==
    /\ ~InCooldown(r, lastTriggeredAt, now)
    /\ e.type = Config[r].eventType
    /\ MatchesStatusFilters(r, e.svc)
    /\ <<e.svc, NoStatus, e.status>> \in Config[r].accepts

EvaluateTransition(r, lastTriggeredAt, now, previous, current, svc) ==
    /\ ~InCooldown(r, lastTriggeredAt, now)
    /\ MatchesStatusTransition(r, previous, current, svc)
    /\ <<svc, previous, current>> \in Config[r].accepts
=============================================================================
