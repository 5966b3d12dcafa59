---------------------------- MODULE MCAutomation ----------------------------
(***************************************************************************)
(* Small instances of the automation engine.  Each configuration gives     *)
(* every rule the same shape: an interval or a cron schedule, an event     *)
(* rule, a status transition with or without debounce.                     *)
(***************************************************************************)
EXTENDS AutomationProperties, TLC

CONSTANTS s1, s2   \* integrations

Everywhere(config) == [r \in Rules |-> config]

BaseRule ==
    [trigger |-> "schedule", every |-> 0, slots |-> {}, cooldown |-> 0,
     forDuration |-> 0, eventType |-> "integration.status.changed",
     from |-> "available", to |-> "unavailable", watched |-> s1,
     accepts |-> Services \X StatusOrNull \X StatusOrNull,
     emits |-> FALSE, target |-> s1]

\* A cron expression whose last slot is beyond the horizon of every instance,
\* so that it always has a next one.
CronOnce == Everywhere([BaseRule EXCEPT !.slots = {1, 9}])
CronTwice == Everywhere([BaseRule EXCEPT !.slots = {1, 2, 9}])
Interval == Everywhere([BaseRule EXCEPT !.every = 2])

\* An action on the integration the rule watches: qbittorrent.pause on a
\* rule that listens to that qbittorrent, for example.
DataRule == [BaseRule EXCEPT !.trigger = "event",
                             !.eventType = "integration.data.changed"]
OnOwnData == Everywhere([DataRule EXCEPT !.emits = TRUE])

DownRule == [BaseRule EXCEPT !.trigger = "status-transition"]
OnChangeFor1 == Everywhere([DownRule EXCEPT !.from = "*", !.to = "*", !.forDuration = 1])

\* What the rest of the system publishes.
Silence == {}
StatusFeed == {"integration.status.changed"} \X Services \X {"available", "unavailable"}
DataFeed == {"integration.data.changed"} \X Services \X {NoStatus}

\* Worker identities are interchangeable where all of them are mortal or none.
Symmetry == Permutations(Workers)
=============================================================================
