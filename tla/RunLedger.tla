----------------------------- MODULE RunLedger -----------------------------
(***************************************************************************)
(* What the automation engine promises about runs, whatever the number of  *)
(* workers, their overlaps and their crashes: the ledger of runs.          *)
(*                                                                         *)
(*   - a run is claimed, under a key nobody claimed before, before its     *)
(*     action is dispatched;                                               *)
(*   - the action of a run is dispatched at most once;                     *)
(*   - a run that is settled stays as it is, and it is settled as          *)
(*     "succeeded" or "failed" only when its action was dispatched.        *)
(*                                                                         *)
(* Several runs may be settled by one step: the sweep of stale runs.       *)
(***************************************************************************)
EXTENDS Naturals

VARIABLES
    ledger,   \* claimed key -> status of the run
    sent      \* dispatched key -> number of dispatches

ledgerVars == <<ledger, sent>>

Settled == {"succeeded", "failed", "skipped", "denied", "unknown"}
DispatchedOnly == {"succeeded", "failed"}

LedgerInit == DOMAIN ledger = {} /\ DOMAIN sent = {}

ClaimRun ==
    \E k \in DOMAIN ledger' \ DOMAIN ledger :
        /\ ledger' = [x \in DOMAIN ledger \cup {k} |->
                        IF x = k THEN "running" ELSE ledger[x]]
        /\ UNCHANGED sent

DispatchRun ==
    \E k \in DOMAIN sent' \ DOMAIN sent :
        /\ k \in DOMAIN ledger
        /\ sent' = [x \in DOMAIN sent \cup {k} |-> IF x = k THEN 1 ELSE sent[x]]
        /\ UNCHANGED ledger

SettleRuns ==
    /\ DOMAIN ledger' = DOMAIN ledger
    /\ \A k \in DOMAIN ledger :
         \/ ledger'[k] = ledger[k]
         \/ /\ ledger[k] = "running"
            /\ ledger'[k] \in Settled
            /\ ledger'[k] \in DispatchedOnly => k \in DOMAIN sent
    /\ UNCHANGED sent

LedgerNext == ClaimRun \/ DispatchRun \/ SettleRuns

LedgerSpec == LedgerInit /\ [][LedgerNext]_ledgerVars
=============================================================================
