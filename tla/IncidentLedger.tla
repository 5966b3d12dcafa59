--------------------------- MODULE IncidentLedger ---------------------------
(***************************************************************************)
(* What the incident table promises, whoever writes it and however often a *)
(* status event is delivered (docs/23: "un incident open max par           *)
(* (integrationId, kind)", "open -> resolved -> open cree un nouvel        *)
(* incident"): a log of incidents in which a new one is opened only when   *)
(* the integration has none open, an open one is resolved once, and        *)
(* nothing else ever changes.                                              *)
(***************************************************************************)
EXTENDS Naturals, Sequences

CONSTANT Services

VARIABLE book   \* incidents in the order they were opened

Entry == [svc : Services, status : {"open", "resolved"}]

HasOpen(s) == \E i \in DOMAIN book : book[i] = [svc |-> s, status |-> "open"]

Init == book = << >>

Open(s) ==
    /\ ~HasOpen(s)
    /\ book' = Append(book, [svc |-> s, status |-> "open"])

Resolve(i) ==
    /\ book[i].status = "open"
    /\ book' = [book EXCEPT ![i].status = "resolved"]

Next ==
    \/ \E s \in Services : Open(s)
    \/ \E i \in DOMAIN book : Resolve(i)

Spec == Init /\ [][Next]_book
=============================================================================
