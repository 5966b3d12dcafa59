---------------------------- MODULE RuleRevision ----------------------------
(***************************************************************************)
(* Optimistic concurrency on automation_rules.config_revision: update and  *)
(* setEnabled of the two automation stores, called by the web process for  *)
(* administrators who edit the same rule.                                  *)
(*                                                                         *)
(* Both stores load the rule, update it WHERE config_revision is the one   *)
(* the caller expects, and answer.  The PostgreSQL store answers from the  *)
(* number of rows updated; the SQLite store loads the rule again and       *)
(* compares its revision with the one of the first load.                   *)
(***************************************************************************)
EXTENDS Integers, FiniteSets

CONSTANTS
    Calls,        \* calls of update or of setEnabled
    NoCall,       \* the value the rule was created with
    CountsRows    \* the PostgreSQL store

ASSUME RevisionAssumption == NoCall \notin Calls /\ CountsRows \in BOOLEAN

VARIABLES
    exists,       \* the row is there
    revision,     \* config_revision
    value,        \* the call whose columns the row has
    call,         \* where each call is, and the revisions it knows
    wrote         \* calls whose UPDATE changed the row (for the properties)

vars == <<exists, revision, value, call, wrote>>

Answers == {"ok", "CONFLICT", "NOT_FOUND"}
CallState == [pc : {"idle", "ready", "loaded", "written"} \cup Answers,
              expected : Nat, existing : Nat]

FirstRevision == 1

Init ==
    /\ exists = TRUE
    /\ revision = FirstRevision
    /\ value = NoCall
    /\ call = [c \in Calls |-> [pc |-> "idle", expected |-> 0, existing |-> 0]]
    /\ wrote = {}

At(c, pc) == call[c].pc = pc
Step(c, pc) == call' = [call EXCEPT ![c].pc = pc]

\* The form is opened: expectedConfigRevision is the revision it shows.
Open(c) ==
    /\ At(c, "idle") /\ exists
    /\ call' = [call EXCEPT ![c].pc = "ready", ![c].expected = revision]
    /\ UNCHANGED <<exists, revision, value, wrote>>

Load(c) ==
    /\ At(c, "ready")
    /\ IF exists
       THEN call' = [call EXCEPT ![c].pc = "loaded", ![c].existing = revision]
       ELSE Step(c, "NOT_FOUND")
    /\ UNCHANGED <<exists, revision, value, wrote>>

\* (faulty) the revision is not in the WHERE clause
MatchesAny(c) == exists

\* WHERE id = ... AND config_revision = expectedConfigRevision
Matches(c) == exists /\ revision = call[c].expected

\* (faulty) the rows updated are not counted
NotCounted(c) == "written"

\* assertRevisionOrThrow on the number of rows.
Counted(c) == IF CountsRows /\ ~Matches(c) THEN "CONFLICT" ELSE "written"

UpdateRow(c) ==
    /\ At(c, "loaded")
    /\ IF Matches(c)
       THEN /\ revision' = call[c].existing + 1
            /\ value' = c
            /\ wrote' = wrote \cup {c}
       ELSE UNCHANGED <<revision, value, wrote>>
    /\ Step(c, Counted(c))
    /\ UNCHANGED exists

\* assertRevisionOrThrow on the revision loaded again.
Agrees(c) == CountsRows \/ revision = call[c].existing + 1

LoadAgain(c) ==
    /\ At(c, "written")
    /\ Step(c, CASE ~exists -> "NOT_FOUND"
                 [] exists /\ Agrees(c) -> "ok"
                 [] OTHER -> "CONFLICT")
    /\ UNCHANGED <<exists, revision, value, wrote>>

Delete ==
    /\ exists
    /\ exists' = FALSE
    /\ UNCHANGED <<revision, value, call, wrote>>

Next == Delete \/ \E c \in Calls : Open(c) \/ Load(c) \/ UpdateRow(c) \/ LoadAgain(c)

Spec == Init /\ [][Next]_vars
-----------------------------------------------------------------------------
TypeOK ==
    /\ exists \in BOOLEAN
    /\ revision \in Nat \ {0}
    /\ value \in Calls \cup {NoCall}
    /\ call \in [Calls -> CallState]
    /\ wrote \subseteq Calls

\* Two edits that started from the same revision are not both written, however
\* loads and updates overlap: no edit is overwritten by one that had not seen it.
OneWriterPerRevision ==
    \A c1, c2 \in wrote : c1 # c2 => call[c1].expected # call[c2].expected

\* The revision goes up with every write, although the value written comes from
\* a load that is older than the WHERE clause: it counts the writes.
RevisionCountsWrites == revision = Cardinality(wrote) + 1

\* "configRevision CAS (CONFLICT)": a caller who is told that the edit was made
\* has written it.
SuccessIsTrue == \A c \in Calls : At(c, "ok") => c \in wrote

\* A caller who is refused has written nothing, so that the edit may be repeated
\* from the new revision.
RefusalIsTrue == \A c \in Calls : At(c, "CONFLICT") => c \notin wrote

\* Both: the answer tells the caller whether the edit was written.
AnswersAreTrue == SuccessIsTrue /\ RefusalIsTrue
=============================================================================
