------------------------ MODULE RuleRevisionProofs ------------------------
(***************************************************************************)
(* The revision check for any number of calls and for both stores: what is *)
(* written is right, whatever the answers say.                             *)
(***************************************************************************)
EXTENDS RuleRevision, FiniteSetTheorems, TLAPS

(***************************************************************************)
(* A revision that a call knows is not newer than the row's, and a writer  *)
(* has left its revision behind.  The revision that an update sets is      *)
(* derived from the first load, not from the row: that load is not older   *)
(* than the revision expected, so when the row still has the revision      *)
(* expected it is the one loaded.                                          *)
(***************************************************************************)
KnownRevisions ==
    \A c \in Calls :
        /\ call[c].pc \in {"ready", "loaded"} => call[c].expected <= revision
        /\ call[c].pc = "loaded" => /\ call[c].expected <= call[c].existing
                                    /\ call[c].existing <= revision

WritersAreDone ==
    \A c \in wrote : /\ call[c].pc \notin {"idle", "ready", "loaded"}
                     /\ call[c].expected < revision

RevisionInv ==
    /\ TypeOK
    /\ KnownRevisions
    /\ WritersAreDone
    /\ OneWriterPerRevision
    /\ IsFiniteSet(wrote)
    /\ RevisionCountsWrites

LEMMA InitRevision == Init => RevisionInv
<1>. SUFFICES ASSUME Init PROVE RevisionInv
  OBVIOUS
<1>1. TypeOK
  BY DEF Init, TypeOK, CallState, FirstRevision
<1>2. KnownRevisions /\ WritersAreDone /\ OneWriterPerRevision
  BY DEF Init, KnownRevisions, WritersAreDone, OneWriterPerRevision
<1>3. IsFiniteSet(wrote) /\ RevisionCountsWrites
  BY FS_EmptySet DEF Init, RevisionCountsWrites, FirstRevision
<1>. QED BY <1>1, <1>2, <1>3 DEF RevisionInv

\* A call that does not write moves from a place to a later one.
LEMMA QuietStep ==
    ASSUME RevisionInv, NEW c \in Calls, NEW s \in CallState,
           UNCHANGED <<revision, value, wrote>>, exists' \in BOOLEAN,
           call' = [call EXCEPT ![c] = s],
           s.pc \in {"ready", "loaded"} => s.expected <= revision,
           s.pc = "loaded" => s.expected <= s.existing /\ s.existing <= revision,
           c \in wrote => s.pc \notin {"idle", "ready", "loaded"} /\ s.expected = call[c].expected
    PROVE  RevisionInv'
<1>1. \A x \in Calls : call'[x] = IF x = c THEN s ELSE call[x]
  BY DEF RevisionInv, TypeOK
<1>2. TypeOK'
  BY DEF RevisionInv, TypeOK
<1>3. KnownRevisions'
  BY <1>1 DEF RevisionInv, KnownRevisions
<1>4. \A x \in wrote : x \in Calls /\ call'[x].expected = call[x].expected
  BY <1>1 DEF RevisionInv, TypeOK
<1>5. WritersAreDone'
  BY <1>1, <1>4 DEF RevisionInv, WritersAreDone
<1>6. OneWriterPerRevision'
  BY <1>4 DEF RevisionInv, OneWriterPerRevision
<1>7. (IsFiniteSet(wrote) /\ RevisionCountsWrites)'
  BY DEF RevisionInv, RevisionCountsWrites
<1>. QED BY <1>2, <1>3, <1>5, <1>6, <1>7 DEF RevisionInv

LEMMA UpdateRowRevision ==
    ASSUME RevisionInv, NEW c \in Calls, UpdateRow(c)
    PROVE  RevisionInv'
<1>. DEFINE s == [call[c] EXCEPT !.pc = Counted(c)]
<1>1. /\ call[c] \in CallState /\ call[c].pc = "loaded" /\ exists' = exists
      /\ revision \in Nat /\ wrote \subseteq Calls /\ exists \in BOOLEAN
      /\ call \in [Calls -> CallState]
  BY DEF UpdateRow, At, RevisionInv, TypeOK
<1>2. Counted(c) \in {"CONFLICT", "written"}
  BY DEF Counted
<1>3. s \in CallState /\ s.pc = Counted(c) /\ s.expected = call[c].expected
  BY <1>1, <1>2 DEF CallState, Answers
<1>4. call' = [call EXCEPT ![c] = s]
  BY DEF UpdateRow, Step
<1>5. c \notin wrote
  BY <1>1 DEF RevisionInv, WritersAreDone
<1>6. CASE UNCHANGED <<revision, value, wrote>>
  BY <1>1, <1>2, <1>3, <1>4, <1>5, <1>6, QuietStep
<1>7. CASE /\ Matches(c)
           /\ revision' = call[c].existing + 1 /\ value' = c /\ wrote' = wrote \cup {c}
  <2>1. revision' = revision + 1 /\ call[c].expected = revision
    BY <1>1, <1>7 DEF Matches, RevisionInv, KnownRevisions, CallState
  <2>2. \A x \in Calls : /\ call'[x].expected = call[x].expected
                         /\ call'[x].existing = IF x = c THEN s.existing ELSE call[x].existing
                         /\ call'[x].pc = IF x = c THEN Counted(c) ELSE call[x].pc
    BY <1>1, <1>3, <1>4
  <2>. HIDE DEF s
  <2>3. TypeOK'
    BY <1>1, <1>3, <1>4, <1>7, <2>1 DEF TypeOK, RevisionInv
  <2>4. \A x \in Calls : call[x].expected \in Nat /\ call[x].existing \in Nat
    BY <1>1 DEF CallState
  <2>5. KnownRevisions'
    BY <1>1, <1>2, <2>1, <2>2, <2>4 DEF RevisionInv, KnownRevisions
  <2>6. WritersAreDone'
    BY <1>1, <1>2, <1>7, <2>1, <2>2, <2>4 DEF RevisionInv, WritersAreDone
  <2>7. OneWriterPerRevision'
    BY <1>1, <1>7, <2>1, <2>2, <2>4 DEF RevisionInv, WritersAreDone, OneWriterPerRevision
  <2>8. IsFiniteSet(wrote') /\ Cardinality(wrote') = Cardinality(wrote) + 1
    BY <1>5, <1>7, FS_AddElement DEF RevisionInv
  <2>9. RevisionCountsWrites'
    BY <2>1, <2>8, FS_CardinalityType DEF RevisionInv, RevisionCountsWrites
  <2>. QED BY <2>3, <2>5, <2>6, <2>7, <2>8, <2>9 DEF RevisionInv
<1>. QED BY <1>6, <1>7 DEF UpdateRow

LEMMA NextRevision ==
    ASSUME RevisionInv, [Next]_vars
    PROVE  RevisionInv'
<1>. USE DEF RevisionInv
<1>1. TypeOK
  OBVIOUS
<1>2. CASE Delete \/ UNCHANGED vars
  BY <1>2 DEF Delete, vars, TypeOK, KnownRevisions, WritersAreDone,
              OneWriterPerRevision, RevisionCountsWrites
<1>3. ASSUME NEW c \in Calls, Open(c) PROVE RevisionInv'
  <2>. DEFINE s == [call[c] EXCEPT !.pc = "ready", !.expected = revision]
  <2>1. call[c] \in CallState /\ call[c].pc = "idle" /\ revision \in Nat
    BY <1>1, <1>3 DEF Open, At, TypeOK
  <2>2. s \in CallState /\ s.pc = "ready" /\ s.expected = revision
    BY <2>1 DEF CallState
  <2>3. call' = [call EXCEPT ![c] = s] /\ UNCHANGED <<exists, revision, value, wrote>>
    BY <1>3 DEF Open
  <2>4. c \notin wrote /\ exists \in BOOLEAN
    BY <1>1, <2>1 DEF WritersAreDone, TypeOK
  <2>5. s.expected <= revision /\ exists' \in BOOLEAN
    BY <2>1, <2>2, <2>3, <2>4
  <2>. HIDE DEF s, RevisionInv
  <2>. QED BY <2>2, <2>3, <2>4, <2>5, QuietStep
<1>4. ASSUME NEW c \in Calls, Load(c) PROVE RevisionInv'
  <2>. DEFINE s == [call[c] EXCEPT !.pc = "loaded", !.existing = revision]
              t == [call[c] EXCEPT !.pc = "NOT_FOUND"]
  <2>1. call[c] \in CallState /\ call[c].pc = "ready" /\ revision \in Nat
    BY <1>1, <1>4 DEF Load, At, TypeOK
  <2>2. /\ s \in CallState /\ s.pc = "loaded" /\ s.existing = revision
        /\ s.expected = call[c].expected
        /\ t \in CallState /\ t.pc = "NOT_FOUND"
    BY <2>1 DEF CallState, Answers
  <2>3. /\ call' = [call EXCEPT ![c] = s] \/ call' = [call EXCEPT ![c] = t]
        /\ UNCHANGED <<exists, revision, value, wrote>>
    BY <1>4 DEF Load, Step
  <2>4. c \notin wrote /\ exists \in BOOLEAN /\ call[c].expected <= revision
    BY <1>1, <2>1 DEF WritersAreDone, KnownRevisions, TypeOK
  <2>. HIDE DEF s, t, RevisionInv
  <2>. QED BY <2>1, <2>2, <2>3, <2>4, QuietStep
<1>5. ASSUME NEW c \in Calls, UpdateRow(c) PROVE RevisionInv'
  BY <1>5, UpdateRowRevision
<1>6. ASSUME NEW c \in Calls, LoadAgain(c) PROVE RevisionInv'
  <2>1. PICK answer \in Answers : call' = [call EXCEPT ![c].pc = answer]
    BY <1>6 DEF LoadAgain, Step, Answers
  <2>. DEFINE s == [call[c] EXCEPT !.pc = answer]
  <2>2. call[c] \in CallState /\ UNCHANGED <<exists, revision, value, wrote>>
    BY <1>1, <1>6 DEF LoadAgain, TypeOK
  <2>3. s \in CallState /\ s.pc = answer /\ s.expected = call[c].expected
    BY <2>2 DEF CallState
  <2>4. call' = [call EXCEPT ![c] = s] /\ exists \in BOOLEAN
    BY <1>1, <2>1 DEF TypeOK
  <2>. HIDE DEF s, RevisionInv
  <2>. QED BY <2>2, <2>3, <2>4, QuietStep DEF Answers
<1>. QED BY <1>2, <1>3, <1>4, <1>5, <1>6 DEF Next

\* What update and setEnabled keep true of the row and of the revisions that
\* calls in progress know.
THEOREM RevisionInvariant == Spec => []RevisionInv
BY InitRevision, NextRevision, PTL DEF Spec

\* No edit overwrites another that had not been seen, for any number of calls
\* and whichever way the store checks the outcome.
THEOREM NoLostEdit == Spec => []OneWriterPerRevision
<1>1. RevisionInv => OneWriterPerRevision
  BY DEF RevisionInv
<1>. QED BY <1>1, RevisionInvariant, PTL

\* config_revision counts the edits written.
THEOREM RevisionIsExact == Spec => []RevisionCountsWrites
<1>1. RevisionInv => RevisionCountsWrites
  BY DEF RevisionInv
<1>. QED BY <1>1, RevisionInvariant, PTL
-----------------------------------------------------------------------------
Answered ==
    \A c \in Calls : /\ call[c].pc \in {"written", "ok"} => c \in wrote
                     /\ call[c].pc = "CONFLICT" => c \notin wrote

LEMMA NextAnswered ==
    ASSUME CountsRows, RevisionInv, Answered, [Next]_vars
    PROVE  Answered'
<1>1. call \in [Calls -> CallState] /\ wrote \subseteq Calls
  BY DEF RevisionInv, TypeOK
<1>2. CASE Delete \/ UNCHANGED vars
  BY <1>2 DEF Delete, vars, Answered
<1>3. ASSUME NEW c \in Calls, Open(c) PROVE Answered'
  <2>1. \A x \in Calls : call'[x].pc = IF x = c THEN "ready" ELSE call[x].pc
    BY <1>1, <1>3 DEF Open, CallState
  <2>2. UNCHANGED wrote
    BY <1>3 DEF Open
  <2>3. ASSUME NEW x \in Calls
        PROVE  /\ call'[x].pc \in {"written", "ok"} => x \in wrote'
               /\ call'[x].pc = "CONFLICT" => x \notin wrote'
    <3>1. CASE x = c
      BY <2>1, <3>1
    <3>2. CASE x # c
      BY <2>1, <2>2, <3>2 DEF Answered
    <3>. QED BY <3>1, <3>2
  <2>. QED BY <2>3 DEF Answered
<1>4. ASSUME NEW c \in Calls, Load(c) PROVE Answered'
  <2>1. \A x \in Calls : x # c => call'[x].pc = call[x].pc
    BY <1>1, <1>4 DEF Load, Step, CallState
  <2>2. call'[c].pc \in {"loaded", "NOT_FOUND"}
    BY <1>1, <1>4 DEF Load, Step, CallState
  <2>. QED BY <1>4, <2>1, <2>2 DEF Answered, Load
<1>5. ASSUME NEW c \in Calls, UpdateRow(c) PROVE Answered'
  <2>1. \A x \in Calls : call'[x].pc = IF x = c THEN Counted(c) ELSE call[x].pc
    BY <1>1, <1>5 DEF UpdateRow, Step, CallState
  <2>2. c \notin wrote
    BY <1>5 DEF UpdateRow, At, RevisionInv, WritersAreDone
  <2>3. CASE Matches(c)
    BY <1>5, <2>1, <2>3 DEF Answered, UpdateRow, Counted
  <2>4. CASE ~Matches(c)
    BY <1>5, <2>1, <2>2, <2>4 DEF Answered, UpdateRow, Counted
  <2>. QED BY <2>3, <2>4
<1>6. ASSUME NEW c \in Calls, LoadAgain(c) PROVE Answered'
  <2>1. call[c].pc = "written" /\ UNCHANGED wrote
    BY <1>6 DEF LoadAgain, At
  <2>2. c \in wrote
    BY <2>1 DEF Answered
  <2>3. PICK answer \in {"NOT_FOUND", "ok"} : call' = [call EXCEPT ![c].pc = answer]
    BY <1>6 DEF LoadAgain, Step, Agrees
  <2>4. call'[c].pc # "CONFLICT"
    BY <1>1, <2>3 DEF CallState
  <2>5. \A x \in Calls : x # c => call'[x].pc = call[x].pc
    BY <1>1, <2>3 DEF CallState
  <2>6. ASSUME NEW x \in Calls
        PROVE  /\ call'[x].pc \in {"written", "ok"} => x \in wrote'
               /\ call'[x].pc = "CONFLICT" => x \notin wrote'
    <3>1. CASE x = c
      BY <2>1, <2>2, <2>4, <3>1
    <3>2. CASE x # c
      BY <2>1, <2>5, <3>2 DEF Answered
    <3>. QED BY <3>1, <3>2
  <2>. QED BY <2>6 DEF Answered
<1>. QED BY <1>2, <1>3, <1>4, <1>5, <1>6 DEF Next

\* A store that counts the rows it updated answers truly.  (The one that compares
\* revisions does not.)
THEOREM TrueAnswers == CountsRows /\ Spec => []AnswersAreTrue
<1>. SUFFICES ASSUME CountsRows PROVE Spec => []AnswersAreTrue
  OBVIOUS
<1>1. Init => Answered
  BY DEF Init, Answered
<1>2. Answered => AnswersAreTrue
  BY DEF Answered, AnswersAreTrue, SuccessIsTrue, RefusalIsTrue, At
<1>. QED BY <1>1, <1>2, NextAnswered, RevisionInvariant, PTL DEF Spec
=============================================================================
