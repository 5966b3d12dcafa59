----------------------------- MODULE InboxProofs -----------------------------
(***************************************************************************)
(* The inbox for any number of overlapping calls, users, keys and rows:    *)
(* its cap, a bound on a table that no statement and no index enforces;    *)
(* the alerts of one key that coalesce; the alert that a call leaves.      *)
(***************************************************************************)
EXTENDS NotificationCenter, FiniteSetTheorems, TLAPS

(***************************************************************************)
(* Types; a call in progress is for somebody.                              *)
(***************************************************************************)
CallsAreFor ==
    \A c \in Callers : ~Idle(c) => call[c].user \in Users /\ call[c].key \in Keys

InboxTypes == CenterTypeOK /\ CallsAreFor

LEMMA InitTypes == CenterInit => InboxTypes
BY DEF CenterInit, InboxTypes, CenterTypeOK, CallsAreFor, Idle, NoCall, Call, CallSteps,
       Nobody, NoNote

LEMMA NoCallIsCall == NoCall \in Call /\ NoCall.pc = "idle"
BY DEF NoCall, Call, CallSteps, NoNote, Nobody

\* The rows stay identified when a row takes the place of one with its identity.
LEMMA ReplacedRow ==
    ASSUME InboxTypes, NEW n \in notes, NEW m \in Note, m.id = n.id,
           notes' = (notes \ {n}) \cup {m}
    PROVE  /\ notes' \subseteq Note
           /\ \A x \in notes' : x.id < nextNote
           /\ \A x, y \in notes' : x.id = y.id => x = y
BY DEF InboxTypes, CenterTypeOK

\* A step of one call in progress, which stays for the same alert or ends.
LEMMA CallProgress ==
    ASSUME InboxTypes, NEW c \in Callers, ~Idle(c), NEW s \in Call,
           s.pc # "idle" => s.user = call[c].user /\ s.key = call[c].key,
           call' = [call EXCEPT ![c] = s]
    PROVE  call' \in [Callers -> Call] /\ CallsAreFor'
<1>1. call' \in [Callers -> Call]
  BY DEF InboxTypes, CenterTypeOK
<1>2. CallsAreFor'
  BY DEF InboxTypes, CenterTypeOK, CallsAreFor, Idle
<1>. QED BY <1>1, <1>2

LEMMA EndsKeepsCalls ==
    ASSUME InboxTypes, NEW c \in Callers, ~Idle(c), Ends(c)
    PROVE  call' \in [Callers -> Call] /\ CallsAreFor'
BY NoCallIsCall, CallProgress DEF Ends

LEMMA BeginTypes ==
    ASSUME InboxTypes, NEW c \in Callers, NEW u \in Users, NEW k \in Keys, Begin(c, u, k)
    PROVE  InboxTypes'
<1>1. call' \in [Callers -> Call]
  BY DEF Begin, InboxTypes, CenterTypeOK, Call, CallSteps, NoCall, NoNote, Nobody
<1>2. CallsAreFor'
  BY DEF Begin, InboxTypes, CenterTypeOK, CallsAreFor, Idle, NoCall
<1>. QED BY <1>1, <1>2 DEF Begin, InboxTypes, CenterTypeOK

LEMMA FindTypes ==
    ASSUME InboxTypes, NEW c \in Callers, FindRecentByDedup(c)
    PROVE  InboxTypes'
<1>1. call[c] \in Call /\ ~Idle(c)
  BY DEF FindRecentByDedup, InboxTypes, CenterTypeOK, Idle
<1>2. call' \in [Callers -> Call] /\ CallsAreFor'
  <2>1. CASE call' = [call EXCEPT ![c].pc = "create"]
    <3>1. [call[c] EXCEPT !.pc = "create"] \in Call
      BY <1>1 DEF Call, CallSteps
    <3>2. call' = [call EXCEPT ![c] = [call[c] EXCEPT !.pc = "create"]]
      BY <2>1
    <3>. QED BY <1>1, <3>1, <3>2, CallProgress DEF Call
  <2>2. ASSUME NEW n \in notes,
               call' = [call EXCEPT ![c].pc = "update", ![c].note = n.id]
        PROVE  call' \in [Callers -> Call] /\ CallsAreFor'
    <3>1. [call[c] EXCEPT !.pc = "update", !.note = n.id] \in Call
      BY <1>1 DEF Call, CallSteps, InboxTypes, CenterTypeOK, Note
    <3>2. call' = [call EXCEPT ![c] = [call[c] EXCEPT !.pc = "update", !.note = n.id]]
      BY <2>2
    <3>. QED BY <1>1, <3>1, <3>2, CallProgress DEF Call
  <2>3. RecentByDedup(c) \subseteq notes
    BY DEF RecentByDedup, Recent, NotesOf
  <2>. QED BY <2>1, <2>2, <2>3 DEF FindRecentByDedup
<1>3. raced' \subseteq Users \X Keys
  BY <1>1 DEF FindRecentByDedup, InboxTypes, CenterTypeOK, CallsAreFor
<1>. QED BY <1>2, <1>3 DEF FindRecentByDedup, InboxTypes, CenterTypeOK

LEMMA UpdateTypes ==
    ASSUME InboxTypes, NEW c \in Callers, UpdateCoalesced(c)
    PROVE  InboxTypes'
<1>1. PICK n \in notes : n.id = call[c].note /\ notes' = (notes \ {n}) \cup {Coalesced(n, c)}
  BY DEF UpdateCoalesced
<1>2. Coalesced(n, c) \in Note /\ Coalesced(n, c).id = n.id
  BY DEF Coalesced, Note, Call, InboxTypes, CenterTypeOK
<1>3. call' \in [Callers -> Call] /\ CallsAreFor'
  BY EndsKeepsCalls DEF UpdateCoalesced, Idle
<1>. QED BY <1>1, <1>2, <1>3, ReplacedRow DEF UpdateCoalesced, InboxTypes, CenterTypeOK

LEMMA CreateTypes ==
    ASSUME InboxTypes, NEW c \in Callers, Create(c)
    PROVE  InboxTypes'
<1>. DEFINE row == [id |-> nextNote, user |-> call[c].user, key |-> call[c].key,
                    created |-> call[c].now, updated |-> call[c].now,
                    read |-> FALSE, dismissed |-> FALSE]
<1>1. ~Idle(c) /\ call[c] \in Call /\ call[c].user \in Users /\ call[c].key \in Keys
  BY DEF Create, Idle, InboxTypes, CenterTypeOK, CallsAreFor
<1>2. row \in Note /\ row.id = nextNote
  BY <1>1 DEF Note, Call, InboxTypes, CenterTypeOK
<1>3. notes' = notes \cup {row} /\ nextNote' = nextNote + 1
  BY DEF Create
<1>. HIDE DEF row
<1>4. /\ notes' \subseteq Note
      /\ \A x \in notes' : x.id < nextNote'
      /\ \A x, y \in notes' : x.id = y.id => x = y
  BY <1>2, <1>3 DEF InboxTypes, CenterTypeOK, Note
<1>5. call' \in [Callers -> Call] /\ CallsAreFor'
  <2>1. [call[c] EXCEPT !.pc = "count", !.note = nextNote] \in Call
    BY <1>1 DEF Call, CallSteps, InboxTypes, CenterTypeOK
  <2>2. call' = [call EXCEPT ![c] = [call[c] EXCEPT !.pc = "count", !.note = nextNote]]
    BY DEF Create
  <2>. QED BY <1>1, <2>1, <2>2, CallProgress DEF Call
<1>6. raced' \subseteq Users \X Keys
  BY <1>1 DEF Create, InboxTypes, CenterTypeOK
<1>. QED BY <1>3, <1>4, <1>5, <1>6 DEF Create, InboxTypes, CenterTypeOK

LEMMA CountTypes ==
    ASSUME InboxTypes, NEW c \in Callers, Count(c)
    PROVE  InboxTypes'
<1>1. call[c] \in Call /\ ~Idle(c)
  BY DEF Count, InboxTypes, CenterTypeOK, Idle
<1>2. call' \in [Callers -> Call] /\ CallsAreFor'
  <2>1. CASE Ends(c)
    BY <1>1, <2>1, EndsKeepsCalls
  <2>2. CASE call' = [call EXCEPT ![c].pc = "keep"]
    <3>1. [call[c] EXCEPT !.pc = "keep"] \in Call
      BY <1>1 DEF Call, CallSteps
    <3>2. call' = [call EXCEPT ![c] = [call[c] EXCEPT !.pc = "keep"]]
      BY <2>2
    <3>. QED BY <1>1, <3>1, <3>2, CallProgress DEF Call
  <2>. QED BY <2>1, <2>2 DEF Count
<1>. QED BY <1>2 DEF Count, InboxTypes, CenterTypeOK

LEMMA KeepTypes ==
    ASSUME InboxTypes, NEW c \in Callers, Keep(c)
    PROVE  InboxTypes'
<1>1. call[c] \in Call /\ ~Idle(c)
  BY DEF Keep, InboxTypes, CenterTypeOK, Idle
<1>2. PICK K \in Newest(call[c].user) :
        call' = [call EXCEPT ![c].pc = "delete", ![c].keep = {n.id : n \in K}]
  BY DEF Keep
<1>3. {n.id : n \in K} \in SUBSET (Nat \ {0})
  BY <1>2 DEF Newest, NotesOf, InboxTypes, CenterTypeOK, Note
<1>4. [call[c] EXCEPT !.pc = "delete", !.keep = {n.id : n \in K}] \in Call
  BY <1>1, <1>3 DEF Call, CallSteps
<1>5. call' = [call EXCEPT ![c] =
                 [call[c] EXCEPT !.pc = "delete", !.keep = {n.id : n \in K}]]
  BY <1>2
<1>6. call' \in [Callers -> Call] /\ CallsAreFor'
  BY <1>1, <1>4, <1>5, CallProgress DEF Call
<1>. QED BY <1>6 DEF Keep, InboxTypes, CenterTypeOK

LEMMA DeleteTypes ==
    ASSUME InboxTypes, NEW c \in Callers, DeleteOldestBeyondCap(c)
    PROVE  InboxTypes'
<1>1. call' \in [Callers -> Call] /\ CallsAreFor'
  BY EndsKeepsCalls DEF DeleteOldestBeyondCap, Idle
<1>2. notes' \subseteq notes /\ disturbed' \subseteq Callers
  BY DEF DeleteOldestBeyondCap, CallsFor, InboxTypes, CenterTypeOK
<1>. QED BY <1>1, <1>2 DEF DeleteOldestBeyondCap, InboxTypes, CenterTypeOK

LEMMA FailsTypes ==
    ASSUME InboxTypes, NEW c \in Callers, CreateForUserFails(c)
    PROVE  InboxTypes'
<1>1. call' \in [Callers -> Call] /\ CallsAreFor'
  BY EndsKeepsCalls DEF CreateForUserFails, CoalesceFails, CreateFails, Idle
<1>. QED BY <1>1 DEF CreateForUserFails, CoalesceFails, CreateFails, InboxTypes, CenterTypeOK

LEMMA QuietCalls ==
    ASSUME InboxTypes, UNCHANGED call
    PROVE  call' \in [Callers -> Call] /\ CallsAreFor'
BY DEF InboxTypes, CenterTypeOK, CallsAreFor, Idle

\* What the user and the purge leave of the rows.
Rewrites == \A m \in notes' : \E n \in notes : n.id = m.id /\ n.user = m.user

LEMMA EnvironmentTypes ==
    ASSUME InboxTypes, Environment
    PROVE  InboxTypes' /\ Rewrites /\ call' = call
<1>1. ASSUME NEW u \in Users, MarkAllRead(u) PROVE InboxTypes' /\ Rewrites /\ call' = call
  <2>. DEFINE Mark(n) == IF n.user = u /\ Visible(n)
                         THEN [n EXCEPT !.read = TRUE, !.updated = clock] ELSE n
  <2>1. notes' = {Mark(n) : n \in notes}
    BY <1>1 DEF MarkAllRead
  <2>2. \A n \in notes : Mark(n) \in Note /\ Mark(n).id = n.id /\ Mark(n).user = n.user
    BY DEF InboxTypes, CenterTypeOK, Note
  <2>. HIDE DEF Mark
  <2>3. /\ notes' \subseteq Note
        /\ \A x \in notes' : x.id < nextNote
        /\ \A x, y \in notes' : x.id = y.id => x = y
    BY <2>1, <2>2 DEF InboxTypes, CenterTypeOK
  <2>4. Rewrites
    BY <2>1, <2>2 DEF Rewrites
  <2>5. /\ UNCHANGED <<clock, nextNote, call, raced>>
        /\ acts' = acts + 1 /\ disturbed' = disturbed \cup CallsFor(u)
    BY <1>1 DEF MarkAllRead, UserActs
  <2>. QED BY <2>3, <2>4, <2>5, QuietCalls DEF InboxTypes, CenterTypeOK, CallsFor
<1>2. ASSUME NEW n \in notes, MarkRead(n) \/ Dismiss(n)
      PROVE  InboxTypes' /\ Rewrites /\ call' = call
  <2>1. PICK m \in Note : m.id = n.id /\ m.user = n.user /\ notes' = (notes \ {n}) \cup {m}
    <3>. DEFINE read == [n EXCEPT !.read = TRUE, !.updated = clock]
                dismissed == [n EXCEPT !.read = TRUE, !.dismissed = TRUE, !.updated = clock]
    <3>1. /\ read \in Note /\ read.id = n.id /\ read.user = n.user
          /\ dismissed \in Note /\ dismissed.id = n.id /\ dismissed.user = n.user
      BY DEF InboxTypes, CenterTypeOK, Note
    <3>2. notes' = (notes \ {n}) \cup {read} \/ notes' = (notes \ {n}) \cup {dismissed}
      BY <1>2 DEF MarkRead, Dismiss
    <3>. HIDE DEF read, dismissed
    <3>. QED BY <3>1, <3>2
  <2>2. Rewrites
    BY <2>1 DEF Rewrites
  <2>3. /\ UNCHANGED <<clock, nextNote, call, raced>>
        /\ acts' = acts + 1 /\ disturbed' = disturbed \cup CallsFor(n.user)
    BY <1>2 DEF MarkRead, Dismiss, UserActs
  <2>. QED BY <2>1, <2>2, <2>3, ReplacedRow, QuietCalls DEF InboxTypes, CenterTypeOK, CallsFor
<1>3. ASSUME PurgeExpired PROVE InboxTypes' /\ Rewrites /\ call' = call
  BY <1>3, QuietCalls DEF PurgeExpired, Rewrites, InboxTypes, CenterTypeOK
<1>4. ASSUME Tick PROVE InboxTypes' /\ Rewrites /\ call' = call
  BY <1>4, QuietCalls DEF Tick, Rewrites, InboxTypes, CenterTypeOK
<1>. QED BY <1>1, <1>2, <1>3, <1>4 DEF Environment
-----------------------------------------------------------------------------
(***************************************************************************)
(* The bound.  WithinCap is not inductive: a call whose row was trimmed by *)
(* another one ends without trimming (NOT_FOUND).  What is: the rows, but  *)
(* for those of calls that have inserted and not counted yet, exceed the   *)
(* cap by the calls at most that found too many and have not trimmed yet.  *)
(* A call that counts no more than the cap leaves, and shows the bound by  *)
(* leaving; a call that counts more takes its row to the other side; a     *)
(* call that trims leaves no row outside its list.                         *)
(***************************************************************************)
IdsOf(u) == {n.id : n \in NotesOf(u)}
Counting(u) == {c \in Callers : call[c].pc = "count" /\ call[c].user = u}
Trimming(u) == {c \in Callers : call[c].pc \in {"keep", "delete"} /\ call[c].user = u}
OwnRows(u) == {call[c].note : c \in Counting(u)}

Bounded(u) == Cardinality(IdsOf(u) \ OwnRows(u)) <= MaxPerUser + Cardinality(Trimming(u))

KeepsFew ==
    \A c \in Callers :
        call[c].pc = "delete" => /\ IsFiniteSet(call[c].keep)
                                 /\ Cardinality(call[c].keep) <= MaxPerUser

InboxInv == InboxTypes /\ KeepsFew /\ \A u \in Users : Bounded(u)

LEMMA OneMoreAtMost ==
    ASSUME NEW S, IsFiniteSet(S), NEW x
    PROVE  Cardinality(S \cup {x}) <= Cardinality(S) + 1
<1>1. Cardinality(S) \in Nat
  BY FS_CardinalityType
<1>2. CASE x \in S
  <2>1. Cardinality(S \cup {x}) = Cardinality(S)
    BY <1>2, FS_AddElement
  <2>. QED BY <1>1, <2>1
<1>3. CASE x \notin S
  <2>1. Cardinality(S \cup {x}) = Cardinality(S) + 1
    BY <1>3, FS_AddElement
  <2>. QED BY <1>1, <2>1
<1>. QED BY <1>2, <1>3

LEMMA RowsAreFinite ==
    ASSUME InboxTypes, NEW u
    PROVE  /\ IsFiniteSet(IdsOf(u)) /\ IsFiniteSet(NotesOf(u))
           /\ Cardinality(NotesOf(u)) = Cardinality(IdsOf(u))
<1>1. \A n \in NotesOf(u) : n.id \in 1..nextNote
  BY DEF InboxTypes, CenterTypeOK, Note, NotesOf
<1>2. IsFiniteSet(1..nextNote)
  BY FS_Interval DEF InboxTypes, CenterTypeOK
<1>3. IsFiniteSet(IdsOf(u))
  <2>1. IdsOf(u) \in SUBSET (1..nextNote)
    BY <1>1 DEF IdsOf
  <2>. QED BY <1>2, <2>1, FS_Subset
<1>. DEFINE f == [n \in NotesOf(u) |-> n.id]
<1>4. f \in Bijection(NotesOf(u), IdsOf(u))
  <2>1. f \in [NotesOf(u) -> IdsOf(u)]
    BY DEF IdsOf
  <2>2. \A n, m \in NotesOf(u) : f[n] = f[m] => n = m
    BY DEF InboxTypes, CenterTypeOK, NotesOf
  <2>3. \A i \in IdsOf(u) : \E n \in NotesOf(u) : f[n] = i
    BY DEF IdsOf
  <2>. QED BY <2>1, <2>2, <2>3 DEF Bijection, Injection, Surjection, IsInjective
<1>5. IsFiniteSet(NotesOf(u))
  BY <1>3, <1>4, FS_Injection DEF Bijection
<1>6. ExistsBijection(NotesOf(u), IdsOf(u))
  BY <1>4 DEF ExistsBijection
<1>. QED BY <1>3, <1>5, <1>6, FS_Bijection

LEMMA CallsAreFinite ==
    ASSUME NEW u
    PROVE  IsFiniteSet(Counting(u)) /\ IsFiniteSet(Trimming(u))
BY CenterAssumption, FS_Subset DEF Counting, Trimming

\* Fewer rows to account for, and no fewer calls that trim.
LEMMA BoundKept ==
    ASSUME NEW S, NEW T, NEW V, NEW W, IsFiniteSet(S), IsFiniteSet(W),
           T \subseteq S, V \subseteq W,
           Cardinality(S) <= MaxPerUser + Cardinality(V)
    PROVE  Cardinality(T) <= MaxPerUser + Cardinality(W)
<1>1. /\ IsFiniteSet(T) /\ IsFiniteSet(V)
      /\ Cardinality(T) <= Cardinality(S) /\ Cardinality(V) <= Cardinality(W)
  BY FS_Subset
<1>2. /\ Cardinality(S) \in Nat /\ Cardinality(T) \in Nat
      /\ Cardinality(V) \in Nat /\ Cardinality(W) \in Nat
  BY <1>1, FS_CardinalityType
<1>. QED BY <1>1, <1>2, CenterAssumption

\* A step that leaves the rows of u accounted for as they are, or better.
LEMMA QuietBound ==
    ASSUME InboxInv, InboxTypes', NEW u \in Users,
           (IdsOf(u) \ OwnRows(u))' \subseteq IdsOf(u) \ OwnRows(u),
           Trimming(u) \subseteq Trimming(u)'
    PROVE  Bounded(u)'
<1>1. IsFiniteSet(IdsOf(u) \ OwnRows(u))
  BY RowsAreFinite, FS_Difference DEF InboxInv
<1>2. IsFiniteSet(Trimming(u)')
  BY CenterAssumption, FS_Subset DEF Trimming
<1>. QED BY <1>1, <1>2, BoundKept DEF Bounded, InboxInv

\* A step after which the rows of u are no more than the cap.
LEMMA FewRows ==
    ASSUME InboxTypes', NEW u \in Users, NEW S, IsFiniteSet(S),
           IdsOf(u)' \subseteq S, Cardinality(S) <= MaxPerUser
    PROVE  Bounded(u)'
<1>1. IsFiniteSet(Trimming(u)')
  BY CenterAssumption, FS_Subset DEF Trimming
<1>2. (IdsOf(u) \ OwnRows(u))' \subseteq S
  OBVIOUS
<1>3. Cardinality((IdsOf(u) \ OwnRows(u))') <= Cardinality(S)
  BY <1>2, FS_Subset
<1>4. /\ Cardinality(Trimming(u)') \in Nat /\ Cardinality(S) \in Nat
      /\ Cardinality((IdsOf(u) \ OwnRows(u))') \in Nat
  BY <1>1, <1>2, FS_Subset, FS_CardinalityType
<1>. QED BY <1>3, <1>4, CenterAssumption DEF Bounded

\* The other calls are where they were.
LEMMA OtherCalls ==
    ASSUME NEW c \in Callers, \A x \in Callers \ {c} : call'[x] = call[x], NEW u
    PROVE  /\ Trimming(u) \ {c} \subseteq Trimming(u)'
           /\ OwnRows(u) \ {call[c].note} \subseteq OwnRows(u)'
           /\ c \notin Counting(u) => OwnRows(u) \subseteq OwnRows(u)'
BY DEF Trimming, OwnRows, Counting

LEMMA SameRows ==
    ASSUME NEW u, notes' = notes
    PROVE  IdsOf(u)' = IdsOf(u)
BY DEF IdsOf, NotesOf

LEMMA FewerRows ==
    ASSUME NEW u, Rewrites
    PROVE  IdsOf(u)' \subseteq IdsOf(u)
BY DEF IdsOf, NotesOf, Rewrites

LEMMA InitInbox == CenterInit => InboxInv
<1>. SUFFICES ASSUME CenterInit PROVE InboxInv
  OBVIOUS
<1>1. KeepsFew
  BY DEF CenterInit, KeepsFew, NoCall
<1>2. ASSUME NEW u \in Users PROVE Bounded(u)
  <2>1. IdsOf(u) \ OwnRows(u) = {}
    BY DEF CenterInit, IdsOf, NotesOf
  <2>2. Cardinality(Trimming(u)) \in Nat
    BY CallsAreFinite, FS_CardinalityType
  <2>. QED BY <2>1, <2>2, FS_EmptySet, CenterAssumption DEF Bounded
<1>. QED BY <1>1, <1>2, InitTypes DEF InboxInv
-----------------------------------------------------------------------------
\* A step of a call that has no row of its own to account for.
LEMMA OutsideStep ==
    ASSUME InboxInv, InboxTypes', NEW c \in Callers,
           call[c].pc \notin {"count", "keep", "delete"}, call'[c].pc # "delete",
           \A x \in Callers \ {c} : call'[x] = call[x],
           \A u \in Users : IdsOf(u)' \subseteq IdsOf(u)
    PROVE  InboxInv'
<1>1. KeepsFew'
  BY DEF InboxInv, KeepsFew
<1>2. ASSUME NEW u \in Users PROVE Bounded(u)'
  <2>1. Trimming(u) \subseteq Trimming(u)' /\ OwnRows(u) \subseteq OwnRows(u)'
    BY OtherCalls DEF Trimming, Counting
  <2>. QED BY <2>1, QuietBound
<1>. QED BY <1>1, <1>2 DEF InboxInv

LEMMA BeginBound ==
    ASSUME InboxInv, NEW c \in Callers, NEW u \in Users, NEW k \in Keys, Begin(c, u, k)
    PROVE  InboxInv'
<1>1. InboxTypes'
  BY BeginTypes DEF InboxInv
<1>2. /\ call[c].pc = "idle" /\ call'[c].pc = "find"
      /\ \A x \in Callers \ {c} : call'[x] = call[x]
  BY DEF Begin, Idle, NoCall, InboxInv, InboxTypes, CenterTypeOK
<1>3. \A v \in Users : IdsOf(v)' \subseteq IdsOf(v)
  BY SameRows DEF Begin
<1>. QED BY <1>1, <1>2, <1>3, OutsideStep

LEMMA FindBound ==
    ASSUME InboxInv, NEW c \in Callers, FindRecentByDedup(c)
    PROVE  InboxInv'
<1>1. InboxTypes'
  BY FindTypes DEF InboxInv
<1>2. /\ call[c].pc = "find" /\ call'[c].pc # "delete"
      /\ \A x \in Callers \ {c} : call'[x] = call[x]
  <2>1. call[c].pc = "find" /\ call \in [Callers -> Call]
    BY DEF FindRecentByDedup, InboxInv, InboxTypes, CenterTypeOK
  <2>2. ASSUME call' = [call EXCEPT ![c].pc = "create"]
        PROVE  call'[c].pc # "delete" /\ \A x \in Callers \ {c} : call'[x] = call[x]
    BY <2>1, <2>2 DEF Call
  <2>3. ASSUME NEW n, call' = [call EXCEPT ![c].pc = "update", ![c].note = n.id]
        PROVE  call'[c].pc # "delete" /\ \A x \in Callers \ {c} : call'[x] = call[x]
    BY <2>1, <2>3 DEF Call
  <2>. QED BY <2>1, <2>2, <2>3 DEF FindRecentByDedup
<1>3. \A v \in Users : IdsOf(v)' \subseteq IdsOf(v)
  BY SameRows DEF FindRecentByDedup
<1>. QED BY <1>1, <1>2, <1>3, OutsideStep

LEMMA UpdateBound ==
    ASSUME InboxInv, NEW c \in Callers, UpdateCoalesced(c)
    PROVE  InboxInv'
<1>1. InboxTypes'
  BY UpdateTypes DEF InboxInv
<1>2. /\ call[c].pc = "update" /\ call'[c].pc # "delete"
      /\ \A x \in Callers \ {c} : call'[x] = call[x]
  BY NoCallIsCall DEF UpdateCoalesced, Ends, InboxInv, InboxTypes, CenterTypeOK
<1>3. PICK n \in notes : notes' = (notes \ {n}) \cup {Coalesced(n, c)}
  BY DEF UpdateCoalesced
<1>4. Coalesced(n, c).id = n.id /\ Coalesced(n, c).user = n.user
  BY DEF Coalesced, InboxInv, InboxTypes, CenterTypeOK, Note
<1>5. Rewrites
  BY <1>3, <1>4 DEF Rewrites
<1>. QED BY <1>1, <1>2, <1>5, FewerRows, OutsideStep

\* The new row is the call's own until it has counted.
LEMMA CreateBound ==
    ASSUME InboxInv, NEW c \in Callers, Create(c)
    PROVE  InboxInv'
<1>1. InboxTypes'
  BY CreateTypes DEF InboxInv
<1>2. /\ call[c].pc = "create" /\ call'[c].pc = "count"
      /\ call'[c].user = call[c].user /\ call'[c].note = nextNote
      /\ \A x \in Callers \ {c} : call'[x] = call[x]
  BY DEF Create, InboxInv, InboxTypes, CenterTypeOK, Call
<1>3. \A n \in notes' : n \in notes \/ (n.id = nextNote /\ n.user = call[c].user)
  BY DEF Create
<1>4. KeepsFew'
  BY <1>2 DEF InboxInv, KeepsFew
<1>5. ASSUME NEW u \in Users PROVE Bounded(u)'
  <2>1. Trimming(u) \subseteq Trimming(u)' /\ OwnRows(u) \subseteq OwnRows(u)'
    BY <1>2, OtherCalls DEF Trimming, Counting
  <2>2. ASSUME NEW i \in IdsOf(u)', i \notin OwnRows(u)' PROVE i \in IdsOf(u)
    <3>1. PICK n \in notes' : n.user = u /\ n.id = i
      BY <2>2 DEF IdsOf, NotesOf
    <3>2. CASE n \in notes
      BY <3>1, <3>2 DEF IdsOf, NotesOf
    <3>3. CASE n.id = nextNote /\ n.user = call[c].user
      <4>1. c \in Counting(u)'
        BY <1>2, <3>1, <3>3 DEF Counting
      <4>2. nextNote \in OwnRows(u)'
        BY <1>2, <4>1 DEF OwnRows
      <4>. QED BY <2>2, <3>1, <3>3, <4>2
    <3>. QED BY <1>3, <3>2, <3>3
  <2>. QED BY <1>1, <2>1, <2>2, QuietBound
<1>. QED BY <1>1, <1>4, <1>5 DEF InboxInv

\* A call that counts leaves, the rows being few, or goes on to trim.
LEMMA CountBound ==
    ASSUME InboxInv, NEW c \in Callers, Count(c)
    PROVE  InboxInv'
<1>0. PICK u \in Users : u = call[c].user
  BY DEF Count, InboxInv, InboxTypes, CenterTypeOK, CallsAreFor, Idle
<1>1. InboxTypes' /\ InboxTypes
  BY CountTypes DEF InboxInv
<1>2. /\ call[c].pc = "count" /\ call'[c].pc # "delete"
      /\ \A x \in Callers \ {c} : call'[x] = call[x]
  <2>1. call[c].pc = "count" /\ call \in [Callers -> Call]
    BY DEF Count, InboxInv, InboxTypes, CenterTypeOK
  <2>2. CASE Ends(c)
    BY <2>1, <2>2, NoCallIsCall DEF Ends
  <2>3. CASE call' = [call EXCEPT ![c].pc = "keep"]
    BY <2>1, <2>3 DEF Call
  <2>. QED BY <2>1, <2>2, <2>3 DEF Count
<1>3. KeepsFew'
  BY <1>2 DEF InboxInv, KeepsFew
<1>4. \A v : IdsOf(v)' = IdsOf(v)
  BY SameRows DEF Count
<1>5. ASSUME NEW v \in Users, v # u PROVE Bounded(v)'
  <2>1. Trimming(v) \subseteq Trimming(v)' /\ OwnRows(v) \subseteq OwnRows(v)'
    BY <1>0, <1>2, <1>5, OtherCalls DEF Trimming, Counting
  <2>. QED BY <1>1, <1>4, <2>1, QuietBound
<1>6. Bounded(u)'
  <2>1. CASE CountForUser(u) <= MaxPerUser
    <3>1. IsFiniteSet(IdsOf(u)) /\ Cardinality(IdsOf(u)) <= MaxPerUser
      BY <1>1, <2>1, RowsAreFinite DEF CountForUser
    <3>. QED BY <1>1, <1>2, <1>4, <3>1, FewRows
  <2>2. CASE ~(CountForUser(u) <= MaxPerUser)
    <3>1. call' = [call EXCEPT ![c].pc = "keep"]
      <4>1. CountForUser(u) \in Nat
        BY <1>1, RowsAreFinite, FS_CardinalityType DEF CountForUser
      <4>2. CountForUser(u) > MaxPerUser
        BY <2>2, <4>1, CenterAssumption
      <4>. QED BY <1>0, <4>2 DEF Count
    <3>2. call'[c].pc = "keep" /\ call'[c].user = u
      BY <1>0, <1>1, <3>1 DEF InboxTypes, CenterTypeOK, Call
    <3>. DEFINE S == IdsOf(u) \ OwnRows(u)
                T == Trimming(u)
    <3>3. IsFiniteSet(S) /\ IsFiniteSet(T)
      BY <1>1, RowsAreFinite, CallsAreFinite, FS_Difference
    <3>4. Cardinality(S \cup {call[c].note}) <= Cardinality(S) + 1
      <4>. HIDE DEF S
      <4>. QED BY <3>3, OneMoreAtMost
    <3>5. Cardinality(T \cup {c}) = Cardinality(T) + 1
      BY <1>2, <3>3, FS_AddElement DEF Trimming
    <3>6. /\ IsFiniteSet(S \cup {call[c].note}) /\ IsFiniteSet(Trimming(u)')
          /\ Cardinality(S) \in Nat /\ Cardinality(T) \in Nat
          /\ Cardinality(S \cup {call[c].note}) \in Nat
      BY <3>3, FS_AddElement, FS_CardinalityType, FS_Subset, CenterAssumption DEF Trimming
    <3>7. (IdsOf(u) \ OwnRows(u))' \subseteq S \cup {call[c].note}
      <4>1. OwnRows(u) \ {call[c].note} \subseteq OwnRows(u)'
        BY <1>2, OtherCalls
      <4>2. IdsOf(u)' = IdsOf(u)
        BY <1>4
      <4>. QED BY <4>1, <4>2
    <3>8. T \cup {c} \subseteq Trimming(u)'
      BY <1>0, <1>2, <3>2, OtherCalls DEF Trimming
    <3>9. Cardinality(S) <= MaxPerUser + Cardinality(T)
      BY <1>2 DEF InboxInv, Bounded
    <3>10. Cardinality(S \cup {call[c].note}) <= MaxPerUser + Cardinality(T \cup {c})
      BY <3>4, <3>5, <3>6, <3>9, CenterAssumption
    <3>. HIDE DEF S, T
    <3>. QED BY <3>6, <3>7, <3>8, <3>10, BoundKept DEF Bounded
  <2>. QED BY <2>1, <2>2
<1>. QED BY <1>1, <1>3, <1>5, <1>6 DEF InboxInv

\* The list of what to keep is no longer than the cap.
LEMMA KeepBound ==
    ASSUME InboxInv, NEW c \in Callers, Keep(c)
    PROVE  InboxInv'
<1>1. InboxTypes' /\ InboxTypes
  BY KeepTypes DEF InboxInv
<1>2. PICK K \in Newest(call[c].user) :
        call' = [call EXCEPT ![c].pc = "delete", ![c].keep = {n.id : n \in K}]
  BY DEF Keep
<1>3. /\ call[c].pc = "keep" /\ call'[c].pc = "delete" /\ call'[c].user = call[c].user
      /\ call'[c].keep = {n.id : n \in K}
      /\ \A x \in Callers \ {c} : call'[x] = call[x]
  BY <1>1, <1>2 DEF Keep, InboxTypes, CenterTypeOK, Call
<1>4. IsFiniteSet(call'[c].keep) /\ Cardinality(call'[c].keep) <= MaxPerUser
  <2>1. IsFiniteSet(K) /\ Cardinality(K) <= MaxPerUser
    <3>1. K \in SUBSET NotesOf(call[c].user)
      BY DEF Newest
    <3>2. IsFiniteSet(K)
      BY <1>1, <3>1, RowsAreFinite, FS_Subset
    <3>3. CountForUser(call[c].user) \in Nat
      BY <1>1, RowsAreFinite, FS_CardinalityType DEF CountForUser
    <3>. QED BY <3>2, <3>3, CenterAssumption DEF Newest
  <2>. DEFINE f == [n \in K |-> n.id]
              I == {n.id : n \in K}
  <2>2. f \in Surjection(K, I)
    BY DEF Surjection
  <2>. HIDE DEF f, I
  <2>3. IsFiniteSet(I) /\ Cardinality(I) <= Cardinality(K)
    BY <2>1, <2>2, FS_Surjection
  <2>4. Cardinality(I) \in Nat /\ Cardinality(K) \in Nat
    BY <2>1, <2>3, FS_CardinalityType
  <2>5. Cardinality(I) <= MaxPerUser
    BY <2>1, <2>3, <2>4, CenterAssumption
  <2>. QED BY <1>3, <2>3, <2>5 DEF I
<1>5. KeepsFew'
  BY <1>3, <1>4 DEF InboxInv, KeepsFew
<1>6. ASSUME NEW u \in Users PROVE Bounded(u)'
  <2>1. Trimming(u) \subseteq Trimming(u)' /\ OwnRows(u) \subseteq OwnRows(u)'
    BY <1>3, OtherCalls DEF Trimming, Counting
  <2>2. IdsOf(u)' = IdsOf(u)
    BY SameRows DEF Keep
  <2>. QED BY <1>1, <2>1, <2>2, QuietBound
<1>. QED BY <1>1, <1>5, <1>6 DEF InboxInv

\* What is not in the list goes.
LEMMA DeleteBound ==
    ASSUME InboxInv, NEW c \in Callers, DeleteOldestBeyondCap(c)
    PROVE  InboxInv'
<1>1. InboxTypes' /\ InboxTypes
  BY DeleteTypes DEF InboxInv
<1>2. /\ call[c].pc = "delete" /\ call'[c].pc = "idle"
      /\ \A x \in Callers \ {c} : call'[x] = call[x]
      /\ notes' = {n \in notes : n.user = call[c].user => n.id \in call[c].keep}
  BY <1>1, NoCallIsCall DEF DeleteOldestBeyondCap, Ends, InboxTypes, CenterTypeOK
<1>3. KeepsFew'
  BY <1>2 DEF InboxInv, KeepsFew
<1>4. ASSUME NEW u \in Users, u # call[c].user PROVE Bounded(u)'
  <2>1. Trimming(u) \subseteq Trimming(u)' /\ OwnRows(u) \subseteq OwnRows(u)'
    BY <1>2, <1>4, OtherCalls DEF Trimming, Counting
  <2>2. IdsOf(u)' \subseteq IdsOf(u)
    BY <1>2 DEF IdsOf, NotesOf
  <2>. QED BY <1>1, <2>1, <2>2, QuietBound
<1>5. ASSUME NEW u \in Users, u = call[c].user PROVE Bounded(u)'
  <2>1. IdsOf(u)' \subseteq call[c].keep
    BY <1>2, <1>5 DEF IdsOf, NotesOf
  <2>2. IsFiniteSet(call[c].keep) /\ Cardinality(call[c].keep) <= MaxPerUser
    BY <1>2 DEF InboxInv, KeepsFew
  <2>. QED BY <1>1, <2>1, <2>2, FewRows
<1>. QED BY <1>1, <1>3, <1>4, <1>5 DEF InboxInv

\* A call whose row is gone accounted for nothing.
LEMMA FailsBound ==
    ASSUME InboxInv, NEW c \in Callers, CreateForUserFails(c)
    PROVE  InboxInv'
<1>1. InboxTypes' /\ InboxTypes
  BY FailsTypes DEF InboxInv
<1>2. /\ call[c].pc \in {"update", "count"} /\ call'[c].pc = "idle"
      /\ \A x \in Callers \ {c} : call'[x] = call[x]
      /\ \A n \in notes : n.id # call[c].note
  BY <1>1, NoCallIsCall
     DEF CreateForUserFails, CoalesceFails, CreateFails, Ends, InboxTypes, CenterTypeOK
<1>3. KeepsFew'
  BY <1>2 DEF InboxInv, KeepsFew
<1>4. ASSUME NEW u \in Users PROVE Bounded(u)'
  <2>1. Trimming(u) \subseteq Trimming(u)' /\ OwnRows(u) \ {call[c].note} \subseteq OwnRows(u)'
    BY <1>2, OtherCalls DEF Trimming
  <2>2. IdsOf(u)' = IdsOf(u)
    BY SameRows DEF CreateForUserFails, CoalesceFails, CreateFails
  <2>3. call[c].note \notin IdsOf(u)
    BY <1>2 DEF IdsOf, NotesOf
  <2>. QED BY <1>1, <2>1, <2>2, <2>3, QuietBound
<1>. QED BY <1>1, <1>3, <1>4 DEF InboxInv

LEMMA EnvironmentBound ==
    ASSUME InboxInv, Environment
    PROVE  InboxInv'
<1>1. InboxTypes' /\ Rewrites /\ call' = call
  BY EnvironmentTypes DEF InboxInv
<1>2. KeepsFew'
  BY <1>1 DEF InboxInv, KeepsFew
<1>3. ASSUME NEW u \in Users PROVE Bounded(u)'
  <2>1. Trimming(u)' = Trimming(u) /\ OwnRows(u)' = OwnRows(u)
    BY <1>1 DEF Trimming, OwnRows, Counting
  <2>. QED BY <1>1, <2>1, FewerRows, QuietBound
<1>. QED BY <1>1, <1>2, <1>3 DEF InboxInv

LEMMA NextInbox == InboxInv /\ [CenterNext]_centerVars => InboxInv'
<1>. SUFFICES ASSUME InboxInv, [CenterNext]_centerVars PROVE InboxInv'
  OBVIOUS
<1>1. ASSUME NEW c \in Callers, NEW u \in Users, NEW k \in Keys, Begin(c, u, k)
      PROVE  InboxInv'
  BY <1>1, BeginBound
<1>2. ASSUME NEW c \in Callers, CreateForUser(c) PROVE InboxInv'
  BY <1>2, FindBound, UpdateBound, CreateBound, CountBound, KeepBound, DeleteBound
     DEF CreateForUser
<1>3. ASSUME NEW c \in Callers, CreateForUserFails(c) PROVE InboxInv'
  BY <1>3, FailsBound
<1>4. CASE Environment
  BY <1>4, EnvironmentBound
<1>5. CASE UNCHANGED centerVars
  <2>1. InboxTypes'
    BY <1>5 DEF centerVars, InboxInv, InboxTypes, CenterTypeOK, CallsAreFor, Idle
  <2>2. KeepsFew'
    BY <1>5 DEF centerVars, InboxInv, KeepsFew
  <2>3. ASSUME NEW u \in Users PROVE Bounded(u)'
    BY <1>5 DEF centerVars, InboxInv, Bounded, IdsOf, NotesOf, OwnRows, Counting, Trimming
  <2>. QED BY <2>1, <2>2, <2>3 DEF InboxInv
<1>. QED BY <1>1, <1>2, <1>3, <1>4, <1>5 DEF CenterNext

(***************************************************************************)
(* With the rows of the calls that have not counted yet, one each, on the  *)
(* other side again, the inbox exceeds its cap by these calls and those    *)
(* that trim.                                                              *)
(***************************************************************************)
LEMMA BoundGivesCap == InboxInv => WithinCap
<1>. SUFFICES ASSUME InboxInv, NEW u \in Users
              PROVE  Cardinality(NotesOf(u)) <= MaxPerUser + Cardinality(Untrimmed(u))
  BY DEF WithinCap
<1>. DEFINE S == IdsOf(u) \ OwnRows(u)
<1>1. IsFiniteSet(Counting(u)) /\ IsFiniteSet(Trimming(u)) /\ IsFiniteSet(IdsOf(u))
  BY CallsAreFinite, RowsAreFinite DEF InboxInv
<1>2. IsFiniteSet(OwnRows(u)) /\ Cardinality(OwnRows(u)) <= Cardinality(Counting(u))
  <2>. DEFINE f == [c \in Counting(u) |-> call[c].note]
  <2>1. f \in Surjection(Counting(u), OwnRows(u))
    BY DEF Surjection, OwnRows
  <2>. HIDE DEF f
  <2>. QED BY <1>1, <2>1, FS_Surjection
<1>3. IsFiniteSet(S)
  BY <1>1, FS_Difference
<1>4. Cardinality(S \cup OwnRows(u)) <= Cardinality(S) + Cardinality(OwnRows(u))
  <2>. HIDE DEF S
  <2>1. Cardinality(S \cup OwnRows(u)) =
          Cardinality(S) + Cardinality(OwnRows(u)) - Cardinality(S \cap OwnRows(u))
    BY <1>2, <1>3, FS_Union
  <2>2. IsFiniteSet(S \cap OwnRows(u))
    BY <1>3, FS_Intersection
  <2>3. /\ Cardinality(S) \in Nat /\ Cardinality(OwnRows(u)) \in Nat
        /\ Cardinality(S \cap OwnRows(u)) \in Nat
    BY <1>2, <1>3, <2>2, FS_CardinalityType
  <2>. QED BY <2>1, <2>3
<1>5. Cardinality(IdsOf(u)) <= Cardinality(S \cup OwnRows(u))
  <2>1. IdsOf(u) \in SUBSET (S \cup OwnRows(u)) /\ IsFiniteSet(S \cup OwnRows(u))
    BY <1>2, <1>3, FS_Union
  <2>. QED BY <2>1, FS_Subset
<1>6. Cardinality(Untrimmed(u)) = Cardinality(Counting(u)) + Cardinality(Trimming(u))
  <2>1. Untrimmed(u) = Counting(u) \cup Trimming(u) /\ Counting(u) \cap Trimming(u) = {}
    BY DEF Untrimmed, Counting, Trimming
  <2>2. Cardinality(Counting(u) \cup Trimming(u)) =
          Cardinality(Counting(u)) + Cardinality(Trimming(u))
            - Cardinality(Counting(u) \cap Trimming(u))
    BY <1>1, FS_Union
  <2>3. Cardinality(Counting(u)) \in Nat /\ Cardinality(Trimming(u)) \in Nat
    BY <1>1, FS_CardinalityType
  <2>. QED BY <2>1, <2>2, <2>3, FS_EmptySet
<1>7. /\ Cardinality(S) <= MaxPerUser + Cardinality(Trimming(u))
      /\ Cardinality(NotesOf(u)) = Cardinality(IdsOf(u))
  BY RowsAreFinite DEF InboxInv, Bounded
<1>8. /\ Cardinality(S) \in Nat /\ Cardinality(IdsOf(u)) \in Nat
      /\ Cardinality(OwnRows(u)) \in Nat /\ Cardinality(Counting(u)) \in Nat
      /\ Cardinality(Trimming(u)) \in Nat /\ Cardinality(S \cup OwnRows(u)) \in Nat
  BY <1>1, <1>2, <1>3, FS_Union, FS_CardinalityType
<1>. HIDE DEF S
<1>. QED BY <1>2, <1>4, <1>5, <1>6, <1>7, <1>8, CenterAssumption

\* docs/23: an inbox is bounded, however the calls that fill it overlap.
THEOREM InboxStaysWithinCap == CenterSpec => []WithinCap
BY InitInbox, NextInbox, BoundGivesCap, PTL DEF CenterSpec
-----------------------------------------------------------------------------
(***************************************************************************)
(* Twins.  What is inductive is about the older of two rows alone: if it   *)
(* is still visible, it was when the newer was created, and the call that  *)
(* did had looked for it.  Between the look and the creation, another call *)
(* may create only in a race.                                              *)
(***************************************************************************)
NoNewerTwin ==
    \A n, m \in notes :
        /\ n # m /\ Visible(n) /\ n.user = m.user /\ n.key = m.key
        /\ n.created <= m.created /\ m.created - n.created <= DedupWindow
        => <<n.user, n.key>> \in raced

\* A call about to create has seen no row to coalesce with, and there is none.
Clear(c) ==
    call[c].pc = "create" =>
        \/ <<call[c].user, call[c].key>> \in raced
        \/ \A n \in notes : n.user = call[c].user /\ n.key = call[c].key /\ Visible(n)
              => n.created < call[c].now - DedupWindow

TwinInv == InboxTypes /\ NoNewerTwin /\ \A c \in Callers : Clear(c)

\* What every step but an insertion leaves of the rows: no alert comes back.
Descends ==
    \A m \in notes' : \E n \in notes :
        /\ n.id = m.id /\ n.user = m.user /\ n.key = m.key /\ n.created = m.created
        /\ Visible(m) => Visible(n)

LEMMA DescendsKeepsTwins ==
    ASSUME TwinInv, InboxTypes', Descends, raced \subseteq raced'
    PROVE  /\ NoNewerTwin'
           /\ \A c \in Callers : call'[c] = call[c] => Clear(c)'
<1>1. NoNewerTwin'
  <2>. SUFFICES ASSUME NEW n \in notes', NEW m \in notes',
                       n # m, Visible(n), n.user = m.user, n.key = m.key,
                       n.created <= m.created, m.created - n.created <= DedupWindow
                PROVE  <<n.user, n.key>> \in raced'
    BY DEF NoNewerTwin, Visible
  <2>1. PICK x \in notes : /\ x.id = n.id /\ x.user = n.user /\ x.key = n.key
                           /\ x.created = n.created /\ Visible(x)
    BY DEF Descends
  <2>2. PICK y \in notes : /\ y.id = m.id /\ y.user = m.user /\ y.key = m.key
                           /\ y.created = m.created
    BY DEF Descends
  <2>3. n.id # m.id
    BY DEF InboxTypes, CenterTypeOK
  <2>4. x # y
    BY <2>1, <2>2, <2>3
  <2>. QED BY <2>1, <2>2, <2>4 DEF TwinInv, NoNewerTwin
<1>2. ASSUME NEW c \in Callers, call'[c] = call[c] PROVE Clear(c)'
  <2>. SUFFICES ASSUME call[c].pc = "create", <<call[c].user, call[c].key>> \notin raced',
                       NEW m \in notes', m.user = call[c].user, m.key = call[c].key, Visible(m)
                PROVE  m.created < call[c].now - DedupWindow
    BY <1>2 DEF Clear, Visible
  <2>1. PICK n \in notes : /\ n.user = m.user /\ n.key = m.key
                           /\ n.created = m.created /\ Visible(n)
    BY DEF Descends
  <2>. QED BY <2>1 DEF TwinInv, Clear
<1>. QED BY <1>1, <1>2

LEMMA FewerRowsDescend ==
    ASSUME notes' \subseteq notes
    PROVE  Descends
<1>. SUFFICES ASSUME NEW m \in notes'
              PROVE  \E n \in notes : /\ n.id = m.id /\ n.user = m.user /\ n.key = m.key
                                      /\ n.created = m.created /\ (Visible(m) => Visible(n))
  BY DEF Descends
<1>. QED OBVIOUS

LEMMA SameRowsDescend == UNCHANGED notes => Descends
BY FewerRowsDescend

\* A call that neither goes to create nor creates.
LEMMA QuietTwins ==
    ASSUME TwinInv, InboxTypes', Descends, raced \subseteq raced', NEW c \in Callers,
           call'[c].pc # "create", \A d \in Callers \ {c} : call'[d] = call[d]
    PROVE  TwinInv'
<1>1. Clear(c)'
  BY DEF Clear
<1>. QED BY <1>1, DescendsKeepsTwins DEF TwinInv

LEMMA FindTwins ==
    ASSUME TwinInv, NEW c \in Callers, FindRecentByDedup(c)
    PROVE  TwinInv'
<1>. DEFINE u == call[c].user
            k == call[c].key
<1>1. InboxTypes' /\ InboxTypes
  BY FindTypes DEF TwinInv
<1>2. /\ call[c] \in Call /\ notes' = notes /\ raced \subseteq raced' /\ ~Idle(c)
      /\ u \in Users /\ k \in Keys
  BY <1>1 DEF FindRecentByDedup, InboxTypes, CenterTypeOK, CallsAreFor, Idle
<1>3. \A d \in Callers \ {c} : call'[d] = call[d]
  <2>1. CASE call' = [call EXCEPT ![c].pc = "create"]
    BY <1>1, <2>1 DEF InboxTypes, CenterTypeOK
  <2>2. ASSUME NEW n, call' = [call EXCEPT ![c].pc = "update", ![c].note = n.id]
        PROVE  \A d \in Callers \ {c} : call'[d] = call[d]
    BY <1>1, <2>2 DEF InboxTypes, CenterTypeOK
  <2>. QED BY <2>1, <2>2 DEF FindRecentByDedup
<1>4. CASE call'[c].pc # "create"
  BY <1>1, <1>2, <1>3, <1>4, SameRowsDescend, QuietTwins
<1>5. CASE call'[c].pc = "create"
  <2>1. call' = [call EXCEPT ![c].pc = "create"]
    <3>1. ASSUME NEW n, call' = [call EXCEPT ![c].pc = "update", ![c].note = n.id]
          PROVE  FALSE
      BY <1>1, <1>2, <1>5, <3>1 DEF InboxTypes, CenterTypeOK, Call
    <3>. QED BY <3>1 DEF FindRecentByDedup
  <2>2. call'[c].user = u /\ call'[c].key = k /\ call'[c].now = call[c].now
    BY <1>1, <1>2, <2>1 DEF InboxTypes, CenterTypeOK, Call
  <2>3. Clear(c)'
    <3>. SUFFICES ASSUME <<u, k>> \notin raced', NEW m \in notes, m.user = u, m.key = k,
                         Visible(m), ~(m.created < call[c].now - DedupWindow)
                  PROVE  FALSE
      BY <1>2, <1>5, <2>2 DEF Clear, Visible
    <3>1. ~Late(c)
      BY <1>5 DEF FindRecentByDedup
    <3>2. /\ m.created \in Nat /\ call[c].now \in Nat /\ DedupWindow \in Nat
          /\ \A n \in notes : n.created \in Nat
      BY <1>1, <1>2, CenterAssumption DEF InboxTypes, CenterTypeOK, Note, Call
    <3>3. m \in Recent(c)
      BY <3>2 DEF Recent, NotesOf
    <3>4. PICK n \in RecentByDedup(c) : ~Coalesces(n)
      <4>1. PICK n \in RecentByDedup(c) :
              call' = IF Coalesces(n)
                      THEN [call EXCEPT ![c].pc = "update", ![c].note = n.id]
                      ELSE [call EXCEPT ![c].pc = "create"]
        BY <3>3 DEF FindRecentByDedup
      <4>2. CASE Coalesces(n)
        <5>1. call' = [call EXCEPT ![c].pc = "update", ![c].note = n.id]
          BY <4>1, <4>2
        <5>. QED BY <1>1, <1>2, <1>5, <5>1 DEF InboxTypes, CenterTypeOK, Call
      <4>. QED BY <4>2
    <3>5. /\ n \in notes /\ n.user = u /\ n.key = k /\ ~Visible(n)
          /\ m.created <= n.created
      BY <3>3, <3>4 DEF RecentByDedup, Recent, NotesOf, Coalesces, Visible
    <3>6. n.created <= call[c].now
      BY <3>1, <3>2, <3>5 DEF Late, NotesOf
    <3>7. n.created - m.created <= DedupWindow
      BY <3>2, <3>5, <3>6
    <3>8. m # n
      BY <3>5
    <3>9. <<u, k>> \in raced
      BY <3>5, <3>7, <3>8 DEF TwinInv, NoNewerTwin
    <3>. QED BY <1>2, <3>9
  <2>. QED BY <1>1, <1>2, <1>3, <2>3, SameRowsDescend, DescendsKeepsTwins DEF TwinInv
<1>. QED BY <1>4, <1>5

LEMMA CreateTwins ==
    ASSUME TwinInv, NEW c \in Callers, Create(c)
    PROVE  TwinInv'
<1>1. InboxTypes' /\ InboxTypes
  BY CreateTypes DEF TwinInv
<1>2. /\ call[c].pc = "create" /\ call'[c].pc = "count" /\ call[c].now \in Nat
      /\ \A d \in Callers \ {c} : call'[d] = call[d]
      /\ raced \subseteq raced' /\ DedupWindow \in Nat
  BY <1>1, CenterAssumption DEF Create, InboxTypes, CenterTypeOK, Call
<1>3. PICK r : /\ notes' = notes \cup {r}
               /\ r.user = call[c].user /\ r.key = call[c].key /\ r.created = call[c].now
  <2>. DEFINE row == [id |-> nextNote, user |-> call[c].user, key |-> call[c].key,
                      created |-> call[c].now, updated |-> call[c].now,
                      read |-> FALSE, dismissed |-> FALSE]
  <2>1. notes' = notes \cup {row}
    BY DEF Create
  <2>2. row.user = call[c].user /\ row.key = call[c].key /\ row.created = call[c].now
    OBVIOUS
  <2>. HIDE DEF row
  <2>. QED BY <2>1, <2>2
<1>4. \A n \in notes : n.created \in Nat
  BY <1>1 DEF InboxTypes, CenterTypeOK, Note
<1>5. CASE Overtaken(c)
  <2>1. <<r.user, r.key>> \in raced'
    BY <1>3, <1>5 DEF Create
  <2>2. NoNewerTwin'
    BY <1>2, <1>3, <2>1 DEF TwinInv, NoNewerTwin, Visible
  <2>3. ASSUME NEW d \in Callers PROVE Clear(d)'
    BY <1>2, <1>3, <2>1 DEF TwinInv, Clear, Visible
  <2>. QED BY <1>1, <2>2, <2>3 DEF TwinInv
<1>6. CASE ~Overtaken(c)
  <2>1. /\ \A n \in notes : n.user = r.user /\ n.key = r.key => n.created < r.created
        /\ \A d \in Callers \ {c} : call[d].pc = "create"
              => ~(call[d].user = r.user /\ call[d].key = r.key)
    BY <1>2, <1>3, <1>4, <1>6 DEF Overtaken, NotesOf
  <2>2. \A n \in notes : n.user = r.user /\ n.key = r.key /\ Visible(n)
           => n.created < r.created - DedupWindow \/ <<r.user, r.key>> \in raced
    BY <1>2, <1>3 DEF TwinInv, Clear
  <2>3. NoNewerTwin'
    <3>. SUFFICES ASSUME NEW n \in notes', NEW m \in notes',
                         n # m, Visible(n), n.user = m.user, n.key = m.key,
                         n.created <= m.created, m.created - n.created <= DedupWindow
                  PROVE  <<n.user, n.key>> \in raced'
      BY DEF NoNewerTwin, Visible
    <3>1. CASE n \in notes /\ m \in notes
      BY <1>2, <3>1 DEF TwinInv, NoNewerTwin
    <3>2. CASE n = r
      <4>1. m \in notes /\ m.created < r.created
        BY <1>3, <2>1, <3>2
      <4>. QED BY <1>2, <1>3, <1>4, <3>2, <4>1
    <3>3. CASE n \in notes /\ m = r
      <4>1. ~(n.created < r.created - DedupWindow)
        BY <1>2, <1>3, <1>4, <3>3
      <4>. QED BY <1>2, <2>2, <3>3, <4>1
    <3>. QED BY <1>3, <3>1, <3>2, <3>3
  <2>4. ASSUME NEW d \in Callers PROVE Clear(d)'
    <3>1. CASE d = c
      BY <1>2, <3>1 DEF Clear
    <3>2. CASE d # c
      BY <1>2, <1>3, <2>1, <3>2 DEF TwinInv, Clear, Visible
    <3>. QED BY <3>1, <3>2
  <2>. QED BY <1>1, <2>3, <2>4 DEF TwinInv
<1>. QED BY <1>5, <1>6
\* The steps of a call after which it neither looks for a row nor creates one.
LEMMA EndingMoves ==
    ASSUME InboxTypes, NEW c \in Callers,
           UpdateCoalesced(c) \/ Count(c) \/ Keep(c) \/ DeleteOldestBeyondCap(c)
             \/ CreateForUserFails(c)
    PROVE  /\ call'[c].pc \notin {"find", "update", "create"}
           /\ \A d \in Callers \ {c} : call'[d] = call[d]
           /\ raced' = raced
<1>1. call \in [Callers -> Call] /\ call[c] \in Call
  BY DEF InboxTypes, CenterTypeOK
<1>2. CASE Ends(c)
  BY <1>1, <1>2, NoCallIsCall DEF Ends, UpdateCoalesced, Count, Keep, DeleteOldestBeyondCap,
     CreateForUserFails, CoalesceFails, CreateFails
<1>3. CASE Count(c) /\ call' = [call EXCEPT ![c].pc = "keep"]
  BY <1>1, <1>3 DEF Call, Count
<1>4. CASE Keep(c)
  <2>1. PICK K : call' = [call EXCEPT ![c].pc = "delete", ![c].keep = {n.id : n \in K}]
    BY <1>4 DEF Keep
  <2>. QED BY <1>1, <1>4, <2>1 DEF Call, Keep
<1>. QED BY <1>2, <1>3, <1>4 DEF UpdateCoalesced, Count, DeleteOldestBeyondCap,
     CreateForUserFails, CoalesceFails, CreateFails

LEMMA EndingDescends ==
    ASSUME InboxTypes, NEW c \in Callers,
           UpdateCoalesced(c) \/ Count(c) \/ Keep(c) \/ DeleteOldestBeyondCap(c)
             \/ CreateForUserFails(c)
    PROVE  Descends
<1>1. CASE UpdateCoalesced(c)
  <2>1. PICK n \in notes : notes' = (notes \ {n}) \cup {Coalesced(n, c)}
    BY <1>1 DEF UpdateCoalesced
  <2>. DEFINE m == Coalesced(n, c)
  <2>2. /\ m.id = n.id /\ m.user = n.user /\ m.key = n.key /\ m.created = n.created
        /\ m.dismissed = n.dismissed
    BY DEF Coalesced, InboxTypes, CenterTypeOK, Note
  <2>. HIDE DEF m
  <2>. QED BY <2>1, <2>2 DEF Descends, Visible, m
<1>2. CASE notes' \subseteq notes
  BY <1>2, FewerRowsDescend
<1>. QED BY <1>1, <1>2 DEF Count, Keep, DeleteOldestBeyondCap, CreateForUserFails,
     CoalesceFails, CreateFails

LEMMA EnvironmentDescends ==
    ASSUME InboxTypes, Environment
    PROVE  Descends /\ raced' = raced
<1>1. ASSUME NEW u \in Users, MarkAllRead(u) PROVE Descends
  <2>. DEFINE Mark(n) == IF n.user = u /\ Visible(n)
                         THEN [n EXCEPT !.read = TRUE, !.updated = clock] ELSE n
  <2>1. notes' = {Mark(n) : n \in notes}
    BY <1>1 DEF MarkAllRead
  <2>2. \A n \in notes : /\ Mark(n).id = n.id /\ Mark(n).user = n.user /\ Mark(n).key = n.key
                         /\ Mark(n).created = n.created /\ Mark(n).dismissed = n.dismissed
    BY DEF InboxTypes, CenterTypeOK, Note
  <2>. HIDE DEF Mark
  <2>. QED BY <2>1, <2>2 DEF Descends, Visible
<1>2. ASSUME NEW n \in notes, MarkRead(n) \/ Dismiss(n) PROVE Descends
  <2>. DEFINE read == [n EXCEPT !.read = TRUE, !.updated = clock]
              gone == [n EXCEPT !.read = TRUE, !.dismissed = TRUE, !.updated = clock]
  <2>1. /\ read.id = n.id /\ read.user = n.user /\ read.key = n.key
        /\ read.created = n.created /\ read.dismissed = n.dismissed
        /\ gone.id = n.id /\ gone.user = n.user /\ gone.key = n.key
        /\ gone.created = n.created /\ gone.dismissed
    BY DEF InboxTypes, CenterTypeOK, Note
  <2>2. notes' = (notes \ {n}) \cup {read} \/ notes' = (notes \ {n}) \cup {gone}
    BY <1>2 DEF MarkRead, Dismiss
  <2>. HIDE DEF read, gone
  <2>3. CASE notes' = (notes \ {n}) \cup {read}
    BY <2>1, <2>3 DEF Descends, Visible
  <2>4. CASE notes' = (notes \ {n}) \cup {gone}
    BY <2>1, <2>4 DEF Descends, Visible
  <2>. QED BY <2>2, <2>3, <2>4
<1>3. ASSUME notes' \subseteq notes PROVE Descends
  BY <1>3, FewerRowsDescend
<1>4. raced' = raced
  <2>1. (\E u : UserActs(u)) \/ PurgeExpired \/ Tick
    BY Zenon DEF Environment, MarkAllRead, MarkRead, Dismiss
  <2>. QED BY <2>1 DEF UserActs, PurgeExpired, Tick
<1>. QED BY <1>1, <1>2, <1>3, <1>4 DEF Environment, PurgeExpired, Tick

LEMMA NextTypes == InboxTypes /\ [CenterNext]_centerVars => InboxTypes'
<1>. SUFFICES ASSUME InboxTypes, [CenterNext]_centerVars PROVE InboxTypes'
  OBVIOUS
<1>1. ASSUME NEW c \in Callers, NEW u \in Users, NEW k \in Keys, Begin(c, u, k)
      PROVE  InboxTypes'
  BY <1>1, BeginTypes
<1>2. ASSUME NEW c \in Callers, CreateForUser(c) PROVE InboxTypes'
  BY <1>2, FindTypes, UpdateTypes, CreateTypes, CountTypes, KeepTypes, DeleteTypes
     DEF CreateForUser
<1>3. ASSUME NEW c \in Callers, CreateForUserFails(c) PROVE InboxTypes'
  BY <1>3, FailsTypes
<1>4. CASE Environment
  BY <1>4, EnvironmentTypes
<1>5. CASE UNCHANGED centerVars
  BY <1>5 DEF centerVars, InboxTypes, CenterTypeOK, CallsAreFor, Idle
<1>. QED BY <1>1, <1>2, <1>3, <1>4, <1>5 DEF CenterNext

LEMMA NextTwins == TwinInv /\ [CenterNext]_centerVars => TwinInv'
<1>. SUFFICES ASSUME TwinInv, [CenterNext]_centerVars PROVE TwinInv'
  OBVIOUS
<1>0. InboxTypes /\ InboxTypes'
  BY NextTypes DEF TwinInv
<1>1. ASSUME NEW c \in Callers, NEW u \in Users, NEW k \in Keys, Begin(c, u, k)
      PROVE  TwinInv'
  <2>1. /\ call'[c].pc = "find" /\ UNCHANGED <<notes, raced>>
        /\ \A d \in Callers \ {c} : call'[d] = call[d]
    BY <1>0, <1>1 DEF Begin, NoCall, InboxTypes, CenterTypeOK
  <2>. QED BY <1>0, <2>1, SameRowsDescend, QuietTwins
<1>2. ASSUME NEW c \in Callers, CreateForUser(c) \/ CreateForUserFails(c) PROVE TwinInv'
  <2>1. CASE FindRecentByDedup(c)
    BY <2>1, FindTwins
  <2>2. CASE Create(c)
    BY <2>2, CreateTwins
  <2>3. CASE UpdateCoalesced(c) \/ Count(c) \/ Keep(c) \/ DeleteOldestBeyondCap(c)
               \/ CreateForUserFails(c)
    BY <1>0, <2>3, EndingMoves, EndingDescends, QuietTwins
  <2>. QED BY <1>2, <2>1, <2>2, <2>3 DEF CreateForUser
<1>3. CASE Environment
  <2>1. Descends /\ raced' = raced /\ call' = call
    BY <1>0, <1>3, EnvironmentDescends, EnvironmentTypes
  <2>. QED BY <1>0, <2>1, DescendsKeepsTwins DEF TwinInv
<1>4. CASE UNCHANGED centerVars
  BY <1>0, <1>4, SameRowsDescend, DescendsKeepsTwins DEF centerVars, TwinInv
<1>. QED BY <1>1, <1>2, <1>3, <1>4 DEF CenterNext

\* A user does not see two alerts of one key created within the window, unless
\* two calls for it raced to create, or read their clocks in another order.
THEOREM TwinsRaced == CenterSpec => []NoTwins
<1>1. CenterInit => TwinInv
  <2>. SUFFICES ASSUME CenterInit PROVE TwinInv
    OBVIOUS
  <2>1. NoNewerTwin
    BY DEF CenterInit, NoNewerTwin
  <2>2. \A c \in Callers : Clear(c)
    BY DEF CenterInit, Clear, NoCall
  <2>. QED BY <2>1, <2>2, InitTypes DEF TwinInv
<1>2. TwinInv => NoTwins
  BY DEF TwinInv, NoNewerTwin, NoTwins
<1>. QED BY <1>1, <1>2, NextTwins, PTL DEF CenterSpec
-----------------------------------------------------------------------------
(***************************************************************************)
(* The alert a call leaves.  Until the call returns, the row it inserted   *)
(* or is about to coalesce with is there and can be seen, or somebody has  *)
(* disturbed the call; a call that trims keeps that row, or as many others *)
(* as the cap allows that are no older.  The purge does not come between:  *)
(* a call is too short for what is as new as it to expire.                 *)
(***************************************************************************)
Timely ==
    /\ \A n \in notes : n.created <= clock /\ n.created - MaxCallTime <= n.updated
    /\ \A c \in Callers : ~Idle(c) =>
         call[c].now <= clock /\ clock - call[c].now <= MaxCallTime

CallsKnowRows ==
    \A c \in Callers :
        call[c].pc \in {"update", "count", "keep", "delete"} => call[c].note < nextNote

IsFor(n, c) == n.user = call[c].user /\ n.key = call[c].key

WillCoalesce(c) ==
    call[c].pc = "update" =>
        \A n \in notes : n.id = call[c].note => IsFor(n, c) /\ (c \in disturbed \/ Visible(n))

HasShown(c) ==
    call[c].pc \in {"count", "keep", "delete"} /\ c \notin disturbed =>
        \E n \in notes : /\ n.id = call[c].note /\ n.created = call[c].now
                         /\ Shows(n, call[c].user, call[c].key)

\* The cap is taken up by rows at least as new as the call's own.
Ousted(c) ==
    /\ Cardinality(call[c].keep) = MaxPerUser
    /\ \A i \in call[c].keep :
         /\ i # call[c].note
         /\ \E n \in notes : n.id = i /\ n.user = call[c].user /\ n.created >= call[c].now

WillKeep(c) ==
    call[c].pc = "delete" /\ c \notin disturbed =>
        call[c].note \in call[c].keep \/ Ousted(c)

ShownInv ==
    /\ InboxTypes /\ Timely /\ CallsKnowRows
    /\ \A c \in Callers : WillCoalesce(c) /\ HasShown(c) /\ WillKeep(c)

(***************************************************************************)
(* What the steps of others leave of the rows a call relies on, unless     *)
(* they disturb it: those as new as the call remain, and can be seen if    *)
(* they could; and none of the rows there were changes hands.              *)
(***************************************************************************)
Remains(n) ==
    \E m \in notes' :
        /\ m.id = n.id /\ m.user = n.user /\ m.key = n.key /\ m.created = n.created
        /\ Visible(n) => Visible(m)
        /\ ~n.read => ~m.read

Spares(c) ==
    \A n \in notes :
        n.user = call[c].user =>
            /\ n.created >= call[c].now => Remains(n)
            /\ Visible(n) => \A m \in notes' : m.id = n.id => Visible(m)

SameHands ==
    \A m \in notes' : m.id < nextNote =>
        \E n \in notes : n.id = m.id /\ n.user = m.user /\ n.key = m.key

LEMMA OthersLeaveIt ==
    ASSUME ShownInv, InboxTypes', NEW c \in Callers, call'[c] = call[c], SameHands,
           c \in disturbed => c \in disturbed',
           c \notin disturbed' /\ ~Idle(c) => Spares(c)
    PROVE  WillCoalesce(c)' /\ HasShown(c)' /\ WillKeep(c)'
<1>0. /\ WillCoalesce(c) /\ HasShown(c) /\ WillKeep(c) /\ CallsKnowRows
      /\ \A n \in notes : n.created \in Nat
      /\ call[c].now \in Nat
  BY DEF ShownInv, InboxTypes, CenterTypeOK, Note, Call
<1>1. WillCoalesce(c)'
  <2>. SUFFICES ASSUME call[c].pc = "update", NEW m \in notes', m.id = call[c].note
                PROVE  IsFor(m, c) /\ (c \in disturbed' \/ Visible(m))
    BY DEF WillCoalesce, IsFor, Visible
  <2>1. PICK n \in notes : n.id = m.id /\ n.user = m.user /\ n.key = m.key
    BY <1>0 DEF SameHands, CallsKnowRows
  <2>2. IsFor(n, c) /\ (c \in disturbed \/ Visible(n))
    BY <1>0, <2>1 DEF WillCoalesce
  <2>3. IsFor(m, c) /\ n.user = call[c].user
    BY <2>1, <2>2 DEF IsFor
  <2>4. c \in disturbed' \/ Visible(m)
    BY <2>1, <2>2, <2>3 DEF Spares, Idle
  <2>. QED BY <2>3, <2>4
<1>2. HasShown(c)'
  <2>. SUFFICES ASSUME call[c].pc \in {"count", "keep", "delete"}, c \notin disturbed'
                PROVE  \E n \in notes' : /\ n.id = call[c].note /\ n.created = call[c].now
                                         /\ Shows(n, call[c].user, call[c].key)
    BY DEF HasShown, Shows, Visible
  <2>1. PICK n \in notes : /\ n.id = call[c].note /\ n.created = call[c].now
                           /\ Shows(n, call[c].user, call[c].key)
    BY <1>0 DEF HasShown
  <2>2. Remains(n)
    BY <1>0, <2>1 DEF Spares, Idle, Shows
  <2>. QED BY <2>1, <2>2 DEF Remains, Shows
<1>3. WillKeep(c)'
  <2>. SUFFICES ASSUME call[c].pc = "delete", c \notin disturbed'
                PROVE  call[c].note \in call[c].keep \/ Ousted(c)'
    BY DEF WillKeep
  <2>1. CASE call[c].note \in call[c].keep
    BY <2>1
  <2>2. CASE Ousted(c)
    <3>1. ASSUME NEW i \in call[c].keep
          PROVE  \E m \in notes' : m.id = i /\ m.user = call[c].user /\ m.created >= call[c].now
      <4>1. PICK n \in notes : n.id = i /\ n.user = call[c].user /\ n.created >= call[c].now
        BY <2>2 DEF Ousted
      <4>2. Remains(n)
        BY <4>1 DEF Spares, Idle
      <4>. QED BY <4>1, <4>2 DEF Remains
    <3>. QED BY <2>2, <3>1 DEF Ousted
  <2>. QED BY <1>0, <2>1, <2>2 DEF WillKeep
<1>. QED BY <1>1, <1>2, <1>3

LEMMA SameRowsSpared ==
    ASSUME UNCHANGED notes, InboxTypes
    PROVE  SameHands /\ \A c : Spares(c)
BY DEF SameHands, Spares, Remains, InboxTypes, CenterTypeOK
LEMMA ShownStep ==
    ASSUME ShownInv, InboxTypes', Timely', CallsKnowRows', SameHands, NEW c \in Callers,
           \A d \in Callers \ {c} :
              /\ call'[d] = call[d]
              /\ d \in disturbed => d \in disturbed'
              /\ d \notin disturbed' /\ ~Idle(d) => Spares(d),
           WillCoalesce(c)' /\ HasShown(c)' /\ WillKeep(c)'
    PROVE  ShownInv'
<1>1. \A d \in Callers \ {c} : WillCoalesce(d)' /\ HasShown(d)' /\ WillKeep(d)'
  BY OthersLeaveIt
<1>. QED BY <1>1 DEF ShownInv

\* A call that ends, or whose row is yet to come, relies on none.
LEMMA NoRowYet ==
    ASSUME NEW c \in Callers, call'[c].pc \in {"idle", "find", "create"}
    PROVE  WillCoalesce(c)' /\ HasShown(c)' /\ WillKeep(c)'
BY DEF WillCoalesce, HasShown, WillKeep

\* Calls go on at the instant they were made, on rows there have been.
LEMMA TimelyCalls ==
    ASSUME ShownInv, UNCHANGED clock, NEW c \in Callers,
           \A d \in Callers \ {c} : call'[d] = call[d],
           call'[c].pc = "idle" \/ (~Idle(c) /\ call'[c].now = call[c].now)
             \/ call'[c].now = clock,
           InboxTypes',
           \A n \in notes' : n.created <= clock /\ n.created - MaxCallTime <= n.updated
    PROVE  Timely'
<1>1. clock \in Nat /\ MaxCallTime \in Nat
  BY CenterAssumption DEF ShownInv, InboxTypes, CenterTypeOK
<1>2. ASSUME NEW d \in Callers, call'[d].pc # "idle"
      PROVE  call'[d].now <= clock /\ clock - call'[d].now <= MaxCallTime
  <2>1. CASE call'[d].now = clock
    BY <1>1, <2>1
  <2>2. CASE call'[d].now # clock
    <3>1. ~Idle(d) /\ call'[d].now = call[d].now
      BY <1>2, <2>2 DEF Idle
    <3>. QED BY <3>1 DEF ShownInv, Timely
  <2>. QED BY <2>1, <2>2
<1>. QED BY <1>2 DEF Timely, Idle

LEMMA BeginShown ==
    ASSUME ShownInv, NEW c \in Callers, NEW u \in Users, NEW k \in Keys, Begin(c, u, k)
    PROVE  ShownInv'
<1>1. InboxTypes' /\ InboxTypes /\ Timely /\ CallsKnowRows
  BY BeginTypes DEF ShownInv
<1>2. /\ call'[c].pc = "find" /\ call'[c].now = clock
      /\ \A d \in Callers \ {c} : call'[d] = call[d]
      /\ UNCHANGED <<clock, notes, nextNote, disturbed>>
  BY <1>1 DEF Begin, NoCall, InboxTypes, CenterTypeOK
<1>3. Timely'
  BY <1>1, <1>2, TimelyCalls DEF Timely
<1>4. CallsKnowRows'
  BY <1>1, <1>2 DEF CallsKnowRows
<1>. QED BY <1>1, <1>2, <1>3, <1>4, SameRowsSpared, NoRowYet, ShownStep

\* The row found is the call's, and there is no other of its identity.
LEMMA FindShown ==
    ASSUME ShownInv, NEW c \in Callers, FindRecentByDedup(c)
    PROVE  ShownInv'
<1>1. InboxTypes' /\ InboxTypes /\ Timely /\ CallsKnowRows
  BY FindTypes DEF ShownInv
<1>2. call[c] \in Call /\ ~Idle(c) /\ UNCHANGED <<clock, notes, nextNote, disturbed>>
  BY <1>1 DEF FindRecentByDedup, InboxTypes, CenterTypeOK, Idle
<1>3. CASE call' = [call EXCEPT ![c].pc = "create"]
  <2>1. /\ call'[c].pc = "create" /\ call'[c].now = call[c].now
        /\ \A d \in Callers \ {c} : call'[d] = call[d]
    BY <1>1, <1>2, <1>3 DEF InboxTypes, CenterTypeOK, Call
  <2>2. Timely'
    BY <1>1, <1>2, <2>1, TimelyCalls DEF Timely
  <2>3. CallsKnowRows'
    BY <1>1, <1>2, <2>1 DEF CallsKnowRows
  <2>. QED BY <1>1, <1>2, <2>1, <2>2, <2>3, SameRowsSpared, NoRowYet, ShownStep
<1>4. ASSUME NEW n \in Recent(c), Coalesces(n),
             call' = [call EXCEPT ![c].pc = "update", ![c].note = n.id]
      PROVE  ShownInv'
  <2>1. /\ call'[c].pc = "update" /\ call'[c].now = call[c].now /\ call'[c].note = n.id
        /\ call'[c].user = call[c].user /\ call'[c].key = call[c].key
        /\ \A d \in Callers \ {c} : call'[d] = call[d]
    BY <1>1, <1>2, <1>4 DEF InboxTypes, CenterTypeOK, Call
  <2>2. n \in notes /\ n.id < nextNote /\ IsFor(n, c) /\ Visible(n)
    BY <1>1, <1>4 DEF Recent, NotesOf, InboxTypes, CenterTypeOK, IsFor, Coalesces, Visible
  <2>3. Timely'
    BY <1>1, <1>2, <2>1, TimelyCalls DEF Timely
  <2>4. CallsKnowRows'
    BY <1>1, <1>2, <2>1, <2>2 DEF CallsKnowRows
  <2>5. WillCoalesce(c)'
    <3>1. \A m \in notes : m.id = n.id => m = n
      BY <1>1, <2>2 DEF InboxTypes, CenterTypeOK
    <3>. QED BY <1>2, <2>1, <2>2, <3>1 DEF WillCoalesce, IsFor, Visible
  <2>6. HasShown(c)' /\ WillKeep(c)'
    BY <2>1 DEF HasShown, WillKeep
  <2>. QED BY <1>1, <1>2, <2>1, <2>3, <2>4, <2>5, <2>6, SameRowsSpared, ShownStep
<1>5. RecentByDedup(c) \subseteq Recent(c)
  BY DEF RecentByDedup
<1>6. CASE Recent(c) = {}
  BY <1>3, <1>6 DEF FindRecentByDedup
<1>7. CASE Recent(c) # {}
  <2>1. PICK n \in RecentByDedup(c) :
          call' = IF Coalesces(n)
                  THEN [call EXCEPT ![c].pc = "update", ![c].note = n.id]
                  ELSE [call EXCEPT ![c].pc = "create"]
    BY <1>7 DEF FindRecentByDedup
  <2>2. CASE Coalesces(n)
    <3>1. call' = [call EXCEPT ![c].pc = "update", ![c].note = n.id]
      BY <2>1, <2>2
    <3>. QED BY <1>4, <1>5, <2>2, <3>1
  <2>3. CASE ~Coalesces(n)
    BY <1>3, <2>1, <2>3
  <2>. QED BY <2>2, <2>3
<1>. QED BY <1>6, <1>7

LEMMA UpdateShown ==
    ASSUME ShownInv, NEW c \in Callers, UpdateCoalesced(c)
    PROVE  ShownInv'
<1>1. InboxTypes' /\ InboxTypes /\ Timely /\ CallsKnowRows
  BY UpdateTypes DEF ShownInv
<1>2. /\ call[c].pc = "update" /\ call[c] \in Call /\ ~Idle(c)
      /\ call'[c].pc = "idle" /\ \A d \in Callers \ {c} : call'[d] = call[d]
      /\ UNCHANGED <<clock, nextNote>> /\ disturbed' = disturbed \ {c}
  BY <1>1, NoCallIsCall DEF UpdateCoalesced, Ends, InboxTypes, CenterTypeOK, Idle
<1>3. PICK n \in notes : n.id = call[c].note /\ notes' = (notes \ {n}) \cup {Coalesced(n, c)}
  BY DEF UpdateCoalesced
<1>. DEFINE m == Coalesced(n, c)
<1>4. /\ m.id = n.id /\ m.user = n.user /\ m.key = n.key /\ m.created = n.created
      /\ m.dismissed = n.dismissed /\ ~m.read /\ m.updated = call[c].now
  BY <1>1 DEF Coalesced, InboxTypes, CenterTypeOK, Note
<1>5. notes' = (notes \ {n}) \cup {m}
  BY <1>3
<1>. HIDE DEF m
<1>6. Timely'
  <2>1. /\ n.created \in Nat /\ clock \in Nat /\ call[c].now \in Nat /\ MaxCallTime \in Nat
        /\ n.created <= clock /\ clock - call[c].now <= MaxCallTime
    BY <1>1, <1>2, CenterAssumption DEF Timely, InboxTypes, CenterTypeOK, Note, Call
  <2>2. m.created <= clock /\ m.created - MaxCallTime <= m.updated
    BY <1>4, <2>1
  <2>3. \A x \in notes' : x.created <= clock /\ x.created - MaxCallTime <= x.updated
    BY <1>1, <1>5, <2>2 DEF Timely
  <2>. QED BY <1>1, <1>2, <2>3, TimelyCalls
<1>7. CallsKnowRows'
  BY <1>1, <1>2 DEF CallsKnowRows
<1>8. SameHands
  BY <1>4, <1>5 DEF SameHands
<1>9. \A d : Spares(d)
  <2>1. \A x \in notes : Remains(x)
    BY <1>4, <1>5 DEF Remains, Visible
  <2>2. \A x \in notes, y \in notes' : y.id = x.id /\ Visible(x) => Visible(y)
    BY <1>1, <1>3, <1>4, <1>5 DEF InboxTypes, CenterTypeOK, Visible
  <2>. QED BY <2>1, <2>2 DEF Spares
<1>. QED BY <1>1, <1>2, <1>6, <1>7, <1>8, <1>9, NoRowYet, ShownStep

LEMMA CreateShown ==
    ASSUME ShownInv, NEW c \in Callers, Create(c)
    PROVE  ShownInv'
<1>. DEFINE r == [id |-> nextNote, user |-> call[c].user, key |-> call[c].key,
                  created |-> call[c].now, updated |-> call[c].now,
                  read |-> FALSE, dismissed |-> FALSE]
<1>1. InboxTypes' /\ InboxTypes /\ Timely /\ CallsKnowRows
  BY CreateTypes DEF ShownInv
<1>2. /\ notes' = notes \cup {r} /\ nextNote' = nextNote + 1
      /\ UNCHANGED <<clock, disturbed>>
  BY DEF Create
<1>3. /\ r.id = nextNote /\ r.user = call[c].user /\ r.key = call[c].key
      /\ r.created = call[c].now /\ r.updated = call[c].now /\ ~r.read /\ ~r.dismissed
  OBVIOUS
<1>. HIDE DEF r
<1>4. /\ call[c] \in Call /\ ~Idle(c)
      /\ call'[c].pc = "count" /\ call'[c].now = call[c].now /\ call'[c].note = nextNote
      /\ call'[c].user = call[c].user /\ call'[c].key = call[c].key
      /\ \A d \in Callers \ {c} : call'[d] = call[d]
  BY <1>1 DEF Create, Idle, InboxTypes, CenterTypeOK, Call
<1>5. nextNote \in Nat /\ call[c].now \in Nat /\ MaxCallTime \in Nat
  BY <1>1, <1>4, CenterAssumption DEF InboxTypes, CenterTypeOK, Call
<1>6. Timely'
  <2>1. r.created <= clock /\ r.created - MaxCallTime <= r.updated
    BY <1>1, <1>3, <1>4, <1>5 DEF Timely
  <2>2. \A x \in notes' : x.created <= clock /\ x.created - MaxCallTime <= x.updated
    BY <1>1, <1>2, <2>1 DEF Timely
  <2>. QED BY <1>1, <1>2, <1>4, <2>2, TimelyCalls
<1>7. CallsKnowRows'
  <2>1. \A d \in Callers : call[d].note \in Nat
    BY <1>1 DEF InboxTypes, CenterTypeOK, Call
  <2>. QED BY <1>1, <1>2, <1>4, <1>5, <2>1 DEF CallsKnowRows
<1>8. SameHands
  BY <1>2, <1>3, <1>5 DEF SameHands
<1>9. \A d : Spares(d)
  <2>1. \A x \in notes : Remains(x)
    BY <1>2 DEF Remains
  <2>2. \A x \in notes, y \in notes' : y.id = x.id /\ Visible(x) => Visible(y)
    BY <1>1, <1>2 DEF InboxTypes, CenterTypeOK
  <2>. QED BY <2>1, <2>2 DEF Spares
<1>10. WillCoalesce(c)' /\ HasShown(c)' /\ WillKeep(c)'
  BY <1>2, <1>3, <1>4 DEF WillCoalesce, HasShown, WillKeep, Shows, Visible
<1>. QED BY <1>1, <1>2, <1>4, <1>6, <1>7, <1>8, <1>9, <1>10, ShownStep
LEMMA CountShown ==
    ASSUME ShownInv, NEW c \in Callers, Count(c)
    PROVE  ShownInv'
<1>1. InboxTypes' /\ InboxTypes /\ Timely /\ CallsKnowRows
  BY CountTypes DEF ShownInv
<1>2. /\ call[c] \in Call /\ call[c].pc = "count" /\ ~Idle(c)
      /\ UNCHANGED <<clock, notes, nextNote>>
      /\ \A d \in Callers \ {c} : call'[d] = call[d]
      /\ disturbed' = disturbed \/ disturbed' = disturbed \ {c}
  <2>1. call[c].pc = "count" /\ UNCHANGED <<clock, notes, nextNote>>
    BY DEF Count
  <2>2. \A d \in Callers \ {c} : call'[d] = call[d]
    BY <1>1, EndingMoves
  <2>3. disturbed' = disturbed \/ disturbed' = disturbed \ {c}
    BY DEF Count
  <2>. QED BY <1>1, <2>1, <2>2, <2>3 DEF InboxTypes, CenterTypeOK, Idle
<1>3. CASE Ends(c)
  <2>1. call'[c].pc = "idle"
    BY <1>1, <1>3, NoCallIsCall DEF Ends, InboxTypes, CenterTypeOK
  <2>2. Timely' /\ CallsKnowRows'
    BY <1>1, <1>2, <2>1, TimelyCalls DEF Timely, CallsKnowRows
  <2>. QED BY <1>1, <1>2, <2>1, <2>2, SameRowsSpared, NoRowYet, ShownStep
<1>4. CASE call' = [call EXCEPT ![c].pc = "keep"] /\ UNCHANGED disturbed
  <2>1. /\ call'[c].pc = "keep" /\ call'[c].now = call[c].now /\ call'[c].note = call[c].note
        /\ call'[c].user = call[c].user /\ call'[c].key = call[c].key
    BY <1>1, <1>2, <1>4 DEF InboxTypes, CenterTypeOK, Call
  <2>2. Timely' /\ CallsKnowRows'
    BY <1>1, <1>2, <2>1, TimelyCalls DEF Timely, CallsKnowRows
  <2>3. WillCoalesce(c)' /\ WillKeep(c)'
    BY <2>1 DEF WillCoalesce, WillKeep
  <2>4. HasShown(c)'
    BY <1>2, <1>4, <2>1 DEF ShownInv, HasShown, Shows, Visible
  <2>. QED BY <1>1, <1>2, <2>2, <2>3, <2>4, SameRowsSpared, ShownStep
<1>. QED BY <1>3, <1>4 DEF Count

\* A row that is not among the MaxPerUser newest is no newer than any of them.
LEMMA NewestOust ==
    ASSUME InboxTypes, NEW u \in Users, NEW K \in Newest(u),
           NEW n \in NotesOf(u) \ K
    PROVE  /\ Cardinality({m.id : m \in K}) = MaxPerUser
           /\ \A m \in K : m.id # n.id /\ m.user = u /\ m.created >= n.created
<1>1. /\ K \subseteq NotesOf(u)
      /\ Cardinality(K) = IF CountForUser(u) < MaxPerUser THEN CountForUser(u) ELSE MaxPerUser
      /\ \A x \in K : n.created <= x.created
  BY DEF Newest
<1>2. IsFiniteSet(NotesOf(u)) /\ IsFiniteSet(K)
  BY <1>1, RowsAreFinite, FS_Subset
<1>3. Cardinality(K) = MaxPerUser
  <2>1. K \subseteq NotesOf(u) \ {n} /\ IsFiniteSet(NotesOf(u) \ {n})
    BY <1>1, <1>2, FS_RemoveElement
  <2>2. Cardinality(NotesOf(u) \ {n}) = Cardinality(NotesOf(u)) - 1
    BY <1>2, FS_RemoveElement
  <2>3. Cardinality(K) <= Cardinality(NotesOf(u) \ {n})
    BY <2>1, FS_Subset
  <2>4. Cardinality(NotesOf(u)) \in Nat /\ Cardinality(K) \in Nat
    BY <1>2, FS_CardinalityType
  <2>5. Cardinality(K) # CountForUser(u)
    BY <2>2, <2>3, <2>4 DEF CountForUser
  <2>. QED BY <1>1, <2>5
<1>. DEFINE I == {m.id : m \in K}
            f == [m \in K |-> m.id]
<1>4. f \in Bijection(K, I)
  <2>1. f \in [K -> I]
    OBVIOUS
  <2>2. \A x, y \in K : f[x] = f[y] => x = y
    BY <1>1 DEF InboxTypes, CenterTypeOK, NotesOf
  <2>3. \A i \in I : \E x \in K : f[x] = i
    OBVIOUS
  <2>. HIDE DEF f, I
  <2>. QED BY <2>1, <2>2, <2>3 DEF Bijection, Injection, Surjection, IsInjective
<1>5. Cardinality(I) = MaxPerUser
  <2>. HIDE DEF I, f
  <2>1. ExistsBijection(K, I)
    BY <1>4 DEF ExistsBijection
  <2>2. IsFiniteSet(I)
    BY <1>2, <1>4, FS_Surjection DEF Bijection
  <2>. QED BY <1>2, <1>3, <2>1, <2>2, FS_Bijection
<1>6. \A m \in K : m.id # n.id /\ m.user = u
  BY <1>1 DEF InboxTypes, CenterTypeOK, NotesOf
<1>. QED BY <1>1, <1>5, <1>6 DEF InboxTypes, CenterTypeOK, Note, NotesOf

LEMMA KeepShown ==
    ASSUME ShownInv, NEW c \in Callers, Keep(c)
    PROVE  ShownInv'
<1>1. InboxTypes' /\ InboxTypes /\ Timely /\ CallsKnowRows
  BY KeepTypes DEF ShownInv
<1>2. /\ call[c] \in Call /\ call[c].pc = "keep" /\ ~Idle(c) /\ call[c].user \in Users
      /\ UNCHANGED <<clock, notes, nextNote, disturbed>>
  BY <1>1 DEF Keep, Idle, InboxTypes, CenterTypeOK, CallsAreFor
<1>3. PICK K \in Newest(call[c].user) :
        call' = [call EXCEPT ![c].pc = "delete", ![c].keep = {n.id : n \in K}]
  BY DEF Keep
<1>4. /\ call'[c].pc = "delete" /\ call'[c].now = call[c].now /\ call'[c].note = call[c].note
      /\ call'[c].user = call[c].user /\ call'[c].key = call[c].key
      /\ call'[c].keep = {n.id : n \in K}
      /\ \A d \in Callers \ {c} : call'[d] = call[d]
  BY <1>1, <1>2, <1>3 DEF InboxTypes, CenterTypeOK, Call
<1>5. Timely' /\ CallsKnowRows'
  BY <1>1, <1>2, <1>4, TimelyCalls DEF Timely, CallsKnowRows
<1>6. WillCoalesce(c)'
  BY <1>4 DEF WillCoalesce
<1>7. HasShown(c)'
  BY <1>2, <1>4 DEF ShownInv, HasShown, Shows, Visible
<1>8. WillKeep(c)'
  <2>. SUFFICES ASSUME c \notin disturbed, call[c].note \notin {n.id : n \in K}
                PROVE  Ousted(c)'
    BY <1>2, <1>4 DEF WillKeep
  <2>1. PICK n \in notes : /\ n.id = call[c].note /\ n.created = call[c].now
                           /\ n.user = call[c].user
    BY <1>2 DEF ShownInv, HasShown, Shows
  <2>2. n \in NotesOf(call[c].user) \ K
    BY <2>1 DEF NotesOf
  <2>3. /\ Cardinality({m.id : m \in K}) = MaxPerUser
        /\ \A m \in K : m.id # n.id /\ m.user = call[c].user /\ m.created >= n.created
    BY <1>1, <1>2, <2>2, NewestOust
  <2>4. K \subseteq notes
    BY DEF Newest, NotesOf
  <2>. QED BY <1>2, <1>4, <2>1, <2>3, <2>4 DEF Ousted
<1>. QED BY <1>1, <1>2, <1>4, <1>5, <1>6, <1>7, <1>8, SameRowsSpared, ShownStep
\* A trim takes rows of one user, and disturbs the other calls for that user.
LEMMA DeleteShown ==
    ASSUME ShownInv, NEW c \in Callers, DeleteOldestBeyondCap(c)
    PROVE  ShownInv'
<1>. DEFINE u == call[c].user
<1>1. InboxTypes' /\ InboxTypes /\ Timely /\ CallsKnowRows
  BY DeleteTypes DEF ShownInv
<1>2. /\ call'[c].pc = "idle" /\ UNCHANGED <<clock, nextNote>>
      /\ \A d \in Callers \ {c} : call'[d] = call[d]
      /\ notes' = {n \in notes : n.user = u => n.id \in call[c].keep}
      /\ disturbed' = (disturbed \cup CallsFor(u)) \ {c}
  BY <1>1, NoCallIsCall DEF DeleteOldestBeyondCap, Ends, InboxTypes, CenterTypeOK
<1>3. Timely' /\ CallsKnowRows'
  BY <1>1, <1>2, TimelyCalls DEF Timely, CallsKnowRows
<1>4. SameHands
  BY <1>2 DEF SameHands
<1>5. ASSUME NEW d \in Callers \ {c}, d \notin disturbed', ~Idle(d) PROVE Spares(d)
  <2>1. call[d].user # u
    BY <1>2, <1>5 DEF CallsFor
  <2>2. \A n \in notes : n.user = call[d].user => n \in notes'
    BY <1>2, <2>1
  <2>3. \A n \in notes, m \in notes' : m.id = n.id => m = n
    BY <1>1, <1>2 DEF InboxTypes, CenterTypeOK
  <2>. QED BY <2>2, <2>3 DEF Spares, Remains
<1>. QED BY <1>1, <1>2, <1>3, <1>4, <1>5, NoRowYet, ShownStep

LEMMA FailsShown ==
    ASSUME ShownInv, NEW c \in Callers, CreateForUserFails(c)
    PROVE  ShownInv'
<1>1. InboxTypes' /\ InboxTypes /\ Timely /\ CallsKnowRows
  BY FailsTypes DEF ShownInv
<1>2. /\ call'[c].pc = "idle" /\ UNCHANGED <<clock, notes, nextNote>>
      /\ \A d \in Callers \ {c} : call'[d] = call[d]
      /\ disturbed' = disturbed \ {c}
  BY <1>1, NoCallIsCall
     DEF CreateForUserFails, CoalesceFails, CreateFails, Ends, InboxTypes, CenterTypeOK
<1>3. Timely' /\ CallsKnowRows'
  BY <1>1, <1>2, TimelyCalls DEF Timely, CallsKnowRows
<1>. QED BY <1>1, <1>2, <1>3, SameRowsSpared, NoRowYet, ShownStep

\* A step of nobody's call.
LEMMA ShownOutside ==
    ASSUME ShownInv, InboxTypes', Timely', UNCHANGED <<call, nextNote>>, SameHands,
           \A c \in Callers : /\ c \in disturbed => c \in disturbed'
                              /\ c \notin disturbed' /\ ~Idle(c) => Spares(c)
    PROVE  ShownInv'
<1>1. CallsKnowRows'
  BY DEF ShownInv, CallsKnowRows
<1>2. \A c \in Callers : WillCoalesce(c)' /\ HasShown(c)' /\ WillKeep(c)'
  BY OthersLeaveIt
<1>. QED BY <1>1, <1>2 DEF ShownInv

(***************************************************************************)
(* The user's own steps disturb the calls for that user; rows of others    *)
(* stay as they are, and what is rewritten is dated by the clock.          *)
(***************************************************************************)
LEMMA UserShown ==
    ASSUME ShownInv, InboxTypes', NEW u, UserActs(u),
           \A m \in notes' : \E n \in notes :
              /\ n.id = m.id /\ n.user = m.user /\ n.key = m.key /\ n.created = m.created
              /\ m = n \/ (n.user = u /\ m.updated = clock),
           \A n \in notes : n.user # u => n \in notes'
    PROVE  ShownInv'
<1>1. /\ InboxTypes /\ Timely /\ UNCHANGED <<clock, call, nextNote>>
      /\ disturbed' = disturbed \cup CallsFor(u)
  BY DEF ShownInv, UserActs
<1>2. /\ \A n \in notes : n.created \in Nat
      /\ clock \in Nat /\ MaxCallTime \in Nat
  BY <1>1, CenterAssumption DEF InboxTypes, CenterTypeOK, Note
<1>3. Timely'
  <2>1. ASSUME NEW m \in notes'
        PROVE  m.created <= clock /\ m.created - MaxCallTime <= m.updated
    <3>1. PICK n \in notes : /\ n.created = m.created
                             /\ m = n \/ m.updated = clock
      OBVIOUS
    <3>2. n.created <= clock /\ n.created - MaxCallTime <= n.updated
      BY <1>1 DEF Timely
    <3>. QED BY <1>2, <3>1, <3>2
  <2>. QED BY <1>1, <2>1 DEF Timely, Idle
<1>4. SameHands
  BY DEF SameHands
<1>5. ASSUME NEW c \in Callers, c \notin disturbed', ~Idle(c) PROVE Spares(c)
  <2>1. call[c].user # u
    BY <1>1, <1>5 DEF CallsFor
  <2>2. \A n \in notes : n.user = call[c].user => n \in notes'
    BY <2>1
  <2>3. \A n \in notes, m \in notes' : n.user = call[c].user /\ m.id = n.id => m = n
    BY <2>2 DEF InboxTypes, CenterTypeOK
  <2>. QED BY <2>2, <2>3 DEF Spares, Remains
<1>. QED BY <1>1, <1>3, <1>4, <1>5, ShownOutside

LEMMA EnvironmentShown ==
    ASSUME ShownInv, Environment
    PROVE  ShownInv'
<1>0. InboxTypes /\ InboxTypes' /\ Timely
  BY EnvironmentTypes DEF ShownInv
<1>1. ASSUME NEW u \in Users, MarkAllRead(u) PROVE ShownInv'
  <2>. DEFINE Mark(n) == IF n.user = u /\ Visible(n)
                         THEN [n EXCEPT !.read = TRUE, !.updated = clock] ELSE n
  <2>1. notes' = {Mark(n) : n \in notes} /\ UserActs(u)
    BY <1>1 DEF MarkAllRead
  <2>2. \A n \in notes : /\ Mark(n).id = n.id /\ Mark(n).user = n.user /\ Mark(n).key = n.key
                         /\ Mark(n).created = n.created
                         /\ Mark(n) = n \/ (n.user = u /\ Mark(n).updated = clock)
    BY <1>0 DEF InboxTypes, CenterTypeOK, Note
  <2>. HIDE DEF Mark
  <2>3. \A n \in notes : n.user # u => n \in notes'
    BY <2>1, <2>2
  <2>. QED BY <1>0, <2>1, <2>2, <2>3, UserShown
<1>2. ASSUME NEW n \in notes, MarkRead(n) \/ Dismiss(n) PROVE ShownInv'
  <2>1. PICK m : /\ m.id = n.id /\ m.user = n.user /\ m.key = n.key /\ m.created = n.created
                 /\ m.updated = clock /\ notes' = (notes \ {n}) \cup {m}
    <3>. DEFINE read == [n EXCEPT !.read = TRUE, !.updated = clock]
                gone == [n EXCEPT !.read = TRUE, !.dismissed = TRUE, !.updated = clock]
    <3>1. /\ read.id = n.id /\ read.user = n.user /\ read.key = n.key
          /\ read.created = n.created /\ read.updated = clock
          /\ gone.id = n.id /\ gone.user = n.user /\ gone.key = n.key
          /\ gone.created = n.created /\ gone.updated = clock
      BY <1>0 DEF InboxTypes, CenterTypeOK, Note
    <3>2. notes' = (notes \ {n}) \cup {read} \/ notes' = (notes \ {n}) \cup {gone}
      BY <1>2 DEF MarkRead, Dismiss
    <3>. HIDE DEF read, gone
    <3>. QED BY <3>1, <3>2
  <2>2. UserActs(n.user)
    BY <1>2 DEF MarkRead, Dismiss
  <2>3. \A x \in notes : x.user # n.user => x \in notes'
    BY <2>1
  <2>. QED BY <1>0, <2>1, <2>2, <2>3, UserShown
<1>3. CASE PurgeExpired
  <2>1. /\ notes' = {n \in notes : ~Expired(n)}
        /\ UNCHANGED <<clock, nextNote, call, disturbed>>
    BY <1>3 DEF PurgeExpired
  <2>2. Timely' /\ SameHands
    BY <1>0, <2>1 DEF Timely, SameHands, Idle
  <2>3. ASSUME NEW c \in Callers, ~Idle(c) PROVE Spares(c)
    <3>1. /\ call[c].now <= clock /\ clock - call[c].now <= MaxCallTime
          /\ call[c].now \in Nat /\ clock \in Nat
      BY <1>0, <2>3 DEF Timely, InboxTypes, CenterTypeOK, Call
    <3>2. ASSUME NEW n \in notes, n.created >= call[c].now PROVE ~Expired(n)
      <4>1. /\ n.created \in Nat /\ n.updated \in Nat
            /\ n.created - MaxCallTime <= n.updated
        BY <1>0 DEF Timely, InboxTypes, CenterTypeOK, Note
      <4>2. /\ MaxCallTime \in Nat /\ ReadRetention \in Nat /\ UnreadRetention \in Nat
            /\ MaxCallTime <= ReadRetention - MaxCallTime /\ ReadRetention < UnreadRetention
        BY CenterAssumption
      <4>3. ~(n.updated < clock - ReadRetention)
        BY <3>1, <3>2, <4>1, <4>2
      <4>4. ~(n.created < clock - UnreadRetention)
        BY <3>1, <3>2, <4>1, <4>2
      <4>. QED BY <4>3, <4>4 DEF Expired
    <3>3. \A n \in notes, m \in notes' : m.id = n.id => m = n
      BY <1>0, <2>1 DEF InboxTypes, CenterTypeOK
    <3>. QED BY <2>1, <3>2, <3>3 DEF Spares, Remains
  <2>. QED BY <1>0, <2>1, <2>2, <2>3, ShownOutside
<1>4. CASE Tick
  <2>1. /\ UNCHANGED <<notes, nextNote, call, disturbed>> /\ clock' = clock + 1 /\ CallsAreShort
    BY <1>4 DEF Tick
  <2>2. Timely'
    <3>1. clock \in Nat /\ MaxCallTime \in Nat /\ \A c \in Callers : call[c].now \in Nat
      BY <1>0, CenterAssumption DEF InboxTypes, CenterTypeOK, Call
    <3>2. \A n \in notes : n.created \in Nat
      BY <1>0 DEF InboxTypes, CenterTypeOK, Note
    <3>. QED BY <1>0, <2>1, <3>1, <3>2 DEF Timely, CallsAreShort, Idle
  <2>. QED BY <1>0, <2>1, <2>2, SameRowsSpared, ShownOutside
<1>. QED BY <1>1, <1>2, <1>3, <1>4 DEF Environment

LEMMA InitShown == CenterInit => ShownInv
<1>. SUFFICES ASSUME CenterInit PROVE ShownInv
  OBVIOUS
<1>1. notes = {} /\ \A c \in Callers : call[c].pc = "idle"
  BY DEF CenterInit, NoCall
<1>. QED BY <1>1, InitTypes
         DEF ShownInv, Timely, CallsKnowRows, WillCoalesce, HasShown, WillKeep, Idle

LEMMA NextShown == ShownInv /\ [CenterNext]_centerVars => ShownInv'
<1>. SUFFICES ASSUME ShownInv, [CenterNext]_centerVars PROVE ShownInv'
  OBVIOUS
<1>1. ASSUME NEW c \in Callers, NEW u \in Users, NEW k \in Keys, Begin(c, u, k)
      PROVE  ShownInv'
  BY <1>1, BeginShown
<1>2. ASSUME NEW c \in Callers, CreateForUser(c) PROVE ShownInv'
  BY <1>2, FindShown, UpdateShown, CreateShown, CountShown, KeepShown, DeleteShown
     DEF CreateForUser
<1>3. ASSUME NEW c \in Callers, CreateForUserFails(c) PROVE ShownInv'
  BY <1>3, FailsShown
<1>4. CASE Environment
  BY <1>4, EnvironmentShown
<1>5. CASE UNCHANGED centerVars
  <2>1. InboxTypes'
    BY <1>5, NextTypes DEF ShownInv
  <2>2. Timely'
    BY <1>5 DEF centerVars, ShownInv, Timely, Idle
  <2>3. SameHands /\ \A c : Spares(c)
    BY <1>5, SameRowsSpared DEF centerVars, ShownInv
  <2>. QED BY <1>5, <2>1, <2>2, <2>3, ShownOutside DEF centerVars
<1>. QED BY <1>1, <1>2, <1>3, <1>4, <1>5 DEF CenterNext

\* The rows that oust the call's own crowd the inbox.
LEMMA OustedIsCrowded ==
    ASSUME InboxTypes, NEW c \in Callers, Ousted(c), call[c].user \in Users
    PROVE  Crowded(c)
<1>. DEFINE N == {n \in NotesOf(call[c].user) :
                     n.id # call[c].note /\ n.created >= call[c].now}
            I == call[c].keep
            f == [n \in N |-> n.id]
            J == {n.id : n \in N}
<1>1. IsFiniteSet(N)
  <2>1. N \in SUBSET NotesOf(call[c].user)
    OBVIOUS
  <2>. HIDE DEF N
  <2>. QED BY <2>1, RowsAreFinite, FS_Subset
<1>2. I \subseteq J
  BY DEF Ousted, NotesOf
<1>3. f \in Surjection(N, J)
  BY DEF Surjection
<1>. HIDE DEF N, f
<1>4. IsFiniteSet(J) /\ Cardinality(J) <= Cardinality(N)
  <2>. HIDE DEF J
  <2>. QED BY <1>1, <1>3, FS_Surjection
<1>5. IsFiniteSet(I) /\ Cardinality(I) <= Cardinality(J)
  <2>. HIDE DEF I, J
  <2>. QED BY <1>2, <1>4, FS_Subset
<1>6. Cardinality(I) \in Nat /\ Cardinality(J) \in Nat /\ Cardinality(N) \in Nat
  <2>. HIDE DEF I, J
  <2>. QED BY <1>1, <1>4, <1>5, FS_CardinalityType
<1>7. Cardinality(I) = MaxPerUser
  BY DEF Ousted
<1>8. Cardinality(N) >= MaxPerUser
  <2>. HIDE DEF I, J
  <2>. QED BY <1>4, <1>5, <1>6, <1>7, CenterAssumption
<1>. QED BY <1>8 DEF N, Crowded

LEMMA ReturnShows ==
    ASSUME ShownInv, NEW c \in Callers, CreateForUser(c), call'[c].pc = "idle",
           c \notin disturbed, ~Crowded(c)
    PROVE  \E n \in notes' : Shows(n, call[c].user, call[c].key)
<1>1. InboxTypes /\ call[c] \in Call /\ (~Idle(c) => call[c].user \in Users)
  BY DEF ShownInv, InboxTypes, CenterTypeOK, CallsAreFor
<1>2. CASE UpdateCoalesced(c)
  <2>1. PICK n \in notes : n.id = call[c].note /\ notes' = (notes \ {n}) \cup {Coalesced(n, c)}
    BY <1>2 DEF UpdateCoalesced
  <2>2. IsFor(n, c) /\ Visible(n)
    BY <1>2, <2>1 DEF ShownInv, WillCoalesce, UpdateCoalesced
  <2>3. /\ Coalesced(n, c).user = n.user /\ Coalesced(n, c).key = n.key
        /\ Coalesced(n, c).dismissed = n.dismissed /\ ~Coalesced(n, c).read
    BY <1>1 DEF Coalesced, InboxTypes, CenterTypeOK, Note
  <2>4. Coalesced(n, c) \in notes'
    BY <2>1
  <2>. QED BY <2>2, <2>3, <2>4 DEF IsFor, Shows, Visible
<1>3. CASE Count(c)
  BY <1>3 DEF ShownInv, HasShown, Count
<1>4. CASE DeleteOldestBeyondCap(c)
  <2>1. /\ call[c].pc = "delete" /\ ~Idle(c)
        /\ notes' = {n \in notes : n.user = call[c].user => n.id \in call[c].keep}
    BY <1>4 DEF DeleteOldestBeyondCap, Idle
  <2>2. PICK n \in notes : n.id = call[c].note /\ Shows(n, call[c].user, call[c].key)
    BY <2>1 DEF ShownInv, HasShown
  <2>3. call[c].note \in call[c].keep
    BY <1>1, <2>1, OustedIsCrowded DEF ShownInv, WillKeep
  <2>. QED BY <2>1, <2>2, <2>3
<1>5. CASE FindRecentByDedup(c)
  <2>1. \/ call' = [call EXCEPT ![c].pc = "create"]
        \/ \E n : call' = [call EXCEPT ![c].pc = "update", ![c].note = n.id]
    BY <1>5 DEF FindRecentByDedup
  <2>. QED BY <1>1, <2>1 DEF InboxTypes, CenterTypeOK, Call
<1>6. CASE Create(c)
  BY <1>1, <1>6 DEF Create, InboxTypes, CenterTypeOK, Call
<1>7. CASE Keep(c)
  <2>1. PICK K : call' = [call EXCEPT ![c].pc = "delete", ![c].keep = {n.id : n \in K}]
    BY <1>7 DEF Keep
  <2>. QED BY <1>1, <2>1 DEF InboxTypes, CenterTypeOK, Call
<1>. QED BY <1>2, <1>3, <1>4, <1>5, <1>6, <1>7 DEF CreateForUser

\* A call that returns leaves an alert of its key that its user can see and
\* has not read, unless it was disturbed or crowded out.
THEOREM CallLeavesAlert == CenterSpec => ToldIsVisible
<1>1. ASSUME ShownInv
      PROVE  \A c \in Callers :
               (CreateForUser(c) /\ call'[c].pc = "idle")
                 => \/ \E n \in notes' : Shows(n, call[c].user, call[c].key)
                    \/ c \in disturbed
                    \/ Crowded(c)
  BY <1>1, ReturnShows
<1>. QED BY <1>1, InitShown, NextShown, PTL DEF CenterSpec, ToldIsVisible
=============================================================================
