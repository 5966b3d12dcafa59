--------------------------- MODULE TopologyProofs ---------------------------
(***************************************************************************)
(* The dependency graph for any services, any number of requests and any   *)
(* bounds on the searches and the lists: it stays acyclic until a          *)
(* dependency is inserted beside another one that its request had not      *)
(* listed; the worker's snapshot is an analysis of the tables as they are, *)
(* and what was announced last of a service is what the snapshot says.     *)
(***************************************************************************)
EXTENDS Topology, FiniteSetTheorems, TLAPS

(***************************************************************************)
(* Facts about graphs.  A cycle is a non-empty set of services in which    *)
(* everyone has a dependent, reachability is membership of every closed    *)
(* set.                                                                    *)
(***************************************************************************)

\* Fewer dependencies reach less.
LEMMA FewerReachLess ==
    ASSUME NEW E, NEW F \in SUBSET E, NEW s, NEW d, Reaches(F, s, d)
    PROVE  Reaches(E, s, d)
BY DEF Reaches, Closed

\* A deletion closes no cycle.
LEMMA FewerAreAcyclic ==
    ASSUME NEW E, NEW F \in SUBSET E, Acyclic(E)
    PROVE  Acyclic(F)
BY DEF Acyclic

(***************************************************************************)
(* A dependency whose downstream does not reach its upstream closes no     *)
(* cycle.  Let C be a closed set with d and without u.  The part of a      *)
(* cycle in C does not use the new dependency, and stays in C: it would    *)
(* have been a cycle before.  So a cycle misses C, and d with it, and does *)
(* not use the new dependency either.                                      *)
(***************************************************************************)
LEMMA InsertionClosesNoCycle ==
    ASSUME NEW E, NEW u \in Services, NEW d \in Services,
           Acyclic(E), ~Reaches(E, d, u)
    PROVE  Acyclic(E \cup {<<u, d>>})
<1>. SUFFICES ASSUME NEW S \in SUBSET Services,
                     \A s \in S : \E x \in S : <<s, x>> \in E \cup {<<u, d>>}
              PROVE  S = {}
  BY DEF Acyclic
<1>1. PICK C \in SUBSET Services : d \in C /\ Closed(E, C) /\ u \notin C
  BY DEF Reaches
<1>2. \A s \in S \cap C : \E x \in S \cap C : <<s, x>> \in E
  <2>. SUFFICES ASSUME NEW s \in S \cap C PROVE \E x \in S \cap C : <<s, x>> \in E
    OBVIOUS
  <2>1. PICK x \in S : <<s, x>> \in E \cup {<<u, d>>}
    OBVIOUS
  <2>2. <<s, x>> \in E
    BY <1>1, <2>1
  <2>3. x \in C
    <3>1. <<s, x>>[1] \in C => <<s, x>>[2] \in C
      BY <1>1, <2>2 DEF Closed
    <3>. QED BY <3>1
  <2>. QED BY <2>2, <2>3
<1>3. S \cap C = {}
  BY <1>2 DEF Acyclic
<1>4. \A s \in S : \E x \in S : <<s, x>> \in E
  BY <1>1, <1>3
<1>. QED BY <1>4 DEF Acyclic

\* What the traversal lets through does not reach its upstream.
LEMMA TraversalIsSound ==
    ASSUME NEW E, NEW u, NEW d, FALSE \in WouldCreateCycle(E, u, d)
    PROVE  ~Reaches(E, d, u)
BY DEF WouldCreateCycle
-----------------------------------------------------------------------------
(***************************************************************************)
(* The strengthening: a request that is about to insert, that listed every *)
(* dependency and that nobody has overtaken since, would close no cycle    *)
(* now.  Deletions keep that, insertions of others make the request blind. *)
(***************************************************************************)
RequestState == [pc : {"idle", "list", "insert", "delete"}, edge : Edge \cup {NoEdge},
                 blind : BOOLEAN, gone : BOOLEAN]

RequestsOK ==
    /\ edges \subseteq Edge
    /\ request \in [Admins -> RequestState]
    /\ \A a \in Admins : request[a].pc # "idle" => request[a].edge \in Edge

WouldStillDo ==
    \A a \in Admins :
        request[a].pc = "insert" /\ ~request[a].blind
            => ~Reaches(edges, request[a].edge[2], request[a].edge[1])

GraphInv == RequestsOK /\ WouldStillDo /\ CycleNeedsBlindInsert

LEMMA InitGraph == Init => GraphInv
<1>. SUFFICES ASSUME Init PROVE GraphInv
  OBVIOUS
<1>1. RequestsOK
  BY DEF Init, RequestsOK, RequestState, NoRequest
<1>2. WouldStillDo
  BY DEF Init, WouldStillDo, NoRequest
<1>3. CycleNeedsBlindInsert
  BY DEF Init, CycleNeedsBlindInsert
<1>. QED BY <1>1, <1>2, <1>3 DEF GraphInv

\* A request begins.
LEMMA RequestedKeepsGraph ==
    ASSUME GraphInv, NEW a \in Admins, NEW pc \in {"list", "delete"}, NEW e \in Edge,
           Requested(a, pc, e)
    PROVE  GraphInv'
<1>. USE DEF GraphInv
<1>1. /\ edges' = edges /\ blindInsert' = blindInsert
      /\ request' = [request EXCEPT ![a] = [@ EXCEPT !.pc = pc, !.edge = e]]
  BY DEF Requested, graphVars, historyVars
<1>2. RequestsOK'
  BY <1>1 DEF RequestsOK, RequestState
<1>3. WouldStillDo'
  BY <1>1 DEF RequestsOK, WouldStillDo, RequestState
<1>4. CycleNeedsBlindInsert'
  BY <1>1 DEF CycleNeedsBlindInsert
<1>. QED BY <1>2, <1>3, <1>4

\* The traversal, over what is there now.
LEMMA ListKeepsGraph ==
    ASSUME GraphInv, NEW a \in Admins, ListDependencies(a)
    PROVE  GraphInv'
<1>. USE DEF GraphInv
<1>. DEFINE e == request[a].edge
<1>1. PICK existing \in Listed(edges, EdgeLimit) :
      \E refused \in WouldCreateCycle(existing, e[1], e[2]) :
        request' = [request EXCEPT ![a] = IF refused \/ e \in existing THEN NoRequest
                                          ELSE [@ EXCEPT !.pc = "insert",
                                                         !.blind = existing # edges]]
  BY DEF ListDependencies
<1>2. PICK refused \in WouldCreateCycle(existing, e[1], e[2]) :
        request' = [request EXCEPT ![a] = IF refused \/ e \in existing THEN NoRequest
                                          ELSE [@ EXCEPT !.pc = "insert",
                                                         !.blind = existing # edges]]
  BY <1>1
<1>3. edges' = edges /\ blindInsert' = blindInsert /\ request[a].pc = "list"
  BY DEF ListDependencies, graphVars, historyVars
<1>4. refused \in BOOLEAN
  BY DEF WouldCreateCycle
<1>5. PICK cut \in BOOLEAN : cut = (existing # edges)
  OBVIOUS
<1>6. request' = [request EXCEPT ![a] = IF refused \/ e \in existing THEN NoRequest
                                        ELSE [@ EXCEPT !.pc = "insert", !.blind = cut]]
  BY <1>2, <1>5, Zenon
<1>7. RequestsOK'
  BY <1>3, <1>6 DEF RequestsOK, RequestState, NoRequest
<1>8. WouldStillDo'
  <2>. SUFFICES ASSUME NEW b \in Admins, request'[b].pc = "insert", ~request'[b].blind
                PROVE  ~Reaches(edges, request'[b].edge[2], request'[b].edge[1])
    BY <1>3 DEF WouldStillDo
  <2>1. CASE b # a
    BY <1>6, <2>1 DEF RequestsOK, WouldStillDo
  <2>2. CASE b = a
    <3>1. ~(refused \/ e \in existing)
      BY <1>6, <2>2 DEF RequestsOK, NoRequest
    <3>2. request'[b].edge = e /\ ~cut
      BY <1>6, <2>2, <3>1 DEF RequestsOK, RequestState
    <3>3. FALSE \in WouldCreateCycle(edges, e[1], e[2])
      BY <1>4, <1>5, <3>1, <3>2
    <3>4. ~Reaches(edges, e[2], e[1])
      BY <3>3, TraversalIsSound
    <3>. QED BY <3>2, <3>4
  <2>. QED BY <2>1, <2>2
<1>9. CycleNeedsBlindInsert'
  BY <1>3 DEF CycleNeedsBlindInsert
<1>. QED BY <1>7, <1>8, <1>9

LEMMA InsertKeepsGraph ==
    ASSUME GraphInv, NEW a \in Admins, InsertDependency(a)
    PROVE  GraphInv'
<1>. USE DEF GraphInv
<1>. DEFINE e == request[a].edge
<1>0. request[a].pc = "insert" /\ e \in Edge
  BY DEF InsertDependency, RequestsOK
<1>1. CASE e \in edges
  <2>1. /\ edges' = edges /\ blindInsert' = blindInsert
        /\ request' = [request EXCEPT ![a] = NoRequest]
    BY <1>1 DEF InsertDependency
  <2>2. RequestsOK'
    BY <2>1 DEF RequestsOK, RequestState, NoRequest
  <2>3. WouldStillDo'
    BY <2>1 DEF RequestsOK, WouldStillDo, NoRequest
  <2>4. CycleNeedsBlindInsert'
    BY <2>1 DEF CycleNeedsBlindInsert
  <2>. QED BY <2>2, <2>3, <2>4
<1>2. CASE e \notin edges
  <2>1. /\ edges' = edges \cup {e}
        /\ blindInsert' = (blindInsert \/ request[a].blind)
        /\ request' = [b \in Admins |->
               IF b = a THEN NoRequest
               ELSE [request[b] EXCEPT !.blind = @ \/ request[b].pc = "insert"]]
    BY <1>2 DEF InsertDependency
  <2>2. RequestsOK'
    BY <1>0, <2>1 DEF RequestsOK, RequestState, NoRequest
  <2>3. WouldStillDo'
    BY <2>1 DEF RequestsOK, RequestState, WouldStillDo, NoRequest
  <2>4. CycleNeedsBlindInsert'
    <3>1. SUFFICES ASSUME ~blindInsert, ~request[a].blind PROVE Acyclic(edges')
      BY <2>1 DEF CycleNeedsBlindInsert
    <3>2. Acyclic(edges) /\ ~Reaches(edges, e[2], e[1])
      BY <1>0, <3>1 DEF CycleNeedsBlindInsert, WouldStillDo
    <3>3. e[1] \in Services /\ e[2] \in Services /\ e = <<e[1], e[2]>>
      BY <1>0 DEF Edge
    <3>4. Acyclic(edges \cup {<<e[1], e[2]>>})
      BY <3>2, <3>3, InsertionClosesNoCycle
    <3>. QED BY <2>1, <3>3, <3>4
  <2>. QED BY <2>2, <2>3, <2>4
<1>. QED BY <1>1, <1>2

LEMMA RemoveKeepsGraph ==
    ASSUME GraphInv, NEW a \in Admins, RemoveDependency(a)
    PROVE  GraphInv'
<1>. USE DEF GraphInv
<1>1. /\ edges' \in SUBSET edges /\ blindInsert' = blindInsert
      /\ request' = [b \in Admins |->
             IF b = a THEN NoRequest
             ELSE [request[b] EXCEPT !.gone =
                     @ \/ (~request[a].gone /\ request[b].pc = "delete"
                                            /\ request[b].edge = request[a].edge)]]
  BY DEF RemoveDependency
<1>2. RequestsOK'
  <2>1. ASSUME NEW b \in Admins, b # a PROVE request'[b] \in RequestState
    <3>1. request[b] \in RequestState
      BY DEF RequestsOK
    <3>2. PICK g \in BOOLEAN : request'[b] = [request[b] EXCEPT !.gone = g]
      BY <1>1, <2>1, <3>1, Zenon DEF RequestState
    <3>. QED BY <3>1, <3>2 DEF RequestState
  <2>2. request'[a] \in RequestState
    BY <1>1 DEF RequestState, NoRequest
  <2>3. request' \in [Admins -> RequestState]
    BY <1>1, <2>1, <2>2
  <2>4. \A b \in Admins : request'[b].pc # "idle" => request'[b].edge \in Edge
    BY <1>1 DEF RequestsOK, RequestState, NoRequest
  <2>. QED BY <1>1, <2>3, <2>4 DEF RequestsOK
<1>3. WouldStillDo'
  <2>. SUFFICES ASSUME NEW b \in Admins, request'[b].pc = "insert", ~request'[b].blind
                PROVE  ~Reaches(edges', request'[b].edge[2], request'[b].edge[1])
    BY DEF WouldStillDo
  <2>1. /\ request[b].pc = "insert" /\ ~request[b].blind
        /\ request'[b].edge = request[b].edge
    BY <1>1 DEF RequestsOK, RequestState, NoRequest
  <2>. QED BY <1>1, <2>1, FewerReachLess DEF WouldStillDo
<1>4. CycleNeedsBlindInsert'
  BY <1>1, FewerAreAcyclic DEF CycleNeedsBlindInsert
<1>. QED BY <1>2, <1>3, <1>4

LEMMA QuietKeepsGraph ==
    ASSUME GraphInv, UNCHANGED <<edges, request, blindInsert>>
    PROVE  GraphInv'
BY DEF GraphInv, RequestsOK, WouldStillDo, CycleNeedsBlindInsert

LEMMA NextGraph == GraphInv /\ [Next]_vars => GraphInv'
<1>. SUFFICES ASSUME GraphInv, [Next]_vars PROVE GraphInv'
  OBVIOUS
<1>1. ASSUME NEW a \in Admins, NEW u \in Services, NEW d \in Services,
             CreateDependency(a, u, d)
      PROVE  GraphInv'
  BY <1>1, RequestedKeepsGraph DEF CreateDependency, Edge
<1>2. ASSUME NEW a \in Admins, NEW e \in edges, DeleteDependency(a, e) PROVE GraphInv'
  BY <1>2, RequestedKeepsGraph DEF DeleteDependency, GraphInv, RequestsOK
<1>3. ASSUME NEW a \in Admins, ListDependencies(a) PROVE GraphInv'
  BY <1>3, ListKeepsGraph
<1>4. ASSUME NEW a \in Admins, InsertDependency(a) PROVE GraphInv'
  BY <1>4, InsertKeepsGraph
<1>5. ASSUME NEW a \in Admins, RemoveDependency(a) PROVE GraphInv'
  BY <1>5, RemoveKeepsGraph
<1>6. ASSUME NEW t \in Slots,
             \/ \E table \in {"edges", "integrations", "open"} : Read(t, table)
             \/ Reconcile(t) \/ PublishEvent(t) \/ PublishFails(t)
      PROVE  GraphInv'
  BY <1>6, QuietKeepsGraph
     DEF Read, Reconcile, PublishEvent, PublishFails, graphVars, historyVars
<1>7. ASSUME NEW s \in Services,
             \/ \E t \in Slots : StatusChanged(s, t)
             \/ IncidentFollows(s) \/ IntegrationDeleted(s)
      PROVE  GraphInv'
  BY <1>7, QuietKeepsGraph
     DEF StatusChanged, IncidentFollows, IntegrationDeleted, graphVars, historyVars
<1>8. CASE WorkerRestarts
  BY <1>8, QuietKeepsGraph DEF WorkerRestarts, graphVars
<1>9. CASE UNCHANGED vars
  BY <1>9, QuietKeepsGraph DEF vars
<1>. QED BY <1>1, <1>2, <1>3, <1>4, <1>5, <1>6, <1>7, <1>8, <1>9 DEF Next

\* docs/28, "DAG : cycles refuses": the graph of wouldCreateCycle and of the
\* insertion after it has no cycle unless a dependency was inserted beside one
\* that its request had not listed.
THEOREM GraphStaysAcyclic == Spec => []CycleNeedsBlindInsert
<1>1. GraphInv => CycleNeedsBlindInsert
  BY DEF GraphInv
<1>. QED BY <1>1, InitGraph, NextGraph, PTL DEF Spec

-----------------------------------------------------------------------------
(***************************************************************************)
(* Announcements.  A reconciliation announces each service once, with what *)
(* the snapshot said when it replaced it; a second one that has something  *)
(* else to say of a service makes the service unsure.                      *)
(***************************************************************************)
Tables == {"edges", "integrations", "open"}

RecState == [pc : {"idle", "read", "publish"}, reads : SUBSET Tables, edges : SUBSET Edge,
             integrations : SUBSET Services, open : SUBSET Services, partial : BOOLEAN,
             touched : BOOLEAN, events : SUBSET (Services \X Statuses)]

RecOK(r) ==
    /\ (r.pc = "publish") <=> (r.events # {})
    /\ \A s, v, x : <<s, v>> \in r.events /\ <<s, x>> \in r.events => v = x

RecsOK == rec \in [Slots -> RecState] /\ \A t \in Slots : RecOK(rec[t])

WorldOK ==
    /\ integrations \subseteq Services /\ open \subseteq integrations
    /\ told \in [Services -> Statuses]
    /\ DOMAIN snapshot \subseteq Services /\ snapshot \in [DOMAIN snapshot -> Statuses]

\* What the worker knows nothing of, it has nothing to announce of.
SilentAtFirst == snapshot = NothingKnown => \A s \in Services : Pending(s) = {}

TaskInv == RecsOK /\ WorldOK
ToldInv == ToldIsSnapshot /\ SilentAtFirst

\* What a reconciliation that no change has touched has read is still so.
SeesTables(r) ==
    r.pc = "read" /\ r.touched = FALSE =>
      /\ "edges" \in r.reads \/ r.edges \in Listed(edges, EdgeLimit)
      /\ "integrations" \in r.reads \/ r.integrations \in Listed(integrations, ServiceLimit)
      /\ "open" \in r.reads \/ r.open = open
      /\ r.partial = FALSE =>
           /\ "edges" \in r.reads \/ r.edges = edges
           /\ "integrations" \in r.reads \/ r.integrations = integrations

\* The worker's snapshot says what an analysis of the tables would say: of all
\* their rows, or of what the limits let through.
Possible == IF whole THEN AnalyzeImpact(edges, integrations, open) ELSE Analyses

SnapshotIsCurrent ==
    fresh => \E A \in Possible : \A s \in Services : At(snapshot, s) = At(A, s)

ViewInv == (\A t \in Slots : SeesTables(rec[t])) /\ fresh \in BOOLEAN /\ SnapshotIsCurrent

TInv == TaskInv /\ ToldInv /\ ViewInv

LEMMA NoRecIsIdle ==
    /\ NoRec \in RecState /\ NoRec.pc = "idle" /\ NoRec.events = {} /\ RecOK(NoRec)
<1>1. /\ NoRec \in RecState /\ NoRec.pc = "idle" /\ NoRec.events = {}
  BY DEF NoRec, RecState, Tables
<1>. QED BY <1>1 DEF RecOK

LEMMA AnalysisIs ==
    ASSUME NEW E \in SUBSET Edge, NEW I \in SUBSET Services, NEW O,
           NEW A \in AnalyzeImpact(E, I, O)
    PROVE  A \in [DOMAIN A -> Statuses] /\ DOMAIN A \subseteq Services
<1>1. PICK V \in Searches(E, I \cap O) : A = [s \in I \cup Nodes(E) |-> ImpactStatus(E, I, V, s)]
  BY DEF AnalyzeImpact
<1>2. \A s : ImpactStatus(E, I, V, s) \in Statuses
  BY DEF ImpactStatus, Statuses
<1>3. \A e \in E : e[1] \in Services /\ e[2] \in Services
  BY DEF Edge
<1>. QED BY <1>1, <1>2, <1>3 DEF Nodes

\* A list is part of the rows.
LEMMA ListedIs ==
    ASSUME NEW S, NEW n, NEW L \in Listed(S, n)
    PROVE  L \subseteq S
BY DEF Listed

LEMMA EmptyKnowsNothing ==
    ASSUME NEW f, f \in [DOMAIN f -> Statuses], DOMAIN f = {}
    PROVE  f = NothingKnown
<1>1. f \in [{} -> Statuses]
  OBVIOUS
<1>2. NothingKnown \in [{} -> Statuses]
  BY DEF NothingKnown
<1>. QED BY <1>1, <1>2

LEMMA AtIs ==
    ASSUME NEW f, f \in [DOMAIN f -> Statuses]
    PROVE  \A s : At(f, s) \in Statuses
BY DEF At, Statuses

\* The new snapshot says what the analysis says, of whatever was ever known.
LEMMA NextIs ==
    ASSUME NEW f, NEW g, f \in [DOMAIN f -> Statuses], g \in [DOMAIN g -> Statuses],
           DOMAIN f \subseteq Services, DOMAIN g \subseteq Services
    PROVE  /\ NextSnapshot(f, g) \in [DOMAIN NextSnapshot(f, g) -> Statuses]
           /\ DOMAIN NextSnapshot(f, g) = DOMAIN f \cup DOMAIN g
           /\ DOMAIN NextSnapshot(f, g) \subseteq Services
           /\ \A s : At(NextSnapshot(f, g), s) = At(g, s)
<1>1. \A s : At(g, s) \in Statuses
  BY AtIs
<1>2. /\ NextSnapshot(f, g) = [s \in DOMAIN f \cup DOMAIN g |-> At(g, s)]
      /\ DOMAIN NextSnapshot(f, g) = DOMAIN f \cup DOMAIN g
  BY DEF NextSnapshot
<1>3. \A s : At(NextSnapshot(f, g), s) = At(g, s)
  <2>. SUFFICES ASSUME NEW s PROVE At(NextSnapshot(f, g), s) = At(g, s)
    OBVIOUS
  <2>1. CASE s \in DOMAIN f \cup DOMAIN g
    <3>1. NextSnapshot(f, g)[s] = At(g, s)
      BY <1>2, <2>1
    <3>. QED BY <1>2, <2>1, <3>1 DEF At
  <2>2. CASE s \notin DOMAIN f \cup DOMAIN g
    BY <1>2, <2>2 DEF At
  <2>. QED BY <2>1, <2>2
<1>. QED BY <1>1, <1>2, <1>3

LEMMA TransitionsAre ==
    ASSUME NEW f, NEW g, g \in [DOMAIN g -> Statuses], DOMAIN g \subseteq Services
    PROVE  /\ Transitions(f, g) \in SUBSET (Services \X Statuses)
           /\ \A s, v : <<s, v>> \in Transitions(f, g) <=>
                s \in DOMAIN g /\ At(f, s) # g[s] /\ v = g[s]
BY DEF Transitions

\* One task goes on, and keeps its shape.
LEMMA OneTask ==
    ASSUME RecsOK, NEW t \in Slots, NEW r \in RecState, RecOK(r), rec' = [rec EXCEPT ![t] = r]
    PROVE  /\ RecsOK' /\ rec'[t] = r
           /\ \A u \in Slots : u # t => rec'[u] = rec[u]
BY DEF RecsOK, RecOK

LEMMA ReadingIs ==
    ASSUME NEW r, r = [NoRec EXCEPT !.pc = "read", !.reads = {"edges", "integrations", "open"}]
    PROVE  /\ r \in RecState /\ r.pc = "read" /\ r.events = {} /\ RecOK(r) /\ SeesTables(r)
<1>1. /\ r \in RecState /\ r.pc = "read" /\ r.events = {}
      /\ r.reads = {"edges", "integrations", "open"}
  BY DEF NoRec, RecState, Tables
<1>. QED BY <1>1 DEF RecOK, SeesTables

LEMMA PublishingIs ==
    ASSUME NEW r, NEW events \in SUBSET (Services \X Statuses),
           \A s, v, x : <<s, v>> \in events /\ <<s, x>> \in events => v = x,
           r = IF events = {} THEN NoRec
               ELSE [NoRec EXCEPT !.pc = "publish", !.events = events]
    PROVE  /\ r \in RecState /\ r.pc \in {"idle", "publish"} /\ r.events = events
           /\ RecOK(r) /\ SeesTables(r)
<1>1. r \in RecState /\ r.pc = (IF events = {} THEN "idle" ELSE "publish") /\ r.events = events
  <2>1. CASE events = {}
    BY <2>1, NoRecIsIdle
  <2>2. CASE events # {}
    BY <2>2, NoRecIsIdle DEF NoRec, RecState
  <2>. QED BY <2>1, <2>2
<1>. QED BY <1>1 DEF RecOK, SeesTables

\* A change of the tables is seen, and nothing else.
LEMMA TouchIs ==
    ASSUME RecsOK
    PROVE  /\ Touch(rec) \in [Slots -> RecState]
           /\ \A t \in Slots : /\ Touch(rec)[t].pc = rec[t].pc
                               /\ Touch(rec)[t].events = rec[t].events
                               /\ RecOK(Touch(rec)[t])
                               /\ rec[t].pc = "read" => Touch(rec)[t].touched = TRUE
<1>1. ASSUME NEW t \in Slots
      PROVE  \E b \in BOOLEAN : /\ Touch(rec)[t] = [rec[t] EXCEPT !.touched = b]
                                /\ rec[t].pc = "read" => b = TRUE
  <2>1. Touch(rec)[t] = [rec[t] EXCEPT !.touched = rec[t].touched \/ rec[t].pc = "read"]
    BY DEF Touch
  <2>2. rec[t].touched \in BOOLEAN
    BY DEF RecsOK, RecState
  <2>3. CASE rec[t].pc = "read"
    <3>1. (rec[t].touched \/ rec[t].pc = "read") = TRUE
      BY <2>3
    <3>. QED BY <2>1, <3>1
  <2>4. CASE rec[t].pc # "read"
    <3>1. (rec[t].touched \/ rec[t].pc = "read") = rec[t].touched
      BY <2>2, <2>4, Zenon
    <3>. QED BY <2>1, <2>2, <2>4, <3>1
  <2>. QED BY <2>3, <2>4
<1>2. ASSUME NEW t \in Slots
      PROVE  /\ Touch(rec)[t] \in RecState
             /\ Touch(rec)[t].pc = rec[t].pc
             /\ Touch(rec)[t].events = rec[t].events
             /\ rec[t].pc = "read" => Touch(rec)[t].touched = TRUE
  <2>1. PICK b \in BOOLEAN : /\ Touch(rec)[t] = [rec[t] EXCEPT !.touched = b]
                             /\ rec[t].pc = "read" => b = TRUE
    BY <1>1
  <2>2. rec[t] \in RecState
    BY DEF RecsOK
  <2>. QED BY <2>1, <2>2 DEF RecState
<1>3. \A t \in Slots : RecOK(Touch(rec)[t])
  BY <1>2 DEF RecsOK, RecOK
<1>4. Touch(rec) = [t \in Slots |-> Touch(rec)[t]]
  BY DEF Touch
<1>. QED BY <1>2, <1>3, <1>4
-----------------------------------------------------------------------------
(***************************************************************************)
(* Which steps leave the announcements as they are.                        *)
(***************************************************************************)
LEMMA ToldStays ==
    ASSUME ToldInv, UNCHANGED <<snapshot, told>>, unsure \subseteq unsure',
           \A t \in Slots : rec'[t].events = rec[t].events
    PROVE  ToldInv'
<1>1. \A s \in Services : Pending(s)' = Pending(s)
  BY DEF Pending
<1>2. SilentAtFirst'
  BY <1>1 DEF ToldInv, SilentAtFirst
<1>3. ToldIsSnapshot'
  <2>. SUFFICES ASSUME snapshot # NothingKnown, NEW s \in Services \ unsure
                PROVE  IF Pending(s)' = {} THEN told'[s] = At(snapshot', s)
                       ELSE \A t \in Pending(s)' : <<s, At(snapshot', s)>> \in rec'[t].events
    BY DEF ToldIsSnapshot, Pending
  <2>1. IF Pending(s) = {} THEN told[s] = At(snapshot, s)
        ELSE \A t \in Pending(s) : <<s, At(snapshot, s)>> \in rec[t].events
    BY DEF ToldInv, ToldIsSnapshot
  <2>2. \A t \in Pending(s) : t \in Slots
    BY DEF Pending
  <2>. QED BY <1>1, <2>1, <2>2
<1>. QED BY <1>2, <1>3 DEF ToldInv

\* A change of the tables: who was reading has been touched.
LEMMA TouchKeeps ==
    ASSUME TInv, rec' = Touch(rec), fresh' = FALSE,
           UNCHANGED <<snapshot, told>>, unsure \subseteq unsure',
           integrations' \subseteq Services, open' \subseteq integrations'
    PROVE  TInv'
<1>1. RecsOK /\ RecsOK' /\ \A t \in Slots : rec'[t].pc = rec[t].pc /\ rec'[t].events = rec[t].events
  BY TouchIs DEF TInv, TaskInv, RecsOK, RecOK
<1>2. TaskInv'
  BY <1>1 DEF TInv, TaskInv, WorldOK
<1>3. ToldInv'
  BY <1>1, ToldStays DEF TInv
<1>4. ViewInv'
  BY <1>1, TouchIs DEF ViewInv, SeesTables, SnapshotIsCurrent
<1>. QED BY <1>2, <1>3, <1>4 DEF TInv

\* Nothing but requests changes.
LEMMA RequestKeeps ==
    ASSUME TInv, UNCHANGED <<graphVars, rec, snapshot, told, fresh, whole, unsure>>
    PROVE  TInv'
<1>1. UNCHANGED <<edges, integrations, open>>
  BY DEF graphVars
<1>2. TaskInv'
  BY <1>1 DEF TInv, TaskInv, RecsOK, RecOK, WorldOK
<1>3. ToldInv'
  BY ToldStays DEF TInv
<1>4. ViewInv'
  BY <1>1 DEF TInv, ViewInv, SeesTables, SnapshotIsCurrent, Possible, Analyses
<1>. QED BY <1>2, <1>3, <1>4 DEF TInv

\* One task goes on, announcing what it announced before.
LEMMA TaskKeeps ==
    ASSUME TInv, NEW t \in Slots, NEW r \in RecState, RecOK(r), r.events = rec[t].events,
           SeesTables(r), rec' = [rec EXCEPT ![t] = r],
           UNCHANGED <<graphVars, snapshot, told, fresh, whole, unsure>>
    PROVE  TInv'
<1>1. UNCHANGED <<edges, integrations, open>>
  BY DEF graphVars
<1>2. RecsOK' /\ rec'[t] = r /\ \A u \in Slots : u # t => rec'[u] = rec[u]
  BY OneTask DEF TInv, TaskInv
<1>3. TaskInv'
  BY <1>1, <1>2 DEF TInv, TaskInv, WorldOK
<1>4. ToldInv'
  BY <1>2, ToldStays DEF TInv
<1>5. ViewInv'
  BY <1>1, <1>2 DEF TInv, ViewInv, SeesTables, SnapshotIsCurrent, Possible, Analyses
<1>. QED BY <1>3, <1>4, <1>5 DEF TInv

LEMMA ReadKeeps ==
    ASSUME TInv, GraphInv, NEW t \in Slots, NEW table \in Tables, Read(t, table)
    PROVE  TInv'
<1>1. /\ rec \in [Slots -> RecState] /\ rec[t] \in RecState /\ RecOK(rec[t])
      /\ rec[t].pc = "read" /\ SeesTables(rec[t])
      /\ edges \subseteq Edge /\ integrations \subseteq Services /\ open \subseteq Services
  BY DEF TInv, TaskInv, ViewInv, RecsOK, WorldOK, Read, GraphInv, RequestsOK
<1>2. UNCHANGED <<graphVars, snapshot, told, fresh, whole, unsure>>
  BY DEF Read, historyVars
<1>3. ASSUME NEW r \in RecState, rec' = [rec EXCEPT ![t] = r], SeesTables(r),
             r.pc = rec[t].pc, r.events = rec[t].events
      PROVE  TInv'
  <2>1. RecOK(r)
    BY <1>1, <1>3 DEF RecOK
  <2>. QED BY <1>2, <1>3, <2>1, TaskKeeps
<1>4. CASE table = "edges"
  <2>1. PICK L \in Listed(edges, EdgeLimit) :
          rec' = [rec EXCEPT ![t].reads = @ \ {table}, ![t].edges = L,
                             ![t].partial = @ \/ L # edges]
    BY <1>4 DEF Read
  <2>2. PICK cut \in BOOLEAN : cut = (rec[t].partial \/ L # edges)
    OBVIOUS
  <2>. DEFINE r == [rec[t] EXCEPT !.reads = rec[t].reads \ {table}, !.edges = L,
                                  !.partial = cut]
  <2>3. rec' = [rec EXCEPT ![t] = r]
    BY <1>1, <2>1, <2>2
  <2>4. L \subseteq edges
    BY ListedIs
  <2>5. /\ r \in RecState /\ r.pc = rec[t].pc /\ r.events = rec[t].events
        /\ r.touched = rec[t].touched /\ r.reads = rec[t].reads \ {table}
        /\ r.edges = L /\ r.open = rec[t].open /\ r.partial = cut
        /\ r.integrations = rec[t].integrations
    BY <1>1, <2>4 DEF RecState
  <2>. HIDE DEF r
  <2>6. cut = FALSE => rec[t].partial = FALSE /\ L = edges
    BY <1>1, <2>2 DEF RecState
  <2>7. SeesTables(r)
    BY <1>1, <1>4, <2>5, <2>6 DEF SeesTables
  <2>. QED BY <1>3, <2>3, <2>5, <2>7
<1>5. CASE table = "integrations"
  <2>1. PICK L \in Listed(integrations, ServiceLimit) :
          rec' = [rec EXCEPT ![t].reads = @ \ {table}, ![t].integrations = L,
                             ![t].partial = @ \/ L # integrations]
    BY <1>5 DEF Read
  <2>2. PICK cut \in BOOLEAN : cut = (rec[t].partial \/ L # integrations)
    OBVIOUS
  <2>. DEFINE r == [rec[t] EXCEPT !.reads = rec[t].reads \ {table}, !.integrations = L,
                                  !.partial = cut]
  <2>3. rec' = [rec EXCEPT ![t] = r]
    BY <1>1, <2>1, <2>2
  <2>4. L \subseteq integrations
    BY ListedIs
  <2>5. /\ r \in RecState /\ r.pc = rec[t].pc /\ r.events = rec[t].events
        /\ r.touched = rec[t].touched /\ r.reads = rec[t].reads \ {table}
        /\ r.integrations = L /\ r.open = rec[t].open /\ r.partial = cut
        /\ r.edges = rec[t].edges
    BY <1>1, <2>4 DEF RecState
  <2>. HIDE DEF r
  <2>6. cut = FALSE => rec[t].partial = FALSE /\ L = integrations
    BY <1>1, <2>2 DEF RecState
  <2>7. SeesTables(r)
    BY <1>1, <1>5, <2>5, <2>6 DEF SeesTables
  <2>. QED BY <1>3, <2>3, <2>5, <2>7
<1>6. CASE table = "open"
  <2>. DEFINE r == [rec[t] EXCEPT !.reads = rec[t].reads \ {table}, !.open = open]
  <2>1. rec' = [rec EXCEPT ![t] = r]
    BY <1>1, <1>6 DEF Read
  <2>2. /\ r \in RecState /\ r.pc = rec[t].pc /\ r.events = rec[t].events
        /\ r.touched = rec[t].touched /\ r.reads = rec[t].reads \ {table}
        /\ r.edges = rec[t].edges /\ r.integrations = rec[t].integrations /\ r.open = open
        /\ r.partial = rec[t].partial
    BY <1>1 DEF RecState
  <2>. HIDE DEF r
  <2>3. SeesTables(r)
    BY <1>1, <1>6, <2>2 DEF SeesTables
  <2>. QED BY <1>3, <2>1, <2>2, <2>3
<1>. QED BY <1>4, <1>5, <1>6 DEF Tables

LEMMA PendingIs ==
    ASSUME NEW s \in Services, NEW u \in Slots
    PROVE  u \in Pending(s) <=> \E v \in Statuses : <<s, v>> \in rec[u].events
BY DEF Pending

\* The worker replaces its snapshot, and has the differences to announce.
LEMMA ReconcileKeeps ==
    ASSUME TInv, GraphInv, NEW t \in Slots, Reconcile(t)
    PROVE  TInv'
<1>0. PICK next \in AnalysisOf(t) : Replace(t, NextSnapshot(snapshot, next))
  BY DEF Reconcile
<1>. DEFINE after == NextSnapshot(snapshot, next)
            events == IF snapshot = NothingKnown THEN {} ELSE Transitions(snapshot, after)
            r == IF events = {} THEN NoRec
                 ELSE [NoRec EXCEPT !.pc = "publish", !.events = events]
<1>1. /\ rec \in [Slots -> RecState] /\ rec[t] \in RecState /\ RecOK(rec[t])
      /\ rec[t].pc = "read" /\ rec[t].reads = {}
  BY DEF TInv, TaskInv, RecsOK, Reconcile
<1>2. /\ snapshot' = after /\ rec' = [rec EXCEPT ![t] = r]
      /\ unsure' = unsure \cup
           IF snapshot = NothingKnown THEN {s \in Services : told[s] # At(after, s)}
           ELSE {s \in Services : Pending(s) # {} /\ At(after, s) # At(snapshot, s)}
      /\ fresh' = ~rec[t].touched /\ whole' = ~rec[t].partial
      /\ UNCHANGED <<edges, integrations, open, told>>
  BY <1>0, Zenon DEF Reconcile, Replace, Publishing, graphVars
<1>3. /\ next \in AnalyzeImpact(rec[t].edges, rec[t].integrations, rec[t].open)
      /\ next \in [DOMAIN next -> Statuses] /\ DOMAIN next \subseteq Services
  <2>1. rec[t].edges \in SUBSET Edge /\ rec[t].integrations \in SUBSET Services
    BY <1>1 DEF RecState
  <2>2. next \in AnalyzeImpact(rec[t].edges, rec[t].integrations, rec[t].open)
    BY DEF AnalysisOf
  <2>. QED BY <2>1, <2>2, AnalysisIs
<1>4. /\ after \in [DOMAIN after -> Statuses] /\ DOMAIN after \subseteq Services
      /\ DOMAIN after = DOMAIN snapshot \cup DOMAIN next
      /\ \A s : At(after, s) = At(next, s)
  <2>1. snapshot \in [DOMAIN snapshot -> Statuses] /\ DOMAIN snapshot \subseteq Services
    BY DEF TInv, TaskInv, WorldOK
  <2>2. after = NextSnapshot(snapshot, next)
    OBVIOUS
  <2>. HIDE DEF after
  <2>3. /\ NextSnapshot(snapshot, next) \in [DOMAIN NextSnapshot(snapshot, next) -> Statuses]
        /\ DOMAIN NextSnapshot(snapshot, next) = DOMAIN snapshot \cup DOMAIN next
        /\ DOMAIN NextSnapshot(snapshot, next) \subseteq Services
        /\ \A s : At(NextSnapshot(snapshot, next), s) = At(next, s)
    <3>1. next \in [DOMAIN next -> Statuses] /\ DOMAIN next \subseteq Services
      BY <1>3
    <3>. QED BY <2>1, <3>1, NextIs
  <2>. QED BY <2>2, <2>3
<1>. HIDE DEF after
<1>5. /\ events \in SUBSET (Services \X Statuses)
      /\ snapshot = NothingKnown => events = {}
      /\ snapshot # NothingKnown =>
           \A s, v : <<s, v>> \in events <=>
             s \in DOMAIN after /\ At(snapshot, s) # after[s] /\ v = after[s]
  BY <1>4, TransitionsAre
<1>. HIDE DEF events
<1>6. \A s, v, x : <<s, v>> \in events /\ <<s, x>> \in events => v = x
  BY <1>5
<1>7. /\ r \in RecState /\ r.pc \in {"idle", "publish"} /\ r.events = events
      /\ RecOK(r) /\ SeesTables(r)
  <2>1. r = IF events = {} THEN NoRec ELSE [NoRec EXCEPT !.pc = "publish", !.events = events]
    OBVIOUS
  <2>. HIDE DEF r
  <2>. QED BY <1>5, <1>6, <2>1, PublishingIs
<1>. HIDE DEF r
<1>8. /\ RecsOK' /\ rec'[t] = r /\ \A u \in Slots : u # t => rec'[u] = rec[u]
  BY <1>2, <1>7, OneTask DEF TInv, TaskInv
<1>10. TaskInv'
  <2>1. WorldOK'
    BY <1>2, <1>4 DEF TInv, TaskInv, WorldOK
  <2>. QED BY <1>8, <2>1 DEF TaskInv
<1>11. rec[t].events = {} /\ r.events = events
  BY <1>1, <1>7 DEF RecOK
<1>12. ASSUME NEW s \in Services, NEW u \in Slots
       PROVE  /\ u \in Pending(s)' <=> \E v \in Statuses : <<s, v>> \in rec'[u].events
              /\ u \in Pending(s) <=> \E v \in Statuses : <<s, v>> \in rec[u].events
              /\ u = t => u \notin Pending(s)
  BY <1>11 DEF Pending
<1>13. \A s \in Services : Pending(s) \subseteq Slots /\ Pending(s)' \subseteq Slots
  BY DEF Pending
<1>14. ViewInv'
  <2>1. \A u \in Slots : SeesTables(rec[u])'
    BY <1>2, <1>7, <1>8 DEF TInv, ViewInv, SeesTables
  <2>2. ASSUME fresh'
        PROVE  \E A \in Possible' : \A s \in Services : At(after, s) = At(A, s)
    <3>1. rec[t].touched = FALSE
      BY <1>1, <1>2, <2>2 DEF RecState
    <3>2. /\ rec[t].edges \in Listed(edges, EdgeLimit)
          /\ rec[t].integrations \in Listed(integrations, ServiceLimit)
          /\ rec[t].open = open
          /\ rec[t].partial = FALSE => rec[t].edges = edges /\ rec[t].integrations = integrations
      BY <1>1, <3>1 DEF TInv, ViewInv, SeesTables
    <3>3. whole' => rec[t].partial = FALSE
      BY <1>1, <1>2 DEF RecState
    <3>4. next \in Possible'
      BY <1>2, <1>3, <3>2, <3>3 DEF Possible, Analyses
    <3>. QED BY <1>4, <3>4
  <2>3. fresh' \in BOOLEAN
    BY <1>2
  <2>. QED BY <1>2, <2>1, <2>2, <2>3 DEF ViewInv, SnapshotIsCurrent
<1>15. CASE snapshot = NothingKnown
  <2>1. \A s \in Services : Pending(s) = {} /\ Pending(s)' = {}
    <3>1. \A s \in Services : Pending(s) = {}
      BY <1>15 DEF TInv, ToldInv, SilentAtFirst
    <3>2. ASSUME NEW s \in Services, NEW u \in Slots PROVE u \notin Pending(s)'
      BY <1>5, <1>8, <1>11, <1>12, <1>15, <3>1
    <3>. QED BY <1>13, <3>1, <3>2
  <2>2. \A s \in Services \ unsure' : told[s] = At(after, s)
    BY <1>2, <1>15
  <2>3. ToldIsSnapshot'
    BY <1>2, <2>1, <2>2 DEF ToldIsSnapshot, Pending
  <2>4. SilentAtFirst'
    BY <2>1 DEF SilentAtFirst, Pending
  <2>. QED BY <1>10, <1>14, <2>3, <2>4 DEF TInv, ToldInv
<1>16. CASE snapshot # NothingKnown
  <2>1. snapshot' # NothingKnown
    <3>1. DOMAIN NothingKnown = {}
      BY DEF NothingKnown
    <3>2. DOMAIN snapshot # {}
      BY <1>16, EmptyKnowsNothing DEF TInv, TaskInv, WorldOK
    <3>. QED BY <1>2, <1>4, <3>1, <3>2
  <2>2. ASSUME NEW s \in Services \ unsure'
        PROVE  IF Pending(s)' = {} THEN told[s] = At(after, s)
               ELSE \A u \in Pending(s)' : <<s, At(after, s)>> \in rec'[u].events
    <3>1. IF Pending(s) = {} THEN told[s] = At(snapshot, s)
          ELSE \A u \in Pending(s) : <<s, At(snapshot, s)>> \in rec[u].events
      BY <1>2, <1>16 DEF TInv, ToldInv, ToldIsSnapshot
    <3>2. Pending(s) # {} => At(after, s) = At(snapshot, s)
      BY <1>2, <1>16
    <3>3. s \in DOMAIN after => At(after, s) = after[s]
      BY DEF At
    <3>4. s \notin DOMAIN after => At(after, s) = "none" /\ At(snapshot, s) = "none"
      BY <1>4 DEF At
    <3>5. At(after, s) \in Statuses
      BY <1>4, AtIs
    <3>6. At(after, s) = At(snapshot, s) => t \notin Pending(s)'
      BY <1>1, <1>5, <1>8, <1>11, <1>12, <1>16, <3>3
    <3>7. At(after, s) # At(snapshot, s) => <<s, At(after, s)>> \in rec'[t].events
      BY <1>5, <1>8, <1>11, <1>16, <3>3, <3>4
    <3>8. \A u \in Slots : u # t => rec'[u] = rec[u] /\ (u \in Pending(s)' <=> u \in Pending(s))
      BY <1>8, <1>12
    <3>9. CASE At(after, s) = At(snapshot, s)
      <4>1. Pending(s)' = Pending(s)
        BY <1>12, <1>13, <3>6, <3>8, <3>9
      <4>2. \A u \in Pending(s) : rec'[u] = rec[u]
        BY <1>12, <1>13, <3>8
      <4>. QED BY <3>1, <3>9, <4>1, <4>2
    <3>10. CASE At(after, s) # At(snapshot, s)
      <4>1. Pending(s) = {}
        BY <3>2, <3>10
      <4>2. \A u \in Pending(s)' : u = t
        BY <1>13, <3>8, <4>1
      <4>3. t \in Pending(s)'
        BY <1>1, <1>12, <3>5, <3>7, <3>10
      <4>. QED BY <3>7, <3>10, <4>2, <4>3
    <3>. QED BY <3>9, <3>10
  <2>3. ToldIsSnapshot'
    BY <1>2, <2>2 DEF ToldIsSnapshot, Pending
  <2>4. SilentAtFirst'
    BY <2>1 DEF SilentAtFirst
  <2>. QED BY <1>10, <1>14, <2>3, <2>4 DEF TInv, ToldInv
<1>. QED BY <1>15, <1>16

\* One task announces one service, or loses what it has still to announce.
LEMMA PublishKeeps ==
    ASSUME TInv, NEW t \in Slots, NEW events \in SUBSET rec[t].events,
           rec[t].pc = "publish", Publishing(t, events),
           UNCHANGED <<graphVars, snapshot, fresh, whole>>,
           told' \in [Services -> Statuses], unsure \subseteq unsure',
           \A s \in Services \ unsure' :
             \/ /\ told'[s] = told[s]
                /\ \A v : <<s, v>> \in rec[t].events => <<s, v>> \in events
             \/ /\ \E v \in Statuses : <<s, v>> \in rec[t].events /\ told'[s] = v
                /\ \A v : <<s, v>> \notin events
    PROVE  TInv'
<1>. DEFINE r == IF events = {} THEN NoRec
                 ELSE [NoRec EXCEPT !.pc = "publish", !.events = events]
<1>1. /\ rec \in [Slots -> RecState] /\ rec[t] \in RecState /\ RecOK(rec[t])
      /\ UNCHANGED <<edges, integrations, open, snapshot, fresh, whole>>
  BY DEF TInv, TaskInv, RecsOK, graphVars
<1>2. rec' = [rec EXCEPT ![t] = r]
  BY DEF Publishing
<1>3. /\ events \in SUBSET (Services \X Statuses)
      /\ \A s, v, x : <<s, v>> \in events /\ <<s, x>> \in events => v = x
  BY <1>1 DEF RecOK, RecState
<1>4. /\ r \in RecState /\ r.pc \in {"idle", "publish"} /\ r.events = events
      /\ RecOK(r) /\ SeesTables(r)
  <2>1. r = IF events = {} THEN NoRec ELSE [NoRec EXCEPT !.pc = "publish", !.events = events]
    OBVIOUS
  <2>. HIDE DEF r
  <2>. QED BY <1>3, <2>1, PublishingIs
<1>. HIDE DEF r
<1>5. RecsOK' /\ rec'[t] = r /\ \A u \in Slots : u # t => rec'[u] = rec[u]
  BY <1>2, <1>4, OneTask DEF TInv, TaskInv
<1>7. TaskInv'
  <2>1. WorldOK'
    BY <1>1 DEF TInv, TaskInv, WorldOK
  <2>. QED BY <1>5, <2>1 DEF TaskInv
<1>8. ViewInv'
  <2>1. \A u \in Slots : SeesTables(rec[u])'
    BY <1>1, <1>4, <1>5 DEF TInv, ViewInv, SeesTables
  <2>. QED BY <1>1, <2>1 DEF TInv, ViewInv, SnapshotIsCurrent, Possible, Analyses
<1>9. ASSUME NEW s \in Services, NEW u \in Slots
      PROVE  /\ u \in Pending(s)' <=> \E v \in Statuses : <<s, v>> \in rec'[u].events
             /\ u \in Pending(s) <=> \E v \in Statuses : <<s, v>> \in rec[u].events
  BY DEF Pending
<1>10. \A s \in Services : Pending(s) \subseteq Slots /\ Pending(s)' \subseteq Slots
  BY DEF Pending
<1>11. \A s \in Services : Pending(s)' \subseteq Pending(s)
  BY <1>4, <1>5, <1>9, <1>10
<1>12. SilentAtFirst'
  BY <1>1, <1>11 DEF TInv, ToldInv, SilentAtFirst, Pending
<1>13. ASSUME snapshot # NothingKnown, NEW s \in Services \ unsure'
       PROVE  IF Pending(s)' = {} THEN told'[s] = At(snapshot, s)
              ELSE \A u \in Pending(s)' : <<s, At(snapshot, s)>> \in rec'[u].events
  <2>1. IF Pending(s) = {} THEN told[s] = At(snapshot, s)
        ELSE \A u \in Pending(s) : <<s, At(snapshot, s)>> \in rec[u].events
    BY <1>13 DEF TInv, ToldInv, ToldIsSnapshot
  <2>2. CASE /\ told'[s] = told[s]
             /\ \A v : <<s, v>> \in rec[t].events => <<s, v>> \in events
    <3>2. \A u \in Slots : \A v : <<s, v>> \in rec[u].events <=> <<s, v>> \in rec'[u].events
      BY <1>4, <1>5, <2>2
    <3>3. Pending(s)' = Pending(s)
      BY <1>9, <1>10, <3>2
    <3>4. \A u \in Pending(s) : u \in Slots
      BY <1>10
    <3>. QED BY <2>1, <2>2, <3>2, <3>3, <3>4
  <2>3. CASE /\ \E v \in Statuses : <<s, v>> \in rec[t].events /\ told'[s] = v
             /\ \A v : <<s, v>> \notin events
    <3>1. PICK v \in Statuses : <<s, v>> \in rec[t].events /\ told'[s] = v
      BY <2>3
    <3>2. t \in Pending(s) /\ t \notin Pending(s)'
      BY <1>4, <1>5, <1>9, <2>3, <3>1
    <3>3. <<s, At(snapshot, s)>> \in rec[t].events
      BY <2>1, <3>2
    <3>4. v = At(snapshot, s)
      BY <1>1, <3>1, <3>3 DEF RecOK
    <3>5. \A u \in Pending(s)' : u \in Pending(s) /\ rec'[u] = rec[u]
      BY <1>5, <1>10, <1>11, <3>2
    <3>. QED BY <2>1, <3>1, <3>2, <3>4, <3>5
  <2>. QED BY <1>13, <2>2, <2>3
<1>14. ToldIsSnapshot'
  BY <1>1, <1>13 DEF ToldIsSnapshot, Pending
<1>. QED BY <1>7, <1>8, <1>12, <1>14 DEF TInv, ToldInv
LEMMA PublishEventKeeps ==
    ASSUME TInv, NEW t \in Slots, PublishEvent(t)
    PROVE  TInv'
<1>1. PICK e \in rec[t].events :
        /\ told' = [told EXCEPT ![e[1]] = e[2]]
        /\ Publishing(t, rec[t].events \ {e})
  BY DEF PublishEvent
<1>2. /\ rec[t] \in RecState /\ RecOK(rec[t]) /\ rec[t].pc = "publish"
      /\ told \in [Services -> Statuses]
      /\ UNCHANGED <<graphVars, snapshot, fresh, whole, unsure>>
  BY DEF PublishEvent, historyVars, TInv, TaskInv, RecsOK, WorldOK
<1>3. e \in Services \X Statuses /\ e = <<e[1], e[2]>>
  BY <1>2 DEF RecState
<1>4. told' \in [Services -> Statuses]
  BY <1>1, <1>2, <1>3
<1>. DEFINE events == rec[t].events \ {e}
<1>5. ASSUME NEW s \in Services \ unsure'
      PROVE  \/ told'[s] = told[s] /\ \A v : <<s, v>> \in rec[t].events => <<s, v>> \in events
             \/ /\ \E v \in Statuses : <<s, v>> \in rec[t].events /\ told'[s] = v
                /\ \A v : <<s, v>> \notin events
  <2>1. CASE s = e[1]
    <3>1. told'[s] = e[2] /\ <<s, e[2]>> \in rec[t].events /\ e[2] \in Statuses
      BY <1>1, <1>2, <1>3, <2>1
    <3>2. \A v : <<s, v>> \in rec[t].events => v = e[2]
      BY <1>2, <3>1 DEF RecOK
    <3>3. \A v : <<s, v>> \notin events
      BY <1>3, <2>1, <3>2
    <3>. QED BY <3>1, <3>3
  <2>2. CASE s # e[1]
    BY <1>1, <1>2, <1>3, <2>2
  <2>. QED BY <2>1, <2>2
<1>6. events \in SUBSET rec[t].events /\ Publishing(t, events)
  BY <1>1
<1>. HIDE DEF events
<1>. QED BY <1>2, <1>4, <1>5, <1>6, PublishKeeps

LEMMA PublishFailsKeeps ==
    ASSUME TInv, NEW t \in Slots, PublishFails(t)
    PROVE  TInv'
<1>1. /\ rec[t].pc = "publish" /\ Publishing(t, {})
      /\ unsure' = unsure \cup {e[1] : e \in rec[t].events}
      /\ UNCHANGED <<graphVars, snapshot, told, fresh, whole>>
      /\ told \in [Services -> Statuses]
  BY DEF PublishFails, Publishing, TInv, TaskInv, WorldOK
<1>2. ASSUME NEW s \in Services \ unsure', NEW v
      PROVE  <<s, v>> \notin rec[t].events
  <2>1. \A e \in rec[t].events : e[1] # s
    BY <1>1, <1>2
  <2>2. <<s, v>>[1] = s
    OBVIOUS
  <2>. QED BY <2>1, <2>2
<1>3. {} \in SUBSET rec[t].events /\ unsure \subseteq unsure'
  BY <1>1
<1>. QED BY <1>1, <1>2, <1>3, PublishKeeps

LEMMA StatusChangedKeeps ==
    ASSUME TInv, NEW s \in Services, NEW t \in Slots, StatusChanged(s, t)
    PROVE  TInv'
<1>. DEFINE r == [NoRec EXCEPT !.pc = "read", !.reads = {"edges", "integrations", "open"}]
<1>1. r \in RecState /\ r.pc = "read" /\ r.events = {} /\ RecOK(r) /\ SeesTables(r)
  BY ReadingIs
<1>2. rec' = [rec EXCEPT ![t] = r] /\ rec[t].pc = "idle"
      /\ UNCHANGED <<graphVars, snapshot, told, fresh, whole, unsure>>
  BY DEF StatusChanged, historyVars
<1>. HIDE DEF r
<1>3. rec[t].events = {}
  BY <1>2 DEF TInv, TaskInv, RecsOK, RecOK
<1>. QED BY <1>1, <1>2, <1>3, TaskKeeps

LEMMA RestartKeeps ==
    ASSUME TInv, WorkerRestarts
    PROVE  TInv'
<1>1. /\ snapshot' = NothingKnown /\ fresh' = FALSE
      /\ rec' = [t \in Slots |-> NoRec]
      /\ UNCHANGED <<edges, integrations, open, told>>
  BY DEF WorkerRestarts, graphVars
<1>2. NothingKnown \in [DOMAIN NothingKnown -> Statuses] /\ DOMAIN NothingKnown \subseteq Services
  BY DEF NothingKnown
<1>3. RecsOK'
  BY <1>1, NoRecIsIdle DEF RecsOK
<1>4. WorldOK'
  BY <1>1, <1>2 DEF TInv, TaskInv, WorldOK
<1>5. ToldInv'
  <2>1. \A s \in Services : Pending(s)' = {}
    BY <1>1, NoRecIsIdle DEF Pending
  <2>. QED BY <1>1, <2>1 DEF ToldInv, ToldIsSnapshot, SilentAtFirst, Pending
<1>6. ViewInv'
  BY <1>1, NoRecIsIdle DEF ViewInv, SeesTables, SnapshotIsCurrent
<1>. QED BY <1>3, <1>4, <1>5, <1>6 DEF TInv, TaskInv

LEMMA NextTold ==
    ASSUME GraphInv, TInv, [Next]_vars
    PROVE  TInv'
<1>1. ASSUME NEW a \in Admins, NEW pc, NEW e, Requested(a, pc, e)
      PROVE  TInv'
  <2>1. UNCHANGED <<graphVars, rec, snapshot, told, fresh, whole, unsure>>
    BY <1>1 DEF Requested, historyVars
  <2>. QED BY <2>1, RequestKeeps
<1>2. ASSUME NEW a \in Admins, ListDependencies(a) PROVE TInv'
  <2>1. UNCHANGED <<graphVars, rec, snapshot, told, fresh, whole, unsure>>
    BY <1>2 DEF ListDependencies, historyVars
  <2>. QED BY <2>1, RequestKeeps
<1>3. ASSUME NEW a \in Admins, InsertDependency(a) PROVE TInv'
  <2>1. UNCHANGED <<integrations, open, snapshot, told, whole, unsure>>
    BY <1>3 DEF InsertDependency
  <2>2. CASE request[a].edge \in edges
    <3>1. UNCHANGED <<graphVars, rec, snapshot, told, fresh, whole, unsure>>
      BY <1>3, <2>1, <2>2 DEF InsertDependency, graphVars
    <3>. QED BY <3>1, RequestKeeps
  <2>3. CASE request[a].edge \notin edges
    <3>1. rec' = Touch(rec) /\ fresh' = FALSE
      BY <1>3, <2>3 DEF InsertDependency
    <3>2. integrations' \subseteq Services /\ open' \subseteq integrations'
      BY <2>1 DEF TInv, TaskInv, WorldOK
    <3>. QED BY <2>1, <3>1, <3>2, TouchKeeps
  <2>. QED BY <2>2, <2>3
<1>4. ASSUME NEW a \in Admins, RemoveDependency(a) PROVE TInv'
  <2>1. /\ rec' = Touch(rec) /\ fresh' = FALSE
        /\ UNCHANGED <<integrations, open, snapshot, told, unsure>>
    BY <1>4 DEF RemoveDependency
  <2>2. integrations' \subseteq Services /\ open' \subseteq integrations'
    BY <2>1 DEF TInv, TaskInv, WorldOK
  <2>. QED BY <2>1, <2>2, TouchKeeps
<1>5. ASSUME NEW s \in Services, IncidentFollows(s) PROVE TInv'
  <2>1. /\ rec' = Touch(rec) /\ fresh' = FALSE /\ s \in integrations
        /\ UNCHANGED <<integrations, snapshot, told, unsure>>
        /\ open' = IF s \in down THEN open \cup {s} ELSE open \ {s}
    BY <1>5 DEF IncidentFollows
  <2>2. integrations' \subseteq Services /\ open' \subseteq integrations'
    BY <2>1 DEF TInv, TaskInv, WorldOK
  <2>. QED BY <2>1, <2>2, TouchKeeps
<1>6. ASSUME NEW s \in Services, IntegrationDeleted(s) PROVE TInv'
  <2>1. /\ rec' = Touch(rec) /\ fresh' = FALSE
        /\ UNCHANGED <<snapshot, told, unsure>>
        /\ integrations' = integrations \ {s} /\ open' = open \ {s}
    BY <1>6 DEF IntegrationDeleted, Cascade
  <2>2. integrations' \subseteq Services /\ open' \subseteq integrations'
    BY <2>1 DEF TInv, TaskInv, WorldOK
  <2>. QED BY <2>1, <2>2, TouchKeeps
<1>7. CASE UNCHANGED vars
  <2>1. UNCHANGED <<graphVars, rec, snapshot, told, fresh, whole, unsure>>
    BY <1>7 DEF vars, graphVars
  <2>. QED BY <2>1, RequestKeeps
<1>8. ASSUME NEW a \in Admins, NEW u \in Services, NEW d \in Services, CreateDependency(a, u, d)
      PROVE  TInv'
  BY <1>1, <1>8 DEF CreateDependency
<1>9. ASSUME NEW a \in Admins, NEW e \in edges, DeleteDependency(a, e)
      PROVE  TInv'
  BY <1>1, <1>9 DEF DeleteDependency
<1>10. ASSUME NEW t \in Slots, NEW table \in {"edges", "integrations", "open"}, Read(t, table)
       PROVE  TInv'
  BY <1>10, ReadKeeps DEF Tables
<1>. QED BY <1>2, <1>3, <1>4, <1>5, <1>6, <1>7, <1>8, <1>9, <1>10, ReconcileKeeps,
            PublishEventKeeps, PublishFailsKeeps, StatusChangedKeeps, RestartKeeps DEF Next

LEMMA InitTold == Init => TInv
<1>. SUFFICES ASSUME Init PROVE TInv
  OBVIOUS
<1>1. /\ edges \in SUBSET Edge /\ integrations \in SUBSET Services /\ open \in SUBSET integrations
      /\ rec = [t \in Slots |-> NoRec]
      /\ snapshot \in {NothingKnown} \cup Analyses
      /\ told = [s \in Services |-> At(snapshot, s)] /\ fresh = FALSE
  BY DEF Init
<1>2. snapshot \in [DOMAIN snapshot -> Statuses] /\ DOMAIN snapshot \subseteq Services
  <2>1. NothingKnown \in [DOMAIN NothingKnown -> Statuses] /\ DOMAIN NothingKnown \subseteq Services
    BY DEF NothingKnown
  <2>2. CASE snapshot = NothingKnown
    BY <2>1, <2>2
  <2>3. CASE snapshot \in Analyses
    <3>1. PICK E \in Listed(edges, EdgeLimit), I \in Listed(integrations, ServiceLimit) :
            snapshot \in AnalyzeImpact(E, I, open)
      BY <2>3 DEF Analyses
    <3>2. E \in SUBSET Edge /\ I \in SUBSET Services
      BY <1>1, ListedIs
    <3>. QED BY <3>1, <3>2, AnalysisIs
  <2>. QED BY <1>1, <2>2, <2>3
<1>3. \A s : At(snapshot, s) \in Statuses
  BY <1>2, AtIs
<1>4. TaskInv
  <2>1. RecsOK
    BY <1>1, NoRecIsIdle DEF RecsOK
  <2>2. WorldOK
    BY <1>1, <1>2, <1>3 DEF WorldOK
  <2>. QED BY <2>1, <2>2 DEF TaskInv
<1>5. ToldInv
  <2>1. \A s \in Services : Pending(s) = {}
    BY <1>1, NoRecIsIdle DEF Pending
  <2>. QED BY <1>1, <2>1 DEF ToldInv, ToldIsSnapshot, SilentAtFirst
<1>6. ViewInv
  BY <1>1, NoRecIsIdle DEF ViewInv, SeesTables, SnapshotIsCurrent
<1>. QED BY <1>4, <1>5, <1>6 DEF TInv

-----------------------------------------------------------------------------
(***************************************************************************)
(* The search.  What at most k dependencies lead to from u is u itself and *)
(* the ends of the chains of at most k dependencies from u: the shortest   *)
(* way to a service meets no service twice.                                *)
(***************************************************************************)
Way(E, p, n) == \A i \in 0..(n - 1) : p[i + 1] = p[i] \/ <<p[i], p[i + 1]>> \in E

Leads(E, u, s, n) ==
    \E p \in [0..n -> Services] : p[0] = u /\ p[n] = s /\ Way(E, p, n)

\* Every non-empty set of naturals has a least element.
LEMMA HasLeast ==
    ASSUME NEW S, S # {}, S \subseteq Nat
    PROVE  \E x \in S : \A y \in S : x <= y
<1>. DEFINE T == {0..n : n \in S}
<1>1. T \subseteq FiniteSubsetsOf(Nat)
  <2>1. ASSUME NEW n \in S PROVE 0..n \in FiniteSubsetsOf(Nat)
    <3>1. IsFiniteSet(0..n)
      BY FS_Interval
    <3>2. 0..n \in SUBSET Nat
      OBVIOUS
    <3>. QED BY <3>1, <3>2 DEF FiniteSubsetsOf
  <2>. QED BY <2>1
<1>2. PICK u \in T : \A v \in T : <<v, u>> \notin StrictSubsetOrdering(Nat)
  <2>1. T # {}
    OBVIOUS
  <2>2. IsWellFoundedOn(StrictSubsetOrdering(Nat), FiniteSubsetsOf(Nat))
    BY FS_StrictSubsetOrderingWellFounded
  <2>. HIDE DEF T
  <2>. QED BY <1>1, <2>1, <2>2, WFMin
<1>3. PICK x \in S : u = 0..x
  OBVIOUS
<1>4. ASSUME NEW y \in S PROVE x <= y
  <2>1. SUFFICES ASSUME y < x PROVE FALSE
    OBVIOUS
  <2>2. 0..y \subseteq 0..x /\ 0..y # 0..x /\ 0..y \in SUBSET Nat /\ 0..x \in SUBSET Nat
    BY <2>1
  <2>3. <<0..y, 0..x>> \in StrictSubsetOrdering(Nat)
    BY <2>2 DEF StrictSubsetOrdering
  <2>. QED BY <1>2, <1>3, <2>3
<1>. QED BY <1>4

LEMMA WithinIs ==
    ASSUME NEW E, NEW u, NEW k \in Nat
    PROVE  \A s : s \in Within(E, u, k) <=> Leads(E, u, s, k)
<1>. DEFINE Q == {q \in [0..k -> Services] : q[0] = u /\ Way(E, q, k)}
<1>1. Within(E, u, k) = {p[k] : p \in Q}
  BY DEF Within, Way
<1>. QED BY <1>1 DEF Leads

\* A way that meets a service twice can be shortened.
LEMMA Shortcut ==
    ASSUME NEW E, NEW u, NEW s, NEW n \in Nat, NEW p \in [0..n -> Services],
           p[0] = u, p[n] = s, Way(E, p, n),
           NEW i \in 0..n, NEW j \in 0..n, i < j, p[i] = p[j]
    PROVE  Leads(E, u, s, n - (j - i))
<1>1. PICK m \in Nat : m = n - (j - i)
  OBVIOUS
<1>. DEFINE q == [x \in 0..m |-> IF x <= i THEN p[x] ELSE p[x + (j - i)]]
<1>2. /\ i <= m /\ m < n
      /\ \A x \in 0..m : x \in 0..n /\ (i < x => x + (j - i) \in 0..n)
  BY <1>1
<1>3. q \in [0..m -> Services] /\ q[0] = u
  BY <1>2
<1>4. q[m] = s
  BY <1>1, <1>2
<1>5. Way(E, q, m)
  <2>. SUFFICES ASSUME NEW x \in 0..(m - 1)
                PROVE  q[x + 1] = q[x] \/ <<q[x], q[x + 1]>> \in E
    BY DEF Way
  <2>1. x \in 0..m /\ x + 1 \in 0..m
    BY <1>1
  <2>2. CASE x < i
    <3>1. q[x] = p[x] /\ q[x + 1] = p[x + 1] /\ x \in 0..(n - 1)
      BY <1>2, <2>1, <2>2
    <3>. QED BY <3>1 DEF Way
  <2>3. CASE x >= i
    <3>1. PICK y \in 0..(n - 1) : y = x + (j - i)
      BY <1>1, <2>3
    <3>2. q[x] = p[y]
      BY <2>1, <2>3, <3>1
    <3>3. q[x + 1] = p[y + 1]
      BY <2>1, <2>3, <3>1
    <3>. QED BY <3>2, <3>3 DEF Way
  <2>. QED BY <2>2, <2>3
<1>. HIDE DEF q
<1>. QED BY <1>1, <1>3, <1>4, <1>5 DEF Leads

\* The shortest way is a chain.
LEMMA WayHasChain ==
    ASSUME NEW E, NEW u, NEW s, u # s, NEW k \in Nat, Leads(E, u, s, k)
    PROVE  \E n \in 1..k : \E p \in [0..n -> Services] :
              p[0] = u /\ p[n] = s /\ IsChain(E, p, n)
<1>. DEFINE Lengths == {n \in 0..k : Leads(E, u, s, n)}
<1>1. PICK n \in Lengths : \A m \in Lengths : n <= m
  <2>1. Lengths # {} /\ Lengths \subseteq Nat
    OBVIOUS
  <2>. HIDE DEF Lengths
  <2>. QED BY <2>1, HasLeast
<1>2. n \in 0..k /\ n \in Nat /\ Leads(E, u, s, n)
  OBVIOUS
<1>3. PICK p \in [0..n -> Services] : p[0] = u /\ p[n] = s /\ Way(E, p, n)
  BY <1>2 DEF Leads
<1>4. ASSUME NEW i \in 0..n, NEW j \in 0..n, i < j, p[i] = p[j] PROVE FALSE
  <2>1. Leads(E, u, s, n - (j - i))
    BY <1>2, <1>3, <1>4, Shortcut
  <2>2. n - (j - i) \in 0..k /\ n - (j - i) < n
    BY <1>2, <1>4
  <2>3. n - (j - i) \in Lengths
    BY <2>1, <2>2
  <2>. HIDE DEF Lengths
  <2>. QED BY <1>1, <1>2, <2>2, <2>3
<1>. HIDE DEF Lengths
<1>5. \A i, j \in 0..n : p[i] = p[j] => i = j
  <2>1. \A i, j \in 0..n : i < j \/ j < i \/ i = j
    BY <1>2
  <2>. QED BY <1>4, <2>1
<1>6. \A i \in 0..(n - 1) : <<p[i], p[i + 1]>> \in E
  <2>. SUFFICES ASSUME NEW i \in 0..(n - 1) PROVE <<p[i], p[i + 1]>> \in E
    OBVIOUS
  <2>1. i \in 0..n /\ i + 1 \in 0..n /\ i # i + 1
    BY <1>2
  <2>2. p[i] # p[i + 1]
    BY <1>5, <2>1
  <2>. QED BY <1>3, <2>2 DEF Way
<1>7. n # 0
  BY <1>3
<1>8. n \in 1..k
  BY <1>2, <1>7
<1>. QED BY <1>3, <1>5, <1>6, <1>8 DEF IsChain

\* A chain is a way of any greater length, which stays at its end.
LEMMA ChainIsWay ==
    ASSUME NEW E, NEW u, NEW s, NEW k \in Nat, NEW n \in 1..k, NEW p \in [0..n -> Services],
           p[0] = u, p[n] = s, IsChain(E, p, n)
    PROVE  Leads(E, u, s, k)
<1>. DEFINE q == [x \in 0..k |-> IF x <= n THEN p[x] ELSE p[n]]
<1>1. q \in [0..k -> Services] /\ q[0] = u /\ q[k] = s
  OBVIOUS
<1>2. Way(E, q, k)
  <2>. SUFFICES ASSUME NEW x \in 0..(k - 1)
                PROVE  q[x + 1] = q[x] \/ <<q[x], q[x + 1]>> \in E
    BY DEF Way
  <2>1. CASE x < n
    <3>1. x \in 0..(n - 1) /\ q[x] = p[x] /\ q[x + 1] = p[x + 1]
      BY <2>1
    <3>. QED BY <3>1 DEF IsChain
  <2>2. CASE x >= n
    <3>1. q[x] = p[n] /\ q[x + 1] = p[n]
      BY <2>2
    <3>. QED BY <3>1
  <2>. QED BY <2>1, <2>2
<1>. HIDE DEF q
<1>. QED BY <1>1, <1>2 DEF Leads

\* What lies near to u, other than u, are the ends of short chains from it.
LEMMA NearIs ==
    ASSUME NEW E, NEW u \in Services
    PROVE  /\ Within(E, u, MaxDepth) \subseteq Services /\ u \in Within(E, u, MaxDepth)
           /\ \A s : s # u => (s \in Within(E, u, MaxDepth) <=> HasPath(E, u, s))
<1>0. MaxDepth \in Nat
  BY TopologyAssumption
<1>1. \A s : s \in Within(E, u, MaxDepth) <=> Leads(E, u, s, MaxDepth)
  BY <1>0, WithinIs
<1>2. Leads(E, u, u, MaxDepth)
  <2>. DEFINE q == [x \in 0..MaxDepth |-> u]
  <2>1. q \in [0..MaxDepth -> Services] /\ q[0] = u /\ q[MaxDepth] = u
    BY <1>0
  <2>2. Way(E, q, MaxDepth)
    BY <1>0 DEF Way
  <2>. HIDE DEF q
  <2>. QED BY <2>1, <2>2 DEF Leads
<1>3. \A s : Leads(E, u, s, MaxDepth) => s \in Services
  BY <1>0 DEF Leads
<1>4. ASSUME NEW s, s # u, Leads(E, u, s, MaxDepth) PROVE HasPath(E, u, s)
  BY <1>0, <1>4, WayHasChain DEF HasPath
<1>5. ASSUME NEW s, HasPath(E, u, s) PROVE Leads(E, u, s, MaxDepth)
  <2>1. PICK n \in 1..MaxDepth : \E p \in [0..n -> Services] :
           p[0] = u /\ p[n] = s /\ IsChain(E, p, n)
    BY <1>5 DEF HasPath
  <2>2. PICK p \in [0..n -> Services] : p[0] = u /\ p[n] = s /\ IsChain(E, p, n)
    BY <2>1
  <2>. QED BY <1>0, <2>2, ChainIsWay
<1>. QED BY <1>1, <1>2, <1>3, <1>4, <1>5

\* More dependencies have more chains.
LEMMA FewerHaveLess ==
    ASSUME NEW E, NEW F \in SUBSET E, NEW u, NEW s, HasPath(F, u, s)
    PROVE  HasPath(E, u, s)
<1>1. \A n, p : IsChain(F, p, n) => IsChain(E, p, n)
  BY DEF IsChain
<1>. QED BY <1>1 DEF HasPath

\* A chain ends with a dependency.
LEMMA PathEnds ==
    ASSUME NEW E, NEW u, NEW s, HasPath(E, u, s)
    PROVE  \E e \in E : e[2] = s
<1>1. PICK n \in 1..MaxDepth : \E p \in [0..n -> Services] :
          p[0] = u /\ p[n] = s /\ IsChain(E, p, n)
  BY DEF HasPath
<1>2. PICK p \in [0..n -> Services] : p[n] = s /\ IsChain(E, p, n)
  BY <1>1
<1>3. PICK k \in 0..(n - 1) : n = k + 1
  BY TopologyAssumption
<1>4. <<p[k], p[n]>> \in E
  BY <1>2, <1>3 DEF IsChain
<1>. QED BY <1>2, <1>4

\* The search meets nothing else, and all of it if that is not too much.
LEMMA SearchMeets ==
    ASSUME NEW E, NEW u \in Services, NEW V \in Searched(E, u)
    PROVE  /\ \A s \in V : s = u \/ HasPath(E, u, s)
           /\ Cardinality({s \in Services \ {u} : HasPath(E, u, s)}) < MaxNodes
                => \A s \in Services \ {u} : HasPath(E, u, s) => s \in V
<1>. DEFINE near == Within(E, u, MaxDepth)
            ends == {s \in Services \ {u} : HasPath(E, u, s)}
<1>1. V \subseteq near /\ (Cardinality(near) <= MaxNodes => V = near)
  BY DEF Searched
<1>2. near = ends \cup {u} /\ u \notin ends
  BY NearIs
<1>3. IsFiniteSet(ends)
  <2>1. IsFiniteSet(Services) /\ ends \subseteq Services
    BY TopologyAssumption
  <2>. HIDE DEF ends
  <2>. QED BY <2>1, FS_Subset
<1>4. Cardinality(ends) \in Nat /\ Cardinality(near) = Cardinality(ends) + 1
  <2>. HIDE DEF ends, near
  <2>. QED BY <1>2, <1>3, FS_CardinalityType, FS_AddElement
<1>5. Cardinality(ends) < MaxNodes => V = near
  <2>. HIDE DEF ends, near
  <2>. QED BY <1>1, <1>4, TopologyAssumption
<1>6. \A s \in V : s = u \/ HasPath(E, u, s)
  BY <1>1, <1>2
<1>7. Cardinality(ends) < MaxNodes => \A s \in ends : s \in V
  <2>. HIDE DEF ends, near
  <2>. QED BY <1>2, <1>5
<1>. QED BY <1>6, <1>7

\* The tables, the requests and the reconciliations keep their types.
THEOREM TopologyTypes == Spec => []TypeOK
<1>1. ASSUME GraphInv, TInv PROVE TypeOK
  <2>1. /\ edges \subseteq Edge /\ integrations \subseteq Services /\ open \subseteq integrations
        /\ DOMAIN snapshot \subseteq Services /\ told \in [Services -> Statuses]
    BY <1>1 DEF GraphInv, RequestsOK, TInv, TaskInv, WorldOK
  <2>2. ASSUME NEW a \in Admins
        PROVE  /\ request[a].pc \in {"idle", "list", "insert", "delete"}
               /\ request[a].pc # "idle" => request[a].edge \in Edge
    BY <1>1 DEF GraphInv, RequestsOK, RequestState
  <2>3. ASSUME NEW t \in Slots
        PROVE  /\ rec[t].pc \in {"idle", "read", "publish"}
               /\ rec[t].edges \subseteq Edge
               /\ rec[t].events \subseteq Services \X Statuses
               /\ (rec[t].pc = "publish") = (rec[t].events # {})
    <3>1. rec[t] \in RecState /\ RecOK(rec[t])
      BY <1>1 DEF TInv, TaskInv, RecsOK
    <3>2. (rec[t].pc = "publish") = (rec[t].events # {})
      BY <3>1 DEF RecOK
    <3>. QED BY <3>1, <3>2 DEF RecState
  <2>. QED BY <2>1, <2>2, <2>3 DEF TypeOK
<1>. QED BY <1>1, InitGraph, NextGraph, InitTold, NextTold, PTL DEF Spec

\* docs/28, "pas d'emission si impactStatus inchange": what the worker
\* announced last of a service, or has still to announce, is what its snapshot
\* says, unless an announcement was lost or overtaken.
THEOREM ToldFollowsSnapshot == Spec => []ToldIsSnapshot
<1>1. TInv => ToldIsSnapshot
  BY DEF TInv, ToldInv
<1>. QED BY <1>1, InitGraph, NextGraph, InitTold, NextTold, PTL DEF Spec

\* The snapshot is one that analyzeImpact can give of the tables, unless a
\* table has changed since the reads behind it: an older reconciliation that
\* ends last does not put its own view in place unnoticed.
THEOREM SnapshotIsAnalysis == Spec => []SnapshotIsCurrent
<1>1. TInv => SnapshotIsCurrent
  BY DEF TInv, ViewInv
<1>. QED BY <1>1, InitGraph, NextGraph, InitTold, NextTold, PTL DEF Spec

\* Of what has no row in the analysis or no chain, nothing is impacted.
LEMMA ImpactedIs ==
    ASSUME NEW E \in SUBSET Edge, NEW I \in SUBSET Services, NEW O,
           NEW A \in AnalyzeImpact(E, I, O), NEW s
    PROVE  /\ At(A, s) = "impacted"
                => \E u \in (I \cap O) \ {s} : HasPath(E, u, s)
           /\ \A u \in I \cap O :
                /\ s \in {x \in Services \ {u} : HasPath(E, u, x)}
                /\ Cardinality({x \in Services \ {u} : HasPath(E, u, x)}) < MaxNodes
                => At(A, s) = "impacted"
<1>1. PICK V \in Searches(E, I \cap O) : A = [x \in I \cup Nodes(E) |-> ImpactStatus(E, I, V, x)]
  BY DEF AnalyzeImpact
<1>2. DOMAIN V = I \cap O /\ \A u \in I \cap O : V[u] \in Searched(E, u) /\ u \in Services
  BY DEF Searches
<1>3. ASSUME At(A, s) = "impacted" PROVE \E u \in (I \cap O) \ {s} : HasPath(E, u, s)
  <2>1. ImpactStatus(E, I, V, s) = "impacted"
    BY <1>1, <1>3 DEF At
  <2>2. PICK u \in (I \cap O) \ {s} : s \in V[u]
    BY <1>2, <2>1 DEF ImpactStatus
  <2>3. HasPath(E, u, s)
    BY <1>2, <2>2, SearchMeets
  <2>. QED BY <2>3
<1>4. ASSUME NEW u \in I \cap O, s \in Services \ {u}, HasPath(E, u, s),
             Cardinality({x \in Services \ {u} : HasPath(E, u, x)}) < MaxNodes
      PROVE  At(A, s) = "impacted"
  <2>1. s \in V[u]
    BY <1>2, <1>4, SearchMeets
  <2>2. ImpactStatus(E, I, V, s) = "impacted"
    BY <1>2, <1>4, <2>1 DEF ImpactStatus
  <2>3. s \in Nodes(E)
    BY <1>4, PathEnds DEF Nodes
  <2>. QED BY <1>1, <2>2, <2>3 DEF At
<1>. QED BY <1>3, <1>4

\* docs/28, the blast radius is transitive and the search is bounded: what is
\* "impacted" in the worker's snapshot is at the end of a chain of at most
\* MaxDepth dependencies from another service that is down, and the ends of
\* these chains are, of a source with few enough of them, if every row was
\* listed and no table changed since the reads.
THEOREM SnapshotIsExact == Spec => []SnapshotIsRight
<1>1. ASSUME GraphInv, TInv PROVE SnapshotIsRight
  <2>. DEFINE Ends(E, u) == {s \in Services \ {u} : HasPath(E, u, s)}
  <2>. SUFFICES ASSUME fresh, NEW s \in Services
                PROVE  /\ At(snapshot, s) = "impacted" => \E u \in open : s \in Ends(edges, u)
                       /\ \A u \in open :
                            whole /\ Cardinality(Ends(edges, u)) < MaxNodes /\ s \in Ends(edges, u)
                              => At(snapshot, s) = "impacted"
    BY Zenon DEF SnapshotIsRight
  <2>1. open \subseteq integrations /\ integrations \subseteq Services /\ edges \in SUBSET Edge
    BY <1>1 DEF TInv, TaskInv, WorldOK, GraphInv, RequestsOK
  <2>2. PICK A \in Possible : At(snapshot, s) = At(A, s)
    BY <1>1 DEF TInv, ViewInv, SnapshotIsCurrent
  <2>3. PICK E \in SUBSET edges, I \in SUBSET integrations :
           /\ A \in AnalyzeImpact(E, I, open)
           /\ whole => E = edges /\ I = integrations
    <3>1. CASE whole
      BY <2>2, <3>1 DEF Possible
    <3>2. CASE ~whole
      <4>1. PICK E \in Listed(edges, EdgeLimit), I \in Listed(integrations, ServiceLimit) :
              A \in AnalyzeImpact(E, I, open)
        BY <2>2, <3>2 DEF Possible, Analyses
      <4>2. E \subseteq edges /\ I \subseteq integrations
        BY ListedIs
      <4>. QED BY <3>2, <4>1, <4>2
    <3>. QED BY <3>1, <3>2
  <2>4. E \in SUBSET Edge /\ I \in SUBSET Services
    BY <2>1
  <2>5. ASSUME At(snapshot, s) = "impacted" PROVE \E u \in open : s \in Ends(edges, u)
    <3>0. At(A, s) = "impacted" /\ A \in AnalyzeImpact(E, I, open)
      BY <2>2, <2>3, <2>5
    <3>1. PICK u \in (I \cap open) \ {s} : HasPath(E, u, s)
      BY <2>4, <3>0, ImpactedIs
    <3>2. HasPath(edges, u, s)
      BY <3>1, FewerHaveLess
    <3>. QED BY <3>1, <3>2
  <2>6. ASSUME whole, NEW u \in open, Cardinality(Ends(edges, u)) < MaxNodes,
               s \in Ends(edges, u)
        PROVE  At(snapshot, s) = "impacted"
    <3>1. E = edges /\ I = integrations /\ u \in I \cap open
      BY <2>1, <2>3, <2>6
    <3>2. At(A, s) = "impacted"
      BY <2>3, <2>4, <2>6, <3>1, ImpactedIs
    <3>. QED BY <2>2, <3>2
  <2>. QED BY <2>5, <2>6
<1>. QED BY <1>1, InitGraph, NextGraph, InitTold, NextTold, PTL DEF Spec
=============================================================================
