------------------------------ MODULE Topology ------------------------------
(***************************************************************************)
(* The dependency graph of packages/topology and the announcement of       *)
(* impact changes (dependency.impact.changed).                             *)
(*                                                                         *)
(* The graph is edited by web requests: each is a sequence of statements   *)
(* with no transaction around them.  Its reconciliation, after these, is   *)
(* left out: it begins with a snapshot that is empty in every request, and *)
(* leaves nothing behind but announcements in the web process.             *)
(* A worker reconciles on every integration.status.changed, at the same    *)
(* time as its incident engine opens or resolves the incident that the     *)
(* analysis reads, and keeps one snapshot in memory for all its            *)
(* reconciliations.                                                        *)
(***************************************************************************)
EXTENDS Naturals, FiniteSets

LOCAL INSTANCE Functions

CONSTANTS
    Services,     \* service keys
    Admins,       \* slots for web requests in progress (bound)
    Slots,        \* slots for reconciliations of the worker (bound)
    VisitLimit,   \* wouldCreateCycle: nodes visited before it gives up (33)
    MaxDepth,     \* analyzeImpact: dependencies followed from a source (32)
    MaxNodes,     \* analyzeImpact: nodes visited from a source (500)
    EdgeLimit,    \* rows of listDependencies (1000)
    ServiceLimit, \* rows of listIntegrationIds (500)
    MaxEdges, MaxOpen,   \* edges, and open incidents, to start from (bounds)
    MinServices,         \* integrations to start from (bound)
    MaxWrites, MaxEvents, MaxDeletions, MaxRestarts, MaxFailures,   \* bounds
    MaxSpent      \* bound on all these together

ASSUME TopologyAssumption ==
    /\ IsFiniteSet(Services)
    /\ VisitLimit \in Nat /\ MaxDepth \in Nat /\ MaxNodes \in Nat
    /\ EdgeLimit \in Nat /\ ServiceLimit \in Nat

VARIABLES
    edges,          \* service_dependencies: pairs <<upstream, downstream>>
    integrations,   \* integrations that exist
    open,           \* integrations with an open availability incident
    request,        \* Admins -> createDependency or deleteDependency
    rec,            \* Slots -> reconcile in progress
    snapshot,       \* the worker's snapshot: a function on the services it knows
    down,           \* integrations whose last published status is unavailable
    told,           \* service -> impact status the worker announced last
    fresh,          \* history: no table changed since the snapshot's reads
    whole,          \* history: the snapshot's reads listed every row
    unsure,         \* history: announcements lost, or overtaken by another
    blindInsert,    \* history: an edge inserted beside another that it did not list
    spent           \* counts of writes, events, deletions, restarts and failures

graphVars == <<edges, integrations, open>>
historyVars == <<fresh, whole, unsure, blindInsert>>
vars == <<edges, integrations, open, request, rec, snapshot, down, told, fresh,
          whole, unsure, blindInsert, spent>>

Edge == Services \X Services
Statuses == {"none", "at-risk", "impacted"}

NoEdge == <<"none", "none">>
NoRequest == [pc |-> "idle", edge |-> NoEdge, blind |-> FALSE, gone |-> FALSE]
NoRec == [pc |-> "idle", reads |-> {}, edges |-> {}, integrations |-> {}, open |-> {},
          partial |-> FALSE, touched |-> FALSE, events |-> {}]
-----------------------------------------------------------------------------
\* A set of services closed under "is upstream of".
Closed(E, S) == \A e \in E : e[1] \in S => e[2] \in S

\* d is s or one of its transitive dependents: in every closed set with s.
Reaches(E, s, d) == \A S \in SUBSET Services : s \in S /\ Closed(E, S) => d \in S

Descendants(E, s) == {d \in Services : Reaches(E, s, d)}

\* No non-empty set of services in which everyone has a dependent.
Acyclic(E) ==
    \A S \in SUBSET Services :
        (\A s \in S : \E d \in S : <<s, d>> \in E) => S = {}

\* (faulty) Only a direct reverse edge is refused.
WouldCreateDirectCycle(E, u, d) == {u = d \/ <<d, u>> \in E}

(***************************************************************************)
(* wouldCreateCycle, as the set of its possible answers.  What its bound   *)
(* calls depth is the number of nodes visited: beyond it the answer is     *)
(* yes, and at the bound it is yes if a duplicate is left on the stack.    *)
(***************************************************************************)
WouldCreateCycle(E, u, d) ==
    LET visited == Cardinality(Descendants(E, d)) IN
    IF u = d \/ Reaches(E, d, u) \/ visited > VisitLimit THEN {TRUE}
    ELSE IF visited = VisitLimit THEN BOOLEAN ELSE {FALSE}

Nodes(E) == {e[1] : e \in E} \cup {e[2] : e \in E}

(***************************************************************************)
(* The breadth-first search of analyzeImpact, which meets the services     *)
(* nearest to its source first.  It breaks off beyond MaxDepth, and after  *)
(* MaxNodes: which services of the last layer it has met by then depends   *)
(* on the order of the rows, and is left open.                             *)
(***************************************************************************)
\* What at most k dependencies lead to from u, u included.
Within(E, u, k) ==
    {p[k] : p \in {q \in [0..k -> Services] :
        /\ q[0] = u
        /\ \A i \in 0..(k - 1) : q[i + 1] = q[i] \/ <<q[i], q[i + 1]>> \in E}}

\* (faulty) Only direct dependents of an unavailable service are impacted.
SearchedOnce(E, u) == {Within(E, u, 1)}

Searched(E, u) ==
    LET near == Within(E, u, MaxDepth) IN
    IF Cardinality(near) <= MaxNodes THEN {near}
    ELSE {V \in SUBSET near :
            /\ Cardinality(V) = MaxNodes
            /\ \A k \in 0..MaxDepth : Within(E, u, k) \subseteq V \/ V \subseteq Within(E, u, k)}

\* One search from each unavailable service.
Searches(E, sources) ==
    {V \in [sources -> UNION {Searched(E, u) : u \in sources}] :
        \A u \in sources : V[u] \in Searched(E, u)}

\* A key without an integration has an unknown status.
ImpactStatus(E, I, V, s) ==
    IF \E u \in DOMAIN V \ {s} : s \in V[u] THEN "impacted"
    ELSE IF \E u \in Nodes(E) \ I : <<u, s>> \in E THEN "at-risk"
    ELSE "none"

\* analyzeImpact, as the set of its possible results.
AnalyzeImpact(E, I, O) ==
    {[s \in I \cup Nodes(E) |-> ImpactStatus(E, I, V, s)] : V \in Searches(E, I \cap O)}

\* What a SELECT without ORDER BY and with LIMIT n returns of the rows S.
Listed(S, n) ==
    IF Cardinality(S) <= n THEN {S} ELSE {L \in SUBSET S : Cardinality(L) = n}

\* Every analysis of the tables as they are.
Analyses ==
    UNION {AnalyzeImpact(E, I, open) : E \in Listed(edges, EdgeLimit),
                                       I \in Listed(integrations, ServiceLimit)}

\* An absent key counts as "none".
At(f, s) == IF s \in DOMAIN f THEN f[s] ELSE "none"

\* diffImpactTransitions
NextSnapshot(previous, next) ==
    [s \in DOMAIN previous \cup DOMAIN next |-> At(next, s)]

\* (faulty) The end of an impact is not announced.
OutagesOnly(previous, next) ==
    {<<s, next[s]>> : s \in {x \in DOMAIN next : At(previous, x) = "none" /\ next[x] # "none"}}

Transitions(previous, next) ==
    {<<s, next[s]>> : s \in {x \in DOMAIN next : At(previous, x) # next[x]}}

NothingKnown == [s \in {} |-> "none"]
-----------------------------------------------------------------------------
(***************************************************************************)
(* Every change of the tables is seen by the reconciliations under way.    *)
(***************************************************************************)
Touch(r) == [t \in Slots |-> [r[t] EXCEPT !.touched = @ \/ r[t].pc = "read"]]

Spend(what, max) ==
    /\ spent[what] < max
    /\ FoldFunction(+, 0, spent) < MaxSpent
    /\ spent' = [spent EXCEPT ![what] = @ + 1]

Requested(a, pc, e) ==
    /\ request[a] = NoRequest
    /\ Spend("writes", MaxWrites)
    /\ request' = [request EXCEPT ![a].pc = pc, ![a].edge = e]
    /\ UNCHANGED <<graphVars, rec, snapshot, down, told, historyVars>>

\* integrationExists, twice
CreateDependency(a, u, d) ==
    /\ {u, d} \subseteq integrations
    /\ Requested(a, "list", <<u, d>>)

\* getDependency
DeleteDependency(a, e) ==
    /\ e \in edges
    /\ Requested(a, "delete", e)

\* A request is blind from a list that the limit cut, or from the insertion
\* of another after its list.
ListDependencies(a) ==
    LET e == request[a].edge IN
    /\ request[a].pc = "list"
    /\ \E existing \in Listed(edges, EdgeLimit) :
       \E refused \in WouldCreateCycle(existing, e[1], e[2]) :
         request' = [request EXCEPT ![a] = IF refused \/ e \in existing THEN NoRequest
                                           ELSE [@ EXCEPT !.pc = "insert",
                                                          !.blind = existing # edges]]
    /\ UNCHANGED <<graphVars, rec, snapshot, down, told, historyVars, spent>>

\* service_dependencies_edge_uq
InsertDependency(a) ==
    LET e == request[a].edge
        others == [b \in Admins |->
                     IF b = a THEN NoRequest
                     ELSE [request[b] EXCEPT !.blind = @ \/ request[b].pc = "insert"]] IN
    /\ request[a].pc = "insert"
    /\ IF e \in edges
       THEN /\ request' = [request EXCEPT ![a] = NoRequest]
            /\ UNCHANGED <<edges, rec, fresh, blindInsert>>
       ELSE /\ edges' = edges \cup {e}
            /\ request' = others
            /\ rec' = Touch(rec)
            /\ fresh' = FALSE
            /\ blindInsert' = (blindInsert \/ request[a].blind)
    /\ UNCHANGED <<integrations, open, snapshot, down, told, whole, unsure, spent>>

\* The row of the id, which is gone if another request has deleted it.
RemoveDependency(a) ==
    LET e == request[a].edge IN
    /\ request[a].pc = "delete"
    /\ edges' = IF request[a].gone THEN edges ELSE edges \ {e}
    /\ request' = [b \in Admins |->
                     IF b = a THEN NoRequest
                     ELSE [request[b] EXCEPT !.gone =
                             @ \/ (~request[a].gone /\ request[b].pc = "delete"
                                                    /\ request[b].edge = e)]]
    /\ rec' = Touch(rec)
    /\ fresh' = FALSE
    /\ UNCHANGED <<integrations, open, snapshot, down, told, whole, unsure, blindInsert,
                   spent>>
-----------------------------------------------------------------------------
(***************************************************************************)
(* computeImpactAnalysis reads three tables at once, in any order.  Open    *)
(* incidents are read without a limit.                                     *)
(***************************************************************************)
Read(t, table) ==
    /\ rec[t].pc = "read" /\ table \in rec[t].reads
    /\ \/ /\ table = "edges"
          /\ \E L \in Listed(edges, EdgeLimit) :
               rec' = [rec EXCEPT ![t].reads = @ \ {table}, ![t].edges = L,
                                  ![t].partial = @ \/ L # edges]
       \/ /\ table = "integrations"
          /\ \E L \in Listed(integrations, ServiceLimit) :
               rec' = [rec EXCEPT ![t].reads = @ \ {table}, ![t].integrations = L,
                                  ![t].partial = @ \/ L # integrations]
       \/ /\ table = "open"
          /\ rec' = [rec EXCEPT ![t].reads = @ \ {table}, ![t].open = open]
    /\ UNCHANGED <<graphVars, request, snapshot, down, told, historyVars, spent>>

AnalysisOf(t) == AnalyzeImpact(rec[t].edges, rec[t].integrations, rec[t].open)

Publishing(t, events) ==
    rec' = [rec EXCEPT ![t] = IF events = {} THEN NoRec
                              ELSE [NoRec EXCEPT !.pc = "publish", !.events = events]]

Pending(s) == {t \in Slots : \E v \in Statuses : <<s, v>> \in rec[t].events}

\* With the last read: the snapshot is replaced before anything is announced.
\* An empty one is seeded in silence.
Replace(t, after) ==
    LET events == IF snapshot = NothingKnown THEN {} ELSE Transitions(snapshot, after) IN
    /\ snapshot' = after
    /\ Publishing(t, events)
    /\ unsure' = unsure \cup
         IF snapshot = NothingKnown THEN {s \in Services : told[s] # At(after, s)}
         ELSE {s \in Services : Pending(s) # {} /\ At(after, s) # At(snapshot, s)}

Reconcile(t) ==
    /\ rec[t].pc = "read" /\ rec[t].reads = {}
    /\ \E next \in AnalysisOf(t) : Replace(t, NextSnapshot(snapshot, next))
    /\ fresh' = ~rec[t].touched
    /\ whole' = ~rec[t].partial
    /\ UNCHANGED <<graphVars, request, down, told, blindInsert, spent>>

PublishEvent(t) ==
    /\ rec[t].pc = "publish"
    /\ \E e \in rec[t].events :
         /\ told' = [told EXCEPT ![e[1]] = e[2]]
         /\ Publishing(t, rec[t].events \ {e})
    /\ UNCHANGED <<graphVars, request, snapshot, down, historyVars, spent>>

\* A publication throws: what is left of the loop is never announced.
PublishFails(t) ==
    /\ rec[t].pc = "publish"
    /\ Spend("failures", MaxFailures)
    /\ rec' = [rec EXCEPT ![t] = NoRec]
    /\ unsure' = unsure \cup {e[1] : e \in rec[t].events}
    /\ UNCHANGED <<graphVars, request, snapshot, down, told, fresh, whole, blindInsert>>
-----------------------------------------------------------------------------
\* integration.status.changed reaches the worker: the status may be another,
\* the one it had, or "unknown", which the incident engine passes over.
StatusChanged(s, t) ==
    /\ s \in integrations
    /\ rec[t].pc = "idle"
    /\ Spend("events", MaxEvents)
    /\ down' \in {down, down \cup {s}, down \ {s}}
    /\ rec' = [rec EXCEPT ![t] = [NoRec EXCEPT !.pc = "read",
                                              !.reads = {"edges", "integrations", "open"}]]
    /\ UNCHANGED <<graphVars, request, snapshot, told, historyVars>>

\* The incident engine has handled the status.
IncidentFollows(s) ==
    /\ s \in integrations
    /\ (s \in open) # (s \in down)
    /\ open' = IF s \in down THEN open \cup {s} ELSE open \ {s}
    /\ rec' = Touch(rec)
    /\ fresh' = FALSE
    /\ UNCHANGED <<edges, integrations, request, snapshot, down, told, whole, unsure,
                   blindInsert, spent>>

\* (faulty) No ON DELETE CASCADE.
WithoutCascade(s) == open

Cascade(s) == open \ {s}

\* Its incidents go with an integration, its dependencies stay.
IntegrationDeleted(s) ==
    /\ s \in integrations
    /\ Spend("deletions", MaxDeletions)
    /\ integrations' = integrations \ {s}
    /\ open' = Cascade(s)
    /\ down' = down \ {s}
    /\ rec' = Touch(rec)
    /\ fresh' = FALSE
    /\ UNCHANGED <<edges, request, snapshot, told, whole, unsure, blindInsert>>

WorkerRestarts ==
    /\ Spend("restarts", MaxRestarts)
    /\ snapshot' = NothingKnown
    /\ rec' = [t \in Slots |-> NoRec]
    /\ unsure' = unsure \cup {s \in Services : Pending(s) # {}}
    /\ fresh' = FALSE
    /\ UNCHANGED <<graphVars, request, down, told, whole, blindInsert>>

\* A worker that has just started, or has announced all it knows.
Init ==
    /\ edges \in {E \in SUBSET Edge : Cardinality(E) <= MaxEdges /\ Acyclic(E)}
    /\ integrations \in {I \in SUBSET Services : Cardinality(I) >= MinServices}
    /\ open \in {O \in SUBSET integrations : Cardinality(O) <= MaxOpen}
    /\ down = open
    /\ request = [a \in Admins |-> NoRequest]
    /\ rec = [t \in Slots |-> NoRec]
    /\ snapshot \in {NothingKnown} \cup Analyses
    /\ told = [s \in Services |-> At(snapshot, s)]
    /\ fresh = FALSE
    /\ whole = FALSE
    /\ unsure = {}
    /\ blindInsert = FALSE
    /\ spent = [what \in {"writes", "events", "deletions", "restarts", "failures"} |-> 0]

Next ==
    \/ \E a \in Admins :
         \/ \E u, d \in Services : CreateDependency(a, u, d)
         \/ \E e \in edges : DeleteDependency(a, e)
         \/ ListDependencies(a)
         \/ InsertDependency(a)
         \/ RemoveDependency(a)
    \/ \E t \in Slots :
         \/ \E table \in {"edges", "integrations", "open"} : Read(t, table)
         \/ Reconcile(t)
         \/ PublishEvent(t)
         \/ PublishFails(t)
    \/ \E s \in Services :
         \/ \E t \in Slots : StatusChanged(s, t)
         \/ IncidentFollows(s)
         \/ IntegrationDeleted(s)
    \/ WorkerRestarts

Spec == Init /\ [][Next]_vars
-----------------------------------------------------------------------------
TypeOK ==
    /\ edges \subseteq Edge
    /\ integrations \subseteq Services
    /\ open \subseteq integrations
    /\ \A a \in Admins :
         /\ request[a].pc \in {"idle", "list", "insert", "delete"}
         /\ request[a].pc # "idle" => request[a].edge \in Edge
    /\ \A t \in Slots :
         /\ rec[t].pc \in {"idle", "read", "publish"}
         /\ rec[t].edges \subseteq Edge
         /\ rec[t].events \subseteq Services \X Statuses
         /\ (rec[t].pc = "publish") = (rec[t].events # {})
    /\ DOMAIN snapshot \subseteq Services
    /\ told \in [Services -> Statuses]

(***************************************************************************)
(* docs/28, "DAG : cycles refuses": the graph stays acyclic as long as no  *)
(* dependency is inserted beside one that its request had not listed.  Two *)
(* requests at the same time can close a cycle, and so can one of a graph  *)
(* of more rows than are listed: nothing checks it again.                  *)
(***************************************************************************)
CycleNeedsBlindInsert == blindInsert \/ Acyclic(edges)

(***************************************************************************)
(* docs/28, "descendants transitifs impacted" and "traversal BFS borne",   *)
(* of the worker's snapshot if no table changed since its reads.  What is  *)
(* "impacted" is at the end of a chain of at most MaxDepth dependencies,   *)
(* which meets no service twice, from another service that is down.  The   *)
(* end of such a chain is "impacted", if every row was listed and no more  *)
(* than MaxNodes services lie so near to that source.  Services that have  *)
(* left the graph are "none", and an older reconciliation that ends last   *)
(* does not put its own view in place unnoticed.                           *)
(***************************************************************************)
IsChain(E, p, n) ==
    /\ \A i \in 0..(n - 1) : <<p[i], p[i + 1]>> \in E
    /\ \A i, j \in 0..n : p[i] = p[j] => i = j

HasPath(E, u, s) ==
    \E n \in 1..MaxDepth : \E p \in [0..n -> Services] :
        p[0] = u /\ p[n] = s /\ IsChain(E, p, n)

SnapshotIsRight ==
    LET ends == [u \in open |-> {s \in Services \ {u} : HasPath(edges, u, s)}]
        few == {u \in open : Cardinality(ends[u]) < MaxNodes} IN
    fresh => \A s \in Services :
        /\ At(snapshot, s) = "impacted" => \E u \in open : s \in ends[u]
        /\ whole /\ (\E u \in few : s \in ends[u]) => At(snapshot, s) = "impacted"

(***************************************************************************)
(* docs/28, "pas d'emission si impactStatus inchange": what the worker     *)
(* announced last of a service, and has still to announce, is what its     *)
(* snapshot says, unless an announcement was lost or two reconciliations   *)
(* announced the service at once.  A lost one is not made up for: the      *)
(* snapshot is replaced before the announcements.                          *)
(***************************************************************************)
ToldIsSnapshot ==
    snapshot # NothingKnown => \A s \in Services \ unsure :
        IF Pending(s) = {} THEN told[s] = At(snapshot, s)
        ELSE \A t \in Pending(s) : <<s, At(snapshot, s)>> \in rec[t].events
=============================================================================
