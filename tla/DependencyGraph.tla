-------------------------- MODULE DependencyGraph ---------------------------
(***************************************************************************)
(* The component registry (services/component_registry.py), in the         *)
(* database, and the dependency graph (services/dependency_graph.py,       *)
(* services/blast_radius.py, graph/repository.py), in a graph store of its *)
(* own: components and versions are registered, synchronised into the      *)
(* graph and connected, and the blast radius of a change is searched,      *)
(* while other requests do the same.                                       *)
(*                                                                         *)
(* A registration is a transaction: look for the row, insert it (waiting   *)
(* for another transaction that has inserted the same unique key), commit. *)
(* The graph commits every statement by itself, and each may fail.  The    *)
(* breadth-first search asks it for the dependents of one component at a   *)
(* time.                                                                   *)
(*                                                                         *)
(* Each client makes one request.  The identifier of a component is the    *)
(* position of its row; a version is known by its name.  The version       *)
(* number sequence comes from an identity column, which counts the inserts *)
(* that fail as well.                                                      *)
(***************************************************************************)
EXTENDS Integers, Sequences, FiniteSets

CONSTANTS
    Clients,
    Keys,              \* the components there may be: [project, type, slug]
    VersionNames,
    RelationshipTypes,
    Depths,            \* the max_depth of a search
    None,
    Starts             \* what is registered and synchronised, and who asks for what

ASSUME DepthsAssumption == Depths \subseteq Nat \ {0}

\* _ALLOWED_RELATIONSHIPS
AllowedRelationships ==
    {<<"agent", "USES_MODEL", "model">>, <<"agent", "USES_PROMPT", "prompt">>,
     <<"agent", "CALLS", "tool">>, <<"tool", "BELONGS_TO", "mcp_server">>,
     <<"tool", "USES_SCHEMA", "schema">>, <<"tool", "CALLS_API", "api">>,
     <<"workflow", "CONTAINS", "agent">>, <<"agent", "DEPENDS_ON", "agent">>,
     <<"policy", "APPLIES_TO", "agent">>, <<"model", "PROVIDED_BY", "provider">>}

\* There are a first version and a newer one; None is no answer.
ASSUME VersionNamesAssumption == \E v, w \in VersionNames : v # w

ASSUME NoneAssumption == None \notin {"ok", "DuplicateComponent", "DuplicateComponentVersion"}

\* What is registered respects the unique key of its table, and the edges are
\* such as create_dependency lets through.
ASSUME StartsAssumption ==
    \A s \in Starts :
        /\ s.components \in Seq(Keys)
        /\ \A i, j \in DOMAIN s.components : s.components[i] = s.components[j] => i = j
        /\ s.synced \subseteq DOMAIN s.components /\ s.newer \subseteq DOMAIN s.components
        /\ s.edges \subseteq s.synced \X RelationshipTypes \X s.synced
        /\ \A e \in s.edges :
              /\ s.components[e[1]].project = s.components[e[3]].project
              /\ <<s.components[e[1]].type, e[2], s.components[e[3]].type>>
                    \in AllowedRelationships
        /\ s.ops \in [Clients -> {"component", "version", "sync", "connect", "disconnect",
                                  "search", "nothing"}]

VARIABLES
    ops,           \* what each client asks for, never changed
    components,    \* components
    versions,      \* component_versions: [component, name, sequence]
    identity,      \* the identity column: the last number given out
    nodes,         \* the graph: the version each synchronised component shows
    edges,         \* the graph: <<source, relationship type, target>>
    call,          \* what each client's request is doing
    seen,          \* history: the edges there were at some moment of a client's search
    stable,        \* history: and the edges there were all the time
    overtaken      \* history: who reads a component that another one has written since

vars == <<ops, components, versions, identity, nodes, edges, call, seen, stable, overtaken>>

Database == <<components, versions, identity>>

Graph == <<nodes, edges>>

History == <<seen, stable, overtaken>>

-----------------------------------------------------------------------------
(* Requests *)

\* about names what the request is about; found is what it has read.
NoCall == [pc |-> "idle", about |-> None, found |-> None, answer |-> None]

Version(id, name, sequence) == [component |-> id, name |-> name, sequence |-> sequence]

\* Each component has a version; those of s.newer a second one, numbered later.
InitialVersions(s, id) ==
    LET first == CHOOSE v \in VersionNames : TRUE
        second == CHOOSE v \in VersionNames \ {first} : TRUE
    IN  <<Version(id, first, id)>> \o
        (IF id \in s.newer THEN <<Version(id, second, Len(s.components) + id)>> ELSE <<>>)

Init ==
    \E s \in Starts :
        /\ ops = s.ops
        /\ components = s.components
        /\ versions = UNION {{InitialVersions(s, id)[i] : i \in DOMAIN InitialVersions(s, id)} :
                             id \in DOMAIN s.components}
        /\ identity = 2 * Len(s.components)
        /\ nodes = [id \in s.synced |-> InitialVersions(s, id)[Len(InitialVersions(s, id))]]
        /\ edges = s.edges
        /\ call = [c \in Clients |-> NoCall]
        /\ seen = [c \in Clients |-> {}]
        /\ stable = [c \in Clients |-> {}]
        /\ overtaken = {}

At(c, op, pc) == ops[c] = op /\ call[c].pc = pc

\* The request of c ends: "ok", or the error it is refused with.
Answer(c, about, found, answer) ==
    call' = [call EXCEPT ![c] = [pc |-> "done", about |-> about, found |-> found,
                                 answer |-> answer]]

Continue(c, pc, about, found) ==
    call' = [call EXCEPT ![c] = [pc |-> pc, about |-> about, found |-> found, answer |-> None]]

\* Another transaction has inserted a row of the same unique key.
HeldByAnother(c) ==
    \E d \in Clients \ {c} :
        ops[d] = ops[c] /\ call[d].pc = "flushed" /\ call[d].about = call[c].about

\* The request dies before its commit: everything is rolled back.
Rollback(c) ==
    /\ ops[c] \in {"component", "version"}
    /\ call[c].pc \in {"missed", "flushed"}
    /\ Answer(c, call[c].about, None, "ServerError")
    /\ UNCHANGED <<ops, Database, Graph, History>>

-----------------------------------------------------------------------------
(* ComponentRegistryService.create_component *)

Registered(key) == \E id \in DOMAIN components : components[id] = key

LookupComponent(c) ==
    /\ At(c, "component", "idle")
    /\ \E key \in Keys :
          IF Registered(key)
          THEN Answer(c, key, None, "DuplicateComponent")
          ELSE Continue(c, "missed", key, None)
    /\ UNCHANGED <<ops, Database, Graph, History>>

\* Mutant of FlushComponent: it does not wait for the other transaction.
FlushComponentHasty(c) ==
    /\ At(c, "component", "missed")
    /\ IF Registered(call[c].about) \/ HeldByAnother(c)
       THEN Answer(c, call[c].about, None, "DuplicateComponent")
       ELSE Continue(c, "flushed", call[c].about, None)
    /\ UNCHANGED <<ops, Database, Graph, History>>

\* uq_components_project_type_slug
FlushComponent(c) ==
    /\ At(c, "component", "missed")
    /\ ~HeldByAnother(c)
    /\ IF Registered(call[c].about)
       THEN Answer(c, call[c].about, None, "DuplicateComponent")
       ELSE Continue(c, "flushed", call[c].about, None)
    /\ UNCHANGED <<ops, Database, Graph, History>>

CommitComponent(c) ==
    /\ At(c, "component", "flushed")
    /\ components' = Append(components, call[c].about)
    /\ Answer(c, call[c].about, None, "ok")
    /\ UNCHANGED <<ops, versions, identity, Graph, History>>

-----------------------------------------------------------------------------
(* create_component_version *)

VersionsOf(id) == {v \in versions : v.component = id}

HasVersion(id, name) == \E v \in VersionsOf(id) : v.name = name

\* get_by_version comes before validate_content; a content that does not fit
\* the component's type may come with any request.
LookupVersion(c) ==
    /\ At(c, "version", "idle")
    /\ \E id \in 1..(Len(components) + 1), name \in VersionNames :
          CASE id \notin DOMAIN components -> Answer(c, <<id, name>>, None, "ComponentNotFound")
            [] id \in DOMAIN components /\ HasVersion(id, name) ->
                  Answer(c, <<id, name>>, None, "DuplicateComponentVersion")
            [] OTHER ->
                  \/ Answer(c, <<id, name>>, None, "InvalidComponentContent")
                  \/ Continue(c, "missed", <<id, name>>, None)
    /\ UNCHANGED <<ops, Database, Graph, History>>

\* uq_component_versions_component_id_version; the number is given out first.
FlushVersion(c) ==
    /\ At(c, "version", "missed")
    /\ ~HeldByAnother(c)
    /\ identity' = identity + 1
    /\ LET about == call[c].about
       IN  IF HasVersion(about[1], about[2])
           THEN Answer(c, about, None, "DuplicateComponentVersion")
           ELSE Continue(c, "flushed", about,
                         Version(about[1], about[2], identity + 1))
    /\ UNCHANGED <<ops, components, versions, Graph, History>>

CommitVersion(c) ==
    /\ At(c, "version", "flushed")
    /\ versions' = versions \cup {call[c].found}
    /\ Answer(c, call[c].about, call[c].found, "ok")
    /\ UNCHANGED <<ops, components, identity, Graph, History>>

-----------------------------------------------------------------------------
(* DependencyGraphService *)

\* Mutant of LatestVersion: the order is the wrong way round.
LatestVersionAscending(id) ==
    CHOOSE v \in VersionsOf(id) : \A w \in VersionsOf(id) : v.sequence <= w.sequence

\* get_latest
LatestVersion(id) ==
    CHOOSE v \in VersionsOf(id) : \A w \in VersionsOf(id) : w.sequence <= v.sequence

\* sync_component reads the registry ...
SyncReads(c) ==
    /\ At(c, "sync", "idle")
    /\ \E id \in 1..(Len(components) + 1) :
          CASE id \notin DOMAIN components -> Answer(c, id, None, "ComponentNotFound")
            [] id \in DOMAIN components /\ VersionsOf(id) = {} ->
                  Answer(c, id, None, "ComponentVersionNotFound")
            [] OTHER -> Continue(c, "read", id, LatestVersion(id))
    /\ UNCHANGED <<ops, Database, Graph, History>>

\* How a statement that changed the graph ends: the acknowledgement may be lost.
Acknowledgements == {"ok", "GraphUnavailable"}

\* ... and then writes the node, whatever has happened since.
SyncWrites(c) ==
    /\ At(c, "sync", "read")
    /\ nodes' = [id \in DOMAIN nodes \cup {call[c].about} |->
                    IF id = call[c].about THEN call[c].found ELSE nodes[id]]
    /\ \E ack \in Acknowledgements : Answer(c, call[c].about, call[c].found, ack)
    /\ overtaken' = overtaken \cup {d \in Clients \ {c} : At(d, "sync", "read") /\
                                                         call[d].about = call[c].about}
    /\ UNCHANGED <<ops, Database, edges, seen, stable>>

Projects == {key.project : key \in Keys}

\* _require_graph_node
HasNode(project, id) == id \in DOMAIN nodes /\ components[id].project = project

Allowed(e) ==
    <<components[e[1]].type, e[2], components[e[3]].type>> \in AllowedRelationships

Searching(c) == call[c].pc = "searching"

\* The searches under way see the graph change.
GraphChanges(new) ==
    /\ edges' = new
    /\ seen' = [c \in Clients |-> IF Searching(c) THEN seen[c] \cup new ELSE seen[c]]
    /\ stable' = [c \in Clients |-> IF Searching(c) THEN stable[c] \cap new ELSE stable[c]]
    /\ UNCHANGED overtaken

\* What a request may name: source, relationship and target.
Dependencies == (DOMAIN components) \X RelationshipTypes \X (DOMAIN components)

\* create_dependency.  The nodes are read before the edge is merged; nothing
\* ever removes a node or changes its type.
Connect(c) ==
    /\ At(c, "connect", "idle")
    /\ \E project \in Projects, e \in Dependencies :
          \/ /\ ~HasNode(project, e[1]) \/ ~HasNode(project, e[3])
             /\ Answer(c, None, None, "GraphComponentNotFound")
             /\ UNCHANGED <<edges, History>>
          \/ /\ HasNode(project, e[1]) /\ HasNode(project, e[3]) /\ ~Allowed(e)
             /\ Answer(c, None, None, "InvalidDependencyRelationship")
             /\ UNCHANGED <<edges, History>>
          \/ /\ HasNode(project, e[1]) /\ HasNode(project, e[3]) /\ Allowed(e)
             /\ \E ack \in Acknowledgements : Answer(c, None, None, ack)
             /\ GraphChanges(edges \cup {e})
    /\ UNCHANGED <<ops, Database, nodes>>

\* delete_dependency: an edge that is not there is no error.
Disconnect(c) ==
    /\ At(c, "disconnect", "idle")
    /\ \E project \in Projects, e \in Dependencies :
          \/ /\ ~HasNode(project, e[1]) \/ ~HasNode(project, e[3])
             /\ Answer(c, None, None, "GraphComponentNotFound")
             /\ UNCHANGED <<edges, History>>
          \/ /\ HasNode(project, e[1]) /\ HasNode(project, e[3])
             /\ \E ack \in Acknowledgements : Answer(c, None, None, ack)
             /\ GraphChanges(edges \ {e})
    /\ UNCHANGED <<ops, Database, nodes>>

-----------------------------------------------------------------------------
(* BlastRadiusService.compute: found is the state of the search. *)

\* list_direct_dependents, in the project: an edge points from the dependent to
\* its dependency.
DirectDependents(id) ==
    {d \in DOMAIN nodes : /\ components[d].project = components[id].project
                          /\ \E e \in edges : e[1] = d /\ e[3] = id}

\* sorted by component_id
Ascending(ids) ==
    CHOOSE s \in [1..Cardinality(ids) -> ids] : \A i, j \in DOMAIN s : i < j => s[i] < s[j]

SearchStarts(c) ==
    /\ At(c, "search", "idle")
    /\ \E project \in Projects, id \in DOMAIN components, max \in Depths :
          IF HasNode(project, id)
          THEN Continue(c, "searching", <<id, max>>,
                        [queue |-> <<[id |-> id, depth |-> 0, path |-> <<id>>]>>,
                         visited |-> {id}, entries |-> <<>>])
          ELSE Answer(c, <<id, max>>, None, "GraphComponentNotFound")
    /\ seen' = [seen EXCEPT ![c] = edges]
    /\ stable' = [stable EXCEPT ![c] = edges]
    /\ UNCHANGED <<ops, Database, Graph, overtaken>>

\* Mutant of Expand: the queue is used as a stack.
ExpandDepthFirst(s, item) ==
    LET new == Ascending(DirectDependents(item.id) \ s.visited)
        entries == [i \in DOMAIN new |-> [id |-> new[i], depth |-> item.depth + 1,
                                          path |-> Append(item.path, new[i])]]
    IN  [queue |-> entries \o Tail(s.queue),
         visited |-> s.visited \cup DirectDependents(item.id),
         entries |-> s.entries \o entries]

\* The dependents of item that were not visited join the queue.
Expand(s, item) ==
    LET new == Ascending(DirectDependents(item.id) \ s.visited)
        entries == [i \in DOMAIN new |-> [id |-> new[i], depth |-> item.depth + 1,
                                          path |-> Append(item.path, new[i])]]
    IN  [queue |-> Tail(s.queue) \o entries,
         visited |-> s.visited \cup DirectDependents(item.id),
         entries |-> s.entries \o entries]

\* Mutant of Hop: an item at the depth limit stays in the queue.
HopWithoutPop(c) ==
    /\ At(c, "search", "searching")
    /\ call[c].found.queue # <<>>
    /\ Head(call[c].found.queue).depth < call[c].about[2]
    /\ Continue(c, "searching", call[c].about,
                Expand(call[c].found, Head(call[c].found.queue)))
    /\ UNCHANGED <<ops, Database, Graph, History>>

\* One turn of the loop: at the depth limit nothing is asked.
Hop(c) ==
    /\ At(c, "search", "searching")
    /\ call[c].found.queue # <<>>
    /\ LET item == Head(call[c].found.queue)
       IN  Continue(c, "searching", call[c].about,
                    IF item.depth >= call[c].about[2]
                    THEN [call[c].found EXCEPT !.queue = Tail(@)]
                    ELSE Expand(call[c].found, item))
    /\ UNCHANGED <<ops, Database, Graph, History>>

\* The loop is over.
SearchEnds(c) ==
    /\ At(c, "search", "searching")
    /\ call[c].found.queue = <<>>
    /\ Answer(c, call[c].about, call[c].found, "ok")
    /\ UNCHANGED <<ops, Database, Graph, History>>

\* A statement fails and has no effect: the request ends, and nothing of a
\* search is returned.
GraphUnavailable(c) ==
    /\ \/ call[c].pc \in {"read", "searching"}
       \/ call[c].pc = "idle" /\ ops[c] \in {"connect", "disconnect", "search"}
    /\ Answer(c, call[c].about, None, "GraphUnavailable")
    /\ UNCHANGED <<ops, Database, Graph, History>>

-----------------------------------------------------------------------------
Step(c) ==
    \/ LookupComponent(c) \/ FlushComponent(c) \/ CommitComponent(c)
    \/ LookupVersion(c) \/ FlushVersion(c) \/ CommitVersion(c)
    \/ SyncReads(c) \/ SyncWrites(c)
    \/ Connect(c) \/ Disconnect(c)
    \/ SearchStarts(c) \/ Hop(c) \/ SearchEnds(c)

Next == \E c \in Clients : Step(c) \/ Rollback(c) \/ GraphUnavailable(c)

Spec == Init /\ [][Next]_vars

\* The server goes on with every request it has accepted.
FairSpec == Spec /\ \A c \in Clients : WF_vars(call[c].pc # "idle" /\ Step(c))

-----------------------------------------------------------------------------
(* Properties *)

\* However registrations overlap there is one row of a key and one version of
\* a name, and whoever is told that the row is a duplicate can find it.
DuplicateMeansRegistered ==
    /\ \A i, j \in DOMAIN components : components[i] = components[j] => i = j
    /\ \A v, w \in versions : (v.component = w.component /\ v.name = w.name) => v = w
    /\ \A c \in Clients :
          /\ call[c].answer = "DuplicateComponent" => Registered(call[c].about)
          /\ call[c].answer = "DuplicateComponentVersion" =>
                HasVersion(call[c].about[1], call[c].about[2])

\* Every node shows a committed version of its component, and edges join
\* synchronised components of one project and of types that fit, although the
\* two ends are looked up before, and outside the transaction of, the write.
EdgesFit ==
    /\ \A v \in versions : v.component \in DOMAIN components
    /\ DOMAIN nodes \subseteq DOMAIN components
    /\ \A id \in DOMAIN nodes : nodes[id] \in VersionsOf(id)
    /\ \A e \in edges :
          /\ {e[1], e[3]} \subseteq DOMAIN nodes /\ Allowed(e)
          /\ components[e[1]].project = components[e[3]].project

\* The registry and the graph stay consistent, each in itself and with the
\* other.
RegistryAndGraphConsistent == DuplicateMeansRegistered /\ EdgesFit

\* The version a node shows becomes an older one only through a request that
\* read the registry before, and wrote after, another synchronisation of the
\* component: without such an overlap the graph follows the registry.
NodeNeverGoesBack ==
    [][\A id \in DOMAIN nodes :
          nodes'[id].sequence < nodes[id].sequence =>
              \E c \in overtaken : At(c, "sync", "read") /\ call[c].about = id]_vars

\* Number of hops of a path.
Hops(path) == Len(path) - 1

\* Whatever happens to the graph meanwhile, a search lists a component once,
\* within the depth limit, with a path of edges each of which was there at some
\* moment of the search.
PathsWereThere ==
    \A c \in Clients :
        (ops[c] = "search" /\ call[c].found # None) =>
            LET entries == call[c].found.entries
            IN  /\ \A i, j \in DOMAIN entries : entries[i].id = entries[j].id => i = j
                /\ \A i \in DOMAIN entries :
                      LET e == entries[i]
                      IN  /\ e.id # call[c].about[1]
                          /\ e.depth = Hops(e.path) /\ e.depth \in 1..call[c].about[2]
                          /\ e.path[1] = call[c].about[1] /\ e.path[Len(e.path)] = e.id
                          /\ \A k \in 1..Hops(e.path) :
                                \E x \in seen[c] : x[1] = e.path[k + 1] /\ x[3] = e.path[k]

\* The components within n hops of id along the given edges.
Within(id, given) ==
    LET reach[n \in Nat] ==
            IF n = 0 THEN {id}
            ELSE reach[n - 1] \cup {e[1] : e \in {x \in given : x[3] \in reach[n - 1]}}
    IN  reach

\* A component that depends on the root along edges that were there all the
\* time is found, and at no greater depth than theirs: on a graph at rest the
\* result is exact and its depths are shortest distances.
StableDependentsFound ==
    \A c \in Clients :
        (ops[c] = "search" /\ call[c].answer = "ok") =>
            \A n \in 1..call[c].about[2] :
                \A id \in Within(call[c].about[1], stable[c])[n] \ {call[c].about[1]} :
                    \E i \in DOMAIN call[c].found.entries :
                        call[c].found.entries[i].id = id /\ call[c].found.entries[i].depth <= n

\* A search that edges, cycles and the depth limit interfere with neither
\* reports what never was nor misses what was there all along.
SearchSound == PathsWereThere /\ StableDependentsFound

\* Every request the server has accepted is answered: a search comes to an end
\* on a graph with cycles, and while edges come and go.
EveryRequestAnswered == \A c \in Clients : (call[c].pc # "idle") ~> (call[c].pc = "done")

=============================================================================
