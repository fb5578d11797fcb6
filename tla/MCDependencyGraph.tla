------------------------- MODULE MCDependencyGraph --------------------------
(***************************************************************************)
(* Instances of DependencyGraph for TLC.                                   *)
(***************************************************************************)
EXTENDS DependencyGraph, TLC

CONSTANTS p, q, r

Key(project, type, slug) == [project |-> project, type |-> type, slug |-> slug]

\* The last one belongs to another project.
Agents ==
    <<Key("this", "agent", "a"), Key("this", "agent", "b"), Key("this", "agent", "c"),
      Key("this", "tool", "t"), Key("this", "agent", "d"), Key("this", "agent", "e"),
      Key("other", "agent", "a")>>

Registry(ids) == SelectSeq(Agents, LAMBDA key : \E i \in ids : Agents[i] = key)

MCKeys == {Agents[i] : i \in DOMAIN Agents}

Asking(a, b, c) == p :> a @@ q :> b @@ r :> c

DependsOn(i, j) == <<i, "DEPENDS_ON", j>>

Calls(i) == <<i, "CALLS", 4>>

Start(ids, synced, g, o) ==
    [components |-> Registry(ids), synced |-> synced, newer |-> {1}, edges |-> g, ops |-> o]

\* A chain, a diamond and cycles of agents, of which the first calls the tool.
AgentGraphs ==
    {{DependsOn(1, 2), DependsOn(2, 3)}, {DependsOn(2, 1), DependsOn(3, 1), DependsOn(3, 2)},
     {DependsOn(1, 2), DependsOn(2, 3), DependsOn(3, 1)},
     {DependsOn(1, 1), DependsOn(1, 2), DependsOn(2, 1), DependsOn(3, 2)}}

\* An agent is reached over a detour and over a shorter way, which comes later.
Detour ==
    {DependsOn(2, 1), DependsOn(3, 1), DependsOn(5, 2), DependsOn(6, 5), DependsOn(6, 3)}

Searches ==
    {Start(1..4, 1..4, g \cup {Calls(1)}, Asking("search", "connect", "disconnect")) :
        g \in AgentGraphs}
    \cup {Start(1..6, 1..6, Detour, Asking("search", "nothing", "disconnect")),
          Start({1, 2, 7}, 1..3, {}, Asking("search", "connect", "connect"))}

\* Two agents are registered, one is synchronised; the requests race.
Registrations ==
    {Start(1..2, {1}, {}, o) :
        o \in {Asking("component", "component", "version"), Asking("version", "version", "sync"),
               Asking("sync", "version", "sync"), Asking("component", "sync", "connect"),
               Asking("disconnect", "sync", "search")}}

MCStarts == Searches \cup Registrations

=============================================================================
