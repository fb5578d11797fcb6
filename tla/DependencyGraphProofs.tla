------------------------ MODULE DependencyGraphProofs ------------------------
(***************************************************************************)
(* Proofs about DependencyGraph: for any number of clients, components,    *)
(* versions and edges, whatever is registered at the start.                *)
(*                                                                         *)
(* GraphInv says what the requests under way may rely on in the registry   *)
(* and in the graph; SearchInv is the invariant of the breadth-first       *)
(* search, with the graph changing under it.                               *)
(***************************************************************************)
EXTENDS DependencyGraph, FiniteSetTheorems, WellFoundedInduction, TLAPS

-----------------------------------------------------------------------------
(* The inductive invariants *)

\* Functions are functions and numbers are numbers.
Tables ==
    /\ components \in Seq(Keys)
    /\ identity \in Nat
    /\ \A v \in versions : v.sequence \in 0..identity
    /\ call = [c \in Clients |-> call[c]]
    /\ seen = [c \in Clients |-> seen[c]]
    /\ stable = [c \in Clients |-> stable[c]]

\* A row that is inserted and not committed is the only one of its key.
FlushedOnce ==
    \A c, d \in Clients :
        (/\ ops[c] = ops[d] /\ call[c].about = call[d].about
         /\ call[c].pc = "flushed" /\ call[d].pc = "flushed") => c = d

\* What a request does, and what its answer says, is still so: here r is the
\* state of a request of client c.
AnswerHolds(r) ==
    /\ r.answer = "DuplicateComponent" => Registered(r.about)
    /\ r.answer = "DuplicateComponentVersion" => HasVersion(r.about[1], r.about[2])

\* What create_component has checked is true up to its commit.
ComponentUnderWay(c, r) ==
    ops[c] = "component" =>
        /\ r.pc \in {"missed", "flushed"} => r.about \in Keys
        /\ r.pc = "flushed" => ~Registered(r.about)

\* The same of create_component_version.
VersionUnderWay(c, r) ==
    ops[c] = "version" =>
        /\ r.pc \in {"missed", "flushed"} =>
              /\ r.about = <<r.about[1], r.about[2]>>
              /\ r.about[1] \in DOMAIN components
        /\ r.pc = "flushed" =>
              /\ ~HasVersion(r.about[1], r.about[2])
              /\ r.found = Version(r.about[1], r.about[2], r.found.sequence)
              /\ r.found.sequence \in 0..identity

\* A synchronisation has read a committed version, and one at least as new as
\* the node's unless another one has written the node since.
SyncUnderWay(c, r) ==
    (ops[c] = "sync" /\ r.pc = "read") =>
        /\ r.found \in VersionsOf(r.about)
        /\ (r.about \in DOMAIN nodes /\ c \notin overtaken) =>
              nodes[r.about].sequence <= r.found.sequence

Fits(c, r) ==
    AnswerHolds(r) /\ ComponentUnderWay(c, r) /\ VersionUnderWay(c, r) /\ SyncUnderWay(c, r)

RowsOnce ==
    \A i, j \in DOMAIN components : components[i] = components[j] => i = j

VersionsOnce ==
    \A v, w \in versions : (v.component = w.component /\ v.name = w.name) => v = w

GraphInv ==
    /\ Tables
    /\ RowsOnce
    /\ VersionsOnce
    /\ EdgesFit
    /\ FlushedOnce
    /\ \A c \in Clients : Fits(c, call[c])

Items == [id : Nat, depth : Nat, path : Seq(Nat)]

\* The invariant of a search for the dependents of root up to a depth of max,
\* in the state s; given are the edges there were at some moment of it, and
\* kept the ones there were all the time.

\* An item came along a path of that length, and of edges that were there.
PathIsReal(root, max, given, item) ==
    /\ item.depth <= max
    /\ Len(item.path) = item.depth + 1
    /\ item.path[1] = root /\ item.path[Len(item.path)] = item.id
    /\ \A k \in 1..item.depth :
          \E x \in given : x[1] = item.path[k + 1] /\ x[3] = item.path[k]

\* The entries are what was visited, once each, besides the root.
EntriesAreReal(root, max, s, given) ==
    /\ \A i \in DOMAIN s.queue : PathIsReal(root, max, given, s.queue[i])
    /\ \A i \in DOMAIN s.entries : /\ PathIsReal(root, max, given, s.entries[i])
                                   /\ s.entries[i].depth # 0
    /\ \A i, j \in DOMAIN s.entries : s.entries[i].id = s.entries[j].id => i = j
    /\ \A i \in DOMAIN s.entries : s.entries[i].id # root
    /\ s.visited = {s.entries[i].id : i \in DOMAIN s.entries} \cup {root}

\* The queue is in the order of depth, and all of it, and of the entries, is
\* at most one hop deeper than its head.
QueueInOrder(s) ==
    /\ \A i, j \in DOMAIN s.queue : i <= j => s.queue[i].depth <= s.queue[j].depth
    /\ \A i \in DOMAIN s.queue : s.queue[i].depth <= s.queue[1].depth + 1
    /\ s.queue # <<>> =>
          \A i \in DOMAIN s.entries : s.entries[i].depth <= s.queue[1].depth + 1

\* id was found at the given depth, or before.
FoundBy(root, s, id, depth) ==
    \/ id = root
    \/ \E i \in DOMAIN s.entries : s.entries[i].id = id /\ s.entries[i].depth <= depth

\* The dependents of id, found at depth, were asked for: those that were there
\* all the time were found one hop later at the latest.
Expanded(root, s, kept, id, depth) ==
    \A e \in kept : e[3] = id => FoundBy(root, s, e[1], depth + 1)

Queued(s, id, depth) ==
    \E i \in DOMAIN s.queue : s.queue[i].id = id /\ s.queue[i].depth = depth

\* Nothing that was found above the depth limit is forgotten.
NothingForgotten(root, max, s, kept) ==
    /\ 0 < max => Queued(s, root, 0) \/ Expanded(root, s, kept, root, 0)
    /\ \A i \in DOMAIN s.entries :
          LET e == s.entries[i]
          IN  e.depth < max => Queued(s, e.id, e.depth) \/ Expanded(root, s, kept, e.id, e.depth)

SearchTypes(root, max, s) ==
    /\ root \in Nat /\ max \in Nat
    /\ s = [queue |-> s.queue, visited |-> s.visited, entries |-> s.entries]
    /\ s.queue \in Seq(Items) /\ s.entries \in Seq(Items)

GoodSearch(root, max, s, given, kept) ==
    /\ SearchTypes(root, max, s)
    /\ EntriesAreReal(root, max, s, given)
    /\ QueueInOrder(s)
    /\ NothingForgotten(root, max, s, kept)

\* The state of a search is there until the search fails.
HasSearch(c) ==
    /\ ops[c] = "search"
    /\ Searching(c) \/ call[c].answer = "ok" \/ call[c].found # None

SearchOk(c) ==
    HasSearch(c) =>
        /\ GoodSearch(call[c].about[1], call[c].about[2], call[c].found, seen[c], stable[c])
        /\ Searching(c) => stable[c] \subseteq edges /\ edges \subseteq seen[c]
        /\ call[c].answer = "ok" => call[c].found.queue = <<>>

SearchInv == \A c \in Clients : SearchOk(c)

-----------------------------------------------------------------------------
(* The registry and the graph *)

\* A request moves, and no other one.
LEMMA OneMoves ==
    ASSUME Tables, NEW c \in Clients, NEW r, call' = [call EXCEPT ![c] = r]
    PROVE  /\ call'[c] = r
           /\ \A d \in Clients : d # c => call'[d] = call[d]
           /\ call' = [d \in Clients |-> call'[d]]
  BY DEF Tables

\* A request that finds no row of its key held by another may hold it.
LEMMA FlushedOnceKept ==
    ASSUME Tables, FlushedOnce, NEW c \in Clients, NEW r, call' = [call EXCEPT ![c] = r],
           ops' = ops,
           r.pc = "flushed" =>
               \A d \in Clients : (d # c /\ ops[d] = ops[c] /\ call[d].pc = "flushed") =>
                                      call[d].about # r.about
    PROVE  FlushedOnce'
<1>1. call'[c] = r /\ \A d \in Clients : d # c => call'[d] = call[d]
  BY OneMoves
<1> QED
  BY <1>1 DEF FlushedOnce

\* A request moves and neither database changes.
LEMMA Quiet ==
    ASSUME GraphInv, NEW c \in Clients, NEW r, call' = [call EXCEPT ![c] = r],
           UNCHANGED <<ops, Database, Graph, overtaken>>,
           seen' = [d \in Clients |-> seen'[d]], stable' = [d \in Clients |-> stable'[d]],
           Fits(c, r),
           r.pc = "flushed" =>
               \A d \in Clients : (d # c /\ ops[d] = ops[c] /\ call[d].pc = "flushed") =>
                                      call[d].about # r.about
    PROVE  GraphInv'
<1>1. /\ call'[c] = r /\ \A d \in Clients : d # c => call'[d] = call[d]
      /\ call' = [d \in Clients |-> call'[d]]
  BY OneMoves DEF GraphInv
<1>2. Tables'
  BY <1>1 DEF GraphInv, Tables, Database, Graph
<1>3. RowsOnce' /\ VersionsOnce' /\ EdgesFit'
  BY DEF GraphInv, RowsOnce, VersionsOnce, EdgesFit, Allowed, VersionsOf, Database, Graph
<1>4. FlushedOnce'
  BY FlushedOnceKept DEF GraphInv
<1>5. ASSUME NEW d \in Clients, NEW x, Fits(d, x) PROVE Fits(d, x)'
  BY <1>5 DEF Fits, AnswerHolds, ComponentUnderWay, VersionUnderWay, SyncUnderWay, Registered,
              HasVersion, VersionsOf, Database, Graph
<1>6. \A d \in Clients : Fits(d, call[d])'
  <2> SUFFICES ASSUME NEW d \in Clients PROVE Fits(d, call[d])'
    OBVIOUS
  <2>1. PICK x : x = call'[d]
    OBVIOUS
  <2>2. Fits(d, x)
    BY <1>1, <2>1 DEF GraphInv
  <2>3. Fits(d, x)'
    BY <1>5, <2>2
  <2> QED
    BY <2>1, <2>3 DEF Fits, AnswerHolds, ComponentUnderWay, VersionUnderWay, SyncUnderWay,
                      Registered, HasVersion, VersionsOf
<1> QED
  BY <1>2, <1>3, <1>4, <1>6 DEF GraphInv

\* An answer with which nothing is claimed.
LEMMA Ends ==
    ASSUME GraphInv, NEW c \in Clients, NEW about, NEW found, NEW answer,
           Answer(c, about, found, answer),
           UNCHANGED <<ops, Database, Graph, overtaken>>,
           seen' = [d \in Clients |-> seen'[d]], stable' = [d \in Clients |-> stable'[d]],
           answer = "DuplicateComponent" => Registered(about),
           answer = "DuplicateComponentVersion" => HasVersion(about[1], about[2])
    PROVE  GraphInv'
<1>1. PICK r : r = [pc |-> "done", about |-> about, found |-> found, answer |-> answer]
  OBVIOUS
<1>2. call' = [call EXCEPT ![c] = r]
  BY <1>1 DEF Answer
<1>3. Fits(c, r) /\ r.pc # "flushed"
  BY <1>1 DEF Fits, AnswerHolds, ComponentUnderWay, VersionUnderWay, SyncUnderWay
<1> QED
  BY <1>2, <1>3, Quiet

\* The histories are functions as long as they are left alone.
LEMMA HistoryKept ==
    ASSUME Tables, UNCHANGED History
    PROVE  /\ overtaken' = overtaken
           /\ seen' = [d \in Clients |-> seen'[d]] /\ stable' = [d \in Clients |-> stable'[d]]
  BY DEF Tables, History

LEMMA LookupComponentKeeps ==
    ASSUME GraphInv, NEW c \in Clients, LookupComponent(c) PROVE GraphInv'
<1>1. /\ UNCHANGED <<ops, Database, Graph, overtaken>>
      /\ seen' = [d \in Clients |-> seen'[d]] /\ stable' = [d \in Clients |-> stable'[d]]
  BY HistoryKept DEF LookupComponent, GraphInv
<1>2. PICK key \in Keys :
          IF Registered(key)
          THEN Answer(c, key, None, "DuplicateComponent")
          ELSE Continue(c, "missed", key, None)
  BY DEF LookupComponent
<1>3. CASE Registered(key)
  BY <1>1, <1>2, <1>3, Ends
<1>4. CASE ~Registered(key)
  <2>1. PICK r : r = [pc |-> "missed", about |-> key, found |-> None, answer |-> None]
    OBVIOUS
  <2>2. call' = [call EXCEPT ![c] = r]
    BY <1>2, <1>4, <2>1 DEF Continue
  <2>3. Fits(c, r) /\ r.pc # "flushed"
    BY <2>1, NoneAssumption
       DEF Fits, AnswerHolds, ComponentUnderWay, VersionUnderWay, SyncUnderWay, LookupComponent, At
  <2> QED
    BY <1>1, <2>2, <2>3, Quiet
<1> QED
  BY <1>3, <1>4

LEMMA FlushComponentKeeps ==
    ASSUME GraphInv, NEW c \in Clients, FlushComponent(c) PROVE GraphInv'
<1>1. /\ UNCHANGED <<ops, Database, Graph, overtaken>>
      /\ seen' = [d \in Clients |-> seen'[d]] /\ stable' = [d \in Clients |-> stable'[d]]
  BY HistoryKept DEF FlushComponent, GraphInv
<1>2. PICK key : key = call[c].about
  OBVIOUS
<1>3. key \in Keys /\ ops[c] = "component"
  BY <1>2 DEF FlushComponent, GraphInv, Fits, ComponentUnderWay, At
<1>4. CASE Registered(key)
  <2>1. Answer(c, key, None, "DuplicateComponent")
    BY <1>2, <1>4 DEF FlushComponent, Registered
  <2> QED
    BY <1>1, <1>4, <2>1, Ends
<1>5. CASE ~Registered(key)
  <2>1. PICK r : r = [pc |-> "flushed", about |-> key, found |-> None, answer |-> None]
    OBVIOUS
  <2>2. call' = [call EXCEPT ![c] = r]
    BY <1>2, <1>5, <2>1 DEF Continue, FlushComponent, Registered
  <2>3. Fits(c, r)
    BY <1>3, <1>5, <2>1, NoneAssumption
       DEF Fits, AnswerHolds, ComponentUnderWay, VersionUnderWay, SyncUnderWay
  <2>4. \A d \in Clients : (d # c /\ ops[d] = ops[c] /\ call[d].pc = "flushed") =>
                               call[d].about # r.about
    BY <1>2, <2>1 DEF FlushComponent, HeldByAnother
  <2> QED
    BY <1>1, <2>2, <2>3, <2>4, Quiet
<1> QED
  BY <1>4, <1>5

LEMMA LookupVersionKeeps ==
    ASSUME GraphInv, NEW c \in Clients, LookupVersion(c) PROVE GraphInv'
<1>1. /\ UNCHANGED <<ops, Database, Graph, overtaken>>
      /\ seen' = [d \in Clients |-> seen'[d]] /\ stable' = [d \in Clients |-> stable'[d]]
  BY HistoryKept DEF LookupVersion, GraphInv
<1>2. PICK id \in 1..(Len(components) + 1), name \in VersionNames :
          CASE id \notin DOMAIN components -> Answer(c, <<id, name>>, None, "ComponentNotFound")
            [] id \in DOMAIN components /\ HasVersion(id, name) ->
                  Answer(c, <<id, name>>, None, "DuplicateComponentVersion")
            [] OTHER ->
                  \/ Answer(c, <<id, name>>, None, "InvalidComponentContent")
                  \/ Continue(c, "missed", <<id, name>>, None)
  BY DEF LookupVersion
<1>3. PICK about : about = <<id, name>>
  OBVIOUS
<1>4. CASE Answer(c, about, None, "ComponentNotFound")
  BY <1>1, <1>4, Ends
<1>5. CASE HasVersion(id, name) /\ Answer(c, about, None, "DuplicateComponentVersion")
  <2>1. HasVersion(about[1], about[2])
    BY <1>3, <1>5
  <2> QED
    BY <1>1, <1>5, <2>1, Ends
<1>6. CASE Answer(c, about, None, "InvalidComponentContent")
  BY <1>1, <1>6, Ends
<1>7. CASE id \in DOMAIN components /\ Continue(c, "missed", about, None)
  <2>1. PICK r : r = [pc |-> "missed", about |-> about, found |-> None, answer |-> None]
    OBVIOUS
  <2>2. call' = [call EXCEPT ![c] = r]
    BY <1>7, <2>1 DEF Continue
  <2>3. Fits(c, r) /\ r.pc # "flushed"
    BY <1>3, <1>7, <2>1, NoneAssumption
       DEF Fits, AnswerHolds, ComponentUnderWay, VersionUnderWay, SyncUnderWay, LookupVersion, At
  <2> QED
    BY <1>1, <2>2, <2>3, Quiet
<1> QED
  BY <1>2, <1>3, <1>4, <1>5, <1>6, <1>7

LEMMA RollbackKeeps ==
    ASSUME GraphInv, NEW c \in Clients, Rollback(c) PROVE GraphInv'
<1>1. /\ UNCHANGED <<ops, Database, Graph, overtaken>>
      /\ seen' = [d \in Clients |-> seen'[d]] /\ stable' = [d \in Clients |-> stable'[d]]
  BY HistoryKept DEF Rollback, GraphInv
<1>2. PICK about : about = call[c].about
  OBVIOUS
<1>3. Answer(c, about, None, "ServerError")
  BY <1>2 DEF Rollback, Answer
<1> QED
  BY <1>1, <1>3, Ends

LEMMA GraphUnavailableKeeps ==
    ASSUME GraphInv, NEW c \in Clients, GraphUnavailable(c) PROVE GraphInv'
<1>1. /\ UNCHANGED <<ops, Database, Graph, overtaken>>
      /\ seen' = [d \in Clients |-> seen'[d]] /\ stable' = [d \in Clients |-> stable'[d]]
  BY HistoryKept DEF GraphUnavailable, GraphInv
<1>2. PICK about : about = call[c].about
  OBVIOUS
<1>3. Answer(c, about, None, "GraphUnavailable")
  BY <1>2 DEF GraphUnavailable, Answer
<1> QED
  BY <1>1, <1>3, Ends

LEMMA SearchEndsKeeps ==
    ASSUME GraphInv, NEW c \in Clients, SearchEnds(c) PROVE GraphInv'
<1>1. /\ UNCHANGED <<ops, Database, Graph, overtaken>>
      /\ seen' = [d \in Clients |-> seen'[d]] /\ stable' = [d \in Clients |-> stable'[d]]
  BY HistoryKept DEF SearchEnds, GraphInv
<1>2. PICK about, found : about = call[c].about /\ found = call[c].found
  OBVIOUS
<1>3. Answer(c, about, found, "ok")
  BY <1>2 DEF SearchEnds, Answer
<1> QED
  BY <1>1, <1>3, Ends

\* A search that goes on makes no claim on the databases.
LEMMA SearchGoesOn ==
    ASSUME GraphInv, NEW c \in Clients, NEW about, NEW found, ops[c] = "search",
           Continue(c, "searching", about, found),
           UNCHANGED <<ops, Database, Graph, overtaken>>,
           seen' = [d \in Clients |-> seen'[d]], stable' = [d \in Clients |-> stable'[d]]
    PROVE  GraphInv'
<1>1. PICK r : r = [pc |-> "searching", about |-> about, found |-> found, answer |-> None]
  OBVIOUS
<1>2. call' = [call EXCEPT ![c] = r]
  BY <1>1 DEF Continue
<1>3. Fits(c, r) /\ r.pc # "flushed"
  BY <1>1, NoneAssumption DEF Fits, AnswerHolds, ComponentUnderWay, VersionUnderWay, SyncUnderWay
<1> QED
  BY <1>2, <1>3, Quiet

LEMMA HopKeeps ==
    ASSUME GraphInv, NEW c \in Clients, Hop(c) PROVE GraphInv'
<1>1. /\ UNCHANGED <<ops, Database, Graph, overtaken>>
      /\ seen' = [d \in Clients |-> seen'[d]] /\ stable' = [d \in Clients |-> stable'[d]]
  BY HistoryKept DEF Hop, GraphInv
<1>2. PICK about, found :
          /\ about = call[c].about
          /\ found = LET item == Head(call[c].found.queue)
                     IN  IF item.depth >= call[c].about[2]
                         THEN [call[c].found EXCEPT !.queue = Tail(@)]
                         ELSE Expand(call[c].found, item)
  OBVIOUS
<1>3. Continue(c, "searching", about, found) /\ ops[c] = "search"
  BY <1>2 DEF Hop, Continue, At
<1> QED
  BY <1>1, <1>3, SearchGoesOn

LEMMA SearchStartsKeeps ==
    ASSUME GraphInv, NEW c \in Clients, SearchStarts(c) PROVE GraphInv'
<1>1. /\ UNCHANGED <<ops, Database, Graph, overtaken>>
      /\ seen' = [d \in Clients |-> seen'[d]] /\ stable' = [d \in Clients |-> stable'[d]]
      /\ ops[c] = "search"
  BY DEF SearchStarts, GraphInv, Tables, At
<1>2. PICK project \in Projects, id \in DOMAIN components, max \in Depths :
          IF HasNode(project, id)
          THEN Continue(c, "searching", <<id, max>>,
                        [queue |-> <<[id |-> id, depth |-> 0, path |-> <<id>>]>>,
                         visited |-> {id}, entries |-> <<>>])
          ELSE Answer(c, <<id, max>>, None, "GraphComponentNotFound")
  BY DEF SearchStarts
<1>3. CASE HasNode(project, id)
  BY <1>1, <1>2, <1>3, SearchGoesOn
<1>4. CASE ~HasNode(project, id)
  BY <1>1, <1>2, <1>4, Ends
<1> QED
  BY <1>3, <1>4

\* A set of numbers that is not empty has a least one.
LEMMA Least ==
    ASSUME NEW T, T \subseteq Nat, T # {}
    PROVE  \E n \in T : \A m \in T : n <= m
<1> DEFINE R == OpToRel(<, Nat)
<1>1. IsWellFoundedOn(R, Nat)
  BY NatLessThanWellFounded
<1>2. \A x, y \in Nat : x < y => <<x, y>> \in R
  BY DEF OpToRel
<1> HIDE DEF R
<1>3. PICK n \in T : \A m \in T : ~(<<m, n>> \in R)
  BY <1>1, WFMin
<1>4. ASSUME NEW m \in T PROVE n <= m
  <2>1. m \in Nat /\ n \in Nat
    OBVIOUS
  <2>2. ~(m < n)
    BY <1>2, <1>3, <2>1
  <2> QED
    BY <2>1, <2>2
<1> QED
  BY <1>4

\* get_latest: a component with a version has a latest one, since the identity
\* column bounds their numbers.
LEMMA LatestExists ==
    ASSUME Tables, NEW id, VersionsOf(id) # {}
    PROVE  /\ LatestVersion(id) \in VersionsOf(id)
           /\ \A w \in VersionsOf(id) : w.sequence <= LatestVersion(id).sequence
<1> DEFINE T == {identity - v.sequence : v \in VersionsOf(id)}
<1>1. \A v \in VersionsOf(id) : v.sequence \in 0..identity
  BY DEF VersionsOf, Tables
<1>2. identity \in Nat
  BY DEF Tables
<1>3. T \subseteq Nat /\ T # {}
  BY <1>1, <1>2
<1>4. PICK n \in T : \A m \in T : n <= m
  BY <1>3, Least
<1>5. PICK v \in VersionsOf(id) : n = identity - v.sequence
  OBVIOUS
<1>6. \A w \in VersionsOf(id) : w.sequence <= v.sequence
  BY <1>1, <1>2, <1>4, <1>5
<1> QED
  BY <1>6 DEF LatestVersion

LEMMA SyncReadsKeeps ==
    ASSUME GraphInv, NEW c \in Clients, SyncReads(c) PROVE GraphInv'
<1>1. /\ UNCHANGED <<ops, Database, Graph, overtaken>>
      /\ seen' = [d \in Clients |-> seen'[d]] /\ stable' = [d \in Clients |-> stable'[d]]
  BY HistoryKept DEF SyncReads, GraphInv
<1>2. PICK id \in 1..(Len(components) + 1) :
          CASE id \notin DOMAIN components -> Answer(c, id, None, "ComponentNotFound")
            [] id \in DOMAIN components /\ VersionsOf(id) = {} ->
                  Answer(c, id, None, "ComponentVersionNotFound")
            [] OTHER -> Continue(c, "read", id, LatestVersion(id))
  BY DEF SyncReads
<1>3. CASE Answer(c, id, None, "ComponentNotFound")
  BY <1>1, <1>3, Ends
<1>4. CASE Answer(c, id, None, "ComponentVersionNotFound")
  BY <1>1, <1>4, Ends
<1>5. CASE /\ id \in DOMAIN components /\ VersionsOf(id) # {}
           /\ Continue(c, "read", id, LatestVersion(id))
  <2>1. PICK latest : latest = LatestVersion(id)
    OBVIOUS
  <2>2. PICK r : r = [pc |-> "read", about |-> id, found |-> latest, answer |-> None]
    OBVIOUS
  <2>3. call' = [call EXCEPT ![c] = r]
    BY <1>5, <2>1, <2>2 DEF Continue
  <2>4. latest \in VersionsOf(id) /\ \A w \in VersionsOf(id) : w.sequence <= latest.sequence
    BY <1>5, <2>1, LatestExists DEF GraphInv
  <2>5. id \in DOMAIN nodes => nodes[id] \in VersionsOf(id)
    BY DEF GraphInv, EdgesFit
  <2>6. Fits(c, r) /\ r.pc # "flushed"
    BY <2>2, <2>4, <2>5, NoneAssumption
       DEF Fits, AnswerHolds, ComponentUnderWay, VersionUnderWay, SyncUnderWay, SyncReads, At
  <2> QED
    BY <1>1, <2>3, <2>6, Quiet
<1> QED
  BY <1>2, <1>3, <1>4, <1>5

\* What a request relies on outlives what others add to the registry, except
\* for a row of its own key.
LEMMA StillFits ==
    ASSUME NEW d \in Clients, NEW r, Fits(d, r), Tables, ops' = ops,
           DOMAIN components \subseteq DOMAIN components',
           \A id \in DOMAIN components : components'[id] = components[id],
           versions \subseteq versions', identity' \in Nat, identity <= identity',
           (ops[d] = "component" /\ r.pc = "flushed") => ~Registered(r.about)',
           (ops[d] = "version" /\ r.pc = "flushed") => ~HasVersion(r.about[1], r.about[2])',
           (/\ ops[d] = "sync" /\ r.pc = "read"
            /\ r.about \in DOMAIN nodes' /\ d \notin overtaken') =>
               nodes'[r.about].sequence <= r.found.sequence
    PROVE  Fits(d, r)'
<1>1. AnswerHolds(r)'
  BY DEF Fits, AnswerHolds, Registered, HasVersion, VersionsOf
<1>2. ComponentUnderWay(d, r)'
  BY DEF Fits, ComponentUnderWay
<1>3. VersionUnderWay(d, r)'
  <2>1. \A n \in 0..identity : n \in 0..identity'
    BY DEF Tables
  <2> QED
    BY <2>1 DEF Fits, VersionUnderWay, Version
<1>4. SyncUnderWay(d, r)'
  BY DEF Fits, SyncUnderWay, VersionsOf
<1> QED
  BY <1>1, <1>2, <1>3, <1>4 DEF Fits

\* All requests fit, if each one does.
LEMMA AllFit ==
    ASSUME NEW d \in Clients, NEW r, r = call'[d], Fits(d, r)' PROVE Fits(d, call[d])'
  BY DEF Fits, AnswerHolds, ComponentUnderWay, VersionUnderWay, SyncUnderWay, Registered,
         HasVersion, VersionsOf

\* A component is added: the rows there were keep their place.
LEMMA RowAdded ==
    ASSUME Tables, RowsOnce, EdgesFit, NEW key \in Keys, ~Registered(key),
           components' = Append(components, key), UNCHANGED <<versions, Graph>>
    PROVE  /\ components' \in Seq(Keys)
           /\ DOMAIN components \subseteq DOMAIN components'
           /\ \A id \in DOMAIN components : components'[id] = components[id]
           /\ \A k : Registered(k)' => Registered(k) \/ k = key
           /\ RowsOnce' /\ EdgesFit'
<1>1. components \in Seq(Keys) /\ Len(components) \in Nat /\ DOMAIN components = 1..Len(components)
  BY DEF Tables
<1>2. /\ components' \in Seq(Keys)
      /\ DOMAIN components' = 1..(Len(components) + 1)
      /\ \A id \in DOMAIN components : components'[id] = components[id]
      /\ components'[Len(components) + 1] = key
  BY <1>1
<1>3. \A id \in DOMAIN components' : id \in DOMAIN components \/ id = Len(components) + 1
  BY <1>1, <1>2
<1>4. DOMAIN components \subseteq DOMAIN components'
  BY <1>1, <1>2
<1>5. \A k : Registered(k)' => Registered(k) \/ k = key
  BY <1>2, <1>3 DEF Registered
<1>6. RowsOnce'
  BY <1>2, <1>3 DEF RowsOnce, Registered
<1>7. EdgesFit'
  <2>1. UNCHANGED <<versions, nodes, edges>>
    BY DEF Graph
  <2>2. \A e \in edges : {e[1], e[3]} \subseteq DOMAIN components
    BY DEF EdgesFit
  <2> QED
    BY <1>2, <1>4, <2>1, <2>2 DEF EdgesFit, Allowed, VersionsOf
<1> QED
  BY <1>2, <1>4, <1>5, <1>6, <1>7

LEMMA CommitComponentKeeps ==
    ASSUME GraphInv, NEW c \in Clients, CommitComponent(c) PROVE GraphInv'
<1>1. PICK key : key = call[c].about
  OBVIOUS
<1>2. PICK r : r = [pc |-> "done", about |-> key, found |-> None, answer |-> "ok"]
  OBVIOUS
<1>3. /\ components' = Append(components, key)
      /\ call' = [call EXCEPT ![c] = r]
      /\ UNCHANGED <<ops, versions, identity, Graph, History>>
      /\ ops[c] = "component" /\ call[c].pc = "flushed"
  BY <1>1, <1>2 DEF CommitComponent, Answer, At
<1>4. key \in Keys /\ ~Registered(key)
  BY <1>1, <1>3 DEF GraphInv, Fits, ComponentUnderWay
<1>5. /\ components' \in Seq(Keys)
      /\ DOMAIN components \subseteq DOMAIN components'
      /\ \A id \in DOMAIN components : components'[id] = components[id]
      /\ \A k : Registered(k)' => Registered(k) \/ k = key
      /\ RowsOnce' /\ EdgesFit'
  BY <1>3, <1>4, RowAdded DEF GraphInv
<1>6. /\ call'[c] = r /\ \A d \in Clients : d # c => call'[d] = call[d]
      /\ call' = [d \in Clients |-> call'[d]]
  BY <1>3, OneMoves DEF GraphInv
<1>7. Tables'
  BY <1>3, <1>5, <1>6 DEF GraphInv, Tables, History
<1>8. VersionsOnce'
  BY <1>3 DEF GraphInv, VersionsOnce
<1>9. FlushedOnce'
  BY <1>2, <1>3, FlushedOnceKept DEF GraphInv
<1>10. ASSUME NEW d \in Clients PROVE Fits(d, call[d])'
  <2>1. PICK x : x = call'[d]
    OBVIOUS
  <2>2. CASE d = c
    <3>1. x = r
      BY <1>6, <2>1, <2>2
    <3>2. Fits(d, x)'
      BY <1>2, <3>1 DEF Fits, AnswerHolds, ComponentUnderWay, VersionUnderWay, SyncUnderWay
    <3> QED
      BY <2>1, <3>2, AllFit
  <2>3. CASE d # c
    <3>1. x = call[d] /\ Fits(d, x)
      BY <1>6, <2>1, <2>3 DEF GraphInv
    <3>2. (ops[d] = "component" /\ x.pc = "flushed") => ~Registered(x.about)'
      <4>1. (ops[d] = "component" /\ x.pc = "flushed") => x.about # key
        BY <1>1, <1>3, <2>3, <3>1 DEF GraphInv, FlushedOnce
      <4>2. (ops[d] = "component" /\ x.pc = "flushed") => ~Registered(x.about)
        BY <3>1 DEF Fits, ComponentUnderWay
      <4> QED
        BY <1>5, <4>1, <4>2
    <3>3. (ops[d] = "version" /\ x.pc = "flushed") => ~HasVersion(x.about[1], x.about[2])'
      BY <1>3, <3>1 DEF Fits, VersionUnderWay, HasVersion, VersionsOf
    <3>4. (/\ ops[d] = "sync" /\ x.pc = "read"
           /\ x.about \in DOMAIN nodes' /\ d \notin overtaken') =>
              nodes'[x.about].sequence <= x.found.sequence
      BY <1>3, <3>1 DEF Fits, SyncUnderWay, Graph, History
    <3>5. Fits(d, x)'
      <4>1. Tables /\ versions \subseteq versions' /\ identity' \in Nat /\ identity <= identity'
        BY <1>3 DEF GraphInv, Tables
      <4> QED
        BY <1>3, <1>5, <3>1, <3>2, <3>3, <3>4, <4>1, StillFits
    <3> QED
      BY <2>1, <3>5, AllFit
  <2> QED
    BY <2>2, <2>3
<1> QED
  BY <1>5, <1>7, <1>8, <1>9, <1>10 DEF GraphInv

LEMMA FlushVersionKeeps ==
    ASSUME GraphInv, NEW c \in Clients, FlushVersion(c) PROVE GraphInv'
<1>1. PICK about : about = call[c].about
  OBVIOUS
<1>2. /\ identity' = identity + 1 /\ identity \in Nat
      /\ UNCHANGED <<ops, components, versions, Graph, History>>
      /\ ops[c] = "version" /\ call[c].pc = "missed"
      /\ about = <<about[1], about[2]>> /\ about[1] \in DOMAIN components
  BY <1>1 DEF FlushVersion, At, GraphInv, Tables, Fits, VersionUnderWay
<1>3. PICK r :
          /\ call' = [call EXCEPT ![c] = r]
          /\ \/ /\ HasVersion(about[1], about[2])
                /\ r = [pc |-> "done", about |-> about, found |-> None,
                        answer |-> "DuplicateComponentVersion"]
             \/ /\ ~HasVersion(about[1], about[2])
                /\ r = [pc |-> "flushed", about |-> about,
                        found |-> Version(about[1], about[2], identity + 1), answer |-> None]
  <2>1. CASE HasVersion(about[1], about[2])
    BY <1>1, <2>1 DEF FlushVersion, Answer
  <2>2. CASE ~HasVersion(about[1], about[2])
    BY <1>1, <2>2 DEF FlushVersion, Continue
  <2> QED
    BY <2>1, <2>2
<1>4. /\ call'[c] = r /\ \A d \in Clients : d # c => call'[d] = call[d]
      /\ call' = [d \in Clients |-> call'[d]]
  BY <1>3, OneMoves DEF GraphInv
<1>5. \A n \in 0..identity : n \in 0..identity'
  BY <1>2
<1>6. Tables'
  BY <1>2, <1>4, <1>5 DEF GraphInv, Tables, History
<1>7. RowsOnce' /\ VersionsOnce' /\ EdgesFit'
  BY <1>2 DEF GraphInv, RowsOnce, VersionsOnce, EdgesFit, Allowed, VersionsOf, Graph
<1>8. FlushedOnce'
  <2>1. r.pc = "flushed" =>
            \A d \in Clients : (d # c /\ ops[d] = ops[c] /\ call[d].pc = "flushed") =>
                                   call[d].about # r.about
    BY <1>1, <1>3 DEF FlushVersion, HeldByAnother
  <2> QED
    BY <1>2, <1>3, <2>1, FlushedOnceKept DEF GraphInv
<1>9. ASSUME NEW d \in Clients PROVE Fits(d, call[d])'
  <2>1. PICK x : x = call'[d]
    OBVIOUS
  <2>2. CASE d = c
    <3>1. x = r
      BY <1>4, <2>1, <2>2
    <3>2. HasVersion(about[1], about[2])' <=> HasVersion(about[1], about[2])
      BY <1>2 DEF HasVersion, VersionsOf
    <3>3. VersionUnderWay(d, x)'
      BY <1>2, <1>3, <2>2, <3>1, <3>2 DEF VersionUnderWay, Version
    <3>4. AnswerHolds(x)' /\ ComponentUnderWay(d, x)' /\ SyncUnderWay(d, x)'
      BY <1>2, <1>3, <2>2, <3>1, <3>2, NoneAssumption
         DEF AnswerHolds, ComponentUnderWay, SyncUnderWay
    <3> QED
      BY <2>1, <3>3, <3>4, AllFit DEF Fits
  <2>3. CASE d # c
    <3>1. x = call[d] /\ Fits(d, x)
      BY <1>4, <2>1, <2>3 DEF GraphInv
    <3>2. Fits(d, x)'
      <4>1. /\ (ops[d] = "component" /\ x.pc = "flushed") => ~Registered(x.about)'
            /\ (ops[d] = "version" /\ x.pc = "flushed") =>
                   ~HasVersion(x.about[1], x.about[2])'
            /\ (/\ ops[d] = "sync" /\ x.pc = "read"
                /\ x.about \in DOMAIN nodes' /\ d \notin overtaken') =>
                   nodes'[x.about].sequence <= x.found.sequence
        BY <1>2, <3>1 DEF Fits, ComponentUnderWay, VersionUnderWay, SyncUnderWay, Registered,
                          HasVersion, VersionsOf, Graph, History
      <4>2. Tables /\ identity' \in Nat /\ identity <= identity'
        BY <1>2 DEF GraphInv
      <4> QED
        BY <1>2, <3>1, <4>1, <4>2, StillFits
    <3> QED
      BY <2>1, <3>2, AllFit
  <2> QED
    BY <2>2, <2>3
<1> QED
  BY <1>6, <1>7, <1>8, <1>9 DEF GraphInv

LEMMA CommitVersionKeeps ==
    ASSUME GraphInv, NEW c \in Clients, CommitVersion(c) PROVE GraphInv'
<1>1. PICK about, new : about = call[c].about /\ new = call[c].found
  OBVIOUS
<1>2. PICK r : r = [pc |-> "done", about |-> about, found |-> new, answer |-> "ok"]
  OBVIOUS
<1>3. /\ versions' = versions \cup {new}
      /\ call' = [call EXCEPT ![c] = r]
      /\ UNCHANGED <<ops, components, identity, Graph, History>>
      /\ ops[c] = "version" /\ call[c].pc = "flushed"
  BY <1>1, <1>2 DEF CommitVersion, Answer, At
<1>4. /\ about = <<about[1], about[2]>> /\ about[1] \in DOMAIN components
      /\ ~HasVersion(about[1], about[2])
      /\ new = Version(about[1], about[2], new.sequence) /\ new.sequence \in 0..identity
  BY <1>1, <1>3 DEF GraphInv, Fits, VersionUnderWay
<1>5. new.component = about[1] /\ new.name = about[2]
  BY <1>4 DEF Version
<1>6. /\ call'[c] = r /\ \A d \in Clients : d # c => call'[d] = call[d]
      /\ call' = [d \in Clients |-> call'[d]]
  BY <1>3, OneMoves DEF GraphInv
<1>7. Tables'
  BY <1>3, <1>4, <1>6 DEF GraphInv, Tables, History
<1>8. RowsOnce'
  BY <1>3 DEF GraphInv, RowsOnce
<1>9. VersionsOnce'
  BY <1>3, <1>4, <1>5 DEF GraphInv, VersionsOnce, HasVersion, VersionsOf
<1>10. EdgesFit'
  <2>1. UNCHANGED <<components, nodes, edges>>
    BY <1>3 DEF Graph
  <2>2. \A id : VersionsOf(id) \subseteq VersionsOf(id)'
    BY <1>3 DEF VersionsOf
  <2>3. \A v \in versions' : v.component \in DOMAIN components
    BY <1>3, <1>4, <1>5 DEF GraphInv, EdgesFit
  <2> QED
    BY <2>1, <2>2, <2>3 DEF GraphInv, EdgesFit, Allowed
<1>11. FlushedOnce'
  BY <1>2, <1>3, FlushedOnceKept DEF GraphInv
<1>12. ASSUME NEW d \in Clients PROVE Fits(d, call[d])'
  <2>1. PICK x : x = call'[d]
    OBVIOUS
  <2>2. CASE d = c
    <3>1. x = r
      BY <1>6, <2>1, <2>2
    <3>2. Fits(d, x)'
      BY <1>2, <3>1 DEF Fits, AnswerHolds, ComponentUnderWay, VersionUnderWay, SyncUnderWay
    <3> QED
      BY <2>1, <3>2, AllFit
  <2>3. CASE d # c
    <3>1. x = call[d] /\ Fits(d, x)
      BY <1>6, <2>1, <2>3 DEF GraphInv
    <3>2. (ops[d] = "version" /\ x.pc = "flushed") => ~HasVersion(x.about[1], x.about[2])'
      <4> SUFFICES ASSUME ops[d] = "version", x.pc = "flushed"
                   PROVE  ~HasVersion(x.about[1], x.about[2])'
        OBVIOUS
      <4>1. x.about # about
        BY <1>1, <1>3, <2>3, <3>1 DEF GraphInv, FlushedOnce
      <4>2. ~HasVersion(x.about[1], x.about[2]) /\ x.about = <<x.about[1], x.about[2]>>
        BY <3>1 DEF Fits, VersionUnderWay
      <4>3. ~(new.component = x.about[1] /\ new.name = x.about[2])
        BY <1>4, <1>5, <4>1, <4>2
      <4> QED
        BY <1>3, <4>2, <4>3 DEF HasVersion, VersionsOf
    <3>3. /\ (ops[d] = "component" /\ x.pc = "flushed") => ~Registered(x.about)'
          /\ (/\ ops[d] = "sync" /\ x.pc = "read"
              /\ x.about \in DOMAIN nodes' /\ d \notin overtaken') =>
                 nodes'[x.about].sequence <= x.found.sequence
      BY <1>3, <3>1 DEF Fits, ComponentUnderWay, SyncUnderWay, Registered, Graph, History
    <3>4. Fits(d, x)'
      <4>1. Tables /\ versions \subseteq versions' /\ identity' \in Nat /\ identity <= identity'
        BY <1>3 DEF GraphInv, Tables
      <4> QED
        BY <1>3, <3>1, <3>2, <3>3, <4>1, StillFits
    <3> QED
      BY <2>1, <3>4, AllFit
  <2> QED
    BY <2>2, <2>3
<1> QED
  BY <1>7, <1>8, <1>9, <1>10, <1>11, <1>12 DEF GraphInv

LEMMA SyncWritesKeeps ==
    ASSUME GraphInv, NEW c \in Clients, SyncWrites(c) PROVE GraphInv'
<1>1. PICK id, new : id = call[c].about /\ new = call[c].found
  OBVIOUS
<1>2. PICK ack \in Acknowledgements : Answer(c, id, new, ack)
  BY <1>1 DEF SyncWrites, Answer
<1>3. PICK r : r = [pc |-> "done", about |-> id, found |-> new, answer |-> ack]
  OBVIOUS
<1>4. /\ call' = [call EXCEPT ![c] = r]
      /\ nodes' = [n \in DOMAIN nodes \cup {id} |-> IF n = id THEN new ELSE nodes[n]]
      /\ UNCHANGED <<ops, Database, edges, seen, stable>>
      /\ ops[c] = "sync" /\ call[c].pc = "read"
  BY <1>1, <1>2, <1>3 DEF SyncWrites, Answer, At
<1>5. /\ overtaken \subseteq overtaken'
      /\ \A d \in Clients :
            (d # c /\ ops[d] = "sync" /\ call[d].pc = "read" /\ call[d].about = id) =>
                d \in overtaken'
  BY <1>1 DEF SyncWrites, At
<1>6. new \in VersionsOf(id)
  BY <1>1, <1>4 DEF GraphInv, Fits, SyncUnderWay
<1>7. /\ call'[c] = r /\ \A d \in Clients : d # c => call'[d] = call[d]
      /\ call' = [d \in Clients |-> call'[d]]
  BY <1>4, OneMoves DEF GraphInv
<1>8. Tables' /\ RowsOnce' /\ VersionsOnce'
  BY <1>4, <1>7 DEF GraphInv, Tables, RowsOnce, VersionsOnce, Database
<1>9. EdgesFit'
  <2>1. id \in DOMAIN components
    BY <1>6 DEF GraphInv, EdgesFit, VersionsOf
  <2>2. /\ DOMAIN nodes' = DOMAIN nodes \cup {id}
        /\ \A n \in DOMAIN nodes' : nodes'[n] \in VersionsOf(n)
    BY <1>4, <1>6 DEF GraphInv, EdgesFit
  <2>3. UNCHANGED <<components, versions, edges>>
    BY <1>4 DEF Database
  <2>4. \A v \in versions : v.component \in DOMAIN components
    BY DEF GraphInv, EdgesFit
  <2>5. /\ DOMAIN nodes' \subseteq DOMAIN components
        /\ \A n \in DOMAIN nodes' : nodes'[n] \in VersionsOf(n)'
    BY <2>1, <2>2, <2>3 DEF GraphInv, EdgesFit, VersionsOf
  <2>6. \A e \in edges : /\ {e[1], e[3]} \subseteq DOMAIN nodes' /\ Allowed(e)'
                         /\ components[e[1]].project = components[e[3]].project
    BY <2>2, <2>3 DEF GraphInv, EdgesFit, Allowed
  <2> QED
    BY <2>3, <2>4, <2>5, <2>6 DEF EdgesFit
<1>10. FlushedOnce'
  BY <1>3, <1>4, FlushedOnceKept DEF GraphInv
<1>11. ASSUME NEW d \in Clients PROVE Fits(d, call[d])'
  <2>1. PICK x : x = call'[d]
    OBVIOUS
  <2>2. CASE d = c
    <3>1. x = r
      BY <1>7, <2>1, <2>2
    <3>2. Fits(d, x)'
      BY <1>3, <3>1
         DEF Fits, AnswerHolds, ComponentUnderWay, VersionUnderWay, SyncUnderWay, Acknowledgements
    <3> QED
      BY <2>1, <3>2, AllFit
  <2>3. CASE d # c
    <3>1. x = call[d] /\ Fits(d, x)
      BY <1>7, <2>1, <2>3 DEF GraphInv
    <3>2. /\ (ops[d] = "component" /\ x.pc = "flushed") => ~Registered(x.about)'
          /\ (ops[d] = "version" /\ x.pc = "flushed") => ~HasVersion(x.about[1], x.about[2])'
      BY <1>4, <3>1 DEF Fits, ComponentUnderWay, VersionUnderWay, Registered, HasVersion,
                        VersionsOf, Database
    <3>3. (/\ ops[d] = "sync" /\ x.pc = "read"
           /\ x.about \in DOMAIN nodes' /\ d \notin overtaken') =>
              nodes'[x.about].sequence <= x.found.sequence
      BY <1>4, <1>5, <2>3, <3>1 DEF Fits, SyncUnderWay
    <3>4. Fits(d, x)'
      <4>1. /\ Tables /\ versions \subseteq versions' /\ identity' \in Nat /\ identity <= identity'
            /\ components' = components
        BY <1>4 DEF GraphInv, Tables, Database
      <4> QED
        BY <1>4, <3>1, <3>2, <3>3, <4>1, StillFits
    <3> QED
      BY <2>1, <3>4, AllFit
  <2> QED
    BY <2>2, <2>3
<1> QED
  BY <1>8, <1>9, <1>10, <1>11 DEF GraphInv

\* A statement changes the edges, and those there are still fit.
LEMMA EdgesChange ==
    ASSUME GraphInv, NEW c \in Clients, NEW ack \in Acknowledgements,
           Answer(c, None, None, ack), UNCHANGED <<ops, Database, nodes>>,
           NEW new, GraphChanges(new),
           \A e \in new : /\ {e[1], e[3]} \subseteq DOMAIN nodes /\ Allowed(e)
                          /\ components[e[1]].project = components[e[3]].project
    PROVE  GraphInv'
<1>1. PICK r : r = [pc |-> "done", about |-> None, found |-> None, answer |-> ack]
  OBVIOUS
<1>2. /\ call' = [call EXCEPT ![c] = r] /\ edges' = new
      /\ UNCHANGED <<ops, components, versions, identity, nodes, overtaken>>
      /\ seen' = [d \in Clients |-> seen'[d]] /\ stable' = [d \in Clients |-> stable'[d]]
  BY <1>1 DEF Answer, GraphChanges, Database
<1>3. /\ call'[c] = r /\ \A d \in Clients : d # c => call'[d] = call[d]
      /\ call' = [d \in Clients |-> call'[d]]
  BY <1>2, OneMoves DEF GraphInv
<1>4. Tables' /\ RowsOnce' /\ VersionsOnce'
  BY <1>2, <1>3 DEF GraphInv, Tables, RowsOnce, VersionsOnce
<1>5. EdgesFit'
  BY <1>2 DEF GraphInv, EdgesFit, Allowed, VersionsOf
<1>6. FlushedOnce'
  BY <1>1, <1>2, FlushedOnceKept DEF GraphInv
<1>7. ASSUME NEW d \in Clients PROVE Fits(d, call[d])'
  <2>1. PICK x : x = call'[d]
    OBVIOUS
  <2>2. Fits(d, x)
    <3>1. CASE d = c
      BY <1>1, <1>3, <2>1, <3>1
         DEF Fits, AnswerHolds, ComponentUnderWay, VersionUnderWay, SyncUnderWay, Acknowledgements
    <3>2. CASE d # c
      BY <1>3, <2>1, <3>2 DEF GraphInv
    <3> QED
      BY <3>1, <3>2
  <2>3. Fits(d, x)'
    BY <1>2, <2>2 DEF Fits, AnswerHolds, ComponentUnderWay, VersionUnderWay, SyncUnderWay,
                      Registered, HasVersion, VersionsOf
  <2> QED
    BY <2>1, <2>3, AllFit
<1> QED
  BY <1>4, <1>5, <1>6, <1>7 DEF GraphInv

\* A refused change of the edges.
LEMMA ChangeRefused ==
    ASSUME GraphInv, NEW c \in Clients, NEW answer, Answer(c, None, None, answer),
           answer \notin {"DuplicateComponent", "DuplicateComponentVersion"},
           UNCHANGED <<ops, Database, nodes>>, UNCHANGED <<edges, History>>
    PROVE  GraphInv'
<1>1. /\ UNCHANGED <<ops, Database, Graph, overtaken>>
      /\ seen' = [d \in Clients |-> seen'[d]] /\ stable' = [d \in Clients |-> stable'[d]]
  BY HistoryKept DEF GraphInv, Graph
<1> QED
  BY <1>1, Ends

LEMMA ConnectKeeps ==
    ASSUME GraphInv, NEW c \in Clients, Connect(c) PROVE GraphInv'
<1>1. PICK project \in Projects, e \in Dependencies :
          \/ /\ Answer(c, None, None, "GraphComponentNotFound")
             /\ UNCHANGED <<edges, History>>
          \/ /\ Answer(c, None, None, "InvalidDependencyRelationship")
             /\ UNCHANGED <<edges, History>>
          \/ /\ HasNode(project, e[1]) /\ HasNode(project, e[3]) /\ Allowed(e)
             /\ \E ack \in Acknowledgements : Answer(c, None, None, ack)
             /\ GraphChanges(edges \cup {e})
  BY DEF Connect
<1>2. UNCHANGED <<ops, Database, nodes>>
  BY DEF Connect
<1>3. CASE /\ Answer(c, None, None, "GraphComponentNotFound")
           /\ UNCHANGED <<edges, History>>
  BY <1>2, <1>3, ChangeRefused
<1>4. CASE /\ Answer(c, None, None, "InvalidDependencyRelationship")
           /\ UNCHANGED <<edges, History>>
  BY <1>2, <1>4, ChangeRefused
<1>5. CASE /\ HasNode(project, e[1]) /\ HasNode(project, e[3]) /\ Allowed(e)
           /\ \E ack \in Acknowledgements : Answer(c, None, None, ack)
           /\ GraphChanges(edges \cup {e})
  <2>1. PICK new : new = edges \cup {e}
    OBVIOUS
  <2>2. GraphChanges(new)
    BY <1>5, <2>1 DEF GraphChanges
  <2>3. \A x \in new : /\ {x[1], x[3]} \subseteq DOMAIN nodes /\ Allowed(x)
                       /\ components[x[1]].project = components[x[3]].project
    BY <1>5, <2>1 DEF GraphInv, EdgesFit, HasNode
  <2> QED
    BY <1>2, <1>5, <2>2, <2>3, EdgesChange
<1> QED
  BY <1>1, <1>3, <1>4, <1>5

LEMMA DisconnectKeeps ==
    ASSUME GraphInv, NEW c \in Clients, Disconnect(c) PROVE GraphInv'
<1>1. PICK project \in Projects, e \in Dependencies :
          \/ /\ Answer(c, None, None, "GraphComponentNotFound")
             /\ UNCHANGED <<edges, History>>
          \/ /\ \E ack \in Acknowledgements : Answer(c, None, None, ack)
             /\ GraphChanges(edges \ {e})
  BY DEF Disconnect
<1>2. UNCHANGED <<ops, Database, nodes>>
  BY DEF Disconnect
<1>3. CASE /\ Answer(c, None, None, "GraphComponentNotFound")
           /\ UNCHANGED <<edges, History>>
  BY <1>2, <1>3, ChangeRefused
<1>4. CASE /\ \E ack \in Acknowledgements : Answer(c, None, None, ack)
           /\ GraphChanges(edges \ {e})
  <2>1. PICK new : new = edges \ {e}
    OBVIOUS
  <2>2. GraphChanges(new)
    BY <1>4, <2>1 DEF GraphChanges
  <2>3. \A x \in new : /\ {x[1], x[3]} \subseteq DOMAIN nodes /\ Allowed(x)
                       /\ components[x[1]].project = components[x[3]].project
    BY <2>1 DEF GraphInv, EdgesFit
  <2> QED
    BY <1>2, <1>4, <2>2, <2>3, EdgesChange
<1> QED
  BY <1>1, <1>3, <1>4

\* The versions a component starts with have the numbers id and, the newer
\* one, Len(s.components) + id.
LEMMA StartingVersions ==
    ASSUME NEW s \in Starts, NEW id \in DOMAIN s.components
    PROVE  \E a, b \in VersionNames :
              /\ a # b
              /\ InitialVersions(s, id) \in
                    {<<Version(id, a, id)>>,
                     <<Version(id, a, id), Version(id, b, Len(s.components) + id)>>}
<1> DEFINE first == CHOOSE v \in VersionNames : TRUE
           second == CHOOSE v \in VersionNames \ {first} : TRUE
<1>1. first \in VersionNames
  BY VersionNamesAssumption
<1> HIDE DEF first
<1>2. VersionNames \ {first} # {}
  BY VersionNamesAssumption
<1>3. second \in VersionNames \ {first}
  BY <1>2
<1> HIDE DEF second
<1>4. PICK x, y : x = Version(id, first, id) /\ y = Version(id, second, Len(s.components) + id)
  OBVIOUS
<1>5. InitialVersions(s, id) = <<x>> \o (IF id \in s.newer THEN <<y>> ELSE <<>>)
  BY <1>4 DEF InitialVersions, first, second
<1>6. <<x>> \o <<y>> = <<x, y>> /\ <<x>> \o <<>> = <<x>>
  <2> DEFINE T == {x, y}
  <2>1. <<x>> \in Seq(T) /\ <<y>> \in Seq(T)
    OBVIOUS
  <2>2. <<x>> \o <<y>> = <<x, y>>
    <3>1. PICK both : both = <<x>> \o <<y>>
      OBVIOUS
    <3>2. both \in Seq(T) /\ Len(both) = 2 /\ both[1] = x /\ both[2] = y
      BY <2>1, <3>1
    <3>3. both = [i \in 1..2 |-> both[i]]
      BY <3>2
    <3>4. both = <<x, y>>
      BY <3>2, <3>3
    <3> QED
      BY <3>1, <3>4
  <2>3. <<x>> \o <<>> = <<x>>
    BY <2>1
  <2> QED
    BY <2>2, <2>3
<1>7. InitialVersions(s, id) \in {<<x>>, <<x, y>>}
  BY <1>5, <1>6
<1> QED
  BY <1>1, <1>3, <1>4, <1>7

LEMMA InitGraphInv == Init => GraphInv
<1> SUFFICES ASSUME Init PROVE GraphInv
  OBVIOUS
<1>1. PICK s \in Starts :
        /\ ops = s.ops
        /\ components = s.components
        /\ versions = UNION {{InitialVersions(s, id)[i] : i \in DOMAIN InitialVersions(s, id)} :
                             id \in DOMAIN s.components}
        /\ identity = 2 * Len(s.components)
        /\ nodes = [id \in s.synced |-> InitialVersions(s, id)[Len(InitialVersions(s, id))]]
        /\ edges = s.edges
        /\ call = [c \in Clients |-> NoCall]
        /\ seen = [c \in Clients |-> {}]
        /\ stable = [c \in Clients |-> {}]
  BY DEF Init
<1>2. /\ components \in Seq(Keys) /\ RowsOnce
      /\ s.synced \subseteq DOMAIN components
      /\ edges \subseteq s.synced \X RelationshipTypes \X s.synced
      /\ \A e \in edges : /\ components[e[1]].project = components[e[3]].project
                          /\ Allowed(e)
  BY <1>1, StartsAssumption DEF RowsOnce, Allowed
<1>3. PICK n \in Nat : n = Len(components) /\ identity = 2 * n /\ DOMAIN components = 1..n
  <2>1. Len(components) \in Nat /\ DOMAIN components = 1..Len(components)
    BY <1>2
  <2> QED
    BY <1>1, <2>1
<1>4. \A v \in versions : \E id \in DOMAIN components, a, b \in VersionNames :
          /\ a # b
          /\ v \in {Version(id, a, id), Version(id, b, n + id)}
          /\ \A w \in versions : w.component = id =>
                w \in {Version(id, a, id), Version(id, b, n + id)}
  <2> SUFFICES ASSUME NEW v \in versions
               PROVE  \E id \in DOMAIN components, a, b \in VersionNames :
                         /\ a # b
                         /\ v \in {Version(id, a, id), Version(id, b, n + id)}
                         /\ \A w \in versions : w.component = id =>
                               w \in {Version(id, a, id), Version(id, b, n + id)}
    OBVIOUS
  <2>1. \A w \in versions : \E id \in DOMAIN components :
            \E i \in DOMAIN InitialVersions(s, id) : w = InitialVersions(s, id)[i]
    BY <1>1
  <2>2. PICK id \in DOMAIN components :
            \E i \in DOMAIN InitialVersions(s, id) : v = InitialVersions(s, id)[i]
    BY <2>1
  <2>3. PICK a, b \in VersionNames :
            /\ a # b
            /\ InitialVersions(s, id) \in
                  {<<Version(id, a, id)>>, <<Version(id, a, id), Version(id, b, n + id)>>}
    BY <1>1, <1>3, StartingVersions
  <2>4. \A i \in DOMAIN InitialVersions(s, id) :
            InitialVersions(s, id)[i] \in {Version(id, a, id), Version(id, b, n + id)}
    BY <2>3
  <2>5. ASSUME NEW w \in versions, w.component = id
        PROVE  w \in {Version(id, a, id), Version(id, b, n + id)}
    <3>1. PICK other \in DOMAIN components :
              \E i \in DOMAIN InitialVersions(s, other) : w = InitialVersions(s, other)[i]
      BY <2>1
    <3>2. PICK x, y \in VersionNames :
            InitialVersions(s, other) \in
                {<<Version(other, x, other)>>,
                 <<Version(other, x, other), Version(other, y, n + other)>>}
      BY <1>1, <1>3, StartingVersions
    <3>3. w.component = other
      BY <3>1, <3>2 DEF Version
    <3> QED
      BY <2>4, <2>5, <3>1, <3>3
  <2> QED
    BY <2>2, <2>3, <2>4, <2>5
<1>5. \A v \in versions : v.sequence \in 0..identity /\ v.component \in DOMAIN components
  BY <1>3, <1>4 DEF Version
<1>6. VersionsOnce
  <2> SUFFICES ASSUME NEW v \in versions, NEW w \in versions,
                      v.component = w.component, v.name = w.name
               PROVE  v = w
    BY DEF VersionsOnce
  <2>1. PICK id \in DOMAIN components, a, b \in VersionNames :
            /\ a # b
            /\ v \in {Version(id, a, id), Version(id, b, n + id)}
            /\ \A x \in versions : x.component = id =>
                  x \in {Version(id, a, id), Version(id, b, n + id)}
    BY <1>4
  <2>2. w.component = id
    BY <2>1 DEF Version
  <2> QED
    BY <2>1, <2>2 DEF Version
<1>7. /\ DOMAIN nodes = s.synced
      /\ \A id \in DOMAIN nodes : nodes[id] \in VersionsOf(id)
  <2>1. DOMAIN nodes = s.synced
    BY <1>1
  <2>2. ASSUME NEW id \in DOMAIN nodes PROVE nodes[id] \in VersionsOf(id)
    <3>1. id \in DOMAIN s.components
      BY <1>1, <1>2, <2>1
    <3>2. PICK a, b \in VersionNames :
            InitialVersions(s, id) \in
                {<<Version(id, a, id)>>,
                 <<Version(id, a, id), Version(id, b, Len(s.components) + id)>>}
      BY <3>1, StartingVersions
    <3>3. nodes[id] = InitialVersions(s, id)[Len(InitialVersions(s, id))]
      BY <1>1, <2>1
    <3>4. /\ Len(InitialVersions(s, id)) \in DOMAIN InitialVersions(s, id)
          /\ InitialVersions(s, id)[Len(InitialVersions(s, id))].component = id
      <4>1. PICK x, y : /\ x.component = id /\ y.component = id
                        /\ InitialVersions(s, id) \in {<<x>>, <<x, y>>}
        BY <3>2 DEF Version
      <4>2. CASE InitialVersions(s, id) = <<x>>
        BY <4>1, <4>2
      <4>3. CASE InitialVersions(s, id) = <<x, y>>
        BY <4>1, <4>3
      <4> QED
        BY <4>1, <4>2, <4>3
    <3>5. nodes[id] \in versions
      BY <1>1, <3>1, <3>3, <3>4
    <3> QED
      BY <3>3, <3>4, <3>5 DEF VersionsOf
  <2> QED
    BY <2>1, <2>2
<1>8. EdgesFit
  BY <1>2, <1>5, <1>7 DEF EdgesFit
<1>9. Tables
  BY <1>1, <1>2, <1>3, <1>5 DEF Tables
<1>10. FlushedOnce /\ \A c \in Clients : Fits(c, call[c])
  BY <1>1, NoneAssumption DEF FlushedOnce, NoCall, Fits, AnswerHolds, ComponentUnderWay,
                              VersionUnderWay, SyncUnderWay
<1> QED
  BY <1>2, <1>6, <1>8, <1>9, <1>10 DEF GraphInv

LEMMA NextGraphInv == GraphInv /\ [Next]_vars => GraphInv'
<1> SUFFICES ASSUME GraphInv, [Next]_vars PROVE GraphInv'
  OBVIOUS
<1>1. CASE UNCHANGED vars
  BY <1>1 DEF vars, GraphInv, Tables, RowsOnce, VersionsOnce, EdgesFit, Allowed, VersionsOf,
              FlushedOnce, Fits, AnswerHolds, ComponentUnderWay, VersionUnderWay, SyncUnderWay,
              Registered, HasVersion
<1>2. ASSUME NEW c \in Clients, Step(c) \/ Rollback(c) \/ GraphUnavailable(c) PROVE GraphInv'
  BY <1>2, LookupComponentKeeps, FlushComponentKeeps, CommitComponentKeeps, LookupVersionKeeps,
     FlushVersionKeeps, CommitVersionKeeps, SyncReadsKeeps, SyncWritesKeeps, ConnectKeeps,
     DisconnectKeeps, SearchStartsKeeps, HopKeeps, SearchEndsKeeps, RollbackKeeps,
     GraphUnavailableKeeps
     DEF Step
<1> QED
  BY <1>1, <1>2 DEF Next

\* What the requests of component_registry.py and dependency_graph.py rely on
\* between their statements is always so.
THEOREM GraphInvariant == Spec => []GraphInv
  BY InitGraphInv, NextGraphInv, PTL DEF Spec

\* The registry holds a row of a key and a version of a name once, an answer
\* "duplicate" names what is there, and nodes and edges of the graph agree with
\* the registry, however registrations, synchronisations and changes of the
\* edges overlap and whatever dies or fails.
THEOREM RegistryAndGraphAgree == Spec => []RegistryAndGraphConsistent
<1>1. GraphInv => RegistryAndGraphConsistent
  BY DEF GraphInv, RegistryAndGraphConsistent, DuplicateMeansRegistered, RowsOnce, VersionsOnce,
         Fits, AnswerHolds
<1> QED
  BY <1>1, GraphInvariant, PTL

\* A node comes to show an older version only through a sync_component whose
\* reading of the registry another one has overtaken.
THEOREM NodesFollowTheRegistry == Spec => NodeNeverGoesBack
<1> DEFINE Back == \A id \in DOMAIN nodes :
                       nodes'[id].sequence < nodes[id].sequence =>
                           \E c \in overtaken : At(c, "sync", "read") /\ call[c].about = id
<1>1. ASSUME GraphInv, [Next]_vars PROVE [Back]_vars
  <2> SUFFICES ASSUME Next PROVE Back
    BY <1>1
  <2> SUFFICES ASSUME NEW id \in DOMAIN nodes, nodes'[id].sequence < nodes[id].sequence
               PROVE  \E c \in overtaken : At(c, "sync", "read") /\ call[c].about = id
    OBVIOUS
  <2>1. \A x \in DOMAIN nodes : nodes[x].sequence \in Nat
    BY <1>1 DEF GraphInv, EdgesFit, Tables, VersionsOf
  <2>2. nodes' # nodes
    BY <2>1
  <2>3. PICK c \in Clients : SyncWrites(c)
    BY <2>2 DEF Next, Step, LookupComponent, FlushComponent, CommitComponent, LookupVersion,
                FlushVersion, CommitVersion, SyncReads, Connect, Disconnect, SearchStarts, Hop,
                SearchEnds, Rollback, GraphUnavailable, Graph
  <2>4. At(c, "sync", "read") /\ nodes'[id] = IF id = call[c].about THEN call[c].found ELSE nodes[id]
    BY <2>3 DEF SyncWrites
  <2>5. id = call[c].about /\ call[c].found.sequence < nodes[id].sequence
    BY <2>1, <2>4
  <2>6. call[c].found.sequence \in Nat
    BY <1>1, <2>4 DEF GraphInv, Fits, SyncUnderWay, VersionsOf, Tables, At
  <2>7. c \in overtaken
    BY <1>1, <2>1, <2>4, <2>5, <2>6 DEF GraphInv, Fits, SyncUnderWay, At
  <2> QED
    BY <2>4, <2>5, <2>7
<1> QED
  BY <1>1, GraphInvariant, PTL DEF Spec, NodeNeverGoesBack

-----------------------------------------------------------------------------
(* The search *)

\* What a concatenation consists of.
LEMMA Joined ==
    ASSUME NEW S, NEW a \in Seq(S), NEW b \in Seq(S), NEW ab, ab = a \o b
    PROVE  /\ ab \in Seq(S)
           /\ \A i \in DOMAIN ab : \/ i \in DOMAIN a /\ ab[i] = a[i]
                                   \/ /\ i \notin DOMAIN a /\ i - Len(a) \in DOMAIN b
                                      /\ ab[i] = b[i - Len(a)] /\ Len(a) < i
           /\ \A i \in DOMAIN a : i \in DOMAIN ab /\ ab[i] = a[i]
           /\ \A i \in DOMAIN b : Len(a) + i \in DOMAIN ab /\ ab[Len(a) + i] = b[i]
<1>1. /\ Len(a) \in Nat /\ Len(b) \in Nat /\ ab \in Seq(S) /\ Len(ab) = Len(a) + Len(b)
      /\ DOMAIN a = 1..Len(a) /\ DOMAIN b = 1..Len(b) /\ DOMAIN ab = 1..(Len(a) + Len(b))
  OBVIOUS
<1>2. \A i \in 1..(Len(a) + Len(b)) : ab[i] = IF i <= Len(a) THEN a[i] ELSE b[i - Len(a)]
  BY <1>1
<1> QED
  BY <1>1, <1>2

\* What is left without the head.
LEMMA Popped ==
    ASSUME NEW S, NEW q \in Seq(S), q # <<>>, NEW t, t = Tail(q)
    PROVE  /\ 1 \in DOMAIN q /\ Head(q) = q[1] /\ t \in Seq(S)
           /\ \A i \in DOMAIN t : i + 1 \in DOMAIN q /\ t[i] = q[i + 1]
           /\ \A i \in DOMAIN q : i # 1 => i - 1 \in DOMAIN t /\ t[i - 1] = q[i]
<1>1. /\ Len(q) \in Nat \ {0} /\ DOMAIN q = 1..Len(q) /\ Head(q) = q[1]
      /\ t \in Seq(S) /\ Len(t) = Len(q) - 1 /\ DOMAIN t = 1..(Len(q) - 1)
  OBVIOUS
<1>2. \A i \in 1..(Len(q) - 1) : t[i] = q[i + 1]
  BY <1>1
<1> QED
  BY <1>1, <1>2

\* The fields of the items of a list.
LEMMA ItemsOf ==
    ASSUME NEW q \in Seq(Items)
    PROVE  \A i \in DOMAIN q : /\ i \in Nat /\ q[i] \in Items
                               /\ q[i].id \in Nat /\ q[i].depth \in Nat /\ q[i].path \in Seq(Nat)
<1>1. \A i \in DOMAIN q : i \in Nat /\ q[i] \in Items
  OBVIOUS
<1>2. \A x \in Items : x.id \in Nat /\ x.depth \in Nat /\ x.path \in Seq(Nat)
  BY DEF Items
<1> QED
  BY <1>1, <1>2

\* The longer the search takes the more edges there have been, and the fewer
\* all the time.
LEMMA SearchSeesChange ==
    ASSUME NEW root, NEW max, NEW s, NEW given, NEW kept, GoodSearch(root, max, s, given, kept),
           NEW more, given \subseteq more, NEW fewer, fewer \subseteq kept
    PROVE  GoodSearch(root, max, s, more, fewer)
<1>1. \A item : PathIsReal(root, max, given, item) => PathIsReal(root, max, more, item)
  BY DEF PathIsReal
<1>2. EntriesAreReal(root, max, s, more)
  BY <1>1 DEF GoodSearch, EntriesAreReal
<1>3. NothingForgotten(root, max, s, fewer)
  BY DEF GoodSearch, NothingForgotten, Expanded
<1> QED
  BY <1>2, <1>3 DEF GoodSearch

\* The queue of compute() begins with the root.
LEMMA SearchBegins ==
    ASSUME NEW root \in Nat, NEW max \in Nat, NEW given, NEW s,
           s = [queue |-> <<[id |-> root, depth |-> 0, path |-> <<root>>]>>,
                visited |-> {root}, entries |-> <<>>]
    PROVE  GoodSearch(root, max, s, given, given)
<1>1. PICK item : item = [id |-> root, depth |-> 0, path |-> <<root>>]
  OBVIOUS
<1>2. item \in Items /\ PathIsReal(root, max, given, item)
  <2>1. /\ item.id = root /\ item.depth = 0 /\ item.path = <<root>>
        /\ <<root>> \in Seq(Nat) /\ Len(<<root>>) = 1 /\ <<root>>[1] = root
    BY <1>1
  <2> QED
    BY <1>1, <2>1 DEF Items, PathIsReal
<1>3. /\ s.queue = <<item>> /\ s.entries = <<>> /\ s.visited = {root}
      /\ s = [queue |-> s.queue, visited |-> s.visited, entries |-> s.entries]
  BY <1>1
<1>4. /\ DOMAIN s.queue = {1} /\ s.queue[1] = item /\ DOMAIN s.entries = {}
      /\ s.queue \in Seq(Items) /\ s.entries \in Seq(Items)
  BY <1>2, <1>3
<1>5. item.depth = 0 /\ item.id = root
  BY <1>1
<1> QED
  BY <1>2, <1>3, <1>4, <1>5
     DEF GoodSearch, SearchTypes, EntriesAreReal, QueueInOrder, NothingForgotten, Queued

\* An item at the depth limit leaves the queue.
LEMMA SearchPops ==
    ASSUME NEW root, NEW max, NEW s, NEW given, NEW kept, GoodSearch(root, max, s, given, kept),
           s.queue # <<>>, Head(s.queue).depth >= max,
           NEW t, t = [s EXCEPT !.queue = Tail(@)]
    PROVE  GoodSearch(root, max, t, given, kept)
<1>1. /\ t.queue = Tail(s.queue) /\ t.entries = s.entries /\ t.visited = s.visited
      /\ t = [queue |-> t.queue, visited |-> t.visited, entries |-> t.entries]
  BY DEF GoodSearch, SearchTypes
<1>2. s.queue \in Seq(Items) /\ s.entries \in Seq(Items) /\ root \in Nat /\ max \in Nat
  BY DEF GoodSearch, SearchTypes
<1>3. /\ 1 \in DOMAIN s.queue /\ Head(s.queue) = s.queue[1] /\ t.queue \in Seq(Items)
      /\ \A i \in DOMAIN t.queue : i + 1 \in DOMAIN s.queue /\ t.queue[i] = s.queue[i + 1]
      /\ \A i \in DOMAIN s.queue :
            i # 1 => i - 1 \in DOMAIN t.queue /\ t.queue[i - 1] = s.queue[i]
  BY <1>1, <1>2, Popped
<1>4. SearchTypes(root, max, t)
  BY <1>1, <1>2, <1>3 DEF SearchTypes
<1>5. EntriesAreReal(root, max, t, given)
  BY <1>1, <1>3 DEF GoodSearch, EntriesAreReal
<1>6. \A i \in DOMAIN s.queue : s.queue[i].depth \in Nat /\ i \in Nat
  BY <1>2, ItemsOf
<1>7. \A i \in DOMAIN s.entries : s.entries[i].depth \in Nat
  BY <1>2, ItemsOf
<1>8. QueueInOrder(t)
  <2>1. \A i, j \in DOMAIN t.queue : i <= j => t.queue[i].depth <= t.queue[j].depth
    <3> SUFFICES ASSUME NEW i \in DOMAIN t.queue, NEW j \in DOMAIN t.queue, i <= j
                 PROVE  t.queue[i].depth <= t.queue[j].depth
      OBVIOUS
    <3>1. i + 1 <= j + 1 /\ i + 1 \in DOMAIN s.queue /\ j + 1 \in DOMAIN s.queue
      BY <1>3
    <3> QED
      BY <1>3, <3>1 DEF GoodSearch, QueueInOrder
  <2>2. ASSUME NEW i \in DOMAIN t.queue
        PROVE  /\ 1 \in DOMAIN t.queue /\ t.queue[1].depth \in Nat
               /\ s.queue[1].depth <= t.queue[1].depth
               /\ t.queue[i].depth <= s.queue[1].depth + 1
    <3>1. 1 \in DOMAIN t.queue
      BY <1>3
    <3>2. t.queue[1] = s.queue[1 + 1] /\ 1 + 1 \in DOMAIN s.queue
      BY <1>3, <3>1
    <3> QED
      BY <1>3, <1>6, <3>1, <3>2 DEF GoodSearch, QueueInOrder
  <2>3. t.queue # <<>> => 1 \in DOMAIN t.queue
    BY <1>3
  <2>4. \A i \in DOMAIN s.entries : s.entries[i].depth <= s.queue[1].depth + 1
    BY DEF GoodSearch, QueueInOrder
  <2>5. ASSUME NEW i \in DOMAIN t.queue PROVE t.queue[i].depth <= t.queue[1].depth + 1
    <3>1. t.queue[i].depth \in Nat /\ s.queue[1].depth \in Nat
      BY <1>3, <1>6
    <3>2. /\ t.queue[1].depth \in Nat /\ s.queue[1].depth <= t.queue[1].depth
          /\ t.queue[i].depth <= s.queue[1].depth + 1
      BY <2>2
    <3>3. \A a, b, x \in Nat : a <= b /\ x <= a + 1 => x <= b + 1
      OBVIOUS
    <3> QED
      BY ZenonT(30), <3>1, <3>2, <3>3
  <2>6. t.queue # <<>> =>
            \A i \in DOMAIN t.entries : t.entries[i].depth <= t.queue[1].depth + 1
    BY <1>1, <1>3, <1>6, <1>7, <2>2, <2>3, <2>4
  <2> QED
    BY <2>1, <2>5, <2>6 DEF QueueInOrder
<1>9. \A id, depth : (Queued(s, id, depth) /\ depth < max) => Queued(t, id, depth)
  <2> SUFFICES ASSUME NEW i \in DOMAIN s.queue, s.queue[i].depth < max
               PROVE  \E j \in DOMAIN t.queue : t.queue[j] = s.queue[i]
    BY DEF Queued
  <2>1. i # 1
    BY <1>2, <1>3, <1>6
  <2> QED
    BY <1>3, <2>1
<1>10. NothingForgotten(root, max, t, kept)
  <2>1. \A id, depth : Expanded(root, s, kept, id, depth) => Expanded(root, t, kept, id, depth)
    BY <1>1 DEF Expanded, FoundBy
  <2> QED
    BY <1>1, <1>9, <2>1 DEF GoodSearch, NothingForgotten
<1> QED
  BY <1>4, <1>5, <1>8, <1>10 DEF GoodSearch

\* sorted by component_id: each of the ids comes, and comes once.
LEMMA AscendingIs ==
    ASSUME NEW ids, ids \subseteq Nat, IsFiniteSet(ids)
    PROVE  /\ Ascending(ids) \in Seq(ids)
           /\ \A i, j \in DOMAIN Ascending(ids) : Ascending(ids)[i] = Ascending(ids)[j] => i = j
           /\ \A x \in ids : \E i \in DOMAIN Ascending(ids) : Ascending(ids)[i] = x
<1> DEFINE n == Cardinality(ids)
           upto(x) == {y \in ids : y <= x}
           rank == [x \in ids |-> Cardinality(upto(x))]
<1>0. \A x \in ids : x \in Nat
  OBVIOUS
<1>1. n \in Nat
  BY FS_CardinalityType
<1>2. \A x \in ids : /\ IsFiniteSet(upto(x))
                     /\ Cardinality(upto(x)) \in Nat /\ Cardinality(upto(x)) <= n
  <2> SUFFICES ASSUME NEW x \in ids
      PROVE IsFiniteSet(upto(x)) /\ Cardinality(upto(x)) \in Nat /\ Cardinality(upto(x)) <= n
    OBVIOUS
  <2>1. upto(x) \in SUBSET ids
    OBVIOUS
  <2> HIDE DEF upto
  <2> QED
    BY <2>1, FS_Subset, FS_CardinalityType
<1>3. \A x \in ids : Cardinality(upto(x)) # 0
  <2> SUFFICES ASSUME NEW x \in ids PROVE Cardinality(upto(x)) # 0
    OBVIOUS
  <2>1. x \in upto(x)
    OBVIOUS
  <2> HIDE DEF upto
  <2> QED
    BY <1>2, <2>1, FS_EmptySet
<1>4. ASSUME NEW x \in ids, NEW y \in ids, x < y
      PROVE  Cardinality(upto(x)) < Cardinality(upto(y))
  <2>1. upto(x) \in SUBSET upto(y) /\ y \in upto(y) /\ y \notin upto(x)
    <3>1. x \in Nat /\ y \in Nat
      BY <1>0
    <3>2. y \in upto(y) /\ y \notin upto(x)
      BY <1>4, <3>1
    <3>3. ASSUME NEW z \in ids, z <= x PROVE z <= y
      BY <1>0, <1>4, <3>1, <3>3
    <3> QED
      BY <3>2, <3>3
  <2> HIDE DEF upto
  <2>2. /\ Cardinality(upto(x)) <= Cardinality(upto(y))
        /\ Cardinality(upto(x)) # Cardinality(upto(y))
    BY <1>2, <2>1, FS_Subset
  <2> QED
    BY <1>2, <2>2
<1> HIDE DEF upto
<1>5. rank \in [ids -> 1..n]
  BY <1>1, <1>2, <1>3
<1>6. \A x, y \in ids : x < y => rank[x] < rank[y]
  BY <1>4
<1> HIDE DEF rank
<1>7. \A x, y \in ids : rank[x] = rank[y] => x = y
  <2> SUFFICES ASSUME NEW x \in ids, NEW y \in ids, rank[x] = rank[y] PROVE x = y
    OBVIOUS
  <2>1. rank[x] \in Nat /\ rank[y] \in Nat
    BY <1>5
  <2>2. x \in Nat /\ y \in Nat
    OBVIOUS
  <2> QED
    BY <1>6, <2>1, <2>2
<1>8. rank \in Injection(ids, 1..n)
  BY <1>5, <1>7 DEF Injection, IsInjective
<1>9. IsFiniteSet(1..n) /\ Cardinality(1..n) = n
  BY <1>1, FS_Interval
<1>10. rank \in Surjection(ids, 1..n)
  <2> DEFINE T == 1..n
  <2>1. rank \in Injection(ids, T) /\ IsFiniteSet(T) /\ Cardinality(ids) = Cardinality(T)
    BY <1>8, <1>9
  <2> HIDE DEF T, n
  <2>2. rank \in Surjection(ids, T)
    BY <2>1, FS_Injection
  <2> QED
    BY <2>2 DEF T
<1> DEFINE Good(s) == \A i, j \in DOMAIN s : i < j => s[i] < s[j]
           t == [i \in 1..n |-> CHOOSE x \in ids : rank[x] = i]
<1>11. \A i \in 1..n : t[i] \in ids /\ rank[t[i]] = i
  BY <1>10 DEF Surjection
<1>12. t \in [1..n -> ids]
  BY <1>11
<1>13. Good(t)
  <2> SUFFICES ASSUME NEW i \in 1..n, NEW j \in 1..n, i < j PROVE t[i] < t[j]
    OBVIOUS
  <2>1. t[i] \in ids /\ t[j] \in ids /\ rank[t[i]] = i /\ rank[t[j]] = j
    BY <1>11
  <2> HIDE DEF t
  <2>2. t[i] \in Nat /\ t[j] \in Nat
    BY <2>1
  <2>3. ~(t[j] < t[i]) /\ t[i] # t[j]
    BY <1>6, <2>1, <2>2
  <2> QED
    BY <2>2, <2>3
<1> HIDE DEF t
<1> DEFINE s == Ascending(ids)
<1>14. s \in [1..n -> ids] /\ Good(s)
  BY <1>12, <1>13 DEF Ascending
<1> HIDE DEF s
<1>15. DOMAIN s = 1..n /\ \A i \in 1..n : s[i] \in ids /\ s[i] \in Nat
  BY <1>14
<1>16. \A i, j \in DOMAIN s : s[i] = s[j] => i = j
  <2> SUFFICES ASSUME NEW i \in 1..n, NEW j \in 1..n, s[i] = s[j] PROVE i = j
    BY <1>15
  <2> QED
    BY <1>1, <1>14, <1>15
<1>17. s \in Surjection(1..n, ids)
  <2> DEFINE T == 1..n
  <2>1. s \in Injection(T, ids) /\ Cardinality(T) = Cardinality(ids)
    BY <1>9, <1>14, <1>16 DEF Injection, IsInjective
  <2> HIDE DEF T, n
  <2>2. s \in Surjection(T, ids)
    BY <2>1, FS_Injection
  <2> QED
    BY <2>2 DEF T
<1>18. \A x \in ids : \E i \in DOMAIN s : s[i] = x
  BY <1>15, <1>17 DEF Surjection
<1>19. s \in Seq(ids)
  BY <1>1, <1>14
<1> QED
  BY <1>16, <1>18, <1>19 DEF s

\* A function on 1..n is a sequence.
LEMMA ListOf ==
    ASSUME NEW S, NEW n \in Nat, NEW f \in [1..n -> S] PROVE f \in Seq(S)
  OBVIOUS

\* The items that Expand makes of new dependents of item.
ItemsBehind(item, new) ==
    [i \in DOMAIN new |-> [id |-> new[i], depth |-> item.depth + 1,
                           path |-> Append(item.path, new[i])]]

\* found has an item for each of the dependents deps of item that are new, of
\* the path to it and one hop deeper.
AreNewItems(found, item, deps, visited) ==
    /\ found \in Seq(Items)
    /\ \A i \in DOMAIN found :
          /\ found[i].id \in deps /\ found[i].id \notin visited
          /\ found[i].depth = item.depth + 1
          /\ found[i].path = Append(item.path, found[i].id)
    /\ \A i, j \in DOMAIN found : found[i].id = found[j].id => i = j
    /\ \A x \in deps : x \in visited \/ \E i \in DOMAIN found : found[i].id = x

\* Expand makes these items of the dependents of item.
LEMMA Frontier ==
    ASSUME NEW item \in Items, NEW deps, deps \subseteq Nat, IsFiniteSet(deps), NEW visited,
           NEW new, new = Ascending(deps \ visited), NEW found, found = ItemsBehind(item, new)
    PROVE  AreNewItems(found, item, deps, visited)
<1> DEFINE ids == deps \ visited
           Item(x) == [id |-> x, depth |-> item.depth + 1, path |-> Append(item.path, x)]
<1>1. ids \subseteq Nat /\ IsFiniteSet(ids)
  BY FS_Difference
<1>2. \A x \in Nat : /\ Item(x) \in Items /\ Item(x).id = x /\ Item(x).depth = item.depth + 1
                      /\ Item(x).path = Append(item.path, x)
  <2> SUFFICES ASSUME NEW x \in Nat PROVE Item(x) \in Items
    OBVIOUS
  <2>1. item.depth + 1 \in Nat /\ item.path \in Seq(Nat)
    BY DEF Items
  <2>2. Append(item.path, x) \in Seq(Nat)
    BY <2>1
  <2> QED
    BY <2>1, <2>2 DEF Items
<1>3. found = [i \in DOMAIN new |-> Item(new[i])]
  BY DEF ItemsBehind
<1>4. \A x \in ids : x \in deps /\ x \notin visited /\ x \in Nat
  OBVIOUS
<1>5. \A x \in deps : x \in visited \/ x \in ids
  OBVIOUS
<1>6. new = Ascending(ids)
  OBVIOUS
<1> HIDE DEF ids, Item
<1>7. /\ new \in Seq(ids)
      /\ \A i, j \in DOMAIN new : new[i] = new[j] => i = j
      /\ \A x \in ids : \E i \in DOMAIN new : new[i] = x
  BY ZenonT(30), <1>1, <1>6, AscendingIs
<1>8. \A i \in DOMAIN new : new[i] \in ids
  BY <1>7
<1>9. /\ DOMAIN found = DOMAIN new
      /\ \A i \in DOMAIN new :
            /\ found[i] \in Items /\ found[i].id = new[i] /\ found[i].depth = item.depth + 1
            /\ found[i].path = Append(item.path, new[i])
  <2>1. DOMAIN found = DOMAIN new /\ \A i \in DOMAIN new : found[i] = Item(new[i])
    BY <1>3, Zenon
  <2>2. \A i \in DOMAIN new : new[i] \in Nat
    BY <1>4, <1>8
  <2>3. \A i \in DOMAIN new : /\ Item(new[i]) \in Items /\ Item(new[i]).id = new[i]
                             /\ Item(new[i]).depth = item.depth + 1
                             /\ Item(new[i]).path = Append(item.path, new[i])
    BY <1>2, <2>2
  <2> QED
    BY <2>1, <2>3
<1>10. found \in Seq(Items)
  <2>1. PICK n \in Nat : DOMAIN new = 1..n
    BY <1>7
  <2>2. found \in [1..n -> Items]
    BY <1>3, <1>9, <2>1
  <2> QED
    BY ZenonT(30), <2>2, ListOf
<1>11. \A i \in DOMAIN found :
           /\ found[i].id \in deps /\ found[i].id \notin visited
           /\ found[i].depth = item.depth + 1
           /\ found[i].path = Append(item.path, found[i].id)
  <2> SUFFICES ASSUME NEW i \in DOMAIN found
               PROVE  /\ found[i].id \in deps /\ found[i].id \notin visited
                      /\ found[i].depth = item.depth + 1
                      /\ found[i].path = Append(item.path, found[i].id)
    OBVIOUS
  <2>1. i \in DOMAIN new
    BY ZenonT(30), <1>9
  <2>2. found[i].id = new[i] /\ found[i].depth = item.depth + 1
        /\ found[i].path = Append(item.path, new[i])
    BY ZenonT(30), <1>9, <2>1
  <2>3. new[i] \in deps /\ new[i] \notin visited
    BY ZenonT(30), <1>4, <1>8, <2>1
  <2> QED
    BY ZenonT(30), <2>2, <2>3
<1>12. \A i, j \in DOMAIN found : found[i].id = found[j].id => i = j
  <2>1. DOMAIN found = DOMAIN new /\ \A i \in DOMAIN new : found[i].id = new[i]
    BY ZenonT(30), <1>9
  <2>2. \A i, j \in DOMAIN new : new[i] = new[j] => i = j
    BY <1>7
  <2> QED
    BY <2>1, <2>2
<1>13. \A x \in deps : x \in visited \/ \E i \in DOMAIN found : found[i].id = x
  <2>1. DOMAIN found = DOMAIN new /\ \A i \in DOMAIN new : found[i].id = new[i]
    BY <1>9
  <2>2. ASSUME NEW x \in deps, x \notin visited PROVE \E i \in DOMAIN found : found[i].id = x
    <3>1. x \in ids
      BY <1>5, <2>2
    <3>2. PICK i \in DOMAIN new : new[i] = x
      BY <1>7, <3>1
    <3> QED
      BY <2>1, <3>2
  <2> QED
    BY <2>2
<1> QED
  BY <1>10, <1>11, <1>12, <1>13 DEF AreNewItems

\* What one more element makes of a sequence.
LEMMA Appended ==
    ASSUME NEW S, NEW p \in Seq(S), NEW n \in Nat, Len(p) = n + 1, NEW x \in S
    PROVE  /\ Len(Append(p, x)) = n + 2 /\ Append(p, x)[n + 2] = x
           /\ \A k \in 1..(n + 1) : Append(p, x)[k] = p[k]
  OBVIOUS

\* A path is continued along an edge that is there.
LEMMA PathContinues ==
    ASSUME NEW root, NEW max \in Nat, NEW given, NEW item \in Items, NEW x \in Items,
           PathIsReal(root, max, given, item), item.depth < max,
           x.depth = item.depth + 1, x.path = Append(item.path, x.id),
           \E e \in given : e[1] = x.id /\ e[3] = item.id
    PROVE  PathIsReal(root, max, given, x)
<1>1. PICK d \in Nat, p \in Seq(Nat) : d = item.depth /\ p = item.path
  BY DEF Items
<1>2. /\ Len(p) = d + 1 /\ p[1] = root /\ p[d + 1] = item.id
      /\ \A k \in 1..d : \E e \in given : e[1] = p[k + 1] /\ e[3] = p[k]
  BY <1>1 DEF PathIsReal
<1>3. x.id \in Nat
  BY DEF Items
<1>4. PICK r : r = Append(p, x.id)
  OBVIOUS
<1>5. Len(r) = d + 2 /\ r[d + 2] = x.id /\ \A k \in 1..(d + 1) : r[k] = p[k]
  BY <1>2, <1>3, <1>4, Appended
<1>6. \A k \in 1..(d + 1) : \E e \in given : e[1] = r[k + 1] /\ e[3] = r[k]
  <2> SUFFICES ASSUME NEW k \in 1..(d + 1)
               PROVE  \E e \in given : e[1] = r[k + 1] /\ e[3] = r[k]
    OBVIOUS
  <2>1. CASE k = d + 1
    BY <1>2, <1>5, <2>1
  <2>2. CASE k # d + 1
    <3>1. k \in 1..d /\ k + 1 \in 1..(d + 1)
      BY <2>2
    <3> QED
      BY <1>2, <1>5, <3>1
  <2> QED
    BY <2>1, <2>2
<1>7. x.depth = d + 1 /\ x.path = r /\ x.depth <= max
  BY <1>1, <1>4
<1>8. r[1] = root
  BY <1>2, <1>5
<1>9. d \in Nat /\ (d + 1) + 1 = d + 2
  OBVIOUS
<1>10. Len(x.path) = x.depth + 1
  BY <1>5, <1>7, <1>9
<1>11. x.path[1] = root /\ x.path[Len(x.path)] = x.id
  BY <1>5, <1>7, <1>8
<1>12. \A k \in 1..x.depth : \E e \in given : e[1] = x.path[k + 1] /\ e[3] = x.path[k]
  BY <1>6, <1>7
<1>13. x.depth <= max
  BY <1>7
<1> QED
  BY <1>10, <1>11, <1>12, <1>13, Zenon DEF PathIsReal

\* t is s when item, the head of its queue, has been expanded: found are the
\* items of those of deps that are new.
Joins(s, item, deps, found, t) ==
    /\ s.queue # <<>> /\ item = Head(s.queue)
    /\ AreNewItems(found, item, deps, s.visited)
    /\ t.queue = Tail(s.queue) \o found /\ t.visited = s.visited \cup deps
    /\ t.entries = s.entries \o found
    /\ t = [queue |-> t.queue, visited |-> t.visited, entries |-> t.entries]

\* deps are the dependents of id: the edges to them were there, and among them
\* are those along edges that are there all the time.
Dependents(deps, id, given, kept) ==
    /\ \A x \in deps : \E e \in given : e[1] = x /\ e[3] = id
    /\ \A e \in kept : e[3] = id => e[1] \in deps

\* The dependents of the head, asked for, join the queue and the entries.
LEMMA SearchExpands ==
    ASSUME NEW root, NEW max, NEW s, NEW given, NEW kept, GoodSearch(root, max, s, given, kept),
           NEW item, item.depth < max, NEW deps, Dependents(deps, item.id, given, kept),
           NEW found, NEW t, Joins(s, item, deps, found, t)
    PROVE  GoodSearch(root, max, t, given, kept)
<1>1. /\ s.queue \in Seq(Items) /\ s.entries \in Seq(Items) /\ root \in Nat /\ max \in Nat
      /\ found \in Seq(Items)
  BY DEF GoodSearch, SearchTypes, Joins, AreNewItems
<1>2. PICK rest : rest = Tail(s.queue)
  OBVIOUS
<1>3. /\ 1 \in DOMAIN s.queue /\ item = s.queue[1] /\ rest \in Seq(Items)
      /\ \A i \in DOMAIN rest : i + 1 \in DOMAIN s.queue /\ rest[i] = s.queue[i + 1]
      /\ \A i \in DOMAIN s.queue : i # 1 => i - 1 \in DOMAIN rest /\ rest[i - 1] = s.queue[i]
  <2>1. s.queue # <<>> /\ item = Head(s.queue)
    BY DEF Joins
  <2> QED
    <3>1. PICK q \in Seq(Items) : q = s.queue
      BY <1>1
    <3>2. q # <<>> /\ rest = Tail(q) /\ item = Head(q)
      BY <1>2, <2>1, <3>1
    <3>3. /\ 1 \in DOMAIN q /\ Head(q) = q[1] /\ rest \in Seq(Items)
          /\ \A i \in DOMAIN rest : i + 1 \in DOMAIN q /\ rest[i] = q[i + 1]
          /\ \A i \in DOMAIN q : i # 1 => i - 1 \in DOMAIN rest /\ rest[i - 1] = q[i]
      BY <3>2, Popped
    <3> QED
      BY ZenonT(30), <3>1, <3>2, <3>3
<1>4. /\ \A i \in DOMAIN s.queue : s.queue[i].depth \in Nat /\ i \in Nat
      /\ \A i \in DOMAIN s.entries : s.entries[i].depth \in Nat
      /\ \A i \in DOMAIN found : found[i] \in Items /\ i \in Nat
      /\ item \in Items
  BY <1>1, <1>3, ItemsOf
<1>5. PICK d \in Nat : d = item.depth
  BY <1>3, <1>4
<1>6. PICK q, es : q = rest \o found /\ es = s.entries \o found
  OBVIOUS
<1>7. t.queue = q /\ t.entries = es
  BY <1>2, <1>6 DEF Joins
<1>8. /\ q \in Seq(Items)
      /\ \A i \in DOMAIN q : \/ i \in DOMAIN rest /\ q[i] = rest[i]
                             \/ /\ i \notin DOMAIN rest /\ i - Len(rest) \in DOMAIN found
                                /\ q[i] = found[i - Len(rest)] /\ Len(rest) < i
      /\ \A i \in DOMAIN rest : i \in DOMAIN q /\ q[i] = rest[i]
      /\ \A i \in DOMAIN found : Len(rest) + i \in DOMAIN q /\ q[Len(rest) + i] = found[i]
  <2>1. rest \in Seq(Items)
    BY <1>3
  <2> QED
    BY SMTT(30), <1>1, <1>6, <2>1, Joined
<1>9. /\ es \in Seq(Items)
      /\ \A i \in DOMAIN es : \/ i \in DOMAIN s.entries /\ es[i] = s.entries[i]
                              \/ /\ i \notin DOMAIN s.entries
                                 /\ i - Len(s.entries) \in DOMAIN found
                                 /\ es[i] = found[i - Len(s.entries)] /\ Len(s.entries) < i
      /\ \A i \in DOMAIN s.entries : i \in DOMAIN es /\ es[i] = s.entries[i]
      /\ \A i \in DOMAIN found :
            Len(s.entries) + i \in DOMAIN es /\ es[Len(s.entries) + i] = found[i]
  BY SMTT(30), <1>1, <1>6, Joined
<1>10. SearchTypes(root, max, t)
  BY <1>1, <1>7, <1>8, <1>9 DEF SearchTypes, Joins
<1>11. \A i \in DOMAIN found : PathIsReal(root, max, given, found[i])
  <2> SUFFICES ASSUME NEW i \in DOMAIN found PROVE PathIsReal(root, max, given, found[i])
    OBVIOUS
  <2>1. PathIsReal(root, max, given, item)
    BY <1>3 DEF GoodSearch, EntriesAreReal
  <2>2. /\ \E e \in given : e[1] = found[i].id /\ e[3] = item.id
        /\ found[i].depth = item.depth + 1 /\ found[i].path = Append(item.path, found[i].id)
    BY DEF Joins, AreNewItems, Dependents
  <2>3. PICK x : x = found[i]
    OBVIOUS
  <2>4. PathIsReal(root, max, given, x)
    BY <1>1, <1>4, <2>1, <2>2, <2>3, PathContinues
  <2> QED
    BY <2>3, <2>4
<1>12. /\ \A i \in DOMAIN found : /\ found[i].id \in deps /\ found[i].id \notin s.visited
                                  /\ found[i].depth = d + 1
       /\ \A i, j \in DOMAIN found : found[i].id = found[j].id => i = j
       /\ \A x \in deps : x \in s.visited \/ \E i \in DOMAIN found : found[i].id = x
       /\ t.visited = s.visited \cup deps
  BY <1>5 DEF Joins, AreNewItems
<1>13. /\ \A i \in DOMAIN s.queue : PathIsReal(root, max, given, s.queue[i])
       /\ \A i \in DOMAIN s.entries : /\ PathIsReal(root, max, given, s.entries[i])
                                      /\ s.entries[i].depth # 0
       /\ \A i, j \in DOMAIN s.entries : s.entries[i].id = s.entries[j].id => i = j
       /\ \A i \in DOMAIN s.entries : s.entries[i].id # root /\ s.entries[i].id \in s.visited
       /\ root \in s.visited
       /\ \A x \in s.visited : x = root \/ \E i \in DOMAIN s.entries : s.entries[i].id = x
  BY DEF GoodSearch, EntriesAreReal
<1>14. EntriesAreReal(root, max, t, given)
  <2>1. \A i \in DOMAIN q : PathIsReal(root, max, given, q[i])
    BY <1>3, <1>8, <1>11, <1>13
  <2>2. \A i \in DOMAIN es : PathIsReal(root, max, given, es[i]) /\ es[i].depth # 0
    BY <1>9, <1>11, <1>12, <1>13
  <2>3. ASSUME NEW i \in DOMAIN es, NEW j \in DOMAIN es, es[i].id = es[j].id PROVE i = j
    <3>1. i \in Nat /\ j \in Nat /\ Len(s.entries) \in Nat
      BY <1>1, <1>9
    <3>2. CASE i \in DOMAIN s.entries /\ j \in DOMAIN s.entries
      BY <1>9, <1>13, <2>3, <3>2
    <3>3. CASE i \notin DOMAIN s.entries /\ j \notin DOMAIN s.entries
      <4>1. i - Len(s.entries) = j - Len(s.entries)
        BY <1>9, <1>12, <2>3, <3>3
      <4> QED
        BY <3>1, <4>1
    <3>4. CASE ~(i \in DOMAIN s.entries <=> j \in DOMAIN s.entries)
      BY <1>9, <1>12, <1>13, <2>3, <3>4
    <3> QED
      BY <3>2, <3>3, <3>4
  <2>4. \A i \in DOMAIN es : es[i].id # root
    BY <1>9, <1>12, <1>13
  <2>5. t.visited = {es[i].id : i \in DOMAIN es} \cup {root}
    <3>1. ASSUME NEW x \in t.visited PROVE x = root \/ \E i \in DOMAIN es : es[i].id = x
      BY <1>9, <1>12, <1>13, <3>1
    <3>2. ASSUME NEW i \in DOMAIN es PROVE es[i].id \in t.visited
      BY <1>9, <1>12, <1>13, <3>2
    <3> QED
      BY <1>12, <1>13, <3>1, <3>2
  <2> QED
    BY <1>7, <2>1, <2>2, <2>3, <2>4, <2>5 DEF EntriesAreReal
<1>15. /\ \A i, j \in DOMAIN s.queue : i <= j => s.queue[i].depth <= s.queue[j].depth
       /\ \A i \in DOMAIN s.queue : s.queue[i].depth <= d + 1 /\ d <= s.queue[i].depth
       /\ \A i \in DOMAIN s.entries : s.entries[i].depth <= d + 1
  <2>1. \A i \in DOMAIN s.queue : 1 <= i
    BY <1>1
  <2>2. s.queue # <<>>
    BY DEF Joins
  <2> QED
    BY <1>3, <1>5, <2>1, <2>2 DEF GoodSearch, QueueInOrder
<1>16. QueueInOrder(t)
  <2>1. \A i \in DOMAIN q : q[i].depth \in Nat /\ q[i].depth <= d + 1 /\ d <= q[i].depth
    <3> SUFFICES ASSUME NEW i \in DOMAIN q
                 PROVE  q[i].depth \in Nat /\ q[i].depth <= d + 1 /\ d <= q[i].depth
      OBVIOUS
    <3>1. CASE i \in DOMAIN rest
      BY <1>3, <1>4, <1>8, <1>15, <3>1
    <3>2. CASE i \notin DOMAIN rest
      <4>1. q[i].depth = d + 1
        BY <1>8, <1>12, <3>2
      <4> QED
        BY <4>1
    <3> QED
      BY <3>1, <3>2
  <2>2. ASSUME NEW i \in DOMAIN q, NEW j \in DOMAIN q, i <= j PROVE q[i].depth <= q[j].depth
    <3>1. CASE j \in DOMAIN rest
      <4>1. DOMAIN rest = 1..Len(rest) /\ Len(rest) \in Nat /\ i \in Nat /\ j \in Nat /\ 1 <= i
        BY <1>3, <1>8
      <4>2. i \in DOMAIN rest
        BY <2>2, <3>1, <4>1
      <4>3. i + 1 \in DOMAIN s.queue /\ j + 1 \in DOMAIN s.queue /\ i + 1 <= j + 1
        BY <1>3, <2>2, <3>1, <4>1, <4>2
      <4>4. q[i] = s.queue[i + 1] /\ q[j] = s.queue[j + 1]
        BY <1>3, <1>8, <3>1, <4>2
      <4> QED
        BY <1>15, <4>3, <4>4
    <3>2. CASE j \notin DOMAIN rest
      <4>1. q[j].depth = d + 1
        BY <1>8, <1>12, <3>2
      <4> QED
        BY <2>1, <4>1
    <3> QED
      BY <3>1, <3>2
  <2>3. \A i \in DOMAIN es : es[i].depth \in Nat /\ es[i].depth <= d + 1
    BY <1>4, <1>5, <1>9, <1>12, <1>15
  <2>4. (q # <<>> \/ \E i \in DOMAIN q : TRUE) => 1 \in DOMAIN q
    BY <1>8
  <2>5. ASSUME NEW i \in DOMAIN q PROVE q[i].depth <= q[1].depth + 1
    <3>1. /\ q[1].depth \in Nat /\ d <= q[1].depth
          /\ q[i].depth \in Nat /\ q[i].depth <= d + 1
      BY <2>1, <2>4
    <3> QED
      BY <3>1
  <2>6. ASSUME q # <<>>, NEW i \in DOMAIN es PROVE es[i].depth <= q[1].depth + 1
    <3>1. /\ q[1].depth \in Nat /\ d <= q[1].depth
          /\ es[i].depth \in Nat /\ es[i].depth <= d + 1
      BY <2>1, <2>3, <2>4, <2>6
    <3> QED
      BY <3>1
  <2> QED
    BY <1>7, <2>2, <2>5, <2>6 DEF QueueInOrder
<1>17. \A id, depth : FoundBy(root, s, id, depth) => FoundBy(root, t, id, depth)
  BY <1>7, <1>9 DEF FoundBy
<1>18. \A id, depth : Expanded(root, s, kept, id, depth) => Expanded(root, t, kept, id, depth)
  BY <1>17 DEF Expanded
<1>19. Expanded(root, t, kept, item.id, d)
  <2> SUFFICES ASSUME NEW e \in kept, e[3] = item.id PROVE FoundBy(root, t, e[1], d + 1)
    BY DEF Expanded
  <2>1. e[1] \in deps
    BY DEF Dependents
  <2>2. CASE e[1] \in s.visited
    <3>1. FoundBy(root, s, e[1], d + 1)
      BY <1>13, <1>15, <2>2 DEF FoundBy
    <3> QED
      BY <1>17, <3>1
  <2>3. CASE e[1] \notin s.visited
    <3>1. PICK i \in DOMAIN found : found[i].id = e[1] /\ found[i].depth = d + 1
      BY <1>12, <2>1, <2>3
    <3>2. Len(s.entries) + i \in DOMAIN es /\ es[Len(s.entries) + i] = found[i]
      BY <1>9
    <3> QED
      BY <1>7, <3>1, <3>2 DEF FoundBy
  <2> QED
    BY <2>2, <2>3
<1>20. \A id, depth : Queued(s, id, depth) =>
                          Queued(t, id, depth) \/ Expanded(root, t, kept, id, depth)
  <2> SUFFICES ASSUME NEW i \in DOMAIN s.queue
               PROVE  \/ Queued(t, s.queue[i].id, s.queue[i].depth)
                      \/ Expanded(root, t, kept, s.queue[i].id, s.queue[i].depth)
    BY DEF Queued
  <2>1. CASE i = 1
    BY <1>3, <1>5, <1>19, <2>1
  <2>2. CASE i # 1
    <3>1. i - 1 \in DOMAIN q /\ q[i - 1] = s.queue[i]
      BY <1>3, <1>8, <2>2
    <3> QED
      BY <1>7, <3>1 DEF Queued
  <2> QED
    BY <2>1, <2>2
<1>21. \A i \in DOMAIN found : Queued(t, found[i].id, found[i].depth)
  BY <1>7, <1>8 DEF Queued
<1>22. NothingForgotten(root, max, t, kept)
  <2>1. 0 < max => Queued(t, root, 0) \/ Expanded(root, t, kept, root, 0)
    BY <1>18, <1>20 DEF GoodSearch, NothingForgotten
  <2>2. \A i \in DOMAIN s.entries :
            s.entries[i].depth < max =>
                \/ Queued(t, s.entries[i].id, s.entries[i].depth)
                \/ Expanded(root, t, kept, s.entries[i].id, s.entries[i].depth)
    BY <1>18, <1>20 DEF GoodSearch, NothingForgotten
  <2>3. \A i \in DOMAIN es :
            es[i].depth < max => \/ Queued(t, es[i].id, es[i].depth)
                                 \/ Expanded(root, t, kept, es[i].id, es[i].depth)
    BY <1>9, <1>21, <2>2
  <2> QED
    BY <1>7, <2>1, <2>3 DEF NothingForgotten
<1> QED
  BY <1>10, <1>14, <1>16, <1>22 DEF GoodSearch

\* A search goes on with what it has while others leave the edges alone ...
LEMMA SearchUndisturbed ==
    ASSUME NEW d \in Clients, SearchOk(d), ops' = ops, call'[d] = call[d], edges' = edges,
           seen'[d] = seen[d], stable'[d] = stable[d]
    PROVE  SearchOk(d)'
  BY DEF SearchOk, HasSearch, Searching

\* ... and while they change them.
LEMMA SearchDisturbed ==
    ASSUME NEW d \in Clients, SearchOk(d), ops' = ops, call'[d] = call[d],
           NEW new, GraphChanges(new)
    PROVE  SearchOk(d)'
<1>1. /\ edges' = new
      /\ seen'[d] = IF Searching(d) THEN seen[d] \cup new ELSE seen[d]
      /\ stable'[d] = IF Searching(d) THEN stable[d] \cap new ELSE stable[d]
  BY DEF GraphChanges
<1>2. /\ HasSearch(d)' <=> HasSearch(d)
      /\ Searching(d)' <=> Searching(d)
  BY DEF HasSearch, Searching
<1> SUFFICES ASSUME HasSearch(d) PROVE SearchOk(d)'
  BY <1>2 DEF SearchOk
<1>3. PICK root, max, s : root = call[d].about[1] /\ max = call[d].about[2] /\ s = call[d].found
  OBVIOUS
<1>4. GoodSearch(root, max, s, seen[d], stable[d])
  BY <1>3 DEF SearchOk
<1>5. seen[d] \subseteq seen'[d] /\ stable'[d] \subseteq stable[d]
  BY <1>1
<1>6. PICK g, k, more, fewer : g = seen[d] /\ k = stable[d] /\ more = seen'[d] /\ fewer = stable'[d]
  OBVIOUS
<1>7. GoodSearch(root, max, s, more, fewer)
  BY <1>4, <1>5, <1>6, SearchSeesChange
<1>8. Searching(d) => stable'[d] \subseteq edges' /\ edges' \subseteq seen'[d]
  BY <1>1
<1> QED
  BY <1>2, <1>3, <1>6, <1>7, <1>8 DEF SearchOk

\* A request that ends or goes on without a search.
LEMMA NoSearch ==
    ASSUME NEW c \in Clients, ops[c] # "search", ops' = ops PROVE SearchOk(c)'
  BY DEF SearchOk, HasSearch

\* The steps of a request other than a search, which leave the edges alone.
LEMMA OtherRequests ==
    ASSUME Tables, SearchInv, NEW c \in Clients, ops[c] # "search", NEW r,
           call' = [call EXCEPT ![c] = r], UNCHANGED <<ops, edges, seen, stable>>
    PROVE  SearchInv'
<1>1. \A d \in Clients : d # c => call'[d] = call[d]
  BY OneMoves
<1>2. ASSUME NEW d \in Clients PROVE SearchOk(d)'
  <2>1. CASE d = c
    BY <2>1, NoSearch
  <2>2. CASE d # c
    BY <1>1, <2>2, SearchUndisturbed DEF SearchInv
  <2> QED
    BY <2>1, <2>2
<1> QED
  BY <1>2 DEF SearchInv

LEMMA SearchStartsKeepsSearches ==
    ASSUME GraphInv, SearchInv, NEW c \in Clients, SearchStarts(c) PROVE SearchInv'
<1>1. PICK project \in Projects, id \in DOMAIN components, max \in Depths :
          IF HasNode(project, id)
          THEN Continue(c, "searching", <<id, max>>,
                        [queue |-> <<[id |-> id, depth |-> 0, path |-> <<id>>]>>,
                         visited |-> {id}, entries |-> <<>>])
          ELSE Answer(c, <<id, max>>, None, "GraphComponentNotFound")
  BY DEF SearchStarts
<1>2. PICK s : s = [queue |-> <<[id |-> id, depth |-> 0, path |-> <<id>>]>>,
                    visited |-> {id}, entries |-> <<>>]
  OBVIOUS
<1>3. PICK r :
        /\ call' = [call EXCEPT ![c] = r]
        /\ \/ r = [pc |-> "searching", about |-> <<id, max>>, found |-> s, answer |-> None]
           \/ r = [pc |-> "done", about |-> <<id, max>>, found |-> None,
                   answer |-> "GraphComponentNotFound"]
  <2>1. CASE HasNode(project, id)
    BY <1>1, <1>2, <2>1 DEF Continue
  <2>2. CASE ~HasNode(project, id)
    BY <1>1, <2>2 DEF Answer
  <2> QED
    BY <2>1, <2>2
<1>4. call'[c] = r /\ \A d \in Clients : d # c => call'[d] = call[d]
  BY <1>3, OneMoves DEF GraphInv
<1>5. /\ ops' = ops /\ edges' = edges
      /\ seen'[c] = edges /\ stable'[c] = edges
      /\ \A d \in Clients : d # c => seen'[d] = seen[d] /\ stable'[d] = stable[d]
  BY DEF SearchStarts, Graph, GraphInv, Tables
<1>6. ASSUME NEW d \in Clients, d # c PROVE SearchOk(d)'
  BY <1>4, <1>5, <1>6, SearchUndisturbed DEF SearchInv
<1>7. SearchOk(c)'
  <2>1. CASE r = [pc |-> "searching", about |-> <<id, max>>, found |-> s, answer |-> None]
    <3>1. /\ call'[c].pc = "searching" /\ call'[c].about[1] = id /\ call'[c].about[2] = max
          /\ call'[c].found = s /\ call'[c].answer # "ok"
      BY <1>4, <2>1, NoneAssumption
    <3>2. id \in Nat /\ max \in Nat
      BY DepthsAssumption DEF GraphInv, Tables
    <3>3. PICK given : given = edges
      OBVIOUS
    <3>4. GoodSearch(id, max, s, given, given)
      BY <1>2, <3>2, SearchBegins
    <3> QED
      BY <1>5, <3>1, <3>3, <3>4 DEF SearchOk, Searching
  <2>2. CASE r = [pc |-> "done", about |-> <<id, max>>, found |-> None,
                  answer |-> "GraphComponentNotFound"]
    <3>1. /\ call'[c].pc = "done" /\ call'[c].found = None
          /\ call'[c].answer = "GraphComponentNotFound"
      BY <1>4, <2>2
    <3> QED
      BY <3>1 DEF SearchOk, HasSearch, Searching
  <2> QED
    BY <1>3, <2>1, <2>2
<1> QED
  BY <1>6, <1>7 DEF SearchInv

\* A search that goes on, with the state t.
LEMMA SearchMoves ==
    ASSUME Tables, SearchInv, NEW c \in Clients, At(c, "search", "searching"),
           UNCHANGED <<ops, edges, seen, stable>>,
           NEW t, Continue(c, "searching", call[c].about, t),
           NEW root, NEW max, root = call[c].about[1], max = call[c].about[2],
           GoodSearch(root, max, t, seen[c], stable[c])
    PROVE  SearchInv'
<1>1. PICK r : r = [pc |-> "searching", about |-> call[c].about, found |-> t, answer |-> None]
  OBVIOUS
<1>2. call' = [call EXCEPT ![c] = r]
  BY <1>1 DEF Continue
<1>3. call'[c] = r /\ \A d \in Clients : d # c => call'[d] = call[d]
  BY <1>2, OneMoves
<1>4. ASSUME NEW d \in Clients, d # c PROVE SearchOk(d)'
  BY <1>3, <1>4, SearchUndisturbed DEF SearchInv
<1>5. /\ call'[c].pc = "searching" /\ call'[c].about[1] = root /\ call'[c].about[2] = max
      /\ call'[c].found = t /\ call'[c].answer # "ok"
  BY <1>1, <1>3, NoneAssumption
<1>6. stable[c] \subseteq edges /\ edges \subseteq seen[c]
  BY DEF SearchInv, SearchOk, HasSearch, Searching, At
<1>7. SearchOk(c)'
  BY <1>5, <1>6 DEF SearchOk, Searching
<1> QED
  BY <1>4, <1>7 DEF SearchInv

LEMMA HopKeepsSearches ==
    ASSUME GraphInv, SearchInv, NEW c \in Clients, Hop(c) PROVE SearchInv'
<1>1. PICK root, max, s, given, kept :
          /\ root = call[c].about[1] /\ max = call[c].about[2] /\ s = call[c].found
          /\ given = seen[c] /\ kept = stable[c]
  OBVIOUS
<1>2. /\ At(c, "search", "searching") /\ s.queue # <<>>
      /\ UNCHANGED <<ops, edges, seen, stable>>
  BY <1>1 DEF Hop, Graph, History
<1>3. /\ GoodSearch(root, max, s, given, kept)
      /\ kept \subseteq edges /\ edges \subseteq given
  BY <1>1, <1>2 DEF SearchInv, SearchOk, HasSearch, Searching, At
<1>4. PICK item, deps : item = Head(s.queue) /\ deps = DirectDependents(item.id)
  OBVIOUS
<1>5. PICK new, found :
          /\ new = Ascending(deps \ s.visited)
          /\ found = ItemsBehind(item, new)
  OBVIOUS
<1>6. PICK t : t = IF item.depth >= max
                   THEN [s EXCEPT !.queue = Tail(@)]
                   ELSE [queue |-> Tail(s.queue) \o found, visited |-> s.visited \cup deps,
                         entries |-> s.entries \o found]
  OBVIOUS
<1>7. Expand(s, item) = [queue |-> Tail(s.queue) \o found, visited |-> s.visited \cup deps,
                         entries |-> s.entries \o found]
  BY <1>4, <1>5 DEF Expand, ItemsBehind
<1>8. Continue(c, "searching", call[c].about, t)
  BY <1>1, <1>4, <1>6, <1>7 DEF Hop, Continue
<1>9. item \in Items /\ item.depth \in Nat /\ max \in Nat
  <2>1. s.queue \in Seq(Items) /\ max \in Nat
    BY <1>3 DEF GoodSearch, SearchTypes
  <2>2. PICK rest : rest = Tail(s.queue)
    OBVIOUS
  <2>3. 1 \in DOMAIN s.queue /\ item = s.queue[1]
    BY <1>2, <1>4, <2>1, <2>2, Popped
  <2> QED
    BY <2>1, <2>3, ItemsOf
<1>10. GoodSearch(root, max, t, given, kept)
  <2>1. CASE item.depth >= max
    <3>1. t = [s EXCEPT !.queue = Tail(@)]
      BY <1>6, <2>1
    <3> QED
      BY <1>2, <1>3, <1>4, <2>1, <3>1, SearchPops
  <2>2. CASE item.depth < max
    <3>1. /\ t.queue = Tail(s.queue) \o found /\ t.visited = s.visited \cup deps
          /\ t.entries = s.entries \o found
          /\ t = [queue |-> t.queue, visited |-> t.visited, entries |-> t.entries]
      <4>1. PICK q, v, es : q = Tail(s.queue) \o found /\ v = s.visited \cup deps
                            /\ es = s.entries \o found
        OBVIOUS
      <4>2. t = [queue |-> q, visited |-> v, entries |-> es]
        BY <1>6, <1>9, <2>2, <4>1
      <4>3. t.queue = q /\ t.visited = v /\ t.entries = es
        BY <4>2
      <4> QED
        BY <4>1, <4>2, <4>3
    <3>2. deps \subseteq Nat /\ IsFiniteSet(deps)
      <4>1. deps \subseteq DOMAIN components
        BY <1>4 DEF DirectDependents, GraphInv, EdgesFit
      <4>2. PICK n \in Nat : DOMAIN components = 1..n
        BY DEF GraphInv, Tables
      <4>3. IsFiniteSet(1..n)
        BY FS_Interval
      <4> QED
        BY <4>1, <4>2, <4>3, FS_Subset
    <3>3. Dependents(deps, item.id, given, kept)
      <4>1. \A x \in deps : \E e \in given : e[1] = x /\ e[3] = item.id
        BY <1>3, <1>4 DEF DirectDependents
      <4>2. \A e \in kept : e[3] = item.id => e[1] \in deps
        BY <1>3, <1>4 DEF DirectDependents, GraphInv, EdgesFit
      <4> QED
        BY <4>1, <4>2 DEF Dependents
    <3>4. PICK visited : visited = s.visited
      OBVIOUS
    <3>5. AreNewItems(found, item, deps, visited)
      BY <1>5, <1>9, <3>2, <3>4, Frontier
    <3>6. Joins(s, item, deps, found, t)
      BY <1>2, <1>4, <3>1, <3>4, <3>5 DEF Joins
    <3> QED
      BY <1>3, <2>2, <3>3, <3>6, SearchExpands
  <2> QED
    BY <1>9, <2>1, <2>2
<1> QED
  BY <1>1, <1>2, <1>8, <1>10, SearchMoves DEF GraphInv

LEMMA SearchEndsKeepsSearches ==
    ASSUME GraphInv, SearchInv, NEW c \in Clients, SearchEnds(c) PROVE SearchInv'
<1>1. PICK about, found, given, kept : /\ about = call[c].about /\ found = call[c].found
                                       /\ given = seen[c] /\ kept = stable[c]
  OBVIOUS
<1>2. PICK r : r = [pc |-> "done", about |-> about, found |-> found, answer |-> "ok"]
  OBVIOUS
<1>3. /\ call' = [call EXCEPT ![c] = r] /\ At(c, "search", "searching") /\ found.queue = <<>>
      /\ UNCHANGED <<ops, edges, seen, stable>>
  BY <1>1, <1>2 DEF SearchEnds, Answer, Graph, History
<1>4. call'[c] = r /\ \A d \in Clients : d # c => call'[d] = call[d]
  BY <1>3, OneMoves DEF GraphInv
<1>5. ASSUME NEW d \in Clients, d # c PROVE SearchOk(d)'
  BY <1>3, <1>4, <1>5, SearchUndisturbed DEF SearchInv
<1>6. GoodSearch(about[1], about[2], found, given, kept)
  BY <1>1, <1>3 DEF SearchInv, SearchOk, HasSearch, Searching, At
<1>7. call'[c].pc = "done" /\ call'[c].about = about /\ call'[c].found = found
  BY <1>2, <1>4
<1>8. SearchOk(c)'
  BY <1>1, <1>3, <1>6, <1>7 DEF SearchOk, Searching
<1> QED
  BY <1>5, <1>8 DEF SearchInv

LEMMA GraphUnavailableKeepsSearches ==
    ASSUME GraphInv, SearchInv, NEW c \in Clients, GraphUnavailable(c) PROVE SearchInv'
<1>1. PICK about : about = call[c].about
  OBVIOUS
<1>2. PICK r : r = [pc |-> "done", about |-> about, found |-> None, answer |-> "GraphUnavailable"]
  OBVIOUS
<1>3. /\ call' = [call EXCEPT ![c] = r]
      /\ UNCHANGED <<ops, edges, seen, stable>>
  BY <1>1, <1>2 DEF GraphUnavailable, Answer, Graph, History
<1>4. call'[c] = r /\ \A d \in Clients : d # c => call'[d] = call[d]
  BY <1>3, OneMoves DEF GraphInv
<1>5. ASSUME NEW d \in Clients, d # c PROVE SearchOk(d)'
  BY <1>3, <1>4, <1>5, SearchUndisturbed DEF SearchInv
<1>6. call'[c].pc = "done" /\ call'[c].found = None /\ call'[c].answer = "GraphUnavailable"
  BY <1>2, <1>4
<1>7. SearchOk(c)'
  BY <1>6 DEF SearchOk, HasSearch, Searching
<1> QED
  BY <1>5, <1>7 DEF SearchInv

\* create_dependency and delete_dependency
LEMMA ChangesKeepSearches ==
    ASSUME GraphInv, SearchInv, NEW c \in Clients, Connect(c) \/ Disconnect(c) PROVE SearchInv'
<1>1. ops[c] # "search" /\ ops' = ops
  BY DEF Connect, Disconnect, At
<1>2. PICK answer : Answer(c, None, None, answer)
  BY DEF Connect, Disconnect
<1>3. PICK r : r = [pc |-> "done", about |-> None, found |-> None, answer |-> answer]
  OBVIOUS
<1>4. call' = [call EXCEPT ![c] = r]
  BY <1>2, <1>3 DEF Answer
<1>5. \A d \in Clients : d # c => call'[d] = call[d]
  BY <1>4, OneMoves DEF GraphInv
<1>6. UNCHANGED <<edges, History>> \/ \E new : GraphChanges(new)
  BY DEF Connect, Disconnect
<1>7. CASE UNCHANGED <<edges, History>>
  <2>1. UNCHANGED <<ops, edges, seen, stable>>
    BY <1>1, <1>7 DEF History
  <2> QED
    BY <1>1, <1>4, <2>1, OtherRequests DEF GraphInv
<1>8. ASSUME NEW new, GraphChanges(new) PROVE SearchInv'
  <2>1. ASSUME NEW d \in Clients PROVE SearchOk(d)'
    <3>1. CASE d = c
      BY <1>1, <3>1, NoSearch
    <3>2. CASE d # c
      BY <1>1, <1>5, <1>8, <3>2, SearchDisturbed DEF SearchInv
    <3> QED
      BY <3>1, <3>2
  <2> QED
    BY <2>1 DEF SearchInv
<1> QED
  BY <1>6, <1>7, <1>8

LEMMA NextSearchInv == GraphInv /\ SearchInv /\ [Next]_vars => SearchInv'
<1> SUFFICES ASSUME GraphInv, SearchInv, [Next]_vars PROVE SearchInv'
  OBVIOUS
<1>1. CASE UNCHANGED vars
  BY <1>1 DEF vars, SearchInv, SearchOk, HasSearch, Searching
<1>2. ASSUME NEW c \in Clients, ops[c] # "search", UNCHANGED <<ops, edges, seen, stable>>,
             \/ \E pc, about, found : Continue(c, pc, about, found)
             \/ \E about, found, answer : Answer(c, about, found, answer)
      PROVE  SearchInv'
  <2>1. PICK r : call' = [call EXCEPT ![c] = r]
    BY <1>2 DEF Continue, Answer
  <2> QED
    BY <1>2, <2>1, OtherRequests DEF GraphInv
<1>3. ASSUME NEW c \in Clients,
             \/ LookupComponent(c) \/ FlushComponent(c) \/ CommitComponent(c)
             \/ LookupVersion(c) \/ FlushVersion(c) \/ CommitVersion(c)
             \/ SyncReads(c) \/ SyncWrites(c) \/ Rollback(c)
      PROVE  SearchInv'
  <2>1. ops[c] # "search" /\ UNCHANGED <<ops, edges, seen, stable>>
    BY <1>3 DEF LookupComponent, FlushComponent, CommitComponent, LookupVersion, FlushVersion,
                CommitVersion, SyncReads, SyncWrites, Rollback, At, Graph, History
  <2>2. \/ \E pc, about, found : Continue(c, pc, about, found)
        \/ \E about, found, answer : Answer(c, about, found, answer)
    BY <1>3 DEF LookupComponent, FlushComponent, CommitComponent, LookupVersion, FlushVersion,
                CommitVersion, SyncReads, SyncWrites, Rollback
  <2> QED
    BY <1>2, <2>1, <2>2
<1>4. ASSUME NEW c \in Clients, Step(c) \/ Rollback(c) \/ GraphUnavailable(c) PROVE SearchInv'
  BY <1>3, <1>4, SearchStartsKeepsSearches, HopKeepsSearches, SearchEndsKeepsSearches,
     ChangesKeepSearches, GraphUnavailableKeepsSearches
     DEF Step
<1> QED
  BY <1>1, <1>4 DEF Next

LEMMA InitSearchInv == Init => SearchInv
  BY NoneAssumption DEF Init, NoCall, SearchInv, SearchOk, HasSearch, Searching

\* The loop invariant of BlastRadiusService.compute holds in every search,
\* while other requests add and remove edges between its queries.
THEOREM SearchInvariant == Spec => []SearchInv
  BY InitSearchInv, NextSearchInv, GraphInvariant, PTL DEF Spec

\* The blast radius lists a component once, within the depth limit and with a
\* path of that many edges from the root, all of which were there while it was
\* searched.
THEOREM PathsAreReal == Spec => []PathsWereThere
<1>1. ASSUME SearchInv PROVE PathsWereThere
  <2> SUFFICES ASSUME NEW c \in Clients, ops[c] = "search", call[c].found # None
               PROVE  LET entries == call[c].found.entries
                      IN  /\ \A i, j \in DOMAIN entries : entries[i].id = entries[j].id => i = j
                          /\ \A i \in DOMAIN entries :
                                LET e == entries[i]
                                IN  /\ e.id # call[c].about[1]
                                    /\ e.depth = Hops(e.path) /\ e.depth \in 1..call[c].about[2]
                                    /\ e.path[1] = call[c].about[1] /\ e.path[Len(e.path)] = e.id
                                    /\ \A k \in 1..Hops(e.path) :
                                          \E x \in seen[c] :
                                              x[1] = e.path[k + 1] /\ x[3] = e.path[k]
    BY DEF PathsWereThere
  <2>1. PICK root, max, s, given : /\ root = call[c].about[1] /\ max = call[c].about[2]
                                   /\ s = call[c].found /\ given = seen[c]
    OBVIOUS
  <2>2. SearchTypes(root, max, s) /\ EntriesAreReal(root, max, s, given)
    BY <1>1, <2>1 DEF SearchInv, SearchOk, HasSearch, GoodSearch
  <2>3. max \in Nat /\ s.entries \in Seq(Items)
    BY <2>2 DEF SearchTypes
  <2>4. \A i, j \in DOMAIN s.entries : s.entries[i].id = s.entries[j].id => i = j
    BY <2>2 DEF EntriesAreReal
  <2>5. ASSUME NEW i \in DOMAIN s.entries
        PROVE  LET e == s.entries[i]
               IN  /\ e.id # root
                   /\ e.depth = Hops(e.path) /\ e.depth \in 1..max
                   /\ e.path[1] = root /\ e.path[Len(e.path)] = e.id
                   /\ \A k \in 1..Hops(e.path) :
                         \E x \in given : x[1] = e.path[k + 1] /\ x[3] = e.path[k]
    <3>1. PICK e : e = s.entries[i]
      OBVIOUS
    <3>2. e.depth \in Nat /\ e.depth # 0 /\ e.id # root /\ PathIsReal(root, max, given, e)
      BY <2>2, <2>3, <3>1, ItemsOf DEF EntriesAreReal
    <3>3. Hops(e.path) = e.depth
      BY <3>2 DEF Hops, PathIsReal
    <3>4. /\ e.depth <= max /\ e.path[1] = root /\ e.path[Len(e.path)] = e.id
          /\ \A k \in 1..e.depth : \E x \in given : x[1] = e.path[k + 1] /\ x[3] = e.path[k]
      BY <3>2 DEF PathIsReal
    <3> QED
      BY <2>3, <3>1, <3>2, <3>3, <3>4
  <2> QED
    BY <2>1, <2>4, <2>5
<1> QED
  BY <1>1, SearchInvariant, PTL

\* The recursive definition of Within has a solution: what is within n hops is
\* where a walk of n steps ends that goes along an edge or stays.
LEMMA WithinIs ==
    ASSUME NEW id, NEW given, NEW W, W = Within(id, given)
    PROVE  /\ W[0] = {id}
           /\ \A n \in Nat : n # 0 =>
                 \A x \in W[n] : x \in W[n - 1] \/ \E e \in given : e[3] \in W[n - 1] /\ e[1] = x
<1> DEFINE N == {id} \cup {e[1] : e \in given}
           Along(a, b) == a = b \/ \E e \in given : e[3] = a /\ e[1] = b
           Walks(n) == {p \in [0..n -> N] : p[0] = id /\ \A k \in 1..n : Along(p[k - 1], p[k])}
           g == [n \in Nat |-> {p[n] : p \in Walks(n)}]
           Behind(S) == {e[1] : e \in {x \in given : x[3] \in S}}
<1>1. g[0] = {id}
  <2>1. \A p \in Walks(0) : p[0] = id
    OBVIOUS
  <2>2. [k \in 0..0 |-> id] \in Walks(0)
    OBVIOUS
  <2>3. g[0] = {p[0] : p \in Walks(0)}
    OBVIOUS
  <2> HIDE DEF g, Walks
  <2> QED
    BY <2>1, <2>2, <2>3
<1>2. ASSUME NEW n \in Nat, n # 0 PROVE g[n] = g[n - 1] \cup Behind(g[n - 1])
  <2>1. /\ n - 1 \in Nat
        /\ g[n] = {p[n] : p \in Walks(n)} /\ g[n - 1] = {p[n - 1] : p \in Walks(n - 1)}
    BY <1>2
  <2>2. ASSUME NEW x \in g[n] PROVE x \in g[n - 1] \/ x \in Behind(g[n - 1])
    <3>1. PICK p \in Walks(n) : x = p[n]
      BY <2>1
    <3>2. /\ p \in [0..n -> N] /\ p[0] = id /\ Along(p[n - 1], p[n])
          /\ \A k \in 1..n : Along(p[k - 1], p[k])
      BY <1>2
    <3>3. PICK r : r = [k \in 0..(n - 1) |-> p[k]]
      OBVIOUS
    <3>4. r \in Walks(n - 1) /\ r[n - 1] = p[n - 1]
      <4> HIDE DEF N, Along
      <4>1. /\ r \in [0..(n - 1) -> N] /\ r[0] = id /\ r[n - 1] = p[n - 1]
            /\ \A k \in 0..(n - 1) : r[k] = p[k]
        BY <1>2, <2>1, <3>2, <3>3
      <4>2. ASSUME NEW k \in 1..(n - 1) PROVE Along(r[k - 1], r[k])
        <5>1. k \in 1..n /\ k - 1 \in 0..(n - 1) /\ k \in 0..(n - 1)
          BY <2>1
        <5> QED
          BY <3>2, <4>1, <5>1
      <4> QED
        BY <4>1, <4>2
    <3>5. p[n - 1] \in g[n - 1]
      BY <2>1, <3>4
    <3> QED
      BY <3>1, <3>2, <3>5
  <2>3. ASSUME NEW y \in g[n - 1], NEW x \in N, Along(y, x) PROVE x \in g[n]
    <3>1. PICK p \in Walks(n - 1) : y = p[n - 1]
      BY <2>1
    <3>2. p \in [0..(n - 1) -> N] /\ p[0] = id /\ \A k \in 1..(n - 1) : Along(p[k - 1], p[k])
      OBVIOUS
    <3>3. PICK r : r = [k \in 0..n |-> IF k = n THEN x ELSE p[k]]
      OBVIOUS
    <3>4. r \in [0..n -> N] /\ r[0] = id /\ r[n] = x /\ \A k \in 0..(n - 1) : r[k] = p[k]
      BY <1>2, <3>2, <3>3
    <3> HIDE DEF Along, N
    <3>5. ASSUME NEW k \in 1..n PROVE Along(r[k - 1], r[k])
      <4>1. CASE k = n
        BY <1>2, <2>3, <3>1, <3>4, <4>1
      <4>2. CASE k # n
        <5>1. k \in 1..(n - 1) /\ k - 1 \in 0..(n - 1) /\ k \in 0..(n - 1)
          BY <1>2, <4>2
        <5> QED
          BY <3>2, <3>4, <5>1
      <4> QED
        BY <4>1, <4>2
    <3>6. r \in Walks(n)
      BY <3>4, <3>5
    <3> QED
      BY <2>1, <3>4, <3>6
  <2>4. g[n - 1] \subseteq N
    BY <2>1
  <2>5. ASSUME NEW x \in g[n - 1] PROVE x \in g[n]
    BY <2>3, <2>4
  <2>6. ASSUME NEW x \in Behind(g[n - 1]) PROVE x \in g[n]
    BY <2>3
  <2> HIDE DEF g
  <2> QED
    BY <2>2, <2>5, <2>6
<1> DEFINE Body(f) == [n \in Nat |-> IF n = 0 THEN {id} ELSE f[n - 1] \cup Behind(f[n - 1])]
<1>3. g = Body(g)
  <2>1. g = [n \in Nat |-> g[n]]
    OBVIOUS
  <2> HIDE DEF g, Behind
  <2> QED
    BY <1>1, <1>2, <2>1
<1>4. W = CHOOSE f : f = Body(f)
  BY DEF Within
<1> HIDE DEF g
<1>5. W = Body(W)
  <2> HIDE DEF Body
  <2> QED
    BY <1>3, <1>4
<1>6. W[0] = {id} /\ \A n \in Nat : n # 0 => W[n] = W[n - 1] \cup Behind(W[n - 1])
  <2> HIDE DEF Behind
  <2> QED
    BY <1>5
<1> QED
  BY <1>6

\* When the queue is empty, what depends on the root along edges that were
\* there all the time has been found, and no later than it could be.
LEMMA NothingMissed ==
    ASSUME NEW root, NEW max, NEW s, NEW given, NEW kept, GoodSearch(root, max, s, given, kept),
           s.queue = <<>>, NEW n \in 0..max, NEW id \in Within(root, kept)[n]
    PROVE  FoundBy(root, s, id, n)
<1>0. PICK W : W = Within(root, kept)
  OBVIOUS
<1> DEFINE Missed == {m \in 0..max : \E x \in W[m] : ~FoundBy(root, s, x, m)}
<1>1. max \in Nat /\ s.entries \in Seq(Items)
  BY DEF GoodSearch, SearchTypes
<1>2. /\ W[0] = {root}
      /\ \A m \in Nat : m # 0 =>
            \A x \in W[m] : x \in W[m - 1] \/ \E e \in kept : e[3] \in W[m - 1] /\ e[1] = x
  BY <1>0, WithinIs
<1>3. \A i \in DOMAIN s.entries : s.entries[i].depth \in Nat
  BY <1>1, ItemsOf
<1>4. \A x, d : ~Queued(s, x, d)
  <2>1. DOMAIN s.queue = {}
    OBVIOUS
  <2> QED
    BY <2>1 DEF Queued
<1>5. /\ 0 < max => Expanded(root, s, kept, root, 0)
      /\ \A i \in DOMAIN s.entries :
            s.entries[i].depth < max =>
                Expanded(root, s, kept, s.entries[i].id, s.entries[i].depth)
  BY <1>4 DEF GoodSearch, NothingForgotten
<1>6. ASSUME Missed # {} PROVE FALSE
  <2>1. Missed \subseteq Nat
    BY <1>1
  <2>2. PICK m \in Missed : \A k \in Missed : m <= k
    BY <1>6, <2>1, Least
  <2>3. PICK x \in W[m] : ~FoundBy(root, s, x, m)
    OBVIOUS
  <2>4. m \in Nat /\ m <= max
    BY <1>1
  <2>5. m # 0
    BY <1>2, <2>3 DEF FoundBy
  <2>6. \A y \in W[m - 1] : FoundBy(root, s, y, m - 1)
    <3>1. m - 1 \in 0..max /\ ~(m <= m - 1)
      BY <1>1, <2>4, <2>5
    <3>2. m - 1 \notin Missed
      BY <2>2, <3>1
    <3> QED
      BY <3>1, <3>2
  <2>7. CASE x \in W[m - 1]
    BY <1>3, <2>3, <2>4, <2>5, <2>6, <2>7 DEF FoundBy
  <2>8. ASSUME NEW e \in kept, e[3] \in W[m - 1], x = e[1] PROVE FALSE
    <3>1. FoundBy(root, s, e[3], m - 1)
      BY <2>6, <2>8
    <3>2. PICK d \in Nat : d <= m - 1 /\ Expanded(root, s, kept, e[3], d)
      <4>1. CASE e[3] = root
        <5>1. 0 < max /\ 0 <= m - 1
          BY <1>1, <2>4, <2>5
        <5> QED
          BY <1>5, <4>1, <5>1
      <4>2. CASE e[3] # root
        <5>1. PICK i \in DOMAIN s.entries : s.entries[i].id = e[3] /\ s.entries[i].depth <= m - 1
          BY <3>1, <4>2 DEF FoundBy
        <5>2. s.entries[i].depth \in Nat /\ s.entries[i].depth < max
          BY <1>1, <1>3, <2>4, <2>5, <5>1
        <5> QED
          BY <1>5, <5>1, <5>2
      <4> QED
        BY <4>1, <4>2
    <3>3. FoundBy(root, s, x, d + 1)
      BY <2>8, <3>2 DEF Expanded
    <3>4. \A i \in DOMAIN s.entries : s.entries[i].depth <= d + 1 => s.entries[i].depth <= m
      BY <1>3, <2>4, <3>2
    <3> QED
      BY <2>3, <3>3, <3>4 DEF FoundBy
  <2>9. x \in W[m - 1] \/ \E e \in kept : e[3] \in W[m - 1] /\ x = e[1]
    BY <1>2, <2>3, <2>4, <2>5
  <2> QED
    BY <2>7, <2>8, <2>9
<1>7. id \in W[n]
  BY <1>0
<1> QED
  BY <1>6, <1>7

\* A search that is answered misses nothing that depended on the root all the
\* while, and its depths are at most the distances along those edges.
THEOREM NothingStableIsMissed == Spec => []StableDependentsFound
<1>1. ASSUME SearchInv PROVE StableDependentsFound
  <2> SUFFICES ASSUME NEW c \in Clients, ops[c] = "search", call[c].answer = "ok",
                      NEW n \in 1..call[c].about[2],
                      NEW id \in Within(call[c].about[1], stable[c])[n] \ {call[c].about[1]}
               PROVE  \E i \in DOMAIN call[c].found.entries :
                         /\ call[c].found.entries[i].id = id
                         /\ call[c].found.entries[i].depth <= n
    BY DEF StableDependentsFound
  <2>1. PICK root, max, s, given, kept :
            /\ root = call[c].about[1] /\ max = call[c].about[2] /\ s = call[c].found
            /\ given = seen[c] /\ kept = stable[c]
    OBVIOUS
  <2>2. GoodSearch(root, max, s, given, kept) /\ max \in Nat
    BY <1>1, <2>1 DEF SearchInv, SearchOk, HasSearch, GoodSearch, SearchTypes
  <2>3. s.queue = <<>>
    BY <1>1, <2>1 DEF SearchInv, SearchOk, HasSearch
  <2>4. n \in 0..max /\ id \in Within(root, kept)[n] /\ id # root
    BY <2>1, <2>2
  <2>5. FoundBy(root, s, id, n)
    BY <2>2, <2>3, <2>4, NothingMissed
  <2> QED
    BY <2>1, <2>4, <2>5 DEF FoundBy
<1> QED
  BY <1>1, SearchInvariant, PTL

\* A search that edges, cycles and the depth limit interfere with neither
\* reports what never was nor misses what was there all along.
THEOREM BlastRadiusIsSound == Spec => []SearchSound
  BY PathsAreReal, NothingStableIsMissed, PTL DEF SearchSound

=============================================================================
