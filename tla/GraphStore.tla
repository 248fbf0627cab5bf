----------------------------- MODULE GraphStore -----------------------------
(***************************************************************************)
(* The graph in Neo4j (services/neo4j_service.py, import_data.py,          *)
(* db/neo4j_schema.py): the import of the edge list, the synchronisation   *)
(* of the engine's results, the pages of the topology that a client walks  *)
(* through, the schema, and the queries.  A step is one statement, which   *)
(* is one transaction; statements of different calls interleave.  The      *)
(* synchronisations, the walk and the schema write nothing that the others *)
(* read, so a behaviour follows one of them, beside the imports.           *)
(***************************************************************************)
EXTENDS Naturals, FiniteSets, Sequences, Functions

CONSTANTS File,        \* the edge list: a sequence of pairs of user ids
          BatchSize,   \* edges per statement of the import
          PageSize,
          Rank,        \* what the engine's PageRank answers for each user
          Fields,      \* the scores that users carry, PageRank among them
          Statements,  \* the statements of the schema: 1 .. Statements
          Syncs,       \* synchronisations in flight
          MaxLimit,    \* bound on the recommendations asked for
          MaxSyncs, MaxImports, MaxFailures   \* bounds on their number, and on failures

Edges == Range(File)
Users == {e[1] : e \in Edges} \cup {e[2] : e \in Edges}
None == 0

ASSUME FileAssumption == File \in Seq(Nat \X Nat)
\* Nobody is listed as a friend of himself.
ASSUME FriendsAssumption == \A e \in Edges : e[1] # e[2]
ASSUME ResultAssumption == Rank \in [Users -> Nat \ {0}] /\ "pagerank" \in Fields
ASSUME SizeAssumption == /\ {BatchSize, PageSize} \subseteq Nat \ {0}
                         /\ {Statements, MaxLimit, MaxSyncs, MaxImports, MaxFailures} \subseteq Nat

VARIABLES users, knows,     \* the User nodes, the KNOWS relationships
          score,            \* score[u][f]: the run that wrote property f of u
          imports, offset,  \* imports begun; edges read by the one under way
          runs, stage, result, run,   \* synchronisations: begun, and each one
          at, page, pages, got, moved,   \* the walk through the pages
          schema, doing, created, errors, status, \* initialize_schema
          failures, follows

graph == <<users, knows, score>>
import == <<imports, offset>>
sync == <<runs, stage, result, run>>
walk == <<at, page, pages, got, moved>>
admin == <<schema, doing, created, errors, status>>
graphVars == <<graph, import, sync, walk, admin, failures, follows>>

NoScores == [f \in Fields |-> None]
Unscored == [u \in Users |-> NoScores]

\* The last import read the file to its end, or broke off (or there was none).
Done == Len(File) + 1
Ended == Len(File) + 2

GraphTypeOK == /\ users \subseteq Users /\ knows \subseteq Edges
               /\ \A e \in knows : {e[1], e[2]} \subseteq users
               /\ score \in [Users -> [Fields -> 0 .. MaxSyncs]]
               /\ \A u \in Users \ users : score[u] = NoScores
               /\ imports \in 0 .. MaxImports /\ offset \in 0 .. Ended
               /\ stage \in [Syncs -> {"idle", "write", "group"}]
               /\ run \in [Syncs -> 0 .. runs] /\ runs \in 0 .. MaxSyncs
               /\ result \in [Syncs -> SUBSET Fields]
               /\ at \in {"idle", "count", "nodes", "links", "end"}
               /\ page \in 1 .. Len(File) + 1 /\ pages \in 1 .. Len(File) + 1
               /\ got \in Seq(Edges) /\ moved \in BOOLEAN
               /\ schema \subseteq 1 .. Statements /\ doing \in 0 .. Statements + 1
               /\ {created, errors} \subseteq Nat
               /\ created + errors <= (IF doing = 0 THEN Statements ELSE doing - 1)
               /\ status \in {"none", "success", "partial", "error"}
               /\ failures \in 0 .. MaxFailures /\ follows \in {"sync", "walk", "schema"}

GraphInit == /\ users = {} /\ knows = {} /\ score = Unscored
             /\ imports = 0 /\ offset = Ended
             /\ runs = 0 /\ stage = [s \in Syncs |-> "idle"] /\ run = [s \in Syncs |-> 0]
             /\ result = [s \in Syncs |-> {}]
             /\ at = "idle" /\ page = 1 /\ pages = 1 /\ got = <<>> /\ moved = FALSE
             /\ schema = {} /\ doing = 0 /\ created = 0 /\ errors = 0 /\ status = "none"
             /\ failures = 0 /\ follows \in {"sync", "walk", "schema"}

Fault == failures < MaxFailures /\ failures' = failures + 1

-----------------------------------------------------------------------------
(* import_graph_to_neo4j                                                   *)

\* Everything is deleted before the file is opened; it may not be there.
Wipe == /\ offset \in {Done, Ended} /\ imports < MaxImports
        /\ imports' = imports + 1
        /\ \/ /\ users' = {} /\ knows' = {} /\ score' = Unscored /\ moved' = TRUE
              /\ \/ offset' = (IF File = <<>> THEN Done ELSE 0) /\ UNCHANGED failures
                 \/ offset' = Ended /\ Fault
           \/ offset' = Ended /\ Fault /\ UNCHANGED <<graph, moved>>
        /\ UNCHANGED <<sync, at, page, pages, got, admin>>

Upto == IF offset + BatchSize < Len(File) THEN offset + BatchSize ELSE Len(File)
Batch == {File[i] : i \in offset + 1 .. Upto}

\* Mutant: only batches that are full are merged.
LoadFull == /\ offset < Len(File)
            /\ IF Upto = offset + BatchSize
               THEN /\ knows' = knows \cup Batch
                    /\ users' = users \cup {e[1] : e \in Batch} \cup {e[2] : e \in Batch}
                    /\ offset' = (IF Upto = Len(File) THEN Done ELSE Upto)
               ELSE offset' = Done /\ UNCHANGED <<users, knows>>
            /\ moved' = TRUE /\ UNCHANGED failures
            /\ UNCHANGED <<score, imports, sync, at, page, pages, got, admin>>

\* One batch is merged; a failing statement ends the import where it is.
Load == /\ offset < Len(File)
        /\ \/ /\ knows' = knows \cup Batch
              /\ users' = users \cup {e[1] : e \in Batch} \cup {e[2] : e \in Batch}
              /\ offset' = IF Upto = Len(File) THEN Done ELSE Upto
              /\ moved' = TRUE /\ UNCHANGED failures
           \/ offset' = Ended /\ Fault /\ UNCHANGED <<users, knows, moved>>
        /\ UNCHANGED <<score, imports, sync, at, page, pages, got, admin>>

import_graph_to_neo4j == Wipe \/ Load

-----------------------------------------------------------------------------
(* sync_all_algorithm_results                                              *)

\* The engine's algorithms run at once and any of them may fail: those that
\* answer scores, and the community search.  Collecting the communities raises a
\* KeyError (their items hold no "score"), which ends the synchronisation; it
\* goes on only if the community search has failed.
Collect(s) ==
    /\ stage[s] = "idle" /\ runs < MaxSyncs
    /\ runs' = runs + 1 /\ run' = [run EXCEPT ![s] = runs + 1]
    /\ result' \in {[result EXCEPT ![s] = scored] : scored \in SUBSET Fields}
    /\ \E communities \in BOOLEAN :
         stage' = IF communities THEN stage ELSE [stage EXCEPT ![s] = "write"]
    /\ UNCHANGED <<graph, import, walk, admin, failures>>

\* Mutant: SET u += update, which leaves what a failed algorithm had written.
batch_update_adding(s) ==
    /\ stage[s] = "write" /\ stage' = [stage EXCEPT ![s] = "group"]
    /\ score' = [u \in Users |-> [f \in Fields |-> IF u \in users /\ f \in result[s] THEN run[s]
                                                   ELSE score[u][f]]]
    /\ UNCHANGED <<users, knows, import, runs, result, run, walk, admin, failures>>

\* batch_update_algorithm_results: one statement sets all properties of every
\* user that has any result, those of a failed algorithm to null.  One whose
\* answer is lost is executed again; after the last attempt (the error is
\* logged) it counts as an update of no rows.
batch_update_algorithm_results(s) ==
    /\ stage[s] = "write"
    /\ \/ /\ score' = IF result[s] = {} THEN score
                      ELSE [u \in Users |->
                               [f \in Fields |-> IF u \in users /\ f \in result[s] THEN run[s]
                                                 ELSE None]]
          /\ \/ stage' = [stage EXCEPT ![s] = "group"] /\ UNCHANGED failures
             \/ Fault /\ UNCHANGED stage
       \/ Fault /\ stage' = [stage EXCEPT ![s] = "group"] /\ UNCHANGED score
    /\ UNCHANGED <<users, knows, import, runs, result, run, walk, admin>>

\* _sync_community_nodes: no user has a community_id, so it makes no Community.
_sync_community_nodes(s) ==
    /\ stage[s] = "group" /\ stage' = [stage EXCEPT ![s] = "idle"]
    /\ UNCHANGED <<graph, import, runs, result, run, walk, admin, failures>>

sync_all_algorithm_results(s) ==
    Collect(s) \/ batch_update_algorithm_results(s) \/ _sync_community_nodes(s)

-----------------------------------------------------------------------------
(* The pages of the topology                                               *)

\* ORDER BY: the elements of S in the order of the pairs in before.
InOrder(S, before) ==
    [i \in 1 .. Cardinality(S) |->
        CHOOSE x \in S : Cardinality({y \in S : <<y, x>> \in before}) = i - 1]

\* ORDER BY u.id, v.id
Sorted(S) == InOrder(S, {p \in S \X S : \/ p[1][1] < p[2][1]
                                      \/ (p[1][1] = p[2][1] /\ p[1][2] < p[2][2])})

\* Mutant: an empty graph has no page.
PagesNone(n) == (n + PageSize - 1) \div PageSize

PagesOf(n) == LET p == (n + PageSize - 1) \div PageSize IN IF p > 1 THEN p ELSE 1

\* SKIP and LIMIT
Cut(links, skip) == LET last == skip + PageSize IN
                    SubSeq(links, skip + 1, IF last < Len(links) THEN last ELSE Len(links))

\* Mutant: pages are counted from 0.
PageFromZero(links, p) == Cut(links, p * PageSize)

Page(links, p) == Cut(links, (p - 1) * PageSize)

Walk == /\ at \in {"idle", "end"}
        /\ at' = "count" /\ page' = 1 /\ pages' = 1 /\ got' = <<>> /\ moved' = FALSE
        /\ UNCHANGED <<graph, import, sync, admin, failures>>

\* The answer to the request for a page; the client asks for the next one.
Answer(links, total, p) ==
    /\ got' = got \o Page(links, p)
    /\ IF p < total THEN at' = "count" /\ page' = p + 1 ELSE at' = "end" /\ page' = p

\* get_topology_paginated: the counts of edges and of nodes and the page are three
\* statements; after an error the page is cut from the engine's list, in another order.
get_topology_paginated ==
    /\ \/ /\ at = "count" /\ at' = "nodes" /\ pages' = PagesOf(Cardinality(knows))
          /\ page' = (IF page < pages' THEN page ELSE pages')
          /\ UNCHANGED <<got, moved, failures>>
       \/ /\ at = "nodes" /\ at' = "links"
          /\ UNCHANGED <<page, pages, got, moved, failures>>
       \/ /\ at = "links" /\ Answer(Sorted(knows), pages, page)
          /\ UNCHANGED <<pages, moved, failures>>
       \/ /\ at \in {"count", "nodes", "links"} /\ Fault /\ moved' = TRUE
          /\ pages' = PagesOf(Len(File))
          /\ Answer(File, pages', IF page < pages' THEN page ELSE pages')
    /\ UNCHANGED <<graph, import, sync, admin>>

-----------------------------------------------------------------------------
(* initialize_schema                                                       *)

\* Without a driver it ends at once.
StartSchema == /\ doing = 0 /\ created' = 0 /\ errors' = 0
               /\ \/ doing' = 1 /\ status' = "none" /\ UNCHANGED failures
                  \/ Fault /\ status' = "error" /\ UNCHANGED doing
               /\ UNCHANGED schema

\* Each statement is IF NOT EXISTS.  One that meets an equivalent index of another
\* name is skipped; any other error is noted; the next one is tried.
Create == /\ doing \in 1 .. Statements /\ doing' = doing + 1 /\ UNCHANGED status
          /\ \/ /\ schema' = schema \cup {doing} /\ created' = created + 1
                /\ UNCHANGED <<errors, failures>>
             \/ UNCHANGED <<schema, created, errors, failures>>
             \/ Fault /\ errors' = errors + 1 /\ UNCHANGED <<schema, created>>

Report == /\ doing = Statements + 1 /\ doing' = 0
          /\ status' = (IF errors = 0 THEN "success"
                        ELSE IF created > 0 THEN "partial" ELSE "error")
          /\ UNCHANGED <<schema, created, errors, failures>>

initialize_schema == (StartSchema \/ Create \/ Report) /\ UNCHANGED <<graph, import, sync, walk>>

-----------------------------------------------------------------------------
(* The queries                                                             *)

\* The sum of the numbers f[x]: each stands for as many pairs.
Total(f) == Cardinality(UNION {{x} \X (1 .. f[x]) : x \in DOMAIN f})

Neighbours(u) == {v \in users : <<u, v>> \in knows \/ <<v, u>> \in knows}

\* get_graph_statistics_neo4j: total_edges
TotalEdges == Total([u \in users |-> Cardinality(Neighbours(u))]) \div 2

Common(u, v) == Cardinality(Neighbours(u) \cap Neighbours(v))
HasRank(v) == score[v]["pagerank"] # None
Stored(v) == IF HasRank(v) THEN Rank[v] ELSE 0

\* ORDER BY and LIMIT n: the elements of S that fewer than n others come before.
First(S, before, n) == {x \in S : Cardinality({y \in S : <<y, x>> \in before}) < n}

Strangers(u) == {v \in users \ (Neighbours(u) \cup {u}) : Common(u, v) > 0}

\* By PageRank, descending, where null is the greatest.
Above(v, w) == HasRank(w) /\ (~HasRank(v) \/ Rank[v] > Rank[w])

\* Mutant: ORDER BY without DESC.
CandidatesAscending(u, limit) ==
    LET Before(v, w) == \/ Common(u, v) < Common(u, w)
                        \/ Common(u, v) = Common(u, w) /\ v < w
    IN First(Strangers(u), {p \in Strangers(u) \X Strangers(u) : Before(p[1], p[2])}, limit)

\* get_friend_recommendations: by common friends, then by PageRank.  The order of
\* equals is any; by id here.
Candidates(u, limit) ==
    LET Before(v, w) == \/ Common(u, v) > Common(u, w)
                        \/ /\ Common(u, v) = Common(u, w)
                           /\ \/ Above(v, w)
                              \/ ~Above(w, v) /\ v < w
    IN First(Strangers(u), {p \in Strangers(u) \X Strangers(u) : Before(p[1], p[2])}, limit)

\* Whether the engine is asked, and answers: a candidate has no PageRank.
Asked(found, engine) == engine /\ \E w \in found : Stored(w) = 0

\* The rank that counts.
Ranked(asked, v) == IF asked THEN Rank[v] ELSE Stored(v)

\* combined_score in hundredths, of a PageRank in thousandths: nothing is left to round.
Combined(common, rank) == common * (100 + rank)

\* scenario_a_friend_recommendation
Recommended(u, limit, engine) ==
    LET found == Candidates(u, 2 * limit)
        asked == Asked(found, engine)
        Value(v) == Combined(Common(u, v), Ranked(asked, v))
        Before(v, w) == Value(v) > Value(w) \/ (Value(v) = Value(w) /\ v < w)
    IN First(found, {p \in found \X found : Before(p[1], p[2])}, limit)

-----------------------------------------------------------------------------
GraphNext == /\ \/ import_graph_to_neo4j
                \/ follows = "sync" /\ \E s \in Syncs : sync_all_algorithm_results(s)
                \/ follows = "walk" /\ (Walk \/ get_topology_paginated)
                \/ follows = "schema" /\ initialize_schema
             /\ UNCHANGED follows

GraphSpec == GraphInit /\ [][GraphNext]_graphVars

-----------------------------------------------------------------------------
(* Properties                                                              *)

\* The scores that users carry are the results of one synchronisation, all fields
\* of all users, however synchronisations and imports interleave and whichever
\* algorithms and statements fail or are executed twice.
ScoresOfOneRun ==
    \A u, v \in Users, f, g \in Fields :
        None \in {score[u][f], score[v][g]} \/ score[u][f] = score[v][g]

\* A synchronisation goes on from the results of the engine to the write.
SyncGoesOn ==
    [][\A s \in Syncs : stage[s] = "idle" /\ run'[s] # run[s] => stage'[s] = "write"]_graphVars

\* A client that walks through the pages of a graph that does not change
\* meanwhile, and is not cut over to the engine, gets every edge once.
WalkIsComplete == at = "end" /\ ~moved => Len(got) = Cardinality(knows) /\ Range(got) = knows

\* After an import that came to its end the statistics count every friendship of
\* the file once, in however many batches it came, whichever imports broke off
\* before, and though the file may list a friendship from both ends.
ImportIsCounted ==
    offset = Done => TotalEdges = Cardinality({{e[1], e[2]} : e \in Edges})

\* Ranking in two phases (twice the limit by common friends, then by the
\* combined score) leaves out nobody who has more common friends and no lower
\* PageRank than somebody recommended.
NobodyIsPassedOver ==
    \A u \in users, engine \in BOOLEAN, limit \in 1 .. MaxLimit :
        LET chosen == Recommended(u, limit, engine)
            asked == Asked(Candidates(u, 2 * limit), engine)
        IN \A v \in chosen, w \in users \ (chosen \cup Neighbours(u) \cup {u}) :
             Common(u, w) > Common(u, v) => Ranked(asked, w) < Ranked(asked, v)
=============================================================================
