----------------------------- MODULE CacheKeys ------------------------------
(***************************************************************************)
(* The cache's bookkeeping in Redis (services/cache.py, db/redis.py): the  *)
(* data version, the tags, invalidation, warm-up and the migration of      *)
(* legacy keys, for one result of one domain, which is kept under its new  *)
(* key and under its legacy key.  Each step is one round trip to Redis;    *)
(* the operations of all workers interleave.  An error of Redis is logged  *)
(* and the operation goes on without the step.                             *)
(***************************************************************************)
EXTENDS Naturals, FiniteSets

CONSTANTS Callers,
          RouteVersion, \* the version written into the routes' keys (":v7")
          MaxData,      \* bound on the imports of new data
          MaxVersion,   \* bound on the version counter
          Faults        \* bound on the commands that fail

ASSUME CallersAssumption == Callers # {}
ASSUME BoundAssumption == {MaxData, MaxVersion, Faults} \subseteq Nat
ASSUME RouteAssumption == RouteVersion \in 1 .. MaxVersion

\* The keys of the result: v stands for "sgp:graph:<name>:v<v>", 0 for the
\* legacy "social_graph:<name>:v<RouteVersion>".  The routes name a constant
\* version, whatever the version counter says; the warm-up follows the counter.
Keys == 0 .. MaxVersion
NewKeys == Keys \ {0}

VARIABLES data,      \* generation of the graph data, from 1
          entry,     \* generation each key was computed from, 0: no entry
          lasting,   \* the entries without a time to live
          tag,       \* members of the tag's set
          version,   \* sgp:meta:data_version:graph, 0: absent
          faults,
          late,      \* history: a value older than the data was stored
          notices,   \* invalidation messages on their way to a worker
          pc, op, seen   \* each call: its step, operation and what it has read

redis == <<entry, lasting, tag, version>>
vars == <<data, redis, faults, late, notices, pc, op, seen>>

Ops == {"none", "put", "warm", "migrate", "all", "algorithm", "tag", "domain", "bump", "version"}
Steps == {"idle", "exists", "compute", "store", "register", "target", "ttl", "dump", "restore",
          "delNew", "delLegacy", "members", "delMembers", "delTag", "get", "set", "incr", "publish"}

\* Only the key that a result is stored under is ever put in its tag's set.
TypeOK == /\ data \in 1 .. MaxData + 1
          /\ entry \in [Keys -> 0 .. data]
          /\ lasting \subseteq {k \in Keys : entry[k] # 0}
          /\ tag \subseteq {RouteVersion}
          /\ version \in 0 .. MaxVersion
          /\ faults \in 0 .. Faults /\ late \in BOOLEAN /\ notices \in 0 .. 1
          /\ pc \in [Callers -> Steps] /\ op \in [Callers -> Ops]
          /\ \A c \in Callers :
               /\ seen[c].value \in 0 .. data /\ seen[c].lasts \in BOOLEAN
               /\ seen[c].key \in NewKeys /\ seen[c].keys \subseteq Keys

Nothing == [value |-> 0, lasts |-> FALSE, key |-> RouteVersion, keys |-> {}]

\* Entries of the previous release are still there under the legacy key.
Init == /\ data = 1 /\ version = 0 /\ faults = 0 /\ late = FALSE /\ notices = 0
        /\ entry \in {e \in [Keys -> {0, 1}] : \A k \in NewKeys : e[k] = 0}
        /\ lasting = {} /\ tag = {}
        /\ pc = [c \in Callers |-> "idle"] /\ op = [c \in Callers |-> "none"]
        /\ seen = [c \in Callers |-> Nothing]

-----------------------------------------------------------------------------
(* Steps                                                                   *)

\* The call goes on to the step next, or ends.
Goto(c, next) == /\ pc' = [pc EXCEPT ![c] = next]
                 /\ op' = IF next = "idle" THEN [op EXCEPT ![c] = "none"] ELSE op
                 /\ seen' = IF next = "idle" THEN [seen EXCEPT ![c] = Nothing] ELSE seen

See(c, next, what) == /\ pc' = [pc EXCEPT ![c] = next] /\ UNCHANGED op
                      /\ seen' = [seen EXCEPT ![c] = what]

\* The command is executed, or fails.
Try(effect, unchanged) == \/ effect /\ UNCHANGED faults
                          \/ faults < Faults /\ faults' = faults + 1 /\ unchanged

Store(k, generation, lasts) == /\ entry' = [entry EXCEPT ![k] = generation]
                               /\ lasting' = IF lasts THEN lasting \cup {k} ELSE lasting \ {k}
                               /\ late' = (late \/ generation < data)

Delete(keys) == /\ entry' = [k \in Keys |-> IF k \in keys THEN 0 ELSE entry[k]]
                /\ lasting' = lasting \ keys

Start(c, o, step) == /\ pc[c] = "idle"
                     /\ pc' = [pc EXCEPT ![c] = step] /\ op' = [op EXCEPT ![c] = o]
                     /\ UNCHANGED <<data, redis, faults, late, notices, seen>>

\* The operations of the module; a result is put by a request that computed it.
Operations(c) == \/ Start(c, "put", "compute") \/ Start(c, "warm", "get")
                 \/ Start(c, "migrate", "target") \/ Start(c, "algorithm", "delNew")
                 \/ Start(c, "tag", "members") \/ Start(c, "version", "get")
                 \/ Start(c, "bump", "get")

\* import_data.py, which tells the cache nothing.
NewData == data' = data + 1

\* New data is there, and then invalidate_all_graph_cache is called, as it asks to
\* be ("called after a data import"); the program leaves the call to its operator.
Import(c) == /\ pc[c] = "idle" /\ data <= MaxData /\ \A d \in Callers : op[d] # "all"
             /\ NewData
             /\ pc' = [pc EXCEPT ![c] = "delNew"] /\ op' = [op EXCEPT ![c] = "all"]
             /\ UNCHANGED <<redis, faults, late, notices, seen>>

-----------------------------------------------------------------------------
(* Versions                                                                *)

\* What a call does with the version it got: bump it, or warm its key.
Got(c, v) ==
    CASE op[c] = "bump" -> See(c, "incr", [Nothing EXCEPT !.key = v])
      [] op[c] = "warm" -> See(c, "exists", [Nothing EXCEPT !.key = v])
      [] OTHER -> Goto(c, "idle")

\* get_data_version: an absent version is set to 1, in a second command; an
\* error answers 1.
get_data_version(c) ==
    /\ UNCHANGED <<data, entry, lasting, tag, late, notices>>
    /\ \/ /\ pc[c] = "get" /\ UNCHANGED version
          /\ Try(IF version = 0 THEN Goto(c, "set") ELSE Got(c, version), Got(c, 1))
       \/ /\ pc[c] = "set" /\ Got(c, 1)
          /\ Try(version' = 1, UNCHANGED version)

\* Mutant: the version is written back from what was read.
bump_data_version_set(c) ==
    /\ UNCHANGED <<data, entry, lasting, tag, late, notices, faults>>
    /\ \/ pc[c] = "incr" /\ seen[c].key < MaxVersion /\ version' = seen[c].key + 1
          /\ Goto(c, "publish")
       \/ pc[c] = "publish" /\ Goto(c, "idle") /\ UNCHANGED version

\* bump_data_version: INCR, then the notice to the other workers.
bump_data_version(c) ==
    /\ UNCHANGED <<data, entry, lasting, tag, late>>
    /\ \/ /\ pc[c] = "incr" /\ version < MaxVersion /\ UNCHANGED notices
          /\ Try(version' = version + 1 /\ Goto(c, "publish"),
                 UNCHANGED version /\ Goto(c, "idle"))
       \/ /\ pc[c] = "publish" /\ Goto(c, "idle") /\ UNCHANGED version
          /\ Try(notices' \in {notices, 1}, UNCHANGED notices)

-----------------------------------------------------------------------------
(* Values                                                                  *)

\* warm_cache of one key, if it is absent; and a request's result, which is
\* computed and stored likewise and whose key is then registered with the tag.
warm_cache(c) ==
    /\ UNCHANGED <<data, version, notices, tag>>
    /\ \/ /\ pc[c] = "exists" /\ UNCHANGED <<entry, lasting, late>>
          /\ Try(Goto(c, IF entry[seen[c].key] # 0 THEN "idle" ELSE "compute"), Goto(c, "idle"))
       \/ /\ pc[c] = "compute" /\ UNCHANGED <<entry, lasting, late, faults>>
          /\ See(c, "store", [seen[c] EXCEPT !.value = data])
       \/ /\ pc[c] = "store"
          /\ Goto(c, IF op[c] = "put" THEN "register" ELSE "idle")
          /\ Try(Store(seen[c].key, seen[c].value, FALSE), UNCHANGED <<entry, lasting, late>>)

\* Mutant: the key is registered as the route wrote it, not as it was stored.
cache_tag_dependency_raw(c) ==
    /\ pc[c] = "register" /\ Goto(c, "idle")
    /\ Try(tag' = tag \cup {0}, UNCHANGED tag)
    /\ UNCHANGED <<data, entry, lasting, version, late, notices>>

\* cache_tag_dependencies: SADD and EXPIRE of the set.
cache_tag_dependency(c) ==
    /\ pc[c] = "register" /\ Goto(c, "idle")
    /\ Try(tag' = tag \cup {RouteVersion}, UNCHANGED tag)
    /\ UNCHANGED <<data, entry, lasting, version, late, notices>>

\* migrate_old_keys, of one key: is the target there, the TTL, DUMP, RESTORE.
\* A time to live that rounds to 0 seconds is restored as none.
migrate_old_keys(c) ==
    LET old == seen[c] IN
    /\ UNCHANGED <<data, tag, version, notices>>
    /\ \/ /\ pc[c] = "target" /\ UNCHANGED <<entry, lasting, late>>
          /\ Try(Goto(c, IF entry[old.key] # 0 \/ entry[0] = 0 THEN "idle" ELSE "ttl"),
                 Goto(c, "idle"))
       \/ /\ pc[c] = "ttl" /\ UNCHANGED <<entry, lasting, late>>
          /\ Try(IF entry[0] = 0 THEN Goto(c, "idle")
                 ELSE \E lasts \in {0 \in lasting, TRUE} : See(c, "dump", [old EXCEPT !.lasts = lasts]),
                 Goto(c, "idle"))
       \/ /\ pc[c] = "dump" /\ UNCHANGED <<entry, lasting, late>>
          /\ Try(IF entry[0] = 0 THEN Goto(c, "idle")
                 ELSE See(c, "restore", [old EXCEPT !.value = entry[0]]),
                 Goto(c, "idle"))
       \/ /\ pc[c] = "restore" /\ Goto(c, "idle")
          /\ Try(Store(old.key, old.value, old.lasts), UNCHANGED <<entry, lasting, late>>)

-----------------------------------------------------------------------------
(* Invalidation                                                            *)

\* Mutant: the legacy key is forgotten.
invalidate_cache_new(c) ==
    /\ UNCHANGED <<data, tag, version, late, notices, faults>>
    /\ \/ pc[c] = "delNew" /\ Goto(c, IF op[c] = "domain" THEN "idle" ELSE "delLegacy")
          /\ Delete(NewKeys)
       \/ pc[c] = "delLegacy" /\ Goto(c, "members") /\ UNCHANGED <<entry, lasting>>

\* invalidate_cache: SCAN for the pattern of the new keys, then of the legacy
\* keys, deleting what is found.  The step is the DEL: what it finds is what the
\* SCAN saw, and a key stored between the two counts as stored after it.
invalidate_cache(c) ==
    /\ UNCHANGED <<data, tag, version, late, notices>>
    /\ \/ /\ pc[c] = "delNew" /\ Goto(c, IF op[c] = "domain" THEN "idle" ELSE "delLegacy")
          /\ Try(Delete(NewKeys), UNCHANGED <<entry, lasting>>)
       \/ /\ pc[c] = "delLegacy" /\ Goto(c, "members")
          /\ Try(Delete({0}), UNCHANGED <<entry, lasting>>)

\* invalidate_by_tag: SMEMBERS, DEL of the members, DEL of the set.
invalidate_by_tag(c) ==
    LET next == IF op[c] = "all" THEN "incr" ELSE "idle" IN
    /\ UNCHANGED <<data, version, late, notices>>
    /\ \/ /\ pc[c] = "members" /\ UNCHANGED <<entry, lasting, tag>>
          /\ Try(IF tag = {} THEN Goto(c, next)
                 ELSE See(c, "delMembers", [Nothing EXCEPT !.keys = tag]), Goto(c, next))
       \/ /\ pc[c] = "delMembers" /\ UNCHANGED tag
          /\ Try(Delete(seen[c].keys) /\ Goto(c, "delTag"),
                 UNCHANGED <<entry, lasting>> /\ Goto(c, next))
       \/ /\ pc[c] = "delTag" /\ Goto(c, next) /\ UNCHANGED <<entry, lasting>>
          /\ Try(tag' = {}, UNCHANGED tag)

\* on_cache_invalid: a notice names the domain, whose new keys are deleted.
on_cache_invalid(c) == /\ pc[c] = "idle" /\ notices > 0
                       /\ notices' = notices - 1
                       /\ pc' = [pc EXCEPT ![c] = "delNew"] /\ op' = [op EXCEPT ![c] = "domain"]
                       /\ UNCHANGED <<data, redis, faults, late, seen>>

\* An entry with a time to live expires.
Expire == \E k \in Keys \ lasting :
    /\ entry[k] # 0 /\ Delete({k})
    /\ UNCHANGED <<data, tag, version, faults, late, notices, pc, op, seen>>

Step(c) == \/ get_data_version(c) \/ bump_data_version(c) \/ warm_cache(c)
           \/ cache_tag_dependency(c) \/ migrate_old_keys(c) \/ invalidate_cache(c)
           \/ invalidate_by_tag(c)

Next == Expire \/ \E c \in Callers : Operations(c) \/ Import(c) \/ on_cache_invalid(c) \/ Step(c)

Spec == Init /\ [][Next]_vars

-----------------------------------------------------------------------------
(* Properties                                                              *)

\* invalidate_all_graph_cache after an import: once it is done, no entry is
\* older than the data under either key, unless a command failed or a value
\* read before the import (by a computation or a migration) was stored late.
NothingOldRemains ==
    (\A c \in Callers : op[c] # "all") /\ faults = 0 /\ ~late
    => \A k \in Keys : entry[k] \in {0, data}

\* The version goes back only by the SET of a reader that had found none, never
\* by a bump, however many run at once: old keys would come alive again.
VersionGrows == [][version' < version => \E c \in Callers : pc[c] = "set"]_vars

=============================================================================
