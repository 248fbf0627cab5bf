----------------------------- MODULE DataProofs ------------------------------
(***************************************************************************)
(* Proofs about the data the middleware keeps: the cache's bookkeeping in  *)
(* Redis (CacheKeys: its type invariant, that nothing older than the data  *)
(* remains after an import, and what moves the version back), and the      *)
(* graph in Neo4j (GraphStore: its type invariant, the scores of the users,  *)
(* the walk through the pages, the recommendations and the import).        *)
(* Each theorem is about one of the two specifications, which Data runs     *)
(* beside each other: they share nothing.                                  *)
(***************************************************************************)
EXTENDS Data, FiniteSetTheorems, FunctionTheorems, SequenceTheorems, TLAPS

-----------------------------------------------------------------------------
(* Types                                                                   *)

\* What a call may have read, and what a migration restores: never an entry that
\* was not there, which is why a lasting key always has an entry.
Seen == [value : 0 .. data, lasts : BOOLEAN, key : NewKeys, keys : SUBSET Keys]
CallTypes == /\ pc \in [Callers -> Steps] /\ op \in [Callers -> Ops] /\ seen \in [Callers -> Seen]
             /\ \A c \in Callers : pc[c] = "restore" => seen[c].value # 0
EntryTypes == /\ entry \in [Keys -> 0 .. data] /\ lasting \subseteq {k \in Keys : entry[k] # 0}
              /\ late \in BOOLEAN
RestTypes == /\ data \in 1 .. MaxData + 1 /\ tag \subseteq {RouteVersion} /\ version \in 0 .. MaxVersion
             /\ faults \in 0 .. Faults /\ notices \in 0 .. 1
KeysInv == CallTypes /\ EntryTypes /\ RestTypes

LEMMA KeysInvTypes == KeysInv => TypeOK
BY DEF KeysInv, CallTypes, EntryTypes, RestTypes, TypeOK, Seen

\* The keys of the result, and the numbers that bound it.
LEMMA KeyFacts ==
    /\ MaxVersion \in Nat /\ MaxData \in Nat /\ Faults \in Nat /\ RouteVersion \in NewKeys
    /\ 1 \in NewKeys /\ 0 \in Keys /\ NewKeys \subseteq Keys /\ NewKeys = 1 .. MaxVersion
BY BoundAssumption, RouteAssumption DEF BoundAssumption, RouteAssumption, NewKeys, Keys

LEMMA NothingIsSeen ==
    ASSUME data \in Nat
    PROVE  Nothing \in Seen
BY KeyFacts DEF Nothing, Seen

\* The two ways for a call to go on.
LEMMA GotoTypes ==
    ASSUME CallTypes, data \in Nat, data' = data, NEW c \in Callers,
           NEW next \in Steps \ {"restore"}, Goto(c, next)
    PROVE  CallTypes'
<1>1. Nothing \in Seen /\ Seen' = Seen
  BY NothingIsSeen DEF Seen
<1>2. pc' = [pc EXCEPT ![c] = next] /\ op' \in {op, [op EXCEPT ![c] = "none"]}
      /\ seen' \in {seen, [seen EXCEPT ![c] = Nothing]}
  BY DEF Goto
<1>3. "none" \in Ops
  BY DEF Ops
<1>4. pc' \in [Callers -> Steps] /\ op' \in [Callers -> Ops] /\ seen' \in [Callers -> Seen]
  BY <1>1, <1>2, <1>3 DEF CallTypes
<1>5. \A d \in Callers : pc'[d] = "restore" => pc[d] = "restore" /\ seen'[d] = seen[d]
  BY <1>2 DEF CallTypes
<1> QED
  BY <1>1, <1>4, <1>5 DEF CallTypes

LEMMA SeeTypes ==
    ASSUME CallTypes, data' = data, NEW c \in Callers, NEW next \in Steps, NEW what \in Seen,
           See(c, next, what), next = "restore" => what.value # 0
    PROVE  CallTypes'
<1>1. pc' = [pc EXCEPT ![c] = next] /\ op' = op /\ seen' = [seen EXCEPT ![c] = what] /\ Seen' = Seen
  BY DEF See, Seen
<1>2. \A d \in Callers : /\ pc'[d] = IF d = c THEN next ELSE pc[d]
                         /\ seen'[d] = IF d = c THEN what ELSE seen[d]
  BY <1>1 DEF CallTypes
<1> QED
  BY <1>1, <1>2 DEF CallTypes

\* What is put in the cache and what is deleted.
LEMMA StoreTypes ==
    ASSUME EntryTypes, data \in Nat, data' = data, NEW k \in Keys, NEW g \in 0 .. data, NEW lasts \in BOOLEAN,
           lasts => g # 0, Store(k, g, lasts)
    PROVE  EntryTypes'
<1>1. entry' = [entry EXCEPT ![k] = g] /\ lasting' \subseteq lasting \cup {k} /\ late' \in BOOLEAN
      /\ (k \in lasting' => lasts)
  BY DEF Store, EntryTypes
<1>2. \A j \in Keys : entry'[j] = IF j = k THEN g ELSE entry[j]
  BY <1>1 DEF EntryTypes
<1> QED
  BY <1>1, <1>2 DEF EntryTypes

LEMMA DeleteTypes ==
    ASSUME EntryTypes, data \in Nat, UNCHANGED <<data, late>>, NEW S, Delete(S)
    PROVE  EntryTypes'
<1>1. /\ entry' = [k \in Keys |-> IF k \in S THEN 0 ELSE entry[k]] /\ lasting' = lasting \ S
      /\ 0 \in 0 .. data
  BY DEF Delete
<1> QED
  BY <1>1 DEF EntryTypes

\* A step of a call that is under way: what it touches keeps its type.
LEMMA VersionTypes ==
    ASSUME KeysInv, NEW c \in Callers, get_data_version(c) \/ bump_data_version(c)
    PROVE  KeysInv'
<1> USE DEF KeysInv
<1>0. data \in Nat /\ UNCHANGED <<data, entry, lasting, tag, late>>
  BY KeyFacts DEF RestTypes, get_data_version, bump_data_version
<1>1. ASSUME NEW v \in NewKeys, Got(c, v) PROVE CallTypes'
  <2>1. [Nothing EXCEPT !.key = v] \in Seen
    BY <1>0, <1>1, NothingIsSeen DEF Seen
  <2>2. CASE op[c] \in {"bump", "warm"}
    <3>1. \E next \in {"incr", "exists"} : See(c, next, [Nothing EXCEPT !.key = v])
      BY <1>1, <2>2 DEF Got
    <3> QED
      BY <1>0, <2>1, <3>1, SeeTypes DEF Steps
  <2>3. CASE op[c] \notin {"bump", "warm"}
    <3>1. Goto(c, "idle")
      BY <1>1, <2>3 DEF Got
    <3> QED
      BY <1>0, <3>1, GotoTypes DEF Steps
  <2> QED
    BY <2>2, <2>3
<1>2. ASSUME NEW next \in {"set", "publish", "idle"}, Goto(c, next) PROVE CallTypes'
  BY <1>0, <1>2, GotoTypes DEF Steps
<1>3. CallTypes'
  <2>1. \/ \E next \in {"set", "publish", "idle"} : Goto(c, next)
        \/ Got(c, 1) \/ (version # 0 /\ Got(c, version))
    BY DEF get_data_version, bump_data_version, Try
  <2>2. version # 0 => version \in NewKeys
    BY KeyFacts DEF RestTypes
  <2> QED
    BY <1>1, <1>2, <2>1, <2>2, KeyFacts
<1>4. EntryTypes'
  BY <1>0 DEF EntryTypes
<1>5. RestTypes'
  <2>1. \/ version' \in {version, 1}
        \/ version < MaxVersion /\ version' = version + 1
    BY DEF get_data_version, bump_data_version, Try
  <2>2. faults' = faults \/ (faults < Faults /\ faults' = faults + 1)
    BY DEF get_data_version, bump_data_version, Try
  <2>3. notices' \in {notices, 1}
    BY DEF get_data_version, bump_data_version, Try
  <2> QED
    BY <1>0, <2>1, <2>2, <2>3, KeyFacts DEF RestTypes
<1> QED
  BY <1>3, <1>4, <1>5

LEMMA ValueTypes ==
    ASSUME KeysInv, NEW c \in Callers, warm_cache(c) \/ cache_tag_dependency(c) \/ migrate_old_keys(c)
    PROVE  KeysInv'
<1> USE DEF KeysInv
<1>0. /\ data \in Nat /\ data \in 0 .. data /\ UNCHANGED <<data, version, notices>>
      /\ seen[c] \in Seen /\ entry[0] \in 0 .. data
  <2>1. UNCHANGED <<data, version, notices>>
    BY DEF warm_cache, cache_tag_dependency, migrate_old_keys
  <2>2. data \in Nat /\ data \in 0 .. data
    BY KeyFacts DEF RestTypes
  <2> QED
    BY <2>1, <2>2, KeyFacts DEF CallTypes, EntryTypes
<1>1. RestTypes'
  <2>1. faults' = faults \/ (faults < Faults /\ faults' = faults + 1)
    BY DEF warm_cache, cache_tag_dependency, migrate_old_keys, Try
  <2>2. tag' \subseteq tag \cup {RouteVersion}
    BY DEF warm_cache, cache_tag_dependency, migrate_old_keys, Try
  <2> QED
    BY <1>0, <2>1, <2>2, KeyFacts DEF RestTypes
<1>2. ASSUME NEW next \in {"idle", "compute", "register", "ttl"}, Goto(c, next) PROVE CallTypes'
  BY <1>0, <1>2, GotoTypes DEF Steps
<1>3. CASE warm_cache(c)
  <2>1. CallTypes'
    <3>1. \/ \E next \in {"idle", "compute", "register"} : Goto(c, next)
          \/ See(c, "store", [seen[c] EXCEPT !.value = data])
      BY <1>3 DEF warm_cache, Try
    <3>2. [seen[c] EXCEPT !.value = data] \in Seen
      BY <1>0 DEF Seen
    <3> QED
      BY <1>0, <1>2, <3>1, <3>2, SeeTypes DEF Steps
  <2>2. EntryTypes'
    <3>1. UNCHANGED <<entry, lasting, late>> \/ Store(seen[c].key, seen[c].value, FALSE)
      BY <1>3 DEF warm_cache, Try
    <3>2. seen[c].key \in Keys /\ seen[c].value \in 0 .. data
      BY <1>0, KeyFacts DEF Seen
    <3> QED
      BY <1>0, <3>1, <3>2, StoreTypes DEF EntryTypes
  <2> QED
    BY <1>1, <2>1, <2>2
<1>4. CASE cache_tag_dependency(c)
  BY <1>0, <1>1, <1>2, <1>4 DEF cache_tag_dependency, EntryTypes
<1>5. CASE migrate_old_keys(c)
  <2>1. CallTypes'
    <3>1. \/ \E next \in {"idle", "ttl"} : Goto(c, next)
          \/ \E lasts \in {0 \in lasting, TRUE} : See(c, "dump", [seen[c] EXCEPT !.lasts = lasts])
          \/ entry[0] # 0 /\ See(c, "restore", [seen[c] EXCEPT !.value = entry[0]])
      BY <1>5 DEF migrate_old_keys, Try
    <3>2. \A lasts \in BOOLEAN : [seen[c] EXCEPT !.lasts = lasts] \in Seen
      BY <1>0 DEF Seen
    <3>3. [seen[c] EXCEPT !.value = entry[0]] \in Seen
      BY <1>0 DEF Seen
    <3>4. [seen[c] EXCEPT !.value = entry[0]].value = entry[0]
      BY <1>0 DEF Seen
    <3>5. (0 \in lasting) \in BOOLEAN /\ "dump" \in Steps /\ "restore" \in Steps /\ "dump" # "restore"
      BY DEF Steps
    <3>6. CASE \E next \in {"idle", "ttl"} : Goto(c, next)
      BY <1>2, <3>6
    <3>7. CASE \E lasts \in BOOLEAN : See(c, "dump", [seen[c] EXCEPT !.lasts = lasts])
      BY <1>0, <3>2, <3>5, <3>7, SeeTypes
    <3>8. CASE entry[0] # 0 /\ See(c, "restore", [seen[c] EXCEPT !.value = entry[0]])
      BY <1>0, <3>3, <3>4, <3>5, <3>8, SeeTypes
    <3> QED
      BY <3>1, <3>5, <3>6, <3>7, <3>8
  <2>2. EntryTypes'
    <3>1. \/ UNCHANGED <<entry, lasting, late>>
          \/ pc[c] = "restore" /\ Store(seen[c].key, seen[c].value, seen[c].lasts)
      BY <1>5 DEF migrate_old_keys, Try
    <3>2. seen[c].key \in Keys /\ seen[c].value \in 0 .. data /\ seen[c].lasts \in BOOLEAN
      BY <1>0, KeyFacts DEF Seen
    <3>3. pc[c] = "restore" => seen[c].value # 0
      BY DEF CallTypes
    <3> QED
      BY <1>0, <3>1, <3>2, <3>3, StoreTypes DEF EntryTypes
  <2> QED
    BY <1>1, <2>1, <2>2
<1> QED
  BY <1>3, <1>4, <1>5

LEMMA InvalidationTypes ==
    ASSUME KeysInv, NEW c \in Callers, invalidate_cache(c) \/ invalidate_by_tag(c)
    PROVE  KeysInv'
<1> USE DEF KeysInv
<1>0. data \in Nat /\ UNCHANGED <<data, version, late, notices>>
  <2>1. UNCHANGED <<data, version, late, notices>>
    BY DEF invalidate_cache, invalidate_by_tag
  <2> QED
    BY <2>1, KeyFacts DEF RestTypes
<1>1. RestTypes'
  <2>1. faults' = faults \/ (faults < Faults /\ faults' = faults + 1)
    BY DEF invalidate_cache, invalidate_by_tag, Try
  <2>2. tag' \subseteq tag
    BY DEF invalidate_cache, invalidate_by_tag, Try
  <2> QED
    BY <1>0, <2>1, <2>2, KeyFacts DEF RestTypes
<1>2. CallTypes'
  <2>1. \/ \E next \in {"idle", "delLegacy", "members", "delTag", "incr"} : Goto(c, next)
        \/ See(c, "delMembers", [Nothing EXCEPT !.keys = tag])
    BY DEF invalidate_cache, invalidate_by_tag, Try
  <2>2. [Nothing EXCEPT !.keys = tag] \in Seen
    <3>1. tag \in SUBSET Keys /\ Nothing \in Seen
      BY <1>0, KeyFacts, NothingIsSeen DEF RestTypes
    <3> QED
      BY <3>1 DEF Seen
  <2> QED
    BY <1>0, <2>1, <2>2, GotoTypes, SeeTypes DEF Steps
<1>3. EntryTypes'
  <2>1. UNCHANGED <<entry, lasting>> \/ \E S \in {NewKeys, {0}, seen[c].keys} : Delete(S)
    BY DEF invalidate_cache, invalidate_by_tag, Try
  <2> QED
    BY <1>0, <2>1, DeleteTypes DEF EntryTypes
<1> QED
  BY <1>1, <1>2, <1>3

\* A call begins, or an entry expires.
LEMMA StartTypes ==
    ASSUME KeysInv, NEW c \in Callers, Operations(c) \/ Import(c) \/ on_cache_invalid(c)
    PROVE  KeysInv'
<1> USE DEF KeysInv
<1>0. /\ data \in Nat /\ UNCHANGED <<entry, lasting, tag, version, faults, late, seen>>
      /\ data' = data \/ (data <= MaxData /\ data' = data + 1)
      /\ notices' = notices \/ (notices > 0 /\ notices' = notices - 1)
  BY KeyFacts DEF RestTypes, Operations, Start, Import, NewData, on_cache_invalid, redis
<1>1. \E o \in Ops, step \in Steps \ {"restore"} : /\ pc' = [pc EXCEPT ![c] = step]
                                                   /\ op' = [op EXCEPT ![c] = o]
  BY DEF Operations, Start, Import, NewData, on_cache_invalid, Ops, Steps
<1>2. 0 .. data \subseteq 0 .. data' /\ Seen \subseteq Seen'
  BY <1>0 DEF Seen
<1>3. CallTypes'
  <2>1. PICK o \in Ops, step \in Steps \ {"restore"} : /\ pc' = [pc EXCEPT ![c] = step]
                                                       /\ op' = [op EXCEPT ![c] = o]
    BY <1>1
  <2>2. pc' \in [Callers -> Steps] /\ op' \in [Callers -> Ops] /\ seen' \in [Callers -> Seen']
    BY <1>0, <1>2, <2>1 DEF CallTypes
  <2>3. \A d \in Callers : pc'[d] = "restore" => pc[d] = "restore"
    BY <2>1 DEF CallTypes
  <2> QED
    BY <1>0, <2>2, <2>3 DEF CallTypes
<1>4. EntryTypes'
  BY <1>0, <1>2 DEF EntryTypes
<1>5. RestTypes'
  BY <1>0, KeyFacts DEF RestTypes
<1> QED
  BY <1>3, <1>4, <1>5

LEMMA KeysInvStep ==
    ASSUME KeysInv, [Next]_vars
    PROVE  KeysInv'
<1>1. CASE Expire
  <2>1. PICK k \in Keys : Delete({k})
    BY <1>1 DEF Expire
  <2>2. UNCHANGED <<data, tag, version, faults, late, notices, pc, op, seen>> /\ data \in Nat
    BY <1>1, KeyFacts DEF Expire, KeysInv, RestTypes
  <2>3. EntryTypes'
    BY <2>1, <2>2, DeleteTypes DEF KeysInv
  <2> QED
    BY <2>2, <2>3 DEF KeysInv, CallTypes, RestTypes, Seen
<1>2. CASE UNCHANGED vars
  BY <1>2 DEF vars, redis, KeysInv, CallTypes, EntryTypes, RestTypes, Seen
<1> QED
  BY <1>1, <1>2, VersionTypes, ValueTypes, InvalidationTypes, StartTypes DEF Next, Step

LEMMA KeysInvStarts == Init => KeysInv
<1> SUFFICES ASSUME Init PROVE KeysInv
  OBVIOUS
<1>1. data = 1 /\ Nothing \in Seen /\ 1 \in 1 .. MaxData + 1 /\ 0 .. 1 = {0, 1}
  BY KeyFacts, NothingIsSeen DEF Init
<1>2. CallTypes
  BY <1>1 DEF Init, CallTypes, Steps, Ops
<1>3. EntryTypes
  BY <1>1 DEF Init, EntryTypes
<1>4. RestTypes
  BY <1>1, KeyFacts DEF Init, RestTypes
<1> QED
  BY <1>2, <1>3, <1>4 DEF KeysInv

\* No key but the one a result is stored under is ever put in its tag's set, and
\* only entries last: whatever the numbers of calls, imports, versions and faults.
THEOREM TypeCorrect == Spec => []TypeOK
BY KeysInvStarts, KeysInvStep, KeysInvTypes, PTL DEF Spec

-----------------------------------------------------------------------------
(* Nothing old remains                                                     *)

\* As long as nothing failed and nothing was stored late, an old entry is one that
\* the invalidation after an import has yet to come to: under a new key if the call
\* is at its first step, under the legacy key if it is at one of the first two.
Invalidates(P) == \E c \in Callers : op[c] = "all" /\ pc[c] \in P
OldInv == faults = 0 /\ ~late =>
            /\ (\E k \in NewKeys : entry[k] \notin {0, data}) => Invalidates({"delNew"})
            /\ entry[0] \notin {0, data} => Invalidates({"delNew", "delLegacy"})

\* A step that adds no old entry, of a call that does not invalidate everything.
LEMMA OldKept ==
    ASSUME OldInv, data' = data, faults' = 0 => faults = 0, ~late' => ~late, NEW c \in Callers,
           \A d \in Callers \ {c} : pc'[d] = pc[d] /\ op'[d] = op[d],
           op[c] = "all" => pc[c] \notin {"delNew", "delLegacy"},
           ~late' => \A k \in Keys : entry'[k] \in {entry[k], 0, data}
    PROVE  OldInv'
<1>1. \A P \in SUBSET {"delNew", "delLegacy"} : Invalidates(P) => Invalidates(P)'
  BY DEF Invalidates
<1> QED
  BY <1>1, KeyFacts DEF OldInv

LEMMA OldStep ==
    ASSUME KeysInv, OldInv, [Next]_vars
    PROVE  OldInv'
<1>0. /\ data \in Nat /\ faults \in Nat /\ late \in BOOLEAN /\ entry \in [Keys -> 0 .. data]
      /\ pc \in [Callers -> Steps] /\ op \in [Callers -> Ops]
  BY KeyFacts DEF KeysInv, RestTypes, EntryTypes, CallTypes
\* The calls other than c stay where they are, and c is known to be at a step.
<1>1. ASSUME NEW c \in Callers, NEW next, Goto(c, next) \/ \E what : See(c, next, what)
      PROVE  \A d \in Callers \ {c} : pc'[d] = pc[d] /\ op'[d] = op[d]
  BY <1>0, <1>1 DEF Goto, See
<1>2. ASSUME NEW S, Delete(S)
      PROVE  \A k \in Keys : entry'[k] = IF k \in S THEN 0 ELSE entry[k]
  BY <1>2 DEF Delete
<1>3. ASSUME NEW c \in Callers, get_data_version(c) \/ bump_data_version(c) PROVE OldInv'
  <2>1. /\ UNCHANGED <<data, entry, late>> /\ faults' \in {faults, faults + 1}
        /\ pc[c] \in {"get", "set", "incr", "publish"}
    BY <1>3 DEF get_data_version, bump_data_version, Try
  <2>2. \E next : Goto(c, next) \/ \E what : See(c, next, what)
    <3>1. ASSUME NEW v, Got(c, v) PROVE \E next : Goto(c, next) \/ \E what : See(c, next, what)
      BY <3>1 DEF Got
    <3>2. \/ Goto(c, "set") \/ Goto(c, "publish") \/ Goto(c, "idle")
          \/ Got(c, 1) \/ Got(c, version)
      BY <1>3 DEF get_data_version, bump_data_version, Try
    <3> QED
      BY <3>1, <3>2
  <2> QED
    BY <1>0, <1>1, <2>1, <2>2, OldKept
<1>4. ASSUME NEW c \in Callers, warm_cache(c) \/ cache_tag_dependency(c) \/ migrate_old_keys(c)
      PROVE  OldInv'
  <2>1. /\ data' = data /\ faults' \in {faults, faults + 1}
        /\ pc[c] \in {"exists", "compute", "store", "register", "target", "ttl", "dump", "restore"}
        /\ \/ UNCHANGED <<entry, late>>
           \/ Store(seen[c].key, seen[c].value, FALSE)
           \/ Store(seen[c].key, seen[c].value, seen[c].lasts)
    BY <1>4 DEF warm_cache, cache_tag_dependency, migrate_old_keys, Try
  <2>2. \E next : Goto(c, next) \/ \E what : See(c, next, what)
    BY <1>4 DEF warm_cache, cache_tag_dependency, migrate_old_keys, Try
  <2>3. seen[c].value \in 0 .. data
    BY DEF KeysInv, CallTypes, Seen
  <2>4. \/ UNCHANGED <<entry, late>>
        \/ /\ late' = (late \/ seen[c].value < data)
           /\ \A k \in Keys : entry'[k] \in {entry[k], seen[c].value}
    BY <1>0, <2>1 DEF Store
  <2>5. ~late' => ~late /\ \A k \in Keys : entry'[k] \in {entry[k], 0, data}
    <3>1. ~(seen[c].value < data) => seen[c].value = data
      BY <1>0, <2>3
    <3>2. CASE late' = (late \/ seen[c].value < data) /\ \A k \in Keys : entry'[k] \in {entry[k], seen[c].value}
      <4>1. ~late' => ~late /\ seen[c].value = data
        BY <3>1, <3>2, Zenon
      <4> QED
        BY <3>2, <4>1
    <3> QED
      BY <2>4, <3>2
  <2> QED
    BY <1>0, <1>1, <2>1, <2>2, <2>5, OldKept
<1>5. ASSUME NEW c \in Callers, invalidate_by_tag(c) PROVE OldInv'
  <2>1. /\ UNCHANGED <<data, late>> /\ faults' \in {faults, faults + 1}
        /\ pc[c] \in {"members", "delMembers", "delTag"}
        /\ entry' = entry \/ Delete(seen[c].keys)
    BY <1>5 DEF invalidate_by_tag, Try
  <2>2. \E next : Goto(c, next) \/ \E what : See(c, next, what)
    BY <1>5 DEF invalidate_by_tag, Try
  <2>3. \A d \in Callers \ {c} : pc'[d] = pc[d] /\ op'[d] = op[d]
    BY <1>1, <2>2
  <2>4. \A k \in Keys : entry'[k] \in {entry[k], 0, data}
    <3>1. CASE entry' = entry
      BY <3>1
    <3>2. CASE Delete(seen[c].keys)
      BY <1>2, <3>2
    <3> QED
      BY <2>1, <3>1, <3>2
  <2>5. /\ data' = data /\ late' = late /\ (faults' = 0 => faults = 0)
        /\ pc[c] \notin {"delNew", "delLegacy"}
    BY <1>0, <2>1
  <2> QED
    BY <2>3, <2>4, <2>5, OldKept
\* The two deletions leave nothing of what they are to delete, unless they fail.
<1>6. ASSUME NEW c \in Callers, invalidate_cache(c) PROVE OldInv'
  <2>0. UNCHANGED <<data, late>>
    BY <1>6 DEF invalidate_cache
  <2>1. CASE faults' = faults + 1
    BY <1>0, <2>1 DEF OldInv
  <2>2. CASE /\ pc[c] = "delNew" /\ Goto(c, IF op[c] = "domain" THEN "idle" ELSE "delLegacy")
             /\ Delete(NewKeys) /\ UNCHANGED faults
    <3>1. (\A k \in NewKeys : entry'[k] = 0) /\ entry'[0] = entry[0]
      BY <1>2, <2>2, KeyFacts
    <3>2. \A d \in Callers \ {c} : pc'[d] = pc[d] /\ op'[d] = op[d]
      BY <1>1, <2>2
    <3>3. op[c] = "all" => op'[c] = "all" /\ pc'[c] = "delLegacy"
      BY <1>0, <2>2 DEF Goto
    <3>4. Invalidates({"delNew", "delLegacy"}) => Invalidates({"delNew", "delLegacy"})'
      BY <3>2, <3>3 DEF Invalidates
    <3> QED
      BY <2>0, <2>2, <3>1, <3>4 DEF OldInv
  <2>3. CASE pc[c] = "delLegacy" /\ Goto(c, "members") /\ Delete({0}) /\ UNCHANGED faults
    <3>1. entry'[0] = 0 /\ \A k \in NewKeys : entry'[k] = entry[k]
      BY <1>2, <2>3, KeyFacts DEF NewKeys
    <3>2. \A d \in Callers \ {c} : pc'[d] = pc[d] /\ op'[d] = op[d]
      BY <1>1, <2>3
    <3>3. Invalidates({"delNew"}) => Invalidates({"delNew"})'
      BY <2>3, <3>2 DEF Invalidates
    <3> QED
      BY <2>0, <2>3, <3>1, <3>3 DEF OldInv
  <2> QED
    BY <1>6, <2>1, <2>2, <2>3 DEF invalidate_cache, Try
<1>7. ASSUME NEW c \in Callers, Import(c) PROVE OldInv'
  <2>1. op'[c] = "all" /\ pc'[c] = "delNew"
    BY <1>0, <1>7 DEF Import, NewData
  <2> QED
    BY <2>1 DEF OldInv, Invalidates
<1>8. ASSUME NEW c \in Callers, Operations(c) \/ on_cache_invalid(c) PROVE OldInv'
  <2>1. /\ UNCHANGED <<data, entry, faults, late>> /\ pc[c] = "idle"
        /\ \E o, step : pc' = [pc EXCEPT ![c] = step] /\ op' = [op EXCEPT ![c] = o]
    BY <1>8 DEF Operations, Start, on_cache_invalid, redis
  <2>2. \A d \in Callers \ {c} : pc'[d] = pc[d] /\ op'[d] = op[d]
    BY <1>0, <2>1
  <2> QED
    BY <2>1, <2>2, OldKept
<1>9. CASE Expire
  <2>1. PICK k \in Keys : Delete({k})
    BY <1>9 DEF Expire
  <2>2. UNCHANGED <<data, faults, late, pc, op>>
    BY <1>9 DEF Expire
  <2>3. \A j \in Keys : entry'[j] \in {entry[j], 0}
    BY <1>2, <2>1
  <2> QED
    BY <2>2, <2>3, KeyFacts DEF OldInv, Invalidates
<1>10. CASE UNCHANGED vars
  BY <1>10 DEF vars, redis, OldInv, Invalidates
<1> QED
  BY <1>3, <1>4, <1>5, <1>6, <1>7, <1>8, <1>9, <1>10 DEF Next, Step

LEMMA OldStarts == Init => OldInv
BY KeyFacts DEF Init, OldInv

\* After an import, once the invalidation is done, no entry under either key is
\* older than the data, unless a command failed or a value read before was stored
\* late: whatever else runs at the same time, and however many imports there were.
THEOREM NothingOld == Spec => []NothingOldRemains
<1>1. OldInv => NothingOldRemains
  <2> SUFFICES ASSUME OldInv, \A c \in Callers : op[c] # "all", faults = 0 /\ ~late, NEW k \in Keys
               PROVE  entry[k] \in {0, data}
    BY DEF NothingOldRemains
  <2>1. ~Invalidates({"delNew"}) /\ ~Invalidates({"delNew", "delLegacy"})
    BY DEF Invalidates
  <2> QED
    BY <2>1 DEF OldInv, NewKeys
<1> QED
  BY <1>1, KeysInvStarts, KeysInvStep, OldStarts, OldStep, PTL DEF Spec

\* The version goes back only by the SET of a reader that had found none, never by
\* a bump, however many run at once.
THEOREM VersionNeverFalls == Spec => VersionGrows
<1>1. KeysInv /\ [Next]_vars => [version' < version => \E c \in Callers : pc[c] = "set"]_vars
  <2> SUFFICES ASSUME KeysInv, Next, version' < version PROVE \E c \in Callers : pc[c] = "set"
    OBVIOUS
  <2>1. version \in Nat
    BY KeyFacts DEF KeysInv, RestTypes
  <2>2. ASSUME NEW c \in Callers, get_data_version(c), pc[c] # "set" PROVE version' = version
    BY <2>2 DEF get_data_version
  <2>3. ASSUME NEW c \in Callers, bump_data_version(c) PROVE version' \in {version, version + 1}
    BY <2>3 DEF bump_data_version, Try
  <2>4. ASSUME ~\E c \in Callers : get_data_version(c) \/ bump_data_version(c) PROVE version' = version
    BY <2>4 DEF Next, Step, Expire, Operations, Start, Import, NewData, on_cache_invalid, warm_cache,
                cache_tag_dependency, migrate_old_keys, invalidate_cache, invalidate_by_tag, redis
  <2> QED
    BY <2>1, <2>2, <2>3, <2>4
<1> QED
  BY <1>1, KeysInvStarts, KeysInvStep, PTL DEF Spec, VersionGrows
-----------------------------------------------------------------------------
(* Elements in order                                                       *)

\* before is a strict total order of S.
Orders(before, S) ==
    /\ \A x \in S : <<x, x>> \notin before
    /\ \A x, y \in S : x = y \/ <<x, y>> \in before \/ <<y, x>> \in before
    /\ \A x, y, z \in S : <<x, y>> \in before /\ <<y, z>> \in before => <<x, z>> \in before

Earlier(S, before, x) == {y \in S : <<y, x>> \in before}

\* What comes before x comes before all that x comes before.
LEMMA EarlierGrows ==
    ASSUME NEW S, IsFiniteSet(S), NEW before, NEW x \in S, NEW y \in S, <<x, y>> \in before,
           <<x, x>> \notin before,
           \A z \in S : <<z, x>> \in before => <<z, y>> \in before
    PROVE  /\ Cardinality(Earlier(S, before, x)) \in Nat
           /\ Cardinality(Earlier(S, before, y)) \in Nat
           /\ Cardinality(Earlier(S, before, x)) < Cardinality(Earlier(S, before, y))
           /\ Cardinality(Earlier(S, before, y)) <= Cardinality(S)
<1> DEFINE X == Earlier(S, before, x)
           Y == Earlier(S, before, y)
<1>1. X \subseteq Y /\ Y \subseteq S /\ x \in Y /\ x \notin X
  BY DEF Earlier
<1>2. IsFiniteSet(X) /\ IsFiniteSet(Y) /\ Cardinality(Y) <= Cardinality(S)
  BY <1>1, FS_Subset
<1>3. X \subseteq Y \ {x}
  BY <1>1
<1>4. /\ IsFiniteSet(Y \ {x}) /\ Cardinality(Y \ {x}) = Cardinality(Y) - 1
  BY <1>1, <1>2, FS_RemoveElement
<1>5. Cardinality(X) <= Cardinality(Y \ {x})
  BY <1>3, <1>4, FS_Subset
<1>6. Cardinality(X) \in Nat /\ Cardinality(Y) \in Nat
  BY <1>2, FS_CardinalityType
<1> HIDE DEF X, Y
<1>7. Cardinality(X) < Cardinality(Y)
  BY <1>4, <1>5, <1>6
<1> QED
  BY <1>2, <1>6, <1>7 DEF X, Y

\* In a total order every element has a place of its own, and every place an element.
LEMMA Places ==
    ASSUME NEW S, IsFiniteSet(S), NEW before, Orders(before, S)
    PROVE  /\ \A x \in S : Cardinality(Earlier(S, before, x)) + 1 \in 1 .. Cardinality(S)
           /\ \A x, y \in S : Cardinality(Earlier(S, before, x)) = Cardinality(Earlier(S, before, y))
                              => x = y
           /\ \A i \in 1 .. Cardinality(S) : \E x \in S : Cardinality(Earlier(S, before, x)) = i - 1
<1> DEFINE n == Cardinality(S)
           rank == [x \in S |-> Cardinality(Earlier(S, before, x)) + 1]
<1>1. n \in Nat
  BY FS_CardinalityType
<1>2. ASSUME NEW x \in S PROVE rank[x] \in 1 .. n
  <2>1. Earlier(S, before, x) \subseteq S \ {x}
    BY DEF Orders, Earlier
  <2>2. IsFiniteSet(S \ {x}) /\ Cardinality(S \ {x}) = n - 1
    BY FS_RemoveElement
  <2>3. /\ IsFiniteSet(Earlier(S, before, x))
        /\ Cardinality(Earlier(S, before, x)) <= n - 1
    BY <2>1, <2>2, FS_Subset
  <2>4. Cardinality(Earlier(S, before, x)) \in Nat
    BY <2>3, FS_CardinalityType
  <2> QED
    BY <1>1, <2>3, <2>4
<1>3. ASSUME NEW x \in S, NEW y \in S, x # y PROVE rank[x] # rank[y]
  <2>1. ASSUME NEW v \in S, NEW w \in S, <<v, w>> \in before PROVE rank[v] # rank[w]
    <3>1. /\ <<v, v>> \notin before
          /\ \A z \in S : <<z, v>> \in before => <<z, w>> \in before
      BY <2>1 DEF Orders
    <3>2. /\ Cardinality(Earlier(S, before, v)) \in Nat
          /\ Cardinality(Earlier(S, before, w)) \in Nat
          /\ Cardinality(Earlier(S, before, v)) < Cardinality(Earlier(S, before, w))
      BY <2>1, <3>1, EarlierGrows
    <3> QED
      BY <3>2
  <2>2. <<x, y>> \in before \/ <<y, x>> \in before
    BY <1>3 DEF Orders
  <2> HIDE DEF rank
  <2> QED
    BY <2>1, <2>2
<1>4. rank \in Injection(S, 1 .. n)
  <2>1. rank \in [S -> 1 .. n]
    BY <1>2
  <2> HIDE DEF rank
  <2> QED
    BY <1>3, <2>1 DEF Injection, IsInjective
<1>5. IsFiniteSet(1 .. n) /\ Cardinality(1 .. n) = n
  BY <1>1, FS_Interval
<1>6. rank \in Surjection(S, 1 .. n)
  BY <1>4, <1>5, FS_Injection
<1>7. \A i \in 1 .. n : \E x \in S : rank[x] = i
  BY <1>6 DEF Surjection
<1>8. \A x \in S : Cardinality(Earlier(S, before, x)) = rank[x] - 1
  <2>1. ASSUME NEW x \in S PROVE Cardinality(Earlier(S, before, x)) = rank[x] - 1
    <3>1. IsFiniteSet(Earlier(S, before, x))
      BY FS_Subset DEF Earlier
    <3> QED
      BY <3>1, FS_CardinalityType
  <2> QED
    BY <2>1
<1>9. \A x \in S : Cardinality(Earlier(S, before, x)) + 1 = rank[x]
  OBVIOUS
<1> HIDE DEF rank
<1>10. \A i \in 1 .. n : \E x \in S : Cardinality(Earlier(S, before, x)) = i - 1
  BY <1>7, <1>8
<1>11. \A x, y \in S : Cardinality(Earlier(S, before, x)) = Cardinality(Earlier(S, before, y)) => x = y
  BY <1>3, <1>9
<1> QED
  BY <1>2, <1>9, <1>10, <1>11

\* ORDER BY gives every element once.
LEMMA InOrderFacts ==
    ASSUME NEW S, IsFiniteSet(S), NEW before, Orders(before, S)
    PROVE  /\ InOrder(S, before) \in Seq(S)
           /\ Len(InOrder(S, before)) = Cardinality(S)
           /\ Range(InOrder(S, before)) = S
<1> DEFINE n == Cardinality(S)
           s == InOrder(S, before)
<1>1. n \in Nat
  BY FS_CardinalityType
<1>2. s = [i \in 1 .. n |-> CHOOSE x \in S : Cardinality(Earlier(S, before, x)) = i - 1]
  BY DEF InOrder, Earlier
<1>3. ASSUME NEW i \in 1 .. n PROVE s[i] \in S /\ Cardinality(Earlier(S, before, s[i])) = i - 1
  <2>1. \E x \in S : Cardinality(Earlier(S, before, x)) = i - 1
    BY Places
  <2>2. s[i] = CHOOSE x \in S : Cardinality(Earlier(S, before, x)) = i - 1
    BY <1>2
  <2> QED
    BY <2>1, <2>2
<1>4. DOMAIN s = 1 .. n
  BY <1>2
<1>5. s \in [1 .. n -> S]
  BY <1>2, <1>3
<1> HIDE DEF s
<1>6. s \in Seq(S) /\ Len(s) = n
  BY <1>1, <1>5
<1>7. ASSUME NEW x \in S PROVE x \in Range(s)
  <2> DEFINE i == Cardinality(Earlier(S, before, x)) + 1
  <2>1. i \in 1 .. n
    BY Places
  <2>2. s[i] \in S /\ Cardinality(Earlier(S, before, s[i])) = i - 1
    BY <1>3, <2>1
  <2>3. IsFiniteSet(Earlier(S, before, x))
    BY FS_Subset DEF Earlier
  <2>4. Cardinality(Earlier(S, before, x)) \in Nat
    BY <2>3, FS_CardinalityType
  <2>5. Cardinality(Earlier(S, before, s[i])) = Cardinality(Earlier(S, before, x))
    BY <2>2, <2>4
  <2>6. s[i] = x
    BY <2>2, <2>5, Places
  <2> QED
    BY <1>4, <2>1, <2>6 DEF Range
<1>8. Range(s) \subseteq S
  BY <1>3, <1>4 DEF Range
<1> QED
  BY <1>6, <1>7, <1>8 DEF s

-----------------------------------------------------------------------------
(* The edge list and its pages                                             *)

LEMMA GraphBounds ==
    /\ BatchSize \in Nat \ {0} /\ PageSize \in Nat \ {0}
    /\ Statements \in Nat /\ MaxSyncs \in Nat /\ MaxImports \in Nat /\ MaxFailures \in Nat
    /\ MaxLimit \in Nat
BY SizeAssumption DEF SizeAssumption

LEMMA EdgesAreFinite ==
    /\ File \in Seq(Edges) /\ Len(File) \in Nat /\ DOMAIN File = 1 .. Len(File)
    /\ Edges \subseteq Nat \X Nat
    /\ IsFiniteSet(Edges) /\ Cardinality(Edges) \in Nat /\ Cardinality(Edges) <= Len(File)
<1> DEFINE S == Nat \X Nat
<1>1. File \in Seq(S)
  BY FileAssumption DEF FileAssumption
<1> HIDE DEF S
<1>2. Len(File) \in Nat /\ DOMAIN File = 1 .. Len(File) /\ File \in [1 .. Len(File) -> S]
  BY <1>1, LenProperties
<1>3. \A i \in 1 .. Len(File) : File[i] \in Edges
  BY <1>2 DEF Edges, Range
<1>4. Edges \subseteq S
  BY <1>2 DEF Edges, Range
<1>5. File \in [1 .. Len(File) -> Edges]
  BY <1>2, <1>3
<1>6. File \in Seq(Edges)
  BY <1>2, <1>5
<1>7. File \in Surjection(1 .. Len(File), Edges)
  BY <1>2, <1>5 DEF Surjection, Edges, Range
<1>8. IsFiniteSet(Edges) /\ Cardinality(Edges) <= Len(File)
  BY <1>2, <1>7, FS_SurjCardinalityBound, FS_NatSurjection DEF ExistsSurjection
<1> QED
  BY <1>2, <1>4, <1>6, <1>8, FS_CardinalityType DEF S

LEMMA UsersAreFinite ==
    /\ Users \subseteq Nat /\ IsFiniteSet(Users) /\ Cardinality(Users) \in Nat
    /\ \A e \in Edges : e[1] \in Users /\ e[2] \in Users
<1> DEFINE A == {e[1] : e \in Edges}
           B == {e[2] : e \in Edges}
           f == [e \in Edges |-> e[1]]
           g == [e \in Edges |-> e[2]]
<1>1. f \in Surjection(Edges, A) /\ g \in Surjection(Edges, B)
  BY DEF Surjection
<1>2. IsFiniteSet(A) /\ IsFiniteSet(B)
  BY <1>1, EdgesAreFinite, FS_Surjection
<1>3. \A e \in Edges : e[1] \in Nat /\ e[2] \in Nat
  BY EdgesAreFinite
<1>4. A \subseteq Nat /\ B \subseteq Nat
  BY <1>3
<1>5. Users = A \cup B
  BY DEF Users
<1>6. IsFiniteSet(Users)
  BY <1>2, <1>5, FS_Union
<1>7. \A e \in Edges : e[1] \in Users /\ e[2] \in Users
  BY <1>5
<1> QED
  BY <1>4, <1>5, <1>6, <1>7, FS_CardinalityType

\* The topology in its order: every relationship once.
LEMMA SortedFacts ==
    ASSUME NEW S \in SUBSET Edges
    PROVE  /\ Sorted(S) \in Seq(S) /\ Len(Sorted(S)) = Cardinality(S) /\ Range(Sorted(S)) = S
           /\ Cardinality(S) \in Nat /\ Cardinality(S) <= Len(File)
<1> DEFINE before == {p \in S \X S : \/ p[1][1] < p[2][1]
                                     \/ (p[1][1] = p[2][1] /\ p[1][2] < p[2][2])}
<1>1. IsFiniteSet(S) /\ Cardinality(S) <= Cardinality(Edges) /\ Cardinality(S) \in Nat
  BY EdgesAreFinite, FS_Subset, FS_CardinalityType
<1>2. \A x \in S : x \in Nat \X Nat
  BY EdgesAreFinite
<1>3. \A x, y \in S : <<x, y>> \in before <=> x[1] < y[1] \/ (x[1] = y[1] /\ x[2] < y[2])
  OBVIOUS
<1>4. Orders(before, S)
  <2> HIDE DEF before
  <2>1. \A x \in S : <<x, x>> \notin before
    BY <1>2, <1>3
  <2>2. \A x, y \in S : x = y \/ <<x, y>> \in before \/ <<y, x>> \in before
    <3>1. \A x \in S : x = <<x[1], x[2]>> /\ x[1] \in Nat /\ x[2] \in Nat
      BY <1>2
    <3>2. ASSUME NEW x \in S, NEW y \in S, x[1] = y[1], x[2] = y[2] PROVE x = y
      BY <3>1, <3>2, Zenon
    <3>3. ASSUME NEW x \in S, NEW y \in S, x # y
          PROVE  <<x, y>> \in before \/ <<y, x>> \in before
      <4>1. x[1] # y[1] \/ x[2] # y[2]
        BY <3>2, <3>3
      <4>2. /\ x[1] \in Nat /\ x[2] \in Nat /\ y[1] \in Nat /\ y[2] \in Nat
        BY <3>1
      <4>3. \/ x[1] < y[1] \/ (x[1] = y[1] /\ x[2] < y[2])
            \/ y[1] < x[1] \/ (y[1] = x[1] /\ y[2] < x[2])
        BY <4>1, <4>2
      <4> QED
        BY <1>3, <4>3
    <3> QED
      BY <3>3
  <2>3. \A x, y, z \in S : <<x, y>> \in before /\ <<y, z>> \in before => <<x, z>> \in before
    BY <1>2, <1>3
  <2> QED
    BY <2>1, <2>2, <2>3 DEF Orders
<1>5. Sorted(S) = InOrder(S, before)
  BY DEF Sorted
<1> HIDE DEF before
<1> QED
  BY <1>1, <1>4, <1>5, InOrderFacts, EdgesAreFinite

\* Pages cover what they are made for, and no page but the first is empty.
LEMMA PagesFacts ==
    ASSUME NEW n \in Nat
    PROVE  /\ PagesOf(n) \in Nat \ {0} /\ PagesOf(n) <= n + 1
           /\ n <= PagesOf(n) * PageSize
           /\ \A p \in Nat \ {0} : p < PagesOf(n) => p * PageSize < n
<1> DEFINE q == (n + PageSize - 1) \div PageSize
           r == (n + PageSize - 1) % PageSize
<1>1. PageSize \in Nat \ {0}
  BY GraphBounds
<1>2. n + PageSize - 1 \in Nat
  BY <1>1
<1>3. q \in Nat
  BY <1>1, <1>2, SMTT(30)
<1>4. r \in 0 .. PageSize - 1
  BY <1>1, <1>2, SMTT(30)
<1>5. n + PageSize - 1 = PageSize * q + r
  BY <1>1, <1>2, SMTT(30)
<1>6. PagesOf(n) = IF q > 1 THEN q ELSE 1
  BY DEF PagesOf
<1> HIDE DEF q, r
<1>7. n <= q * PageSize
  BY <1>1, <1>3, <1>4, <1>5
<1>8. \A p \in Nat : p < q => p * PageSize < n
  <2>1. ASSUME NEW p \in Nat, p < q PROVE p * PageSize < n
    <3>1. (p + 1) * PageSize <= q * PageSize
      BY <1>1, <1>3, <2>1
    <3>2. (p + 1) * PageSize = p * PageSize + PageSize
      BY <1>1
    <3>3. q * PageSize <= n + PageSize - 1
      BY <1>1, <1>3, <1>4, <1>5
    <3> DEFINE a == p * PageSize
               b == q * PageSize
    <3>4. a \in Nat /\ b \in Nat
      BY <1>1, <1>3
    <3> HIDE DEF a, b
    <3> QED
      BY <1>1, <3>1, <3>2, <3>3, <3>4 DEF a, b
  <2> QED
    BY <2>1
<1>9. q <= n
  <2> SUFFICES ASSUME q > n PROVE FALSE
    BY <1>3
  <2>1. n * PageSize < n
    BY <1>8
  <2>2. n * PageSize >= n
    BY <1>1
  <2>3. n * PageSize \in Nat
    BY <1>1
  <2> QED
    BY <2>1, <2>2, <2>3
<1> QED
  BY <1>1, <1>3, <1>6, <1>7, <1>8, <1>9
-----------------------------------------------------------------------------
(* Types                                                                   *)

NodeTypes ==
    /\ users \subseteq Users /\ knows \subseteq Edges
    /\ \A e \in knows : {e[1], e[2]} \subseteq users
    /\ score \in [Users -> [Fields -> 0 .. MaxSyncs]]
    /\ \A u \in Users \ users : score[u] = NoScores
SyncTypes ==
    /\ stage \in [Syncs -> {"idle", "write", "group"}]
    /\ run \in [Syncs -> 0 .. runs] /\ runs \in 0 .. MaxSyncs
    /\ result \in [Syncs -> SUBSET Fields]
PageTypes ==
    /\ at \in {"idle", "count", "nodes", "links", "end"}
    /\ page \in 1 .. Len(File) + 1 /\ pages \in 1 .. Len(File) + 1
    /\ got \in Seq(Edges) /\ moved \in BOOLEAN
SchemaTypes ==
    /\ schema \subseteq 1 .. Statements /\ doing \in 0 .. Statements + 1
    /\ {created, errors} \subseteq Nat
    /\ created + errors <= (IF doing = 0 THEN Statements ELSE doing - 1)
    /\ status \in {"none", "success", "partial", "error"}
ImportTypes ==
    /\ imports \in 0 .. MaxImports /\ offset \in 0 .. Ended
    /\ failures \in 0 .. MaxFailures /\ follows \in {"sync", "walk", "schema"}

LEMMA TypesInParts ==
    GraphTypeOK <=> /\ NodeTypes /\ SyncTypes
                    /\ PageTypes /\ SchemaTypes /\ ImportTypes
BY DEF GraphTypeOK, NodeTypes, SyncTypes, PageTypes, SchemaTypes, ImportTypes

LEMMA TypesInPartsAfter ==
    GraphTypeOK' <=> /\ NodeTypes' /\ SyncTypes'
                     /\ PageTypes' /\ SchemaTypes' /\ ImportTypes'
BY DEF GraphTypeOK, NodeTypes, SyncTypes, PageTypes, SchemaTypes, ImportTypes

\* What does not change keeps its type.
LEMMA UnchangedTypes ==
    ASSUME GraphTypeOK
    PROVE  /\ UNCHANGED graph => NodeTypes'
           /\ UNCHANGED sync => SyncTypes'
           /\ UNCHANGED walk => PageTypes'
           /\ UNCHANGED admin => SchemaTypes'
<1>1. UNCHANGED graph => NodeTypes'
  BY TypesInParts DEF NodeTypes, graph
<1>2. UNCHANGED sync => SyncTypes'
  BY TypesInParts DEF SyncTypes, sync
<1>3. UNCHANGED walk => PageTypes'
  BY TypesInParts DEF PageTypes, walk
<1>4. UNCHANGED admin => SchemaTypes'
  BY TypesInParts DEF SchemaTypes, admin
<1> QED
  BY <1>1, <1>2, <1>3, <1>4

LEMMA FaultTypes == ImportTypes /\ (Fault \/ UNCHANGED failures) => failures' \in 0 .. MaxFailures
BY GraphBounds DEF ImportTypes, Fault

\* Where an import stands, and where one that is not under way stands.
LEMMA OffsetFacts ==
    /\ Done \in 0 .. Ended /\ Ended \in 0 .. Ended /\ 0 \in 0 .. Ended
    /\ Done # Ended /\ Done > Len(File) /\ Ended > Len(File)
BY EdgesAreFinite DEF Done, Ended

LEMMA NobodyIsScored ==
    /\ NoScores \in [Fields -> 0 .. MaxSyncs] /\ Unscored \in [Users -> [Fields -> 0 .. MaxSyncs]]
    /\ \A u \in Users : Unscored[u] = NoScores
    /\ \A f \in Fields : NoScores[f] = None
<1>1. NoScores \in [Fields -> 0 .. MaxSyncs] /\ \A f \in Fields : NoScores[f] = None
  BY GraphBounds DEF NoScores, None
<1> QED
  BY <1>1 DEF Unscored

LEMMA WipeTypes ==
    ASSUME GraphTypeOK, Wipe, UNCHANGED follows
    PROVE  GraphTypeOK'
<1>1. NodeTypes'
  <2>1. UNCHANGED graph => NodeTypes'
    BY UnchangedTypes
  <2>2. users' = {} /\ knows' = {} /\ score' = Unscored => NodeTypes'
    BY NobodyIsScored DEF NodeTypes
  <2> QED
    BY <2>1, <2>2 DEF Wipe
<1>2. PageTypes'
  BY TypesInParts DEF Wipe, PageTypes
<1>3. imports' \in 0 .. MaxImports
  BY TypesInParts, GraphBounds DEF Wipe, ImportTypes
<1>4. offset' \in 0 .. Ended
  BY OffsetFacts DEF Wipe
<1>5. failures' \in 0 .. MaxFailures
  BY TypesInParts, FaultTypes DEF Wipe
<1>6. Ended' = Ended
  BY DEF Ended
<1>7. ImportTypes'
  BY <1>3, <1>4, <1>5, <1>6, TypesInParts DEF ImportTypes
<1>8. SyncTypes' /\ SchemaTypes'
  BY UnchangedTypes DEF Wipe
<1> QED
  BY <1>1, <1>2, <1>7, <1>8, TypesInPartsAfter

\* What a batch holds and where it ends.
LEMMA BatchFacts ==
    ASSUME offset \in 0 .. Ended, offset < Len(File)
    PROVE  /\ offset \in 0 .. Len(File) /\ Upto \in 1 .. Len(File) /\ offset < Upto
           /\ Len(File) \in Nat /\ Batch \subseteq Edges
<1>1. Len(File) \in Nat /\ BatchSize \in Nat \ {0}
  BY EdgesAreFinite, GraphBounds
<1>2. offset \in 0 .. Len(File) /\ Upto \in 1 .. Len(File) /\ offset < Upto
  BY <1>1 DEF Upto, Ended
<1>3. \A i \in offset + 1 .. Upto : i \in 1 .. Len(File)
  BY <1>1, <1>2
<1>4. Batch \subseteq Edges
  BY <1>3, EdgesAreFinite DEF Batch
<1> QED
  BY <1>1, <1>2, <1>4

LEMMA LoadTypes ==
    ASSUME GraphTypeOK, Load, UNCHANGED follows
    PROVE  GraphTypeOK'
<1>1. offset \in 0 .. Ended /\ offset < Len(File)
  BY TypesInParts DEF Load, ImportTypes
<1>2. Batch \subseteq Edges
  BY <1>1, BatchFacts
<1>3. \/ UNCHANGED <<users, knows>>
      \/ knows' = knows \cup Batch /\ users' = users \cup {e[1] : e \in Batch} \cup {e[2] : e \in Batch}
  BY DEF Load
<1>4. offset' \in {Upto, Done, Ended}
  BY DEF Load
<1>5. offset' \in 0 .. Ended
  BY <1>1, <1>4, BatchFacts, OffsetFacts DEF Ended
<1>6. users \subseteq users' /\ users' \subseteq Users /\ knows' \subseteq Edges
  BY <1>2, <1>3, UsersAreFinite, TypesInParts DEF NodeTypes
<1>7. \A e \in knows' : {e[1], e[2]} \subseteq users'
  BY <1>2, <1>3, TypesInParts DEF NodeTypes
<1>8. NodeTypes'
  BY <1>6, <1>7, TypesInParts DEF Load, NodeTypes
<1>9. PageTypes'
  BY TypesInParts DEF Load, PageTypes
<1>10. failures' \in 0 .. MaxFailures
  BY TypesInParts, FaultTypes DEF Load
<1>11. ImportTypes'
  BY <1>5, <1>10, TypesInParts DEF Load, ImportTypes, Ended
<1>12. SyncTypes' /\ SchemaTypes'
  BY UnchangedTypes DEF Load
<1> QED
  BY <1>8, <1>9, <1>11, <1>12, TypesInPartsAfter

LEMMA CollectTypes ==
    ASSUME GraphTypeOK, NEW s \in Syncs, Collect(s), UNCHANGED follows
    PROVE  GraphTypeOK'
<1>1. PICK scored \in SUBSET Fields : result' = [result EXCEPT ![s] = scored]
  BY DEF Collect
<1>2. SyncTypes
  BY TypesInParts
<1>3. runs' \in 0 .. MaxSyncs /\ runs <= runs' /\ runs \in Nat /\ runs' \in Nat
  BY <1>2, GraphBounds DEF Collect, SyncTypes
<1>4. run' \in [Syncs -> 0 .. runs']
  <2>1. run' = [run EXCEPT ![s] = runs']
    BY DEF Collect
  <2>2. run \in [Syncs -> 0 .. runs']
    BY <1>2, <1>3 DEF SyncTypes
  <2> QED
    BY <1>3, <2>1, <2>2
<1>5. stage' \in [Syncs -> {"idle", "write", "group"}]
  BY <1>2 DEF Collect, SyncTypes
<1>6. result' \in [Syncs -> SUBSET Fields]
  BY <1>1, <1>2 DEF SyncTypes
<1>7. SyncTypes'
  BY <1>3, <1>4, <1>5, <1>6 DEF SyncTypes
<1>8. ImportTypes'
  BY TypesInParts DEF Collect, ImportTypes, import, Ended
<1>9. NodeTypes' /\ PageTypes' /\ SchemaTypes'
  BY UnchangedTypes DEF Collect
<1> QED
  BY <1>7, <1>8, <1>9, TypesInPartsAfter

\* The scores after the results of a run are written.
Written(s) == [u \in Users |-> [f \in Fields |-> IF u \in users /\ f \in result[s] THEN run[s] ELSE None]]

LEMMA WrittenTypes ==
    ASSUME GraphTypeOK, NEW s \in Syncs
    PROVE  /\ Written(s) \in [Users -> [Fields -> 0 .. MaxSyncs]]
           /\ \A u \in Users \ users : Written(s)[u] = NoScores
<1>1. run[s] \in 0 .. MaxSyncs /\ None \in 0 .. MaxSyncs
  BY TypesInParts, GraphBounds DEF SyncTypes, None
<1>2. Written(s) \in [Users -> [Fields -> 0 .. MaxSyncs]]
  BY <1>1 DEF Written
<1>3. \A u \in Users \ users : Written(s)[u] = NoScores
  BY DEF Written, NoScores
<1> QED
  BY <1>2, <1>3

LEMMA UpdateTypes ==
    ASSUME GraphTypeOK, NEW s \in Syncs, batch_update_algorithm_results(s), UNCHANGED follows
    PROVE  GraphTypeOK'
<1>1. SyncTypes /\ NodeTypes
  BY TypesInParts
<1>2. score' = score \/ score' = Written(s)
  BY DEF batch_update_algorithm_results, Written
<1>3. NodeTypes'
  BY <1>1, <1>2, WrittenTypes DEF NodeTypes, batch_update_algorithm_results
<1>4. SyncTypes'
  BY <1>1 DEF SyncTypes, batch_update_algorithm_results
<1>5. failures' \in 0 .. MaxFailures
  BY TypesInParts, FaultTypes DEF batch_update_algorithm_results
<1>6. ImportTypes'
  BY <1>5, TypesInParts DEF batch_update_algorithm_results, ImportTypes, import, Ended
<1>7. PageTypes' /\ SchemaTypes'
  BY UnchangedTypes DEF batch_update_algorithm_results
<1> QED
  BY <1>3, <1>4, <1>6, <1>7, TypesInPartsAfter

LEMMA GroupTypes ==
    ASSUME GraphTypeOK, NEW s \in Syncs, _sync_community_nodes(s), UNCHANGED follows
    PROVE  GraphTypeOK'
<1>1. SyncTypes'
  BY TypesInParts DEF SyncTypes, _sync_community_nodes
<1>2. ImportTypes'
  BY TypesInParts DEF _sync_community_nodes, ImportTypes, import, Ended
<1>3. NodeTypes' /\ PageTypes' /\ SchemaTypes'
  BY UnchangedTypes DEF _sync_community_nodes
<1> QED
  BY <1>1, <1>2, <1>3, TypesInPartsAfter

\* SKIP and LIMIT: a run of the list, from where it was skipped to.
LEMMA CutTypes ==
    ASSUME NEW S, NEW links \in Seq(S), NEW skip \in Nat
    PROVE  Cut(links, skip) \in Seq(S)
<1> DEFINE last == IF skip + PageSize < Len(links) THEN skip + PageSize ELSE Len(links)
<1>1. PageSize \in Nat \ {0} /\ Len(links) \in Nat
  BY GraphBounds
<1>2. Cut(links, skip) = SubSeq(links, skip + 1, last)
  BY DEF Cut
<1>3. last \in Int /\ skip + 1 \in Int /\ last <= Len(links)
  BY <1>1
<1> HIDE DEF last
<1>4. \A i \in skip + 1 .. last : links[i] \in S
  BY <1>1, <1>3
<1> QED
  BY <1>2, <1>3, <1>4, SubSeqProperties

LEMMA AnswerTypes ==
    ASSUME PageTypes, NEW links \in Seq(Edges), NEW total \in 1 .. Len(File) + 1,
           NEW p \in 1 .. Len(File) + 1, Answer(links, total, p)
    PROVE  got' \in Seq(Edges) /\ at' \in {"count", "end"} /\ page' \in 1 .. Len(File) + 1
<1>1. (p - 1) * PageSize \in Nat
  BY GraphBounds, EdgesAreFinite
<1>2. Page(links, p) \in Seq(Edges)
  BY <1>1, CutTypes DEF Page
<1>3. got' \in Seq(Edges)
  BY <1>2, ConcatProperties DEF Answer, PageTypes
<1>4. at' \in {"count", "end"} /\ page' \in 1 .. Len(File) + 1
  BY EdgesAreFinite DEF Answer
<1> QED
  BY <1>3, <1>4

LEMMA WalkTypes ==
    ASSUME GraphTypeOK, Walk, UNCHANGED follows
    PROVE  GraphTypeOK'
<1>1. <<>> \in Seq(Edges) /\ Len(File) \in Nat
  BY EdgesAreFinite, EmptySeq
<1>2. PageTypes'
  <2>1. at' = "count" /\ page' = 1 /\ pages' = 1 /\ got' = <<>> /\ moved' = FALSE
    BY DEF Walk
  <2>2. 1 \in 1 .. Len(File) + 1
    BY <1>1
  <2> QED
    BY <1>1, <2>1, <2>2 DEF PageTypes
<1>3. ImportTypes'
  BY TypesInParts DEF Walk, ImportTypes, import, Ended
<1>4. NodeTypes' /\ SyncTypes' /\ SchemaTypes'
  BY UnchangedTypes DEF Walk
<1> QED
  BY <1>2, <1>3, <1>4, TypesInPartsAfter

\* There are no more pages than edges in the list, but one.
LEMMA PagesAreFew ==
    ASSUME NodeTypes
    PROVE  /\ PagesOf(Len(File)) \in 1 .. Len(File) + 1
           /\ PagesOf(Cardinality(knows)) \in 1 .. Len(File) + 1
<1>1. Cardinality(knows) \in Nat /\ Cardinality(knows) <= Len(File) /\ Len(File) \in Nat
  BY SortedFacts, EdgesAreFinite DEF NodeTypes
<1>2. ASSUME NEW n \in Nat, n <= Len(File) PROVE PagesOf(n) \in 1 .. Len(File) + 1
  <2>1. PagesOf(n) \in Nat \ {0} /\ PagesOf(n) <= n + 1
    BY PagesFacts
  <2> QED
    BY <1>1, <1>2, <2>1
<1>3. Len(File) <= Len(File)
  BY <1>1
<1> QED
  BY <1>1, <1>2, <1>3, Zenon

LEMMA TopologyTypes ==
    ASSUME GraphTypeOK, get_topology_paginated, UNCHANGED follows
    PROVE  GraphTypeOK'
<1>1. PageTypes /\ NodeTypes /\ ImportTypes
  BY TypesInParts
<1>2. ASSUME at' = "nodes", pages' = PagesOf(Cardinality(knows)),
             page' = (IF page < pages' THEN page ELSE pages'), UNCHANGED <<got, moved, failures>>
      PROVE  PageTypes' /\ failures' \in 0 .. MaxFailures
  BY <1>1, <1>2, PagesAreFew DEF PageTypes, ImportTypes
<1>3. ASSUME Answer(Sorted(knows), pages, page), UNCHANGED <<pages, moved, failures>>
      PROVE  PageTypes' /\ failures' \in 0 .. MaxFailures
  <2>1. Sorted(knows) \in Seq(Edges)
    BY <1>1, SortedFacts DEF NodeTypes
  <2>2. got' \in Seq(Edges) /\ at' \in {"count", "end"} /\ page' \in 1 .. Len(File) + 1
    BY <1>1, <1>3, <2>1, AnswerTypes DEF PageTypes
  <2> QED
    BY <1>1, <1>3, <2>2 DEF PageTypes, ImportTypes
<1>4. ASSUME Fault, moved' = TRUE, pages' = PagesOf(Len(File)),
             Answer(File, pages', IF page < pages' THEN page ELSE pages')
      PROVE  PageTypes' /\ failures' \in 0 .. MaxFailures
  <2>1. pages' \in 1 .. Len(File) + 1
    BY <1>1, <1>4, PagesAreFew
  <2> DEFINE p == IF page < pages' THEN page ELSE pages'
  <2>2. p \in 1 .. Len(File) + 1
    BY <1>1, <2>1, EdgesAreFinite DEF PageTypes
  <2>3. Answer(File, pages', p)
    BY <1>4
  <2> HIDE DEF p
  <2>4. got' \in Seq(Edges) /\ at' \in {"count", "end"} /\ page' \in 1 .. Len(File) + 1
    BY <1>1, <2>1, <2>2, <2>3, AnswerTypes, EdgesAreFinite
  <2> QED
    BY <1>1, <1>4, <2>1, <2>4, FaultTypes DEF PageTypes
<1>5. ASSUME at' = "links", UNCHANGED <<page, pages, got, moved, failures>>
      PROVE  PageTypes' /\ failures' \in 0 .. MaxFailures
  BY <1>1, <1>5 DEF PageTypes, ImportTypes
<1>6. PageTypes' /\ failures' \in 0 .. MaxFailures
  BY <1>2, <1>3, <1>4, <1>5 DEF get_topology_paginated
<1>7. ImportTypes'
  BY <1>1, <1>6 DEF get_topology_paginated, ImportTypes, import, Ended
<1>8. NodeTypes' /\ SyncTypes' /\ SchemaTypes'
  BY UnchangedTypes DEF get_topology_paginated
<1> QED
  BY <1>6, <1>7, <1>8, TypesInPartsAfter

LEMMA AdminTypes ==
    ASSUME GraphTypeOK, initialize_schema, UNCHANGED follows
    PROVE  GraphTypeOK'
<1>1. SchemaTypes /\ ImportTypes /\ Statements \in Nat
  BY TypesInParts, GraphBounds
<1>2. created \in Nat /\ errors \in Nat
  BY <1>1 DEF SchemaTypes
<1>3. StartSchema => SchemaTypes'
  BY <1>1 DEF StartSchema, SchemaTypes
<1>4. Create => SchemaTypes'
  <2> SUFFICES ASSUME Create PROVE SchemaTypes'
    OBVIOUS
  <2>1. doing \in 1 .. Statements /\ doing' = doing + 1 /\ status' = status
    BY DEF Create
  <2>2. created + errors <= doing - 1
    BY <1>1, <2>1 DEF SchemaTypes
  <2>3. \/ created' = created /\ errors' = errors
        \/ created' = created + 1 /\ errors' = errors
        \/ created' = created /\ errors' = errors + 1
    BY DEF Create
  <2>4. created' \in Nat /\ errors' \in Nat /\ created' + errors' <= doing' - 1
    BY <1>2, <2>1, <2>2, <2>3
  <2>5. schema' \subseteq 1 .. Statements
    BY <1>1, <2>1 DEF Create, SchemaTypes
  <2>6. doing' \in 0 .. Statements + 1 /\ doing' # 0
    BY <1>1, <2>1
  <2>7. {created', errors'} \subseteq Nat
    BY <2>4
  <2>8. created' + errors' <= (IF doing' = 0 THEN Statements ELSE doing' - 1)
    BY <2>4, <2>6
  <2>9. status' \in {"none", "success", "partial", "error"}
    BY <1>1, <2>1 DEF SchemaTypes
  <2> QED
    BY <2>5, <2>6, <2>7, <2>8, <2>9 DEF SchemaTypes
<1>5. Report => SchemaTypes'
  <2> SUFFICES ASSUME Report PROVE SchemaTypes'
    OBVIOUS
  <2>1. created + errors <= Statements
    BY <1>1, <1>2 DEF Report, SchemaTypes
  <2> QED
    BY <1>1, <2>1 DEF Report, SchemaTypes
<1>6. failures' \in 0 .. MaxFailures
  BY <1>1, FaultTypes DEF initialize_schema, StartSchema, Create, Report
<1>7. ImportTypes'
  BY <1>1, <1>6 DEF initialize_schema, ImportTypes, import, Ended
<1>8. NodeTypes' /\ SyncTypes' /\ PageTypes'
  BY UnchangedTypes DEF initialize_schema
<1> QED
  BY <1>3, <1>4, <1>5, <1>7, <1>8, TypesInPartsAfter DEF initialize_schema

LEMMA GraphInitTypes == GraphInit => GraphTypeOK
<1> SUFFICES ASSUME GraphInit PROVE GraphTypeOK
  OBVIOUS
<1>1. NodeTypes
  <2>1. users = {} /\ knows = {} /\ score = Unscored
    BY DEF GraphInit
  <2> QED
    BY <2>1, NobodyIsScored DEF NodeTypes
<1>2. SyncTypes
  BY GraphBounds DEF GraphInit, SyncTypes
<1>3. PageTypes
  <2>1. at = "idle" /\ page = 1 /\ pages = 1 /\ got = <<>> /\ moved = FALSE
    BY DEF GraphInit
  <2>2. 1 \in 1 .. Len(File) + 1 /\ <<>> \in Seq(Edges)
    BY EdgesAreFinite, EmptySeq
  <2> QED
    BY <2>1, <2>2 DEF PageTypes
<1>4. SchemaTypes
  BY GraphBounds DEF GraphInit, SchemaTypes
<1>5. ImportTypes
  BY GraphBounds, OffsetFacts DEF GraphInit, ImportTypes
<1> QED
  BY <1>1, <1>2, <1>3, <1>4, <1>5, TypesInParts

\* Every step is a statement of one of the four.
LEMMA GraphNextTypes ==
    ASSUME GraphTypeOK, GraphNext
    PROVE  GraphTypeOK'
<1>1. UNCHANGED follows
  BY DEF GraphNext
<1>2. import_graph_to_neo4j => GraphTypeOK'
  BY <1>1, WipeTypes, LoadTypes DEF import_graph_to_neo4j
<1>3. \A s \in Syncs : sync_all_algorithm_results(s) => GraphTypeOK'
  BY <1>1, CollectTypes, UpdateTypes, GroupTypes DEF sync_all_algorithm_results
<1>4. Walk \/ get_topology_paginated => GraphTypeOK'
  BY <1>1, WalkTypes, TopologyTypes
<1>5. initialize_schema => GraphTypeOK'
  BY <1>1, AdminTypes
<1> QED
  BY <1>2, <1>3, <1>4, <1>5 DEF GraphNext

LEMMA GraphStutterTypes == GraphTypeOK /\ UNCHANGED graphVars => GraphTypeOK'
BY UnchangedTypes, TypesInParts, TypesInPartsAfter DEF graphVars, import, ImportTypes, Ended

\* The variables keep their types: relationships join users that are there, who
\* is not there has no score, the pages asked for exist, and no schema report
\* counts more than there were statements.
THEOREM GraphTypeCorrect == GraphSpec => []GraphTypeOK
<1>1. GraphTypeOK /\ [GraphNext]_graphVars => GraphTypeOK'
  BY GraphNextTypes, GraphStutterTypes
<1> QED
  BY <1>1, GraphInitTypes, PTL DEF GraphSpec

-----------------------------------------------------------------------------
(* The scores                                                              *)

\* However imports and synchronisations interleave, and whichever algorithms and
\* statements of theirs fail or are executed twice: batch_update_algorithm_results
\* sets every field of every user, so that no score of an earlier run is left
\* beside one of a later run.
THEOREM ScoresStayOfOneRun == GraphSpec => []ScoresOfOneRun
<1>1. GraphInit => ScoresOfOneRun
  <2> SUFFICES ASSUME GraphInit PROVE ScoresOfOneRun
    OBVIOUS
  <2>1. \A u \in Users, f \in Fields : score[u][f] = None
    BY NobodyIsScored DEF GraphInit
  <2> QED
    BY <2>1 DEF ScoresOfOneRun
<1>2. ASSUME GraphTypeOK, ScoresOfOneRun, [GraphNext]_graphVars
      PROVE  ScoresOfOneRun'
  <2>1. ASSUME UNCHANGED score PROVE ScoresOfOneRun'
    BY <1>2, <2>1 DEF ScoresOfOneRun
  <2>2. ASSUME score' = Unscored PROVE ScoresOfOneRun'
    <3>1. \A u \in Users, f \in Fields : score'[u][f] = None
      BY <2>2, NobodyIsScored
    <3> QED
      BY <3>1 DEF ScoresOfOneRun
  <2>3. ASSUME NEW s \in Syncs, score' = Written(s) PROVE ScoresOfOneRun'
    <3>1. \A u \in Users, f \in Fields : score'[u][f] \in {None, run[s]}
      BY <2>3 DEF Written
    <3> QED
      BY <3>1 DEF ScoresOfOneRun
  <2>4. import_graph_to_neo4j => ScoresOfOneRun'
    BY <2>1, <2>2 DEF import_graph_to_neo4j, Wipe, Load, graph
  <2>5. ASSUME NEW s \in Syncs, sync_all_algorithm_results(s)
        PROVE  ScoresOfOneRun'
    <3>1. UNCHANGED score \/ score' = Written(s)
      BY <2>5 DEF sync_all_algorithm_results, Collect, batch_update_algorithm_results,
                  _sync_community_nodes, graph, Written
    <3> QED
      BY <2>1, <2>3, <3>1
  <2>6. Walk \/ get_topology_paginated \/ initialize_schema \/ UNCHANGED graphVars => UNCHANGED score
    BY DEF Walk, get_topology_paginated, initialize_schema, graphVars, graph
  <2> QED
    BY <1>2, <2>1, <2>4, <2>5, <2>6 DEF GraphNext
<1> QED
  BY <1>1, <1>2, GraphTypeCorrect, PTL DEF GraphSpec

-----------------------------------------------------------------------------
(* The walk                                                                *)

\* While the graph stays as it is, the client has read the beginning of the
\* topology, as many relationships as the pages before the next one hold.
Ahead == (page - 1) * PageSize
Midway == /\ page <= PagesOf(Cardinality(knows)) /\ Ahead <= Cardinality(knows)
          /\ got = SubSeq(Sorted(knows), 1, Ahead)
WalkInv ==
    ~moved => /\ at \in {"count", "nodes", "links"} => Midway
              /\ at \in {"nodes", "links"} => pages = PagesOf(Cardinality(knows))
              /\ at = "end" => got = Sorted(knows)

\* What a page adds, and where the next one begins.
LEMMA PageAdds ==
    ASSUME NodeTypes, PageTypes, Midway
    PROVE  LET n == Cardinality(knows)
               more == got \o Page(Sorted(knows), page)
           IN  /\ page < PagesOf(n) => /\ more = SubSeq(Sorted(knows), 1, page * PageSize)
                                       /\ page * PageSize <= n
               /\ ~(page < PagesOf(n)) => more = Sorted(knows)
<1> DEFINE n == Cardinality(knows)
           links == Sorted(knows)
           last == IF Ahead + PageSize < n THEN Ahead + PageSize ELSE n
<1>1. n \in Nat /\ links \in Seq(knows) /\ Len(links) = n
  BY SortedFacts DEF NodeTypes
<1>2. page \in Nat \ {0} /\ PageSize \in Nat \ {0} /\ page <= PagesOf(n)
  BY GraphBounds, EdgesAreFinite DEF PageTypes, Midway
<1>3. page * PageSize \in Nat /\ page * PageSize = Ahead + PageSize /\ Ahead \in Nat /\ Ahead <= n
  BY <1>2 DEF Ahead, Midway
<1>4. Page(links, page) = SubSeq(links, Ahead + 1, last)
  BY <1>1 DEF Page, Cut, Ahead
<1>5. got = SubSeq(links, 1, Ahead)
  BY DEF Midway
<1>6. last \in Ahead .. n
  BY <1>1, <1>2, <1>3
<1> HIDE DEF links, last
<1>7. got \o Page(links, page) = SubSeq(links, 1, last)
  <2>1. 1 \in 1 .. Len(links) + 1 /\ Ahead \in 1 - 1 .. Len(links) /\ last \in Ahead .. Len(links)
    BY <1>1, <1>3, <1>6
  <2> QED
    BY <1>1, <1>4, <1>5, <2>1, ConcatAdjacentSubSeq
<1>8. page < PagesOf(n) => page * PageSize < n
  BY <1>1, <1>2, PagesFacts
<1>9. ~(page < PagesOf(n)) => n <= page * PageSize
  <2>1. PagesOf(n) \in Nat /\ n <= PagesOf(n) * PageSize
    BY <1>1, PagesFacts
  <2>2. ~(page < PagesOf(n)) => page = PagesOf(n)
    BY <1>2, <2>1
  <2> QED
    BY <2>1, <2>2
<1>10. /\ page * PageSize < n => last = page * PageSize
       /\ n <= page * PageSize => last = n
  BY <1>1, <1>3 DEF last
<1>11. SubSeq(links, 1, n) = links
  BY <1>1, SubSeqFull
<1> QED
  BY <1>1, <1>3, <1>7, <1>8, <1>9, <1>10, <1>11 DEF links

LEMMA WalkStarts ==
    ASSUME NodeTypes, Walk
    PROVE  WalkInv'
<1>1. /\ at' = "count" /\ page' = 1 /\ got' = <<>> /\ knows' = knows
  BY DEF Walk, graph
<1>2. Ahead' = 0
  BY <1>1, GraphBounds DEF Ahead
<1>3. Cardinality(knows) \in Nat
  BY SortedFacts DEF NodeTypes
<1>4. 1 <= PagesOf(Cardinality(knows))
  <2>1. PagesOf(Cardinality(knows)) \in Nat \ {0}
    BY <1>3, PagesFacts
  <2> QED
    BY <2>1
<1>5. SubSeq(Sorted(knows), 1, 0) = <<>>
  BY SubSeqEmpty
<1>6. Midway'
  BY <1>1, <1>2, <1>3, <1>4, <1>5 DEF Midway
<1> QED
  BY <1>1, <1>6 DEF WalkInv

LEMMA WalkGoesOn ==
    ASSUME NodeTypes, PageTypes, WalkInv, get_topology_paginated
    PROVE  WalkInv'
<1> DEFINE n == Cardinality(knows)
<1>1. knows' = knows
  BY DEF get_topology_paginated, graph
<1>2. n \in Nat /\ PagesOf(n) \in Nat \ {0} /\ page \in Nat \ {0}
  <2>1. n \in Nat
    BY SortedFacts DEF NodeTypes
  <2>2. PagesOf(n) \in Nat \ {0}
    BY <2>1, PagesFacts
  <2>3. page \in Nat \ {0}
    BY EdgesAreFinite DEF PageTypes
  <2> QED
    BY <2>1, <2>2, <2>3
<1>3. ASSUME at = "count", at' = "nodes", pages' = PagesOf(n),
             page' = (IF page < pages' THEN page ELSE pages'), UNCHANGED <<got, moved>>
      PROVE  WalkInv'
  <2>1. ~moved => Midway /\ page' = page
    BY <1>2, <1>3 DEF WalkInv, Midway
  <2>2. ~moved => Midway'
    BY <1>1, <1>3, <2>1 DEF Midway, Ahead
  <2> QED
    BY <1>1, <1>3, <2>2 DEF WalkInv
<1>4. ASSUME at = "links", Answer(Sorted(knows), pages, page), UNCHANGED <<pages, moved>>
      PROVE  WalkInv'
  <2> SUFFICES ASSUME ~moved PROVE WalkInv'
    BY <1>4 DEF WalkInv
  <2>1. Midway /\ pages = PagesOf(n)
    BY <1>4 DEF WalkInv
  <2>2. CASE page < PagesOf(n)
    <3>1. at' = "count" /\ page' = page + 1
      BY <1>4, <2>1, <2>2 DEF Answer
    <3>2. got' = SubSeq(Sorted(knows), 1, page * PageSize) /\ page * PageSize <= n
      BY <1>4, <2>1, <2>2, PageAdds DEF Answer
    <3>3. Ahead' = page * PageSize /\ page' <= PagesOf(n)
      BY <1>2, <2>2, <3>1, GraphBounds DEF Ahead
    <3>4. Midway'
      BY <1>1, <3>2, <3>3 DEF Midway
    <3> QED
      BY <3>1, <3>4 DEF WalkInv
  <2>3. CASE ~(page < PagesOf(n))
    <3>1. at' = "end"
      BY <1>4, <2>1, <2>3 DEF Answer
    <3>2. got' = Sorted(knows)
      BY <1>4, <2>1, <2>3, PageAdds DEF Answer
    <3> QED
      BY <1>1, <3>1, <3>2 DEF WalkInv
  <2> QED
    BY <2>2, <2>3
<1>5. ASSUME at = "nodes", at' = "links", UNCHANGED <<page, pages, got, moved>>
      PROVE  WalkInv'
  BY <1>1, <1>5 DEF WalkInv, Midway, Ahead
<1>6. moved' = TRUE => WalkInv'
  BY DEF WalkInv
<1> QED
  BY <1>3, <1>4, <1>5, <1>6 DEF get_topology_paginated

\* What does not touch the relationships or the walk, or says that the graph moved.
LEMMA WalkIsLeft ==
    ASSUME WalkInv, UNCHANGED <<at, page, pages, got>>,
           moved' = TRUE \/ UNCHANGED <<knows, moved>>
    PROVE  WalkInv'
BY DEF WalkInv, Midway, Ahead

\* get_topology_paginated counts and reads a page in different statements, and the number
\* of pages is asked for anew with each: if the graph does not change meanwhile and
\* the answers come from Neo4j, the client has every relationship once at the end,
\* for every graph and every size of a page.
THEOREM WalkReadsAll == GraphSpec => []WalkIsComplete
<1>1. GraphInit => WalkInv
  BY DEF GraphInit, WalkInv
<1>2. ASSUME GraphTypeOK, WalkInv, [GraphNext]_graphVars
      PROVE  WalkInv'
  <2>1. NodeTypes /\ PageTypes
    BY <1>2, TypesInParts
  <2>2. import_graph_to_neo4j => WalkInv'
    BY <1>2, WalkIsLeft DEF import_graph_to_neo4j, Wipe, Load, graph
  <2>3. ASSUME NEW s \in Syncs, sync_all_algorithm_results(s)
        PROVE  WalkInv'
    <3>1. UNCHANGED <<at, page, pages, got, moved, knows>>
      BY <2>3 DEF sync_all_algorithm_results, Collect, batch_update_algorithm_results,
                  _sync_community_nodes, walk, graph
    <3> QED
      BY <1>2, <3>1, WalkIsLeft
  <2>4. Walk \/ get_topology_paginated => WalkInv'
    BY <1>2, <2>1, WalkStarts, WalkGoesOn
  <2>5. initialize_schema \/ UNCHANGED graphVars => UNCHANGED <<at, page, pages, got, moved, knows>>
    BY DEF initialize_schema, graphVars, graph, walk
  <2> QED
    BY <1>2, <2>2, <2>3, <2>4, <2>5, WalkIsLeft DEF GraphNext
<1>3. ASSUME GraphTypeOK, WalkInv PROVE WalkIsComplete
  <2>1. NodeTypes
    BY <1>3, TypesInParts
  <2>2. Len(Sorted(knows)) = Cardinality(knows) /\ Range(Sorted(knows)) = knows
    BY <2>1, SortedFacts DEF NodeTypes
  <2> QED
    BY <1>3, <2>2 DEF WalkInv, WalkIsComplete
<1> QED
  BY <1>1, <1>2, <1>3, GraphTypeCorrect, PTL DEF GraphSpec

-----------------------------------------------------------------------------
(* The recommendations                                                     *)

\* Whoever comes no later than somebody within the limit is within the limit.
LEMMA FirstFacts ==
    ASSUME NEW S, IsFiniteSet(S), NEW before, NEW n \in Nat,
           NEW x \in First(S, before, n), NEW y \in S,
           \A z \in S : <<z, y>> \in before => <<z, x>> \in before
    PROVE  y \in First(S, before, n)
<1> DEFINE X == {z \in S : <<z, x>> \in before}
           Y == {z \in S : <<z, y>> \in before}
<1>1. Y \subseteq X /\ X \subseteq S
  OBVIOUS
<1>2. IsFiniteSet(X)
  BY <1>1, FS_Subset
<1>3. IsFiniteSet(Y) /\ Cardinality(Y) <= Cardinality(X)
  BY <1>1, <1>2, FS_Subset
<1>4. Cardinality(X) \in Nat /\ Cardinality(Y) \in Nat
  BY <1>2, <1>3, FS_CardinalityType
<1>5. Cardinality(X) < n
  BY DEF First
<1> HIDE DEF X, Y
<1>6. Cardinality(Y) < n
  BY <1>3, <1>4, <1>5
<1> QED
  BY <1>6 DEF First, Y

LEMMA CommonIsCounted ==
    ASSUME NodeTypes
    PROVE  /\ IsFiniteSet(users)
           /\ \A u, v : Common(u, v) \in Nat
           /\ \A v \in users : Stored(v) \in Nat /\ Rank[v] \in Nat
<1>1. users \subseteq Users /\ IsFiniteSet(users)
  BY UsersAreFinite, FS_Subset DEF NodeTypes
<1>2. ASSUME NEW u, NEW v PROVE Common(u, v) \in Nat
  <2>1. IsFiniteSet(Neighbours(u) \cap Neighbours(v))
    BY <1>1, FS_Subset DEF Neighbours
  <2> QED
    BY <2>1, FS_CardinalityType DEF Common
<1>3. \A v \in users : Stored(v) \in Nat /\ Rank[v] \in Nat
  BY <1>1, ResultAssumption DEF ResultAssumption, Stored, HasRank
<1> QED
  BY <1>1, <1>2, <1>3

\* More common friends and no lower a rank make a greater score.
LEMMA CombinedGrows ==
    ASSUME NEW c \in Nat, NEW d \in Nat, NEW r \in Nat, NEW q \in Nat, c > d, r >= q
    PROVE  /\ Combined(c, r) \in Nat /\ Combined(d, q) \in Nat
           /\ Combined(c, r) > Combined(d, q)
<1> DEFINE a == 100 + r
           b == 100 + q
<1>1. a \in Nat /\ b \in Nat /\ a >= b /\ b > 0
  OBVIOUS
<1>2. Combined(c, r) = c * a /\ Combined(d, q) = d * b
  BY DEF Combined
<1> HIDE DEF a, b
<1>3. c * a >= c * b /\ c * b > d * b /\ c * a \in Nat /\ c * b \in Nat /\ d * b \in Nat
  BY <1>1
<1> QED
  BY <1>2, <1>3

\* The first phase leaves nobody out who has more common friends than a candidate.
LEMMA CandidatesGrow ==
    ASSUME NodeTypes, NEW u \in users, NEW n \in Nat, NEW v \in Candidates(u, n),
           NEW w \in Strangers(u), Common(u, w) > Common(u, v)
    PROVE  w \in Candidates(u, n)
<1> DEFINE S == Strangers(u)
           Before(x, y) == \/ Common(u, x) > Common(u, y)
                           \/ /\ Common(u, x) = Common(u, y)
                              /\ \/ Above(x, y)
                                 \/ ~Above(y, x) /\ x < y
           before == {p \in S \X S : Before(p[1], p[2])}
<1>1. IsFiniteSet(S)
  BY CommonIsCounted, FS_Subset DEF Strangers
<1>2. Candidates(u, n) = First(S, before, n)
  BY DEF Candidates
<1>3. v \in S
  BY <1>2 DEF First
<1>4. \A x, y \in S : <<x, y>> \in before <=> Before(x, y)
  OBVIOUS
<1>5. ASSUME NEW z \in S, <<z, w>> \in before PROVE <<z, v>> \in before
  <2>1. Common(u, z) >= Common(u, w) /\ Common(u, z) \in Nat
        /\ Common(u, w) \in Nat /\ Common(u, v) \in Nat
    BY <1>4, <1>5, CommonIsCounted
  <2>2. Common(u, z) > Common(u, v)
    BY <2>1
  <2> QED
    BY <1>3, <1>4, <2>2
<1> HIDE DEF S, before
<1>6. w \in First(S, before, n)
  BY <1>1, <1>2, <1>5, FirstFacts DEF S
<1> QED
  BY <1>2, <1>6

\* The second phase neither, of those who have no lower a rank.
LEMMA RecommendedGrow ==
    ASSUME NodeTypes, NEW u \in users, NEW n \in Nat, NEW engine \in BOOLEAN,
           NEW v \in Recommended(u, n, engine), NEW w \in Candidates(u, 2 * n),
           Common(u, w) > Common(u, v),
           Ranked(Asked(Candidates(u, 2 * n), engine), w)
             >= Ranked(Asked(Candidates(u, 2 * n), engine), v)
    PROVE  w \in Recommended(u, n, engine)
<1> DEFINE found == Candidates(u, 2 * n)
           asked == Asked(found, engine)
           Value(x) == Combined(Common(u, x), Ranked(asked, x))
           Before(x, y) == Value(x) > Value(y) \/ (Value(x) = Value(y) /\ x < y)
           before == {p \in found \X found : Before(p[1], p[2])}
<1>1. found \subseteq users
  BY DEF Candidates, First, Strangers
<1>2. IsFiniteSet(found)
  BY <1>1, CommonIsCounted, FS_Subset
<1>3. Recommended(u, n, engine) = First(found, before, n)
  BY DEF Recommended
<1>4. v \in found /\ w \in found
  BY <1>3 DEF First
<1>5. \A x \in found : Common(u, x) \in Nat /\ Ranked(asked, x) \in Nat
  BY <1>1, CommonIsCounted DEF Ranked
<1>6. \A x \in found : Value(x) \in Nat
  <2>1. \A c, r \in Nat : Combined(c, r) \in Nat
    BY DEF Combined
  <2> QED
    BY <1>5, <2>1
<1>7. Value(w) > Value(v)
  BY <1>4, <1>5, CombinedGrows
<1>8. \A x, y \in found : <<x, y>> \in before <=> Before(x, y)
  OBVIOUS
<1> HIDE DEF Value
<1>9. ASSUME NEW z \in found, <<z, w>> \in before PROVE <<z, v>> \in before
  <2>1. Value(z) >= Value(w) /\ Value(z) \in Nat /\ Value(w) \in Nat /\ Value(v) \in Nat
    BY <1>4, <1>6, <1>8, <1>9
  <2>2. Value(z) > Value(v)
    BY <1>7, <2>1
  <2> QED
    BY <1>4, <1>8, <2>2
<1> HIDE DEF before, found
<1>10. w \in First(found, before, n)
  BY <1>2, <1>3, <1>4, <1>9, FirstFacts
<1> QED
  BY <1>3, <1>10

\* scenario_a_friend_recommendation asks Neo4j for twice the limit, in the order of
\* the common friends, and ranks only these: in every graph, whatever the ranks, the
\* limit and the engine's answer, nobody is left out who has more common friends and
\* no lower a rank than somebody recommended.
THEOREM NobodyIsEverPassedOver == GraphSpec => []NobodyIsPassedOver
<1>1. ASSUME GraphTypeOK PROVE NobodyIsPassedOver
  <2>1. NodeTypes
    BY <1>1, TypesInParts
  <2>2. ASSUME NEW u \in users, NEW engine \in BOOLEAN, NEW limit \in 1 .. MaxLimit,
               NEW v \in Recommended(u, limit, engine),
               NEW w \in users \ (Recommended(u, limit, engine) \cup Neighbours(u) \cup {u}),
               Common(u, w) > Common(u, v)
        PROVE  Ranked(Asked(Candidates(u, 2 * limit), engine), w)
                 < Ranked(Asked(Candidates(u, 2 * limit), engine), v)
    <3> DEFINE asked == Asked(Candidates(u, 2 * limit), engine)
    <3>1. limit \in Nat /\ 2 * limit \in Nat
      BY GraphBounds
    <3>2. v \in Candidates(u, 2 * limit)
      BY DEF Recommended, First
    <3>3. v \in Strangers(u)
      BY <3>2 DEF Candidates, First
    <3>4. w \in Strangers(u)
      <4>1. Common(u, v) \in Nat /\ Common(u, w) \in Nat
        BY <2>1, CommonIsCounted
      <4>2. Common(u, w) > 0
        BY <2>2, <4>1
      <4> QED
        BY <4>2 DEF Strangers
    <3>5. w \in Candidates(u, 2 * limit)
      BY <2>1, <2>2, <3>1, <3>2, <3>4, CandidatesGrow
    <3>6. Ranked(asked, v) \in Nat /\ Ranked(asked, w) \in Nat
      BY <2>1, <3>3, CommonIsCounted DEF Ranked, Strangers
    <3> HIDE DEF asked
    <3>7. ~(Ranked(asked, w) >= Ranked(asked, v))
      BY <2>1, <2>2, <3>1, <3>5, RecommendedGrow DEF asked
    <3> QED
      BY <3>6, <3>7 DEF asked
  <2> QED
    BY <2>2 DEF NobodyIsPassedOver
<1> QED
  BY <1>1, GraphTypeCorrect, PTL

-----------------------------------------------------------------------------
(* The count of edges                                                      *)

\* R has a pair for each x and each element of A[x], of which there are f[x].
Pairs(f, A, R) ==
    /\ \A x \in DOMAIN f : IsFiniteSet(A[x]) /\ f[x] = Cardinality(A[x])
    /\ IsFiniteSet(R)
    /\ \A p : p \in R <=> \E x \in DOMAIN f : \E y \in A[x] : p = <<x, y>>

\* A sum of cardinalities counts the pairs.
LEMMA TotalCounts ==
    ASSUME NEW f, NEW A, NEW R, Pairs(f, A, R)
    PROVE  Total(f) = Cardinality(R)
<1> DEFINE S == DOMAIN f
           L == UNION {{x} \X (1 .. f[x]) : x \in S}
           b == [x \in S |-> CHOOSE g : g \in Bijection(1 .. f[x], A[x])]
           h == [p \in L |-> <<p[1], b[p[1]][p[2]]>>]
<1>1. \A x \in S : b[x] \in Bijection(1 .. f[x], A[x])
  <2> SUFFICES ASSUME NEW x \in S PROVE b[x] \in Bijection(1 .. f[x], A[x])
    OBVIOUS
  <2>1. ExistsBijection(1 .. f[x], A[x])
    BY FS_CardinalityType DEF Pairs
  <2>2. \E g : g \in Bijection(1 .. f[x], A[x])
    BY <2>1 DEF ExistsBijection
  <2> QED
    BY <2>2
<1>2. Total(f) = Cardinality(L)
  BY DEF Total
<1>3. \A p : p \in L <=> \E x \in S : \E i \in 1 .. f[x] : p = <<x, i>>
  OBVIOUS
<1> HIDE DEF b, L
<1>4. \A x \in S : /\ \A i \in 1 .. f[x] : b[x][i] \in A[x]
                   /\ \A i, j \in 1 .. f[x] : b[x][i] = b[x][j] => i = j
                   /\ \A y \in A[x] : \E i \in 1 .. f[x] : b[x][i] = y
  <2> SUFFICES ASSUME NEW x \in S
               PROVE  /\ \A i \in 1 .. f[x] : b[x][i] \in A[x]
                      /\ \A i, j \in 1 .. f[x] : b[x][i] = b[x][j] => i = j
                      /\ \A y \in A[x] : \E i \in 1 .. f[x] : b[x][i] = y
    OBVIOUS
  <2>1. PICK g : g = b[x]
    OBVIOUS
  <2>2. g \in Bijection(1 .. f[x], A[x])
    BY <1>1, <2>1
  <2>3. /\ g \in [1 .. f[x] -> A[x]]
        /\ \A i, j \in 1 .. f[x] : g[i] = g[j] => i = j
        /\ \A y \in A[x] : \E i \in 1 .. f[x] : g[i] = y
    BY <2>2 DEF Bijection, Injection, Surjection, IsInjective
  <2> QED
    BY <2>1, <2>3
<1>5. ASSUME NEW x \in S, NEW i \in 1 .. f[x]
      PROVE  <<x, i>> \in L /\ h[<<x, i>>] = <<x, b[x][i]>> /\ h[<<x, i>>] \in R
  <2>1. <<x, i>> \in L
    BY <1>3
  <2>2. h[<<x, i>>] = <<x, b[x][i]>>
    BY <2>1
  <2>3. b[x][i] \in A[x]
    BY <1>4
  <2>4. <<x, b[x][i]>> \in R
    BY <2>3 DEF Pairs
  <2> QED
    BY <2>1, <2>2, <2>4
<1>6. h \in [L -> R]
  <2>1. ASSUME NEW p \in L PROVE h[p] \in R
    <3>1. PICK x \in S : \E i \in 1 .. f[x] : p = <<x, i>>
      BY <1>3
    <3>2. PICK i \in 1 .. f[x] : p = <<x, i>>
      BY <3>1
    <3>3. h[<<x, i>>] \in R
      BY <1>5
    <3> HIDE DEF h
    <3> QED
      BY <3>2, <3>3
  <2>2. h = [p \in L |-> h[p]]
    OBVIOUS
  <2> HIDE DEF h
  <2> QED
    BY <2>1, <2>2
<1>7. ASSUME NEW p \in L, NEW q \in L, h[p] = h[q] PROVE p = q
  <2>1. PICK x \in S : \E i \in 1 .. f[x] : p = <<x, i>>
    BY <1>3
  <2>2. PICK i \in 1 .. f[x] : p = <<x, i>>
    BY <2>1
  <2>3. PICK y \in S : \E j \in 1 .. f[y] : q = <<y, j>>
    BY <1>3
  <2>4. PICK j \in 1 .. f[y] : q = <<y, j>>
    BY <2>3
  <2>5. <<x, b[x][i]>> = <<y, b[y][j]>>
    BY <1>5, <1>7, <2>2, <2>4
  <2>6. x = y /\ b[x][i] = b[y][j]
    BY <2>5
  <2>7. i = j
    BY <1>4, <2>6
  <2> QED
    BY <2>2, <2>4, <2>6, <2>7
<1>8. ASSUME NEW r \in R PROVE \E p \in L : h[p] = r
  <2>1. PICK x \in S : \E y \in A[x] : r = <<x, y>>
    BY DEF Pairs
  <2>2. PICK y \in A[x] : r = <<x, y>>
    BY <2>1
  <2>3. PICK i \in 1 .. f[x] : b[x][i] = y
    BY <1>4
  <2>4. <<x, i>> \in L /\ h[<<x, i>>] = <<x, b[x][i]>>
    BY <1>5
  <2> QED
    BY <2>2, <2>3, <2>4
<1> HIDE DEF h
<1>9. h \in Bijection(L, R)
  BY <1>6, <1>7, <1>8, Fun_IsBij
<1>10. ExistsBijection(R, L)
  BY <1>9, Fun_ExistsBijSymmetric DEF ExistsBijection
<1>11. Cardinality(L) = Cardinality(R)
  BY <1>10, FS_Bijection DEF Pairs
<1> QED
  BY <1>2, <1>11

\* Who looks at relationships from both ends meets each twice, if none is listed twice.
LEMMA BothEnds ==
    ASSUME NEW U, NEW E \in SUBSET (U \X U), IsFiniteSet(E),
           \A e, f \in E : e # <<f[2], f[1]>>
    PROVE  LET P == {p \in U \X U : p \in E \/ <<p[2], p[1]>> \in E}
           IN  IsFiniteSet(P) /\ Cardinality(P) = 2 * Cardinality(E)
<1> DEFINE P == {p \in U \X U : p \in E \/ <<p[2], p[1]>> \in E}
           F == {p \in U \X U : <<p[2], p[1]>> \in E}
           h == [e \in E |-> <<e[2], e[1]>>]
<1>1. \A e \in E : e = <<e[1], e[2]>> /\ e[1] \in U /\ e[2] \in U
  OBVIOUS
<1>2. \A p \in F : p = <<p[1], p[2]>> /\ <<p[2], p[1]>> \in E
  OBVIOUS
<1>3. h \in [E -> F]
  <2>1. \A e \in E : <<e[2], e[1]>> \in F
    BY <1>1
  <2> QED
    BY <2>1
<1>4. ASSUME NEW e \in E, NEW f \in E, h[e] = h[f] PROVE e = f
  <2>1. e[1] = f[1] /\ e[2] = f[2]
    BY <1>4
  <2> QED
    BY <1>1, <2>1, Zenon
<1>5. ASSUME NEW p \in F PROVE \E e \in E : h[e] = p
  <2>1. <<p[2], p[1]>> \in E /\ h[<<p[2], p[1]>>] = <<p[1], p[2]>>
    BY <1>2
  <2> QED
    BY <1>2, <2>1
<1>6. P = E \cup F
  OBVIOUS
<1>7. E \cap F = {}
  BY <1>2
<1> HIDE DEF P, F, h
<1>8. h \in Bijection(E, F)
  BY <1>3, <1>4, <1>5, Fun_IsBij
<1>9. IsFiniteSet(F) /\ Cardinality(F) = Cardinality(E)
  BY <1>8, FS_Bijection DEF ExistsBijection
<1>10. IsFiniteSet(P) /\ Cardinality(P) = Cardinality(E) + Cardinality(F) - Cardinality(E \cap F)
  BY <1>6, <1>9, FS_Union
<1>11. Cardinality(E \cap F) = 0 /\ Cardinality(E) \in Nat
  BY <1>7, FS_EmptySet, FS_CardinalityType
<1>12. IsFiniteSet(P) /\ Cardinality(P) = 2 * Cardinality(E)
  BY <1>9, <1>10, <1>11
<1> QED
  BY <1>12 DEF P

\* The friendships among the relationships: each once, from its lesser end.
Friendships == {p \in users \X users : p[1] < p[2] /\ (p \in knows \/ <<p[2], p[1]>> \in knows)}

LEMMA FriendFacts ==
    ASSUME NodeTypes
    PROVE  /\ IsFiniteSet(users) /\ users \subseteq Nat
           /\ IsFiniteSet(Friendships) /\ Cardinality(Friendships) \in Nat
           /\ \A e \in knows : /\ e = <<e[1], e[2]>> /\ e[1] \in users /\ e[2] \in users
                               /\ e[1] \in Nat /\ e[2] \in Nat /\ e[1] # e[2]
<1>1. IsFiniteSet(users) /\ users \subseteq Nat
  BY UsersAreFinite, FS_Subset DEF NodeTypes
<1>2. IsFiniteSet(users \X users)
  BY <1>1, FS_Product
<1>3. Friendships \subseteq users \X users
  BY DEF Friendships
<1>4. IsFiniteSet(Friendships) /\ Cardinality(Friendships) \in Nat
  BY <1>2, <1>3, FS_Subset, FS_CardinalityType
<1>5. \A e \in knows : e = <<e[1], e[2]>> /\ e[1] \in users /\ e[2] \in users
  BY EdgesAreFinite DEF NodeTypes
<1>6. \A e \in knows : e[1] # e[2]
  BY FriendsAssumption DEF FriendsAssumption, NodeTypes
<1> QED
  BY <1>1, <1>4, <1>5, <1>6

\* The degrees of get_graph_statistics_neo4j meet every friendship twice, also one
\* that is stored from both ends.
LEMMA DegreesCount ==
    ASSUME NodeTypes
    PROVE  TotalEdges = Cardinality(Friendships)
<1> DEFINE A == [u \in users |-> Neighbours(u)]
           R == {p \in users \X users : p[2] \in A[p[1]]}
           f == [u \in users |-> Cardinality(Neighbours(u))]
           P == {p \in users \X users : p \in Friendships \/ <<p[2], p[1]>> \in Friendships}
<1>1. IsFiniteSet(P) /\ Cardinality(P) = 2 * Cardinality(Friendships)
  <2>1. Friendships \in SUBSET (users \X users)
    BY DEF Friendships
  <2>2. \A d, e \in Friendships : d # <<e[2], e[1]>>
    BY FriendFacts DEF Friendships
  <2> QED
    BY <2>1, <2>2, FriendFacts, BothEnds
<1>2. R = P
  <2>1. \A u \in users, v \in users : v \in A[u] <=> <<u, v>> \in knows \/ <<v, u>> \in knows
    BY DEF Neighbours
  <2>2. \A u \in users, v \in users : <<u, v>> \in knows => u < v \/ v < u
    BY FriendFacts
  <2>3. \A u \in users, v \in users :
          /\ <<u, v>> \in Friendships <=> u < v /\ (<<u, v>> \in knows \/ <<v, u>> \in knows)
    BY DEF Friendships
  <2> HIDE DEF A
  <2>4. \A u \in users, v \in users : v \in A[u] <=> <<u, v>> \in Friendships \/ <<v, u>> \in Friendships
    BY <2>1, <2>2, <2>3
  <2> QED
    BY <2>4
<1>3. A \in [users -> SUBSET users]
  BY DEF Neighbours
<1>4. \A u \in users : IsFiniteSet(A[u])
  BY <1>3, FriendFacts, FS_Subset
<1>5. DOMAIN f = users /\ \A u \in users : IsFiniteSet(A[u]) /\ f[u] = Cardinality(A[u])
  BY <1>4
<1>6. \A p : p \in R <=> \E u \in users : \E v \in A[u] : p = <<u, v>>
  BY <1>3
<1> HIDE DEF A, P, R, f
<1>7. Pairs(f, A, R)
  BY <1>1, <1>2, <1>5, <1>6 DEF Pairs
<1>8. Total(f) = Cardinality(R)
  BY <1>7, TotalCounts
<1>9. TotalEdges = (2 * Cardinality(Friendships)) \div 2
  BY <1>1, <1>2, <1>8 DEF TotalEdges, f
<1> QED
  BY <1>9, FriendFacts

\* A friendship is what it joins.
LEMMA FriendshipsCount ==
    ASSUME NodeTypes
    PROVE  Cardinality(Friendships) = Cardinality({{e[1], e[2]} : e \in knows})
<1> DEFINE Q == {{e[1], e[2]} : e \in knows}
           h == [p \in Friendships |-> {p[1], p[2]}]
<1>1. \A p \in Friendships : /\ p = <<p[1], p[2]>> /\ p[1] \in Nat /\ p[2] \in Nat /\ p[1] < p[2]
                             /\ (p \in knows \/ <<p[2], p[1]>> \in knows)
  BY FriendFacts DEF Friendships
<1>2. ASSUME NEW p \in Friendships PROVE h[p] \in Q
  <2>1. CASE p \in knows
    BY <2>1
  <2>2. CASE <<p[2], p[1]>> \in knows
    <3>1. {p[2], p[1]} \in Q
      BY <2>2
    <3>2. {p[2], p[1]} = {p[1], p[2]}
      OBVIOUS
    <3> QED
      BY <3>1, <3>2
  <2> QED
    BY <1>1, <2>1, <2>2
<1>3. h \in [Friendships -> Q]
  BY <1>2
<1>4. ASSUME NEW p \in Friendships, NEW q \in Friendships, h[p] = h[q] PROVE p = q
  <2>1. {p[1], p[2]} = {q[1], q[2]}
    BY <1>4
  <2>2. p[1] < p[2] /\ q[1] < q[2] /\ p[1] \in Nat /\ p[2] \in Nat /\ q[1] \in Nat /\ q[2] \in Nat
    BY <1>1
  <2>3. p[1] \in {q[1], q[2]} /\ p[2] \in {q[1], q[2]} /\ q[1] \in {p[1], p[2]}
    BY <2>1
  <2>4. p[1] = q[1] /\ p[2] = q[2]
    BY <2>2, <2>3
  <2>5. p = <<p[1], p[2]>> /\ q = <<q[1], q[2]>>
    BY <1>1
  <2> QED
    BY <2>4, <2>5, Zenon
<1>5. ASSUME NEW r \in Q PROVE \E p \in Friendships : h[p] = r
  <2>1. PICK e \in knows : r = {e[1], e[2]}
    OBVIOUS
  <2>2. /\ e = <<e[1], e[2]>> /\ e[1] \in users /\ e[2] \in users
        /\ e[1] \in Nat /\ e[2] \in Nat /\ e[1] # e[2]
    BY FriendFacts
  <2>3. CASE e[1] < e[2]
    <3>1. e \in Friendships
      BY <2>2, <2>3 DEF Friendships
    <3> QED
      BY <2>1, <3>1
  <2>4. CASE e[2] < e[1]
    <3>1. <<e[2], e[1]>> \in Friendships
      BY <2>2, <2>4 DEF Friendships
    <3>2. h[<<e[2], e[1]>>] = {e[2], e[1]}
      BY <3>1
    <3> QED
      BY <2>1, <3>1, <3>2
  <2> QED
    BY <2>2, <2>3, <2>4
<1> HIDE DEF h, Q
<1>6. h \in Bijection(Friendships, Q)
  BY <1>3, <1>4, <1>5, Fun_IsBij
<1>7. Cardinality(Q) = Cardinality(Friendships)
  BY <1>6, FriendFacts, FS_Bijection DEF ExistsBijection
<1> QED
  BY <1>7 DEF Q

-----------------------------------------------------------------------------
(* The import                                                              *)

\* An import under way has merged what it has read, one that is done the file.
Read(n) == {File[i] : i \in 1 .. n}
ImportInv == /\ offset <= Len(File) => knows = Read(offset)
             /\ offset = Done => knows = Edges

LEMMA ReadFacts == Read(0) = {} /\ Read(Len(File)) = Edges /\ (File = <<>> => Edges = {})
<1>1. Read(Len(File)) = Edges
  BY EdgesAreFinite DEF Read, Edges, Range
<1>2. File = <<>> => Edges = {}
  BY <1>1, EdgesAreFinite DEF Read
<1> QED
  BY <1>1, <1>2 DEF Read

LEMMA WipeCounts ==
    ASSUME Wipe
    PROVE  ImportInv'
<1>1. Done' = Done
  BY DEF Done
<1>2. ASSUME knows' = {}, offset' = 0 PROVE ImportInv'
  BY <1>1, <1>2, ReadFacts, EdgesAreFinite DEF ImportInv, Done, Read
<1>3. ASSUME knows' = {}, offset' = Done, File = <<>> PROVE ImportInv'
  BY <1>1, <1>3, ReadFacts, OffsetFacts, EdgesAreFinite DEF ImportInv, Done
<1>4. ASSUME offset' = Ended PROVE ImportInv'
  BY <1>1, <1>4, OffsetFacts, EdgesAreFinite DEF ImportInv, Ended, Done
<1> QED
  BY <1>2, <1>3, <1>4 DEF Wipe

LEMMA LoadCounts ==
    ASSUME ImportTypes, ImportInv, Load
    PROVE  ImportInv'
<1>1. /\ offset \in 0 .. Len(File) /\ Upto \in 1 .. Len(File) /\ offset < Upto
      /\ Len(File) \in Nat /\ offset < Len(File)
  BY BatchFacts DEF Load, ImportTypes
<1>2. Read(offset) \cup Batch = Read(Upto)
  BY <1>1 DEF Read, Batch
<1>3. knows = Read(offset)
  BY <1>1 DEF ImportInv
<1>4. ASSUME knows' = knows \cup Batch, offset' = (IF Upto = Len(File) THEN Done ELSE Upto)
      PROVE  ImportInv'
  <2>1. knows' = Read(Upto)
    BY <1>2, <1>3, <1>4
  <2>2. CASE Upto = Len(File)
    BY <1>1, <1>4, <2>1, <2>2, ReadFacts DEF ImportInv, Done
  <2>3. CASE Upto # Len(File)
    BY <1>1, <1>4, <2>1, <2>3 DEF ImportInv, Done, Read
  <2> QED
    BY <2>2, <2>3
<1>5. ASSUME offset' = Ended PROVE ImportInv'
  BY <1>1, <1>5 DEF ImportInv, Ended, Done
<1> QED
  BY <1>4, <1>5 DEF Load

LEMMA ImportIsLeft == ImportInv /\ UNCHANGED <<knows, offset>> => ImportInv'
BY DEF ImportInv, Read, Done

\* For every file and every size of the batches, after whatever imports that broke
\* off: when import_graph_to_neo4j has come to its end, the statistics count every
\* friendship of the file once.
THEOREM ImportsAreCounted == GraphSpec => []ImportIsCounted
<1>1. GraphInit => ImportInv
  BY OffsetFacts, EdgesAreFinite DEF GraphInit, ImportInv, Ended, Done
<1>2. ASSUME GraphTypeOK, ImportInv, [GraphNext]_graphVars
      PROVE  ImportInv'
  <2>1. ImportTypes
    BY <1>2, TypesInParts
  <2>2. import_graph_to_neo4j => ImportInv'
    BY <1>2, <2>1, WipeCounts, LoadCounts DEF import_graph_to_neo4j
  <2>3. ASSUME NEW s \in Syncs, sync_all_algorithm_results(s)
        PROVE  UNCHANGED <<knows, offset>>
    BY <2>3 DEF sync_all_algorithm_results, Collect, batch_update_algorithm_results,
                _sync_community_nodes, graph, import
  <2>4. Walk \/ get_topology_paginated \/ initialize_schema \/ UNCHANGED graphVars
        => UNCHANGED <<knows, offset>>
    BY DEF Walk, get_topology_paginated, initialize_schema, graphVars, graph, import
  <2> QED
    BY <1>2, <2>2, <2>3, <2>4, ImportIsLeft DEF GraphNext
<1>3. ASSUME GraphTypeOK, ImportInv PROVE ImportIsCounted
  <2> SUFFICES ASSUME offset = Done PROVE TotalEdges = Cardinality({{e[1], e[2]} : e \in Edges})
    BY DEF ImportIsCounted
  <2>1. NodeTypes /\ knows = Edges
    BY <1>3, TypesInParts DEF ImportInv
  <2>2. TotalEdges = Cardinality({{e[1], e[2]} : e \in knows})
    BY <2>1, DegreesCount, FriendshipsCount
  <2> QED
    BY <2>1, <2>2
<1> QED
  BY <1>1, <1>2, <1>3, GraphTypeCorrect, PTL DEF GraphSpec

-----------------------------------------------------------------------------
(* The two beside each other                                               *)

\* What Data runs is a behaviour of either: all the theorems hold of it.
THEOREM DataKeepsItsParts == DataSpec => Spec /\ GraphSpec
<1>1. DataInit => Init /\ GraphInit
  BY DEF DataInit
<1>2. [DataNext]_dataVars => [Next]_vars /\ [GraphNext]_graphVars
  BY DEF DataNext, dataVars
<1> QED
  BY <1>1, <1>2, PTL DEF DataSpec, Spec, GraphSpec
=============================================================================
