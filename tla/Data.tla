-------------------------------- MODULE Data --------------------------------
(***************************************************************************)
(* What the middleware keeps about the graph: the cache's bookkeeping in   *)
(* Redis (CacheKeys) and the graph in Neo4j (GraphStore).  They share      *)
(* nothing: import_data.py does not tell the cache of an import.  So a     *)
(* behaviour follows one of them.                                          *)
(***************************************************************************)
EXTENDS CacheKeys, GraphStore

VARIABLE part

dataVars == <<vars, graphVars, part>>

Parts == {"keys", "graph"}

DataInit == /\ Init /\ GraphInit /\ part \in Parts
            /\ IF part = "keys" THEN follows = "sync" ELSE entry[0] = 0

DataNext == \/ part = "keys" /\ Next /\ UNCHANGED <<graphVars, part>>
            \/ part = "graph" /\ GraphNext /\ UNCHANGED <<vars, part>>

DataSpec == DataInit /\ [][DataNext]_dataVars
=============================================================================
