------------------------------- MODULE Storage -------------------------------
(***************************************************************************)
(* How data reaches the stores: the middleware's clients of the four       *)
(* stores, with the listener on Redis (PubSub), and the engine's writer of *)
(* its measurements into MySQL (MetricsWriter).  They are parts of two     *)
(* programs and share nothing, so a behaviour follows one of them.         *)
(***************************************************************************)
EXTENDS PubSub, MetricsWriter

VARIABLE part

storageVars == <<allvars, writerVars, part>>

StorageInit == /\ PubSubInit /\ WriterInit /\ part \in {"clients", "writer"}
               /\ part = "writer" => up /\ store = CHOOSE s \in Stores : TRUE

StorageNext == \/ part = "clients" /\ PubSubNext /\ UNCHANGED <<writerVars, part>>
               \/ part = "writer" /\ WriterNext /\ UNCHANGED <<allvars, part>>

StorageSpec == StorageInit /\ [][StorageNext]_storageVars /\ PubSubFairness /\ WriterFairness
==============================================================================
