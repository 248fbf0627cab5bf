--------------------------- MODULE MCMetricsWriter ---------------------------
(* Finite instances of MetricsWriter.                                      *)
EXTENDS MetricsWriter
==============================================================================
