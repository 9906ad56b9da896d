--------------------------- MODULE MCMetricStore ----------------------------
(* Small instances of module MetricStore.  Keys and adders are             *)
(* interchangeable.                                                        *)
EXTENDS MetricStore, TLC

Interchangeable == Permutations(Keys) \cup Permutations(Adders)
=============================================================================
