--------------------------- MODULE MCCollector ---------------------------
(***************************************************************************)
(* Collector.tla on small instances: three rows fill a buffer of two, or a *)
(* queue of two jobs and the writer at once; two faults and two crashes    *)
(* suffice for a torn tail, an append behind it, a commit that fails and a *)
(* crash before the next.                                                  *)
(***************************************************************************)
EXTENDS Collector
=============================================================================
