--------------------------- MODULE MCNetReconcile ---------------------------
(***************************************************************************)
(* The reconciler with trades of two contracts: a trade beside a fill of   *)
(* somebody else, a trade on top of a position found at the start, and     *)
(* either of the two surprises with an unwind that goes wrong.             *)
(***************************************************************************)
EXTENDS NetReconcile

MCStrays == {-2}
MCScenarios ==
  {[ghost |-> 0, trades |-> 1, dir |-> 1, strays |-> 1, slow |-> 0],
   [ghost |-> -1, trades |-> 1, dir |-> 1, strays |-> 0, slow |-> 0],
   [ghost |-> -1, trades |-> 1, dir |-> -1, strays |-> 0, slow |-> 0],
   [ghost |-> 0, trades |-> 0, dir |-> 1, strays |-> 1, slow |-> 1],
   [ghost |-> -1, trades |-> 0, dir |-> 1, strays |-> 0, slow |-> 1]}

\* A trade that somebody else closes.
Closing == {-1}
OneTrade == {[ghost |-> 0, trades |-> 1, dir |-> 1, strays |-> 1, slow |-> 0]}
=============================================================================
