--------------------------- MODULE MCOrderManager ---------------------------
(***************************************************************************)
(* The order manager under its most general client.                        *)
(***************************************************************************)
EXTENDS OrderManager

\* What the next step can depend on: the trade of a guard matters while it is a
\* guard, the rejection counter up to the threshold; what has been sent, whether
\* a completed trade waits to be popped and the fill dedupe matter to the caller
\* only.
View ==
  [om EXCEPT !.out = {}, !.tradeCompleted = FALSE,
             !.processed = [b \in Baskets |-> 0],
             !.cancelTrade = [b \in Baskets |-> IF b \in om.cancelled THEN @[b] ELSE 0],
             !.rejectedExits = IF @ > 3 THEN 4 ELSE @]
=============================================================================
