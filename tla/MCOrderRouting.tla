--------------------------- MODULE MCOrderRouting ---------------------------
(***************************************************************************)
(* Long trades of one contract.                                            *)
(***************************************************************************)
EXTENDS OrderRouting

MCSignals == {"BUY"}

\* The orders a message can still be about.
Heard == xc.live \cup {wire[k].id : k \in DOMAIN wire}

\* What a later step or a property of the passing run can depend on: the dedupe,
\* the side, the kind and the unwinds of orders that can still be heard of, the
\* trade of a guard while it is one, the net position until fills have crossed,
\* and of the two reasons for a missing stop that there is one.
View ==
  <<[om EXCEPT !.processed = [b \in Baskets |-> IF b \in Heard THEN @[b] ELSE 0],
               !.cancelTrade = [b \in Baskets |-> IF b \in om.cancelled THEN @[b] ELSE 0],
               !.buys = @ \cap Heard, !.stops = @ \cap Heard,
               !.unwinds = @ \cap Heard, !.seeded = {}],
    IF hist.crossed THEN [xc EXCEPT !.net = 0] ELSE xc,
    wire, ctl, hist.crossed, hist.exposed \/ hist.redriven, hist.left>>
=============================================================================
