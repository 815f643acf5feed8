------------------------------ MODULE LegLife ------------------------------
(***************************************************************************)
(* What the order manager promises its clients about the one leg it keeps: *)
(* an abstract specification.  A leg is taken from FLAT, opens only by the *)
(* fill of its entry, is asked to exit only while it is open, comes back   *)
(* when the exit is refused, keeps its direction for life and ends FLAT.   *)
(* OrderManager implements it with orders, stops and guards; LiveHost is   *)
(* written against it.                                                     *)
(***************************************************************************)
CONSTANTS Side,     \* the directions of a leg
          NoSide    \* the direction of none

VARIABLE leg

NoLeg == [st |-> "FLAT", dir |-> NoSide]

Init == leg = NoLeg

Take == leg = NoLeg /\ \E d \in Side : leg' = [st |-> "PEND", dir |-> d]

Moves(from, to) == leg.st = from /\ leg' = [st |-> to, dir |-> leg.dir]

Open == Moves("PEND", "OPEN")
AskExit == Moves("OPEN", "EXIT")
ExitFails == Moves("EXIT", "OPEN")

\* Closed, dead at the exchange, or forgotten by a new process.
End == leg.st # "FLAT" /\ leg' = NoLeg

Next == Take \/ Open \/ AskExit \/ ExitFails \/ End

Spec == Init /\ [][Next]_leg

=============================================================================
