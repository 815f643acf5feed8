--------------------------- MODULE MCRiskSession ---------------------------
(***************************************************************************)
(* The risk manager on a small account: limits that one or two trades      *)
(* reach, in either order, and a restart or reconnect between any two      *)
(* steps.                                                                  *)
(***************************************************************************)
EXTENDS RiskSession

MCPnls == {-3, -2, 2}
MCBalances == {6, 10, 12}
MCDailyLimit == -2
=============================================================================
