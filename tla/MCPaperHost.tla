---------------------------- MODULE MCPaperHost ----------------------------
(***************************************************************************)
(* One engine of the paper fleet: the set-up machines of the scalper, and  *)
(* the trend modes that differ under this host.                            *)
(***************************************************************************)
EXTENDS PaperHost

MCTrend == {"hold", "rs_continuation", "book_imbalance"}
MCMtf == {"flag_retest", "onset", "fvg_struct", "sweep"}
MCLimits == {"hold"}
MCRisks == {"orb"}
MCWarms == {"orb", "hold"}
MCSteps == {1, 2}

=============================================================================
