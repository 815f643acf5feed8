----------------------------- MODULE MCLiveHost -----------------------------
(***************************************************************************)
(* One engine under the live executor.  One mode of each control is run:   *)
(* the others differ from it in their indicators only.                     *)
(***************************************************************************)
EXTENDS LiveHost

MCTrend == {"donchian", "vwap_fade", "ema_pullback", "opening_drive",
    "trend_day", "hold", "gap_go", "tod_momentum", "news_break", "atr_break",
    "vprofile_fade", "gap_fade", "ib_break", "orb_retest", "failed_breakout",
    "absorption_reversal", "supertrend"}
MCMtf == {"plain"}
MCDrops == {"orb", "news_break"}

=============================================================================
