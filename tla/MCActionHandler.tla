--------------------------- MODULE MCActionHandler --------------------------
(* Small instances of ActionHandler for TLC. *)
EXTENDS ActionHandler
\* Two tickers of one light brief and the backtest of a full one.
AlertKind == <<"run_full_study", "run_full_study", "run_backtest">>
AlertBrief == <<"light", "light", "full">>
=============================================================================
