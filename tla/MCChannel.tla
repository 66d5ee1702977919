----------------------------- MODULE MCChannel -----------------------------
(***************************************************************************)
(* Model of Channel: clients that may take any of three roles (one of each *)
(* rank) and up to three live timers, enough for a stale handleTOT to      *)
(* orphan a timer while a third timer is started.                          *)
(***************************************************************************)
EXTENDS Channel

MCRole == {"commander", "operator", "visitor"}
=============================================================================
