---------------------------- MODULE MCCommandLine ---------------------------
(***************************************************************************)
(* Lines of up to five characters, with what earlier ones left behind them. *)
(***************************************************************************)
EXTENDS CommandLine
=============================================================================
