------------------------- MODULE MCStateStatistics -------------------------
(***************************************************************************)
(* StateStatistics for TLC; the constants are given in the cfg.            *)
(***************************************************************************)
EXTENDS StateStatistics

=============================================================================
