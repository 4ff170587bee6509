---------------------------- MODULE MCCollector ----------------------------
(* TLC instance of Collector.                                                 *)
EXTENDS Collector
=============================================================================
