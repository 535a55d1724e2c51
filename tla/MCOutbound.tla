---------------------------- MODULE MCOutbound ----------------------------
(* Small instances of Outbound for TLC: reads and batches of two items by   *)
(* two requests, so that up to four calls queue.                            *)
EXTENDS Outbound
=============================================================================
