-------------------------- MODULE MCOnlineDetector --------------------------
(***************************************************************************)
(* The thresholds and the severities are those of config.py; a window has  *)
(* three slides instead of five and the watermark one instead of two.      *)
(* Three bursts of two heavy keys among 9, 10, 25 or 26 others: one heavy  *)
(* key is hidden by a small crowd, stands out in a larger one, is critical *)
(* only among 26 others, and two of them may hide each other.              *)
(***************************************************************************)
EXTENDS OnlineDetector

MCKeys == {"a", "b"}
MCKeyOf == <<"a", "b", "a">>
MCViews == {"dst_service", "src"}
MCThreshold == [dst_service |-> 6, src |-> 9]
=============================================================================
