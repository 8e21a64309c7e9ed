-------------------------- MODULE MCStatsCollector --------------------------
(***************************************************************************)
(* The windows of the stats collector last one minute and the watermark    *)
(* trails by one.  Three messages with event times 0..3 can leave a window *)
(* open, close two at once, and come late.  The nine tables are written    *)
(* alike: the first three stand for them, one before, one at and one after *)
(* a write that fails.                                                     *)
(***************************************************************************)
EXTENDS StatsCollector

NineTables == <<
    "traffic_stats", "traffic_stats_by_protocol", "traffic_stats_by_port",
    "traffic_stats_by_direction", "traffic_stats_by_host",
    "traffic_stats_by_subnet", "traffic_stats_by_pair",
    "traffic_top_sources", "traffic_top_targets" >>

ThreeTables == SubSeq(NineTables, 1, 3)
=============================================================================
