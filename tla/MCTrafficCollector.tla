------------------------- MODULE MCTrafficCollector -------------------------
(***************************************************************************)
(* One or two hosts and two partitions.  The hosts hash to different       *)
(* partitions and the empty key to that of h1, so that a message in the    *)
(* wrong partition can be told from one in the right one.                  *)
(***************************************************************************)
EXTENDS TrafficCollector

CONSTANTS
    h1, h2, p1, p2

OneHost == {h1}

TwoHosts == {h1, h2}

MCPartitions == {p1, p2}

AsyncOnly == {TRUE}

BothModes == BOOLEAN

MCPartitionOf == [k \in Hosts \cup {NoKey} |-> IF k = h2 THEN p2 ELSE p1]
=============================================================================
