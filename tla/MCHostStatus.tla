---------------------------- MODULE MCHostStatus ----------------------------
(***************************************************************************)
(* One host whose host_id is configured to be its address, as the join of  *)
(* fetch_host_status needs, and one packet of it in each minute.           *)
(***************************************************************************)
EXTENDS HostStatus

MCHosts == {"h"}
MCHostOf == [i \in 1..MaxPackets |-> "h"]
MCAddress == [h \in MCHosts |-> "10.0.0.1"]
=============================================================================
