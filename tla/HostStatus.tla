----------------------------- MODULE HostStatus -----------------------------
(***************************************************************************)
(* The status of the monitored hosts: fetch_host_status of the web backend *)
(* (src/app-service/backend/db.py) over the table traffic_stats_by_host,   *)
(* which the traffic query of the stats collector fills window by window.  *)
(*                                                                         *)
(* The model takes the best case for the query.  Every host sends in every *)
(* minute, its packets are in the topic at once and its clock is right; no *)
(* microbatch takes longer than a minute, no write fails and no process    *)
(* restarts.  Spark aligns a trigger of one minute to full minutes: it     *)
(* fires before the packets of the minute are sent.                        *)
(*                                                                         *)
(* A message is a packet of the host HostOf gives.  Of by_host the window  *)
(* and the address of each row matter; of the status also last_seen and    *)
(* is_offline.  The limit of one hour in the query, the counts and what is *)
(* copied from hosts_info are left out.                                    *)
(***************************************************************************)
EXTENDS WindowedQuery

CONSTANTS
    Hosts,
    HostOf,    \* the host that sends each message
    HostId,    \* host_id of each host (hostinfo.go)
    Address    \* its IP address

VARIABLES
    now,         \* the current minute
    lastBatch,   \* <<minute>> of the last trigger, or <<>>
    byHost,      \* traffic_stats_by_host: pairs <<window_start, host_ip>>
    registered,  \* hosts_info: the host_ids
    status      \* what the dashboard shows of each host, <<>> before

vars == <<queryVars, now, lastBatch, byHost, registered, status>>

Init ==
    /\ QueryInit
    /\ now = 0
    /\ lastBatch = <<>>
    /\ byHost = {}
    /\ registered = {}
    /\ status = [h \in Hosts |-> <<>>]

LastActivity(h) == Max({topic[i] : i \in {j \in DOMAIN topic : HostOf[j] = h}})

-----------------------------------------------------------------------------

(* RegisterHost, and the hosts query that stores the message. *)
RegisterHost(h) ==
    /\ HostId[h] \notin registered
    /\ registered' = registered \cup {HostId[h]}
    /\ UNCHANGED <<queryVars, now, lastBatch, byHost, status>>

SendPacket ==
    /\ lastBatch = <<now>>
    /\ Arrive(now)
    /\ HostId[HostOf[Len(topic) + 1]] \in registered
    /\ UNCHANGED <<now, lastBatch, byHost, registered, status>>

Trigger ==
    /\ lastBatch # <<now>>
    /\ \/ Plan
       \/ Len(topic) = committed /\ watermark = lateMark /\ UNCHANGED queryVars
    /\ lastBatch' = <<now>>
    /\ UNCHANGED <<now, byHost, registered, status>>

(* write_by_host(by_host(df)), and the end of the microbatch. *)
WriteByHost ==
    /\ planned # <<>>
    /\ byHost' = byHost \cup {<<row[1], Address[HostOf[row[2]]]>> : row \in Emitted}
    /\ Commit
    /\ UNCHANGED <<now, lastBatch, registered, status>>

Minute ==
    /\ now < MaxTime
    /\ \A h \in Hosts : \E i \in DOMAIN topic : HostOf[i] = h /\ topic[i] = now
    /\ lastBatch = <<now>> /\ planned = <<>>
    /\ now' = now + 1
    /\ UNCHANGED <<queryVars, lastBatch, byHost, registered, status>>

(* The rows that are joined to a host: host_ip AS host_id. *)
WindowsSeen(h) == {row[1] : row \in {r \in byHost : r[2] = HostId[h]}}

fetch_host_status ==
    /\ status' = [h \in Hosts |->
          IF HostId[h] \notin registered THEN <<>>
          ELSE LET seen == WindowsSeen(h)
               IN  << [seen |-> seen # {},
                       is_offline |-> seen = {} \/ now - Max(seen) > 3,
                       silent |-> IF \E i \in DOMAIN topic : HostOf[i] = h
                                  THEN <<now - LastActivity(h)>> ELSE <<>>] >>]
    /\ UNCHANGED <<queryVars, now, lastBatch, byHost, registered>>

Next ==
    \/ \E h \in Hosts : RegisterHost(h)
    \/ SendPacket
    \/ Trigger
    \/ WriteByHost
    \/ Minute
    \/ fetch_host_status

Spec == Init /\ [][Next]_vars

-----------------------------------------------------------------------------
(* The docstring of fetch_host_status (db.py:206): a host is offline if    *)
(* its last activity is older than three minutes; here only of hosts that  *)
(* have rows in the table.                                                 *)
OfflineMeansSilent ==
    \A h \in Hosts : status[h] # <<>> =>
        LET s == status[h][1]
        IN  s.seen /\ s.is_offline => s.silent[1] > 3
=============================================================================
