--------------------------- MODULE StatsCollector ---------------------------
(***************************************************************************)
(* The stats collector (src/stats-collector): one process that runs two    *)
(* streaming queries.                                                      *)
(*                                                                         *)
(*   traffic  windows of one minute, written to nine ClickHouse tables one *)
(*            after the other (process_traffic_batch); an exception of a   *)
(*            write is printed and the microbatch counts as done           *)
(*   hosts    HostInfo messages, written to hosts_info (write_hosts); an   *)
(*            exception ends the query, and with it awaitAnyTermination    *)
(*            and the process, which docker restarts                       *)
(*                                                                         *)
(* Both keep a checkpoint that survives the restart.  A table of the       *)
(* traffic query is the sequence of the microbatches saved to it, each the *)
(* set of rows of the base aggregation it was computed from; what the nine *)
(* aggregations make of these rows is left out.                            *)
(***************************************************************************)
EXTENDS WindowedQuery

CONSTANTS
    TableNames,  \* the tables, in the order process_traffic_batch writes them
    MaxHosts,    \* bound of the model: HostInfo messages
    MaxCrashes   \* bound of the model: restarts of the process

ASSUME StatsAssumption ==
    /\ TableNames \in Seq(STRING) /\ TableNames # <<>>
    /\ {MaxHosts, MaxCrashes} \subseteq Nat

VARIABLES
    sink,           \* process_traffic_batch: "idle", "writing", "returned"
    table,          \* the table it writes next
    tables,         \* the tables
    hostTopic,      \* HostInfo messages so far
    hostCommitted,  \* those the committed microbatches of the hosts query read
    hostPlanned,    \* <<upto>> while one of its microbatches runs
    hostWritten,    \* its rows have been saved
    hostsInfo,      \* hosts_info: a ReplacingMergeTree, so a set
    crashes,        \* history: restarts so far
    failed          \* history: rows of microbatches whose writes raised

sinkVars == <<sink, table, tables>>
hostVars == <<hostTopic, hostCommitted, hostPlanned, hostWritten, hostsInfo>>
vars == <<queryVars, sinkVars, hostVars, crashes, failed>>

Tables == DOMAIN TableNames

Init ==
    /\ QueryInit
    /\ sink = "idle"
    /\ table = 1
    /\ tables = [t \in Tables |-> <<>>]
    /\ hostTopic = 0
    /\ hostCommitted = 0
    /\ hostPlanned = <<>>
    /\ hostWritten = FALSE
    /\ hostsInfo = {}
    /\ crashes = 0
    /\ failed = {}

-----------------------------------------------------------------------------
(* The traffic query                                                       *)

ArriveTraffic(t) ==
    /\ Arrive(t)
    /\ UNCHANGED <<sinkVars, hostVars, crashes, failed>>

PlanTraffic ==
    /\ Plan
    /\ UNCHANGED <<sinkVars, hostVars, crashes, failed>>

(* process_traffic_batch is called; it returns at once if df is empty. *)
StartBatch ==
    /\ planned # <<>>
    /\ sink = "idle"
    /\ sink' = IF Emitted = {} THEN "returned" ELSE "writing"
    /\ table' = 1
    /\ UNCHANGED <<queryVars, tables, hostVars, crashes, failed>>

Save(t) == tables' = [tables EXCEPT ![t] = Append(@, Emitted)]

WriteTable ==
    /\ sink = "writing"
    /\ Save(table)
    /\ IF table = Len(TableNames)
       THEN sink' = "returned" /\ UNCHANGED table
       ELSE table' = table + 1 /\ UNCHANGED sink
    /\ UNCHANGED <<queryVars, hostVars, crashes, failed>>

(* A plausible bug: every write has a try of its own, the ones after a     *)
(* failure included.                                                       *)
WriteFailsContinues ==
    /\ sink = "writing"
    /\ failed' = failed \cup Emitted
    /\ UNCHANGED tables
    /\ IF table = Len(TableNames)
       THEN sink' = "returned" /\ UNCHANGED table
       ELSE table' = table + 1 /\ UNCHANGED sink
    /\ UNCHANGED <<queryVars, hostVars, crashes>>

(* A write raises, before or after ClickHouse has taken the rows: the      *)
(* exception is printed, the remaining tables are skipped, and the         *)
(* function returns as if it had succeeded.                                *)
WriteFails ==
    /\ sink = "writing"
    /\ Save(table) \/ UNCHANGED tables
    /\ failed' = failed \cup Emitted
    /\ sink' = "returned"
    /\ UNCHANGED <<queryVars, table, hostVars, crashes>>

CommitTraffic ==
    /\ sink = "returned"
    /\ Commit
    /\ sink' = "idle"
    /\ UNCHANGED <<table, tables, hostVars, crashes, failed>>

-----------------------------------------------------------------------------
(* The hosts query                                                         *)

Register ==
    /\ hostTopic < MaxHosts
    /\ hostTopic' = hostTopic + 1
    /\ UNCHANGED <<queryVars, sinkVars, hostCommitted, hostPlanned, hostWritten, hostsInfo>>
    /\ UNCHANGED <<crashes, failed>>

PlanHosts ==
    /\ hostPlanned = <<>>
    /\ hostTopic > hostCommitted
    /\ hostPlanned' = <<hostTopic>>
    /\ hostWritten' = FALSE
    /\ UNCHANGED <<queryVars, sinkVars, hostTopic, hostCommitted, hostsInfo, crashes, failed>>

(* A plausible bug: write_hosts swallows its exception like the traffic    *)
(* query does, so that the microbatch commits without its rows.            *)
WriteHostsSwallows ==
    /\ hostPlanned # <<>>
    /\ ~hostWritten
    /\ hostWritten' = TRUE
    /\ \/ hostsInfo' = hostsInfo \cup (hostCommitted + 1..hostPlanned[1])
       \/ UNCHANGED hostsInfo
    /\ UNCHANGED <<queryVars, sinkVars, hostTopic, hostCommitted, hostPlanned, crashes, failed>>

(* write_hosts saves the microbatch; a save that raises is a Restart. *)
WriteHosts ==
    /\ hostPlanned # <<>>
    /\ ~hostWritten
    /\ hostWritten' = TRUE
    /\ hostsInfo' = hostsInfo \cup (hostCommitted + 1..hostPlanned[1])
    /\ UNCHANGED <<queryVars, sinkVars, hostTopic, hostCommitted, hostPlanned, crashes, failed>>

CommitHosts ==
    /\ hostPlanned # <<>>
    /\ hostWritten
    /\ hostCommitted' = hostPlanned[1]
    /\ hostPlanned' = <<>>
    /\ UNCHANGED <<queryVars, sinkVars, hostTopic, hostWritten, hostsInfo, crashes, failed>>

-----------------------------------------------------------------------------
(* The process                                                             *)

(* The process dies, of an exception of the hosts query, of one outside    *)
(* the try of process_traffic_batch or of anything else, and is restarted. *)
(* What is in the checkpoints survives: a planned microbatch is run again, *)
(* with the same offsets, from its first table on.                         *)
Restart ==
    /\ crashes < MaxCrashes
    /\ crashes' = crashes + 1
    /\ sink' = "idle"
    /\ hostWritten' = FALSE
    /\ UNCHANGED <<queryVars, table, tables, failed>>
    /\ UNCHANGED <<hostTopic, hostCommitted, hostPlanned, hostsInfo>>

TrafficStep == PlanTraffic \/ StartBatch \/ WriteTable \/ WriteFails \/ CommitTraffic

HostsStep == PlanHosts \/ WriteHosts \/ CommitHosts

(* Between triggers nothing need happen. *)
Quiet ==
    /\ planned = <<>>
    /\ hostPlanned = <<>>
    /\ UNCHANGED vars

Next ==
    \/ \E t \in Times : ArriveTraffic(t)
    \/ TrafficStep
    \/ Register
    \/ HostsStep
    \/ Restart
    \/ Quiet

Spec == Init /\ [][Next]_vars

(* Triggers fire, and a microbatch that has begun goes on to its commit,   *)
(* unless the process is restarted.                                        *)
Fairness == WF_vars(TrafficStep) /\ WF_vars(HostsStep)

FairSpec == Spec /\ Fairness

-----------------------------------------------------------------------------
(* Properties                                                              *)

TypeOK ==
    /\ QueryTypeOK
    /\ sink \in {"idle", "writing", "returned"}
    /\ sink # "idle" => planned # <<>>
    /\ table \in Tables
    /\ tables \in [Tables -> Seq(SUBSET Rows)]
    /\ hostTopic \in 0..MaxHosts
    /\ hostCommitted \in 0..hostTopic
    /\ hostPlanned = <<>> \/ \E n \in hostCommitted + 1..hostTopic : hostPlanned = <<n>>
    /\ hostWritten \in BOOLEAN
    /\ hostsInfo \subseteq 1..MaxHosts
    /\ crashes \in 0..MaxCrashes
    /\ failed \subseteq Rows

Copies(t, row) == Cardinality({k \in DOMAIN tables[t] : row \in tables[t][k]})

InEveryTable(row) == \A t \in Tables : Copies(t, row) > 0

(* A slice never holds traffic that a table written before it lacks: at    *)
(* any moment, after any failure and any replay, each table has at most as *)
(* many copies of a row as the one before it (main.py:46-63).              *)
EarlierTablesCoverLater ==
    \A t \in Tables \ {1} : \A row \in Rows : Copies(t, row) <= Copies(t - 1, row)

(* All microbatches that ever write a window write the same rows for it:   *)
(* late rows never reopen a window that was written, and a replay after a  *)
(* restart repeats its microbatch exactly (aggregators.py:11-13).          *)
WindowNeverSplit ==
    \A t, u \in Tables : \A k \in DOMAIN tables[t], l \in DOMAIN tables[u] :
        \A r1 \in tables[t][k], r2 \in tables[u][l] :
            r1[1] = r2[1] => r1 \in tables[u][l] /\ r2 \in tables[t][k]

(* A row is saved to a table once, and once more for each restart at most  *)
(* (main.py:92-94).                                                        *)
CopiesNeedRestarts ==
    \A t \in Tables : \A row \in Rows : Copies(t, row) <= 1 + crashes

(* Traffic the query has read is never lost in silence: it is waiting in   *)
(* an open window, or in every table, or in a microbatch whose exception   *)
(* was printed, or it came more than the watermark's delay behind a        *)
(* message read before it (aggregators.py:11; main.py:46-63).              *)
NoSilentLoss ==
    \A i \in 1..committed : \A row \in RowsOf(i) :
        \/ row \in open /\ ~Ended(row, lateMark)
        \/ InEveryTable(row)
        \/ row \in failed
        \/ \E j \in 1..i - 1 : topic[j] >= row[1] + Length + Delay

(* A window is written as soon as traffic later than its end plus the      *)
(* delay has arrived: the last such message needs no successor             *)
(* (main.py:89-96).                                                        *)
ClosedWindowIsWritten ==
    \A row \in Rows :
        (row \in open /\ \E j \in DOMAIN topic : topic[j] >= row[1] + Length + Delay)
            ~> (InEveryTable(row) \/ row \in failed)

(* Every registration reaches hosts_info, whatever restarts happen between *)
(* the save and the commit of its microbatch (host_processor.py:5-20).     *)
RegistrationIsStored ==
    \A h \in 1..MaxHosts : (hostTopic >= h) ~> (h \in hostsInfo)
=============================================================================
