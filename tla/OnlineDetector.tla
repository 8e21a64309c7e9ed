--------------------------- MODULE OnlineDetector ---------------------------
(***************************************************************************)
(* The online detector (src/online-detector): one streaming query over     *)
(* overlapping windows, whose function process_batch compares the keys of  *)
(* a window with each other and sends those that stand out to two sinks,   *)
(* the table alerts of ClickHouse and a Kafka topic.                       *)
(*                                                                         *)
(* A message of the model stands for a burst of packets of one heavy key;  *)
(* every window also holds a crowd of other keys with one packet each.     *)
(* Each write evaluates the alerts anew from the rows of the microbatch.   *)
(* The scores are compared exactly, without square roots or fractions.     *)
(*                                                                         *)
(* Left out: PEER_TOP_K, as at most one key in ten is more than three      *)
(* standard deviations above the mean, so that 50 alerts take a window of  *)
(* 500 keys; and an exception inside _detect_view while the query is put   *)
(* together (detector.py:136-140).                                         *)
(***************************************************************************)
EXTENDS WindowedQuery

CONSTANTS
    Views,          \* names of PEER_VIEWS that tell the keys of the model apart
    Threshold,      \* their z_threshold, in halves
    PEER_MIN_KEYS,
    SEV_WARNING,    \* in halves
    SEV_CRITICAL,   \* in halves
    Keys,           \* heavy keys
    KeyOf,          \* the key of each message
    Burst,          \* packets of a message
    Crowds,         \* how many other keys the windows may hold
    MaxCrashes      \* bound of the model: restarts of the process

ASSUME DetectorAssumption ==
    /\ Threshold \in [Views -> Nat]
    /\ {PEER_MIN_KEYS, SEV_WARNING, SEV_CRITICAL, Burst, MaxCrashes} \subseteq Nat
    /\ KeyOf \in [1..MaxPackets -> Keys]
    /\ Crowds \subseteq Nat

(* PEER_VIEWS, SEV_WARNING and SEV_CRITICAL of config.py: no view reports  *)
(* below a z-score of 3, nor below a warning, and critical is above 5.     *)
ASSUME ThresholdAssumption ==
    /\ \A v \in Views : Threshold[v] >= 6 /\ Threshold[v] >= SEV_WARNING
    /\ SEV_CRITICAL >= 10

VARIABLES
    crowd,      \* other keys in each window
    sink,       \* process_batch: "idle", "clickhouse", "kafka", "returned"
    stored,     \* the reports in the table alerts
    published,  \* the reports in the topic
    unstored,   \* history: windows of a write to ClickHouse that raised
    unsent,     \* history: windows of a write to Kafka that raised
    crashes     \* history: restarts so far

sinkVars == <<sink, stored, published, unstored, unsent>>
vars == <<queryVars, crowd, sinkVars, crashes>>

Init ==
    /\ QueryInit
    /\ crowd \in Crowds
    /\ sink = "idle"
    /\ stored = {}
    /\ published = {}
    /\ unstored = {}
    /\ unsent = {}
    /\ crashes = 0

-----------------------------------------------------------------------------
(* detect_all_views                                                        *)

(* packet_count of a heavy key in a window, given the rows of the window.  *)
Count(key, rows) == Burst * Cardinality({row \in rows : KeyOf[row[2]] = key})

Heavy(rows) == {KeyOf[row[2]] : row \in rows}

KeysCount(rows) == crowd + Cardinality(Heavy(rows))
HeavySum(rows) == MapThenSumSet(LAMBDA k : Count(k, rows), Heavy(rows))
HeavySquares(rows) == MapThenSumSet(LAMBDA k : Count(k, rows) * Count(k, rows), Heavy(rows))
Total(rows) == HeavySum(rows) + crowd
Squares(rows) == HeavySquares(rows) + crowd

(* n * n * (n - 1) * peer_std ^ 2 / n, with n keys. *)
Spread(rows) == KeysCount(rows) * Squares(rows) - Total(rows) * Total(rows)

(* n * (packet_count - peer_avg) *)
Excess(key, rows) == KeysCount(rows) * Count(key, rows) - Total(rows)

(* A plausible bug: the square of the score is compared. *)
ScoreAboveSquared(key, rows, halves) ==
    /\ Spread(rows) > 0
    /\ Total(rows) < KeysCount(rows) * Count(key, rows)
    /\ 2 * (KeysCount(rows) - 1) * Excess(key, rows) * Excess(key, rows)
            > halves * KeysCount(rows) * Spread(rows)

(* z_packets > halves / 2; z_packets is 0 if all keys are alike. *)
ScoreAbove(key, rows, halves) ==
    /\ Spread(rows) > 0
    /\ Total(rows) < KeysCount(rows) * Count(key, rows)
    /\ 4 * (KeysCount(rows) - 1) * Excess(key, rows) * Excess(key, rows)
            > halves * halves * KeysCount(rows) * Spread(rows)

Severity(key, rows) ==
    IF ScoreAbove(key, rows, SEV_CRITICAL) THEN "critical"
    ELSE IF ScoreAbove(key, rows, SEV_WARNING) THEN "warning" ELSE "info"

Alerts(rows) ==
    {[view |-> p[1], key |-> p[2], keys |-> KeysCount(rows), severity |-> Severity(p[2], rows)] :
        p \in {q \in Views \X Heavy(rows) :
                  KeysCount(rows) >= PEER_MIN_KEYS /\ ScoreAbove(q[2], rows, Threshold[q[1]])}}

EmittedWindows == {row[1] : row \in Emitted}

(* The alerts of the microbatch, window by window. *)
Report == [w \in EmittedWindows |-> Alerts({row \in Emitted : row[1] = w})]

-----------------------------------------------------------------------------
(* The query and process_batch                                             *)

ArrivePacket(t) == Arrive(t) /\ UNCHANGED <<crowd, sinkVars, crashes>>

PlanBatch == Plan /\ UNCHANGED <<crowd, sinkVars, crashes>>

StartBatch ==
    /\ planned # <<>>
    /\ sink = "idle"
    /\ sink' = "clickhouse"
    /\ UNCHANGED <<queryVars, crowd, stored, published, unstored, unsent, crashes>>

WriteAlerts ==
    /\ sink = "clickhouse"
    /\ stored' = stored \cup {Report}
    /\ sink' = "kafka"
    /\ UNCHANGED <<queryVars, crowd, published, unstored, unsent, crashes>>

(* A plausible bug: one try around both writes. *)
WriteAlertsFailsBoth ==
    /\ sink = "clickhouse"
    /\ \/ stored' = stored \cup {Report}
       \/ UNCHANGED stored
    /\ unstored' = unstored \cup EmittedWindows
    /\ sink' = "returned"
    /\ UNCHANGED <<queryVars, crowd, published, unsent, crashes>>

(* write_alerts raises, before or after ClickHouse has taken the alerts;   *)
(* publish_alerts is called all the same.                                  *)
WriteAlertsFails ==
    /\ sink = "clickhouse"
    /\ \/ stored' = stored \cup {Report}
       \/ UNCHANGED stored
    /\ unstored' = unstored \cup EmittedWindows
    /\ sink' = "kafka"
    /\ UNCHANGED <<queryVars, crowd, published, unsent, crashes>>

PublishAlerts ==
    /\ sink = "kafka"
    /\ published' = published \cup {Report}
    /\ sink' = "returned"
    /\ UNCHANGED <<queryVars, crowd, stored, unstored, unsent, crashes>>

PublishAlertsFails ==
    /\ sink = "kafka"
    /\ \/ published' = published \cup {Report}
       \/ UNCHANGED published
    /\ unsent' = unsent \cup EmittedWindows
    /\ sink' = "returned"
    /\ UNCHANGED <<queryVars, crowd, stored, unstored, crashes>>

(* What raises outside the two inner tries is printed by the outer one. *)
DetectFails ==
    /\ sink = "clickhouse"
    /\ unstored' = unstored \cup EmittedWindows
    /\ unsent' = unsent \cup EmittedWindows
    /\ sink' = "returned"
    /\ UNCHANGED <<queryVars, crowd, stored, published, crashes>>

CommitBatch ==
    /\ sink = "returned"
    /\ Commit
    /\ sink' = "idle"
    /\ UNCHANGED <<crowd, stored, published, unstored, unsent, crashes>>

(* The process dies and docker restarts it; a planned microbatch is run    *)
(* again from its checkpoint.                                              *)
Restart ==
    /\ crashes < MaxCrashes
    /\ crashes' = crashes + 1
    /\ sink' = "idle"
    /\ UNCHANGED <<queryVars, crowd, stored, published, unstored, unsent>>

Quiet == planned = <<>> /\ UNCHANGED vars

Next ==
    \/ \E t \in Times : ArrivePacket(t)
    \/ PlanBatch
    \/ StartBatch
    \/ WriteAlerts
    \/ WriteAlertsFails
    \/ PublishAlerts
    \/ PublishAlertsFails
    \/ DetectFails
    \/ CommitBatch
    \/ Restart
    \/ Quiet

Spec == Init /\ [][Next]_vars

-----------------------------------------------------------------------------
(* Properties                                                              *)

Alert == [view : Views, key : Keys, keys : Nat, severity : {"info", "warning", "critical"}]

TypeOK ==
    /\ QueryTypeOK
    /\ crowd \in Crowds
    /\ sink \in {"idle", "clickhouse", "kafka", "returned"}
    /\ sink # "idle" => planned # <<>>
    /\ \A r \in stored \cup published :
          /\ DOMAIN r \subseteq Starts
          /\ \A w \in DOMAIN r : r[w] \subseteq Alert
    /\ {unstored, unsent} \subseteq SUBSET Starts
    /\ crashes \in 0..MaxCrashes

(* A window has one verdict: whatever comes late, whatever is evaluated    *)
(* once for each sink and again after a restart, two reports that cover a  *)
(* window name the same alerts for it.  A second heavy key that joined it  *)
(* later could otherwise take back an alert (detector.py:41-107,           *)
(* main.py:73-95).                                                         *)
VerdictsAgree ==
    \A r, s \in stored \cup published :
        \A w \in DOMAIN r \cap DOMAIN s : r[w] = s[w]

(* Windows a committed microbatch has closed. *)
ClosedWindows == {w \in Starts : \E i \in 1..committed : w \in WindowsOf(topic[i])
                                    /\ Ended(<<w, i>>, lateMark)}

(* The sinks fail on their own: a closed window is missing in one of them  *)
(* only if a write to that one raised, or if all its traffic was late      *)
(* (main.py:36-45).                                                        *)
EachSinkOnItsOwn ==
    \A w \in ClosedWindows :
        \/ \A i \in 1..committed : w \in WindowsOf(topic[i]) =>
              \E j \in 1..i - 1 : topic[j] >= w + Length + Delay
        \/ /\ w \in unstored \/ \E r \in stored : w \in DOMAIN r
           /\ w \in unsent \/ \E r \in published : w \in DOMAIN r

(* With the thresholds of the configuration no window of ten keys or less  *)
(* raises an alert, however large a burst it holds, so that PEER_MIN_KEYS  *)
(* never decides; one that does has no severity below warning, and is      *)
(* critical only among 27 keys or more (detector.py:59-101,                *)
(* config.py:30-44).                                                       *)
AlertsNeedACrowd ==
    \A r \in stored \cup published : \A w \in DOMAIN r : \A a \in r[w] :
        /\ a.keys > 10
        /\ a.severity # "info"
        /\ a.severity = "critical" => a.keys >= 27
=============================================================================
