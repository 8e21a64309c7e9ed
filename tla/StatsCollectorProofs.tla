------------------------- MODULE StatsCollectorProofs -------------------------
(***************************************************************************)
(* What holds of the tables of the stats collector for every number of     *)
(* tables, messages and restarts, and every window, slide and delay.       *)
(***************************************************************************)
EXTENDS StatsCollector, WindowedQueryProofs

LEMMA StatsConstants ==
    /\ MaxHosts \in Nat /\ MaxCrashes \in Nat
    /\ Len(TableNames) \in Nat \ {0} /\ Tables = 1..Len(TableNames)
<1>1. TableNames \in Seq(STRING) /\ TableNames # <<>>
  BY StatsAssumption DEF StatsAssumption
<1>2. Len(TableNames) \in Nat \ {0} /\ Tables = 1..Len(TableNames)
  BY <1>1, LenProperties, EmptySeq DEF Tables
<1>. QED BY <1>2, StatsAssumption DEF StatsAssumption

(* The steps that do not touch the tables' side of the process. *)
HostsSide == Register \/ PlanHosts \/ WriteHosts \/ CommitHosts \/ Quiet \/ UNCHANGED vars

LEMMA HostsSideFrame ==
    ASSUME HostsSide
    PROVE  UNCHANGED <<queryVars, sink, table, tables, crashes, failed>>
  BY DEF HostsSide, Register, PlanHosts, WriteHosts, CommitHosts, Quiet, vars, sinkVars

LEMMA StepCases ==
    ASSUME [Next]_vars
    PROVE  \/ \E t \in Times : ArriveTraffic(t)
           \/ PlanTraffic \/ StartBatch \/ WriteTable \/ WriteFails \/ CommitTraffic
           \/ Restart \/ HostsSide
  BY DEF Next, TrafficStep, HostsStep, HostsSide

-----------------------------------------------------------------------------
(* Type correctness                                                        *)

HostsTypeOK ==
    /\ hostTopic \in 0..MaxHosts
    /\ hostCommitted \in 0..hostTopic
    /\ hostPlanned = <<>> \/ \E n \in hostCommitted + 1..hostTopic : hostPlanned = <<n>>
    /\ hostWritten \in BOOLEAN
    /\ hostsInfo \subseteq 1..MaxHosts

SinkTypeOK ==
    /\ sink \in {"idle", "writing", "returned"}
    /\ sink # "idle" => planned # <<>>
    /\ table \in Tables
    /\ tables \in [Tables -> Seq(SUBSET Rows)]
    /\ crashes \in 0..MaxCrashes
    /\ failed \subseteq Rows

LEMMA TypeParts ==
    /\ TypeOK <=> QueryTypeOK /\ SinkTypeOK /\ HostsTypeOK
    /\ TypeOK' <=> QueryTypeOK' /\ SinkTypeOK' /\ HostsTypeOK'
  BY DEF TypeOK, SinkTypeOK, HostsTypeOK

LEMMA HostsTypeStep ==
    ASSUME HostsTypeOK, [Next]_vars
    PROVE  HostsTypeOK'
<1>. USE StatsConstants DEF HostsTypeOK
<1>1. CASE UNCHANGED <<hostTopic, hostCommitted, hostPlanned, hostWritten, hostsInfo>>
  BY <1>1
<1>2. CASE Register
  <2>1. hostTopic' = hostTopic + 1 /\ hostTopic' \in 0..MaxHosts
    BY <1>2 DEF Register
  <2>2. UNCHANGED <<hostCommitted, hostPlanned, hostWritten, hostsInfo>>
    BY <1>2 DEF Register
  <2>. QED BY <2>1, <2>2
<1>3. CASE PlanHosts
  <2>1. hostTopic \in hostCommitted + 1..hostTopic
    BY <1>3 DEF PlanHosts
  <2>2. /\ hostPlanned' = <<hostTopic>> /\ hostWritten' = FALSE
        /\ UNCHANGED <<hostTopic, hostCommitted, hostsInfo>>
    BY <1>3 DEF PlanHosts
  <2>. QED BY <2>1, <2>2
<1>4. CASE WriteHosts
  <2>1. PICK n \in hostCommitted + 1..hostTopic : hostPlanned = <<n>>
    BY <1>4 DEF WriteHosts
  <2>2. /\ hostsInfo' = hostsInfo \cup (hostCommitted + 1..n) /\ hostWritten' = TRUE
        /\ UNCHANGED <<hostTopic, hostCommitted, hostPlanned>>
    BY <1>4, <2>1 DEF WriteHosts
  <2>3. hostCommitted + 1..n \subseteq 1..MaxHosts
    BY <2>1
  <2>. QED BY <2>2, <2>3
<1>5. CASE CommitHosts
  BY <1>5 DEF CommitHosts
<1>6. CASE Restart
  BY <1>6 DEF Restart
<1>. QED
  BY <1>1, <1>2, <1>3, <1>4, <1>5, <1>6
     DEF Next, TrafficStep, HostsStep, Quiet, ArriveTraffic, PlanTraffic, StartBatch,
         WriteTable, WriteFails, CommitTraffic, hostVars, vars

LEMMA QueryTypeStep ==
    ASSUME QueryTypeOK, [Next]_vars
    PROVE  QueryTypeOK'
<1>1. CASE UNCHANGED queryVars
  BY <1>1 DEF queryVars, QueryTypeOK
<1>2. CASE \E t \in Times : Arrive(t)
  BY <1>2, ArriveType
<1>3. CASE Plan
  BY <1>3, PlanType
<1>4. CASE Commit
  BY <1>4, CommitType
<1>. QED
  BY <1>1, <1>2, <1>3, <1>4, StepCases, HostsSideFrame
     DEF ArriveTraffic, PlanTraffic, StartBatch, WriteTable, WriteFails, CommitTraffic, Restart

LEMMA SaveType ==
    ASSUME QueryTypeOK, SinkTypeOK, planned # <<>>, NEW t \in Tables, Save(t)
    PROVE  tables' \in [Tables -> Seq(SUBSET Rows)]
<1>1. Emitted \in SUBSET Rows
  BY BatchFacts
<1>2. Append(tables[t], Emitted) \in Seq(SUBSET Rows)
  BY <1>1, AppendProperties DEF SinkTypeOK
<1>. QED BY <1>2 DEF Save, SinkTypeOK

LEMMA SinkTypeStep ==
    ASSUME QueryTypeOK, SinkTypeOK, [Next]_vars
    PROVE  SinkTypeOK'
<1>1. CASE UNCHANGED <<sink, table, tables, crashes, failed>> /\ (planned # <<>> => planned' # <<>>)
  BY <1>1 DEF SinkTypeOK
<1>2. CASE StartBatch
  BY <1>2, StatsConstants DEF StartBatch, SinkTypeOK, queryVars
<1>3. CASE WriteTable
  <2>1. planned # <<>> /\ planned' = planned /\ tables' \in [Tables -> Seq(SUBSET Rows)]
    BY <1>3, SaveType DEF WriteTable, SinkTypeOK, queryVars
  <2>2. sink' \in {"writing", "returned"} /\ table' \in Tables /\ UNCHANGED <<crashes, failed>>
    BY <1>3, StatsConstants DEF WriteTable, SinkTypeOK
  <2>. QED BY <2>1, <2>2 DEF SinkTypeOK
<1>4. CASE WriteFails
  <2>1. planned # <<>> /\ planned' = planned
    BY <1>4 DEF WriteFails, SinkTypeOK, queryVars
  <2>2. tables' \in [Tables -> Seq(SUBSET Rows)]
    BY <1>4, <2>1, SaveType DEF WriteFails, SinkTypeOK
  <2>3. Emitted \subseteq Rows
    BY <2>1, BatchFacts
  <2>. QED BY <1>4, <2>1, <2>2, <2>3 DEF WriteFails, SinkTypeOK
<1>5. CASE CommitTraffic
  BY <1>5 DEF CommitTraffic, SinkTypeOK
<1>6. CASE Restart
  BY <1>6, StatsConstants DEF Restart, SinkTypeOK, queryVars
<1>7. CASE \E t \in Times : ArriveTraffic(t)
  BY <1>1, <1>7 DEF ArriveTraffic, Arrive, checkpointVars, sinkVars
<1>8. CASE PlanTraffic
  BY <1>1, <1>8 DEF PlanTraffic, Plan, sinkVars
<1>9. CASE HostsSide
  BY <1>1, <1>9, HostsSideFrame DEF queryVars
<1>. QED BY <1>2, <1>3, <1>4, <1>5, <1>6, <1>7, <1>8, <1>9, StepCases

LEMMA TypeInit == Init => TypeOK
<1>. SUFFICES ASSUME Init
              PROVE  TypeOK
  OBVIOUS
<1>1. <<>> \in Seq(SUBSET Rows)
  BY EmptySeq
<1>2. SinkTypeOK
  BY <1>1, StatsConstants DEF Init, SinkTypeOK
<1>3. HostsTypeOK
  <2>1. 0 \in 0..MaxHosts /\ 0 \in 0..0
    BY StatsConstants
  <2>2. /\ hostTopic = 0 /\ hostCommitted = 0 /\ hostPlanned = <<>>
        /\ hostWritten = FALSE /\ hostsInfo = {}
    BY DEF Init
  <2>. QED BY <2>1, <2>2 DEF HostsTypeOK
<1>. QED BY <1>2, <1>3, QueryTypeInit, TypeParts DEF Init

LEMMA TypeStep == TypeOK /\ [Next]_vars => TypeOK'
  BY HostsTypeStep, QueryTypeStep, SinkTypeStep, TypeParts

(* The state of both queries, of the sink and of the tables is well typed: *)
(* in particular the offsets of a planned microbatch are in the topic, and *)
(* the sink runs only while a microbatch is planned.                       *)
THEOREM StatsTypeCorrect == Spec => []TypeOK
  BY TypeInit, TypeStep, PTL DEF Spec

-----------------------------------------------------------------------------
(* Copies of a row                                                         *)

Holders(s, row) == {k \in DOMAIN s : row \in s[k]}

LEMMA AppendedHolders ==
    ASSUME NEW s \in Seq(SUBSET Rows), NEW E \in SUBSET Rows, NEW row
    PROVE  /\ Cardinality(Holders(s, row)) \in Nat
           /\ row \in E => Cardinality(Holders(Append(s, E), row)) = Cardinality(Holders(s, row)) + 1
           /\ row \notin E => Holders(Append(s, E), row) = Holders(s, row)
<1>1. /\ Len(s) \in Nat /\ DOMAIN s = 1..Len(s)
      /\ DOMAIN Append(s, E) = 1..Len(s) + 1
      /\ \A k \in DOMAIN s : Append(s, E)[k] = s[k]
      /\ Append(s, E)[Len(s) + 1] = E
  BY AppendProperties, LenProperties
<1>2. IsFiniteSet(Holders(s, row)) /\ Len(s) + 1 \notin Holders(s, row)
  <2>1. IsFiniteSet(1..Len(s))
    BY <1>1, FS_Interval
  <2>2. Holders(s, row) \subseteq 1..Len(s)
    BY <1>1 DEF Holders
  <2>3. Len(s) + 1 \notin Holders(s, row)
    BY <1>1, <2>2
  <2>. QED BY <2>1, <2>2, <2>3, FS_Subset
<1>3. Cardinality(Holders(s, row)) \in Nat
  BY <1>2, FS_CardinalityType
<1>4. row \in E => Holders(Append(s, E), row) = Holders(s, row) \cup {Len(s) + 1}
  BY <1>1 DEF Holders
<1>5. row \notin E => Holders(Append(s, E), row) = Holders(s, row)
  BY <1>1 DEF Holders
<1>6. Cardinality(Holders(s, row) \cup {Len(s) + 1}) = Cardinality(Holders(s, row)) + 1
  BY <1>2, FS_AddElement
<1>. QED BY <1>3, <1>4, <1>5, <1>6

LEMMA CopiesFacts ==
    ASSUME TypeOK, NEW t \in Tables, NEW row
    PROVE  /\ Copies(t, row) \in Nat
           /\ Copies(t, row) > 0 <=> \E k \in DOMAIN tables[t] : row \in tables[t][k]
<1>1. tables[t] \in Seq(SUBSET Rows) /\ Copies(t, row) = Cardinality(Holders(tables[t], row))
  BY DEF TypeOK, Copies, Holders
<1>2. IsFiniteSet(Holders(tables[t], row))
  BY <1>1, LenProperties, FS_Interval, FS_Subset DEF Holders
<1>3. Copies(t, row) \in Nat /\ (Copies(t, row) = 0 <=> Holders(tables[t], row) = {})
  BY <1>1, <1>2, FS_CardinalityType, FS_EmptySet
<1>. QED BY <1>3 DEF Holders

LEMMA SavedCopies ==
    ASSUME TypeOK, planned # <<>>, NEW t \in Tables, Save(t)
    PROVE  /\ \A u \in Tables \ {t} : tables'[u] = tables[u] /\ \A row : Copies(u, row)' = Copies(u, row)
           /\ \A row \in Emitted : Copies(t, row)' = Copies(t, row) + 1
           /\ \A row : row \notin Emitted => Copies(t, row)' = Copies(t, row)
           /\ DOMAIN tables'[t] = DOMAIN tables[t] \cup {Len(tables[t]) + 1}
           /\ \A k \in DOMAIN tables[t] : tables'[t][k] = tables[t][k]
           /\ tables'[t][Len(tables[t]) + 1] = Emitted
<1>1. tables[t] \in Seq(SUBSET Rows) /\ Emitted \in SUBSET Rows
  BY BatchFacts DEF TypeOK
<1>2. tables'[t] = Append(tables[t], Emitted) /\ \A u \in Tables \ {t} : tables'[u] = tables[u]
  BY DEF Save, TypeOK
<1>3. \A u \in Tables \ {t} : \A row : Copies(u, row)' = Copies(u, row)
  BY <1>2 DEF Copies
<1>4. \A row : /\ Copies(t, row) = Cardinality(Holders(tables[t], row))
               /\ Copies(t, row)' = Cardinality(Holders(Append(tables[t], Emitted), row))
  BY <1>2 DEF Copies, Holders
<1>5. /\ \A row \in Emitted : Copies(t, row)' = Copies(t, row) + 1
      /\ \A row : row \notin Emitted => Copies(t, row)' = Copies(t, row)
  <2>. SUFFICES ASSUME NEW row
                PROVE  /\ row \in Emitted => Copies(t, row)' = Copies(t, row) + 1
                       /\ row \notin Emitted => Copies(t, row)' = Copies(t, row)
    OBVIOUS
  <2>1. /\ row \in Emitted => Cardinality(Holders(Append(tables[t], Emitted), row))
                                 = Cardinality(Holders(tables[t], row)) + 1
        /\ row \notin Emitted => Holders(Append(tables[t], Emitted), row)
                                    = Holders(tables[t], row)
    BY <1>1, AppendedHolders
  <2>. QED BY <1>4, <2>1
<1>6. /\ DOMAIN tables'[t] = DOMAIN tables[t] \cup {Len(tables[t]) + 1}
      /\ \A k \in DOMAIN tables[t] : tables'[t][k] = tables[t][k]
      /\ tables'[t][Len(tables[t]) + 1] = Emitted
  BY <1>1, <1>2, AppendProperties, LenProperties
<1>. QED BY <1>2, <1>3, <1>5, <1>6

LEMMA UnchangedCopies ==
    ASSUME UNCHANGED tables
    PROVE  \A t, row : Copies(t, row)' = Copies(t, row)
  BY DEF Copies

-----------------------------------------------------------------------------
(* What a step does to the planned microbatch                              *)

(* A microbatch is being processed and this step leaves it as it is. *)
SameBatch ==
    /\ planned # <<>>
    /\ UNCHANGED <<planned, committed, lateMark, watermark, open>>
    /\ Emitted' = Emitted

(* No microbatch is planned, before the step and after it. *)
NoBatch == planned = <<>> /\ UNCHANGED <<planned, committed, lateMark, watermark, open>>

LEMMA QueryStep ==
    ASSUME TypeOK, QueryInv, [Next]_vars
    PROVE  /\ QueryInv'
           /\ PlanTraffic \/ CommitTraffic \/ SameBatch \/ NoBatch
           /\ \A i \in 1..Len(topic) : topic'[i] = topic[i] /\ RowsOf(i)' = RowsOf(i)
<1>1. CASE UNCHANGED queryVars
  BY <1>1, UnchangedKeeps DEF queryVars, SameBatch, NoBatch
<1>2. CASE \E t \in Times : ArriveTraffic(t)
  BY <1>2, ArriveKeeps DEF ArriveTraffic, SameBatch, NoBatch
<1>3. CASE PlanTraffic
  BY <1>3, PlanKeeps DEF PlanTraffic, Plan, RowsOf, WindowsOf
<1>4. CASE CommitTraffic
  BY <1>4, CommitKeeps DEF CommitTraffic, RowsOf, WindowsOf
<1>. QED
  BY <1>1, <1>2, <1>3, <1>4, StepCases, HostsSideFrame
     DEF StartBatch, WriteTable, WriteFails, Restart

(* How the sink and the tables may move, the steps of the hosts query and  *)
(* the arrival of messages being stutters.                                 *)
LEMMA SinkStep ==
    ASSUME TypeOK, QueryInv, [Next]_vars
    PROVE  \/ UNCHANGED <<sink, table, tables, crashes, failed>> /\ (SameBatch \/ NoBatch)
           \/ PlanTraffic
           \/ StartBatch /\ SameBatch
           \/ WriteTable /\ SameBatch
           \/ WriteFails /\ SameBatch
           \/ CommitTraffic
           \/ Restart /\ (SameBatch \/ NoBatch)
<1>. USE DEF TypeOK
<1>1. CASE StartBatch
  BY <1>1, UnchangedKeeps DEF StartBatch, SameBatch, queryVars
<1>2. CASE WriteTable
  BY <1>2, UnchangedKeeps DEF WriteTable, SameBatch, queryVars
<1>3. CASE WriteFails
  BY <1>3, UnchangedKeeps DEF WriteFails, SameBatch, queryVars
<1>4. CASE Restart
  BY <1>4, UnchangedKeeps DEF Restart, SameBatch, NoBatch, queryVars
<1>5. CASE \E t \in Times : ArriveTraffic(t)
  BY <1>5, ArriveKeeps DEF ArriveTraffic, SameBatch, NoBatch, sinkVars
<1>6. CASE HostsSide
  BY <1>6, HostsSideFrame, UnchangedKeeps DEF SameBatch, NoBatch, queryVars
<1>. QED BY <1>1, <1>2, <1>3, <1>4, <1>5, <1>6, StepCases

-----------------------------------------------------------------------------
(* The inductive invariant                                                 *)

(* What the tables hold is of the planned microbatch, or closed. *)
SavedInv ==
    \A t \in Tables : \A k \in DOMAIN tables[t] :
        \/ planned # <<>> /\ tables[t][k] = Emitted
        \/ \A row \in tables[t][k] : Ended(row, lateMark)

Written(t) == sink = "returned" \/ (sink = "writing" /\ t < table)

(* The rows of the planned microbatch have been saved by its earlier runs  *)
(* only, and by this one to the tables it has passed.                      *)
CopyInv ==
    planned # <<>> =>
        \A t \in Tables : \A row \in Emitted :
            Copies(t, row) <= crashes + (IF Written(t) THEN 1 ELSE 0)

(* The table before the one to be written is a copy ahead of it. *)
AheadInv ==
    sink = "writing" /\ table > 1 =>
        \A row \in Emitted : Copies(table, row) < Copies(table - 1, row)

(* The tables the sink has passed hold the microbatch, and all of them do  *)
(* when it returns, unless a write failed.                                 *)
PassedInv ==
    /\ sink = "writing" =>
           \A row \in Emitted : \A t \in Tables : t < table => Copies(t, row) > 0
    /\ sink = "returned" => \A row \in Emitted : InEveryTable(row) \/ row \in failed

StatsInv ==
    /\ TypeOK
    /\ QueryInv
    /\ SavedInv
    /\ WindowNeverSplit
    /\ CopyInv
    /\ CopiesNeedRestarts
    /\ AheadInv
    /\ EarlierTablesCoverLater
    /\ PassedInv
    /\ NoSilentLoss

(* The rows of a microbatch that has just been planned are in no table. *)
LEMMA FreshRows ==
    ASSUME TypeOK, QueryInv, SavedInv, PlanTraffic
    PROVE  (\A t \in Tables : \A row \in Emitted : Copies(t, row) = 0)'
<1>1. planned = <<>> /\ QueryInv' /\ UNCHANGED <<lateMark, tables>>
  BY PlanKeeps DEF PlanTraffic, Plan, sinkVars
<1>2. \A row \in Emitted' : ~Ended(row, lateMark)
  <2>1. (\A row \in Emitted : ~Ended(row, lateMark))'
    BY <1>1 DEF QueryInv, OpenInv, Emitted, Grouped, Admitted
  <2>. QED BY <1>1, <2>1 DEF Ended
<1>. SUFFICES ASSUME NEW t \in Tables, NEW row \in Emitted'
              PROVE  Copies(t, row)' = 0
  OBVIOUS
<1>3. ~\E k \in DOMAIN tables[t] : row \in tables[t][k]
  BY <1>1, <1>2 DEF SavedInv
<1>4. Copies(t, row) = 0
  BY <1>3, CopiesFacts
<1>. QED BY <1>1, <1>4, UnchangedCopies

LEMMA SavedStep ==
    ASSUME TypeOK, QueryInv, SavedInv, [Next]_vars
    PROVE  SavedInv'
<1>1. CASE UNCHANGED tables /\ (SameBatch \/ NoBatch)
  BY <1>1 DEF SavedInv, SameBatch, NoBatch, Ended
<1>2. CASE PlanTraffic
  BY <1>2 DEF PlanTraffic, Plan, sinkVars, SavedInv, Ended
<1>3. ASSUME SameBatch, NEW u \in Tables, Save(u)
      PROVE  SavedInv'
  BY <1>3, SavedCopies DEF SameBatch, SavedInv, Ended
<1>4. CASE CommitTraffic
  <2>1. /\ UNCHANGED tables /\ lateMark' = watermark
        /\ lateMark \in Nat /\ watermark \in Nat /\ lateMark <= watermark
    BY <1>4, CommitKeeps DEF CommitTraffic
  <2>2. \A row \in Emitted : Ended(row, watermark)
    BY EmittedBetween
  <2>3. ASSUME NEW t \in Tables, NEW k \in DOMAIN tables[t], NEW row \in tables[t][k]
        PROVE  row[1] \in Nat
    <3>1. tables[t] \in Seq(SUBSET Rows)
      BY DEF TypeOK
    <3>2. row \in Rows
      BY <3>1, ElementOfSeq, LenProperties
    <3>. QED BY <3>2, QueryConstants DEF Rows, Starts, Times
  <2>4. ASSUME NEW t \in Tables, NEW k \in DOMAIN tables[t], NEW row \in tables[t][k]
        PROVE  Ended(row, watermark)
    BY <2>1, <2>2, <2>3, <2>4, QueryConstants DEF SavedInv, Ended
  <2>. QED BY <2>1, <2>4 DEF SavedInv, Ended
<1>. QED
  BY <1>1, <1>2, <1>3, <1>4, SinkStep DEF StartBatch, WriteTable, WriteFails, Restart, TypeOK, sinkVars

(* Two saved sets that share a window are the same microbatch's, since a   *)
(* closed window has no row in a later one.                                *)
LEMMA NeverSplitStep ==
    ASSUME TypeOK, QueryInv, SavedInv, WindowNeverSplit, [Next]_vars
    PROVE  WindowNeverSplit'
<1>1. CASE UNCHANGED tables
  BY <1>1 DEF WindowNeverSplit
<1>2. ASSUME SameBatch, NEW v \in Tables, Save(v)
      PROVE  WindowNeverSplit'
  <2>1. \A row \in Emitted : ~Ended(row, lateMark)
    BY EmittedBetween
  <2>2. \A t \in Tables : \A k \in DOMAIN tables'[t] :
          tables'[t][k] = Emitted \/ (k \in DOMAIN tables[t] /\ tables'[t][k] = tables[t][k])
    BY <1>2, SavedCopies DEF SameBatch
  <2>3. ASSUME NEW t \in Tables, NEW k \in DOMAIN tables[t]
        PROVE  tables[t][k] = Emitted \/ \A r \in tables[t][k], e \in Emitted : r[1] # e[1]
    BY <2>1, <2>3 DEF SavedInv, Ended
  <2>. SUFFICES ASSUME NEW t \in Tables, NEW u \in Tables,
                       NEW k \in DOMAIN tables'[t], NEW l \in DOMAIN tables'[u],
                       NEW r1 \in tables'[t][k], NEW r2 \in tables'[u][l], r1[1] = r2[1]
                PROVE  r1 \in tables'[u][l] /\ r2 \in tables'[t][k]
    BY DEF WindowNeverSplit
  <2>4. CASE tables'[t][k] = Emitted /\ tables'[u][l] = Emitted
    BY <2>4
  <2>5. CASE tables'[t][k] = Emitted /\ l \in DOMAIN tables[u] /\ tables'[u][l] = tables[u][l]
    BY <2>3, <2>5
  <2>6. CASE tables'[u][l] = Emitted /\ k \in DOMAIN tables[t] /\ tables'[t][k] = tables[t][k]
    BY <2>3, <2>6
  <2>7. CASE /\ k \in DOMAIN tables[t] /\ tables'[t][k] = tables[t][k]
             /\ l \in DOMAIN tables[u] /\ tables'[u][l] = tables[u][l]
    BY <2>7 DEF WindowNeverSplit
  <2>. QED BY <2>2, <2>4, <2>5, <2>6, <2>7
<1>. QED
  BY <1>1, <1>2, SinkStep
     DEF PlanTraffic, StartBatch, WriteTable, WriteFails, CommitTraffic, Restart, TypeOK, sinkVars

LEMMA CopyStep ==
    ASSUME TypeOK, QueryInv, SavedInv, CopyInv, CopiesNeedRestarts, [Next]_vars
    PROVE  CopyInv' /\ CopiesNeedRestarts'
<1>. USE DEF CopyInv, CopiesNeedRestarts
<1>1. crashes \in Nat /\ table \in Nat /\ \A t \in Tables : t \in Nat
  BY StatsConstants DEF TypeOK
<1>2. \A t \in Tables : \A row : Copies(t, row) \in Nat
  BY CopiesFacts
<1>3. CASE UNCHANGED <<sink, table, tables, crashes, failed>> /\ (SameBatch \/ NoBatch)
  BY <1>3, UnchangedCopies DEF SameBatch, NoBatch, Written
<1>4. CASE PlanTraffic
  <2>1. UNCHANGED <<tables, crashes>>
    BY <1>4 DEF PlanTraffic, sinkVars
  <2>2. CopyInv'
    BY <1>1, <1>4, <2>1, FreshRows DEF Written
  <2>. QED BY <2>1, <2>2, UnchangedCopies
<1>5. CASE StartBatch /\ SameBatch
  <2>1. /\ UNCHANGED <<tables, crashes>> /\ \A t \in Tables : ~Written(t)
        /\ \A t : Copies(t, 0)' = Copies(t, 0)
    BY <1>5, UnchangedCopies DEF StartBatch, Written
  <2>2. CopyInv'
    BY <1>1, <1>2, <1>5, <2>1, UnchangedCopies DEF SameBatch
  <2>. QED BY <2>1, <2>2, UnchangedCopies
<1>6. CASE WriteTable /\ SameBatch
  <2>1. /\ planned # <<>> /\ Emitted' = Emitted /\ crashes' = crashes
        /\ Save(table) /\ table \in Tables /\ ~Written(table)
    BY <1>1, <1>6 DEF SameBatch, WriteTable, Written, TypeOK
  <2>2. \A t \in Tables : Written(t)' <=> Written(t) \/ t = table
    <3>1. Tables = 1..Len(TableNames) /\ table \in Tables
      BY StatsConstants DEF TypeOK
    <3>2. CASE sink' = "returned" /\ table = Len(TableNames)
      BY <1>1, <1>6, <3>1, <3>2 DEF WriteTable, Written
    <3>3. CASE sink' = "writing" /\ table' = table + 1
      BY <1>1, <1>6, <3>1, <3>3 DEF WriteTable, Written
    <3>. QED BY <1>6, <3>2, <3>3 DEF WriteTable
  <2>3. ASSUME NEW t \in Tables, NEW row \in Emitted
        PROVE  Copies(t, row)' <= crashes + (IF Written(t)' THEN 1 ELSE 0)
    <3>1. CASE t = table
      <4>1. Copies(t, row) <= crashes /\ Copies(t, row)' = Copies(t, row) + 1
        BY <1>1, <1>2, <2>1, <3>1, SavedCopies
      <4>. QED BY <1>1, <1>2, <2>2, <3>1, <4>1
    <3>2. CASE t # table
      <4>1. Copies(t, row)' = Copies(t, row) /\ (Written(t)' <=> Written(t))
        BY <2>1, <2>2, <3>2, SavedCopies
      <4>. QED BY <2>1, <4>1
    <3>. QED BY <3>1, <3>2
  <2>4. ASSUME NEW t \in Tables, NEW row \in Rows
        PROVE  Copies(t, row)' <= 1 + crashes
    <3>1. CASE row \in Emitted
      <4>1. Copies(t, row) <= 1 + crashes /\ Copies(t, row)' <= crashes + (IF Written(t)' THEN 1 ELSE 0)
        BY <2>3, <3>1
      <4>2. Copies(t, row)' \in Nat
        BY <1>2, <2>1, <3>1, SavedCopies
      <4>. QED BY <1>1, <4>1, <4>2
    <3>2. CASE row \notin Emitted
      BY <2>1, <3>2, SavedCopies
    <3>. QED BY <3>1, <3>2
  <2>. QED BY <2>1, <2>3, <2>4
<1>7. CASE WriteFails /\ SameBatch
  <2>1. /\ planned # <<>> /\ Emitted' = Emitted /\ crashes' = crashes
        /\ table \in Tables /\ ~Written(table) /\ \A t \in Tables : Written(t)'
        /\ Save(table) \/ UNCHANGED tables
    BY <1>1, <1>7 DEF SameBatch, WriteFails, Written, TypeOK
  <2>2. ASSUME NEW t \in Tables, NEW row
        PROVE  \/ Copies(t, row)' = Copies(t, row)
               \/ t = table /\ row \in Emitted /\ Copies(t, row)' = Copies(t, row) + 1
    BY <2>1, SavedCopies, UnchangedCopies
  <2>3. ASSUME NEW t \in Tables, NEW row \in Emitted
        PROVE  Copies(t, row)' <= crashes + 1
    <3>1. Copies(table, row) <= crashes
      BY <1>1, <2>1
    <3>2. Copies(t, row) <= crashes + 1
      BY <1>1, <1>2, <2>1
    <3>. QED BY <1>1, <1>2, <2>1, <2>2, <3>1, <3>2
  <2>4. ASSUME NEW t \in Tables, NEW row \in Rows
        PROVE  Copies(t, row)' <= 1 + crashes
    BY <1>1, <1>2, <2>2, <2>3
  <2>. QED BY <2>1, <2>3, <2>4
<1>8. CASE CommitTraffic
  BY <1>8, CommitKeeps, UnchangedCopies DEF CommitTraffic
<1>9. CASE Restart /\ (SameBatch \/ NoBatch)
  <2>1. UNCHANGED tables /\ crashes' = crashes + 1 /\ \A t : ~Written(t)'
    BY <1>9 DEF Restart, Written
  <2>2. ASSUME NEW t \in Tables, NEW row \in Rows
        PROVE  Copies(t, row)' <= crashes' /\ Copies(t, row)' <= 1 + crashes'
    BY <1>1, <1>2, <2>1, UnchangedCopies
  <2>3. SameBatch => Emitted' \subseteq Rows
    BY BatchFacts DEF SameBatch, TypeOK
  <2>. QED BY <1>1, <1>9, <2>1, <2>2, <2>3 DEF NoBatch
<1>. QED BY <1>3, <1>4, <1>5, <1>6, <1>7, <1>8, <1>9, SinkStep

LEMMA CoverStep ==
    ASSUME TypeOK, QueryInv, AheadInv, EarlierTablesCoverLater, [Next]_vars
    PROVE  AheadInv' /\ EarlierTablesCoverLater'
<1>. USE DEF AheadInv, EarlierTablesCoverLater
<1>1. table \in Tables /\ table \in Nat /\ Tables = 1..Len(TableNames) /\ Len(TableNames) \in Nat
  BY StatsConstants DEF TypeOK
<1>2. \A t \in Tables : \A row : Copies(t, row) \in Nat
  BY CopiesFacts
<1>3. CASE UNCHANGED <<sink, table, tables>> /\ (SameBatch \/ NoBatch)
  BY <1>3, UnchangedCopies DEF SameBatch, NoBatch, TypeOK
<1>4. CASE UNCHANGED tables /\ (sink' # "writing" \/ table' = 1)
  BY <1>4, UnchangedCopies
<1>5. ASSUME SameBatch, NEW v \in Tables, v = table, Save(v), sink = "writing"
      PROVE  /\ EarlierTablesCoverLater'
             /\ \A row \in Emitted : v + 1 \in Tables => Copies(v + 1, row)' < Copies(v, row)'
  <2>1. planned # <<>> /\ Emitted \subseteq Rows
    BY <1>5, BatchFacts DEF SameBatch, TypeOK
  <2>2. ASSUME NEW t \in Tables \ {1}, NEW row \in Rows
        PROVE  Copies(t, row)' <= Copies(t - 1, row)'
    <3>1. t - 1 \in Tables /\ t \in Tables /\ t \in Nat /\ t > 1 /\ Copies(t, row) <= Copies(t - 1, row)
      BY <1>1
    <3>2. CASE row \notin Emitted
      BY <1>1, <1>5, <2>1, <3>1, <3>2, SavedCopies
    <3>3. CASE row \in Emitted /\ t = v
      <4>1. Copies(t, row) < Copies(t - 1, row) /\ Copies(t, row)' = Copies(t, row) + 1
        BY <1>1, <1>5, <2>1, <3>1, <3>3, SavedCopies
      <4>2. Copies(t - 1, row)' = Copies(t - 1, row)
        BY <1>1, <1>5, <2>1, <3>1, <3>3, SavedCopies
      <4>. QED BY <1>2, <3>1, <4>1, <4>2
    <3>4. CASE row \in Emitted /\ t - 1 = v
      <4>1. Copies(t, row)' = Copies(t, row) /\ Copies(t - 1, row)' = Copies(t - 1, row) + 1
        BY <1>1, <1>5, <2>1, <3>1, <3>4, SavedCopies
      <4>. QED BY <1>2, <3>1, <4>1
    <3>5. CASE row \in Emitted /\ t # v /\ t - 1 # v
      BY <1>1, <1>5, <2>1, <3>1, <3>5, SavedCopies
    <3>. QED BY <3>2, <3>3, <3>4, <3>5
  <2>3. ASSUME NEW row \in Emitted, v + 1 \in Tables
        PROVE  Copies(v + 1, row)' < Copies(v, row)'
    <3>1. v + 1 \in Tables \ {1} /\ v + 1 \in Tables \ {v} /\ v = (v + 1) - 1
      BY <1>1, <2>3
    <3>2. Copies(v + 1, row) <= Copies(v, row)
      BY <2>1, <3>1
    <3>3. Copies(v + 1, row)' = Copies(v + 1, row) /\ Copies(v, row)' = Copies(v, row) + 1
      BY <1>5, <2>1, <3>1, SavedCopies
    <3>. QED BY <1>2, <2>3, <3>2, <3>3
  <2>. QED BY <2>2, <2>3
<1>6. CASE WriteTable /\ SameBatch
  <2>. PICK v \in Tables : v = table /\ Save(v)
    BY <1>1, <1>6 DEF WriteTable
  <2>1. /\ EarlierTablesCoverLater'
        /\ \A row \in Emitted : v + 1 \in Tables => Copies(v + 1, row)' < Copies(v, row)'
    BY <1>5, <1>6 DEF WriteTable
  <2>2. CASE sink' = "writing"
    <3>1. table' = v + 1 /\ v + 1 \in Tables /\ v = (v + 1) - 1 /\ Emitted' = Emitted
      BY <1>1, <1>6, <2>2 DEF WriteTable, SameBatch
    <3>. QED BY <2>1, <3>1
  <2>. QED BY <2>1, <2>2
<1>7. CASE WriteFails /\ SameBatch
  BY <1>1, <1>4, <1>5, <1>7 DEF WriteFails
<1>. QED
  BY <1>3, <1>4, <1>6, <1>7, SinkStep
     DEF PlanTraffic, StartBatch, CommitTraffic, Restart, TypeOK, Plan, sinkVars

(* The tables the sink has passed keep what they hold. *)
LEMMA PassedStep ==
    ASSUME TypeOK, QueryInv, PassedInv, [Next]_vars
    PROVE  PassedInv'
<1>. USE DEF PassedInv
<1>1. table \in Tables /\ table \in Nat /\ Tables = 1..Len(TableNames) /\ Len(TableNames) \in Nat
  BY StatsConstants DEF TypeOK
<1>2. \A t \in Tables : \A row : Copies(t, row) \in Nat
  BY CopiesFacts
<1>3. CASE UNCHANGED <<sink, table, tables, crashes, failed>> /\ (SameBatch \/ NoBatch)
  BY <1>3, UnchangedCopies DEF SameBatch, NoBatch, InEveryTable, TypeOK
<1>4. CASE sink' = "idle"
  BY <1>4
<1>5. CASE StartBatch /\ SameBatch
  <2>1. Emitted' = Emitted /\ table' = 1
    BY <1>5 DEF StartBatch, SameBatch
  <2>2. CASE sink' = "writing"
    BY <1>1, <2>1, <2>2
  <2>3. CASE sink' = "returned" /\ Emitted = {}
    BY <2>1, <2>3
  <2>. QED BY <1>5, <2>2, <2>3 DEF StartBatch
<1>6. CASE WriteTable /\ SameBatch
  <2>1. Save(table) /\ sink = "writing" /\ planned # <<>> /\ Emitted' = Emitted /\ failed' = failed
    BY <1>6 DEF WriteTable, SameBatch
  <2>2. ASSUME NEW row \in Emitted, NEW t \in Tables, t < table \/ t = table
        PROVE  Copies(t, row)' > 0
    <3>1. CASE t = table
      <4>1. Copies(t, row)' = Copies(t, row) + 1
        BY <2>1, <3>1, SavedCopies
      <4>. QED BY <1>2, <4>1
    <3>2. CASE t < table /\ t # table
      <4>1. Copies(t, row)' = Copies(t, row)
        BY <1>1, <2>1, <3>2, SavedCopies
      <4>. QED BY <2>1, <3>2, <4>1
    <3>. QED BY <1>1, <2>2, <3>1, <3>2
  <2>3. CASE sink' = "returned" /\ table = Len(TableNames)
    <3>1. \A row \in Emitted : InEveryTable(row)'
      BY <1>1, <2>2, <2>3 DEF InEveryTable
    <3>. QED BY <2>1, <2>3, <3>1
  <2>4. CASE sink' = "writing" /\ table' = table + 1
    BY <1>1, <2>1, <2>2, <2>4
  <2>. QED BY <1>6, <2>3, <2>4 DEF WriteTable
<1>7. CASE WriteFails /\ SameBatch
  BY <1>7 DEF WriteFails, SameBatch
<1>. QED
  BY <1>3, <1>4, <1>5, <1>6, <1>7, SinkStep
     DEF PlanTraffic, CommitTraffic, Restart, TypeOK, Plan, sinkVars

(* A row that is in every table, or in a failed microbatch, stays there. *)
LEMMA SettledStays ==
    ASSUME TypeOK, QueryInv, [Next]_vars, NEW row
    PROVE  (InEveryTable(row) \/ row \in failed) => (InEveryTable(row) \/ row \in failed)'
<1>1. failed \subseteq failed'
  BY SinkStep DEF WriteFails, WriteTable, StartBatch, PlanTraffic, CommitTraffic, Restart
<1>2. CASE UNCHANGED tables
  BY <1>1, <1>2, UnchangedCopies DEF InEveryTable
<1>3. ASSUME SameBatch, NEW v \in Tables, Save(v)
      PROVE  InEveryTable(row) => InEveryTable(row)'
  <2>1. ASSUME NEW t \in Tables, Copies(t, row) > 0
        PROVE  Copies(t, row)' > 0
    <3>1. Copies(t, row)' = Copies(t, row) \/ Copies(t, row)' = Copies(t, row) + 1
      BY <1>3, SavedCopies DEF SameBatch
    <3>. QED BY <2>1, <3>1, CopiesFacts
  <2>. QED BY <2>1 DEF InEveryTable
<1>. QED
  BY <1>1, <1>2, <1>3, SinkStep
     DEF PlanTraffic, StartBatch, WriteTable, WriteFails, CommitTraffic, Restart, TypeOK, sinkVars

(* The one step that reads messages is the commit.  A row of a message it  *)
(* reads is of a window the watermark had closed, and then a message read  *)
(* before is the delay ahead of the window's end; or it stays open; or it  *)
(* is emitted, and the sink has returned.                                  *)
LEMMA NoLossStep ==
    ASSUME TypeOK, QueryInv, PassedInv, NoSilentLoss, [Next]_vars
    PROVE  NoSilentLoss'
<1>1. \A i \in 1..Len(topic) : topic'[i] = topic[i] /\ RowsOf(i)' = RowsOf(i)
  BY QueryStep
<1>2. committed \in 0..Len(topic) /\ Len(topic) \in Nat
  BY LenProperties DEF TypeOK, QueryTypeOK
<1>3. CASE UNCHANGED <<committed, lateMark, open>>
  <2>. SUFFICES ASSUME NEW i \in 1..committed, NEW row \in RowsOf(i)
                PROVE  (\/ row \in open /\ ~Ended(row, lateMark)
                        \/ InEveryTable(row)
                        \/ row \in failed
                        \/ \E j \in 1..i - 1 : topic[j] >= row[1] + Length + Delay)'
    BY <1>1, <1>2, <1>3 DEF NoSilentLoss
  <2>1. \A j \in 1..i - 1 : topic'[j] = topic[j]
    BY <1>1, <1>2
  <2>2. Ended(row, lateMark)' <=> Ended(row, lateMark)
    BY <1>3 DEF Ended
  <2>. QED BY <1>3, <2>1, <2>2, SettledStays DEF NoSilentLoss
<1>4. CASE CommitTraffic
  <2>1. /\ planned # <<>> /\ committed' = planned[1] /\ topic' = topic
        /\ sink = "returned" /\ Commit
    BY <1>4 DEF CommitTraffic, Commit
  <2>2. planned[1] \in committed..Len(topic)
    BY <2>1, BatchFacts DEF TypeOK
  <2>. SUFFICES ASSUME NEW i \in 1..planned[1], NEW row \in RowsOf(i)
                PROVE  (\/ row \in open /\ ~Ended(row, lateMark)
                        \/ InEveryTable(row)
                        \/ row \in failed
                        \/ \E j \in 1..i - 1 : topic[j] >= row[1] + Length + Delay)'
    BY <1>1, <1>2, <2>1, <2>2 DEF NoSilentLoss
  <2>3. CASE row \in Emitted
    BY <2>1, <2>3, SettledStays DEF PassedInv
  <2>4. CASE row \in open' /\ ~Ended(row, lateMark')
    BY <2>4 DEF Ended
  <2>5. CASE i \in 1..committed /\ row \notin open
    BY <2>1, <2>5, SettledStays DEF NoSilentLoss
  <2>6. CASE TooLate(i, row)
    BY <2>1, <2>6 DEF TooLate
  <2>. QED BY <2>1, <2>3, <2>4, <2>5, <2>6, CommitSettles
<1>. QED
  BY <1>3, <1>4, SinkStep
     DEF SameBatch, NoBatch, PlanTraffic, Plan

-----------------------------------------------------------------------------

LEMMA StatsInit == Init => StatsInv
<1>. SUFFICES ASSUME Init
              PROVE  StatsInv
  OBVIOUS
<1>1. TypeOK /\ QueryInv /\ committed = 0 /\ planned = <<>> /\ sink = "idle" /\ crashes = 0
  BY TypeInit, QueryInvInit DEF Init, QueryInit
<1>2. \A t \in Tables : tables[t] = <<>> /\ DOMAIN tables[t] = {}
  BY DEF Init
<1>3. \A t \in Tables : \A row : Copies(t, row) = 0
  BY <1>1, <1>2, CopiesFacts
<1>4. \A t \in Tables \ {1} : t - 1 \in Tables
  BY StatsConstants
<1>. QED
  BY <1>1, <1>2, <1>3, <1>4
     DEF StatsInv, SavedInv, WindowNeverSplit, CopyInv, CopiesNeedRestarts, AheadInv,
         EarlierTablesCoverLater, PassedInv, NoSilentLoss

LEMMA StatsNext == StatsInv /\ [Next]_vars => StatsInv'
  BY TypeStep, QueryStep, SavedStep, NeverSplitStep, CopyStep, CoverStep, PassedStep, NoLossStep
     DEF StatsInv

LEMMA StatsAlways == Spec => []StatsInv
  BY StatsInit, StatsNext, PTL DEF Spec

(* At any moment, after any failure and any replay, each table has at most *)
(* as many copies of a row as the one written before it.                   *)
THEOREM TablesCovered == Spec => []EarlierTablesCoverLater
<1>1. StatsInv => EarlierTablesCoverLater
  BY DEF StatsInv
<1>. QED BY <1>1, StatsAlways, PTL

(* Late rows never reopen a window that was written, and a replay repeats  *)
(* its microbatch exactly.                                                 *)
THEOREM WindowsWrittenWhole == Spec => []WindowNeverSplit
<1>1. StatsInv => WindowNeverSplit
  BY DEF StatsInv
<1>. QED BY <1>1, StatsAlways, PTL

(* A row is saved to a table at most once more than there were restarts. *)
THEOREM CopiesBounded == Spec => []CopiesNeedRestarts
<1>1. StatsInv => CopiesNeedRestarts
  BY DEF StatsInv
<1>. QED BY <1>1, StatsAlways, PTL

(* Traffic the query has read is waiting, in every table, in a microbatch  *)
(* whose exception was printed, or more than the delay late.               *)
THEOREM NothingLostSilently == Spec => []NoSilentLoss
<1>1. StatsInv => NoSilentLoss
  BY DEF StatsInv
<1>. QED BY <1>1, StatsAlways, PTL
=============================================================================
