------------------------- MODULE OnlineDetectorProofs -------------------------
(***************************************************************************)
(* What holds of the reports of the online detector for every number of    *)
(* keys, messages and restarts, every window, slide and delay, and every   *)
(* set of views and thresholds, for the last theorem those of config.py.   *)
(*                                                                         *)
(* How many keys an alert takes is a fact about sums: the key with the     *)
(* highest score is at most (n - 1) / sqrt(n) standard deviations above    *)
(* the mean of n keys.  The sums of the model are folds over the set of    *)
(* the heavy keys; what is needed of them is found by induction over its   *)
(* subsets, stated with the set of the sizes at which it would fail.       *)
(***************************************************************************)
EXTENDS OnlineDetector, WindowedQueryProofs

LEMMA DetectorConstants ==
    /\ MaxCrashes \in Nat /\ Crowds \subseteq Nat
    /\ KeyOf \in [1..MaxPackets -> Keys]
  BY DetectorAssumption DEF DetectorAssumption

-----------------------------------------------------------------------------
(* What a step does to the planned microbatch                              *)

(* The part of the type invariant the steps depend on. *)
SinkTypeOK ==
    /\ sink \in {"idle", "clickhouse", "kafka", "returned"}
    /\ sink # "idle" => planned # <<>>

(* A microbatch is being processed and this step leaves it as it is. *)
SameBatch ==
    /\ planned # <<>>
    /\ UNCHANGED <<planned, committed, lateMark, watermark, open>>
    /\ Emitted' = Emitted /\ Report' = Report

(* No microbatch is planned, before the step and after it. *)
NoBatch == planned = <<>> /\ UNCHANGED <<planned, committed, lateMark, watermark, open>>

(* The report follows from what is emitted. *)
LEMMA SameReport ==
    ASSUME Emitted' = Emitted, crowd' = crowd
    PROVE  Report' = Report
<1>1. \A rows : KeysCount(rows)' = KeysCount(rows)
  BY DEF KeysCount
<1>2. \A rows : Total(rows)' = Total(rows) /\ Squares(rows)' = Squares(rows)
  BY DEF Total, Squares
<1>3. \A key, rows, halves : ScoreAbove(key, rows, halves)' <=> ScoreAbove(key, rows, halves)
  BY <1>1, <1>2 DEF ScoreAbove, Spread, Excess
<1>4. \A key, rows : Severity(key, rows)' = Severity(key, rows)
  BY <1>3 DEF Severity
<1>5. \A rows : Alerts(rows)' = Alerts(rows)
  BY <1>1, <1>3, <1>4 DEF Alerts
<1>. QED BY <1>5 DEF Report, EmittedWindows

LEMMA UnchangedBatch ==
    ASSUME QueryInv, UNCHANGED queryVars, UNCHANGED crowd
    PROVE  SameBatch \/ NoBatch
  BY UnchangedKeeps, SameReport DEF queryVars, SameBatch, NoBatch

LEMMA QueryStep ==
    ASSUME QueryInv, [Next]_vars
    PROVE  /\ QueryInv'
           /\ PlanBatch \/ CommitBatch \/ SameBatch \/ NoBatch
           /\ \A i \in 1..Len(topic) : topic'[i] = topic[i] /\ RowsOf(i)' = RowsOf(i)
<1>1. CASE UNCHANGED queryVars /\ UNCHANGED crowd
  BY <1>1, UnchangedKeeps, UnchangedBatch DEF queryVars
<1>2. CASE \E t \in Times : ArrivePacket(t)
  BY <1>2, ArriveKeeps, SameReport DEF ArrivePacket, SameBatch, NoBatch
<1>3. CASE PlanBatch
  BY <1>3, PlanKeeps DEF PlanBatch, Plan, RowsOf, WindowsOf
<1>4. CASE CommitBatch
  BY <1>4, CommitKeeps DEF CommitBatch, RowsOf, WindowsOf
<1>. QED
  BY <1>1, <1>2, <1>3, <1>4
     DEF Next, StartBatch, WriteAlerts, WriteAlertsFails, PublishAlerts, PublishAlertsFails,
         DetectFails, Restart, Quiet, vars

(* How the sinks may move. *)
LEMMA SinkStep ==
    ASSUME SinkTypeOK, QueryInv, [Next]_vars
    PROVE  \/ UNCHANGED <<sink, stored, published, unstored, unsent>> /\ (SameBatch \/ NoBatch)
           \/ PlanBatch /\ sink = "idle"
           \/ StartBatch /\ SameBatch
           \/ WriteAlerts /\ SameBatch
           \/ WriteAlertsFails /\ SameBatch
           \/ PublishAlerts /\ SameBatch
           \/ PublishAlertsFails /\ SameBatch
           \/ DetectFails /\ SameBatch
           \/ CommitBatch
           \/ Restart /\ (SameBatch \/ NoBatch)
<1>1. CASE StartBatch \/ WriteAlerts \/ WriteAlertsFails
  BY <1>1, UnchangedBatch
     DEF StartBatch, WriteAlerts, WriteAlertsFails, SinkTypeOK, NoBatch, queryVars
<1>2. CASE PublishAlerts \/ PublishAlertsFails \/ DetectFails
  BY <1>2, UnchangedBatch
     DEF PublishAlerts, PublishAlertsFails, DetectFails, SinkTypeOK, NoBatch
<1>3. CASE Restart
  BY <1>3, UnchangedBatch DEF Restart
<1>4. CASE Quiet \/ UNCHANGED vars
  BY <1>4, UnchangedBatch DEF Quiet, vars, sinkVars
<1>5. CASE \E t \in Times : ArrivePacket(t)
  BY <1>5, ArriveKeeps, SameReport DEF ArrivePacket, SameBatch, NoBatch, sinkVars
<1>6. CASE PlanBatch
  BY <1>6 DEF PlanBatch, Plan, SinkTypeOK
<1>. QED BY <1>1, <1>2, <1>3, <1>4, <1>5, <1>6 DEF Next

-----------------------------------------------------------------------------
(* The inductive invariant                                                 *)

ReportTypeOK ==
    \A r \in stored \cup published :
        DOMAIN r \subseteq Starts /\ \A w \in DOMAIN r : r[w] \subseteq Alert

HistoryTypeOK ==
    /\ crowd \in Crowds
    /\ {unstored, unsent} \subseteq SUBSET Starts
    /\ crashes \in 0..MaxCrashes

(* A report is the one of the planned microbatch, or all its windows are   *)
(* closed.                                                                 *)
ReportInv ==
    \A r \in stored \cup published :
        /\ DOMAIN r \subseteq Starts
        /\ \/ planned # <<>> /\ r = Report
           \/ \A w \in DOMAIN r : w + Length <= lateMark

InStored(w) == w \in unstored \/ \E r \in stored : w \in DOMAIN r
InPublished(w) == w \in unsent \/ \E r \in published : w \in DOMAIN r

(* The windows of the planned microbatch have reached the sinks that       *)
(* process_batch has passed.                                               *)
PassedInv ==
    /\ sink \in {"kafka", "returned"} => \A row \in Emitted : InStored(row[1])
    /\ sink = "returned" => \A row \in Emitted : InPublished(row[1])

(* A row the query has read is waiting, or its window is in the sinks, or  *)
(* it came too late.                                                       *)
ReadInv ==
    \A i \in 1..committed : \A row \in RowsOf(i) :
        \/ row \in open /\ ~Ended(row, lateMark)
        \/ InStored(row[1]) /\ InPublished(row[1])
        \/ TooLate(i, row)

DetectorInv ==
    /\ SinkTypeOK
    /\ QueryInv
    /\ ReportTypeOK
    /\ HistoryTypeOK
    /\ ReportInv
    /\ VerdictsAgree
    /\ PassedInv
    /\ ReadInv

LEMMA SinkTypeStep ==
    ASSUME SinkTypeOK, QueryInv, [Next]_vars
    PROVE  SinkTypeOK'
  BY SinkStep
     DEF SinkTypeOK, SameBatch, NoBatch, PlanBatch, Plan, StartBatch, WriteAlerts,
         WriteAlertsFails, PublishAlerts, PublishAlertsFails, DetectFails, CommitBatch, Restart,
         sinkVars

(* The only report a step may add is the one of the planned microbatch. *)
LEMMA NewReport ==
    ASSUME SinkTypeOK, QueryInv, [Next]_vars
    PROVE  \/ UNCHANGED <<stored, published>>
           \/ /\ SameBatch
              /\ stored \cup published \subseteq stored' \cup published'
              /\ stored' \cup published' \subseteq stored \cup published \cup {Report}
  BY SinkStep
     DEF PlanBatch, StartBatch, WriteAlerts, WriteAlertsFails, PublishAlerts,
         PublishAlertsFails, DetectFails, CommitBatch, Restart, sinkVars

LEMMA ReportedRows ==
    /\ DOMAIN Report = EmittedWindows
    /\ \A w \in EmittedWindows : \E row \in Emitted : row[1] = w
  BY DEF Report, EmittedWindows

LEMMA ReportStep ==
    ASSUME SinkTypeOK, QueryInv, ReportInv, [Next]_vars
    PROVE  ReportInv'
<1>1. CASE SameBatch
  <2>1. DOMAIN Report \subseteq Starts
    BY <1>1, ReportedRows, BatchFacts DEF SameBatch, QueryInv, Rows
  <2>. QED BY <1>1, <2>1, NewReport DEF ReportInv, SameBatch
<1>2. CASE NoBatch
  BY <1>2, NewReport DEF ReportInv, NoBatch, SameBatch
<1>3. CASE PlanBatch
  BY <1>3 DEF PlanBatch, Plan, ReportInv, sinkVars
<1>4. CASE CommitBatch
  <2>1. /\ UNCHANGED <<stored, published>> /\ lateMark' = watermark
        /\ lateMark \in Nat /\ watermark \in Nat /\ lateMark <= watermark
    BY <1>4, CommitKeeps DEF CommitBatch
  <2>2. \A w \in DOMAIN Report : w + Length <= watermark
    BY ReportedRows, EmittedBetween DEF Ended
  <2>3. ASSUME NEW r \in stored \cup published, NEW w \in DOMAIN r, w + Length <= lateMark
        PROVE  w + Length <= watermark
    <3>1. w \in Nat
      BY <2>3, QueryConstants DEF ReportInv, Starts, Times
    <3>. QED BY <2>1, <2>3, <3>1, QueryConstants
  <2>. QED BY <2>1, <2>2, <2>3 DEF ReportInv
<1>. QED BY <1>1, <1>2, <1>3, <1>4, QueryStep

(* A closed window is in no later report. *)
LEMMA AgreeStep ==
    ASSUME SinkTypeOK, QueryInv, ReportInv, VerdictsAgree, [Next]_vars
    PROVE  VerdictsAgree'
<1>1. CASE UNCHANGED <<stored, published>>
  BY <1>1 DEF VerdictsAgree
<1>2. ASSUME stored' \cup published' \subseteq stored \cup published \cup {Report}
      PROVE  VerdictsAgree'
  <2>1. \A w \in DOMAIN Report : ~(w + Length <= lateMark)
    BY ReportedRows, EmittedBetween DEF Ended
  <2>2. \A r \in stored \cup published : \A w \in DOMAIN r \cap DOMAIN Report : r[w] = Report[w]
    BY <2>1 DEF ReportInv
  <2>. QED BY <1>2, <2>2 DEF VerdictsAgree
<1>. QED BY <1>1, <1>2, NewReport

(* What has reached a sink stays there. *)
LEMMA ReachedStays ==
    ASSUME SinkTypeOK, QueryInv, [Next]_vars, NEW w
    PROVE  /\ InStored(w) => InStored(w)'
           /\ InPublished(w) => InPublished(w)'
<1>1. /\ stored \subseteq stored' /\ published \subseteq published'
      /\ unstored \subseteq unstored' /\ unsent \subseteq unsent'
  BY SinkStep
     DEF PlanBatch, StartBatch, WriteAlerts, WriteAlertsFails, PublishAlerts,
         PublishAlertsFails, DetectFails, CommitBatch, Restart, sinkVars
<1>. QED BY <1>1 DEF InStored, InPublished

LEMMA PassedStep ==
    ASSUME SinkTypeOK, QueryInv, PassedInv, [Next]_vars
    PROVE  PassedInv'
<1>. USE DEF PassedInv
<1>0. \A row \in Emitted : row[1] \in DOMAIN Report /\ row[1] \in EmittedWindows
  BY ReportedRows DEF EmittedWindows
<1>1. CASE UNCHANGED sink /\ (SameBatch \/ NoBatch)
  BY <1>1, ReachedStays DEF SameBatch, NoBatch, SinkTypeOK
<1>2. CASE sink' \in {"idle", "clickhouse"}
  BY <1>2
<1>3. CASE (WriteAlerts \/ WriteAlertsFails) /\ SameBatch
  <2>1. sink' = "kafka" /\ Emitted' = Emitted
    BY <1>3 DEF WriteAlerts, WriteAlertsFails, SameBatch
  <2>2. \A row \in Emitted : InStored(row[1])'
    BY <1>0, <1>3 DEF WriteAlerts, WriteAlertsFails, InStored
  <2>. QED BY <2>1, <2>2
<1>4. CASE (PublishAlerts \/ PublishAlertsFails) /\ SameBatch
  <2>1. sink = "kafka" /\ Emitted' = Emitted
    BY <1>4 DEF PublishAlerts, PublishAlertsFails, SameBatch
  <2>2. \A row \in Emitted : InPublished(row[1])'
    BY <1>0, <1>4 DEF PublishAlerts, PublishAlertsFails, InPublished
  <2>3. \A row \in Emitted : InStored(row[1])'
    BY <2>1, ReachedStays
  <2>. QED BY <2>1, <2>2, <2>3
<1>5. CASE DetectFails /\ SameBatch
  <2>1. Emitted' = Emitted
    BY <1>5 DEF SameBatch
  <2>2. \A row \in Emitted : InStored(row[1])' /\ InPublished(row[1])'
    BY <1>0, <1>5 DEF DetectFails, InStored, InPublished
  <2>. QED BY <2>1, <2>2
<1>. QED
  BY <1>1, <1>2, <1>3, <1>4, <1>5, SinkStep
     DEF PlanBatch, StartBatch, CommitBatch, Restart, sinkVars

LEMMA ReadStep ==
    ASSUME SinkTypeOK, QueryInv, PassedInv, ReadInv, [Next]_vars
    PROVE  ReadInv'
<1>1. \A i \in 1..Len(topic) : topic'[i] = topic[i] /\ RowsOf(i)' = RowsOf(i)
  BY QueryStep
<1>2. committed \in 0..Len(topic) /\ Len(topic) \in Nat
  BY LenProperties DEF QueryInv, QueryTypeOK
<1>3. CASE UNCHANGED <<committed, lateMark, open>>
  <2>. SUFFICES ASSUME NEW i \in 1..committed, NEW row \in RowsOf(i)
                PROVE  (\/ row \in open /\ ~Ended(row, lateMark)
                        \/ InStored(row[1]) /\ InPublished(row[1])
                        \/ TooLate(i, row))'
    BY <1>1, <1>2, <1>3 DEF ReadInv
  <2>1. TooLate(i, row) => TooLate(i, row)'
    BY <1>1, <1>2 DEF TooLate
  <2>2. Ended(row, lateMark)' <=> Ended(row, lateMark)
    BY <1>3 DEF Ended
  <2>. QED BY <1>3, <2>1, <2>2, ReachedStays DEF ReadInv
<1>4. CASE CommitBatch
  <2>1. /\ planned # <<>> /\ committed' = planned[1] /\ topic' = topic
        /\ sink = "returned" /\ Commit
    BY <1>4 DEF CommitBatch, Commit
  <2>2. planned[1] \in committed..Len(topic)
    BY <2>1, BatchFacts DEF QueryInv
  <2>. SUFFICES ASSUME NEW i \in 1..planned[1], NEW row \in RowsOf(i)
                PROVE  (\/ row \in open /\ ~Ended(row, lateMark)
                        \/ InStored(row[1]) /\ InPublished(row[1])
                        \/ TooLate(i, row))'
    BY <1>1, <1>2, <2>1, <2>2 DEF ReadInv
  <2>3. TooLate(i, row)' <=> TooLate(i, row)
    BY <2>1 DEF TooLate
  <2>4. CASE row \in Emitted
    BY <2>1, <2>4, ReachedStays DEF PassedInv
  <2>5. CASE row \in open' /\ ~Ended(row, lateMark')
    BY <2>5 DEF Ended
  <2>6. CASE i \in 1..committed /\ row \notin open
    BY <2>3, <2>6, ReachedStays DEF ReadInv
  <2>7. CASE TooLate(i, row)
    BY <2>3, <2>7
  <2>. QED BY <2>1, <2>4, <2>5, <2>6, <2>7, CommitSettles
<1>. QED
  BY <1>3, <1>4, QueryStep DEF SameBatch, NoBatch, PlanBatch, Plan

-----------------------------------------------------------------------------
(* Type correctness                                                        *)

(* The rows of a window, and its heavy keys, are finitely many. *)
LEMMA WindowRows ==
    ASSUME QueryInv, planned # <<>>, NEW w
    PROVE  /\ IsFiniteSet({row \in Emitted : row[1] = w})
           /\ IsFiniteSet(Heavy({row \in Emitted : row[1] = w}))
           /\ Heavy({row \in Emitted : row[1] = w}) \subseteq Keys
<1>. DEFINE rows == {row \in Emitted : row[1] = w}
<1>1. Emitted \subseteq Starts \X (1..MaxPackets)
  BY BatchFacts DEF QueryInv, Rows
<1>2. IsFiniteSet(rows)
  <2>1. IsFiniteSet(0..MaxTime) /\ IsFiniteSet(1..MaxPackets)
    BY FS_Interval, QueryConstants
  <2>2. IsFiniteSet(Starts)
    <3>1. Starts \subseteq 0..MaxTime
      BY DEF Starts, Times
    <3>. QED BY <2>1, <3>1, FS_Subset
  <2>3. IsFiniteSet(Starts \X (1..MaxPackets))
    BY <2>1, <2>2, FS_Product
  <2>. QED BY <1>1, <2>3, FS_Subset
<1>3. Heavy(rows) \subseteq Keys /\ IsFiniteSet(Heavy(rows))
  <2>1. \A row \in rows : KeyOf[row[2]] \in Keys
    BY <1>1, DetectorConstants
  <2>2. IsFiniteSet({KeyOf[row[2]] : row \in rows})
    <3>. DEFINE f == [row \in rows |-> KeyOf[row[2]]]
                T == {KeyOf[row[2]] : row \in rows}
    <3>1. f \in Surjection(rows, T)
      BY DEF Surjection
    <3>. HIDE DEF rows, f, T
    <3>2. IsFiniteSet(T)
      BY <1>2, <3>1, FS_Surjection
    <3>. QED BY <3>2 DEF T
  <2>. QED BY <2>1, <2>2 DEF Heavy
<1>. QED BY <1>2, <1>3

LEMMA AlertTypes ==
    ASSUME QueryInv, planned # <<>>, crowd \in Crowds, NEW w \in EmittedWindows
    PROVE  w \in Starts /\ Report[w] \subseteq Alert
<1>. DEFINE rows == {row \in Emitted : row[1] = w}
<1>1. Emitted \subseteq Starts \X (1..MaxPackets)
  BY BatchFacts DEF QueryInv, Rows
<1>3. Heavy(rows) \subseteq Keys /\ IsFiniteSet(Heavy(rows))
  BY WindowRows
<1>4. KeysCount(rows) \in Nat
  <2>. HIDE DEF rows
  <2>. QED BY <1>3, FS_CardinalityType, DetectorConstants DEF KeysCount
<1>5. Alerts(rows) \subseteq Alert
  <2>. HIDE DEF rows
  <2>1. \A key : Severity(key, rows) \in {"info", "warning", "critical"}
    BY DEF Severity
  <2>. QED BY <1>3, <1>4, <2>1 DEF Alerts, Alert
<1>6. Report[w] = Alerts(rows)
  BY DEF Report
<1>7. w \in Starts
  BY <1>1 DEF EmittedWindows
<1>. QED BY <1>5, <1>6, <1>7

LEMMA TypeStep ==
    ASSUME SinkTypeOK, QueryInv, ReportTypeOK, HistoryTypeOK, [Next]_vars
    PROVE  ReportTypeOK' /\ HistoryTypeOK'
<1>1. ReportTypeOK'
  <2>1. CASE UNCHANGED <<stored, published>>
    BY <2>1 DEF ReportTypeOK, Alert
  <2>2. ASSUME SameBatch, stored' \cup published' \subseteq stored \cup published \cup {Report}
        PROVE  ReportTypeOK'
    <3>1. DOMAIN Report \subseteq Starts /\ \A w \in DOMAIN Report : Report[w] \subseteq Alert
      BY <2>2, AlertTypes, ReportedRows DEF SameBatch, HistoryTypeOK
    <3>. QED BY <2>2, <3>1 DEF ReportTypeOK, Alert
  <2>. QED BY <2>1, <2>2, NewReport
<1>2. crowd' = crowd
  BY DEF Next, ArrivePacket, PlanBatch, StartBatch, WriteAlerts, WriteAlertsFails, PublishAlerts,
         PublishAlertsFails, DetectFails, CommitBatch, Restart, Quiet, vars
<1>3. crashes' \in 0..MaxCrashes
  <2>1. crashes' = crashes \/ (crashes < MaxCrashes /\ crashes' = crashes + 1)
    BY DEF Next, ArrivePacket, PlanBatch, StartBatch, WriteAlerts, WriteAlertsFails, PublishAlerts,
           PublishAlertsFails, DetectFails, CommitBatch, Restart, Quiet, vars
  <2>. QED BY <2>1, DetectorConstants DEF HistoryTypeOK
<1>4. unstored' \subseteq Starts /\ unsent' \subseteq Starts
  <2>1. planned # <<>> => EmittedWindows \subseteq Starts
    BY BatchFacts DEF QueryInv, EmittedWindows, Rows
  <2>. QED
    BY <2>1, SinkStep
       DEF HistoryTypeOK, SameBatch, PlanBatch, StartBatch, WriteAlerts, WriteAlertsFails,
           PublishAlerts, PublishAlertsFails, DetectFails, CommitBatch, Restart, sinkVars
<1>. QED BY <1>1, <1>2, <1>3, <1>4 DEF HistoryTypeOK

-----------------------------------------------------------------------------

LEMMA DetectorInit == Init => DetectorInv
<1>. SUFFICES ASSUME Init
              PROVE  DetectorInv
  OBVIOUS
<1>1. QueryInv /\ committed = 0
  BY QueryInvInit DEF Init, QueryInit
<1>2. HistoryTypeOK /\ ReportTypeOK
  BY DetectorConstants DEF Init, HistoryTypeOK, ReportTypeOK
<1>. QED
  BY <1>1, <1>2
     DEF Init, DetectorInv, SinkTypeOK, ReportInv, VerdictsAgree, PassedInv, ReadInv

LEMMA DetectorNext == DetectorInv /\ [Next]_vars => DetectorInv'
  BY SinkTypeStep, QueryStep, TypeStep, ReportStep, AgreeStep, PassedStep, ReadStep DEF DetectorInv

LEMMA DetectorAlways == Spec => []DetectorInv
  BY DetectorInit, DetectorNext, PTL DEF Spec

(* The state of the query, the sinks and the reports is well typed. *)
THEOREM DetectorTypeCorrect == Spec => []TypeOK
<1>1. DetectorInv => TypeOK
  BY DEF DetectorInv, QueryInv, SinkTypeOK, ReportTypeOK, HistoryTypeOK, TypeOK
<1>. QED BY <1>1, DetectorAlways, PTL

(* Two reports that cover a window name the same alerts for it, whatever   *)
(* comes late and however often it is evaluated.                           *)
THEOREM OneVerdict == Spec => []VerdictsAgree
<1>1. DetectorInv => VerdictsAgree
  BY DEF DetectorInv
<1>. QED BY <1>1, DetectorAlways, PTL

(* A closed window is missing in a sink only if a write to that sink       *)
(* raised, or if all its traffic came too late.                            *)
THEOREM SinksIndependent == Spec => []EachSinkOnItsOwn
<1>1. DetectorInv => EachSinkOnItsOwn
  <2>. SUFFICES ASSUME DetectorInv, NEW w \in ClosedWindows,
                       NEW i \in 1..committed, w \in WindowsOf(topic[i]),
                       ~\E j \in 1..i - 1 : topic[j] >= w + Length + Delay
                PROVE  /\ w \in unstored \/ \E r \in stored : w \in DOMAIN r
                       /\ w \in unsent \/ \E r \in published : w \in DOMAIN r
    BY DEF EachSinkOnItsOwn
  <2>1. <<w, i>> \in RowsOf(i) /\ ~TooLate(i, <<w, i>>)
    BY DEF RowsOf, TooLate
  <2>2. Ended(<<w, i>>, lateMark)
    BY DEF ClosedWindows, Ended
  <2>. QED BY <2>1, <2>2 DEF DetectorInv, ReadInv, InStored, InPublished
<1>. QED BY <1>1, DetectorAlways, PTL

-----------------------------------------------------------------------------
(* How many keys an alert takes                                            *)

(* Induction in the form of a least element. *)
LEMMA LeastNumber ==
    ASSUME NEW T, T \subseteq Nat, T # {}
    PROVE  \E x \in T : \A y \in T : x <= y
<1>1. PICK x \in T : \A y \in T : ~(<<y, x>> \in OpToRel(<, Nat))
  BY NatLessThanWellFounded, WFMin, Zenon
<1>2. \A y \in T : ~(y < x)
  BY <1>1, Zenon DEF OpToRel
<1>. QED BY <1>2

Any(s) == CHOOSE x \in s : TRUE

LEMMA AnyIn == ASSUME NEW s, s # {} PROVE Any(s) \in s
  BY DEF Any

(* sum is the function of the sums of f over the sets in D. *)
IsSum(sum, f, D) ==
    sum = [s \in D |-> IF s = {} THEN 0 ELSE f[Any(s)] + sum[s \ {Any(s)}]]

(* There is such a function: the sets of at most n elements have one, by    *)
(* the one for the sets with one element less.                             *)
UpTo(S, n) == {s \in SUBSET S : Cardinality(s) <= n}

LEMMA OneLess ==
    ASSUME NEW S, IsFiniteSet(S), NEW s \in SUBSET S, NEW x \in s
    PROVE  /\ IsFiniteSet(s) /\ s \ {x} \in SUBSET S /\ IsFiniteSet(s \ {x})
           /\ Cardinality(s) \in Nat /\ Cardinality(s) > 0
           /\ Cardinality(s \ {x}) = Cardinality(s) - 1
<1>1. IsFiniteSet(s) /\ IsFiniteSet(s \ {x})
  BY FS_Subset
<1>2. Cardinality(s) \in Nat /\ Cardinality(s \ {x}) \in Nat
  BY <1>1, FS_CardinalityType
<1>3. Cardinality(s \ {x}) = Cardinality(s) - 1
  BY <1>1, FS_RemoveElement
<1>. QED BY <1>1, <1>2, <1>3

LEMMA SumDefined ==
    ASSUME NEW S, IsFiniteSet(S), NEW f, NEW n \in Nat
    PROVE  \E sum : IsSum(sum, f, UpTo(S, n))
<1>. DEFINE Bad == {k \in Nat : ~ \E sum : IsSum(sum, f, UpTo(S, k))}
<1>. SUFFICES ASSUME Bad # {} PROVE FALSE
  OBVIOUS
<1>1. PICK k \in Bad : \A y \in Bad : k <= y
  <2>1. Bad \subseteq Nat
    OBVIOUS
  <2>. HIDE DEF Bad
  <2>. QED BY <2>1, LeastNumber
<1>2. \A s \in SUBSET S : IsFiniteSet(s) /\ Cardinality(s) \in Nat
  BY FS_Subset, FS_CardinalityType
<1>3. CASE k = 0
  <2>. DEFINE g == [s \in UpTo(S, 0) |-> 0]
  <2>1. \A s \in UpTo(S, 0) : s = {}
    <3>1. \A s \in UpTo(S, 0) : IsFiniteSet(s) /\ Cardinality(s) = 0
      BY <1>2 DEF UpTo
    <3>. QED BY <3>1, FS_EmptySet
  <2>2. IsSum(g, f, UpTo(S, 0))
    BY <2>1 DEF IsSum
  <2>. QED BY <1>3, <2>2
<1>4. CASE k # 0
  <2>1. k - 1 \in Nat /\ k - 1 \notin Bad
    BY <1>1, <1>4
  <2>2. PICK g : IsSum(g, f, UpTo(S, k - 1))
    BY <2>1
  <2>. DEFINE Step(h, s) == IF s = {} THEN 0 ELSE f[Any(s)] + h[s \ {Any(s)}]
              h == [s \in UpTo(S, k) |-> Step(g, s)]
  <2>3. \A s \in UpTo(S, k - 1) : g[s] = Step(g, s)
    BY <2>2 DEF IsSum
  <2>4. \A s \in UpTo(S, k - 1) : h[s] = g[s]
    <3>1. \A s \in UpTo(S, k - 1) : s \in UpTo(S, k)
      BY <1>2, <2>1 DEF UpTo
    <3>. HIDE DEF Step
    <3>. QED BY <2>3, <3>1
  <2>5. \A s \in UpTo(S, k) : s # {} => s \ {Any(s)} \in UpTo(S, k - 1)
    <3>. SUFFICES ASSUME NEW s \in UpTo(S, k), s # {}
                  PROVE  s \ {Any(s)} \in UpTo(S, k - 1)
      OBVIOUS
    <3>1. s \in SUBSET S /\ Cardinality(s) <= k /\ Any(s) \in s
      BY AnyIn DEF UpTo
    <3>2. /\ Cardinality(s) \in Nat /\ Cardinality(s \ {Any(s)}) = Cardinality(s) - 1
          /\ s \ {Any(s)} \in SUBSET S
      BY <3>1, OneLess
    <3>. QED BY <3>1, <3>2, <2>1 DEF UpTo
  <2>6. \A s \in UpTo(S, k) : Step(g, s) = Step(h, s)
    <3>. TAKE s \in UpTo(S, k)
    <3>1. CASE s = {}
      BY <3>1
    <3>2. CASE s # {}
      <4>1. h[s \ {Any(s)}] = g[s \ {Any(s)}]
        <5>. HIDE DEF h
        <5>. QED BY <3>2, <2>4, <2>5
      <4>. HIDE DEF h
      <4>. QED BY <3>2, <4>1
    <3>. QED BY <3>1, <3>2
  <2>7. h = [s \in UpTo(S, k) |-> Step(h, s)]
    <3>1. h = [s \in UpTo(S, k) |-> Step(g, s)]
      OBVIOUS
    <3>. HIDE DEF h, Step
    <3>. QED BY <2>6, <3>1
  <2>8. IsSum(h, f, UpTo(S, k))
    <3>. HIDE DEF h
    <3>. QED BY <2>7 DEF IsSum
  <2>. QED BY <2>8, <1>1
<1>. QED BY <1>3, <1>4

(* A sum has the elements in any order. *)
SumOK(sum, f, S) ==
    /\ sum[{}] = 0
    /\ \A s \in SUBSET S : sum[s] \in Nat
    /\ \A s \in SUBSET S : \A x \in s : sum[s] = f[x] + sum[s \ {x}]

LEMMA SumFacts ==
    ASSUME NEW S, IsFiniteSet(S), NEW f \in [S -> Nat], NEW sum, IsSum(sum, f, SUBSET S)
    PROVE  SumOK(sum, f, S)
<1>. USE DEF SumOK
<1>1. \A s \in SUBSET S : sum[s] = IF s = {} THEN 0 ELSE f[Any(s)] + sum[s \ {Any(s)}]
  BY DEF IsSum
<1>2. sum[{}] = 0
  BY <1>1
<1>. DEFINE Good(s) == /\ sum[s] \in Nat
                       /\ \A x \in s : sum[s \ {x}] \in Nat /\ sum[s] = f[x] + sum[s \ {x}]
            Bad == {n \in Nat : \E s \in SUBSET S : Cardinality(s) = n /\ ~Good(s)}
<1>3. \A s \in SUBSET S : Good(s)
  <2>. SUFFICES ASSUME NEW s0 \in SUBSET S, ~Good(s0) PROVE FALSE
    OBVIOUS
  <2>1. Bad # {} /\ Bad \subseteq Nat
    <3>1. Cardinality(s0) \in Nat
      BY FS_Subset, FS_CardinalityType
    <3>. HIDE DEF Good
    <3>. QED BY <3>1
  <2>2. PICK n \in Bad : \A y \in Bad : n <= y
    <3>. HIDE DEF Bad
    <3>. QED BY <2>1, LeastNumber
  <2>3. PICK s \in SUBSET S : Cardinality(s) = n /\ ~Good(s)
    BY <2>2
  <2>4. s # {}
    <3>1. Good({})
      BY <1>2
    <3>. HIDE DEF Good
    <3>. QED BY <2>3, <3>1
  <2>. DEFINE y == Any(s)
  <2>5. y \in s
    BY <2>4, AnyIn
  <2>. HIDE DEF y
  <2>f. \A x \in s : f[x] \in Nat
    OBVIOUS
  <2>6. \A x \in s : s \ {x} \in SUBSET S /\ Good(s \ {x})
    <3>. SUFFICES ASSUME NEW x \in s PROVE s \ {x} \in SUBSET S /\ Good(s \ {x})
      OBVIOUS
    <3>1. Cardinality(s) \in Nat /\ Cardinality(s \ {x}) = Cardinality(s) - 1
          /\ s \ {x} \in SUBSET S /\ Cardinality(s) > 0
      BY OneLess
    <3>2. n \in Nat /\ n - 1 \in Nat /\ ~(n <= n - 1)
      BY <3>1, <2>3
    <3>3. n - 1 \notin Bad
      <4>. HIDE DEF Bad
      <4>. QED BY <3>2, <2>2
    <3>. HIDE DEF Good
    <3>. QED BY <3>1, <3>2, <3>3, <2>3
  <2>7. sum[s] = f[y] + sum[s \ {y}]
    BY <1>1, <2>4 DEF y
  <2>8. sum[s] \in Nat
    <3>1. sum[s \ {y}] \in Nat /\ f[y] \in Nat
      BY <2>5, <2>6, <2>f
    <3>. QED BY <3>1, <2>7
  <2>9. ASSUME NEW x \in s
        PROVE  sum[s] = f[x] + sum[s \ {x}]
    <3>1. CASE x = y
      BY <3>1, <2>7
    <3>2. CASE x # y
      <4>1. sum[s \ {y}] = f[x] + sum[(s \ {y}) \ {x}]
        BY <2>5, <2>6, <3>2
      <4>2. sum[s \ {x}] = f[y] + sum[(s \ {x}) \ {y}]
        BY <2>5, <2>6, <3>2
      <4>3. (s \ {y}) \ {x} = (s \ {x}) \ {y}
        OBVIOUS
      <4>4. sum[(s \ {y}) \ {x}] \in Nat
        BY <2>5, <2>6, <3>2
      <4>5. PICK r \in Nat : r = sum[(s \ {y}) \ {x}]
        BY <4>4
      <4>6. PICK a \in Nat : a = f[x]
        BY <2>f
      <4>7. PICK b \in Nat : b = f[y]
        BY <2>f, <2>5
      <4>8. sum[s] = b + (a + r)
        BY <2>7, <4>1, <4>5, <4>6, <4>7
      <4>9. f[x] + sum[s \ {x}] = a + (b + r)
        BY <4>2, <4>3, <4>5, <4>6, <4>7
      <4>. QED BY <4>8, <4>9
    <3>. QED BY <3>1, <3>2
  <2>10. \A x \in s : sum[s \ {x}] \in Nat
    BY <2>6
  <2>. QED BY <2>3, <2>8, <2>9, <2>10
<1>. QED BY <1>2, <1>3

(* One more key of c packets, and the inequalities of the mean, the        *)
(* deviation and the distance of one key from the mean, in integers.       *)
LEMMA CauchyStep ==
    ASSUME NEW A \in Nat, NEW B \in Nat, NEW N \in Nat, NEW c \in Nat, A * A <= N * B
    PROVE  (A + c) * (A + c) <= (N + 1) * (B + c * c)
<1>1. CASE N = 0
  <2>1. A * A <= 0
    BY <1>1
  <2>2. A = 0
    BY <2>1
  <2>. QED BY <1>1, <2>2
<1>2. CASE N > 0
  <2>. DEFINE D == B + N * (c * c) - 2 * (A * c)
  <2>1. D \in Int
    OBVIOUS
  <2>2. N * D = N * B + (N * c) * (N * c) - 2 * (A * (N * c))
    OBVIOUS
  <2>3. (A - N * c) * (A - N * c) >= 0
    OBVIOUS
  <2>4. (A - N * c) * (A - N * c) = A * A - 2 * (A * (N * c)) + (N * c) * (N * c)
    OBVIOUS
  <2>5. N * D >= 0
    BY <2>2, <2>3, <2>4
  <2>6. D >= 0
    <3>. HIDE DEF D
    <3>. QED BY <2>1, <2>5, <1>2
  <2>7. (N + 1) * (B + c * c) - (A + c) * (A + c) = (N * B - A * A) + D
    OBVIOUS
  <2>8. N * B - A * A >= 0
    OBVIOUS
  <2>. HIDE DEF D
  <2>. QED BY <2>1, <2>6, <2>7, <2>8
<1>. QED BY <1>1, <1>2

(* No key is further from the mean than (n - 1) / sqrt(n) deviations:      *)
(* E is n times the distance and D the spread, with N = n - 1.             *)
LEMMA Samuelson ==
    ASSUME NEW A \in Nat, NEW B \in Nat, NEW N \in Nat, NEW c \in Nat, A * A <= N * B,
           NEW E \in Int, E = (N + 1) * c - (A + c),
           NEW D \in Int, D = (N + 1) * (B + c * c) - (A + c) * (A + c)
    PROVE  E * E <= N * D
<1>1. E = N * c - A
  OBVIOUS
<1>2. E * E = (N * c) * (N * c) - 2 * (A * (N * c)) + A * A
  BY <1>1
<1>3. D = (N * B - A * A) + (B + N * (c * c) - 2 * (A * c))
  OBVIOUS
<1>4. N * D = N * (N * B - A * A) + (N * B + (N * c) * (N * c) - 2 * (A * (N * c)))
  BY <1>3
<1>5. N * (N * B - A * A) >= 0
  <2>1. N * B - A * A >= 0 /\ N * B - A * A \in Int
    OBVIOUS
  <2>. DEFINE X == N * B - A * A
  <2>. HIDE DEF X
  <2>2. N * X >= 0
    BY <2>1 DEF X
  <2>. QED BY <2>2 DEF X
<1>6. N * D - E * E = N * (N * B - A * A) + (N * B - A * A)
  BY <1>2, <1>4
<1>. QED BY <1>5, <1>6

LEMMA ScoreNeedsKeys ==
    ASSUME NEW N \in Nat, NEW D \in Nat, D > 0, NEW E \in Int, E * E <= N * D,
           NEW h \in Nat, 4 * N * E * E > h * h * (N + 1) * D
    PROVE  h * h * (N + 1) < 4 * (N * N)
<1>1. 4 * N * E * E = 4 * (N * (E * E))
  OBVIOUS
<1>2. N * (E * E) <= N * (N * D)
  <2>. DEFINE X == E * E
              Y == N * D
  <2>1. X \in Int /\ Y \in Int /\ X <= Y
    OBVIOUS
  <2>. HIDE DEF X, Y
  <2>2. N * X <= N * Y
    BY <2>1
  <2>. QED BY <2>2 DEF X, Y
<1>3. N * (N * D) = (N * N) * D
  OBVIOUS
<1>. DEFINE L == h * h * (N + 1)
            R == 4 * (N * N)
<1>4. L \in Int /\ R \in Int /\ R * D = 4 * ((N * N) * D)
  OBVIOUS
<1>5. L * D < R * D
  BY <1>1, <1>2, <1>3, <1>4
<1>. HIDE DEF L, R
<1>6. L < R
  BY <1>4, <1>5
<1>. QED BY <1>6 DEF L, R

(* The thresholds of the configuration: 3 takes eleven keys, 5 takes 27.   *)
LEMMA TenKeys ==
    ASSUME NEW N \in Nat, NEW h \in Nat, h * h * (N + 1) < 4 * (N * N)
    PROVE  /\ h >= 6 => N + 1 > 10
           /\ h >= 10 => N + 1 >= 27
<1>1. ASSUME NEW b \in Nat, h >= b
      PROVE  b * b * (N + 1) < 4 * (N * N)
  <2>1. b * b <= h * h
    BY <1>1
  <2>. DEFINE X == b * b
              Y == h * h
  <2>2. X \in Nat /\ Y \in Nat /\ X <= Y
    BY <2>1
  <2>3. Y * (N + 1) < 4 * (N * N)
    OBVIOUS
  <2>. HIDE DEF X, Y
  <2>4. X * (N + 1) <= Y * (N + 1)
    BY <2>2
  <2>5. X * (N + 1) < 4 * (N * N)
    BY <2>2, <2>3, <2>4
  <2>. QED BY <2>5 DEF X
<1>2. h >= 6 => N + 1 > 10
  <2>. SUFFICES ASSUME h >= 6, N <= 9 PROVE FALSE
    OBVIOUS
  <2>1. 6 * 6 * (N + 1) < 4 * (N * N)
    BY <1>1
  <2>2. N * N <= 9 * N
    OBVIOUS
  <2>. QED BY <2>1, <2>2
<1>3. h >= 10 => N + 1 >= 27
  <2>. SUFFICES ASSUME h >= 10, N <= 25 PROVE FALSE
    OBVIOUS
  <2>1. 10 * 10 * (N + 1) < 4 * (N * N)
    BY <1>1
  <2>2. N * N <= 25 * N
    OBVIOUS
  <2>. QED BY <2>1, <2>2
<1>. QED BY <1>2, <1>3

(* The square of a sum is at most the number of the terms times the sum of *)
(* their squares; m of the terms are ones.                                 *)
LEMMA Cauchy ==
    ASSUME NEW S, IsFiniteSet(S), NEW f \in [S -> Nat], NEW q \in [S -> Nat],
           \A x \in S : q[x] = f[x] * f[x],
           NEW sum, IsSum(sum, f, SUBSET S), NEW squares, IsSum(squares, q, SUBSET S),
           NEW m \in Nat, NEW s \in SUBSET S
    PROVE  (sum[s] + m) * (sum[s] + m) <= (Cardinality(s) + m) * (squares[s] + m)
<1>. DEFINE Good(t) == (sum[t] + m) * (sum[t] + m) <= (Cardinality(t) + m) * (squares[t] + m)
            Bad == {n \in Nat : \E t \in SUBSET S : Cardinality(t) = n /\ ~Good(t)}
<1>. SUFFICES ASSUME ~Good(s) PROVE FALSE
  OBVIOUS
<1>1. /\ sum[{}] = 0 /\ squares[{}] = 0
      /\ \A t \in SUBSET S : sum[t] \in Nat /\ squares[t] \in Nat
      /\ \A t \in SUBSET S : \A x \in t :
            sum[t] = f[x] + sum[t \ {x}] /\ squares[t] = q[x] + squares[t \ {x}]
  <2>. HIDE DEF Good, Bad
  <2>1. SumOK(sum, f, S) /\ SumOK(squares, q, S)
    BY SumFacts
  <2>. QED BY <2>1 DEF SumOK
<1>2. Bad # {} /\ Bad \subseteq Nat
  <2>1. Cardinality(s) \in Nat
    BY FS_Subset, FS_CardinalityType
  <2>. HIDE DEF Good
  <2>. QED BY <2>1
<1>3. PICK n \in Bad : \A y \in Bad : n <= y
  <2>. HIDE DEF Bad
  <2>. QED BY <1>2, LeastNumber
<1>4. PICK t \in SUBSET S : Cardinality(t) = n /\ ~Good(t)
  BY <1>3
<1>5. t # {}
  <2>1. Good({})
    BY <1>1, FS_EmptySet
  <2>. HIDE DEF Good
  <2>. QED BY <1>4, <2>1
<1>6. PICK x \in t : TRUE
  BY <1>5
<1>7. /\ t \ {x} \in SUBSET S /\ Cardinality(t) \in Nat /\ Cardinality(t) > 0
      /\ Cardinality(t \ {x}) = Cardinality(t) - 1
  BY OneLess
<1>8. Good(t \ {x})
  <2>1. n \in Nat /\ n - 1 \in Nat /\ ~(n <= n - 1)
    BY <1>7, <1>4
  <2>2. n - 1 \notin Bad
    <3>. HIDE DEF Bad
    <3>. QED BY <2>1, <1>3
  <2>. HIDE DEF Good
  <2>. QED BY <1>4, <1>7, <2>1, <2>2
<1>9. PICK a \in Nat : a = sum[t \ {x}]
  BY <1>1, <1>7
<1>10. PICK b \in Nat : b = squares[t \ {x}]
  BY <1>1, <1>7
<1>11. PICK c \in Nat : c = f[x]
  BY <1>6
<1>12. PICK k \in Nat : k = Cardinality(t \ {x})
  BY <1>7
<1>13. (a + m) * (a + m) <= (k + m) * (b + m)
  BY <1>8, <1>9, <1>10, <1>12
<1>14. ((a + m) + c) * ((a + m) + c) <= ((k + m) + 1) * ((b + m) + c * c)
  <2>1. PICK u \in Nat : u = a + m
    OBVIOUS
  <2>2. PICK v \in Nat : v = b + m
    OBVIOUS
  <2>3. PICK w \in Nat : w = k + m
    OBVIOUS
  <2>4. u * u <= w * v
    BY <1>13, <2>1, <2>2, <2>3
  <2>5. (u + c) * (u + c) <= (w + 1) * (v + c * c)
    BY <2>4, CauchyStep
  <2>. QED BY <2>1, <2>2, <2>3, <2>5
<1>15. Good(t)
  <2>1. sum[t] = c + a /\ Cardinality(t) = k + 1
    BY <1>1, <1>7, <1>9, <1>11, <1>12
  <2>2. squares[t] = c * c + b
    BY <1>1, <1>6, <1>10, <1>11
  <2>3. sum[t] + m = (a + m) + c /\ squares[t] + m = (b + m) + c * c /\ Cardinality(t) + m = (k + m) + 1
    <3>. DEFINE d == c * c
    <3>1. d \in Nat
      OBVIOUS
    <3>. HIDE DEF d
    <3>2. squares[t] = d + b
      BY <2>2 DEF d
    <3>3. squares[t] + m = (b + m) + d
      BY <3>1, <3>2
    <3>. QED BY <2>1, <3>3 DEF d
  <2>. QED BY <1>14, <2>3
<1>. QED BY <1>4, <1>15

(* The sums of the model, as functions of the set of keys.                 *)
Packets(rows) == [k \in Heavy(rows) |-> Count(k, rows)]
PacketSquares(rows) == [k \in Heavy(rows) |-> Count(k, rows) * Count(k, rows)]

PacketIter(rows) ==
    CHOOSE iter : iter = [s \in SUBSET Heavy(rows) |->
        IF s = {} THEN 0 ELSE Count(Any(s), rows) + iter[s \ {Any(s)}]]

SquareIter(rows) ==
    CHOOSE iter : iter = [s \in SUBSET Heavy(rows) |->
        IF s = {} THEN 0 ELSE Count(Any(s), rows) * Count(Any(s), rows) + iter[s \ {Any(s)}]]

LEMMA HeavySumIsIter ==
    ASSUME NEW rows
    PROVE  /\ HeavySum(rows) = PacketIter(rows)[Heavy(rows)]
           /\ HeavySquares(rows) = SquareIter(rows)[Heavy(rows)]
<1>1. HeavySum(rows) = PacketIter(rows)[Heavy(rows)]
  BY Zenon DEF HeavySum, MapThenSumSet, MapThenFoldSet, PacketIter, Any
<1>2. HeavySquares(rows) = SquareIter(rows)[Heavy(rows)]
  BY Zenon DEF HeavySquares, MapThenSumSet, MapThenFoldSet, SquareIter, Any
<1>. QED BY <1>1, <1>2

LEMMA AllSubsets ==
    ASSUME NEW S, IsFiniteSet(S)
    PROVE  Cardinality(S) \in Nat /\ UpTo(S, Cardinality(S)) = SUBSET S
  BY FS_CardinalityType, FS_Subset DEF UpTo

LEMMA HeavySums ==
    ASSUME NEW rows, IsFiniteSet(Heavy(rows))
    PROVE  /\ IsSum(PacketIter(rows), Packets(rows), SUBSET Heavy(rows))
           /\ IsSum(SquareIter(rows), PacketSquares(rows), SUBSET Heavy(rows))
<1>. DEFINE H == Heavy(rows)
<1>1. \A s \in SUBSET H : s # {} => Any(s) \in H
  BY AnyIn
<1>2. IsSum(PacketIter(rows), Packets(rows), SUBSET H)
  <2>0. Cardinality(H) \in Nat /\ UpTo(H, Cardinality(H)) = SUBSET H
    BY AllSubsets
  <2>1. PICK sum : IsSum(sum, Packets(rows), SUBSET H)
    <3>1. \E sum : IsSum(sum, Packets(rows), UpTo(H, Cardinality(H)))
      BY <2>0, SumDefined
    <3>. QED BY <2>0, <3>1
  <2>2. sum = [s \in SUBSET H |-> IF s = {} THEN 0 ELSE Count(Any(s), rows) + sum[s \ {Any(s)}]]
    BY <2>1, <1>1 DEF IsSum, Packets
  <2>3. PacketIter(rows) = [s \in SUBSET Heavy(rows) |->
            IF s = {} THEN 0 ELSE Count(Any(s), rows) + PacketIter(rows)[s \ {Any(s)}]]
    BY <2>2, Zenon DEF PacketIter
  <2>. QED BY <2>3, <1>1 DEF IsSum, Packets
<1>3. IsSum(SquareIter(rows), PacketSquares(rows), SUBSET H)
  <2>0. Cardinality(H) \in Nat /\ UpTo(H, Cardinality(H)) = SUBSET H
    BY AllSubsets
  <2>1. PICK sum : IsSum(sum, PacketSquares(rows), SUBSET H)
    <3>1. \E sum : IsSum(sum, PacketSquares(rows), UpTo(H, Cardinality(H)))
      BY <2>0, SumDefined
    <3>. QED BY <2>0, <3>1
  <2>2. sum = [s \in SUBSET H |->
            IF s = {} THEN 0 ELSE Count(Any(s), rows) * Count(Any(s), rows) + sum[s \ {Any(s)}]]
    BY <2>1, <1>1 DEF IsSum, PacketSquares
  <2>3. SquareIter(rows) = [s \in SUBSET Heavy(rows) |->
            IF s = {} THEN 0
            ELSE Count(Any(s), rows) * Count(Any(s), rows) + SquareIter(rows)[s \ {Any(s)}]]
    BY <2>2, Zenon DEF SquareIter
  <2>. QED BY <2>3, <1>1 DEF IsSum, PacketSquares
<1>. QED BY <1>2, <1>3

(* However the packets are distributed: a score above halves / 2 takes so  *)
(* many keys that their (n - 1) / sqrt(n) is.                              *)
LEMMA ScoreBound ==
    ASSUME NEW rows, IsFiniteSet(rows), IsFiniteSet(Heavy(rows)), crowd \in Nat,
           NEW key \in Heavy(rows), NEW h \in Nat, ScoreAbove(key, rows, h)
    PROVE  /\ KeysCount(rows) \in Nat /\ Spread(rows) \in Int /\ Excess(key, rows) \in Int
           /\ \E N \in Nat : KeysCount(rows) = N + 1 /\ h * h * (N + 1) < 4 * (N * N)
<1>. DEFINE H == Heavy(rows)
            f == Packets(rows)
            q == PacketSquares(rows)
            sum == PacketIter(rows)
            squares == SquareIter(rows)
            rest == H \ {key}
<1>1. \A k \in H : Count(k, rows) \in Nat
  <2>. SUFFICES ASSUME NEW k \in H PROVE Count(k, rows) \in Nat
    OBVIOUS
  <2>1. Cardinality({row \in rows : KeyOf[row[2]] = k}) \in Nat
    BY FS_Subset, FS_CardinalityType
  <2>. QED BY <2>1, DetectorAssumption DEF Count, DetectorAssumption
<1>2. /\ f \in [H -> Nat] /\ q \in [H -> Nat] /\ \A k \in H : q[k] = f[k] * f[k]
      /\ f[key] = Count(key, rows)
  BY <1>1 DEF Packets, PacketSquares
<1>3. IsSum(sum, f, SUBSET H) /\ IsSum(squares, q, SUBSET H)
  BY HeavySums
<1>4. HeavySum(rows) = sum[H] /\ HeavySquares(rows) = squares[H]
  BY HeavySumIsIter
<1>. HIDE DEF H, f, q, sum, squares
<1>5. rest \in SUBSET H /\ IsFiniteSet(H) /\ key \in H
  BY DEF H
<1>6. /\ sum[rest] \in Nat /\ squares[rest] \in Nat
      /\ sum[H] = f[key] + sum[rest] /\ squares[H] = q[key] + squares[rest]
  <2>1. SumOK(sum, f, H) /\ SumOK(squares, q, H)
    BY <1>2, <1>3, <1>5, SumFacts
  <2>3. H \in SUBSET H
    OBVIOUS
  <2>. QED BY <1>5, <2>1, <2>3 DEF SumOK
<1>7. /\ Cardinality(rest) \in Nat /\ Cardinality(H) \in Nat
      /\ Cardinality(H) = Cardinality(rest) + 1
  <2>1. /\ Cardinality(H) \in Nat /\ Cardinality(H) > 0
        /\ Cardinality(rest) = Cardinality(H) - 1
    BY <1>5, OneLess
  <2>. QED BY <2>1
<1>8. (sum[rest] + crowd) * (sum[rest] + crowd) <= (Cardinality(rest) + crowd) * (squares[rest] + crowd)
  <2>. HIDE DEF rest
  <2>. QED BY <1>2, <1>3, <1>5, Cauchy
<1>9. PICK A \in Nat : A = sum[rest] + crowd
  BY <1>6
<1>10. PICK B \in Nat : B = squares[rest] + crowd
  BY <1>6
<1>11. PICK N \in Nat : N = Cardinality(rest) + crowd
  BY <1>7
<1>12. PICK c \in Nat : c = f[key]
  BY <1>2, <1>5
<1>13. A * A <= N * B
  BY <1>8, <1>9, <1>10, <1>11
<1>14. KeysCount(rows) = N + 1
  BY <1>7, <1>11 DEF KeysCount, H
<1>15. Total(rows) = A + c
  BY <1>4, <1>6, <1>9, <1>12 DEF Total
<1>16. Squares(rows) = B + c * c
  <2>1. q[key] = c * c
    BY <1>2, <1>5, <1>12
  <2>. DEFINE d == c * c
  <2>2. d \in Nat
    OBVIOUS
  <2>. HIDE DEF d
  <2>3. squares[H] = d + squares[rest]
    BY <1>6, <2>1 DEF d
  <2>4. squares[H] + crowd = B + d
    BY <2>2, <2>3, <1>6, <1>10
  <2>. QED BY <2>4, <1>4 DEF Squares, d
<1>17. PICK E \in Int : E = (N + 1) * c - (A + c)
  OBVIOUS
<1>18. PICK D \in Int : D = (N + 1) * (B + c * c) - (A + c) * (A + c)
  OBVIOUS
<1>19. Excess(key, rows) = E /\ Spread(rows) = D
  BY <1>2, <1>12, <1>14, <1>15, <1>16, <1>17, <1>18 DEF Excess, Spread
<1>20. E * E <= N * D
  BY <1>13, <1>17, <1>18, Samuelson
<1>21. D > 0 /\ 4 * ((N + 1) - 1) * E * E > h * h * (N + 1) * D
  BY <1>14, <1>19 DEF ScoreAbove
<1>22. D \in Nat /\ 4 * N * E * E > h * h * (N + 1) * D
  <2>1. (N + 1) - 1 = N
    OBVIOUS
  <2>. QED BY <1>21, <2>1
<1>23. h * h * (N + 1) < 4 * (N * N)
  BY <1>20, <1>21, <1>22, ScoreNeedsKeys
<1>. QED BY <1>14, <1>19, <1>23

(* Above a threshold is above any lower one. *)
LEMMA ScoreMonotone ==
    ASSUME NEW rows, NEW key, NEW h \in Nat, NEW l \in Nat, l <= h,
           KeysCount(rows) \in Nat, Spread(rows) \in Int, ScoreAbove(key, rows, h),
           NEW X \in Int, X = 4 * (KeysCount(rows) - 1) * Excess(key, rows) * Excess(key, rows)
    PROVE  ScoreAbove(key, rows, l)
<1>1. X > h * h * KeysCount(rows) * Spread(rows) /\ Spread(rows) > 0
  BY DEF ScoreAbove
<1>2. PICK n \in Nat : n = KeysCount(rows)
  OBVIOUS
<1>3. PICK d \in Nat : d = Spread(rows)
  BY <1>1
<1>4. l * l <= h * h
  OBVIOUS
<1>5. PICK a \in Nat : a = l * l
  OBVIOUS
<1>6. PICK b \in Nat : b = h * h
  OBVIOUS
<1>7. a * n <= b * n
  BY <1>4, <1>5, <1>6
<1>8. PICK u \in Nat : u = a * n
  OBVIOUS
<1>9. PICK v \in Nat : v = b * n
  OBVIOUS
<1>10. u * d <= v * d
  BY <1>7, <1>8, <1>9
<1>11. X > v * d
  BY <1>1, <1>2, <1>3, <1>6, <1>9
<1>12. l * l * KeysCount(rows) * Spread(rows) = u * d
  BY <1>2, <1>3, <1>5, <1>8
<1>13. X > l * l * KeysCount(rows) * Spread(rows)
  BY <1>10, <1>11, <1>12
<1>. QED BY <1>13 DEF ScoreAbove

CrowdOK(a) ==
    /\ a.keys > 10
    /\ a.severity # "info"
    /\ a.severity = "critical" => a.keys >= 27

LEMMA ThresholdConstants ==
    /\ \A v \in Views : Threshold[v] \in Nat /\ Threshold[v] >= 6 /\ Threshold[v] >= SEV_WARNING
    /\ SEV_CRITICAL \in Nat /\ SEV_CRITICAL >= 10 /\ SEV_WARNING \in Nat
  BY DetectorAssumption, ThresholdAssumption DEF DetectorAssumption, ThresholdAssumption

LEMMA KeysFor ==
    ASSUME NEW rows, IsFiniteSet(rows), IsFiniteSet(Heavy(rows)), crowd \in Nat,
           NEW key \in Heavy(rows), NEW h \in Nat, ScoreAbove(key, rows, h)
    PROVE  /\ h >= 6 => KeysCount(rows) > 10
           /\ h >= 10 => KeysCount(rows) >= 27
<1>1. PICK N \in Nat : KeysCount(rows) = N + 1 /\ h * h * (N + 1) < 4 * (N * N)
  BY ScoreBound
<1>2. /\ h >= 6 => N + 1 > 10
      /\ h >= 10 => N + 1 >= 27
  BY <1>1, TenKeys
<1>. QED BY <1>1, <1>2

LEMMA AlertsCrowd ==
    ASSUME NEW rows, IsFiniteSet(rows), IsFiniteSet(Heavy(rows)), crowd \in Nat,
           NEW a \in Alerts(rows)
    PROVE  CrowdOK(a)
<1>1. PICK p \in Views \X Heavy(rows) :
        /\ ScoreAbove(p[2], rows, Threshold[p[1]])
        /\ a = [view |-> p[1], key |-> p[2], keys |-> KeysCount(rows), severity |-> Severity(p[2], rows)]
  BY DEF Alerts
<1>2. p[2] \in Heavy(rows) /\ p[1] \in Views
  OBVIOUS
<1>3. PICK key \in Heavy(rows) : key = p[2]
  BY <1>2
<1>4. PICK h \in Nat : h = Threshold[p[1]] /\ h >= 6 /\ SEV_WARNING <= h
  BY <1>2, ThresholdConstants
<1>5. ScoreAbove(key, rows, h)
  BY <1>1, <1>3, <1>4
<1>6. a.keys = KeysCount(rows) /\ a.severity = Severity(key, rows)
  BY <1>1, <1>3
<1>7. KeysCount(rows) > 10
  BY <1>4, <1>5, KeysFor
<1>8. ScoreAbove(key, rows, SEV_CRITICAL) => KeysCount(rows) >= 27
  BY ThresholdConstants, KeysFor
<1>9. ScoreAbove(key, rows, SEV_WARNING)
  <2>1. KeysCount(rows) \in Nat /\ Spread(rows) \in Int /\ Excess(key, rows) \in Int
    BY <1>5, ScoreBound
  <2>2. 4 * (KeysCount(rows) - 1) * Excess(key, rows) * Excess(key, rows) \in Int
    BY <2>1
  <2>. QED BY <1>4, <1>5, <2>1, <2>2, ThresholdConstants, ScoreMonotone
<1>. QED BY <1>6, <1>7, <1>8, <1>9 DEF CrowdOK, Severity

LEMMA CrowdStep ==
    ASSUME SinkTypeOK, QueryInv, HistoryTypeOK, AlertsNeedACrowd, [Next]_vars
    PROVE  AlertsNeedACrowd'
<1>1. AlertsNeedACrowd <=> \A r \in stored \cup published : \A w \in DOMAIN r : \A a \in r[w] : CrowdOK(a)
  BY DEF AlertsNeedACrowd, CrowdOK
<1>2. AlertsNeedACrowd' <=> \A r \in stored' \cup published' : \A w \in DOMAIN r : \A a \in r[w] : CrowdOK(a)
  BY DEF AlertsNeedACrowd, CrowdOK
<1>3. CASE UNCHANGED <<stored, published>>
  BY <1>1, <1>2, <1>3
<1>4. ASSUME SameBatch, stored' \cup published' \subseteq stored \cup published \cup {Report}
      PROVE  AlertsNeedACrowd'
  <2>1. ASSUME NEW w \in DOMAIN Report, NEW a \in Report[w]
        PROVE  CrowdOK(a)
    <3>. DEFINE rows == {row \in Emitted : row[1] = w}
    <3>1. Report[w] = Alerts(rows)
      BY ReportedRows DEF Report
    <3>2. IsFiniteSet(rows) /\ IsFiniteSet(Heavy(rows)) /\ crowd \in Nat
      BY <1>4, WindowRows, DetectorConstants DEF SameBatch, HistoryTypeOK
    <3>. HIDE DEF rows
    <3>. QED BY <2>1, <3>1, <3>2, AlertsCrowd
  <2>. QED BY <1>1, <1>2, <1>4, <2>1
<1>. QED BY <1>3, <1>4, NewReport

(* With the thresholds of the configuration no window of ten keys or less  *)
(* raises an alert, and none of fewer than 27 a critical one, whatever     *)
(* the number of heavy keys and however the packets are distributed        *)
(* (detector.py:59-101, config.py:30-44).                                  *)
THEOREM NoAlertsInSmallWindows == Spec => []AlertsNeedACrowd
<1>1. Init => AlertsNeedACrowd
  BY DEF Init, AlertsNeedACrowd
<1>2. DetectorInv /\ AlertsNeedACrowd /\ [Next]_vars => AlertsNeedACrowd'
  BY CrowdStep DEF DetectorInv
<1>. QED BY <1>1, <1>2, DetectorAlways, PTL DEF Spec
=============================================================================
