--------------------------- MODULE WindowedQuery ---------------------------
(***************************************************************************)
(* A Spark structured streaming query as the Python jobs of this           *)
(* repository build it: a Kafka source, withWatermark and a groupBy on     *)
(* windows of the event time, append mode, a processing-time trigger, a    *)
(* checkpoint and a foreachBatch function.  This module is the query up to *)
(* that function: what a microbatch reads, which rows it drops as late,    *)
(* which windows it closes and what its commit makes durable.  The jobs    *)
(* extend it with what their function does.                                *)
(*                                                                         *)
(* Spark is a library; the parameters of the query and the stages it is    *)
(* put together from are those of the source.  Time is counted in minutes, *)
(* the unit of every duration the jobs use: window ends are whole minutes, *)
(* so that a watermark between two of them closes the same windows as the  *)
(* earlier one.                                                            *)
(***************************************************************************)
EXTENDS Naturals, Sequences, FiniteSets, Functions, FiniteSetsExt

CONSTANTS
    Length,      \* length of a window
    Slide,       \* distance of the starts of two windows
    Delay,       \* delay of the watermark
    MaxPackets,  \* bound of the model: messages in the topic
    MaxTime      \* bound of the model: the latest event time

ASSUME WindowAssumption ==
    /\ {Length, Slide} \subseteq Nat \ {0}
    /\ {Delay, MaxPackets, MaxTime} \subseteq Nat

VARIABLES
    topic,      \* the event time of every message of the topic
    committed,  \* messages the committed microbatches have read
    planned,    \* <<upto>> while a microbatch that reads up to the offset
                \* upto is in the offset log and not in the commit log
    watermark,  \* windows that end at or before it are closed by the next
                \* microbatch
    lateMark,   \* rows of windows that end at or before it are dropped by
                \* the next microbatch: the watermark of the previous one
    open        \* the state store: pairs <<window start, message>>

queryVars == <<topic, committed, planned, watermark, lateMark, open>>
checkpointVars == <<committed, planned, watermark, lateMark, open>>

Times == 0..MaxTime
Starts == {w \in Times : w % Slide = 0}
Rows == Starts \X (1..MaxPackets)

QueryInit ==
    /\ topic = <<>>
    /\ committed = 0
    /\ planned = <<>>
    /\ watermark = 0
    /\ lateMark = 0
    /\ open = {}

(* window("timestamp", Length, Slide): the starts of the windows of t.     *)
(* Windows that start before the epoch of the model are left out.          *)
WindowsOf(t) == {w \in Starts : w <= t /\ t < w + Length}

RowsOf(i) == WindowsOf(topic[i]) \X {i}

Ended(row, mark) == row[1] + Length <= mark

BatchMessages == committed + 1..planned[1]

BatchRows == UNION {RowsOf(i) : i \in BatchMessages}

(* A plausible bug: rows are never dropped as late. *)
AdmittedAll == BatchRows

Admitted == {row \in BatchRows : ~Ended(row, lateMark)}

Grouped == open \cup Admitted

(* What the planned microbatch hands to its foreachBatch function. *)
Emitted == {row \in Grouped : Ended(row, watermark)}

(* A plausible bug: the watermark is the latest event time itself. *)
NextWatermarkNoDelay == Max({watermark} \cup {topic[i] : i \in BatchMessages})

(* A plausible bug: the watermark follows the last microbatch, and may go  *)
(* back.                                                                   *)
NextWatermarkOfBatch ==
    Max({0} \cup {topic[i] - Delay : i \in {j \in BatchMessages : topic[j] >= Delay}})

NextWatermark ==
    Max({watermark} \cup {topic[i] - Delay : i \in {j \in BatchMessages : topic[j] >= Delay}})

-----------------------------------------------------------------------------

(* A message with event time t arrives.  Event times are the clocks of the *)
(* agents and come in any order.                                           *)
Arrive(t) ==
    /\ Len(topic) < MaxPackets
    /\ topic' = Append(topic, t)
    /\ UNCHANGED checkpointVars

(* A plausible bug: no microbatch without new messages. *)
PlanDataOnly ==
    /\ planned = <<>>
    /\ Len(topic) > committed
    /\ planned' = <<Len(topic)>>
    /\ UNCHANGED <<topic, committed, watermark, lateMark, open>>

(* A trigger fires: the microbatch reads all there is.  Without new        *)
(* messages one is run only if the watermark has moved since the last.     *)
Plan ==
    /\ planned = <<>>
    /\ Len(topic) > committed \/ watermark > lateMark
    /\ planned' = <<Len(topic)>>
    /\ UNCHANGED <<topic, committed, watermark, lateMark, open>>

(* A plausible bug: the state store keeps the windows it has emitted. *)
CommitKeepsState ==
    /\ planned # <<>>
    /\ committed' = planned[1]
    /\ planned' = <<>>
    /\ open' = Grouped
    /\ lateMark' = watermark
    /\ watermark' = NextWatermark
    /\ UNCHANGED topic

(* The foreachBatch function has returned: offsets, state and watermarks   *)
(* become those of the next microbatch.                                    *)
Commit ==
    /\ planned # <<>>
    /\ committed' = planned[1]
    /\ planned' = <<>>
    /\ open' = Grouped \ Emitted
    /\ lateMark' = watermark
    /\ watermark' = NextWatermark
    /\ UNCHANGED topic

QueryTypeOK ==
    /\ topic \in Seq(Times)
    /\ Len(topic) <= MaxPackets
    /\ committed \in 0..Len(topic)
    /\ planned = <<>> \/ \E n \in committed..Len(topic) : planned = <<n>>
    /\ watermark \in Times
    /\ lateMark \in 0..watermark
    /\ open \subseteq Rows
=============================================================================
