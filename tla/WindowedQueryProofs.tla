------------------------ MODULE WindowedQueryProofs ------------------------
(***************************************************************************)
(* What holds of a windowed streaming query whatever its foreachBatch      *)
(* function does: its state is well typed, its watermark never goes back,  *)
(* and the rows a microbatch emits are of windows that no earlier          *)
(* microbatch has closed.  The proofs about the jobs rest on it.           *)
(***************************************************************************)
EXTENDS WindowedQuery, SequenceTheorems, FiniteSetTheorems, WellFoundedInduction, TLAPS

LEMMA QueryConstants ==
    /\ Length \in Nat /\ Length > 0
    /\ Slide \in Nat /\ Slide > 0
    /\ Delay \in Nat /\ MaxPackets \in Nat /\ MaxTime \in Nat
  BY WindowAssumption DEF WindowAssumption

LEMMA LeastNatural ==
    ASSUME NEW T, T \subseteq Nat, T # {}
    PROVE  \E x \in T : \A y \in T : x <= y
<1>1. PICK x \in T : \A y \in T : ~(<<y, x>> \in OpToRel(<, Nat))
  BY NatLessThanWellFounded, WFMin, Zenon
<1>2. \A y \in T : ~(y < x)
  BY <1>1, Zenon DEF OpToRel
<1>. QED BY <1>2

LEMMA MaxOfBounded ==
    ASSUME NEW n \in Nat, NEW T, T \subseteq 0..n, T # {}
    PROVE  Max(T) \in T /\ \A y \in T : y <= Max(T)
<1>. DEFINE D == {n - x : x \in T}
<1>1. D \subseteq Nat /\ D # {}
  OBVIOUS
<1>2. PICK d \in D : \A e \in D : d <= e
  BY <1>1, LeastNatural
<1>3. PICK x \in T : d = n - x
  BY <1>2
<1>4. \A y \in T : y <= x
  <2>. TAKE y \in T
  <2>1. n - y \in D /\ x \in 0..n /\ y \in 0..n
    OBVIOUS
  <2>2. n - x <= n - y
    BY <1>2, <1>3, <2>1
  <2>. QED BY <2>1, <2>2
<1>5. \E z \in T : \A y \in T : z >= y
  BY <1>4
<1>. QED BY <1>5 DEF Max

-----------------------------------------------------------------------------
(* Type correctness                                                        *)

LEMMA BatchFacts ==
    ASSUME QueryTypeOK, planned # <<>>
    PROVE  /\ planned[1] \in committed..Len(topic)
           /\ Len(topic) \in Nat /\ committed \in Nat
           /\ BatchMessages \subseteq 1..Len(topic)
           /\ BatchRows \subseteq Rows
           /\ Emitted \subseteq Grouped /\ Grouped \subseteq Rows
<1>1. Len(topic) \in Nat /\ Len(topic) <= MaxPackets /\ committed \in 0..Len(topic)
  BY LenProperties DEF QueryTypeOK
<1>2. planned[1] \in committed..Len(topic)
  BY DEF QueryTypeOK
<1>3. BatchMessages \subseteq 1..Len(topic) /\ BatchMessages \subseteq 1..MaxPackets
  BY <1>1, <1>2, QueryConstants DEF BatchMessages
<1>4. BatchRows \subseteq Rows
  BY <1>3 DEF BatchRows, RowsOf, WindowsOf, Rows
<1>. QED BY <1>1, <1>2, <1>3, <1>4 DEF Emitted, Grouped, Admitted, QueryTypeOK

(* The watermark stays where it is or follows a message that was read. *)
LEMMA WatermarkFacts ==
    ASSUME QueryTypeOK, planned # <<>>
    PROVE  /\ NextWatermark \in Times
           /\ NextWatermark >= watermark
           /\ NextWatermark = watermark \/ \E i \in BatchMessages : topic[i] = NextWatermark + Delay
<1>. DEFINE M == {i \in BatchMessages : topic[i] >= Delay}
            W == {watermark} \cup {topic[i] - Delay : i \in M}
<1>1. \A i \in M : topic[i] \in 0..MaxTime /\ topic[i] - Delay \in 0..MaxTime
  <2>1. \A i \in 1..Len(topic) : topic[i] \in 0..MaxTime
    BY ElementOfSeq DEF QueryTypeOK, Times
  <2>. QED BY <2>1, BatchFacts, QueryConstants
<1>2. watermark \in 0..MaxTime
  BY DEF QueryTypeOK, Times
<1>3. W \subseteq 0..MaxTime /\ W # {}
  BY <1>1, <1>2
<1>4. Max(W) \in W /\ \A y \in W : y <= Max(W)
  <2>. HIDE DEF W
  <2>. QED BY <1>3, MaxOfBounded, QueryConstants
<1>5. NextWatermark = Max(W)
  BY DEF NextWatermark
<1>6. watermark \in W
  OBVIOUS
<1>7. NextWatermark = watermark \/ \E i \in M : NextWatermark = topic[i] - Delay
  BY <1>4, <1>5
<1>8. NextWatermark \in 0..MaxTime /\ watermark <= NextWatermark
  <2>. HIDE DEF W
  <2>. QED BY <1>3, <1>4, <1>5, <1>6
<1>9. \A i \in M : NextWatermark = topic[i] - Delay => topic[i] = NextWatermark + Delay
  <2>. HIDE DEF M
  <2>. QED BY <1>1, <1>8, QueryConstants
<1>. QED BY <1>2, <1>7, <1>8, <1>9 DEF Times

LEMMA QueryTypeInit == QueryInit => QueryTypeOK
  BY QueryConstants, EmptySeq DEF QueryInit, QueryTypeOK, Times

LEMMA ArriveType ==
    ASSUME QueryTypeOK, NEW t \in Times, Arrive(t)
    PROVE  QueryTypeOK'
<1>1. /\ topic' \in Seq(Times) /\ Len(topic') = Len(topic) + 1
      /\ Len(topic) \in Nat /\ Len(topic) < MaxPackets
  BY AppendProperties, LenProperties DEF Arrive, QueryTypeOK
<1>2. UNCHANGED <<committed, planned, watermark, lateMark, open>>
  BY DEF Arrive, checkpointVars
<1>3. Len(topic') <= MaxPackets /\ committed' \in 0..Len(topic')
  BY <1>1, <1>2, QueryConstants DEF QueryTypeOK
<1>4. planned' = <<>> \/ \E n \in committed'..Len(topic') : planned' = <<n>>
  BY <1>1, <1>2 DEF QueryTypeOK
<1>. QED BY <1>1, <1>2, <1>3, <1>4 DEF QueryTypeOK

LEMMA PlanType ==
    ASSUME QueryTypeOK, Plan
    PROVE  QueryTypeOK'
<1>1. Len(topic) \in committed..Len(topic)
  BY LenProperties DEF QueryTypeOK
<1>. QED BY <1>1 DEF Plan, QueryTypeOK

LEMMA CommitType ==
    ASSUME QueryTypeOK, Commit
    PROVE  QueryTypeOK'
<1>1. planned # <<>> /\ topic' = topic /\ planned' = <<>> /\ open' \subseteq Rows
  BY BatchFacts DEF Commit
<1>2. committed' \in 0..Len(topic')
  BY <1>1, BatchFacts DEF Commit
<1>3. watermark' \in Times /\ lateMark' \in 0..watermark'
  BY <1>1, WatermarkFacts, QueryConstants DEF Commit, QueryTypeOK, Times
<1>. QED BY <1>1, <1>2, <1>3 DEF QueryTypeOK

-----------------------------------------------------------------------------
(* Windows are closed once                                                 *)

(* The state store holds no row of a window that is closed. *)
OpenInv == \A row \in open : ~Ended(row, lateMark)

(* A watermark that has moved follows a message the query has read. *)
MarkInv == watermark = 0 \/ \E j \in 1..committed : topic[j] >= watermark + Delay

QueryInv == QueryTypeOK /\ OpenInv /\ MarkInv

LEMMA QueryInvInit == QueryInit => QueryInv
  BY QueryTypeInit DEF QueryInit, QueryInv, OpenInv, MarkInv

(* A message that arrives changes nothing of what the query has planned. *)
LEMMA ArriveKeeps ==
    ASSUME QueryInv, NEW t \in Times, Arrive(t)
    PROVE  /\ QueryInv'
           /\ UNCHANGED <<committed, planned, watermark, lateMark, open>>
           /\ \A i \in 1..Len(topic) : topic'[i] = topic[i] /\ RowsOf(i)' = RowsOf(i)
           /\ planned # <<>> => Emitted' = Emitted
<1>1. UNCHANGED <<committed, planned, watermark, lateMark, open>>
  BY DEF Arrive, checkpointVars
<1>2. \A i \in 1..Len(topic) : topic'[i] = topic[i]
  BY AppendProperties DEF Arrive, QueryInv, QueryTypeOK
<1>3. \A i \in 1..Len(topic) : RowsOf(i)' = RowsOf(i)
  BY <1>2 DEF RowsOf, WindowsOf
<1>4. ASSUME planned # <<>>
      PROVE  Emitted' = Emitted
  <2>1. BatchMessages' = BatchMessages /\ BatchMessages \subseteq 1..Len(topic)
    BY <1>1, <1>4, BatchFacts DEF BatchMessages, QueryInv
  <2>2. BatchRows' = BatchRows
    BY <1>3, <2>1 DEF BatchRows
  <2>. QED BY <1>1, <2>2 DEF Emitted, Grouped, Admitted, Ended
<1>5. committed \in 0..Len(topic) /\ Len(topic) \in Nat
  BY LenProperties DEF QueryInv, QueryTypeOK
<1>6. MarkInv'
  BY <1>1, <1>2, <1>5 DEF QueryInv, MarkInv
<1>. QED BY <1>1, <1>2, <1>3, <1>4, <1>6, ArriveType DEF QueryInv, OpenInv, Ended

LEMMA PlanKeeps ==
    ASSUME QueryInv, Plan
    PROVE  QueryInv'
  BY PlanType DEF QueryInv, OpenInv, MarkInv, Ended, Plan

LEMMA UnchangedKeeps ==
    ASSUME QueryInv, UNCHANGED queryVars
    PROVE  QueryInv' /\ Emitted' = Emitted /\ \A i : RowsOf(i)' = RowsOf(i)
<1>1. UNCHANGED <<topic, committed, planned, watermark, lateMark, open>>
  BY DEF queryVars
<1>2. \A i : RowsOf(i)' = RowsOf(i)
  BY <1>1 DEF RowsOf, WindowsOf
<1>3. Emitted' = Emitted
  BY <1>1, <1>2 DEF Emitted, Grouped, Admitted, BatchRows, BatchMessages, Ended
<1>. QED BY <1>1, <1>2, <1>3 DEF QueryInv, QueryTypeOK, OpenInv, MarkInv, Ended

(* The windows of a microbatch end between the two marks: no earlier one   *)
(* has closed them, and none will after it.                                *)
LEMMA EmittedBetween ==
    ASSUME QueryInv
    PROVE  \A row \in Emitted : ~Ended(row, lateMark) /\ Ended(row, watermark)
  BY DEF QueryInv, OpenInv, Emitted, Grouped, Admitted

LEMMA CommitKeeps ==
    ASSUME QueryInv, Commit
    PROVE  /\ QueryInv'
           /\ topic' = topic /\ planned' = <<>>
           /\ committed' = planned[1] /\ committed' >= committed
           /\ lateMark' = watermark
           /\ lateMark \in Nat /\ watermark \in Nat /\ lateMark <= watermark
<1>1. /\ topic' = topic /\ planned' = <<>> /\ planned # <<>>
      /\ committed' = planned[1] /\ lateMark' = watermark
      /\ watermark' = NextWatermark /\ open' = Grouped \ Emitted
  BY DEF Commit
<1>2. /\ QueryTypeOK /\ lateMark \in Nat /\ watermark \in Nat /\ lateMark <= watermark
      /\ committed \in Nat /\ planned[1] \in Nat /\ committed <= planned[1]
  <2>1. QueryTypeOK
    BY DEF QueryInv
  <2>2. lateMark \in 0..watermark /\ watermark \in 0..MaxTime
    BY <2>1 DEF QueryTypeOK, Times
  <2>3. planned[1] \in committed..Len(topic) /\ committed \in Nat
    BY <1>1, <2>1, BatchFacts
  <2>. QED BY <2>1, <2>2, <2>3
<1>3. OpenInv'
  BY <1>1 DEF OpenInv, Emitted, Ended
<1>4. MarkInv'
  <2>1. CASE NextWatermark = watermark
    BY <1>1, <1>2, <2>1 DEF QueryInv, MarkInv
  <2>2. CASE \E i \in BatchMessages : topic[i] = NextWatermark + Delay
    <3>1. PICK i \in BatchMessages : topic[i] = NextWatermark + Delay
      BY <2>2
    <3>2. i \in 1..planned[1]
      BY <1>2 DEF BatchMessages
    <3>3. NextWatermark + Delay \in Int
      BY <1>1, <1>2, WatermarkFacts, QueryConstants DEF Times
    <3>. QED BY <1>1, <3>1, <3>2, <3>3 DEF MarkInv
  <2>. QED BY <1>1, <1>2, <2>1, <2>2, WatermarkFacts
<1>. QED BY <1>1, <1>2, <1>3, <1>4, CommitType DEF QueryInv

(* Some message read before message i is the delay ahead of the end of the *)
(* window of row.                                                          *)
TooLate(i, row) == \E j \in 1..i - 1 : topic[j] >= row[1] + Length + Delay

(* What a commit makes of a row of the messages read so far: emitted, open *)
(* under the new mark, settled by an earlier commit, or dropped as late.   *)
LEMMA CommitSettles ==
    ASSUME QueryInv, Commit, NEW i \in 1..planned[1], NEW row \in RowsOf(i)
    PROVE  \/ row \in Emitted
           \/ row \in open' /\ ~Ended(row, lateMark')
           \/ i \in 1..committed /\ row \notin open
           \/ TooLate(i, row)
<1>1. /\ planned # <<>> /\ lateMark' = watermark /\ open' = Grouped \ Emitted
      /\ QueryTypeOK
  BY DEF Commit, QueryInv
<1>2. /\ committed \in 0..Len(topic) /\ Len(topic) \in Nat
      /\ planned[1] \in committed..Len(topic)
  BY <1>1, BatchFacts, LenProperties DEF QueryTypeOK
<1>3. CASE row \in Grouped
  BY <1>1, <1>3 DEF Emitted
<1>4. CASE row \notin Grouped /\ i \in 1..committed
  BY <1>4 DEF Grouped
<1>5. CASE row \notin Grouped /\ i \notin 1..committed
  <2>1. i \in BatchMessages /\ i \in Nat /\ committed < i
    BY <1>2, <1>5 DEF BatchMessages
  <2>2. Ended(row, lateMark)
    BY <1>5, <2>1 DEF Grouped, Admitted, BatchRows
  <2>3. row[1] \in Nat /\ lateMark \in Nat /\ watermark \in Nat /\ lateMark <= watermark
    BY CommitKeeps, QueryConstants DEF RowsOf, WindowsOf, Starts, Times
  <2>4. row[1] + Length <= watermark /\ watermark # 0
    BY <2>2, <2>3, QueryConstants DEF Ended
  <2>5. PICK j \in 1..committed : topic[j] >= watermark + Delay
    BY <2>4 DEF QueryInv, MarkInv
  <2>6. j \in 1..i - 1 /\ topic[j] \in Nat
    <3>1. j \in 1..Len(topic)
      BY <1>2
    <3>2. topic[j] \in 0..MaxTime
      BY <1>1, <3>1, ElementOfSeq DEF QueryTypeOK, Times
    <3>3. topic[j] \in Nat
      BY <3>2, QueryConstants
    <3>. QED BY <1>2, <2>1, <3>3
  <2>7. topic[j] >= row[1] + Length + Delay
    BY <2>3, <2>4, <2>5, <2>6, QueryConstants
  <2>. QED BY <2>6, <2>7 DEF TooLate
<1>. QED BY <1>3, <1>4, <1>5
=============================================================================
