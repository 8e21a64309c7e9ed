------------------------ MODULE TrafficCollectorProofs ------------------------
(***************************************************************************)
(* What holds of the calls and of the Kafka logs for every number of hosts *)
(* and calls, all batch sizes, numbers of tries and partitions, and both   *)
(* kinds of producer.                                                      *)
(***************************************************************************)
EXTENDS TrafficCollector, SequenceTheorems, FiniteSetTheorems, WellFoundedInduction, TLAPS

LEMMA CollectorConstants ==
    /\ NoKey \notin Hosts
    /\ PartitionOf \in [Hosts \cup {NoKey} -> Partitions]
    /\ Modes \subseteq BOOLEAN
    /\ KafkaBatchSize \in Nat \ {0} /\ MaxAttempts \in Nat \ {0} /\ EventsPerCall \in Nat \ {0}
    /\ MaxCalls \in Nat /\ MaxCrashes \in Nat
  BY CollectorAssumption DEF CollectorAssumption

-----------------------------------------------------------------------------
(* The messages of a call                                                  *)

LEMMA Multiples ==
    ASSUME NEW E \in Nat, NEW k \in Nat, NEW l \in Nat, k < l
    PROVE  k * E \in Nat /\ l * E \in Nat /\ k * E + E <= l * E
<1>1. PICK d \in Nat : l = k + 1 + d
  <2>1. l - k - 1 \in Nat /\ l = k + 1 + (l - k - 1)
    OBVIOUS
  <2>. QED BY <2>1
<1>2. k * E \in Nat /\ d * E \in Nat
  OBVIOUS
<1>3. (k + 1 + d) * E = k * E + E + d * E
  OBVIOUS
<1>. QED BY <1>1, <1>2, <1>3

(* The numbers of the packets of two calls of a host do not overlap. *)
LEMMA NumbersApart ==
    ASSUME NEW E \in Nat \ {0}, NEW k \in Nat, NEW l \in Nat,
           NEW i \in 1..E, NEW j \in 1..E, k * E + i = l * E + j
    PROVE  k = l /\ i = j
<1>1. k * E \in Nat /\ l * E \in Nat
  OBVIOUS
<1>2. CASE k < l
  BY <1>1, <1>2, Multiples
<1>3. CASE l < k
  BY <1>1, <1>3, Multiples
<1>4. CASE k = l
  BY <1>1, <1>4
<1>. QED BY <1>2, <1>3, <1>4

LEMMA CallParts ==
    ASSUME NEW c \in Calls
    PROVE  c = <<c[1], c[2]>> /\ c[1] \in Hosts /\ c[2] \in 0..MaxCalls
  BY DEF Calls

LEMMA BatchLength ==
    ASSUME NEW c \in Calls
    PROVE  /\ Len(Batch(c)) = (IF c[2] = 0 THEN 1 ELSE EventsPerCall)
           /\ Len(Batch(c)) \in Nat \ {0}
           /\ DOMAIN Batch(c) = 1..Len(Batch(c))
<1>1. CASE c[2] = 0
  <2>1. Batch(c) = <<[host |-> c[1], n |-> 0]>>
    BY <1>1 DEF Batch
  <2>. QED BY <1>1, <2>1
<1>2. CASE c[2] # 0
  <2>1. Batch(c) = [i \in 1..EventsPerCall |->
                      [host |-> c[1], n |-> (c[2] - 1) * EventsPerCall + i]]
    BY <1>2 DEF Batch
  <2>2. Len(Batch(c)) = EventsPerCall /\ DOMAIN Batch(c) = 1..EventsPerCall
    BY <2>1, CollectorConstants
  <2>. QED BY <1>2, <2>2, CollectorConstants
<1>. QED BY <1>1, <1>2

LEMMA BatchElements ==
    ASSUME NEW c \in Calls, NEW i \in 1..Len(Batch(c))
    PROVE  /\ Batch(c)[i].host = c[1]
           /\ c[2] = 0 => i = 1 /\ Batch(c)[i].n = 0
           /\ c[2] # 0 => /\ i \in 1..EventsPerCall
                          /\ Batch(c)[i].n = (c[2] - 1) * EventsPerCall + i
                          /\ Batch(c)[i].n \in 1..MaxCalls * EventsPerCall
           /\ Batch(c)[i] \in Message
           /\ Batch(c)[i] = [host |-> c[1], n |-> Batch(c)[i].n]
<1>1. c[1] \in Hosts /\ c[2] \in 0..MaxCalls
  BY CallParts
<1>2. MaxCalls * EventsPerCall \in Nat
  BY CollectorConstants
<1>3. CASE c[2] = 0
  <2>1. i = 1 /\ Batch(c)[i] = [host |-> c[1], n |-> 0]
    BY <1>3, BatchLength DEF Batch
  <2>. QED BY <1>1, <1>2, <1>3, <2>1 DEF Message
<1>4. CASE c[2] # 0
  <2>1. i \in 1..EventsPerCall
    BY <1>4, BatchLength
  <2>2. Batch(c)[i] = [host |-> c[1], n |-> (c[2] - 1) * EventsPerCall + i]
    BY <1>4, <2>1 DEF Batch
  <2>3. c[2] - 1 \in Nat /\ c[2] \in Nat /\ c[2] - 1 < c[2] /\ c[2] <= MaxCalls
    BY <1>1, <1>4, CollectorConstants
  <2>4. /\ (c[2] - 1) * EventsPerCall \in Nat
        /\ (c[2] - 1) * EventsPerCall + EventsPerCall <= c[2] * EventsPerCall
    BY <2>3, Multiples, CollectorConstants
  <2>5. c[2] * EventsPerCall \in Nat /\ c[2] * EventsPerCall <= MaxCalls * EventsPerCall
    <3>1. CASE c[2] = MaxCalls
      BY <1>2, <3>1
    <3>2. CASE c[2] < MaxCalls
      <4>1. /\ c[2] * EventsPerCall \in Nat
            /\ c[2] * EventsPerCall + EventsPerCall <= MaxCalls * EventsPerCall
        BY <2>3, <3>2, Multiples, CollectorConstants
      <4>. QED BY <1>2, <4>1, CollectorConstants
    <3>. QED BY <2>3, <3>1, <3>2, CollectorConstants
  <2>6. (c[2] - 1) * EventsPerCall + i \in 1..MaxCalls * EventsPerCall
    BY <1>2, <2>1, <2>4, <2>5, CollectorConstants
  <2>. QED BY <1>1, <1>2, <1>4, <2>1, <2>2, <2>6 DEF Message
<1>. QED BY <1>3, <1>4

(* A message belongs to one call, and to one place in it. *)
LEMMA BatchInjective ==
    ASSUME NEW c \in Calls, NEW d \in Calls,
           NEW i \in 1..Len(Batch(c)), NEW j \in 1..Len(Batch(d)),
           Batch(c)[i] = Batch(d)[j]
    PROVE  c = d /\ i = j
<1>1. /\ Batch(c)[i].host = c[1]
      /\ c[2] = 0 => i = 1 /\ Batch(c)[i].n = 0
      /\ c[2] # 0 => /\ i \in 1..EventsPerCall
                     /\ Batch(c)[i].n = (c[2] - 1) * EventsPerCall + i
                     /\ Batch(c)[i].n \in 1..MaxCalls * EventsPerCall
  BY BatchElements
<1>2. /\ Batch(d)[j].host = d[1]
      /\ d[2] = 0 => j = 1 /\ Batch(d)[j].n = 0
      /\ d[2] # 0 => /\ j \in 1..EventsPerCall
                     /\ Batch(d)[j].n = (d[2] - 1) * EventsPerCall + j
                     /\ Batch(d)[j].n \in 1..MaxCalls * EventsPerCall
  BY BatchElements
<1>3. c[1] = d[1]
  BY <1>1, <1>2
<1>4. c[2] = 0 <=> d[2] = 0
  <2>1. 0 \notin 1..MaxCalls * EventsPerCall
    <3>1. MaxCalls * EventsPerCall \in Nat
      BY CollectorConstants
    <3>. QED BY <3>1
  <2>. QED BY <1>1, <1>2, <2>1
<1>5. CASE c[2] = 0
  BY <1>1, <1>2, <1>3, <1>4, <1>5, CallParts
<1>6. CASE c[2] # 0
  <2>1. PICK k \in Nat, l \in Nat : c[2] = k + 1 /\ d[2] = l + 1
    <3>1. c[2] \in 0..MaxCalls /\ c[2] # 0 /\ d[2] \in 0..MaxCalls /\ d[2] # 0
      BY <1>4, <1>6, CallParts
    <3>2. c[2] - 1 \in Nat /\ d[2] - 1 \in Nat
      BY <3>1, CollectorConstants
    <3>3. c[2] = (c[2] - 1) + 1 /\ d[2] = (d[2] - 1) + 1
      BY <3>1, CollectorConstants
    <3>. QED BY <3>2, <3>3
  <2>2. k = c[2] - 1 /\ l = d[2] - 1
    BY <2>1
  <2>3. i \in 1..EventsPerCall /\ j \in 1..EventsPerCall /\ k * EventsPerCall + i = l * EventsPerCall + j
    BY <1>1, <1>2, <1>4, <1>6, <2>2
  <2>4. k = l /\ i = j
    BY <2>3, NumbersApart, CollectorConstants
  <2>. QED BY <1>3, <2>1, <2>4, CallParts
<1>. QED BY <1>5, <1>6

-----------------------------------------------------------------------------
(* Type correctness                                                        *)

CallTypeOK ==
    /\ phase \in [Calls -> {"idle", "sent", "handling", "awaiting", "returned", "lost"}]
    /\ next \in [Calls -> Nat]
    /\ \A c \in Calls : next[c] \in 1..Len(Batch(c)) + 1
    /\ client \in [Calls -> {"none", "open", "ok", "err"}]

QueueTypeOK ==
    /\ pending \in [TopicPartitions -> Seq(Message)]
    /\ published \in [TopicPartitions -> Seq(Message)]
    /\ flight \in [TopicPartitions -> Seq(Message)]
    /\ \A tp \in TopicPartitions : Len(flight[tp]) <= KafkaBatchSize
    /\ attempts \in [TopicPartitions -> 0..MaxAttempts - 1]
    /\ log \in [TopicPartitions -> Seq(Message)]

ProcessTypeOK ==
    /\ async \in BOOLEAN
    /\ main \in {"running", "stopping", "closing", "exited"}
    /\ crashes \in 0..MaxCrashes
    /\ reported \subseteq Message
    /\ crashLost \subseteq Message

LEMMA TypeParts ==
    /\ TypeOK <=> CallTypeOK /\ QueueTypeOK /\ ProcessTypeOK
    /\ TypeOK' <=> CallTypeOK' /\ QueueTypeOK' /\ ProcessTypeOK'
  BY DEF TypeOK, CallTypeOK, QueueTypeOK, ProcessTypeOK

LEMMA DestinationType ==
    ASSUME NEW m \in Message
    PROVE  Destination(m) \in TopicPartitions
<1>1. KeyOf(m) \in Hosts \cup {NoKey}
  BY DEF KeyOf, Message
<1>. QED BY <1>1, CollectorConstants DEF Destination, TopicPartitions

(* The message a handler is about to publish. *)
LEMMA NextMessage ==
    ASSUME CallTypeOK, NEW c \in Calls, next[c] <= Len(Batch(c))
    PROVE  /\ next[c] \in 1..Len(Batch(c)) /\ next[c] \in Nat
           /\ next[c] + 1 \in 1..Len(Batch(c)) + 1
           /\ Batch(c)[next[c]] \in Message
           /\ Destination(Batch(c)[next[c]]) \in TopicPartitions
<1>1. /\ next[c] \in 1..Len(Batch(c)) /\ next[c] \in Nat
      /\ next[c] + 1 \in 1..Len(Batch(c)) + 1
  BY BatchLength DEF CallTypeOK
<1>. QED BY <1>1, BatchElements, DestinationType

(* The message a handler waits for. *)
LEMMA LastMessage ==
    ASSUME CallTypeOK, NEW c \in Calls, next[c] > 1
    PROVE  /\ next[c] - 1 \in 1..Len(Batch(c)) /\ next[c] \in Nat
           /\ Batch(c)[next[c] - 1] \in Message
           /\ Destination(Batch(c)[next[c] - 1]) \in TopicPartitions
<1>1. next[c] - 1 \in 1..Len(Batch(c)) /\ next[c] \in Nat
  BY BatchLength DEF CallTypeOK
<1>. QED BY <1>1, BatchElements, DestinationType

LEMMA CallTypeStep ==
    ASSUME CallTypeOK, [Next]_vars
    PROVE  CallTypeOK'
<1>1. CASE UNCHANGED next /\ phase' \in [Calls -> {"idle", "sent", "handling", "awaiting", "returned", "lost"}]
             /\ client' \in [Calls -> {"none", "open", "ok", "err"}]
  BY <1>1 DEF CallTypeOK
<1>2. ASSUME NEW c \in Calls, AgentStep(c) \/ StartHandler(c) \/ Refuse(c) \/ HandlerStep(c)
      PROVE  CallTypeOK'
  <2>1. CASE AgentStep(c)
    BY <1>1, <2>1 DEF AgentStep, Issue, GiveUp, ReceiveResponse, CallTypeOK
  <2>2. CASE StartHandler(c) \/ Refuse(c)
    BY <1>1, <2>2 DEF StartHandler, Refuse, CallTypeOK
  <2>3. CASE Return(c) \/ WaitEnds(c)
    BY <1>1, <2>3 DEF Return, WaitEnds, CallTypeOK
  <2>4. CASE Publish(c) \/ PublishFails(c)
    <3>1. next[c] <= Len(Batch(c)) /\ next' = [next EXCEPT ![c] = @ + 1] /\ client' = client
      BY <2>4 DEF Publish, PublishFails
    <3>2. phase' \in [Calls -> {"idle", "sent", "handling", "awaiting", "returned", "lost"}]
      BY <2>4 DEF Publish, PublishFails, CallTypeOK
    <3>3. \A d \in Calls : next'[d] = IF d = c THEN next[d] + 1 ELSE next[d]
      BY <3>1 DEF CallTypeOK
    <3>4. \A d \in Calls : next'[d] \in 1..Len(Batch(d)) + 1 /\ next'[d] \in Nat
      BY <3>1, <3>3, NextMessage DEF CallTypeOK
    <3>5. next' \in [Calls -> Nat]
      BY <3>1, <3>4 DEF CallTypeOK
    <3>. QED BY <3>1, <3>2, <3>4, <3>5 DEF CallTypeOK
  <2>. QED BY <1>2, <2>1, <2>2, <2>3, <2>4 DEF HandlerStep
<1>3. CASE Crash
  BY <1>1, <1>3 DEF Crash, CallTypeOK
<1>. QED
  BY <1>1, <1>2, <1>3
     DEF Next, WriterStep, TakeBatch, WriteAcked, WriteFails, Stop, CloseProducer, Exit,
         Terminated, vars, callVars, CallTypeOK

LEMMA TakenParts ==
    ASSUME NEW s \in Seq(Message), NEW k \in 1..Len(s)
    PROVE  /\ SubSeq(s, 1, k) \in Seq(Message) /\ Len(SubSeq(s, 1, k)) = k
           /\ SubSeq(s, k + 1, Len(s)) \in Seq(Message)
           /\ Len(SubSeq(s, k + 1, Len(s))) = Len(s) - k
           /\ \A i \in 1..k : SubSeq(s, 1, k)[i] = s[i]
           /\ \A i \in 1..Len(s) - k : SubSeq(s, k + 1, Len(s))[i] = s[k + i]
<1>1. /\ Len(s) \in Nat /\ \A i \in 1..k : s[i] \in Message
      /\ \A i \in k + 1..Len(s) : s[i] \in Message
  BY LenProperties, ElementOfSeq
<1>2. SubSeq(s, 1, k) \in Seq(Message) /\ Len(SubSeq(s, 1, k)) = k
  BY <1>1, SubSeqProperties
<1>3. /\ SubSeq(s, k + 1, Len(s)) \in Seq(Message)
      /\ Len(SubSeq(s, k + 1, Len(s))) = Len(s) - k
  BY <1>1, SubSeqProperties
<1>4. \A i \in 1..k : SubSeq(s, 1, k)[i] = s[i]
  BY <1>1, SubSeqProperties
<1>5. \A i \in 1..Len(s) - k : SubSeq(s, k + 1, Len(s))[i] = s[k + i]
  BY <1>1, SubSeqProperties
<1>. QED BY <1>2, <1>3, <1>4, <1>5

(* TakeBatch takes at least one message and at most a batch. *)
LEMMA TakenNumber ==
    ASSUME NEW n \in Nat, NEW k \in 1..Min({KafkaBatchSize, n})
    PROVE  k \in 1..n /\ k \in 1..KafkaBatchSize
<1>1. Min({KafkaBatchSize, n}) \in {KafkaBatchSize, n}
      /\ Min({KafkaBatchSize, n}) <= n /\ Min({KafkaBatchSize, n}) <= KafkaBatchSize
  BY CollectorConstants DEF Min
<1>. QED BY <1>1, CollectorConstants

LEMMA QueueStep ==
    ASSUME [Next]_vars
    PROVE  \/ UNCHANGED <<pending, flight, attempts, log, published>>
           \/ \E c \in Calls : Publish(c)
           \/ \E tp \in TopicPartitions : WriterStep(tp)
           \/ Crash
  BY DEF Next, AgentStep, HandlerStep, Issue, GiveUp, ReceiveResponse, StartHandler, Refuse,
         PublishFails, WaitEnds, Return, Stop, CloseProducer, Exit, Terminated, vars,
         writerVars, history

LEMMA QueueTypeStep ==
    ASSUME CallTypeOK, QueueTypeOK, [Next]_vars
    PROVE  QueueTypeOK'
<1>1. CASE UNCHANGED <<pending, flight, attempts, log, published>>
  BY <1>1 DEF QueueTypeOK
<1>2. ASSUME NEW c \in Calls, Publish(c)
      PROVE  QueueTypeOK'
  <2>. DEFINE m == Batch(c)[next[c]]
              tp == Destination(m)
  <2>1. m \in Message /\ tp \in TopicPartitions
    BY <1>2, NextMessage DEF Publish
  <2>2. /\ pending' = [pending EXCEPT ![tp] = Append(@, m)]
        /\ published' = [published EXCEPT ![tp] = Append(@, m)]
        /\ UNCHANGED <<flight, attempts, log>>
    BY <1>2 DEF Publish
  <2>. HIDE DEF m, tp
  <2>3. Append(pending[tp], m) \in Seq(Message) /\ Append(published[tp], m) \in Seq(Message)
    BY <2>1, AppendProperties DEF QueueTypeOK
  <2>. QED BY <2>1, <2>2, <2>3 DEF QueueTypeOK
<1>3. ASSUME NEW tp \in TopicPartitions, TakeBatch(tp)
      PROVE  QueueTypeOK'
  <2>1. PICK k \in 1..Min({KafkaBatchSize, Len(pending[tp])}) :
           /\ flight' = [flight EXCEPT ![tp] = SubSeq(pending[tp], 1, k)]
           /\ pending' = [pending EXCEPT ![tp] = SubSeq(@, k + 1, Len(@))]
    BY <1>3 DEF TakeBatch
  <2>2. pending[tp] \in Seq(Message) /\ Len(pending[tp]) \in Nat
    BY LenProperties DEF QueueTypeOK
  <2>3. k \in 1..Len(pending[tp]) /\ k \in 1..KafkaBatchSize
    BY <2>2, TakenNumber
  <2>4. /\ SubSeq(pending[tp], 1, k) \in Seq(Message) /\ Len(SubSeq(pending[tp], 1, k)) = k
        /\ SubSeq(pending[tp], k + 1, Len(pending[tp])) \in Seq(Message)
    BY <2>2, <2>3, TakenParts
  <2>5. UNCHANGED <<attempts, log, published>>
    BY <1>3 DEF TakeBatch, history
  <2>6. /\ pending' \in [TopicPartitions -> Seq(Message)]
        /\ flight' \in [TopicPartitions -> Seq(Message)]
    BY <2>1, <2>4 DEF QueueTypeOK
  <2>7. \A u \in TopicPartitions : Len(flight'[u]) <= KafkaBatchSize
    BY <2>1, <2>3, <2>4 DEF QueueTypeOK
  <2>. QED BY <2>5, <2>6, <2>7 DEF QueueTypeOK
<1>4. ASSUME NEW tp \in TopicPartitions, WriteAcked(tp) \/ WriteFails(tp)
      PROVE  QueueTypeOK'
  <2>1. log' \in [TopicPartitions -> Seq(Message)]
    <3>1. log[tp] \o flight[tp] \in Seq(Message)
      BY ConcatProperties DEF QueueTypeOK
    <3>. QED BY <1>4, <3>1 DEF WriteAcked, WriteFails, QueueTypeOK
  <2>2. attempts' \in [TopicPartitions -> 0..MaxAttempts - 1]
    <3>1. attempts[tp] \in 0..MaxAttempts - 1
      BY DEF QueueTypeOK
    <3>2. CASE attempts' = [attempts EXCEPT ![tp] = 0]
      BY <3>2, CollectorConstants DEF QueueTypeOK
    <3>3. CASE attempts' = [attempts EXCEPT ![tp] = @ + 1] /\ attempts[tp] + 1 < MaxAttempts
      <4>1. attempts[tp] + 1 \in 0..MaxAttempts - 1
        BY <3>1, <3>3, CollectorConstants
      <4>. QED BY <3>3, <4>1 DEF QueueTypeOK
    <3>. QED BY <1>4, <3>2, <3>3 DEF WriteAcked, WriteFails
  <2>3. /\ flight' \in [TopicPartitions -> Seq(Message)]
        /\ \A u \in TopicPartitions : Len(flight'[u]) <= KafkaBatchSize
    <3>1. <<>> \in Seq(Message) /\ Len(<<>>) = 0
      BY EmptySeq
    <3>2. flight' = flight \/ flight' = [flight EXCEPT ![tp] = <<>>]
      BY <1>4 DEF WriteAcked, WriteFails
    <3>3. KafkaBatchSize >= 0
      BY CollectorConstants
    <3>4. CASE flight' = flight
      BY <3>4 DEF QueueTypeOK
    <3>5. CASE flight' = [flight EXCEPT ![tp] = <<>>]
      <4>1. flight' \in [TopicPartitions -> Seq(Message)]
        BY <3>1, <3>5 DEF QueueTypeOK
      <4>2. \A u \in TopicPartitions : flight'[u] = <<>> \/ flight'[u] = flight[u]
        BY <3>5 DEF QueueTypeOK
      <4>. QED BY <3>1, <3>3, <4>1, <4>2 DEF QueueTypeOK
    <3>. QED BY <3>2, <3>4, <3>5
  <2>4. UNCHANGED <<pending, published>>
    BY <1>4 DEF WriteAcked, WriteFails, history
  <2>. QED BY <2>1, <2>2, <2>3, <2>4 DEF QueueTypeOK
<1>5. CASE Crash
  <2>1. <<>> \in Seq(Message) /\ Len(<<>>) = 0
    BY EmptySeq
  <2>. QED BY <1>5, <2>1, CollectorConstants DEF Crash, QueueTypeOK
<1>. QED BY <1>1, <1>2, <1>3, <1>4, <1>5, QueueStep DEF WriterStep

(* How far a call is decides what its handler has done: before it starts   *)
(* it has published nothing, and once it has returned everything.          *)
CallInv ==
    \A c \in Calls :
        /\ phase[c] \in {"idle", "sent"} => next[c] = 1
        /\ phase[c] = "awaiting" => next[c] > 1
        /\ phase[c] = "returned" => next[c] > Len(Batch(c))
        /\ client[c] = "none" => phase[c] = "idle"
        /\ client[c] = "ok" => phase[c] = "returned"

LEMMA CallStep ==
    ASSUME CallTypeOK, CallInv, [Next]_vars
    PROVE  CallInv'
<1>1. CASE UNCHANGED callVars
  BY <1>1 DEF callVars, CallInv
<1>2. ASSUME NEW c \in Calls, AgentStep(c) \/ StartHandler(c) \/ Refuse(c) \/ HandlerStep(c)
      PROVE  CallInv'
  <2>1. CASE AgentStep(c)
    <3>1. CASE Issue(c)
      BY <3>1 DEF Issue, CallInv, CallTypeOK
    <3>2. CASE GiveUp(c)
      BY <3>2 DEF GiveUp, CallInv, CallTypeOK
    <3>3. CASE ReceiveResponse(c)
      BY <3>3 DEF ReceiveResponse, CallInv, CallTypeOK
    <3>. QED BY <2>1, <3>1, <3>2, <3>3 DEF AgentStep
  <2>2. CASE StartHandler(c) \/ Refuse(c)
    BY <2>2 DEF StartHandler, Refuse, CallInv, CallTypeOK
  <2>3. CASE Return(c) \/ WaitEnds(c)
    BY <2>3 DEF Return, WaitEnds, CallInv, CallTypeOK
  <2>4. CASE Publish(c) \/ PublishFails(c)
    <3>1. /\ phase[c] = "handling" /\ next' = [next EXCEPT ![c] = @ + 1] /\ client' = client
          /\ phase' = [phase EXCEPT ![c] = phase'[c]] /\ phase'[c] \in {"handling", "awaiting"}
      BY <2>4 DEF Publish, PublishFails, CallTypeOK
    <3>2. next[c] \in Nat /\ next[c] + 1 > 1
      BY BatchLength DEF CallTypeOK
    <3>. QED BY <3>1, <3>2 DEF CallInv, CallTypeOK
  <2>. QED BY <1>2, <2>1, <2>2, <2>3, <2>4 DEF HandlerStep
<1>3. CASE Crash
  BY <1>3 DEF Crash, Busy, CallInv, CallTypeOK
<1>. QED
  BY <1>1, <1>2, <1>3
     DEF Next, WriterStep, TakeBatch, WriteAcked, WriteFails, Stop, CloseProducer, Exit,
         Terminated, vars, callVars

LEMMA ProcessTypeStep ==
    ASSUME CallTypeOK, CallInv, QueueTypeOK, ProcessTypeOK, [Next]_vars
    PROVE  ProcessTypeOK'
<1>. USE DEF ProcessTypeOK
<1>1. \A tp \in TopicPartitions : Undelivered(tp) \subseteq Message
  BY ElementOfSeq, LenProperties DEF Undelivered, Range, QueueTypeOK
<1>2. CASE UNCHANGED <<async, main, crashes, reported, crashLost>>
  BY <1>2
<1>3. ASSUME NEW c \in Calls, PublishFails(c) \/ WaitEnds(c)
      PROVE  ProcessTypeOK'
  <2>1. reported' \subseteq Message
    <3>1. CASE PublishFails(c)
      BY <3>1, NextMessage DEF PublishFails
    <3>2. CASE WaitEnds(c)
      <4>. DEFINE m == Batch(c)[next[c] - 1]
      <4>1. CASE m \in Undelivered(Destination(m))
        <5>1. m \in Message
          BY <3>2, LastMessage DEF WaitEnds, CallInv
        <5>2. reported' = reported \cup {m}
          BY <3>2, <4>1 DEF WaitEnds
        <5>. QED BY <5>1, <5>2
      <4>2. CASE m \notin Undelivered(Destination(m))
        BY <3>2, <4>2 DEF WaitEnds
      <4>. QED BY <4>1, <4>2
    <3>. QED BY <1>3, <3>1, <3>2
  <2>2. UNCHANGED <<async, main, crashes, crashLost>>
    BY <1>3 DEF PublishFails, WaitEnds, processVars
  <2>. QED BY <2>1, <2>2
<1>4. ASSUME NEW tp \in TopicPartitions, WriteFails(tp)
      PROVE  ProcessTypeOK'
  BY <1>1, <1>4 DEF WriteFails, processVars, Undelivered
<1>5. CASE Stop \/ CloseProducer \/ Exit
  BY <1>5 DEF Stop, CloseProducer, Exit, history
<1>6. CASE Crash
  BY <1>1, <1>6, CollectorConstants DEF Crash
<1>. QED
  BY <1>2, <1>3, <1>4, <1>5, <1>6
     DEF Next, AgentStep, HandlerStep, WriterStep, Issue, GiveUp, ReceiveResponse, StartHandler,
         Refuse, Publish, Return, TakeBatch, WriteAcked, Terminated, vars, processVars, history

LEMMA TypeInit == Init => TypeOK
<1>. SUFFICES ASSUME Init
              PROVE  TypeOK
  OBVIOUS
<1>1. CallTypeOK
  BY BatchLength DEF Init, CallTypeOK
<1>2. QueueTypeOK
  <2>1. <<>> \in Seq(Message) /\ Len(<<>>) = 0
    BY EmptySeq
  <2>. QED BY <2>1, CollectorConstants DEF Init, QueueTypeOK
<1>3. ProcessTypeOK
  BY CollectorConstants DEF Init, ProcessTypeOK
<1>. QED BY <1>1, <1>2, <1>3, TypeParts

LEMMA CallInit == Init => CallInv
  BY DEF Init, CallInv

LEMMA TypeStep == TypeOK /\ CallInv /\ [Next]_vars => (TypeOK /\ CallInv)'
  BY CallTypeStep, CallStep, QueueTypeStep, ProcessTypeStep, TypeParts

(* The calls, the Writer's queues and the logs are well typed: in          *)
(* particular a batch holds at most KafkaBatchSize messages and has had    *)
(* fewer than MaxAttempts tries.                                           *)
THEOREM CollectorTypeCorrect == Spec => []TypeOK
  BY TypeInit, CallInit, TypeStep, PTL DEF Spec

-----------------------------------------------------------------------------
(* The way of a message                                                    *)

LEMMA RangeEmpty == Range(<<>>) = {}
  BY DEF Range

LEMMA RangeAppend ==
    ASSUME NEW S, NEW s \in Seq(S), NEW e \in S
    PROVE  Range(Append(s, e)) = Range(s) \cup {e}
<1>1. /\ Len(s) \in Nat /\ DOMAIN s = 1..Len(s) /\ DOMAIN Append(s, e) = 1..Len(s) + 1
      /\ \A i \in 1..Len(s) : Append(s, e)[i] = s[i]
      /\ Append(s, e)[Len(s) + 1] = e
  BY AppendProperties, LenProperties
<1>. QED BY <1>1 DEF Range

LEMMA RangeConcat ==
    ASSUME NEW S, NEW s \in Seq(S), NEW t \in Seq(S)
    PROVE  Range(s \o t) = Range(s) \cup Range(t)
<1>1. /\ Len(s) \in Nat /\ DOMAIN s = 1..Len(s) /\ Len(t) \in Nat /\ DOMAIN t = 1..Len(t)
      /\ DOMAIN (s \o t) = 1..Len(s) + Len(t)
      /\ \A i \in 1..Len(s) : (s \o t)[i] = s[i]
      /\ \A i \in Len(s) + 1..Len(s) + Len(t) : (s \o t)[i] = t[i - Len(s)]
  BY ConcatProperties, LenProperties
<1>2. Range(s \o t) \subseteq Range(s) \cup Range(t)
  <2>. SUFFICES ASSUME NEW i \in 1..Len(s) + Len(t)
                PROVE  (s \o t)[i] \in Range(s) \cup Range(t)
    BY <1>1 DEF Range
  <2>1. CASE i <= Len(s)
    BY <1>1, <2>1 DEF Range
  <2>2. CASE i > Len(s)
    <3>1. i \in Len(s) + 1..Len(s) + Len(t) /\ i - Len(s) \in 1..Len(t)
      BY <1>1, <2>2
    <3>. QED BY <1>1, <3>1 DEF Range
  <2>. QED BY <1>1, <2>1, <2>2
<1>3. Range(s) \subseteq Range(s \o t)
  <2>1. \A i \in 1..Len(s) : i \in DOMAIN (s \o t) /\ (s \o t)[i] = s[i]
    BY <1>1
  <2>. QED BY <1>1, <2>1 DEF Range
<1>4. Range(t) \subseteq Range(s \o t)
  <2>. SUFFICES ASSUME NEW j \in 1..Len(t)
                PROVE  t[j] \in Range(s \o t)
    BY <1>1 DEF Range
  <2>1. Len(s) + j \in Len(s) + 1..Len(s) + Len(t) /\ (Len(s) + j) - Len(s) = j
    BY <1>1
  <2>2. Len(s) + j \in DOMAIN (s \o t) /\ (s \o t)[Len(s) + j] = t[j]
    BY <1>1, <2>1
  <2>. QED BY <2>2 DEF Range
<1>. QED BY <1>2, <1>3, <1>4

LEMMA RangeTaken ==
    ASSUME NEW s \in Seq(Message), NEW k \in 1..Len(s)
    PROVE  Range(s) = Range(SubSeq(s, 1, k)) \cup Range(SubSeq(s, k + 1, Len(s)))
<1>. DEFINE a == SubSeq(s, 1, k)
            b == SubSeq(s, k + 1, Len(s))
<1>1. /\ a \in Seq(Message) /\ Len(a) = k /\ b \in Seq(Message) /\ Len(b) = Len(s) - k
      /\ \A i \in 1..k : a[i] = s[i]
      /\ \A i \in 1..Len(s) - k : b[i] = s[k + i]
  BY TakenParts
<1>2. /\ DOMAIN s = 1..Len(s) /\ Len(s) \in Nat
      /\ DOMAIN a = 1..k /\ DOMAIN b = 1..Len(s) - k
  BY <1>1, LenProperties
<1>. HIDE DEF a, b
<1>3. Range(a) \subseteq Range(s)
  BY <1>1, <1>2 DEF Range
<1>4. Range(b) \subseteq Range(s)
  <2>. SUFFICES ASSUME NEW i \in 1..Len(s) - k
                PROVE  b[i] \in Range(s)
    BY <1>2 DEF Range
  <2>1. k + i \in 1..Len(s)
    BY <1>2
  <2>. QED BY <1>1, <1>2, <2>1 DEF Range
<1>5. Range(s) \subseteq Range(a) \cup Range(b)
  <2>. SUFFICES ASSUME NEW i \in 1..Len(s)
                PROVE  s[i] \in Range(a) \cup Range(b)
    BY <1>2 DEF Range
  <2>1. CASE i <= k
    <3>1. i \in 1..k /\ a[i] = s[i]
      BY <1>1, <2>1
    <3>. QED BY <1>2, <3>1 DEF Range
  <2>2. CASE i > k
    <3>1. i - k \in 1..Len(s) - k /\ k + (i - k) = i
      BY <1>2, <2>2
    <3>. QED BY <1>1, <1>2, <3>1 DEF Range
  <2>. QED BY <1>2, <2>1, <2>2
<1>6. Range(s) = Range(a) \cup Range(b)
  BY <1>3, <1>4, <1>5
<1>. QED BY <1>6 DEF a, b

LEMMA PublishMoves ==
    ASSUME TypeOK, NEW c \in Calls, NEW m, m = Batch(c)[next[c]], Publish(c)
    PROVE  /\ m \in Message /\ Destination(m) \in TopicPartitions
           /\ Undelivered(Destination(m))' = Undelivered(Destination(m)) \cup {m}
           /\ \A tp \in TopicPartitions \ {Destination(m)} : Undelivered(tp)' = Undelivered(tp)
           /\ UNCHANGED <<flight, attempts, log, reported, crashLost>>
<1>1. m \in Message /\ Destination(m) \in TopicPartitions
  BY TypeParts, NextMessage DEF Publish
<1>2. pending' = [pending EXCEPT ![Destination(m)] = Append(@, m)]
      /\ UNCHANGED <<flight, attempts, log, reported, crashLost>>
  BY DEF Publish
<1>3. pending \in [TopicPartitions -> Seq(Message)]
  BY DEF TypeOK
<1>4. Range(pending'[Destination(m)]) = Range(pending[Destination(m)]) \cup {m}
  BY <1>1, <1>2, <1>3, RangeAppend
<1>5. \A tp \in TopicPartitions \ {Destination(m)} : pending'[tp] = pending[tp]
  BY <1>2, <1>3
<1>. QED BY <1>1, <1>2, <1>4, <1>5 DEF Undelivered

LEMMA TakeMoves ==
    ASSUME TypeOK, NEW u \in TopicPartitions, TakeBatch(u)
    PROVE  /\ \A tp \in TopicPartitions : Undelivered(tp)' = Undelivered(tp)
           /\ \A tp \in TopicPartitions \ {u} : UNCHANGED <<pending[tp], flight[tp]>>
           /\ flight[u] = <<>>
           /\ \E k \in 1..Len(pending[u]) :
                 /\ flight'[u] = SubSeq(pending[u], 1, k)
                 /\ pending'[u] = SubSeq(pending[u], k + 1, Len(pending[u]))
           /\ UNCHANGED <<attempts, log, reported, crashLost>>
<1>1. PICK k \in 1..Min({KafkaBatchSize, Len(pending[u])}) :
         /\ flight' = [flight EXCEPT ![u] = SubSeq(pending[u], 1, k)]
         /\ pending' = [pending EXCEPT ![u] = SubSeq(@, k + 1, Len(@))]
  BY DEF TakeBatch
<1>2. /\ pending[u] \in Seq(Message) /\ Len(pending[u]) \in Nat
      /\ pending \in [TopicPartitions -> Seq(Message)]
      /\ flight \in [TopicPartitions -> Seq(Message)]
  BY LenProperties DEF TypeOK
<1>3. k \in 1..Len(pending[u])
  BY <1>2, TakenNumber
<1>4. /\ flight'[u] = SubSeq(pending[u], 1, k)
      /\ pending'[u] = SubSeq(pending[u], k + 1, Len(pending[u]))
      /\ \A tp \in TopicPartitions \ {u} : UNCHANGED <<pending[tp], flight[tp]>>
  BY <1>1, <1>2
<1>5. flight[u] = <<>> /\ UNCHANGED <<attempts, log, reported, crashLost>>
  BY DEF TakeBatch, history
<1>6. Range(pending[u]) = Range(flight'[u]) \cup Range(pending'[u])
  BY <1>2, <1>3, <1>4, RangeTaken
<1>7. Undelivered(u)' = Undelivered(u)
  BY <1>5, <1>6, RangeEmpty DEF Undelivered
<1>. QED BY <1>3, <1>4, <1>5, <1>7 DEF Undelivered

(* A try that ends, well or not, touches the batch being written and       *)
(* appends it to the log or does not.                                      *)
LEMMA WriteMoves ==
    ASSUME TypeOK, NEW u \in TopicPartitions, WriteAcked(u) \/ WriteFails(u)
    PROVE  /\ flight'[u] = flight[u] \/ flight'[u] = <<>>
           /\ log'[u] = log[u] \/ log'[u] = log[u] \o flight[u]
           /\ \A tp \in TopicPartitions \ {u} :
                 UNCHANGED <<flight[tp], log[tp], attempts[tp]>>
           /\ flight'[u] = flight[u] => attempts'[u] = attempts[u] + 1
           /\ UNCHANGED <<pending, crashLost>>
           /\ Range(flight[u]) \subseteq Range(flight'[u]) \cup Range(log'[u]) \cup reported'
           /\ reported \subseteq reported'
<1>1. /\ flight \in [TopicPartitions -> Seq(Message)] /\ log \in [TopicPartitions -> Seq(Message)]
      /\ attempts \in [TopicPartitions -> 0..MaxAttempts - 1]
      /\ flight[u] # <<>>
  BY DEF TypeOK, WriteAcked, WriteFails
<1>2. CASE WriteAcked(u)
  <2>1. log'[u] = log[u] \o flight[u] /\ flight'[u] = <<>>
    BY <1>1, <1>2 DEF WriteAcked
  <2>2. Range(flight[u]) \subseteq Range(log'[u])
    BY <1>1, <2>1, RangeConcat
  <2>. QED BY <1>1, <1>2, <2>1, <2>2 DEF WriteAcked, history
<1>3. CASE WriteFails(u)
  <2>1. log' = log \/ log' = [log EXCEPT ![u] = @ \o flight[u]]
    BY <1>3 DEF WriteFails
  <2>2. UNCHANGED <<pending, crashLost>> /\ reported \subseteq reported'
    BY <1>3 DEF WriteFails
  <2>3. CASE attempts' = [attempts EXCEPT ![u] = @ + 1] /\ flight' = flight
    BY <1>1, <2>1, <2>2, <2>3
  <2>4. CASE /\ attempts' = [attempts EXCEPT ![u] = 0]
             /\ flight' = [flight EXCEPT ![u] = <<>>]
             /\ reported' = reported \cup Range(flight[u])
    BY <1>1, <2>1, <2>2, <2>4
  <2>. QED BY <1>3, <2>3, <2>4 DEF WriteFails
<1>. QED BY <1>2, <1>3

LEMMA WriteRanges ==
    ASSUME TypeOK, NEW u \in TopicPartitions, WriteAcked(u) \/ WriteFails(u),
           NEW tp \in TopicPartitions
    PROVE  /\ Range(log[tp]) \subseteq Range(log'[tp])
           /\ Range(log'[tp]) \subseteq Range(log[tp]) \cup Undelivered(tp)
           /\ Undelivered(tp)' \subseteq Undelivered(tp)
           /\ Undelivered(tp) \subseteq Undelivered(tp)' \cup Range(log'[tp]) \cup reported'
<1>1. CASE tp = u
  <2>1. log[u] \in Seq(Message) /\ flight[u] \in Seq(Message)
    BY DEF TypeOK
  <2>2. Range(log'[u]) = Range(log[u]) \/ Range(log'[u]) = Range(log[u]) \cup Range(flight[u])
    <3>1. log'[u] = log[u] \/ log'[u] = log[u] \o flight[u]
      BY WriteMoves
    <3>2. Range(log[u] \o flight[u]) = Range(log[u]) \cup Range(flight[u])
      BY <2>1, RangeConcat
    <3>. QED BY <3>1, <3>2
  <2>3. Range(flight'[u]) \subseteq Range(flight[u])
    BY WriteMoves, RangeEmpty
  <2>4. Range(flight[u]) \subseteq Range(flight'[u]) \cup Range(log'[u]) \cup reported'
    BY WriteMoves
  <2>5. pending' = pending
    BY WriteMoves
  <2>. QED BY <1>1, <2>2, <2>3, <2>4, <2>5 DEF Undelivered
<1>2. CASE tp # u
  <2>1. flight'[tp] = flight[tp] /\ log'[tp] = log[tp] /\ pending' = pending
    BY <1>2, WriteMoves
  <2>. QED BY <2>1 DEF Undelivered
<1>. QED BY <1>1, <1>2

LEMMA CrashMoves ==
    ASSUME TypeOK, Crash
    PROVE  /\ \A tp \in TopicPartitions : Undelivered(tp)' = {} /\ Undelivered(tp) \subseteq crashLost'
           /\ crashLost \subseteq crashLost'
           /\ crashLost' = crashLost \cup UNION {Undelivered(tp) : tp \in TopicPartitions}
           /\ UNCHANGED <<log, reported, next, async>>
<1>1. \A tp \in TopicPartitions : pending'[tp] = <<>> /\ flight'[tp] = <<>>
  BY DEF Crash
<1>2. \A tp \in TopicPartitions : Undelivered(tp)' = {}
  BY <1>1, RangeEmpty DEF Undelivered
<1>. QED BY <1>2 DEF Crash

(* What has been reported stays so, and so does what a crash has taken. *)
LEMMA HistoryGrows ==
    ASSUME [Next]_vars
    PROVE  reported \subseteq reported' /\ crashLost \subseteq crashLost'
<1>1. ASSUME NEW c \in Calls, WaitEnds(c)
      PROVE  reported \subseteq reported' /\ crashLost \subseteq crashLost'
  <2>. DEFINE m == Batch(c)[next[c] - 1]
  <2>1. CASE m \in Undelivered(Destination(m))
    BY <1>1, <2>1 DEF WaitEnds
  <2>2. CASE m \notin Undelivered(Destination(m))
    BY <1>1, <2>2 DEF WaitEnds
  <2>. QED BY <2>1, <2>2
<1>. QED
  BY <1>1
     DEF Next, AgentStep, HandlerStep, WriterStep, Issue, GiveUp, ReceiveResponse, StartHandler,
         Refuse, Publish, PublishFails, Return, TakeBatch, WriteAcked, WriteFails, Stop,
         CloseProducer, Exit, Crash, Terminated, vars, history

(* What no step does: a message does not leave the Writer unless it is     *)
(* logged, reported or taken by a crash.                                   *)
LEMMA NothingVanishes ==
    ASSUME TypeOK, [Next]_vars, NEW tp \in TopicPartitions
    PROVE  /\ Undelivered(tp) \subseteq
                 Undelivered(tp)' \cup Range(log'[tp]) \cup reported' \cup crashLost'
           /\ Range(log[tp]) \subseteq Range(log'[tp])
           /\ reported \subseteq reported'
           /\ crashLost \subseteq crashLost'
<1>1. CASE UNCHANGED <<pending, flight, attempts, log, published>> /\ ~Crash
  <2>1. Undelivered(tp)' = Undelivered(tp) /\ log' = log
    BY <1>1 DEF Undelivered
  <2>. QED BY <2>1, HistoryGrows
<1>2. ASSUME NEW c \in Calls, Publish(c)
      PROVE  /\ Undelivered(tp) \subseteq Undelivered(tp)'
             /\ UNCHANGED <<log, reported, crashLost>>
  BY <1>2, PublishMoves
<1>3. ASSUME NEW u \in TopicPartitions, TakeBatch(u)
      PROVE  Undelivered(tp)' = Undelivered(tp) /\ UNCHANGED <<log, reported, crashLost>>
  BY <1>3, TakeMoves
<1>4. ASSUME NEW u \in TopicPartitions, WriteAcked(u) \/ WriteFails(u)
      PROVE  /\ Undelivered(tp) \subseteq Undelivered(tp)' \cup Range(log'[tp]) \cup reported'
             /\ Range(log[tp]) \subseteq Range(log'[tp])
             /\ reported \subseteq reported' /\ crashLost' = crashLost
  BY <1>4, WriteMoves, WriteRanges
<1>5. CASE Crash
  BY <1>5, CrashMoves
<1>. QED BY <1>1, <1>2, <1>3, <1>4, <1>5, QueueStep DEF WriterStep

(* What only a handler does: a message that is new to a queue or a log has *)
(* just been published.                                                    *)
LEMMA NothingAppears ==
    ASSUME TypeOK, [Next]_vars, NEW tp \in TopicPartitions,
           NEW x \in Undelivered(tp)' \cup Range(log'[tp])
    PROVE  \/ x \in Undelivered(tp) \cup Range(log[tp])
           \/ \E c \in Calls : /\ Publish(c) /\ x = Batch(c)[next[c]]
                               /\ tp = Destination(x)
<1>1. CASE UNCHANGED <<pending, flight, attempts, log, published>>
  BY <1>1 DEF Undelivered
<1>2. ASSUME NEW c \in Calls, Publish(c), x \notin Undelivered(tp) \cup Range(log[tp])
      PROVE  x = Batch(c)[next[c]] /\ tp = Destination(x)
  <2>1. PICK m : m = Batch(c)[next[c]]
    OBVIOUS
  <2>2. /\ Undelivered(Destination(m))' = Undelivered(Destination(m)) \cup {m}
        /\ \A v \in TopicPartitions \ {Destination(m)} : Undelivered(v)' = Undelivered(v)
        /\ log' = log
    BY <1>2, <2>1, PublishMoves
  <2>. QED BY <1>2, <2>1, <2>2
<1>3. ASSUME NEW u \in TopicPartitions, WriterStep(u)
      PROVE  x \in Undelivered(tp) \cup Range(log[tp])
  <2>1. CASE TakeBatch(u)
    BY <2>1, TakeMoves
  <2>2. CASE WriteAcked(u) \/ WriteFails(u)
    BY <2>2, WriteRanges
  <2>. QED BY <1>3, <2>1, <2>2 DEF WriterStep
<1>4. CASE Crash
  BY <1>4, CrashMoves
<1>. QED BY <1>1, <1>2, <1>3, <1>4, QueueStep

-----------------------------------------------------------------------------
(* No answered message disappears                                          *)

(* What is in a queue or a log has been published by its call. *)
OwnInv ==
    \A tp \in TopicPartitions : \A x \in Undelivered(tp) \cup Range(log[tp]) :
        /\ tp = Destination(x)
        /\ \E c \in Calls : \E k \in 1..next[c] - 1 : x = Batch(c)[k]

(* A message its call has passed is in the Writer, or its end is known. *)
PassedInv ==
    \A c \in Calls : \A k \in 1..next[c] - 1 :
        Batch(c)[k] \in Undelivered(Destination(Batch(c)[k])) \cup Logged \cup reported \cup crashLost

(* A crash takes messages of calls that have returned or that it ends. *)
CrashInv ==
    \A x \in crashLost : \E c \in Calls :
        /\ phase[c] \in {"returned", "lost"}
        /\ \E k \in 1..next[c] - 1 : x = Batch(c)[k]

(* No handler runs once GracefulStop has returned, and the queues are      *)
(* empty once Close has.                                                   *)
ExitInv ==
    /\ main \in {"closing", "exited"} => \A c \in Calls : ~Busy(c)
    /\ main = "exited" => \A tp \in TopicPartitions : pending[tp] = <<>> /\ flight[tp] = <<>>

(* A synchronous producer leaves no message behind but the one its handler *)
(* waits for.                                                              *)
SyncInv ==
    ~async => \A c \in Calls : \A k \in 1..next[c] - 1 :
        \/ Batch(c)[k] \in Logged \cup reported
        \/ phase[c] = "awaiting" /\ k = next[c] - 1
        \/ phase[c] = "lost"

(* How far a call has come after a step. *)
LEMMA NextSteps ==
    ASSUME TypeOK, [Next]_vars, NEW c \in Calls
    PROVE  /\ next'[c] = next[c] \/ (next'[c] = next[c] + 1 /\ (Publish(c) \/ PublishFails(c)))
           /\ next[c] \in Nat /\ next'[c] \in Nat
<1>1. next \in [Calls -> Nat]
  BY DEF TypeOK
<1>2. \/ next' = next
      \/ \E d \in Calls : (Publish(d) \/ PublishFails(d)) /\ next' = [next EXCEPT ![d] = @ + 1]
  BY DEF Next, AgentStep, HandlerStep, WriterStep, Issue, GiveUp, ReceiveResponse, StartHandler,
         Refuse, Publish, PublishFails, WaitEnds, Return, TakeBatch, WriteAcked, WriteFails, Stop,
         CloseProducer, Exit, Crash, Terminated, vars, callVars
<1>. QED BY <1>1, <1>2

LEMMA OwnStep ==
    ASSUME TypeOK, OwnInv, [Next]_vars
    PROVE  OwnInv'
<1>. SUFFICES ASSUME NEW tp \in TopicPartitions, NEW x \in Undelivered(tp)' \cup Range(log'[tp])
              PROVE  /\ tp = Destination(x)
                     /\ \E c \in Calls : \E k \in 1..next'[c] - 1 : x = Batch(c)[k]
  BY DEF OwnInv
<1>1. CASE x \in Undelivered(tp) \cup Range(log[tp])
  <2>. PICK c \in Calls : \E k \in 1..next[c] - 1 : x = Batch(c)[k]
    BY <1>1 DEF OwnInv
  <2>1. PICK k \in 1..next[c] - 1 : x = Batch(c)[k]
    OBVIOUS
  <2>2. k \in 1..next'[c] - 1
    BY NextSteps
  <2>. QED BY <1>1, <2>1, <2>2 DEF OwnInv
<1>2. ASSUME NEW c \in Calls, Publish(c), x = Batch(c)[next[c]], tp = Destination(x)
      PROVE  \E k \in 1..next'[c] - 1 : x = Batch(c)[k]
  <2>1. next'[c] = next[c] + 1 /\ next[c] \in Nat /\ next[c] \in 1..Len(Batch(c))
    BY <1>2, TypeParts, NextMessage DEF Publish, TypeOK
  <2>2. next[c] \in 1..next'[c] - 1
    BY <2>1
  <2>. QED BY <1>2, <2>2
<1>. QED BY <1>1, <1>2, NothingAppears

(* How the phase of a call moves. *)
LEMMA PhaseSteps ==
    ASSUME TypeOK, CallInv, [Next]_vars, NEW c \in Calls
    PROVE  \/ phase'[c] = phase[c]
           \/ phase[c] \in {"idle", "sent"}
           \/ phase[c] = "handling" /\ phase'[c] = "awaiting" /\ Publish(c)
           \/ phase[c] = "handling" /\ phase'[c] = "returned" /\ Return(c)
           \/ phase[c] = "awaiting" /\ phase'[c] = "handling" /\ WaitEnds(c)
           \/ Busy(c) /\ phase'[c] = "lost" /\ Crash
<1>1. phase \in [Calls -> {"idle", "sent", "handling", "awaiting", "returned", "lost"}]
  BY DEF TypeOK
<1>2. CASE UNCHANGED phase
  BY <1>2
<1>3. ASSUME NEW d \in Calls, AgentStep(d) \/ StartHandler(d) \/ Refuse(d) \/ HandlerStep(d)
      PROVE  \/ phase'[c] = phase[c]
             \/ phase[c] \in {"idle", "sent"}
             \/ phase[c] = "handling" /\ phase'[c] = "awaiting" /\ Publish(c)
             \/ phase[c] = "handling" /\ phase'[c] = "returned" /\ Return(c)
             \/ phase[c] = "awaiting" /\ phase'[c] = "handling" /\ WaitEnds(c)
  <2>1. CASE d # c
    BY <1>1, <1>3, <2>1
       DEF AgentStep, Issue, GiveUp, ReceiveResponse, StartHandler, Refuse, HandlerStep, Publish,
           PublishFails, WaitEnds, Return
  <2>2. CASE d = c /\ (AgentStep(d) \/ StartHandler(d) \/ Refuse(d))
    BY <1>1, <2>2
       DEF AgentStep, Issue, GiveUp, ReceiveResponse, StartHandler, Refuse, CallInv
  <2>3. CASE d = c /\ HandlerStep(d)
    <3>1. CASE Publish(c)
      BY <1>1, <3>1 DEF Publish
    <3>2. CASE PublishFails(c)
      BY <3>2 DEF PublishFails
    <3>3. CASE WaitEnds(c)
      BY <1>1, <3>3 DEF WaitEnds
    <3>4. CASE Return(c)
      BY <1>1, <3>4 DEF Return
    <3>. QED BY <2>3, <3>1, <3>2, <3>3, <3>4 DEF HandlerStep
  <2>. QED BY <1>3, <2>1, <2>2, <2>3
<1>4. CASE Crash
  BY <1>1, <1>4 DEF Crash, Busy
<1>. QED
  BY <1>2, <1>3, <1>4
     DEF Next, WriterStep, TakeBatch, WriteAcked, WriteFails, Stop, CloseProducer, Exit,
         Terminated, vars, callVars

LEMMA PassedPlace ==
    ASSUME TypeOK, NEW c \in Calls, NEW k \in 1..next[c] - 1
    PROVE  /\ k \in 1..Len(Batch(c)) /\ Batch(c)[k] \in Message
           /\ Destination(Batch(c)[k]) \in TopicPartitions
<1>1. k \in 1..Len(Batch(c))
  BY BatchLength DEF TypeOK
<1>. QED BY <1>1, BatchElements, DestinationType

LEMMA LoggedStays ==
    ASSUME TypeOK, [Next]_vars
    PROVE  Logged \subseteq Logged'
  BY NothingVanishes DEF Logged

LEMMA PassedStep ==
    ASSUME TypeOK, PassedInv, [Next]_vars
    PROVE  PassedInv'
<1>. SUFFICES ASSUME NEW c \in Calls, NEW k \in 1..next'[c] - 1
              PROVE  (Batch(c)[k] \in Undelivered(Destination(Batch(c)[k])) \cup Logged
                                          \cup reported \cup crashLost)'
  BY DEF PassedInv
<1>. DEFINE x == Batch(c)[k]
<1>1. CASE k \in 1..next[c] - 1
  <2>1. Destination(x) \in TopicPartitions
    BY <1>1, PassedPlace
  <2>2. x \in Undelivered(Destination(x)) \cup Logged \cup reported \cup crashLost
    BY <1>1 DEF PassedInv
  <2>3. /\ Undelivered(Destination(x)) \subseteq
              Undelivered(Destination(x))' \cup Range(log'[Destination(x)]) \cup reported' \cup crashLost'
        /\ reported \subseteq reported' /\ crashLost \subseteq crashLost'
    BY <2>1, NothingVanishes
  <2>4. Range(log'[Destination(x)]) \subseteq Logged'
    BY <2>1 DEF Logged
  <2>5. x \in Undelivered(Destination(x))' \cup Logged' \cup reported' \cup crashLost'
    BY <2>2, <2>3, <2>4, LoggedStays
  <2>. QED BY <2>5
<1>2. CASE k \notin 1..next[c] - 1
  <2>1. k = next[c] /\ (Publish(c) \/ PublishFails(c))
    BY <1>2, NextSteps
  <2>2. CASE Publish(c)
    BY <2>1, <2>2, PublishMoves
  <2>3. CASE PublishFails(c)
    BY <2>1, <2>3 DEF PublishFails
  <2>. QED BY <2>1, <2>2, <2>3
<1>. QED BY <1>1, <1>2

LEMMA CrashStep ==
    ASSUME TypeOK, CallInv, OwnInv, CrashInv, [Next]_vars
    PROVE  CrashInv'
<1>. SUFFICES ASSUME NEW x \in crashLost'
              PROVE  \E c \in Calls : /\ phase'[c] \in {"returned", "lost"}
                                      /\ \E k \in 1..next'[c] - 1 : x = Batch(c)[k]
  BY DEF CrashInv
<1>1. CASE x \in crashLost
  <2>1. PICK c \in Calls : /\ phase[c] \in {"returned", "lost"}
                           /\ \E k \in 1..next[c] - 1 : x = Batch(c)[k]
    BY <1>1 DEF CrashInv
  <2>2. PICK k \in 1..next[c] - 1 : x = Batch(c)[k]
    BY <2>1
  <2>3. phase'[c] = phase[c]
    BY <2>1, PhaseSteps DEF Busy
  <2>4. k \in 1..next'[c] - 1
    BY NextSteps
  <2>. QED BY <2>1, <2>2, <2>3, <2>4
<1>2. CASE x \notin crashLost
  <2>1. Crash
    BY <1>2
       DEF Next, AgentStep, HandlerStep, WriterStep, Issue, GiveUp, ReceiveResponse, StartHandler,
           Refuse, Publish, PublishFails, WaitEnds, Return, TakeBatch, WriteAcked, WriteFails, Stop,
           CloseProducer, Exit, Terminated, vars, history
  <2>2. PICK tp \in TopicPartitions : x \in Undelivered(tp)
    BY <1>2, <2>1, CrashMoves
  <2>3. PICK c \in Calls : \E k \in 1..next[c] - 1 : x = Batch(c)[k]
    BY <2>2 DEF OwnInv
  <2>4. phase[c] \notin {"idle", "sent"}
    BY <2>3 DEF CallInv
  <2>5. phase'[c] \in {"returned", "lost"} /\ next' = next
    BY <2>1, <2>4 DEF Crash, Busy, TypeOK
  <2>. QED BY <2>3, <2>5
<1>. QED BY <1>1, <1>2

LEMMA EmptyQueue ==
    ASSUME TypeOK, NEW tp \in TopicPartitions
    PROVE  Undelivered(tp) = {} <=> pending[tp] = <<>> /\ flight[tp] = <<>>
<1>1. pending[tp] \in Seq(Message) /\ flight[tp] \in Seq(Message)
  BY DEF TypeOK
<1>2. \A s \in Seq(Message) : Range(s) = {} <=> s = <<>>
  <2>. TAKE s \in Seq(Message)
  <2>1. s # <<>> => s[1] \in Range(s)
    BY LenProperties, EmptySeq DEF Range
  <2>. QED BY <2>1, RangeEmpty
<1>. QED BY <1>1, <1>2 DEF Undelivered

LEMMA ExitStep ==
    ASSUME TypeOK, CallInv, ExitInv, [Next]_vars
    PROVE  ExitInv'
<1>. USE DEF ExitInv
<1>1. phase \in [Calls -> {"idle", "sent", "handling", "awaiting", "returned", "lost"}]
  BY DEF TypeOK
<1>2. CASE main' \notin {"closing", "exited"}
  BY <1>2
<1>3. CASE main' \in {"closing", "exited"} /\ main' # main
  <2>1. \/ CloseProducer
        \/ Exit
    BY <1>3
       DEF Next, AgentStep, HandlerStep, WriterStep, Issue, GiveUp, ReceiveResponse, StartHandler,
           Refuse, Publish, PublishFails, WaitEnds, Return, TakeBatch, WriteAcked, WriteFails, Stop,
           Crash, Terminated, vars, processVars
  <2>2. CASE CloseProducer
    BY <2>2 DEF CloseProducer, callVars, Busy
  <2>3. CASE Exit
    <3>1. \A tp \in TopicPartitions : pending[tp] = <<>> /\ flight[tp] = <<>>
      BY <2>3, EmptyQueue DEF Exit
    <3>. QED BY <2>3, <3>1 DEF Exit, callVars, writerVars, Busy
  <2>. QED BY <2>1, <2>2, <2>3
<1>4. CASE main \in {"closing", "exited"} /\ main' = main
  <2>1. \A c \in Calls : ~Busy(c)
    BY <1>4
  <2>2. ~Crash /\ \A c \in Calls : ~StartHandler(c) /\ ~HandlerStep(c)
    BY <1>4, <2>1
       DEF Crash, StartHandler, HandlerStep, Publish, PublishFails, WaitEnds, Return, Busy
  <2>3. \A c \in Calls : ~Busy(c)'
    BY <1>1, <2>1, <2>2
       DEF Next, AgentStep, WriterStep, Issue, GiveUp, ReceiveResponse, Refuse, TakeBatch, WriteAcked,
           WriteFails, Stop, CloseProducer, Exit, Terminated, vars, callVars, Busy
  <2>4. ASSUME main = "exited", NEW tp \in TopicPartitions
        PROVE  pending'[tp] = <<>> /\ flight'[tp] = <<>>
    <3>1. \A u \in TopicPartitions : Len(pending[u]) = 0 /\ flight[u] = <<>>
      BY <2>4, EmptySeq
    <3>2. \A u \in TopicPartitions : ~TakeBatch(u)
      <4>1. \A k \in 1..Min({KafkaBatchSize, 0}) : k \in 1..0
        BY TakenNumber
      <4>2. 1..Min({KafkaBatchSize, 0}) = {}
        <5>1. \A k \in 1..0 : FALSE
          OBVIOUS
        <5>. QED BY <4>1, <5>1
      <4>3. \A u \in TopicPartitions : 1..Min({KafkaBatchSize, Len(pending[u])}) = {}
        BY <3>1, <4>2
      <4>. QED BY <4>3 DEF TakeBatch
    <3>3. \A u \in TopicPartitions : ~WriterStep(u)
      BY <3>1, <3>2 DEF WriterStep, WriteAcked, WriteFails
    <3>4. UNCHANGED <<pending, flight>>
      BY <2>2, <3>3, QueueStep DEF HandlerStep
    <3>. QED BY <2>4, <3>4
  <2>. QED BY <1>4, <2>3, <2>4
<1>. QED BY <1>2, <1>3, <1>4

LEMMA SyncStep ==
    ASSUME TypeOK, CallInv, PassedInv, CrashInv, SyncInv, [Next]_vars
    PROVE  SyncInv'
<1>1. async' = async
  BY DEF Next, AgentStep, HandlerStep, WriterStep, Issue, GiveUp, ReceiveResponse, StartHandler,
         Refuse, Publish, PublishFails, WaitEnds, Return, TakeBatch, WriteAcked, WriteFails, Stop,
         CloseProducer, Exit, Crash, Terminated, vars, processVars
<1>2. Logged \cup reported \subseteq (Logged \cup reported)'
  <2>1. reported \subseteq reported'
    BY HistoryGrows
  <2>. QED BY <2>1, LoggedStays
<1>. SUFFICES ASSUME ~async, NEW c \in Calls, NEW k \in 1..next'[c] - 1
              PROVE  (\/ Batch(c)[k] \in Logged \cup reported
                      \/ phase[c] = "awaiting" /\ k = next[c] - 1
                      \/ phase[c] = "lost")'
  BY <1>1 DEF SyncInv
<1>3. CASE k \notin 1..next[c] - 1
  <2>1. k = next[c] /\ next'[c] = next[c] + 1 /\ (Publish(c) \/ PublishFails(c))
    BY <1>3, NextSteps
  <2>2. CASE Publish(c)
    BY <2>1, <2>2 DEF Publish, TypeOK
  <2>3. CASE PublishFails(c)
    BY <2>1, <2>3 DEF PublishFails
  <2>. QED BY <2>1, <2>2, <2>3
<1>4. CASE k \in 1..next[c] - 1 /\ Batch(c)[k] \in Logged \cup reported
  BY <1>2, <1>4
<1>5. CASE k \in 1..next[c] - 1 /\ phase[c] = "lost"
  BY <1>5, PhaseSteps DEF Busy
<1>6. CASE /\ k \in 1..next[c] - 1 /\ Batch(c)[k] \notin Logged \cup reported
           /\ phase[c] = "awaiting" /\ k = next[c] - 1
  <2>1. CASE phase'[c] = phase[c]
    <3>1. next'[c] = next[c]
      BY <1>6, NextSteps DEF Publish, PublishFails
    <3>. QED BY <1>6, <2>1, <3>1
  <2>2. CASE phase'[c] = "lost"
    BY <2>2
  <2>3. CASE WaitEnds(c)
    <3>. DEFINE x == Batch(c)[k]
    <3>1. CASE x \in Undelivered(Destination(x))
      BY <1>6, <2>3, <3>1 DEF WaitEnds
    <3>2. CASE x \notin Undelivered(Destination(x))
      <4>1. x \in crashLost
        BY <1>6, <3>2 DEF PassedInv
      <4>2. PICK d \in Calls : /\ phase[d] \in {"returned", "lost"}
                               /\ \E j \in 1..next[d] - 1 : x = Batch(d)[j]
        BY <4>1 DEF CrashInv
      <4>3. PICK j \in 1..next[d] - 1 : x = Batch(d)[j]
        BY <4>2
      <4>4. k \in 1..Len(Batch(c)) /\ j \in 1..Len(Batch(d))
        BY <1>6, PassedPlace
      <4>5. d = c
        BY <4>3, <4>4, BatchInjective
      <4>. QED BY <1>6, <4>2, <4>5
    <3>. QED BY <3>1, <3>2
  <2>. QED BY <1>6, <2>1, <2>2, <2>3, PhaseSteps
<1>. QED BY <1>3, <1>4, <1>5, <1>6 DEF SyncInv

-----------------------------------------------------------------------------
(* Duplicates                                                              *)

NoRepeats(s) == \A i, j \in DOMAIN s : s[i] = s[j] => i = j

Copies(s, x) == {i \in DOMAIN s : s[i] = x}

(* A message waits in at most one place of the Writer.  One that waits in  *)
(* its queue is not logged yet, one being written was logged at most once  *)
(* by each try.                                                            *)
RepeatInv ==
    \A tp \in TopicPartitions :
        /\ NoRepeats(pending[tp]) /\ NoRepeats(flight[tp])
        /\ \A x \in Range(pending[tp]) : x \notin Range(flight[tp]) /\ x \notin Range(log[tp])
        /\ \A x \in Range(flight[tp]) : Cardinality(Copies(log[tp], x)) <= attempts[tp]
        /\ \A x : Cardinality(Copies(log[tp], x)) <= MaxAttempts

LEMMA CopiesFinite ==
    ASSUME NEW s \in Seq(Message), NEW x
    PROVE  /\ IsFiniteSet(Copies(s, x)) /\ Cardinality(Copies(s, x)) \in Nat
           /\ x \notin Range(s) => Cardinality(Copies(s, x)) = 0
<1>1. Copies(s, x) \subseteq 1..Len(s) /\ Len(s) \in Nat
  BY LenProperties DEF Copies
<1>2. IsFiniteSet(1..Len(s))
  BY <1>1, FS_Interval
<1>3. IsFiniteSet(Copies(s, x))
  BY <1>1, <1>2, FS_Subset
<1>4. x \notin Range(s) => Copies(s, x) = {}
  BY DEF Copies, Range
<1>. QED BY <1>3, <1>4, FS_CardinalityType, FS_EmptySet

(* A batch without repeats adds one copy of each of its messages. *)
LEMMA CopiesConcat ==
    ASSUME NEW s \in Seq(Message), NEW t \in Seq(Message), NoRepeats(t), NEW x
    PROVE  /\ x \in Range(t) => Cardinality(Copies(s \o t, x)) = Cardinality(Copies(s, x)) + 1
           /\ x \notin Range(t) => Copies(s \o t, x) = Copies(s, x)
<1>1. /\ Len(s) \in Nat /\ DOMAIN s = 1..Len(s) /\ Len(t) \in Nat /\ DOMAIN t = 1..Len(t)
      /\ DOMAIN (s \o t) = 1..Len(s) + Len(t)
      /\ \A i \in 1..Len(s) : (s \o t)[i] = s[i]
      /\ \A i \in Len(s) + 1..Len(s) + Len(t) : (s \o t)[i] = t[i - Len(s)]
  BY ConcatProperties, LenProperties
<1>2. Copies(s, x) \subseteq Copies(s \o t, x)
  <2>1. \A i \in 1..Len(s) : i \in 1..Len(s) + Len(t)
    BY <1>1
  <2>. QED BY <1>1, <2>1 DEF Copies
<1>3. ASSUME NEW i \in Copies(s \o t, x), i \notin Copies(s, x)
      PROVE  /\ i \in Nat /\ i > Len(s)
             /\ i - Len(s) \in DOMAIN t /\ t[i - Len(s)] = x
  <2>1. i \in 1..Len(s) + Len(t) /\ (s \o t)[i] = x
    BY <1>1, <1>3 DEF Copies
  <2>2. i > Len(s)
    <3>1. CASE i <= Len(s)
      <4>1. i \in 1..Len(s)
        BY <1>1, <2>1, <3>1
      <4>2. s[i] = x
        BY <1>1, <2>1, <4>1
      <4>. QED BY <1>1, <1>3, <4>1, <4>2 DEF Copies
    <3>. QED BY <1>1, <2>1, <3>1
  <2>3. i \in Len(s) + 1..Len(s) + Len(t) /\ i - Len(s) \in 1..Len(t)
    BY <1>1, <2>1, <2>2
  <2>. QED BY <1>1, <2>1, <2>2, <2>3
<1>4. x \notin Range(t) => Copies(s \o t, x) = Copies(s, x)
  BY <1>2, <1>3 DEF Range
<1>5. ASSUME x \in Range(t)
      PROVE  Cardinality(Copies(s \o t, x)) = Cardinality(Copies(s, x)) + 1
  <2>1. PICK j \in 1..Len(t) : t[j] = x
    BY <1>1, <1>5 DEF Range
  <2>2. Len(s) + j \in Len(s) + 1..Len(s) + Len(t) /\ (Len(s) + j) - Len(s) = j
        /\ Len(s) + j \in 1..Len(s) + Len(t) /\ Len(s) + j \notin 1..Len(s)
    BY <1>1
  <2>3. (s \o t)[Len(s) + j] = x
    BY <1>1, <2>1, <2>2
  <2>4. Len(s) + j \in Copies(s \o t, x) /\ Len(s) + j \notin Copies(s, x)
    BY <1>1, <2>2, <2>3 DEF Copies
  <2>5. ASSUME NEW i \in Copies(s \o t, x), i \notin Copies(s, x)
        PROVE  i = Len(s) + j
    <3>1. i \in Nat /\ i - Len(s) \in DOMAIN t /\ t[i - Len(s)] = x
      BY <1>3, <2>5
    <3>2. i - Len(s) = j
      BY <1>1, <2>1, <3>1 DEF NoRepeats
    <3>. QED BY <1>1, <3>1, <3>2
  <2>6. Copies(s \o t, x) = Copies(s, x) \cup {Len(s) + j}
    BY <1>2, <2>4, <2>5
  <2>. QED BY <2>4, <2>6, CopiesFinite, FS_AddElement
<1>. QED BY <1>4, <1>5

(* The two parts of a queue without repeats have none and share nothing. *)
LEMMA TakenApart ==
    ASSUME NEW s \in Seq(Message), NoRepeats(s), NEW k \in 1..Len(s)
    PROVE  /\ NoRepeats(SubSeq(s, 1, k)) /\ NoRepeats(SubSeq(s, k + 1, Len(s)))
           /\ \A x \in Range(SubSeq(s, k + 1, Len(s))) : x \notin Range(SubSeq(s, 1, k))
<1>. DEFINE a == SubSeq(s, 1, k)
            b == SubSeq(s, k + 1, Len(s))
<1>1. /\ a \in Seq(Message) /\ Len(a) = k /\ b \in Seq(Message) /\ Len(b) = Len(s) - k
      /\ \A i \in 1..k : a[i] = s[i]
      /\ \A i \in 1..Len(s) - k : b[i] = s[k + i]
  BY TakenParts
<1>2. /\ DOMAIN s = 1..Len(s) /\ Len(s) \in Nat
      /\ DOMAIN a = 1..k /\ DOMAIN b = 1..Len(s) - k
  BY <1>1, LenProperties
<1>. HIDE DEF a, b
<1>3. NoRepeats(a)
  <2>1. \A i \in 1..k : i \in 1..Len(s)
    BY <1>2
  <2>. QED BY <1>1, <1>2, <2>1 DEF NoRepeats
<1>4. NoRepeats(b)
  <2>. SUFFICES ASSUME NEW i \in 1..Len(s) - k, NEW j \in 1..Len(s) - k, b[i] = b[j]
                PROVE  i = j
    BY <1>2 DEF NoRepeats
  <2>1. k + i \in 1..Len(s) /\ k + j \in 1..Len(s) /\ s[k + i] = s[k + j]
    BY <1>1, <1>2
  <2>2. k + i = k + j
    BY <1>2, <2>1 DEF NoRepeats
  <2>. QED BY <1>2, <2>2
<1>5. \A x \in Range(b) : x \notin Range(a)
  <2>. SUFFICES ASSUME NEW i \in 1..Len(s) - k, NEW j \in 1..k, b[i] = a[j]
                PROVE  FALSE
    BY <1>2 DEF Range
  <2>1. k + i \in 1..Len(s) /\ j \in 1..Len(s) /\ s[k + i] = s[j]
    BY <1>1, <1>2
  <2>2. k + i = j
    BY <1>2, <2>1 DEF NoRepeats
  <2>. QED BY <1>2, <2>2
<1>. QED BY <1>3, <1>4, <1>5 DEF a, b

(* A message that is published is new to the Writer and to the logs. *)
LEMMA PublishedIsNew ==
    ASSUME TypeOK, OwnInv, NEW c \in Calls, NEW m, m = Batch(c)[next[c]], Publish(c),
           NEW tp \in TopicPartitions
    PROVE  m \notin Undelivered(tp) \cup Range(log[tp])
<1>. SUFFICES ASSUME m \in Undelivered(tp) \cup Range(log[tp])
              PROVE  FALSE
  OBVIOUS
<1>1. PICK d \in Calls : \E k \in 1..next[d] - 1 : m = Batch(d)[k]
  BY DEF OwnInv
<1>2. PICK k \in 1..next[d] - 1 : m = Batch(d)[k]
  BY <1>1
<1>3. k \in 1..Len(Batch(d)) /\ next[c] \in 1..Len(Batch(c))
  BY PassedPlace, NextMessage, TypeParts DEF Publish
<1>4. d = c /\ k = next[c]
  BY <1>2, <1>3, BatchInjective
<1>. QED BY <1>3, <1>4

LEMMA RepeatStep ==
    ASSUME TypeOK, OwnInv, RepeatInv, [Next]_vars
    PROVE  RepeatInv'
<1>. USE DEF RepeatInv
<1>0. \A tp \in TopicPartitions :
        /\ pending[tp] \in Seq(Message) /\ flight[tp] \in Seq(Message) /\ log[tp] \in Seq(Message)
        /\ attempts[tp] \in 0..MaxAttempts - 1
  BY DEF TypeOK
<1>1. CASE UNCHANGED <<pending, flight, attempts, log, published>>
  BY <1>1
<1>2. ASSUME NEW c \in Calls, Publish(c)
      PROVE  RepeatInv'
  <2>1. PICK m : m = Batch(c)[next[c]]
    OBVIOUS
  <2>2. /\ m \in Message /\ Destination(m) \in TopicPartitions
        /\ UNCHANGED <<flight, attempts, log>>
    BY <1>2, <2>1, PublishMoves
  <2>3. pending' = [pending EXCEPT ![Destination(m)] = Append(@, m)]
    BY <1>2, <2>1 DEF Publish
  <2>4. \A tp \in TopicPartitions \ {Destination(m)} : pending'[tp] = pending[tp]
    BY <2>3 DEF TypeOK
  <2>5. pending'[Destination(m)] = Append(pending[Destination(m)], m)
    BY <2>2, <2>3 DEF TypeOK
  <2>6. PICK s \in Seq(Message) : s = pending[Destination(m)]
    BY <1>0, <2>2
  <2>7. /\ m \notin Range(s) /\ m \notin Range(flight[Destination(m)])
        /\ m \notin Range(log[Destination(m)])
    BY <1>2, <2>1, <2>2, <2>6, PublishedIsNew DEF Undelivered
  <2>8. NoRepeats(Append(s, m)) /\ Range(Append(s, m)) = Range(s) \cup {m}
    <3>1. /\ Len(s) \in Nat /\ DOMAIN s = 1..Len(s) /\ DOMAIN Append(s, m) = 1..Len(s) + 1
          /\ \A i \in 1..Len(s) : Append(s, m)[i] = s[i]
          /\ Append(s, m)[Len(s) + 1] = m
      BY <2>2, AppendProperties, LenProperties
    <3>2. NoRepeats(s) /\ \A i \in 1..Len(s) : s[i] # m
      BY <2>2, <2>6, <2>7, <3>1 DEF Range
    <3>3. NoRepeats(Append(s, m))
      BY <3>1, <3>2 DEF NoRepeats
    <3>. QED BY <2>2, <3>3, RangeAppend
  <2>. QED BY <2>2, <2>4, <2>5, <2>6, <2>7, <2>8
<1>3. ASSUME NEW u \in TopicPartitions, TakeBatch(u)
      PROVE  RepeatInv'
  <2>1. /\ \A tp \in TopicPartitions \ {u} : UNCHANGED <<pending[tp], flight[tp]>>
        /\ flight[u] = <<>> /\ UNCHANGED <<attempts, log>>
    BY <1>3, TakeMoves
  <2>2. PICK k \in 1..Len(pending[u]) :
           /\ flight'[u] = SubSeq(pending[u], 1, k)
           /\ pending'[u] = SubSeq(pending[u], k + 1, Len(pending[u]))
    BY <1>3, TakeMoves
  <2>3. Range(pending[u]) = Range(flight'[u]) \cup Range(pending'[u])
    BY <1>0, <2>2, RangeTaken
  <2>4. /\ NoRepeats(flight'[u]) /\ NoRepeats(pending'[u])
        /\ \A x \in Range(pending'[u]) : x \notin Range(flight'[u])
    BY <1>0, <2>2, TakenApart
  <2>5. \A x \in Range(pending[u]) : Cardinality(Copies(log[u], x)) = 0
    BY <1>0, CopiesFinite
  <2>6. \A x \in Range(flight'[u]) : Cardinality(Copies(log[u], x)) <= attempts[u]
    BY <1>0, <2>3, <2>5
  <2>. QED BY <2>1, <2>3, <2>4, <2>6
<1>4. ASSUME NEW u \in TopicPartitions, WriteAcked(u) \/ WriteFails(u)
      PROVE  RepeatInv'
  <2>1. /\ flight'[u] = flight[u] \/ flight'[u] = <<>>
        /\ log'[u] = log[u] \/ log'[u] = log[u] \o flight[u]
        /\ \A tp \in TopicPartitions \ {u} : UNCHANGED <<flight[tp], log[tp], attempts[tp]>>
        /\ flight'[u] = flight[u] => attempts'[u] = attempts[u] + 1
        /\ pending' = pending
    BY <1>4, WriteMoves
  <2>2. NoRepeats(flight[u])
    OBVIOUS
  <2>3. \A x : /\ x \in Range(flight[u]) =>
                     Cardinality(Copies(log[u] \o flight[u], x)) = Cardinality(Copies(log[u], x)) + 1
               /\ x \notin Range(flight[u]) => Copies(log[u] \o flight[u], x) = Copies(log[u], x)
    BY <1>0, <2>2, CopiesConcat
  <2>4. \A x : Cardinality(Copies(log[u], x)) \in Nat
    BY <1>0, CopiesFinite
  <2>5. \A x \in Range(flight[u]) : /\ Cardinality(Copies(log'[u], x)) <= attempts[u] + 1
                                    /\ Cardinality(Copies(log'[u], x)) \in Nat
    <3>. TAKE x \in Range(flight[u])
    <3>1. Cardinality(Copies(log[u], x)) <= attempts[u] /\ Cardinality(Copies(log[u], x)) \in Nat
      BY <2>4
    <3>2. attempts[u] \in Nat
      BY <1>0, CollectorConstants
    <3>3. Cardinality(Copies(log[u] \o flight[u], x)) = Cardinality(Copies(log[u], x)) + 1
      BY <2>3
    <3>4. CASE log'[u] = log[u]
      BY <3>1, <3>2, <3>4
    <3>5. CASE log'[u] = log[u] \o flight[u]
      BY <3>1, <3>2, <3>3, <3>5
    <3>. QED BY <2>1, <3>4, <3>5
  <2>6. \A x : Cardinality(Copies(log'[u], x)) <= MaxAttempts
    <3>. TAKE x
    <3>1. CASE x \in Range(flight[u])
      <4>1. Cardinality(Copies(log'[u], x)) \in Nat
        BY <2>5, <3>1
      <4>2. attempts[u] + 1 <= MaxAttempts /\ attempts[u] \in Nat
        BY <1>0, CollectorConstants
      <4>. QED BY <2>5, <3>1, <4>1, <4>2, CollectorConstants
    <3>2. CASE x \notin Range(flight[u])
      BY <2>1, <2>3, <3>2
    <3>. QED BY <3>1, <3>2
  <2>7. \A x \in Range(pending[u]) : x \notin Range(log'[u]) /\ x \notin Range(flight'[u])
    <3>1. Range(log[u] \o flight[u]) = Range(log[u]) \cup Range(flight[u])
      BY <1>0, RangeConcat
    <3>. QED BY <2>1, <3>1, RangeEmpty
  <2>8. NoRepeats(flight'[u])
    <3>1. NoRepeats(<<>>)
      BY DEF NoRepeats
    <3>. QED BY <2>1, <2>2, <3>1
  <2>9. \A x \in Range(flight'[u]) : Cardinality(Copies(log'[u], x)) <= attempts'[u]
    BY <2>1, <2>5, RangeEmpty
  <2>. QED BY <2>1, <2>6, <2>7, <2>8, <2>9
<1>5. CASE Crash
  <2>1. /\ \A tp \in TopicPartitions : pending'[tp] = <<>> /\ flight'[tp] = <<>>
        /\ log' = log
    BY <1>5 DEF Crash
  <2>2. NoRepeats(<<>>)
    BY DEF NoRepeats
  <2>. QED BY <2>1, <2>2, RangeEmpty
<1>. QED BY <1>1, <1>2, <1>3, <1>4, <1>5, QueueStep DEF WriterStep

-----------------------------------------------------------------------------
(* The order of the logs                                                   *)

LEMMA LeastNumber ==
    ASSUME NEW T, T \subseteq Nat, T # {}
    PROVE  Min(T) \in T /\ \A y \in T : Min(T) <= y
<1>1. PICK x \in T : \A y \in T : ~(<<y, x>> \in OpToRel(<, Nat))
  BY NatLessThanWellFounded, WFMin, Zenon
<1>2. \A y \in T : ~(y < x)
  BY <1>1, Zenon DEF OpToRel
<1>3. \E z \in T : \A y \in T : z <= y
  BY <1>2
<1>. QED BY <1>3 DEF Min

First(s, x) == Min({i \in DOMAIN s : s[i] = x})

LEMMA FirstFacts ==
    ASSUME NEW s \in Seq(Message), NEW x \in Range(s)
    PROVE  /\ First(s, x) \in 1..Len(s) /\ s[First(s, x)] = x
           /\ \A i \in DOMAIN s : s[i] = x => First(s, x) <= i
<1>. DEFINE T == {i \in DOMAIN s : s[i] = x}
<1>1. DOMAIN s = 1..Len(s) /\ Len(s) \in Nat
  BY LenProperties
<1>2. T \subseteq Nat /\ T # {}
  BY <1>1 DEF Range
<1>3. Min(T) \in T /\ \A y \in T : Min(T) <= y
  <2>. HIDE DEF T
  <2>. QED BY <1>2, LeastNumber
<1>. QED BY <1>1, <1>3 DEF First

(* A message that is in the log keeps its first offset when a batch is     *)
(* appended; one that is new gets the one of its place in the batch.       *)
LEMMA FirstConcat ==
    ASSUME NEW s \in Seq(Message), NEW t \in Seq(Message), NEW x
    PROVE  /\ x \in Range(s) => First(s \o t, x) = First(s, x)
           /\ x \notin Range(s) /\ x \in Range(t) => First(s \o t, x) = Len(s) + First(t, x)
<1>1. /\ Len(s) \in Nat /\ DOMAIN s = 1..Len(s) /\ Len(t) \in Nat /\ DOMAIN t = 1..Len(t)
      /\ s \o t \in Seq(Message) /\ DOMAIN (s \o t) = 1..Len(s) + Len(t)
      /\ Len(s \o t) = Len(s) + Len(t)
      /\ \A i \in 1..Len(s) : (s \o t)[i] = s[i]
      /\ \A i \in Len(s) + 1..Len(s) + Len(t) : (s \o t)[i] = t[i - Len(s)]
  BY ConcatProperties, LenProperties
<1>2. Range(s \o t) = Range(s) \cup Range(t)
  BY RangeConcat
<1>3. ASSUME x \in Range(s)
      PROVE  First(s \o t, x) = First(s, x)
  <2>1. /\ First(s, x) \in 1..Len(s) /\ s[First(s, x)] = x
        /\ \A i \in DOMAIN s : s[i] = x => First(s, x) <= i
    BY <1>3, FirstFacts
  <2>2. /\ First(s \o t, x) \in 1..Len(s) + Len(t) /\ (s \o t)[First(s \o t, x)] = x
        /\ \A i \in 1..Len(s) + Len(t) : (s \o t)[i] = x => First(s \o t, x) <= i
    BY <1>1, <1>2, <1>3, FirstFacts
  <2>3. First(s, x) \in 1..Len(s) + Len(t) /\ (s \o t)[First(s, x)] = x
    BY <1>1, <2>1
  <2>4. First(s \o t, x) <= First(s, x)
    BY <2>2, <2>3
  <2>5. First(s \o t, x) \in 1..Len(s)
    BY <1>1, <2>1, <2>2, <2>4
  <2>6. s[First(s \o t, x)] = x
    BY <1>1, <2>2, <2>5
  <2>7. First(s, x) <= First(s \o t, x)
    BY <1>1, <2>1, <2>5, <2>6
  <2>. QED BY <1>1, <2>1, <2>4, <2>5, <2>7
<1>4. ASSUME x \notin Range(s), x \in Range(t)
      PROVE  First(s \o t, x) = Len(s) + First(t, x)
  <2>1. /\ First(t, x) \in 1..Len(t) /\ t[First(t, x)] = x
        /\ \A i \in DOMAIN t : t[i] = x => First(t, x) <= i
    BY <1>4, FirstFacts
  <2>2. /\ First(s \o t, x) \in 1..Len(s) + Len(t) /\ (s \o t)[First(s \o t, x)] = x
        /\ \A i \in 1..Len(s) + Len(t) : (s \o t)[i] = x => First(s \o t, x) <= i
    BY <1>1, <1>2, <1>4, FirstFacts
  <2>3. PICK f \in 1..Len(s) + Len(t) : f = First(s \o t, x)
    BY <2>2
  <2>4. PICK g \in 1..Len(t) : g = First(t, x)
    BY <2>1
  <2>5. Len(s) + g \in Len(s) + 1..Len(s) + Len(t) /\ (Len(s) + g) - Len(s) = g
        /\ Len(s) + g \in 1..Len(s) + Len(t)
    BY <1>1
  <2>6. (s \o t)[Len(s) + g] = x
    BY <1>1, <2>1, <2>4, <2>5
  <2>7. f <= Len(s) + g
    BY <2>2, <2>3, <2>5, <2>6
  <2>8. f > Len(s)
    <3>1. CASE f <= Len(s)
      <4>1. f \in 1..Len(s) /\ s[f] = x
        BY <1>1, <2>2, <2>3, <3>1
      <4>. QED BY <1>1, <1>4, <4>1 DEF Range
    <3>. QED BY <1>1, <3>1
  <2>9. f \in Len(s) + 1..Len(s) + Len(t) /\ f - Len(s) \in 1..Len(t)
    BY <1>1, <2>8
  <2>10. t[f - Len(s)] = x
    BY <1>1, <2>2, <2>3, <2>9
  <2>11. g <= f - Len(s)
    BY <1>1, <2>1, <2>4, <2>9, <2>10
  <2>12. f = Len(s) + g
    BY <1>1, <2>7, <2>9, <2>11
  <2>. QED BY <2>3, <2>4, <2>12
<1>. QED BY <1>3, <1>4

(* x precedes y in s. *)
Earlier(s, x, y) == \E i, j \in DOMAIN s : i < j /\ s[i] = x /\ s[j] = y

InOrder(p, s) == \A i, j \in DOMAIN s : i < j => Earlier(p, s[i], s[j])

(* The stages of the Writer for one partition keep the order p in which    *)
(* its messages were published: q is its queue, f the batch being written  *)
(* (which an earlier try may have logged) and l the log.                   *)
OrderKept(p, q, f, l) ==
    /\ NoRepeats(p)
    /\ Range(q) \cup Range(f) \cup Range(l) \subseteq Range(p)
    /\ InOrder(p, q) /\ InOrder(p, f)
    /\ \A x \in Range(f), y \in Range(q) : Earlier(p, x, y)
    /\ \A x \in Range(l), y \in Range(f) \cup Range(q) : y \notin Range(l) => Earlier(p, x, y)
    /\ \A x, y \in Range(l) : Earlier(p, x, y) => First(l, x) < First(l, y)

LEMMA EarlierFacts ==
    ASSUME NEW p \in Seq(Message), NoRepeats(p), NEW x, NEW y, Earlier(p, x, y)
    PROVE  ~Earlier(p, y, x)
<1>1. DOMAIN p \subseteq Nat
  BY LenProperties
<1>. QED BY <1>1 DEF Earlier, NoRepeats

LEMMA EarlierAppend ==
    ASSUME NEW p \in Seq(Message), NEW m \in Message, m \notin Range(p), NEW x, NEW y
    PROVE  /\ Earlier(p, x, y) => Earlier(Append(p, m), x, y)
           /\ x \in Range(p) => Earlier(Append(p, m), x, m)
           /\ y \in Range(p) /\ Earlier(Append(p, m), x, y) => Earlier(p, x, y)
<1>1. /\ Len(p) \in Nat /\ DOMAIN p = 1..Len(p) /\ DOMAIN Append(p, m) = 1..Len(p) + 1
      /\ \A i \in 1..Len(p) : Append(p, m)[i] = p[i]
      /\ Append(p, m)[Len(p) + 1] = m
  BY AppendProperties, LenProperties
<1>2. \A i \in 1..Len(p) : i \in 1..Len(p) + 1 /\ i < Len(p) + 1
  BY <1>1
<1>3. Earlier(p, x, y) => Earlier(Append(p, m), x, y)
  BY <1>1, <1>2 DEF Earlier
<1>4. ASSUME x \in Range(p)
      PROVE  Earlier(Append(p, m), x, m)
  <2>1. PICK i \in 1..Len(p) : p[i] = x
    BY <1>1, <1>4 DEF Range
  <2>2. Len(p) + 1 \in 1..Len(p) + 1
    BY <1>1
  <2>. QED BY <1>1, <1>2, <2>1, <2>2 DEF Earlier
<1>5. ASSUME y \in Range(p), Earlier(Append(p, m), x, y)
      PROVE  Earlier(p, x, y)
  <2>1. PICK i \in 1..Len(p) + 1 : \E j \in 1..Len(p) + 1 :
           i < j /\ Append(p, m)[i] = x /\ Append(p, m)[j] = y
    BY <1>1, <1>5 DEF Earlier
  <2>2. PICK j \in 1..Len(p) + 1 : i < j /\ Append(p, m)[i] = x /\ Append(p, m)[j] = y
    BY <2>1
  <2>3. j # Len(p) + 1
    BY <1>1, <1>5, <2>2
  <2>4. j \in 1..Len(p) /\ i \in 1..Len(p)
    BY <1>1, <2>2, <2>3
  <2>. QED BY <1>1, <2>2, <2>4 DEF Earlier
<1>. QED BY <1>3, <1>4, <1>5

LEMMA AppendApart ==
    ASSUME NEW s \in Seq(Message), NoRepeats(s), NEW m \in Message, m \notin Range(s)
    PROVE  NoRepeats(Append(s, m))
<1>1. /\ Len(s) \in Nat /\ DOMAIN s = 1..Len(s) /\ DOMAIN Append(s, m) = 1..Len(s) + 1
      /\ \A i \in 1..Len(s) : Append(s, m)[i] = s[i]
      /\ Append(s, m)[Len(s) + 1] = m
  BY AppendProperties, LenProperties
<1>2. \A i \in 1..Len(s) : s[i] # m
  BY <1>1 DEF Range
<1>. QED BY <1>1, <1>2 DEF NoRepeats

LEMMA OrderPublish ==
    ASSUME NEW p \in Seq(Message), NEW q \in Seq(Message), NEW f \in Seq(Message),
           NEW l \in Seq(Message), OrderKept(p, q, f, l),
           NEW m \in Message, m \notin Range(p)
    PROVE  OrderKept(Append(p, m), Append(q, m), f, l)
<1>. USE DEF OrderKept
<1>1. /\ Range(Append(p, m)) = Range(p) \cup {m} /\ Range(Append(q, m)) = Range(q) \cup {m}
      /\ NoRepeats(Append(p, m))
  BY RangeAppend, AppendApart
<1>2. \A x, y : Earlier(p, x, y) => Earlier(Append(p, m), x, y)
  BY EarlierAppend
<1>3. \A x \in Range(p) : Earlier(Append(p, m), x, m)
  BY EarlierAppend
<1>4. \A x : \A y \in Range(p) : Earlier(Append(p, m), x, y) => Earlier(p, x, y)
  BY EarlierAppend
<1>5. InOrder(Append(p, m), Append(q, m))
  <2>1. /\ Len(q) \in Nat /\ DOMAIN q = 1..Len(q) /\ DOMAIN Append(q, m) = 1..Len(q) + 1
        /\ \A i \in 1..Len(q) : Append(q, m)[i] = q[i]
        /\ Append(q, m)[Len(q) + 1] = m
    BY AppendProperties, LenProperties
  <2>. SUFFICES ASSUME NEW i \in 1..Len(q) + 1, NEW j \in 1..Len(q) + 1, i < j
                PROVE  Earlier(Append(p, m), Append(q, m)[i], Append(q, m)[j])
    BY <2>1 DEF InOrder
  <2>2. i \in 1..Len(q) /\ (j = Len(q) + 1 \/ j \in 1..Len(q))
    BY <2>1
  <2>5. Append(q, m)[i] = q[i] /\ q[i] \in Range(q)
    BY <2>1, <2>2 DEF Range
  <2>3. CASE j = Len(q) + 1
    BY <1>3, <2>1, <2>3, <2>5
  <2>4. CASE j \in 1..Len(q)
    BY <1>2, <2>1, <2>2, <2>4, <2>5 DEF InOrder
  <2>. QED BY <2>2, <2>3, <2>4
<1>6. InOrder(Append(p, m), f)
  BY <1>2 DEF InOrder
<1>7. \A x \in Range(f), y \in Range(q) \cup {m} : Earlier(Append(p, m), x, y)
  BY <1>2, <1>3
<1>8. \A x \in Range(l), y \in Range(f) \cup Range(q) \cup {m} :
        y \notin Range(l) => Earlier(Append(p, m), x, y)
  BY <1>2, <1>3
<1>9. \A x, y \in Range(l) : Earlier(Append(p, m), x, y) => First(l, x) < First(l, y)
  BY <1>4
<1>. QED BY <1>1, <1>5, <1>6, <1>7, <1>8, <1>9

LEMMA OrderTake ==
    ASSUME NEW p \in Seq(Message), NEW q \in Seq(Message), NEW l \in Seq(Message),
           OrderKept(p, q, <<>>, l), NEW k \in 1..Len(q)
    PROVE  OrderKept(p, SubSeq(q, k + 1, Len(q)), SubSeq(q, 1, k), l)
<1>. DEFINE a == SubSeq(q, 1, k)
            b == SubSeq(q, k + 1, Len(q))
<1>1. /\ a \in Seq(Message) /\ Len(a) = k /\ b \in Seq(Message) /\ Len(b) = Len(q) - k
      /\ \A i \in 1..k : a[i] = q[i]
      /\ \A i \in 1..Len(q) - k : b[i] = q[k + i]
  BY TakenParts
<1>2. /\ DOMAIN q = 1..Len(q) /\ Len(q) \in Nat
      /\ DOMAIN a = 1..k /\ DOMAIN b = 1..Len(q) - k
  BY <1>1, LenProperties
<1>3. Range(q) = Range(a) \cup Range(b)
  BY RangeTaken
<1>. HIDE DEF a, b
<1>4. \A i, j \in 1..Len(q) : i < j => Earlier(p, q[i], q[j])
  BY <1>2 DEF OrderKept, InOrder
<1>5. InOrder(p, a)
  <2>1. \A i \in 1..k : i \in 1..Len(q)
    BY <1>2
  <2>. QED BY <1>1, <1>2, <1>4, <2>1 DEF InOrder
<1>6. InOrder(p, b)
  <2>. SUFFICES ASSUME NEW i \in 1..Len(q) - k, NEW j \in 1..Len(q) - k, i < j
                PROVE  Earlier(p, b[i], b[j])
    BY <1>2 DEF InOrder
  <2>1. k + i \in 1..Len(q) /\ k + j \in 1..Len(q) /\ k + i < k + j
    BY <1>2
  <2>. QED BY <1>1, <1>4, <2>1
<1>7. \A x \in Range(a), y \in Range(b) : Earlier(p, x, y)
  <2>. SUFFICES ASSUME NEW i \in 1..k, NEW j \in 1..Len(q) - k
                PROVE  Earlier(p, a[i], b[j])
    BY <1>2 DEF Range
  <2>1. i \in 1..Len(q) /\ k + j \in 1..Len(q) /\ i < k + j
    BY <1>2
  <2>. QED BY <1>1, <1>4, <2>1
<1>8. OrderKept(p, b, a, l)
  BY <1>3, <1>5, <1>6, <1>7, RangeEmpty DEF OrderKept
<1>. QED BY <1>8 DEF a, b

LEMMA OrderWrite ==
    ASSUME NEW p \in Seq(Message), NEW q \in Seq(Message), NEW f \in Seq(Message),
           NEW l \in Seq(Message), OrderKept(p, q, f, l)
    PROVE  OrderKept(p, q, f, l \o f)
<1>. USE DEF OrderKept
<1>1. Range(l \o f) = Range(l) \cup Range(f)
  BY RangeConcat
<1>2. \A x \in Range(l \o f), y \in Range(f) \cup Range(q) :
        y \notin Range(l \o f) => Earlier(p, x, y)
  BY <1>1
<1>3. ASSUME NEW x \in Range(l \o f), NEW y \in Range(l \o f), Earlier(p, x, y)
      PROVE  First(l \o f, x) < First(l \o f, y)
  <2>1. ~Earlier(p, y, x)
    BY <1>3, EarlierFacts
  <2>2. /\ x \in Range(l) => First(l \o f, x) = First(l, x) /\ First(l, x) \in 1..Len(l)
        /\ y \in Range(l) => First(l \o f, y) = First(l, y) /\ First(l, y) \in 1..Len(l)
    BY FirstConcat, FirstFacts
  <2>3. /\ x \notin Range(l) => /\ x \in Range(f) /\ First(l \o f, x) = Len(l) + First(f, x)
                                /\ First(f, x) \in 1..Len(f) /\ f[First(f, x)] = x
        /\ y \notin Range(l) => /\ y \in Range(f) /\ First(l \o f, y) = Len(l) + First(f, y)
                                /\ First(f, y) \in 1..Len(f) /\ f[First(f, y)] = y
    BY <1>1, FirstConcat, FirstFacts
  <2>4. Len(l) \in Nat /\ Len(f) \in Nat /\ DOMAIN f = 1..Len(f)
    BY LenProperties
  <2>5. CASE x \in Range(l) /\ y \in Range(l)
    BY <1>3, <2>2, <2>5
  <2>6. CASE x \in Range(l) /\ y \notin Range(l)
    BY <2>2, <2>3, <2>4, <2>6
  <2>7. CASE x \notin Range(l) /\ y \in Range(l)
    BY <2>1, <2>3, <2>7
  <2>8. CASE x \notin Range(l) /\ y \notin Range(l)
    <3>1. PICK i \in 1..Len(f) : i = First(f, x) /\ f[i] = x
      BY <2>3, <2>8
    <3>2. PICK j \in 1..Len(f) : j = First(f, y) /\ f[j] = y
      BY <2>3, <2>8
    <3>3. ~(j < i)
      BY <2>1, <2>4, <3>1, <3>2 DEF InOrder
    <3>4. i # j
      BY <1>3, <2>1, <3>1, <3>2
    <3>. QED BY <2>3, <2>4, <2>8, <3>1, <3>2, <3>3, <3>4
  <2>. QED BY <2>5, <2>6, <2>7, <2>8
<1>. QED BY <1>1, <1>2, <1>3

LEMMA OrderDrop ==
    ASSUME NEW p, NEW q, NEW f, NEW l, OrderKept(p, q, f, l)
    PROVE  OrderKept(p, q, <<>>, l) /\ OrderKept(p, <<>>, <<>>, l)
<1>1. DOMAIN <<>> = {}
  OBVIOUS
<1>. QED BY <1>1, RangeEmpty DEF OrderKept, InOrder

(* Every message was published by its call, and every partition keeps the  *)
(* order of publication.                                                   *)
LogInv ==
    \A tp \in TopicPartitions :
        /\ \A x \in Range(published[tp]) : \E c \in Calls : \E k \in 1..next[c] - 1 : x = Batch(c)[k]
        /\ OrderKept(published[tp], pending[tp], flight[tp], log[tp])

(* A message that is published has not been published before. *)
LEMMA NotPublishedBefore ==
    ASSUME TypeOK, LogInv, NEW c \in Calls, Publish(c), NEW tp \in TopicPartitions
    PROVE  Batch(c)[next[c]] \notin Range(published[tp])
<1>. SUFFICES ASSUME Batch(c)[next[c]] \in Range(published[tp])
              PROVE  FALSE
  OBVIOUS
<1>1. PICK d \in Calls : \E k \in 1..next[d] - 1 : Batch(c)[next[c]] = Batch(d)[k]
  BY DEF LogInv
<1>2. PICK k \in 1..next[d] - 1 : Batch(c)[next[c]] = Batch(d)[k]
  BY <1>1
<1>3. k \in 1..Len(Batch(d)) /\ next[c] \in 1..Len(Batch(c))
  BY PassedPlace, NextMessage, TypeParts DEF Publish
<1>4. d = c /\ k = next[c]
  BY <1>2, <1>3, BatchInjective
<1>. QED BY <1>3, <1>4

LEMMA LogStep ==
    ASSUME TypeOK, LogInv, [Next]_vars
    PROVE  LogInv'
<1>0. \A tp \in TopicPartitions :
        /\ pending[tp] \in Seq(Message) /\ flight[tp] \in Seq(Message)
        /\ log[tp] \in Seq(Message) /\ published[tp] \in Seq(Message)
  BY DEF TypeOK
<1>1. ASSUME NEW tp \in TopicPartitions, published'[tp] = published[tp],
             OrderKept(published[tp], pending'[tp], flight'[tp], log'[tp])
      PROVE  /\ \A x \in Range(published'[tp]) : \E c \in Calls : \E k \in 1..next'[c] - 1 : x = Batch(c)[k]
             /\ OrderKept(published'[tp], pending'[tp], flight'[tp], log'[tp])
  <2>. SUFFICES ASSUME NEW x \in Range(published[tp])
                PROVE  \E c \in Calls : \E k \in 1..next'[c] - 1 : x = Batch(c)[k]
    BY <1>1
  <2>1. PICK c \in Calls : \E k \in 1..next[c] - 1 : x = Batch(c)[k]
    BY DEF LogInv
  <2>2. PICK k \in 1..next[c] - 1 : x = Batch(c)[k]
    BY <2>1
  <2>3. k \in 1..next'[c] - 1
    BY NextSteps
  <2>. QED BY <2>2, <2>3
<1>2. CASE UNCHANGED <<pending, flight, attempts, log, published>>
  BY <1>1, <1>2 DEF LogInv
<1>3. ASSUME NEW c \in Calls, Publish(c)
      PROVE  LogInv'
  <2>1. PICK m : m = Batch(c)[next[c]]
    OBVIOUS
  <2>2. /\ m \in Message /\ Destination(m) \in TopicPartitions
        /\ UNCHANGED <<flight, attempts, log>>
    BY <1>3, <2>1, PublishMoves
  <2>3. PICK u \in TopicPartitions : u = Destination(m)
    BY <2>2
  <2>4. /\ pending' = [pending EXCEPT ![u] = Append(@, m)]
        /\ published' = [published EXCEPT ![u] = Append(@, m)]
    BY <1>3, <2>1, <2>3 DEF Publish
  <2>5. \A tp \in TopicPartitions \ {u} : pending'[tp] = pending[tp] /\ published'[tp] = published[tp]
    BY <2>4 DEF TypeOK
  <2>6. pending'[u] = Append(pending[u], m) /\ published'[u] = Append(published[u], m)
    BY <2>4 DEF TypeOK
  <2>7. m \notin Range(published[u])
    BY <1>3, <2>1, NotPublishedBefore
  <2>8. OrderKept(published'[u], pending'[u], flight'[u], log'[u])
    BY <1>0, <2>2, <2>6, <2>7, OrderPublish DEF LogInv
  <2>9. \A x \in Range(published'[u]) : \E d \in Calls : \E k \in 1..next'[d] - 1 : x = Batch(d)[k]
    <3>. TAKE x \in Range(published'[u])
    <3>1. Range(published'[u]) = Range(published[u]) \cup {m}
      BY <1>0, <2>2, <2>6, RangeAppend
    <3>2. CASE x = m
      <4>1. next[c] \in 1..next'[c] - 1
        BY <1>3, TypeParts, NextMessage DEF Publish, TypeOK
      <4>. QED BY <2>1, <3>2, <4>1
    <3>3. CASE x \in Range(published[u])
      <4>1. PICK d \in Calls : \E k \in 1..next[d] - 1 : x = Batch(d)[k]
        BY <3>3 DEF LogInv
      <4>2. PICK k \in 1..next[d] - 1 : x = Batch(d)[k]
        BY <4>1
      <4>3. k \in 1..next'[d] - 1
        BY NextSteps
      <4>. QED BY <4>2, <4>3
    <3>. QED BY <3>1, <3>2, <3>3
  <2>10. \A tp \in TopicPartitions \ {u} :
           OrderKept(published[tp], pending'[tp], flight'[tp], log'[tp])
    BY <2>2, <2>5 DEF LogInv
  <2>. QED BY <1>1, <2>5, <2>8, <2>9, <2>10 DEF LogInv
<1>4. ASSUME NEW u \in TopicPartitions, TakeBatch(u)
      PROVE  LogInv'
  <2>1. /\ \A tp \in TopicPartitions \ {u} : UNCHANGED <<pending[tp], flight[tp]>>
        /\ flight[u] = <<>> /\ log' = log
    BY <1>4, TakeMoves
  <2>2. PICK k \in 1..Len(pending[u]) :
           /\ flight'[u] = SubSeq(pending[u], 1, k)
           /\ pending'[u] = SubSeq(pending[u], k + 1, Len(pending[u]))
    BY <1>4, TakeMoves
  <2>3. published' = published
    BY <1>4 DEF TakeBatch, history
  <2>4. OrderKept(published[u], pending'[u], flight'[u], log'[u])
    BY <1>0, <2>1, <2>2, OrderTake DEF LogInv
  <2>. QED BY <1>1, <2>1, <2>3, <2>4 DEF LogInv
<1>5. ASSUME NEW u \in TopicPartitions, WriteAcked(u) \/ WriteFails(u)
      PROVE  LogInv'
  <2>1. /\ flight'[u] = flight[u] \/ flight'[u] = <<>>
        /\ log'[u] = log[u] \/ log'[u] = log[u] \o flight[u]
        /\ \A tp \in TopicPartitions \ {u} : UNCHANGED <<flight[tp], log[tp], attempts[tp]>>
        /\ pending' = pending
    BY <1>5, WriteMoves
  <2>2. published' = published
    BY <1>5 DEF WriteAcked, WriteFails, history
  <2>3. OrderKept(published[u], pending[u], flight[u], log'[u])
    <3>1. OrderKept(published[u], pending[u], flight[u], log[u])
      BY DEF LogInv
    <3>2. OrderKept(published[u], pending[u], flight[u], log[u] \o flight[u])
      BY <1>0, <3>1, OrderWrite
    <3>. QED BY <2>1, <3>1, <3>2
  <2>4. OrderKept(published[u], pending'[u], flight'[u], log'[u])
    BY <2>1, <2>3, OrderDrop
  <2>. QED BY <1>1, <2>1, <2>2, <2>4 DEF LogInv
<1>6. CASE Crash
  <2>1. /\ \A tp \in TopicPartitions : pending'[tp] = <<>> /\ flight'[tp] = <<>>
        /\ log' = log /\ published' = published
    BY <1>6 DEF Crash
  <2>2. \A tp \in TopicPartitions : OrderKept(published[tp], <<>>, <<>>, log[tp])
    BY OrderDrop DEF LogInv
  <2>. QED BY <1>1, <2>1, <2>2 DEF LogInv
<1>. QED BY <1>2, <1>3, <1>4, <1>5, <1>6, QueueStep DEF WriterStep

-----------------------------------------------------------------------------
(* The order of a host's messages                                          *)

(* A call that comes later has larger numbers, so has a later message of   *)
(* the same call.                                                          *)
LEMMA NumbersGrow ==
    ASSUME NEW c \in Calls, NEW d \in Calls,
           NEW i \in 1..Len(Batch(c)), NEW j \in 1..Len(Batch(d)),
           c[2] < d[2] \/ (c = d /\ i < j)
    PROVE  Batch(c)[i].n < Batch(d)[j].n
<1>1. c[2] \in Nat /\ d[2] \in Nat
  BY CallParts, CollectorConstants
<1>2. MaxCalls * EventsPerCall \in Nat
  BY CollectorConstants
<1>3. CASE c[2] = 0 /\ d[2] # 0
  <2>1. Batch(c)[i].n = 0 /\ Batch(d)[j].n \in 1..MaxCalls * EventsPerCall
    BY <1>3, BatchElements
  <2>. QED BY <1>2, <2>1
<1>4. CASE c[2] = 0 /\ d[2] = 0
  <2>1. i = 1 /\ j = 1
    BY <1>4, BatchElements
  <2>. QED BY <1>1, <1>4, <2>1
<1>5. CASE c[2] # 0 /\ d[2] # 0
  <2>1. PICK k \in Nat : k = c[2] - 1
    BY <1>1, <1>5
  <2>2. PICK l \in Nat : l = d[2] - 1
    BY <1>1, <1>5
  <2>3. /\ Batch(c)[i].n = k * EventsPerCall + i /\ i \in 1..EventsPerCall
        /\ Batch(d)[j].n = l * EventsPerCall + j /\ j \in 1..EventsPerCall
    BY <1>5, <2>1, <2>2, BatchElements
  <2>4. k * EventsPerCall \in Nat /\ l * EventsPerCall \in Nat
    BY CollectorConstants
  <2>5. CASE c[2] < d[2]
    <3>1. k < l
      BY <1>1, <2>1, <2>2, <2>5
    <3>2. PICK a \in Nat, b \in Nat :
             a = k * EventsPerCall /\ b = l * EventsPerCall /\ a + EventsPerCall <= b
      BY <2>4, <3>1, Multiples, CollectorConstants
    <3>3. Batch(c)[i].n = a + i /\ Batch(d)[j].n = b + j
      BY <2>3, <3>2
    <3>4. i \in 1..EventsPerCall /\ j \in 1..EventsPerCall /\ a + EventsPerCall <= b
      BY <2>3, <3>2
    <3>5. a + i < b + j
      BY <3>4, CollectorConstants
    <3>. QED BY <3>3, <3>5
  <2>6. CASE c = d /\ i < j
    <3>1. k = l
      BY <2>1, <2>2, <2>6
    <3>. QED BY <2>3, <2>4, <2>6, <3>1, CollectorConstants
  <2>. QED BY <2>5, <2>6
<1>6. CASE c[2] # 0 /\ d[2] = 0
  BY <1>1, <1>6
<1>. QED BY <1>3, <1>4, <1>5, <1>6

(* An agent issues a call when the one before has ended for it. *)
SerialInv ==
    \A c, d \in Calls :
        c[1] = d[1] /\ c[2] < d[2] /\ client[d] # "none" => client[c] \in {"ok", "err"}

LEMMA ClientSteps ==
    ASSUME TypeOK, CallInv, [Next]_vars, NEW c \in Calls
    PROVE  \/ client'[c] = client[c]
           \/ client[c] = "none" /\ client'[c] = "open" /\ Issue(c)
           \/ client[c] # "none" /\ client[c] # "ok" /\ client'[c] = "err"
           \/ client[c] = "open" /\ client'[c] = "ok"
<1>1. client \in [Calls -> {"none", "open", "ok", "err"}]
  BY DEF TypeOK
<1>2. CASE UNCHANGED client
  BY <1>2
<1>3. ASSUME NEW d \in Calls, AgentStep(d) \/ Refuse(d)
      PROVE  \/ client'[c] = client[c]
             \/ client[c] = "none" /\ client'[c] = "open" /\ Issue(c)
             \/ client[c] # "none" /\ client[c] # "ok" /\ client'[c] = "err"
             \/ client[c] = "open" /\ client'[c] = "ok"
  <2>1. CASE d # c
    BY <1>1, <1>3, <2>1 DEF AgentStep, Issue, GiveUp, ReceiveResponse, Refuse
  <2>2. CASE d = c /\ AgentStep(d)
    BY <1>1, <2>2 DEF AgentStep, Issue, GiveUp, ReceiveResponse
  <2>3. CASE d = c /\ Refuse(d)
    BY <1>1, <2>3 DEF Refuse, CallInv
  <2>. QED BY <1>3, <2>1, <2>2, <2>3
<1>4. CASE Crash
  BY <1>1, <1>4 DEF Crash
<1>. QED
  BY <1>2, <1>3, <1>4
     DEF Next, StartHandler, HandlerStep, Publish, PublishFails, WaitEnds, Return, WriterStep,
         TakeBatch, WriteAcked, WriteFails, Stop, CloseProducer, Exit, Terminated, vars, callVars

LEMMA SerialStep ==
    ASSUME TypeOK, CallInv, SerialInv, [Next]_vars
    PROVE  SerialInv'
<1>. SUFFICES ASSUME NEW c \in Calls, NEW d \in Calls, c[1] = d[1], c[2] < d[2],
                     client'[d] # "none"
              PROVE  client'[c] \in {"ok", "err"}
  BY DEF SerialInv
<1>1. client[d] \in {"none", "open", "ok", "err"} /\ client[c] \in {"none", "open", "ok", "err"}
  BY DEF TypeOK
<1>2. CASE client[d] # "none"
  <2>1. client[c] \in {"ok", "err"}
    BY <1>2 DEF SerialInv
  <2>. QED BY <2>1, ClientSteps
<1>3. CASE client[d] = "none"
  <2>1. Issue(d)
    BY <1>3, ClientSteps
  <2>2. c[2] \in Nat /\ d[2] \in Nat /\ d[2] > 0
    BY CallParts, CollectorConstants
  <2>3. PICK e \in Calls : e = <<d[1], d[2] - 1>>
    <3>1. d[1] \in Hosts /\ d[2] - 1 \in 0..MaxCalls
      BY <2>2, CallParts, CollectorConstants
    <3>. QED BY <3>1 DEF Calls
  <2>4. client[e] \in {"ok", "err"} /\ e[1] = d[1] /\ e[2] = d[2] - 1
    BY <2>1, <2>2, <2>3 DEF Issue
  <2>5. client[c] \in {"ok", "err"}
    <3>1. CASE c[2] = d[2] - 1
      BY <2>3, <2>4, <3>1, CallParts
    <3>2. CASE c[2] < e[2]
      BY <2>4, <3>2 DEF SerialInv
    <3>. QED BY <2>2, <2>4, <3>1, <3>2
  <2>. QED BY <2>5, ClientSteps
<1>. QED BY <1>2, <1>3

Answered(h) == \A c \in Calls : c[1] = h => client[c] # "err"

(* A host whose calls all got their answer is published in its own order. *)
HostInv ==
    \A h \in Hosts : Answered(h) =>
        \A tp \in TopicPartitions : \A i, j \in DOMAIN published[tp] :
            i < j /\ published[tp][i].host = h /\ published[tp][j].host = h
                => published[tp][i].n < published[tp][j].n

(* What a handler publishes comes after all that its host has published.   *)
LEMMA HostNumbers ==
    ASSUME TypeOK, CallInv, LogInv, SerialInv, NEW c \in Calls, Publish(c), Answered(c[1]),
           NEW tp \in TopicPartitions, NEW x \in Range(published[tp]), x.host = c[1]
    PROVE  x.n < Batch(c)[next[c]].n
<1>1. PICK d \in Calls : \E k \in 1..next[d] - 1 : x = Batch(d)[k]
  BY DEF LogInv
<1>2. PICK k \in 1..next[d] - 1 : x = Batch(d)[k]
  BY <1>1
<1>3. k \in 1..Len(Batch(d)) /\ next[c] \in 1..Len(Batch(c))
  BY PassedPlace, NextMessage, TypeParts DEF Publish
<1>4. d[1] = c[1] /\ c[2] \in Nat /\ d[2] \in Nat
  <2>1. Batch(d)[k].host = d[1]
    BY <1>3, BatchElements
  <2>2. c[2] \in Nat /\ d[2] \in Nat
    BY CallParts, CollectorConstants
  <2>. QED BY <1>2, <2>1, <2>2
<1>5. CASE d[2] < c[2]
  BY <1>2, <1>3, <1>5, NumbersGrow
<1>6. CASE d[2] = c[2]
  <2>1. d = c
    BY <1>4, <1>6, CallParts
  <2>2. k < next[c]
    BY <1>3, <2>1, BatchLength
  <2>. QED BY <1>2, <1>3, <2>1, <2>2, NumbersGrow
<1>7. CASE c[2] < d[2]
  <2>1. next[d] # 1
    OBVIOUS
  <2>2. client[d] # "none"
    BY <2>1 DEF CallInv
  <2>3. client[c] = "ok"
    BY <1>4, <1>7, <2>2 DEF SerialInv, Answered
  <2>. QED BY <2>3 DEF CallInv, Publish
<1>. QED BY <1>4, <1>5, <1>6, <1>7

LEMMA HostStep ==
    ASSUME TypeOK, CallInv, LogInv, SerialInv, HostInv, [Next]_vars
    PROVE  HostInv'
<1>. SUFFICES ASSUME NEW h \in Hosts, Answered(h)', NEW tp \in TopicPartitions,
                     NEW i \in DOMAIN published'[tp], NEW j \in DOMAIN published'[tp], i < j,
                     published'[tp][i].host = h, published'[tp][j].host = h
              PROVE  published'[tp][i].n < published'[tp][j].n
  BY DEF HostInv
<1>1. Answered(h)
  BY ClientSteps DEF Answered
<1>2. CASE published' = published
  BY <1>1, <1>2 DEF HostInv
<1>3. ASSUME NEW c \in Calls, Publish(c)
      PROVE  published'[tp][i].n < published'[tp][j].n
  <2>1. PICK m : m = Batch(c)[next[c]]
    OBVIOUS
  <2>2. m \in Message /\ Destination(m) \in TopicPartitions /\ m.host = c[1]
    BY <1>3, <2>1, TypeParts, NextMessage, BatchElements DEF Publish
  <2>3. published' = [published EXCEPT ![Destination(m)] = Append(@, m)]
    BY <1>3, <2>1 DEF Publish
  <2>4. CASE tp # Destination(m)
    <3>1. published'[tp] = published[tp]
      BY <2>3, <2>4 DEF TypeOK
    <3>. QED BY <1>1, <3>1 DEF HostInv
  <2>5. CASE tp = Destination(m)
    <3>1. PICK s \in Seq(Message) : s = published[tp]
      BY DEF TypeOK
    <3>2. published'[tp] = Append(s, m)
      BY <2>2, <2>3, <2>5, <3>1 DEF TypeOK
    <3>3. /\ Len(s) \in Nat /\ DOMAIN s = 1..Len(s) /\ DOMAIN Append(s, m) = 1..Len(s) + 1
          /\ \A q \in 1..Len(s) : Append(s, m)[q] = s[q]
          /\ Append(s, m)[Len(s) + 1] = m
      BY <2>2, AppendProperties, LenProperties
    <3>4. i \in 1..Len(s) /\ (j \in 1..Len(s) \/ j = Len(s) + 1)
      BY <3>2, <3>3
    <3>5. CASE j \in 1..Len(s)
      <4>1. Append(s, m)[i] = s[i] /\ Append(s, m)[j] = s[j]
        BY <3>3, <3>4, <3>5
      <4>2. i \in DOMAIN published[tp] /\ j \in DOMAIN published[tp]
        BY <3>1, <3>3, <3>4, <3>5
      <4>. QED BY <1>1, <3>1, <3>2, <4>1, <4>2 DEF HostInv
    <3>6. CASE j = Len(s) + 1
      <4>1. published'[tp][j] = m /\ published'[tp][i] = s[i]
        BY <3>2, <3>3, <3>4, <3>6
      <4>2. c[1] = h /\ s[i].host = c[1]
        BY <2>2, <4>1
      <4>3. s[i] \in Range(published[tp])
        BY <3>1, <3>3, <3>4 DEF Range
      <4>4. s[i].n < m.n
        BY <1>1, <1>3, <2>1, <4>2, <4>3, HostNumbers
      <4>. QED BY <4>1, <4>4
    <3>. QED BY <3>4, <3>5, <3>6
  <2>. QED BY <2>4, <2>5
<1>4. \/ published' = published
      \/ \E c \in Calls : Publish(c)
  BY QueueStep DEF WriterStep, TakeBatch, WriteAcked, WriteFails, Crash, history
<1>. QED BY <1>2, <1>3, <1>4

-----------------------------------------------------------------------------
(* The inductive invariant and the theorems                                *)

CollectorInv ==
    /\ TypeOK
    /\ CallInv
    /\ OwnInv
    /\ PassedInv
    /\ CrashInv
    /\ ExitInv
    /\ SyncInv
    /\ RepeatInv
    /\ LogInv
    /\ SerialInv
    /\ HostInv

LEMMA CollectorInit == Init => CollectorInv
<1>. SUFFICES ASSUME Init
              PROVE  CollectorInv
  OBVIOUS
<1>1. \A tp \in TopicPartitions : pending[tp] = <<>> /\ flight[tp] = <<>> /\ log[tp] = <<>>
  BY DEF Init
<1>2. \A c \in Calls : next[c] = 1 /\ \A k \in 1..next[c] - 1 : FALSE
  BY DEF Init
<1>3. \A x : Cardinality(Copies(<<>>, x)) = 0
  BY RangeEmpty, EmptySeq, CopiesFinite
<1>4. RepeatInv
  BY <1>1, <1>3, RangeEmpty, CollectorConstants DEF RepeatInv, NoRepeats
<1>5. OwnInv
  BY <1>1, RangeEmpty DEF OwnInv, Undelivered
<1>6. LogInv
  <2>1. \A tp \in TopicPartitions : published[tp] = <<>>
    BY DEF Init
  <2>2. DOMAIN <<>> = {}
    OBVIOUS
  <2>. QED BY <1>1, <2>1, <2>2, RangeEmpty DEF LogInv, OrderKept, NoRepeats, InOrder
<1>7. SerialInv /\ HostInv
  BY DEF Init, SerialInv, HostInv
<1>8. PassedInv /\ SyncInv
  BY <1>2 DEF PassedInv, SyncInv
<1>9. CrashInv /\ ExitInv
  BY DEF Init, CrashInv, ExitInv
<1>. QED BY <1>4, <1>5, <1>6, <1>7, <1>8, <1>9, TypeInit, CallInit DEF CollectorInv

LEMMA CollectorNext == CollectorInv /\ [Next]_vars => CollectorInv'
  BY TypeStep, OwnStep, PassedStep, CrashStep, ExitStep, SyncStep, RepeatStep, LogStep, SerialStep,
     HostStep
     DEF CollectorInv

LEMMA CollectorAlways == Spec => []CollectorInv
  BY CollectorInit, CollectorNext, PTL DEF Spec

(* Retries repeat a message at most MaxAttempts times in its log, whatever *)
(* acknowledgements are lost (the Writer of producer.go:30-39, which       *)
(* leaves MaxAttempts at its default).                                     *)
THEOREM DuplicatesBounded == Spec => []BoundedDuplicates
<1>1. CollectorInv => BoundedDuplicates
  BY DEF CollectorInv, RepeatInv, BoundedDuplicates, Copies
<1>. QED BY <1>1, CollectorAlways, PTL

(* After an orderly stop every message of an answered call is in a log, or *)
(* was reported, or an earlier crash took it (main.go:60-63).              *)
THEOREM StopLosesNothing == Spec => []StoppedCleanly
<1>1. CollectorInv => StoppedCleanly
  <2>. SUFFICES ASSUME CollectorInv, main = "exited", NEW c \in Calls, client[c] = "ok",
                       NEW k \in 1..Len(Batch(c))
                PROVE  Batch(c)[k] \in Logged \cup reported \cup crashLost
    BY BatchLength DEF StoppedCleanly, Range
  <2>1. TypeOK /\ k \in 1..next[c] - 1
    BY BatchLength DEF CollectorInv, CallInv, TypeOK
  <2>2. Undelivered(Destination(Batch(c)[k])) = {}
    BY <2>1, PassedPlace, EmptyQueue DEF CollectorInv, ExitInv
  <2>. QED BY <2>1, <2>2 DEF CollectorInv, PassedInv
<1>. QED BY <1>1, CollectorAlways, PTL

(* With a synchronous producer every message of an answered call is in a   *)
(* log or was reported, crash or not (server.go:65-75).                    *)
THEOREM AnswersSettle == Spec => []AckedIsSettled
<1>1. CollectorInv => AckedIsSettled
  <2>. SUFFICES ASSUME CollectorInv, ~async, NEW c \in Calls, client[c] = "ok",
                       NEW k \in 1..Len(Batch(c))
                PROVE  Batch(c)[k] \in Logged \cup reported
    BY BatchLength DEF AckedIsSettled, Range
  <2>1. phase[c] = "returned" /\ k \in 1..next[c] - 1
    BY BatchLength DEF CollectorInv, CallInv, TypeOK
  <2>. QED BY <2>1 DEF CollectorInv, SyncInv
<1>. QED BY <1>1, CollectorAlways, PTL

(* Retries repeat and drops leave holes, but a log shows the messages for  *)
(* the first time in the order in which the handlers published them (one   *)
(* ordered queue for each partition: the Writer of producer.go:30-39).     *)
THEOREM LogsFollowHandlers == Spec => []LogFollowsPublishOrder
<1>1. CollectorInv => LogFollowsPublishOrder
  <2>. SUFFICES ASSUME CollectorInv, NEW tp \in TopicPartitions,
                       NEW i \in DOMAIN published[tp], NEW j \in DOMAIN published[tp], i < j,
                       {published[tp][i], published[tp][j]} \subseteq Range(log[tp])
                PROVE  FirstIn(tp, published[tp][i]) < FirstIn(tp, published[tp][j])
    BY DEF LogFollowsPublishOrder
  <2>1. OrderKept(published[tp], pending[tp], flight[tp], log[tp])
    BY DEF CollectorInv, LogInv
  <2>2. Earlier(published[tp], published[tp][i], published[tp][j])
    BY DEF Earlier
  <2>3. First(log[tp], published[tp][i]) < First(log[tp], published[tp][j])
    BY <2>1, <2>2 DEF OrderKept
  <2>. QED BY <2>3 DEF First, FirstIn
<1>. QED BY <1>1, CollectorAlways, PTL

(* The packets of a host whose calls all got their answer are logged in    *)
(* the order in which the host reported them (server.go:65-75).            *)
THEOREM AnsweredHostsInOrder == Spec => []HostOrderWithoutTimeouts
<1>1. CollectorInv => HostOrderWithoutTimeouts
  <2>. SUFFICES ASSUME CollectorInv, NEW h \in Hosts, Answered(h), NEW tp \in TopicPartitions,
                       NEW m1 \in Range(log[tp]), NEW m2 \in Range(log[tp]),
                       m1.host = h, m2.host = h, m1.n < m2.n
                PROVE  FirstIn(tp, m1) < FirstIn(tp, m2)
    BY DEF HostOrderWithoutTimeouts, InHostOrder, Answered
  <2>1. OrderKept(published[tp], pending[tp], flight[tp], log[tp])
    BY DEF CollectorInv, LogInv
  <2>2. published[tp] \in Seq(Message)
    BY DEF CollectorInv, TypeOK
  <2>3. DOMAIN published[tp] \subseteq Nat
    BY <2>2, LenProperties
  <2>4. m1 \in Range(published[tp]) /\ m2 \in Range(published[tp])
    BY <2>1 DEF OrderKept
  <2>5. PICK i \in DOMAIN published[tp] : published[tp][i] = m1
    BY <2>4 DEF Range
  <2>6. PICK j \in DOMAIN published[tp] : published[tp][j] = m2
    BY <2>4 DEF Range
  <2>7. m1.n \in Nat /\ m2.n \in Nat
    <3>1. m1 \in Message /\ m2 \in Message
      BY <2>2, <2>3, <2>5, <2>6, ElementOfSeq, LenProperties
    <3>. QED BY <3>1, CollectorConstants DEF Message
  <2>8. ~(j < i)
    BY <2>5, <2>6, <2>7 DEF CollectorInv, HostInv
  <2>9. i < j
    BY <2>3, <2>5, <2>6, <2>7, <2>8
  <2>10. Earlier(published[tp], m1, m2)
    BY <2>5, <2>6, <2>9 DEF Earlier
  <2>11. First(log[tp], m1) < First(log[tp], m2)
    BY <2>1, <2>10 DEF OrderKept
  <2>. QED BY <2>11 DEF First, FirstIn
<1>. QED BY <1>1, CollectorAlways, PTL
=============================================================================
