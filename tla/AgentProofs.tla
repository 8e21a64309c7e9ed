---------------------------- MODULE AgentProofs ----------------------------
(***************************************************************************)
(* What holds of the agent's pipeline for every number of CPUs and every   *)
(* capacity: type correctness, with the bounds of the rings, the channel   *)
(* and the batch, and the order of the events.                             *)
(*                                                                         *)
(* PipelineOrder is not inductive by itself: that a new sample comes after *)
(* all others of its CPU needs the count of the samples captured, and that *)
(* the head of one ring is not behind another ring needs the rings to hold *)
(* their own CPU's samples.                                                *)
(*                                                                         *)
(* The collector handles the batches in the order they were cut, unless a  *)
(* call has failed.  This rests on the calls being serial: all but the     *)
(* last have returned, and one that returned without an error has been     *)
(* handled.                                                                *)
(*                                                                         *)
(* The agent may lose events at the rings, at the channel, when the reader *)
(* is closed, when the ctx is cancelled before a batch is sent, and by the *)
(* exit what is still in the channel, and nowhere else.  This takes the    *)
(* control of the loops: the reset of buf behind a call loses nothing      *)
(* because the call that returns carries its events, and the rings of a    *)
(* reader that is not open are empty.  What a stop gives up is the tail of *)
(* what was captured on each CPU, since no call follows the cancel.        *)
(*                                                                         *)
(* With the order this makes the agent an implementation of the lossy      *)
(* ordered stream of PacketStream.  A call may only carry what has not     *)
(* been given up, and a drop may only hit what no call carries: besides    *)
(* the order and the accounting this takes that nothing lost is in any     *)
(* stage.                                                                  *)
(***************************************************************************)
EXTENDS Agent, SequenceTheorems, TLAPS

LEMMA RangeType ==
    ASSUME NEW S, NEW s \in Seq(S)
    PROVE  Range(s) \subseteq S
  BY DEF Range

(* A new call, and the outcome of the last one, keep calls a sequence of   *)
(* calls.                                                                  *)
LEMMA CallsType ==
    ASSUME NEW s \in Seq(Call)
    PROVE  /\ \A b \in Seq(Event) :
                Append(s, [events |-> b, client |-> "open"]) \in Seq(Call)
           /\ \A o \in {"ok", "err"} :
                [s EXCEPT ![Len(s)].client = o] \in Seq(Call)
<1>1. ASSUME NEW b \in Seq(Event)
      PROVE  Append(s, [events |-> b, client |-> "open"]) \in Seq(Call)
  <2>1. [events |-> b, client |-> "open"] \in Call
    BY DEF Call
  <2>. QED BY <2>1, AppendProperties
<1>2. ASSUME NEW o \in {"ok", "err"}
      PROVE  [s EXCEPT ![Len(s)].client = o] \in Seq(Call)
  <2>. DEFINE t == [s EXCEPT ![Len(s)].client = o]
  <2>1. ASSUME NEW i \in 1..Len(s)
        PROVE  s[i] \in Call /\ [s[i] EXCEPT !.client = o] \in Call
    <3>1. s[i] \in Call
      BY ElementOfSeq
    <3>. QED BY <3>1 DEF Call
  <2>2. Len(s) \in Nat /\ DOMAIN s = 1..Len(s) /\ s \in [1..Len(s) -> Call]
    BY LenProperties
  <2>3. t \in [1..Len(s) -> Call]
    BY <2>1, <2>2
  <2>. QED BY <2>2, <2>3, SeqDef
<1>. QED BY <1>1, <1>2

-----------------------------------------------------------------------------
(* Type correctness                                                        *)

LEMMA ConstantsType ==
    /\ MaxPackets \in Nat
    /\ RingCap \in Nat /\ RingCap > 0
    /\ ChannelSize \in Nat /\ ChannelSize > 0
    /\ BatchSize \in Nat /\ BatchSize > 0
  BY AgentAssumption DEF AgentAssumption

LEMMA TypeInit == Init => TypeOK
<1>. SUFFICES ASSUME Init
              PROVE  TypeOK
  OBVIOUS
<1>. USE ConstantsType
<1>1. <<>> \in Seq(Event) /\ <<>> \in Seq(Call) /\ <<>> \in Seq(Nat)
  BY EmptySeq
<1>2. Len(<<>>) = 0
  BY EmptySeq
<1>3. ring \in [CPUs -> Seq(Event)] /\ \A c \in CPUs : Len(ring[c]) <= RingCap
  BY <1>1, <1>2 DEF Init
<1>4. captured \in [CPUs -> 0..MaxPackets]
  BY DEF Init
<1>5. /\ hand \in Seq(Event) /\ Len(hand) = 0
      /\ eventCh \in Seq(Event) /\ Len(eventCh) = 0
      /\ buf \in Seq(Event) /\ Len(buf) = 0
      /\ calls \in Seq(Call) /\ handled \in Seq(Nat)
  BY <1>1, <1>2 DEF Init
<1>6. /\ readLoop = "start" /\ reader = "none" /\ sendLoop = "select"
      /\ mainPc = "waiting" /\ lost \subseteq Event /\ cut \subseteq lost
  BY DEF Init
<1>7. cancelled \in BOOLEAN
  BY DEF Init
<1>. QED BY <1>3, <1>4, <1>5, <1>6, <1>7 DEF TypeOK

LEMMA TypeNext == TypeOK /\ [Next]_vars => TypeOK'
<1>. SUFFICES ASSUME TypeOK, [Next]_vars
              PROVE  TypeOK'
  OBVIOUS
<1>. USE ConstantsType
<1>1. ASSUME NEW c \in CPUs, CaptureSample(c)
      PROVE  TypeOK'
  <2>. DEFINE e == [cpu |-> c, n |-> captured[c] + 1]
  <2>1. e \in Event
    <3>1. captured[c] \in 0..MaxPackets /\ captured[c] < MaxPackets
      BY <1>1 DEF CaptureSample, TypeOK
    <3>2. captured[c] + 1 \in 1..MaxPackets
      BY <3>1
    <3>. QED BY <1>1, <3>2 DEF Event
  <2>2. captured' \in [CPUs -> 0..MaxPackets]
    BY <1>1 DEF CaptureSample, TypeOK
  <2>3. Append(ring[c], e) \in Seq(Event) /\ Len(Append(ring[c], e)) = Len(ring[c]) + 1
    BY <2>1, AppendProperties DEF TypeOK
  <2>4. ring' \in [CPUs -> Seq(Event)] /\ \A d \in CPUs : Len(ring'[d]) <= RingCap
    <3>1. CASE reader = "open" /\ Len(ring[c]) < RingCap
      <4>1. ring' = [ring EXCEPT ![c] = Append(@, e)]
        BY <1>1, <3>1 DEF CaptureSample
      <4>2. Len(ring[c]) \in Nat
        BY DEF TypeOK
      <4>. QED BY <4>1, <4>2, <2>3, <3>1 DEF TypeOK
    <3>2. CASE ~(reader = "open" /\ Len(ring[c]) < RingCap)
      BY <1>1, <3>2 DEF CaptureSample, TypeOK
    <3>. QED BY <3>1, <3>2
  <2>5. lost' \subseteq Event /\ cut' \subseteq lost'
    BY <1>1, <2>1 DEF CaptureSample, TypeOK
  <2>. QED BY <1>1, <2>2, <2>4, <2>5 DEF CaptureSample, TypeOK, readVars, sendVars
<1>2. CASE ReadLoopStart
  BY <1>2 DEF ReadLoopStart, TypeOK, captureVars, sendVars
<1>3. CASE ReadLoopStartFails
  BY <1>3 DEF ReadLoopStartFails, TypeOK, captureVars, sendVars
<1>4. ASSUME NEW c \in CPUs, ReadSample(c)
      PROVE  TypeOK'
  <2>1. /\ Head(ring[c]) \in Event
        /\ Tail(ring[c]) \in Seq(Event)
        /\ Len(Tail(ring[c])) = Len(ring[c]) - 1
    BY <1>4, HeadTailProperties DEF ReadSample, TypeOK
  <2>2. ring' \in [CPUs -> Seq(Event)] /\ \A d \in CPUs : Len(ring'[d]) <= RingCap
    <3>1. Len(ring[c]) \in Nat /\ Len(ring[c]) <= RingCap
      BY DEF TypeOK
    <3>. QED BY <1>4, <2>1, <3>1 DEF ReadSample, TypeOK
  <2>3. hand' \in Seq(Event) /\ Len(hand') = 1
    BY <1>4, <2>1  DEF ReadSample
  <2>. QED BY <1>4, <2>2, <2>3 DEF ReadSample, TypeOK, sendVars
<1>5. CASE Offer
  <2>1. eventCh' \in Seq(Event) /\ Len(eventCh') <= ChannelSize
    <3>1. Len(hand) = 1 /\ Len(eventCh) \in Nat
      BY <1>5 DEF Offer, TypeOK
    <3>2. /\ eventCh \o hand \in Seq(Event)
          /\ Len(eventCh \o hand) = Len(eventCh) + 1
      <4>1. eventCh \in Seq(Event) /\ hand \in Seq(Event)
        BY DEF TypeOK
      <4>2. /\ eventCh \o hand \in Seq(Event)
            /\ Len(eventCh \o hand) = Len(eventCh) + Len(hand)
        BY <4>1, ConcatProperties, Zenon
      <4>. QED BY <3>1, <4>2
    <3>3. CASE Len(eventCh) < ChannelSize
      <4>1. eventCh' = eventCh \o hand
        BY <1>5, <3>3 DEF Offer
      <4>2. eventCh' \in Seq(Event) /\ Len(eventCh') = Len(eventCh) + 1
        BY <3>2, <4>1, Zenon
      <4>3. Len(eventCh) + 1 <= ChannelSize
        BY <3>1, <3>3
      <4>. QED BY <4>2, <4>3
    <3>4. CASE ~(Len(eventCh) < ChannelSize)
      BY <1>5, <3>4 DEF Offer, TypeOK
    <3>. QED BY <3>3, <3>4
  <2>2. lost' \subseteq Event /\ cut' \subseteq lost'
    BY <1>5, RangeType DEF Offer, TypeOK
  <2>. QED BY <1>5, <2>1, <2>2, EmptySeq DEF Offer, TypeOK, captureVars, sendVars
<1>6. CASE CloseReader
  <2>1. lost' \subseteq Event /\ cut' \subseteq lost'
    BY <1>6, RangeType DEF CloseReader, TypeOK
  <2>2. ring' \in [CPUs -> Seq(Event)] /\ \A d \in CPUs : Len(ring'[d]) <= RingCap
    BY <1>6, EmptySeq DEF CloseReader
  <2>. QED BY <1>6, <2>1, <2>2 DEF CloseReader, TypeOK, sendVars
<1>7. CASE ReadLoopReturns
  BY <1>7 DEF ReadLoopReturns, TypeOK, captureVars, sendVars
(* What send() leaves: the batch in a call, or nothing of it. *)
<1>b. ASSUME NEW b \in Seq(Event), Len(b) <= BatchSize, SendBatch(b), sendLoop = "select"
      PROVE  /\ calls' \in Seq(Call) /\ sendLoop' \in {"select", "sending"}
             /\ buf' \in Seq(Event) /\ Len(buf') <= BatchSize
             /\ sendLoop' = "select" => Len(buf') < BatchSize
             /\ lost' \subseteq Event /\ cut' \subseteq lost'
  <2>1. CASE cancelled
    BY <1>b, <2>1, RangeType, EmptySeq DEF SendBatch, GiveUp, TypeOK
  <2>2. CASE ~cancelled
    BY <1>b, <2>2, CallsType DEF SendBatch, TypeOK
  <2>. QED BY <2>1, <2>2
<1>8. CASE RecvEvent
  <2>. DEFINE b == Append(buf, Head(eventCh))
  <2>1. /\ Head(eventCh) \in Event
        /\ Tail(eventCh) \in Seq(Event)
        /\ Len(Tail(eventCh)) = Len(eventCh) - 1
    BY <1>8, HeadTailProperties DEF RecvEvent, TypeOK
  <2>2. b \in Seq(Event) /\ Len(b) = Len(buf) + 1
    BY <2>1, AppendProperties DEF TypeOK
  <2>3. Len(buf) \in Nat /\ Len(buf) < BatchSize
    BY <1>8 DEF RecvEvent, TypeOK
  <2>. HIDE DEF b
  <2>4. CASE Len(b) >= BatchSize
    <3>1. SendBatch(b) /\ sendLoop = "select" /\ Len(b) <= BatchSize
      BY <1>8, <2>2, <2>3, <2>4 DEF RecvEvent, b
    <3>. QED BY <1>8, <1>b, <2>1, <2>2, <3>1 DEF RecvEvent, TypeOK, captureVars, readVars
  <2>5. CASE ~(Len(b) >= BatchSize)
    <3>1. buf' = b /\ UNCHANGED <<sendLoop, calls, lost, cut>>
      BY <1>8, <2>5 DEF RecvEvent, b
    <3>. QED BY <1>8, <2>1, <2>2, <2>3, <2>5, <3>1 DEF RecvEvent, TypeOK, captureVars, readVars
  <2>. QED BY <2>4, <2>5
<1>9. CASE Tick
  <2>1. buf \in Seq(Event) /\ Len(buf) <= BatchSize /\ SendBatch(buf) /\ sendLoop = "select"
    BY <1>9 DEF Tick, TypeOK
  <2>. QED BY <1>9, <1>b, <2>1 DEF Tick, TypeOK, captureVars, readVars
<1>10. CASE StopRequested
  <2>1. /\ lost' \subseteq Event /\ cut' \subseteq lost'
        /\ buf' \in Seq(Event) /\ Len(buf') = 0
    BY <1>10, RangeType, EmptySeq DEF StopRequested, GiveUp, TypeOK
  <2>. QED BY <1>10, <2>1 DEF StopRequested, TypeOK, captureVars, readVars
<1>11. CASE RpcOk \/ RpcErr
  <2>1. /\ calls' \in Seq(Call)
        /\ sendLoop' = "select"
    BY <1>11, CallsType DEF RpcOk, RpcErr, RpcReturns, TypeOK
  <2>2. buf' \in Seq(Event) /\ Len(buf') = 0
    BY <1>11, EmptySeq DEF RpcOk, RpcErr
  <2>. QED BY <1>11, <2>1, <2>2 DEF RpcOk, RpcErr, TypeOK, captureVars, readVars
<1>12. ASSUME NEW i \in DOMAIN calls, ServerHandles(i)
       PROVE  TypeOK'
  <2>1. i \in Nat
    BY DEF TypeOK
  <2>2. handled' \in Seq(Nat)
    BY <1>12, <2>1, AppendProperties DEF ServerHandles, TypeOK
  <2>. QED BY <1>12, <2>2 DEF ServerHandles, TypeOK, captureVars, readVars
<1>13. CASE Signal
  BY <1>13 DEF Signal, TypeOK, captureVars, readVars, sendVars
<1>14. CASE Join
  BY <1>14 DEF Join, TypeOK, captureVars, readVars, sendVars
<1>15. CASE UNCHANGED vars
  BY <1>15 DEF vars, TypeOK, captureVars, readVars, sendVars
<1>. QED
  BY <1>1, <1>2, <1>3, <1>4, <1>5, <1>6, <1>7, <1>8, <1>9, <1>10, <1>11, <1>12,
     <1>13, <1>14, <1>15
     DEF Next, ReadLoopNext, SendLoopNext, Terminated

(* The agent's state is well typed: in particular a ring, eventCh and buf  *)
(* never hold more than their capacities (main.go:47-51, sender.go:71-103).*)
THEOREM TypeCorrect == Spec => []TypeOK
  BY TypeInit, TypeNext, PTL DEF Spec


-----------------------------------------------------------------------------
(* Sequences                                                               *)

(* What Append, Tail and Head do to the set of a sequence's elements. *)
LEMMA RangeEmpty == Range(<<>>) = {}
  BY DEF Range

LEMMA RangeAppend ==
    ASSUME NEW S, NEW s \in Seq(S), NEW e \in S
    PROVE  Range(Append(s, e)) = Range(s) \cup {e}
<1>. DEFINE t == Append(s, e)
<1>1. /\ Len(s) \in Nat /\ DOMAIN s = 1..Len(s)
      /\ t \in Seq(S) /\ Len(t) = Len(s) + 1
      /\ \A i \in 1..Len(s) : t[i] = s[i]
      /\ t[Len(s) + 1] = e
  BY AppendProperties, LenProperties
<1>2. DOMAIN t = 1..Len(s) + 1
  BY <1>1, LenProperties
<1>3. Range(t) \subseteq Range(s) \cup {e}
  BY <1>1, <1>2 DEF Range
<1>4. Range(s) \cup {e} \subseteq Range(t)
  BY <1>1, <1>2 DEF Range
<1>. QED BY <1>3, <1>4

LEMMA RangeTail ==
    ASSUME NEW S, NEW s \in Seq(S), s # <<>>
    PROVE  Range(s) = {Head(s)} \cup Range(Tail(s))
<1>1. /\ Len(s) \in Nat \ {0} /\ DOMAIN s = 1..Len(s)
      /\ Tail(s) \in Seq(S) /\ Len(Tail(s)) = Len(s) - 1
      /\ \A i \in 1..Len(Tail(s)) : Tail(s)[i] = s[i + 1]
  BY HeadTailProperties, LenProperties, EmptySeq
<1>2. DOMAIN Tail(s) = 1..Len(s) - 1
  BY <1>1, LenProperties
<1>3. Head(s) = s[1]
  BY <1>1
<1>4. {Head(s)} \cup Range(Tail(s)) \subseteq Range(s)
  BY <1>1, <1>2, <1>3 DEF Range
<1>5. ASSUME NEW i \in DOMAIN s
      PROVE  s[i] = Head(s) \/ s[i] \in Range(Tail(s))
  <2>1. CASE i = 1
    BY <1>3, <2>1
  <2>2. CASE i # 1
    <3>1. i - 1 \in DOMAIN Tail(s) /\ Tail(s)[i - 1] = s[i]
      BY <1>1, <1>2, <2>2
    <3>. QED BY <3>1 DEF Range
  <2>. QED BY <2>1, <2>2
<1>6. Range(s) \subseteq {Head(s)} \cup Range(Tail(s))
  BY <1>5 DEF Range
<1>. QED BY <1>4, <1>6

(* A sequence of events stays ordered when its head leaves, which is then  *)
(* ahead of the rest, and when an event joins that all others are ahead of.*)
LEMMA OrderedEmpty == Ordered(<<>>)
  BY DEF Ordered

LEMMA OrderedTail ==
    ASSUME NEW s \in Seq(Event), s # <<>>, Ordered(s)
    PROVE  /\ Ordered(Tail(s))
           /\ Ahead({Head(s)}, Range(Tail(s)))
<1>1. /\ Len(s) \in Nat \ {0} /\ DOMAIN s = 1..Len(s)
      /\ Tail(s) \in Seq(Event) /\ Len(Tail(s)) = Len(s) - 1
      /\ \A i \in 1..Len(Tail(s)) : Tail(s)[i] = s[i + 1]
  BY HeadTailProperties, LenProperties, EmptySeq
<1>2. DOMAIN Tail(s) = 1..Len(s) - 1
  BY <1>1, LenProperties
<1>3. Head(s) = s[1]
  BY <1>1
<1>4. Ordered(Tail(s))
  BY <1>1, <1>2 DEF Ordered
<1>5. ASSUME NEW f \in Range(Tail(s)), s[1].cpu = f.cpu
      PROVE  s[1].n < f.n
  <2>1. PICK j \in DOMAIN Tail(s) : f = Tail(s)[j]
    BY DEF Range
  <2>2. j + 1 \in DOMAIN s /\ 1 \in DOMAIN s /\ 1 < j + 1 /\ f = s[j + 1]
    BY <1>1, <1>2, <2>1
  <2>. QED BY <1>5, <2>2 DEF Ordered
<1>. QED BY <1>3, <1>4, <1>5 DEF Ahead

LEMMA OrderedAppend ==
    ASSUME NEW s \in Seq(Event), NEW e \in Event, Ordered(s), Ahead(Range(s), {e})
    PROVE  Ordered(Append(s, e))
<1>. DEFINE t == Append(s, e)
<1>1. /\ Len(s) \in Nat /\ DOMAIN s = 1..Len(s)
      /\ t \in Seq(Event) /\ Len(t) = Len(s) + 1
      /\ \A i \in 1..Len(s) : t[i] = s[i]
      /\ t[Len(s) + 1] = e
  BY AppendProperties, LenProperties
<1>2. DOMAIN t = 1..Len(s) + 1
  BY <1>1, LenProperties
<1>3. ASSUME NEW i \in DOMAIN t, NEW j \in DOMAIN t, i < j, t[i].cpu = t[j].cpu
      PROVE  t[i].n < t[j].n
  <2>1. i \in DOMAIN s /\ t[i] = s[i]
    BY <1>1, <1>2, <1>3
  <2>2. CASE j \in DOMAIN s
    BY <1>1, <1>3, <2>1, <2>2 DEF Ordered
  <2>3. CASE j = Len(s) + 1
    <3>1. t[i] \in Range(s) /\ t[j] = e
      BY <1>1, <2>1, <2>3 DEF Range
    <3>. QED BY <1>3, <3>1 DEF Ahead
  <2>. QED BY <1>1, <1>2, <2>2, <2>3
<1>. HIDE DEF t
<1>4. Ordered(t)
  BY <1>3 DEF Ordered
<1>. QED BY <1>4 DEF t

-----------------------------------------------------------------------------
(* The calls                                                               *)

CallsOrdered(s) ==
    /\ \A k \in DOMAIN s : Ordered(s[k].events)
    /\ \A k, l \in DOMAIN s : k < l => Ahead(Range(s[k].events), Range(s[l].events))

EventsOf(s) == UNION {Range(s[k].events) : k \in DOMAIN s}

(* A new call adds the events of its batch to those of the calls. *)
LEMMA EventsOfNewCall ==
    ASSUME NEW s \in Seq(Call), NEW b \in Seq(Event)
    PROVE  LET t == Append(s, [events |-> b, client |-> "open"])
           IN  /\ DOMAIN s = 1..Len(s) /\ Len(s) \in Nat
               /\ DOMAIN t = 1..Len(s) + 1
               /\ \A i \in DOMAIN s : t[i] = s[i]
               /\ t[Len(s) + 1].events = b
               /\ EventsOf(t) = EventsOf(s) \cup Range(b)
<1>. DEFINE c == [events |-> b, client |-> "open"]
            t == Append(s, c)
<1>1. c \in Call /\ c.events = b
  BY DEF Call
<1>. HIDE DEF c
<1>2. /\ Len(s) \in Nat /\ DOMAIN s = 1..Len(s)
      /\ t \in Seq(Call) /\ Len(t) = Len(s) + 1
      /\ \A i \in 1..Len(s) : t[i] = s[i]
      /\ t[Len(s) + 1] = c
  BY <1>1, AppendProperties, LenProperties
<1>3. DOMAIN t = 1..Len(s) + 1
  BY <1>2, LenProperties
<1>. HIDE DEF t
<1>4. EventsOf(t) = EventsOf(s) \cup Range(b)
  <2>1. \A k \in DOMAIN s : k \in DOMAIN t /\ t[k] = s[k]
    BY <1>2, <1>3
  <2>2. Len(s) + 1 \in DOMAIN t /\ t[Len(s) + 1].events = b
    BY <1>1, <1>2, <1>3
  <2>3. \A k \in DOMAIN t : k \in DOMAIN s \/ k = Len(s) + 1
    BY <1>2, <1>3
  <2>. QED BY <2>1, <2>2, <2>3 DEF EventsOf
<1>5. t[Len(s) + 1].events = b /\ \A i \in DOMAIN s : t[i] = s[i]
  BY <1>1, <1>2
<1>. QED BY <1>2, <1>3, <1>4, <1>5 DEF t, c

(* A batch that is ordered and comes after all calls may be the next call. *)
LEMMA NewCall ==
    ASSUME NEW s \in Seq(Call), NEW b \in Seq(Event),
           CallsOrdered(s), Ordered(b), Ahead(EventsOf(s), Range(b))
    PROVE  LET t == Append(s, [events |-> b, client |-> "open"])
           IN  CallsOrdered(t) /\ EventsOf(t) = EventsOf(s) \cup Range(b)
<1>. DEFINE t == Append(s, [events |-> b, client |-> "open"])
<1>1. /\ DOMAIN s = 1..Len(s) /\ Len(s) \in Nat
      /\ DOMAIN t = 1..Len(s) + 1
      /\ \A i \in DOMAIN s : t[i] = s[i]
      /\ t[Len(s) + 1].events = b
      /\ EventsOf(t) = EventsOf(s) \cup Range(b)
  BY EventsOfNewCall
<1>. HIDE DEF t
<1>2. \A k \in DOMAIN t : Ordered(t[k].events)
  BY <1>1 DEF CallsOrdered
<1>3. ASSUME NEW k \in DOMAIN t, NEW l \in DOMAIN t, k < l
      PROVE  Ahead(Range(t[k].events), Range(t[l].events))
  <2>1. k \in DOMAIN s /\ t[k] = s[k]
    BY <1>1, <1>3
  <2>2. CASE l \in DOMAIN s
    BY <1>1, <1>3, <2>1, <2>2 DEF CallsOrdered
  <2>3. CASE l = Len(s) + 1
    <3>1. Range(t[k].events) \subseteq EventsOf(s)
      BY <2>1 DEF EventsOf
    <3>. QED BY <1>1, <2>3, <3>1 DEF Ahead
  <2>. QED BY <1>1, <2>2, <2>3
<1>4. CallsOrdered(t)
  BY <1>2, <1>3 DEF CallsOrdered
<1>. QED BY <1>1, <1>4 DEF t

(* The outcome of a call says nothing of its events. *)
LEMMA OutcomeKeepsEvents ==
    ASSUME NEW s \in Seq(Call), NEW o
    PROVE  LET t == [s EXCEPT ![Len(s)].client = o]
           IN  (CallsOrdered(s) => CallsOrdered(t)) /\ EventsOf(t) = EventsOf(s)
<1>. DEFINE t == [s EXCEPT ![Len(s)].client = o]
<1>1. DOMAIN t = DOMAIN s
  OBVIOUS
<1>2. ASSUME NEW k \in DOMAIN s
      PROVE  t[k].events = s[k].events
  <2>1. s[k] \in Call
    BY ElementOfSeq, LenProperties
  <2>2. [s[k] EXCEPT !.client = o].events = s[k].events
    BY <2>1 DEF Call
  <2>. QED BY <2>2
<1>. HIDE DEF t
<1>3. CallsOrdered(s) => CallsOrdered(t)
  BY <1>1, <1>2 DEF CallsOrdered
<1>4. EventsOf(t) = EventsOf(s)
  BY <1>1, <1>2 DEF EventsOf
<1>. QED BY <1>3, <1>4 DEF t

-----------------------------------------------------------------------------
(* The inductive invariant                                                 *)

CapturedSoFar == \A e \in Carried : e.n <= captured[e.cpu]

RingsByCPU == \A c \in CPUs : \A e \in Range(ring[c]) : e.cpu = c

OrderInv == TypeOK /\ PipelineOrder /\ CapturedSoFar /\ RingsByCPU

LEMMA CarriedType == TypeOK => Carried \subseteq Event
<1>. SUFFICES ASSUME TypeOK
              PROVE  Carried \subseteq Event
  OBVIOUS
<1>1. Range(buf) \cup Range(eventCh) \cup Range(hand) \subseteq Event
  BY RangeType DEF TypeOK
<1>2. InRings \subseteq Event
  BY RangeType DEF TypeOK, InRings
<1>3. InCalls \subseteq Event
  <2>1. ASSUME NEW k \in DOMAIN calls
        PROVE  Range(calls[k].events) \subseteq Event
    <3>1. calls[k] \in Call
      BY ElementOfSeq, LenProperties DEF TypeOK
    <3>2. calls[k].events \in Seq(Event)
      BY <3>1 DEF Call
    <3>. QED BY <3>2, RangeType
  <2>. QED BY <2>1 DEF InCalls
<1>. QED BY <1>1, <1>2, <1>3 DEF Carried

LEMMA OrderInit == Init => OrderInv
<1>. SUFFICES ASSUME Init
              PROVE  PipelineOrder /\ CapturedSoFar /\ RingsByCPU
  BY TypeInit DEF OrderInv
<1>1. /\ DOMAIN calls = {} /\ InCalls = {} /\ InRings = {}
      /\ Range(eventCh) = {} /\ Range(hand) = {} /\ Range(buf) = {}
      /\ Unsent = <<>> /\ eventCh = <<>>
  BY RangeEmpty DEF Init, InCalls, InRings, Unsent
<1>2. \A c \in CPUs : ring[c] = <<>>
  BY DEF Init
<1>3. PipelineOrder
  BY <1>1, <1>2, OrderedEmpty, RangeEmpty DEF PipelineOrder, Ahead
<1>4. CapturedSoFar
  BY <1>1 DEF CapturedSoFar, Carried
<1>5. RingsByCPU
  BY <1>2, RangeEmpty DEF RingsByCPU
<1>. QED BY <1>3, <1>4, <1>5

LEMMA OrderNext == OrderInv /\ [Next]_vars => OrderInv'
<1>. SUFFICES ASSUME OrderInv, [Next]_vars, TypeOK, TypeOK'
              PROVE  PipelineOrder' /\ CapturedSoFar' /\ RingsByCPU'
  BY TypeNext DEF OrderInv
<1>. USE DEF OrderInv
<1>t. /\ eventCh \in Seq(Event) /\ hand \in Seq(Event) /\ buf \in Seq(Event)
      /\ calls \in Seq(Call) /\ \A c \in CPUs : ring[c] \in Seq(Event)
  BY DEF TypeOK
<1>c. CallsOrdered(calls) /\ InCalls = EventsOf(calls)
  BY DEF PipelineOrder, CallsOrdered, InCalls, EventsOf
<1>e. \A e \in InRings \cup Range(eventCh) \cup Range(hand) : e \in Event
  BY <1>t, RangeType DEF InRings
<1>s. ASSUME UNCHANGED <<captured, ring, hand, eventCh, sendLoop, buf, calls>>
      PROVE  PipelineOrder' /\ CapturedSoFar' /\ RingsByCPU'
  BY <1>s DEF PipelineOrder, CapturedSoFar, RingsByCPU, Carried, Unsent, InCalls, InRings
<1>1. ASSUME NEW c \in CPUs, CaptureSample(c)
      PROVE  PipelineOrder' /\ CapturedSoFar' /\ RingsByCPU'
  <2>. DEFINE e == [cpu |-> c, n |-> captured[c] + 1]
  <2>1. /\ UNCHANGED <<hand, eventCh, sendLoop, buf, calls>>
        /\ captured' = [captured EXCEPT ![c] = @ + 1]
        /\ captured \in [CPUs -> Nat]
    BY <1>1 DEF CaptureSample, readVars, sendVars, TypeOK
  <2>2. /\ InCalls' = InCalls /\ Unsent' = Unsent
        /\ Range(hand)' = Range(hand) /\ Range(eventCh)' = Range(eventCh)
        /\ Range(buf)' = Range(buf) /\ Range(Unsent) \subseteq Range(buf)
    BY <2>1, RangeEmpty DEF InCalls, Unsent
  <2>3. e \in Event /\ e.cpu = c /\ e.n = captured[c] + 1
    <3>1. captured[c] \in 0..MaxPackets /\ captured[c] < MaxPackets
      BY <1>1 DEF CaptureSample, TypeOK
    <3>2. captured[c] + 1 \in 1..MaxPackets
      BY <3>1, ConstantsType
    <3>. QED BY <1>1, <3>2 DEF Event
  <2>4. ring' = ring \/ ring' = [ring EXCEPT ![c] = Append(@, e)]
    BY <1>1 DEF CaptureSample
  <2>. HIDE DEF e
  <2>5. \A d \in CPUs : Range(ring[d])' = Range(ring[d])
                        \/ (d = c /\ Range(ring[d])' = Range(ring[d]) \cup {e})
    <3>1. Range(Append(ring[c], e)) = Range(ring[c]) \cup {e}
      BY <1>1, <1>t, <2>3, RangeAppend
    <3>. QED BY <2>4, <3>1 DEF TypeOK
  <2>6. InRings' \subseteq InRings \cup {e}
    BY <2>5 DEF InRings
  <2>7. \A f \in Carried : f.cpu = c => f.n < e.n
    <3>1. ASSUME NEW f \in Carried, f.cpu = c
          PROVE  f.n < e.n
      <4>1. f.n <= captured[c]
        BY <3>1 DEF CapturedSoFar
      <4>2. f \in Event
        BY <3>1, CarriedType
      <4>. QED BY <2>1, <2>3, <4>1, <4>2 DEF Event
    <3>. QED BY <3>1
  <2>8. \A d \in CPUs : Ordered(ring[d])'
    <3>1. CASE ring' = ring
      BY <3>1 DEF PipelineOrder
    <3>2. CASE ring' = [ring EXCEPT ![c] = Append(@, e)]
      <4>1. Ahead(Range(ring[c]), {e})
        BY <1>1, <2>3, <2>7 DEF Ahead, Carried, InRings
      <4>2. Ordered(Append(ring[c], e))
        BY <1>1, <1>t, <2>3, <4>1, OrderedAppend DEF PipelineOrder
      <4>. QED BY <3>2, <4>2 DEF PipelineOrder, TypeOK
    <3>. QED BY <2>4, <3>1, <3>2
  <2>9. PipelineOrder'
    <3>1. \A f \in InCalls \cup Range(Unsent) \cup Range(eventCh) \cup Range(hand) :
              f.cpu = e.cpu => f.n < e.n
      BY <2>2, <2>3, <2>7 DEF Carried
    <3>. QED BY <2>1, <2>2, <2>6, <2>8, <3>1 DEF PipelineOrder, Ahead
  <2>10. CapturedSoFar'
    <3>1. Carried' \subseteq Carried \cup {e}
      BY <2>2, <2>6 DEF Carried
    <3>2. ASSUME NEW f \in Carried
          PROVE  f.n <= captured'[f.cpu]
      <4>1. f \in Event /\ f.n <= captured[f.cpu]
        BY <3>2, CarriedType DEF CapturedSoFar
      <4>2. f.cpu \in CPUs /\ f.n \in Nat
        BY <4>1 DEF Event
      <4>. QED BY <2>1, <4>1, <4>2
    <3>3. e.n <= captured'[e.cpu]
      BY <2>1, <2>3
    <3>. QED BY <3>1, <3>2, <3>3 DEF CapturedSoFar
  <2>11. RingsByCPU'
    BY <2>3, <2>5 DEF RingsByCPU
  <2>. QED BY <2>9, <2>10, <2>11
<1>2. ASSUME NEW c \in CPUs, ReadSample(c)
      PROVE  PipelineOrder' /\ CapturedSoFar' /\ RingsByCPU'
  <2>. DEFINE h == Head(ring[c])
  <2>1. /\ UNCHANGED <<captured, eventCh, sendLoop, buf, calls>>
        /\ ring[c] # <<>> /\ hand' = <<h>>
        /\ ring' = [ring EXCEPT ![c] = Tail(@)]
    BY <1>2 DEF ReadSample, sendVars
  <2>2. /\ InCalls' = InCalls /\ Unsent' = Unsent
        /\ Range(eventCh)' = Range(eventCh) /\ Range(buf)' = Range(buf)
        /\ Range(hand)' = {h}
    BY <2>1 DEF InCalls, Unsent, Range
  <2>3. /\ h \in Range(ring[c]) /\ Range(Tail(ring[c])) \subseteq Range(ring[c])
        /\ Ordered(Tail(ring[c])) /\ Ahead({h}, Range(Tail(ring[c])))
    BY <1>2, <1>t, <2>1, RangeTail, OrderedTail DEF PipelineOrder
  <2>4. \A d \in CPUs : ring'[d] = IF d = c THEN Tail(ring[c]) ELSE ring[d]
    BY <2>1 DEF TypeOK
  <2>5. h \in InRings /\ InRings' \subseteq InRings
    BY <1>2, <2>3, <2>4 DEF InRings
  <2>6. Ahead({h}, InRings')
    BY <1>2, <2>3, <2>4 DEF Ahead, InRings, RingsByCPU
  <2>7. \A d \in CPUs : Ordered(ring[d])'
    BY <2>3, <2>4 DEF PipelineOrder
  <2>8. PipelineOrder'
    BY <2>1, <2>2, <2>5, <2>6, <2>7 DEF PipelineOrder, Ahead
  <2>9. CapturedSoFar'
    BY <2>1, <2>2, <2>5 DEF CapturedSoFar, Carried
  <2>10. RingsByCPU'
    BY <2>3, <2>4 DEF RingsByCPU
  <2>. QED BY <2>8, <2>9, <2>10
<1>3. CASE Offer
  <2>1. /\ UNCHANGED <<captured, ring, sendLoop, buf, calls>>
        /\ hand' = <<>>
        /\ eventCh' = eventCh \/ eventCh' = eventCh \o hand
        /\ Len(hand) = 1
    BY <1>3 DEF Offer, captureVars, sendVars, TypeOK
  <2>. DEFINE h == hand[1]
  <2>2. hand = <<h>> /\ h \in Event /\ Range(hand) = {h}
    <3>1. DOMAIN hand = {1}
      BY <1>t, <2>1, LenProperties
    <3>2. hand = <<h>>
      BY <1>t, <2>1
    <3>3. h \in Range(hand) /\ Range(hand) = {h}
      BY <3>1 DEF Range
    <3>. QED BY <1>e, <3>2, <3>3
  <2>3. eventCh \o hand = Append(eventCh, h)
    BY <1>t, <2>2, AppendIsConcat
  <2>. HIDE DEF h
  <2>4. /\ InCalls' = InCalls /\ InRings' = InRings /\ Unsent' = Unsent
        /\ Range(buf)' = Range(buf) /\ Range(hand)' = {}
        /\ \A d \in CPUs : Ordered(ring[d])' = Ordered(ring[d])
    BY <2>1, RangeEmpty DEF InCalls, InRings, Unsent
  <2>5. Range(eventCh)' \subseteq Range(eventCh) \cup Range(hand)
    <3>1. Range(Append(eventCh, h)) = Range(eventCh) \cup {h}
      BY <1>t, <2>2, RangeAppend
    <3>. QED BY <2>1, <2>2, <2>3, <3>1
  <2>6. Ordered(eventCh)'
    <3>1. Ahead(Range(eventCh), {h})
      BY <2>2 DEF PipelineOrder, Ahead
    <3>2. Ordered(Append(eventCh, h))
      BY <1>t, <2>2, <3>1, OrderedAppend DEF PipelineOrder
    <3>. QED BY <2>1, <2>3, <3>2 DEF PipelineOrder
  <2>7. PipelineOrder'
    BY <2>1, <2>4, <2>5, <2>6 DEF PipelineOrder, Ahead
  <2>8. CapturedSoFar'
    BY <2>1, <2>4, <2>5 DEF CapturedSoFar, Carried
  <2>9. RingsByCPU'
    BY <2>1 DEF RingsByCPU
  <2>. QED BY <2>7, <2>8, <2>9
<1>4. CASE CloseReader
  <2>1. /\ UNCHANGED <<captured, hand, eventCh, sendLoop, buf, calls>>
        /\ \A c \in CPUs : ring'[c] = <<>>
    BY <1>4 DEF CloseReader, sendVars
  <2>2. /\ InCalls' = InCalls /\ Unsent' = Unsent
        /\ Range(hand)' = Range(hand) /\ Range(eventCh)' = Range(eventCh)
        /\ Range(buf)' = Range(buf) /\ InRings' = {}
        /\ \A c \in CPUs : Ordered(ring[c])' /\ Range(ring[c])' = {}
    BY <2>1, RangeEmpty, OrderedEmpty DEF InCalls, InRings, Unsent
  <2>3. PipelineOrder'
    BY <2>1, <2>2 DEF PipelineOrder, Ahead
  <2>4. CapturedSoFar'
    BY <2>1, <2>2 DEF CapturedSoFar, Carried
  <2>5. RingsByCPU'
    BY <2>2 DEF RingsByCPU
  <2>. QED BY <2>3, <2>4, <2>5
(* The events of b move from the batch into a new call, or are given up. *)
<1>b. ASSUME NEW b \in Seq(Event), UNCHANGED <<captured, ring, hand>>, SendBatch(b),
             sendLoop = "select",
             Ordered(b), Ordered(eventCh)', Range(eventCh)' \subseteq Range(eventCh),
             Ahead(InCalls, Range(b)),
             Ahead(Range(b), Range(eventCh)' \cup Range(hand) \cup InRings),
             \A e \in Range(b) : e.n <= captured[e.cpu]
      PROVE  PipelineOrder' /\ CapturedSoFar' /\ RingsByCPU'
  <2>1. /\ CallsOrdered(calls)'
        /\ InCalls' \subseteq InCalls \cup Range(b) /\ Range(buf)' \subseteq Range(b)
        /\ Unsent' = <<>>
    <3>1. EventsOf(calls)' = InCalls' /\ EventsOf(calls) = InCalls
      BY DEF EventsOf, InCalls
    <3>2. CASE cancelled
      <4>1. buf' = <<>> /\ UNCHANGED <<sendLoop, calls>>
        BY <1>b, <3>2 DEF SendBatch, GiveUp
      <4>. QED BY <1>b, <1>c, <3>1, <4>1, RangeEmpty DEF Unsent
    <3>3. CASE ~cancelled
      <4>1. /\ calls' = Append(calls, [events |-> b, client |-> "open"])
            /\ sendLoop' = "sending" /\ buf' = b
        BY <1>b, <3>3 DEF SendBatch
      <4>. QED BY <1>b, <1>c, <1>t, <3>1, <4>1, NewCall DEF Unsent
    <3>. QED BY <3>2, <3>3
  <2>2. /\ Range(Unsent)' = {} /\ Ordered(Unsent)'
        /\ InRings' = InRings /\ Range(hand)' = Range(hand)
        /\ \A d \in CPUs : Ordered(ring[d])' = Ordered(ring[d])
    BY <1>b, <2>1, RangeEmpty, OrderedEmpty DEF InRings
  <2>3. PipelineOrder'
    BY <1>b, <2>1, <2>2 DEF PipelineOrder, CallsOrdered, Ahead
  <2>4. CapturedSoFar'
    BY <1>b, <2>1, <2>2 DEF CapturedSoFar, Carried
  <2>5. RingsByCPU'
    BY <1>b DEF RingsByCPU
  <2>. QED BY <2>3, <2>4, <2>5
<1>5. CASE RecvEvent
  <2>. DEFINE h == Head(eventCh)
              b == Append(buf, h)
  <2>1. /\ UNCHANGED <<captured, ring, hand>>
        /\ sendLoop = "select" /\ eventCh # <<>>
        /\ eventCh' = Tail(eventCh)
    BY <1>5 DEF RecvEvent, captureVars, readVars
  <2>2. /\ h \in Range(eventCh) /\ Range(eventCh)' \subseteq Range(eventCh)
        /\ Ordered(eventCh)' /\ Ahead({h}, Range(eventCh)')
    BY <1>t, <2>1, RangeTail, OrderedTail DEF PipelineOrder
  <2>3. h \in Event
    BY <1>e, <2>2
  <2>4. Unsent = buf
    BY <2>1 DEF Unsent
  <2>5. /\ IF Len(b) >= BatchSize THEN SendBatch(b)
                                  ELSE buf' = b /\ UNCHANGED <<sendLoop, calls, lost, cut>>
    BY <1>5 DEF RecvEvent
  <2>. HIDE DEF h
  <2>6. b \in Seq(Event) /\ Range(b) = Range(buf) \cup {h}
    BY <1>t, <2>3, AppendProperties, RangeAppend
  <2>7. Ordered(b)
    <3>1. Ahead(Range(buf), {h})
      BY <2>2, <2>4 DEF PipelineOrder, Ahead
    <3>. QED BY <1>t, <2>3, <2>4, <3>1, OrderedAppend DEF PipelineOrder
  <2>. HIDE DEF b
  <2>8. Ahead(InCalls, Range(b))
    BY <2>2, <2>4, <2>6 DEF PipelineOrder, Ahead
  <2>9. Ahead(Range(b), Range(eventCh)' \cup Range(hand) \cup InRings)
    BY <2>2, <2>4, <2>6 DEF PipelineOrder, Ahead
  <2>10. \A e \in Range(b) : e.n <= captured[e.cpu]
    BY <2>2, <2>6 DEF CapturedSoFar, Carried
  <2>11. CASE Len(b) >= BatchSize
    BY <1>b, <2>1, <2>2, <2>5, <2>6, <2>7, <2>8, <2>9, <2>10, <2>11
  <2>12. CASE ~(Len(b) >= BatchSize)
    <3>1. buf' = b /\ UNCHANGED <<sendLoop, calls>>
      BY <2>5, <2>12
    <3>2. /\ InCalls' = InCalls /\ InRings' = InRings /\ Unsent' = b
          /\ Range(hand)' = Range(hand)
          /\ \A d \in CPUs : Ordered(ring[d])' = Ordered(ring[d])
      BY <2>1, <3>1 DEF InCalls, InRings, Unsent
    <3>3. PipelineOrder'
      BY <2>2, <2>7, <2>8, <2>9, <3>1, <3>2 DEF PipelineOrder, Ahead
    <3>4. CapturedSoFar'
      BY <2>1, <2>2, <2>10, <3>1, <3>2 DEF CapturedSoFar, Carried
    <3>5. RingsByCPU'
      BY <2>1 DEF RingsByCPU
    <3>. QED BY <3>3, <3>4, <3>5
  <2>. QED BY <2>11, <2>12
<1>6. CASE Tick
  <2>1. UNCHANGED <<captured, ring, hand, eventCh>> /\ SendBatch(buf) /\ sendLoop = "select"
    BY <1>6 DEF Tick, captureVars, readVars
  <2>2. Unsent = buf
    BY <2>1 DEF Unsent
  <2>3. /\ Ordered(buf) /\ Ordered(eventCh)' /\ Range(eventCh)' = Range(eventCh)
        /\ Ahead(InCalls, Range(buf))
        /\ Ahead(Range(buf), Range(eventCh)' \cup Range(hand) \cup InRings)
    BY <2>1, <2>2 DEF PipelineOrder, Ahead
  <2>4. \A e \in Range(buf) : e.n <= captured[e.cpu]
    BY DEF CapturedSoFar, Carried
  <2>. QED BY <1>t, <1>b, <2>1, <2>3, <2>4
<1>8. CASE StopRequested
  <2>1. /\ UNCHANGED <<captured, ring, hand, eventCh, calls>> /\ buf' = <<>>
    BY <1>8 DEF StopRequested, GiveUp, captureVars, readVars
  <2>2. /\ Unsent' = <<>> /\ Range(Unsent)' = {} /\ Range(buf)' = {} /\ Ordered(Unsent)'
        /\ InCalls' = InCalls /\ InRings' = InRings
        /\ Range(hand)' = Range(hand) /\ Range(eventCh)' = Range(eventCh)
    BY <2>1, RangeEmpty, OrderedEmpty DEF Unsent, InCalls, InRings
  <2>3. PipelineOrder'
    BY <2>1, <2>2 DEF PipelineOrder, Ahead
  <2>4. CapturedSoFar'
    BY <2>1, <2>2 DEF CapturedSoFar, Carried
  <2>5. RingsByCPU'
    BY <2>1 DEF RingsByCPU
  <2>. QED BY <2>3, <2>4, <2>5
<1>9. CASE RpcOk \/ RpcErr
  <2>1. /\ UNCHANGED <<captured, ring, hand, eventCh>>
        /\ buf' = <<>>
        /\ \E o \in {"ok", "err"} : calls' = [calls EXCEPT ![Len(calls)].client = o]
        /\ sendLoop = "sending" /\ sendLoop' = "select"
    BY <1>9 DEF RpcOk, RpcErr, RpcReturns, captureVars, readVars
  <2>2. CallsOrdered(calls)' /\ InCalls' = InCalls
    <3>1. InCalls' = EventsOf(calls)'
      BY DEF EventsOf, InCalls
    <3>. QED BY <1>c, <1>t, <2>1, <3>1, OutcomeKeepsEvents
  <2>3. /\ Unsent' = <<>> /\ Range(Unsent)' = {} /\ Ordered(Unsent)' /\ Range(buf)' = {}
        /\ InRings' = InRings /\ Range(hand)' = Range(hand)
        /\ Range(eventCh)' = Range(eventCh) /\ Ordered(eventCh)' = Ordered(eventCh)
        /\ \A d \in CPUs : Ordered(ring[d])' = Ordered(ring[d])
    BY <2>1, RangeEmpty, OrderedEmpty DEF Unsent, InRings
  <2>4. PipelineOrder'
    BY <2>2, <2>3 DEF PipelineOrder, CallsOrdered, Ahead
  <2>5. CapturedSoFar'
    BY <2>1, <2>2, <2>3 DEF CapturedSoFar, Carried
  <2>6. RingsByCPU'
    BY <2>1 DEF RingsByCPU
  <2>. QED BY <2>4, <2>5, <2>6
<1>10. CASE ReadLoopStart \/ ReadLoopStartFails \/ ReadLoopReturns
  BY <1>10, <1>s DEF ReadLoopStart, ReadLoopStartFails, ReadLoopReturns, captureVars, sendVars
<1>11. CASE \E i \in DOMAIN calls : ServerHandles(i)
  BY <1>11, <1>s DEF ServerHandles, captureVars, readVars
<1>12. CASE Signal \/ Join \/ UNCHANGED vars
  BY <1>12, <1>s DEF Signal, Join, vars, captureVars, readVars, sendVars
<1>. QED
  BY <1>1, <1>2, <1>3, <1>4, <1>5, <1>6, <1>8, <1>9, <1>10, <1>11, <1>12
     DEF Next, ReadLoopNext, SendLoopNext, Terminated

(* The events of one CPU stay in capture order through the rings, the      *)
(* channel, the batch and the calls, and none is sent twice                *)
(* (collector.go:144-148, sender.go:84-109).                               *)
THEOREM OrderKept == Spec => []PipelineOrder
<1>1. Spec => []OrderInv
  BY OrderInit, OrderNext, PTL DEF Spec
<1>2. OrderInv => PipelineOrder
  BY DEF OrderInv
<1>. QED BY <1>1, <1>2, PTL

-----------------------------------------------------------------------------
(* The order of the handlers                                               *)

NoTimeout == \A k \in DOMAIN calls : calls[k].client # "err"

SerialInv ==
    /\ TypeOK
    /\ \A k \in DOMAIN calls : calls[k].client = "open"
                                  => k = Len(calls) /\ sendLoop = "sending"
    /\ \A k \in DOMAIN calls : calls[k].client = "ok" => k \in Range(handled)
    /\ sendLoop = "sending" => calls # <<>> /\ calls[Len(calls)].client = "open"
    /\ Range(handled) \subseteq DOMAIN calls
    /\ InOrderWithoutTimeout

LEMMA SerialInit == Init => SerialInv
<1>. SUFFICES ASSUME Init
              PROVE  /\ DOMAIN calls = {} /\ DOMAIN handled = {}
  BY TypeInit DEF SerialInv, Init, Range, InOrderWithoutTimeout
<1>. QED BY DEF Init

(* A new call is open, and the others keep their state. *)
LEMMA SerialNewCall ==
    ASSUME SerialInv, TypeOK', sendLoop = "select", UNCHANGED handled,
           NEW b \in Seq(Event), SendBatch(b), ~cancelled
    PROVE  SerialInv'
<1>1. /\ calls \in Seq(Call) /\ handled \in Seq(Nat) /\ handled' = handled
      /\ calls' = Append(calls, [events |-> b, client |-> "open"])
      /\ sendLoop' = "sending"
      /\ [events |-> b, client |-> "open"] \in Call
  BY DEF SerialInv, TypeOK, SendBatch, Call
<1>2. /\ Len(calls) \in Nat /\ DOMAIN calls = 1..Len(calls)
      /\ calls' \in Seq(Call) /\ Len(calls') = Len(calls) + 1
      /\ \A k \in DOMAIN calls : calls'[k] = calls[k]
      /\ calls'[Len(calls) + 1].client = "open"
  BY <1>1, AppendProperties, LenProperties
<1>3. DOMAIN calls' = 1..Len(calls) + 1
  BY <1>2, LenProperties
<1>4. \A k \in DOMAIN calls' : k = Len(calls') \/ (k \in DOMAIN calls /\ calls'[k] = calls[k])
  BY <1>2, <1>3
<1>5. InOrderWithoutTimeout'
  <2>1. NoTimeout' => NoTimeout
    BY <1>2, <1>3 DEF NoTimeout
  <2>. QED BY <1>1, <2>1 DEF SerialInv, InOrderWithoutTimeout, NoTimeout
<1>6. calls' # <<>> /\ calls'[Len(calls')].client = "open"
  BY <1>2
<1>7. \A k \in DOMAIN calls' : calls'[k].client = "open"
                                  => k = Len(calls') /\ sendLoop' = "sending"
  BY <1>1, <1>4 DEF SerialInv
<1>8. \A k \in DOMAIN calls' : calls'[k].client = "ok" => k \in Range(handled')
  BY <1>1, <1>2, <1>4 DEF SerialInv
<1>9. Range(handled') \subseteq DOMAIN calls'
  BY <1>1, <1>2, <1>3 DEF SerialInv
<1>. QED BY <1>1, <1>5, <1>6, <1>7, <1>8, <1>9 DEF SerialInv

(* Without a timeout the call that is handled is the last one. *)
LEMMA SerialHandles ==
    ASSUME SerialInv, TypeOK', NEW i \in DOMAIN calls, ServerHandles(i)
    PROVE  SerialInv'
<1>1. /\ calls \in Seq(Call) /\ handled \in Seq(Nat) /\ i \in Nat
      /\ UNCHANGED <<calls, sendLoop>> /\ i \notin Range(handled)
      /\ handled' = Append(handled, i)
  BY DEF SerialInv, TypeOK, ServerHandles
<1>2. /\ Len(handled) \in Nat /\ DOMAIN handled = 1..Len(handled)
      /\ handled' \in Seq(Nat) /\ Len(handled') = Len(handled) + 1
      /\ \A k \in DOMAIN handled : handled'[k] = handled[k]
      /\ handled'[Len(handled) + 1] = i
      /\ Len(calls) \in Nat /\ DOMAIN calls = 1..Len(calls)
  BY <1>1, AppendProperties, LenProperties
<1>3. DOMAIN handled' = 1..Len(handled) + 1
  BY <1>2, LenProperties
<1>4. Range(handled') = Range(handled) \cup {i}
  BY <1>2, <1>3 DEF Range
<1>5. InOrderWithoutTimeout'
  <2>. SUFFICES ASSUME NoTimeout
                PROVE  \A k \in DOMAIN handled' : handled'[k] = k
    BY <1>1 DEF InOrderWithoutTimeout, NoTimeout
  <2>1. \A k \in DOMAIN handled : handled[k] = k
    BY DEF SerialInv, InOrderWithoutTimeout, NoTimeout
  <2>2. Range(handled) = 1..Len(handled)
    BY <1>2, <2>1 DEF Range
  <2>3. \A k \in DOMAIN calls : k # Len(calls) => k \in Range(handled)
    <3>1. ASSUME NEW k \in DOMAIN calls
          PROVE  calls[k].client \in {"open", "ok"}
      <4>1. calls[k] \in Call
        BY <1>1
      <4>. QED BY <4>1 DEF NoTimeout, Call
    <3>. QED BY <3>1 DEF SerialInv
  <2>4. i = Len(calls) /\ i > Len(handled)
    BY <1>1, <1>2, <2>2, <2>3
  <2>5. Len(calls) <= Len(handled) + 1
    BY <1>2, <2>2, <2>3, <2>4
  <2>6. i = Len(handled) + 1
    <3>1. Len(handled) \in Nat /\ Len(calls) \in Nat
      BY <1>2
    <3>. QED BY <2>4, <2>5, <3>1
  <2>. QED BY <1>2, <1>3, <2>1, <2>6
<1>. QED BY <1>1, <1>4, <1>5 DEF SerialInv

(* The call in flight is the last one; that it returns an answer, its      *)
(* handler must have run.                                                  *)
LEMMA SerialReturns ==
    ASSUME SerialInv, TypeOK', RpcOk \/ RpcErr
    PROVE  SerialInv'
<1>1. /\ calls \in Seq(Call) /\ handled' = handled /\ calls # <<>>
      /\ sendLoop' = "select"
  BY DEF SerialInv, TypeOK, RpcOk, RpcErr, RpcReturns
<1>2. Len(calls) \in Nat /\ DOMAIN calls = 1..Len(calls) /\ Len(calls) \in DOMAIN calls
  BY <1>1, LenProperties, EmptySeq
<1>3. PICK o \in {"ok", "err"} :
          /\ calls' = [calls EXCEPT ![Len(calls)].client = o]
          /\ o = "ok" => Len(calls) \in Range(handled)
  BY DEF RpcOk, RpcErr, RpcReturns
<1>4. /\ DOMAIN calls' = DOMAIN calls
      /\ \A k \in DOMAIN calls : k # Len(calls) => calls'[k] = calls[k]
      /\ calls'[Len(calls)].client = o
  <2>1. calls[Len(calls)] \in Call
    BY <1>1, <1>2
  <2>2. calls'[Len(calls)] = [calls[Len(calls)] EXCEPT !.client = o]
    BY <1>2, <1>3
  <2>. QED BY <1>2, <1>3, <2>1, <2>2 DEF Call
<1>5. \A k \in DOMAIN calls' : calls'[k].client # "open"
  BY <1>3, <1>4 DEF SerialInv
<1>6. \A k \in DOMAIN calls' : calls'[k].client = "ok" => k \in Range(handled')
  BY <1>1, <1>3, <1>4 DEF SerialInv
<1>7. InOrderWithoutTimeout'
  <2>1. SUFFICES ASSUME NoTimeout'
                 PROVE  NoTimeout
    BY <1>1, <2>1 DEF SerialInv, InOrderWithoutTimeout, NoTimeout
  <2>2. calls[Len(calls)].client # "err"
    BY <1>2 DEF SerialInv, RpcOk, RpcErr, RpcReturns
  <2>. QED BY <1>4, <2>1, <2>2 DEF NoTimeout
<1>. QED BY <1>1, <1>4, <1>5, <1>6, <1>7 DEF SerialInv

LEMMA SerialNext == SerialInv /\ [Next]_vars => SerialInv'
<1>. SUFFICES ASSUME SerialInv, [Next]_vars, TypeOK, TypeOK'
              PROVE  SerialInv'
  BY TypeNext DEF SerialInv
<1>s. ASSUME UNCHANGED <<sendLoop, calls, handled>>
      PROVE  SerialInv'
  BY <1>s DEF SerialInv, InOrderWithoutTimeout
<1>t. buf \in Seq(Event) /\ eventCh \in Seq(Event)
  BY DEF TypeOK
<1>b. ASSUME NEW b \in Seq(Event), SendBatch(b), sendLoop = "select", UNCHANGED handled
      PROVE  SerialInv'
  <2>1. CASE cancelled
    BY <1>b, <1>s, <2>1 DEF SendBatch
  <2>2. CASE ~cancelled
    BY <1>b, <2>2, SerialNewCall
  <2>. QED BY <2>1, <2>2
<1>1. CASE RecvEvent
  <2>. DEFINE b == Append(buf, Head(eventCh))
  <2>1. b \in Seq(Event)
    BY <1>1, <1>t, HeadTailProperties, AppendProperties DEF RecvEvent
  <2>2. CASE Len(b) >= BatchSize
    BY <1>1, <1>b, <2>1, <2>2 DEF RecvEvent
  <2>3. CASE ~(Len(b) >= BatchSize)
    BY <1>1, <1>s, <2>3 DEF RecvEvent
  <2>. QED BY <2>2, <2>3
<1>2. CASE Tick
  BY <1>2, <1>t, <1>b DEF Tick
<1>3. CASE StopRequested
  BY <1>3 DEF StopRequested, SerialInv, InOrderWithoutTimeout
<1>4. CASE RpcOk \/ RpcErr
  BY <1>4, SerialReturns
<1>5. ASSUME NEW i \in DOMAIN calls, ServerHandles(i)
      PROVE  SerialInv'
  BY <1>5, SerialHandles
<1>. QED
  BY <1>s, <1>1, <1>2, <1>3, <1>4, <1>5
     DEF Next, ReadLoopNext, SendLoopNext, CaptureSample, ReadLoopStart, ReadLoopStartFails,
         ReadSample, Offer, ReadLoopReturns, CloseReader, Signal, Join, Terminated, vars,
         sendVars

(* As long as no call has failed at the client the collector handles the   *)
(* batches in the order they were cut, each once (sender.go:75-109): in    *)
(* SendLoop a batch is only cut when the call before has returned.         *)
THEOREM ServerOrder == Spec => []InOrderWithoutTimeout
<1>1. Spec => []SerialInv
  BY SerialInit, SerialNext, PTL DEF Spec
<1>2. SerialInv => InOrderWithoutTimeout
  BY DEF SerialInv
<1>. QED BY <1>1, <1>2, PTL

-----------------------------------------------------------------------------
(* Losses                                                                  *)

ControlInv ==
    /\ sendLoop = "sending" => Range(buf) \subseteq InCalls
    /\ sendLoop = "done" => buf = <<>>
    /\ reader # "open" => \A c \in CPUs : ring[c] = <<>>
    /\ readLoop \in {"start", "failed"} => reader = "none"
    /\ readLoop = "done" => reader = "closed"
    /\ mainPc = "exited" => sendLoop = "done" /\ readLoop \in {"failed", "done"}

LossInv == TypeOK /\ ControlInv /\ Accounted

CapturedEvents == {e \in Event : e.n <= captured[e.cpu]}

-----------------------------------------------------------------------------
(* The control of the loops                                                *)

LEMMA ControlNext == TypeOK /\ ControlInv /\ [Next]_vars => ControlInv'
<1>. SUFFICES ASSUME TypeOK, ControlInv, [Next]_vars
              PROVE  ControlInv'
  OBVIOUS
<1>t. buf \in Seq(Event) /\ eventCh \in Seq(Event) /\ calls \in Seq(Call)
  BY DEF TypeOK
<1>c. InCalls = EventsOf(calls) /\ InCalls' = EventsOf(calls')
  BY DEF InCalls, EventsOf
(* A call that is issued carries the whole batch. *)
<1>b. ASSUME NEW b \in Seq(Event), SendBatch(b), sendLoop = "select"
      PROVE  /\ sendLoop' \in {"select", "sending"}
             /\ sendLoop' = "sending" => Range(buf') \subseteq InCalls'
  BY <1>b, <1>c, <1>t, EventsOfNewCall DEF SendBatch
<1>1. ASSUME NEW c \in CPUs, CaptureSample(c)
      PROVE  ControlInv'
  BY <1>1 DEF CaptureSample, ControlInv, InCalls, readVars, sendVars
<1>2. CASE ReadLoopStart \/ ReadLoopStartFails \/ ReadLoopReturns
  BY <1>2 DEF ReadLoopStart, ReadLoopStartFails, ReadLoopReturns, ControlInv, InCalls,
              captureVars, sendVars
<1>3. ASSUME NEW c \in CPUs, ReadSample(c)
      PROVE  ControlInv'
  BY <1>3 DEF ReadSample, ControlInv, InCalls, sendVars
<1>4. CASE Offer
  BY <1>4 DEF Offer, ControlInv, InCalls, captureVars, sendVars
<1>5. CASE CloseReader
  BY <1>5 DEF CloseReader, ControlInv, InCalls, sendVars
<1>6. CASE RecvEvent
  <2>. DEFINE b == Append(buf, Head(eventCh))
  <2>1. b \in Seq(Event)
    BY <1>6, <1>t, HeadTailProperties, AppendProperties DEF RecvEvent
  <2>2. sendLoop = "select" /\ mainPc # "exited"
    BY <1>6 DEF RecvEvent, ControlInv
  <2>3. /\ sendLoop' \in {"select", "sending"}
        /\ sendLoop' = "sending" => Range(buf') \subseteq InCalls'
    <3>1. SendBatch(b) \/ sendLoop' = "select"
      BY <1>6 DEF RecvEvent
    <3>. QED BY <1>b, <2>1, <2>2, <3>1
  <2>. QED BY <1>6, <2>2, <2>3 DEF RecvEvent, ControlInv, captureVars, readVars
<1>7. CASE Tick
  <2>1. /\ sendLoop' \in {"select", "sending"} /\ mainPc # "exited"
        /\ sendLoop' = "sending" => Range(buf') \subseteq InCalls'
    BY <1>7, <1>b, <1>t DEF Tick, ControlInv
  <2>. QED BY <1>7, <2>1 DEF Tick, ControlInv, captureVars, readVars
<1>8. CASE StopRequested
  BY <1>8 DEF StopRequested, GiveUp, ControlInv, captureVars, readVars
<1>9. CASE RpcOk \/ RpcErr
  BY <1>9 DEF RpcOk, RpcErr, RpcReturns, ControlInv, captureVars, readVars
<1>10. CASE \E i \in DOMAIN calls : ServerHandles(i)
  BY <1>10 DEF ServerHandles, ControlInv, InCalls, captureVars, readVars
<1>11. CASE Signal \/ Join \/ UNCHANGED vars
  BY <1>11 DEF Signal, Join, ControlInv, InCalls, vars, captureVars, readVars, sendVars
<1>. QED
  BY <1>1, <1>2, <1>3, <1>4, <1>5, <1>6, <1>7, <1>8, <1>9, <1>10, <1>11
     DEF Next, ReadLoopNext, SendLoopNext, Terminated

-----------------------------------------------------------------------------
(* Every event captured is carried or lost                                 *)

LEMMA LossInit == Init => LossInv
<1>. SUFFICES ASSUME Init
              PROVE  ControlInv /\ Accounted
  BY TypeInit DEF LossInv
<1>1. ControlInv
  BY DEF Init, ControlInv
<1>2. CapturedEvents = {}
  BY DEF Init, CapturedEvents, Event
<1>3. Carried = {}
  <2>1. InCalls = {} /\ InRings = {}
    BY RangeEmpty DEF Init, InCalls, InRings
  <2>. QED BY <2>1, RangeEmpty DEF Init, Carried
<1>. QED BY <1>1, <1>2, <1>3 DEF Init, Accounted, CapturedEvents

(* What a step does to the events carried and lost: nothing, or one more   *)
(* is captured, or some leave the pipeline and only the rest stays.        *)
Keeps == UNCHANGED <<captured, lost>> /\ Carried' = Carried

Gains(e) ==
    /\ UNCHANGED calls
    /\ e.n = captured[e.cpu] + 1
    /\ captured' = [captured EXCEPT ![e.cpu] = @ + 1]
    /\ CapturedEvents' = CapturedEvents \cup {e}
    /\ \/ lost' = lost /\ Carried' = Carried \cup {e}
       \/ lost' = lost \cup {e} /\ Carried' = Carried

Loses(S, rest) ==
    /\ UNCHANGED <<captured, calls>>
    /\ lost' = lost \cup S
    /\ Carried = rest \cup S
    /\ Carried' = rest

LosesHand == Loses(Range(hand), InCalls \cup Range(buf) \cup Range(eventCh) \cup InRings)
LosesRings == Loses(InRings, InCalls \cup Range(buf) \cup Range(eventCh) \cup Range(hand))

(* send() under the cancelled ctx: with the event just taken off, or not. *)
LosesBatch ==
    /\ sendLoop = "select"
    /\ \/ Loses(Range(buf), InCalls \cup Range(eventCh) \cup Range(hand) \cup InRings)
       \/ /\ eventCh # <<>>
          /\ Loses(Range(buf) \cup {Head(eventCh)},
                   InCalls \cup Range(Tail(eventCh)) \cup Range(hand) \cup InRings)

EventsStep ==
    Keeps \/ (\E e \in Event : Gains(e)) \/ LosesHand \/ LosesRings \/ LosesBatch

LEMMA EventsNext == TypeOK /\ ControlInv /\ [Next]_vars => EventsStep
<1>. SUFFICES ASSUME TypeOK, ControlInv, [Next]_vars
              PROVE  EventsStep
  OBVIOUS
<1>t. /\ eventCh \in Seq(Event) /\ hand \in Seq(Event) /\ buf \in Seq(Event)
      /\ calls \in Seq(Call) /\ \A c \in CPUs : ring[c] \in Seq(Event)
  BY DEF TypeOK
<1>c. InCalls = EventsOf(calls) /\ InCalls' = EventsOf(calls')
  BY DEF InCalls, EventsOf
<1>s. ASSUME UNCHANGED <<captured, lost>>, Carried' = Carried
      PROVE  EventsStep
  BY <1>s DEF EventsStep, Keeps
<1>1. ASSUME NEW c \in CPUs, CaptureSample(c)
      PROVE  EventsStep
  <2>. DEFINE e == [cpu |-> c, n |-> captured[c] + 1]
  <2>1. /\ UNCHANGED <<hand, eventCh, buf, calls>>
        /\ captured' = [captured EXCEPT ![c] = @ + 1]
        /\ captured \in [CPUs -> Nat]
    BY <1>1 DEF CaptureSample, readVars, sendVars, TypeOK
  <2>2. e \in Event /\ e.cpu = c /\ e.n = captured[c] + 1
    <3>1. captured[c] \in 0..MaxPackets /\ captured[c] < MaxPackets
      BY <1>1 DEF CaptureSample, TypeOK
    <3>2. captured[c] + 1 \in 1..MaxPackets
      BY <3>1, ConstantsType
    <3>. QED BY <1>1, <3>2 DEF Event
  <2>3. \A f \in Event : f.cpu = c /\ f.n = captured[c] + 1 => f = e
    BY DEF Event
  <2>4. \/ ring' = [ring EXCEPT ![c] = Append(@, e)] /\ lost' = lost
        \/ ring' = ring /\ lost' = lost \cup {e}
    BY <1>1 DEF CaptureSample
  <2>. HIDE DEF e
  <2>5. CapturedEvents' = CapturedEvents \cup {e}
    <3>1. ASSUME NEW f \in Event
          PROVE  f.n <= captured'[f.cpu] <=> f.n <= captured[f.cpu] \/ f = e
      <4>1. f.cpu \in CPUs /\ f.n \in Nat
        BY DEF Event
      <4>2. CASE f.cpu = c
        <5>1. captured'[f.cpu] = captured[c] + 1 /\ captured[c] \in Nat
          BY <1>1, <2>1, <4>2
        <5>2. f.n = captured[c] + 1 <=> f = e
          BY <2>2, <2>3, <4>2
        <5>. QED BY <4>1, <4>2, <5>1, <5>2
      <4>3. CASE f.cpu # c
        BY <2>1, <2>2, <4>1, <4>3
      <4>. QED BY <4>2, <4>3
    <3>. QED BY <2>2, <3>1 DEF CapturedEvents
  <2>6. /\ InCalls' = InCalls
        /\ Range(hand)' = Range(hand) /\ Range(eventCh)' = Range(eventCh)
        /\ Range(buf)' = Range(buf)
    BY <2>1 DEF InCalls
  <2>7. CASE ring' = [ring EXCEPT ![c] = Append(@, e)] /\ lost' = lost
    <3>1. Range(Append(ring[c], e)) = Range(ring[c]) \cup {e}
      BY <1>1, <1>t, <2>2, RangeAppend
    <3>2. \A d \in CPUs : Range(ring'[d]) = IF d = c THEN Range(ring[c]) \cup {e}
                                                     ELSE Range(ring[d])
      BY <2>7, <3>1 DEF TypeOK
    <3>3. InRings' = InRings \cup {e}
      BY <1>1, <3>2 DEF InRings
    <3>4. Carried' = Carried \cup {e}
      BY <2>6, <3>3 DEF Carried
    <3>. QED BY <2>1, <2>2, <2>5, <2>7, <3>4 DEF EventsStep, Gains
  <2>8. CASE ring' = ring /\ lost' = lost \cup {e}
    <3>1. InRings' = InRings
      BY <2>8 DEF InRings
    <3>2. Carried' = Carried
      BY <2>6, <3>1 DEF Carried
    <3>. QED BY <2>1, <2>2, <2>5, <2>8, <3>2 DEF EventsStep, Gains
  <2>. QED BY <2>4, <2>7, <2>8
<1>2. ASSUME NEW c \in CPUs, ReadSample(c)
      PROVE  EventsStep
  <2>. DEFINE h == Head(ring[c])
  <2>1. /\ UNCHANGED <<captured, eventCh, buf, calls, lost>>
        /\ ring[c] # <<>> /\ hand' = <<h>> /\ hand = <<>>
        /\ ring' = [ring EXCEPT ![c] = Tail(@)]
    <3>1. hand = <<>>
      BY <1>2, <1>t, EmptySeq DEF ReadSample, TypeOK
    <3>. QED BY <1>2, <3>1 DEF ReadSample, sendVars
  <2>2. /\ Range(hand)' = {h} /\ Range(hand) = {}
        /\ InCalls' = InCalls /\ Range(eventCh)' = Range(eventCh) /\ Range(buf)' = Range(buf)
    BY <2>1, RangeEmpty DEF Range, InCalls
  <2>3. Range(ring[c]) = {h} \cup Range(Tail(ring[c]))
    BY <1>2, <1>t, <2>1, RangeTail
  <2>. HIDE DEF h
  <2>4. \A d \in CPUs : ring'[d] = IF d = c THEN Tail(ring[c]) ELSE ring[d]
    BY <2>1 DEF TypeOK
  <2>5. InRings = InRings' \cup {h}
    BY <1>2, <2>3, <2>4 DEF InRings
  <2>. QED BY <1>s, <2>1, <2>2, <2>5 DEF Carried
<1>3. CASE Offer
  <2>1. /\ UNCHANGED <<captured, ring, buf, calls>>
        /\ hand' = <<>>
        /\ \/ eventCh' = eventCh \o hand /\ lost' = lost
           \/ eventCh' = eventCh /\ lost' = lost \cup Range(hand)
        /\ Len(hand) = 1
    BY <1>3 DEF Offer, captureVars, sendVars, TypeOK
  <2>2. /\ InCalls' = InCalls /\ InRings' = InRings
        /\ Range(buf)' = Range(buf) /\ Range(hand)' = {}
    BY <2>1, RangeEmpty DEF InCalls, InRings
  <2>3. Range(eventCh \o hand) = Range(eventCh) \cup Range(hand)
    <3>. DEFINE h == hand[1]
    <3>1. hand = <<h>> /\ h \in Event /\ Range(hand) = {h}
      <4>1. DOMAIN hand = {1}
        BY <1>t, <2>1, LenProperties
      <4>2. hand = <<h>>
        BY <1>t, <2>1
      <4>3. h \in Range(hand) /\ Range(hand) = {h}
        BY <4>1 DEF Range
      <4>. QED BY <1>t, <4>2, <4>3, RangeType
    <3>2. eventCh \o hand = Append(eventCh, h)
      BY <1>t, <3>1, AppendIsConcat
    <3>. HIDE DEF h
    <3>3. Range(Append(eventCh, h)) = Range(eventCh) \cup {h}
      BY <1>t, <3>1, RangeAppend
    <3>. QED BY <3>1, <3>2, <3>3, Zenon
  <2>4. CASE eventCh' = eventCh \o hand /\ lost' = lost
    BY <1>s, <2>1, <2>2, <2>3, <2>4 DEF Carried
  <2>5. CASE eventCh' = eventCh /\ lost' = lost \cup Range(hand)
    BY <2>1, <2>2, <2>5 DEF Carried, EventsStep, LosesHand, Loses
  <2>. QED BY <2>1, <2>4, <2>5
<1>4. CASE CloseReader
  <2>1. /\ UNCHANGED <<captured, hand, eventCh, buf, calls>>
        /\ \A c \in CPUs : ring'[c] = <<>>
        /\ lost' = lost \cup InRings
    BY <1>4 DEF CloseReader, InRings, sendVars
  <2>2. InRings' = {} /\ InCalls' = InCalls
    BY <2>1, RangeEmpty DEF InRings, InCalls
  <2>. QED BY <2>1, <2>2 DEF Carried, EventsStep, LosesRings, Loses
<1>5. CASE RecvEvent
  <2>. DEFINE h == Head(eventCh)
              b == Append(buf, h)
  <2>1. /\ UNCHANGED <<captured, ring, hand>>
        /\ sendLoop = "select" /\ eventCh # <<>> /\ eventCh' = Tail(eventCh)
        /\ SendBatch(b) \/ (buf' = b /\ UNCHANGED <<calls, lost>>)
    BY <1>5 DEF RecvEvent, captureVars, readVars
  <2>2. h \in Event /\ Range(eventCh) = {h} \cup Range(eventCh')
    BY <1>t, <2>1, RangeTail, HeadTailProperties
  <2>. HIDE DEF h
  <2>3. b \in Seq(Event) /\ Range(b) = Range(buf) \cup {h}
    BY <1>t, <2>2, AppendProperties, RangeAppend
  <2>. HIDE DEF b
  <2>4. InRings' = InRings
    BY <2>1 DEF InRings
  <2>5. CASE buf' = b /\ UNCHANGED <<calls, lost>>
    <3>1. InCalls' = InCalls
      BY <2>5 DEF InCalls
    <3>. QED BY <1>s, <2>1, <2>2, <2>3, <2>4, <2>5, <3>1 DEF Carried
  <2>6. CASE SendBatch(b) /\ ~cancelled
    <3>1. /\ calls' = Append(calls, [events |-> b, client |-> "open"])
          /\ buf' = b /\ lost' = lost
      BY <2>6 DEF SendBatch
    <3>2. InCalls' = InCalls \cup Range(b)
      BY <1>c, <1>t, <2>3, <3>1, EventsOfNewCall
    <3>. QED BY <1>s, <2>1, <2>2, <2>3, <2>4, <3>1, <3>2 DEF Carried
  <2>7. CASE SendBatch(b) /\ cancelled
    <3>1. calls' = calls /\ buf' = <<>> /\ lost' = lost \cup Range(b)
      BY <2>7 DEF SendBatch, GiveUp
    <3>2. InCalls' = InCalls /\ Range(buf') = {}
      BY <3>1, RangeEmpty DEF InCalls
    <3>3. Loses(Range(buf) \cup {h},
                InCalls \cup Range(Tail(eventCh)) \cup Range(hand) \cup InRings)
      BY <2>1, <2>2, <2>3, <2>4, <3>1, <3>2 DEF Loses, Carried
    <3>. QED BY <2>1, <3>3 DEF EventsStep, LosesBatch, h
  <2>. QED BY <2>1, <2>5, <2>6, <2>7
<1>6. CASE Tick \/ StopRequested
  <2>1. /\ UNCHANGED <<captured, ring, hand, eventCh>> /\ sendLoop = "select"
        /\ \/ /\ calls' = Append(calls, [events |-> buf, client |-> "open"])
              /\ UNCHANGED <<buf, lost>>
           \/ calls' = calls /\ buf' = <<>> /\ lost' = lost \cup Range(buf)
    BY <1>6 DEF Tick, StopRequested, SendBatch, GiveUp, captureVars, readVars
  <2>2. InRings' = InRings
    BY <2>1 DEF InRings
  <2>3. CASE calls' = Append(calls, [events |-> buf, client |-> "open"]) /\ UNCHANGED <<buf, lost>>
    <3>1. InCalls' = InCalls \cup Range(buf)
      BY <1>c, <1>t, <2>3, EventsOfNewCall
    <3>. QED BY <1>s, <2>1, <2>2, <2>3, <3>1 DEF Carried
  <2>4. CASE calls' = calls /\ buf' = <<>> /\ lost' = lost \cup Range(buf)
    <3>1. InCalls' = InCalls /\ Range(buf') = {}
      BY <2>4, RangeEmpty DEF InCalls
    <3>2. Loses(Range(buf), InCalls \cup Range(eventCh) \cup Range(hand) \cup InRings)
      BY <2>1, <2>2, <2>4, <3>1 DEF Loses, Carried
    <3>. QED BY <2>1, <3>2 DEF EventsStep, LosesBatch
  <2>. QED BY <2>1, <2>3, <2>4
<1>7. CASE RpcOk \/ RpcErr
  <2>1. /\ UNCHANGED <<captured, ring, hand, eventCh, lost>>
        /\ buf' = <<>>
        /\ \E o \in {"ok", "err"} : calls' = [calls EXCEPT ![Len(calls)].client = o]
        /\ sendLoop = "sending"
    BY <1>7 DEF RpcOk, RpcErr, RpcReturns, captureVars, readVars
  <2>2. InCalls' = InCalls
    BY <1>c, <1>t, <2>1, OutcomeKeepsEvents
  <2>3. Range(buf) \subseteq InCalls /\ Range(buf') = {}
    BY <2>1, RangeEmpty DEF ControlInv
  <2>4. InRings' = InRings
    BY <2>1 DEF InRings
  <2>. QED BY <1>s, <2>1, <2>2, <2>3, <2>4 DEF Carried
<1>8. CASE ReadLoopStart \/ ReadLoopStartFails \/ ReadLoopReturns
  BY <1>8, <1>s DEF ReadLoopStart, ReadLoopStartFails, ReadLoopReturns, Carried, InCalls,
                    InRings, captureVars, sendVars
<1>9. CASE \E i \in DOMAIN calls : ServerHandles(i)
  BY <1>9, <1>s DEF ServerHandles, Carried, InCalls, InRings, captureVars, readVars
<1>10. CASE Signal \/ Join \/ UNCHANGED vars
  BY <1>10, <1>s DEF Signal, Join, Carried, InCalls, InRings, vars, captureVars, readVars,
                     sendVars
<1>. QED
  BY <1>1, <1>2, <1>3, <1>4, <1>5, <1>6, <1>7, <1>8, <1>9, <1>10
     DEF Next, ReadLoopNext, SendLoopNext, Terminated

LEMMA AccountedNext == LossInv /\ [Next]_vars => Accounted'
<1>. SUFFICES ASSUME Carried \cup lost = CapturedEvents, EventsStep
              PROVE  Carried' \cup lost' = CapturedEvents'
  BY EventsNext DEF LossInv, Accounted, CapturedEvents
<1>1. captured' = captured => CapturedEvents' = CapturedEvents
  BY DEF CapturedEvents
<1>. QED BY <1>1 DEF EventsStep, Keeps, Gains, LosesHand, LosesRings, LosesBatch, Loses

LEMMA LossNext == LossInv /\ [Next]_vars => LossInv'
  BY TypeNext, ControlNext, AccountedNext DEF LossInv

(* An event the kernel has captured is in a stage of the pipeline or in a  *)
(* call, unless the ring or the channel was full, the reader closed, or    *)
(* the ctx cancelled when its batch was to be sent (collector.go:105-108,  *)
(* collector.go:144-148, sender.go:84-96).                                 *)
THEOREM NothingElseLost == Spec => []Accounted
<1>1. Spec => []LossInv
  BY LossInit, LossNext, PTL DEF Spec
<1>2. LossInv => Accounted
  BY DEF LossInv
<1>. QED BY <1>1, <1>2, PTL

-----------------------------------------------------------------------------
(* The cost of a stop                                                      *)

(* Once the ctx is cancelled no call is issued any more, so what a stop    *)
(* gives up, which is behind all calls at that time, remains behind them.  *)
CutInv ==
    /\ OrderInv /\ LossInv /\ SerialInv
    /\ cut # {} => cancelled
    /\ Ahead(InCalls, cut)

LEMMA CutInit == Init => CutInv
  BY OrderInit, LossInit, SerialInit DEF CutInv, Init, Ahead

LEMMA CutNext == CutInv /\ [Next]_vars => CutInv'
<1>. SUFFICES ASSUME CutInv, [Next]_vars, OrderInv, TypeOK, cut # {} => cancelled
              PROVE  (cut # {} => cancelled)' /\ Ahead(InCalls, cut)'
  BY OrderNext, LossNext, SerialNext DEF CutInv, OrderInv
<1>t. eventCh \in Seq(Event) /\ buf \in Seq(Event) /\ calls \in Seq(Call)
  BY DEF TypeOK
<1>c. InCalls = EventsOf(calls) /\ InCalls' = EventsOf(calls')
  BY DEF InCalls, EventsOf
<1>s. ASSUME UNCHANGED <<calls, cut>>, cancelled => cancelled'
      PROVE  (cut # {} => cancelled)' /\ Ahead(InCalls, cut)'
  BY <1>s DEF CutInv, InCalls, Ahead
<1>g. ASSUME NEW S, Ahead(InCalls, S), UNCHANGED calls, cut' = cut \cup S, cancelled, cancelled'
      PROVE  (cut # {} => cancelled)' /\ Ahead(InCalls, cut)'
  BY <1>g DEF CutInv, InCalls, Ahead
(* send(), with a batch that is behind all calls *)
<1>b. ASSUME NEW b \in Seq(Event), Ahead(InCalls, Range(b)), SendBatch(b), UNCHANGED cancelled
      PROVE  (cut # {} => cancelled)' /\ Ahead(InCalls, cut)'
  <2>1. CASE cancelled
    BY <1>b, <1>g, <2>1 DEF SendBatch, GiveUp
  <2>2. CASE ~cancelled
    <3>1. cut' = {}
      BY <1>b, <2>2 DEF SendBatch
    <3>. QED BY <3>1 DEF Ahead
  <2>. QED BY <2>1, <2>2
<1>1. CASE RecvEvent
  <2>. DEFINE b == Append(buf, Head(eventCh))
  <2>1. b \in Seq(Event) /\ Range(b) = Range(buf) \cup {Head(eventCh)}
    <3>1. Head(eventCh) \in Event
      BY <1>1, <1>t, HeadTailProperties DEF RecvEvent
    <3>. QED BY <1>t, <3>1, AppendProperties, RangeAppend
  <2>2. Ahead(InCalls, Range(b))
    <3>1. Unsent = buf /\ Head(eventCh) \in Range(eventCh)
      BY <1>1, <1>t, RangeTail DEF RecvEvent, Unsent
    <3>. QED BY <2>1, <3>1 DEF OrderInv, PipelineOrder, Ahead
  <2>3. SendBatch(b) \/ UNCHANGED <<calls, cut>>
    BY <1>1 DEF RecvEvent
  <2>. QED BY <1>1, <1>b, <1>s, <2>1, <2>2, <2>3 DEF RecvEvent
<1>2. CASE Tick \/ StopRequested
  <2>1. Ahead(InCalls, Range(buf))
    <3>1. Unsent = buf
      BY <1>2 DEF Tick, StopRequested, Unsent
    <3>. QED BY <3>1 DEF OrderInv, PipelineOrder, Ahead
  <2>. QED BY <1>2, <1>b, <1>g, <1>t, <2>1 DEF Tick, StopRequested, GiveUp
<1>3. CASE CloseReader
  <2>1. Ahead(InCalls, InRings)
    BY DEF OrderInv, PipelineOrder, Ahead
  <2>. QED BY <1>3, <1>g, <2>1 DEF CloseReader, InRings, sendVars
<1>4. CASE RpcOk \/ RpcErr
  <2>1. InCalls' = InCalls
    <3>1. \E o \in {"ok", "err"} : calls' = [calls EXCEPT ![Len(calls)].client = o]
      BY <1>4 DEF RpcOk, RpcErr, RpcReturns
    <3>. QED BY <1>c, <1>t, <3>1, OutcomeKeepsEvents
  <2>. QED BY <1>4, <2>1 DEF RpcOk, RpcErr, CutInv, Ahead
<1>5. CASE \E c \in CPUs : CaptureSample(c) \/ ReadSample(c)
  BY <1>5, <1>s DEF CaptureSample, ReadSample, sendVars
<1>6. CASE ReadLoopStart \/ ReadLoopStartFails \/ Offer \/ ReadLoopReturns
  BY <1>6, <1>s DEF ReadLoopStart, ReadLoopStartFails, Offer, ReadLoopReturns, sendVars
<1>7. CASE \E i \in DOMAIN calls : ServerHandles(i)
  BY <1>7, <1>s DEF ServerHandles
<1>8. CASE Signal \/ Join \/ UNCHANGED vars
  BY <1>8, <1>s DEF Signal, Join, vars, sendVars
<1>. QED
  BY <1>1, <1>2, <1>3, <1>4, <1>5, <1>6, <1>7, <1>8
     DEF Next, ReadLoopNext, SendLoopNext, Terminated

(* What a stop costs was captured after all that was sent, and when main   *)
(* exits each call has returned and only the channel holds events back     *)
(* (sender.go:94-96,113; collector.go:105-108).                            *)
THEOREM StopCosts == Spec => []StopCutsTail
<1>1. Spec => []CutInv
  BY CutInit, CutNext, PTL DEF Spec
<1>2. CutInv => StopCutsTail
  <2>. SUFFICES ASSUME CutInv, TypeOK, ControlInv, mainPc = "exited"
                PROVE  /\ Carried = InCalls \cup Range(eventCh)
                       /\ \A k \in DOMAIN calls : calls[k].client # "open"
    BY DEF CutInv, LossInv, StopCutsTail
  <2>1. buf = <<>> /\ \A c \in CPUs : ring[c] = <<>>
    BY DEF ControlInv
  <2>2. hand = <<>>
    BY EmptySeq DEF ControlInv, TypeOK
  <2>3. Range(buf) = {} /\ Range(hand) = {} /\ InRings = {}
    BY <2>1, <2>2, RangeEmpty DEF InRings
  <2>4. \A k \in DOMAIN calls : calls[k].client # "open"
    BY DEF CutInv, SerialInv, ControlInv
  <2>. QED BY <2>3, <2>4 DEF Carried
<1>. QED BY <1>1, <1>2, PTL

-----------------------------------------------------------------------------
(* The agent implements PacketStream                                       *)

NothingRevived == \A e \in Carried : e \notin lost

StreamInv == OrderInv /\ LossInv /\ NothingRevived

CarriedAndLost == Carried \cup lost = CapturedEvents

-----------------------------------------------------------------------------
(* Nothing lost is carried                                                 *)

(* An event in the hand of ReadLoop is nowhere else, and one in a ring is  *)
(* in no later stage.                                                      *)
LEMMA StagesApart ==
    OrderInv /\ ControlInv =>
        /\ \A e \in Range(hand) : e \notin InCalls \cup Range(buf) \cup Range(eventCh) \cup InRings
        /\ \A e \in InRings : e \notin InCalls \cup Range(buf) \cup Range(eventCh) \cup Range(hand)
<1>. SUFFICES ASSUME OrderInv, ControlInv
              PROVE  /\ \A e \in Range(hand) : e \notin InCalls \cup Range(buf)
                                                          \cup Range(eventCh) \cup InRings
                     /\ \A e \in InRings : e \notin InCalls \cup Range(buf)
                                                     \cup Range(eventCh) \cup Range(hand)
  OBVIOUS
<1>1. \A e \in Carried : e.n \in Nat
  BY CarriedType DEF OrderInv, Event
<1>2. Range(buf) \subseteq InCalls \cup Range(Unsent)
  BY DEF ControlInv, Unsent
<1>3. \A e \in Carried : ~(e.n < e.n)
  BY <1>1
<1>. QED BY <1>2, <1>3, Zenon DEF OrderInv, PipelineOrder, Ahead, Carried

(* The events of a batch that is given up are in no call and no stage.     *)
LEMMA BatchApart ==
    OrderInv /\ sendLoop = "select" =>
        /\ \A e \in Range(buf) : e \notin InCalls \cup Range(eventCh) \cup Range(hand) \cup InRings
        /\ eventCh # <<>> =>
             \A e \in Range(buf) \cup {Head(eventCh)} :
                e \notin InCalls \cup Range(Tail(eventCh)) \cup Range(hand) \cup InRings
<1>. SUFFICES ASSUME OrderInv, sendLoop = "select"
              PROVE  /\ \A e \in Range(buf) : e \notin InCalls \cup Range(eventCh)
                                                          \cup Range(hand) \cup InRings
                     /\ eventCh # <<>> =>
                          \A e \in Range(buf) \cup {Head(eventCh)} :
                             e \notin InCalls \cup Range(Tail(eventCh)) \cup Range(hand)
                                        \cup InRings
  OBVIOUS
<1>1. \A e \in Carried : ~(e.n < e.n)
  BY CarriedType DEF OrderInv, Event
<1>2. Unsent = buf
  BY DEF Unsent
<1>3. \A e \in Range(buf) : e \notin InCalls \cup Range(eventCh) \cup Range(hand) \cup InRings
  BY <1>1, <1>2, Zenon DEF OrderInv, PipelineOrder, Ahead, Carried
<1>4. ASSUME eventCh # <<>>
      PROVE  Head(eventCh) \notin InCalls \cup Range(Tail(eventCh)) \cup Range(hand) \cup InRings
  <2>. DEFINE h == Head(eventCh)
  <2>1. /\ h \in Range(eventCh) /\ Range(Tail(eventCh)) \subseteq Range(eventCh)
        /\ Ahead({h}, Range(Tail(eventCh)))
    BY <1>4, RangeTail, OrderedTail DEF OrderInv, PipelineOrder, TypeOK
  <2>. HIDE DEF h
  <2>2. h \notin InCalls \cup Range(Tail(eventCh)) \cup Range(hand) \cup InRings
    BY <1>1, <2>1, Zenon DEF OrderInv, PipelineOrder, Ahead, Carried
  <2>. QED BY <2>2 DEF h
<1>5. eventCh # <<>> => Range(Tail(eventCh)) \subseteq Range(eventCh)
  BY RangeTail DEF OrderInv, TypeOK
<1>. QED BY <1>3, <1>4, <1>5

LEMMA RevivedInit == Init => StreamInv
<1>. SUFFICES ASSUME Init
              PROVE  NothingRevived
  BY OrderInit, LossInit DEF StreamInv
<1>. QED BY DEF Init, NothingRevived

LEMMA RevivedNext == StreamInv /\ [Next]_vars => StreamInv'
<1>. SUFFICES ASSUME StreamInv, [Next]_vars
              PROVE  NothingRevived'
  BY OrderNext, LossNext DEF StreamInv
<1>1. /\ CarriedAndLost /\ CarriedAndLost'
      /\ EventsStep
  BY OrderNext, LossNext, EventsNext DEF StreamInv, LossInv, Accounted, CarriedAndLost,
                                       CapturedEvents
<1>. USE DEF StreamInv
<1>2. CASE Keeps
  BY <1>2 DEF Keeps, NothingRevived
<1>3. ASSUME NEW e \in Event, Gains(e)
      PROVE  NothingRevived'
  <2>1. e \notin CapturedEvents
    <3>1. captured[e.cpu] \in Nat
      BY DEF LossInv, TypeOK, Event
    <3>. QED BY <1>3, <3>1 DEF Gains, CapturedEvents
  <2>2. e \notin Carried /\ e \notin lost
    BY <1>1, <2>1 DEF CarriedAndLost
  <2>. QED BY <1>3, <2>2 DEF Gains, NothingRevived
<1>4. CASE LosesHand
  BY <1>4, StagesApart DEF LosesHand, Loses, NothingRevived, LossInv
<1>5. CASE LosesRings
  BY <1>5, StagesApart DEF LosesRings, Loses, NothingRevived, LossInv
<1>6. CASE LosesBatch
  BY <1>6, BatchApart DEF LosesBatch, Loses, NothingRevived
<1>. QED BY <1>1, <1>2, <1>3, <1>4, <1>5, <1>6 DEF EventsStep

-----------------------------------------------------------------------------
(* The mapping                                                             *)

LEMMA SentIsInCalls == TypeOK => Stream!Sent = InCalls /\ DOMAIN SentBatches = DOMAIN calls
<1>. SUFFICES ASSUME TypeOK
              PROVE  Stream!Sent = InCalls /\ DOMAIN SentBatches = DOMAIN calls
  OBVIOUS
<1>1. /\ DOMAIN SentBatches = DOMAIN calls
      /\ \A k \in DOMAIN calls : SentBatches[k] = calls[k].events
  BY DEF SentBatches
<1>. QED BY <1>1 DEF Stream!Sent, Stream!Range, Range, InCalls

(* What is carried but not yet in a call may still be dropped or sent. *)
LEMMA CarriedIsPending ==
    StreamInv => \A e \in Carried : e \notin InCalls => e \in Stream!Pending
<1>. SUFFICES ASSUME StreamInv, NEW e \in Carried, e \notin InCalls
              PROVE  e \in Stream!Pending
  OBVIOUS
<1>1. e \in Event /\ e \notin lost
  BY CarriedType DEF StreamInv, OrderInv, NothingRevived
<1>2. e.n <= captured[e.cpu]
  BY DEF StreamInv, OrderInv, CapturedSoFar
<1>3. e \notin Stream!Sent
  BY SentIsInCalls DEF StreamInv, LossInv
<1>. QED BY <1>1, <1>2, <1>3 DEF Stream!Pending, Stream!Packet, Event

(* The calls grow by the batch of SendLoop, or keep their events. *)
LEMMA CallsNext ==
    TypeOK /\ [Next]_vars =>
        \/ SentBatches' = SentBatches
        \/ /\ buf' # <<>>
           /\ UNCHANGED <<captured, lost>>
           /\ calls' = Append(calls, [events |-> buf', client |-> "open"])
<1>. SUFFICES ASSUME TypeOK, [Next]_vars, SentBatches' # SentBatches
              PROVE  /\ buf' # <<>>
                     /\ UNCHANGED <<captured, lost>>
                     /\ calls' = Append(calls, [events |-> buf', client |-> "open"])
  OBVIOUS
<1>t. eventCh \in Seq(Event) /\ buf \in Seq(Event) /\ calls \in Seq(Call)
  BY DEF TypeOK
<1>1. calls' # calls
  BY DEF SentBatches
<1>2. CASE RecvEvent
  <2>1. /\ buf' = Append(buf, Head(eventCh)) /\ UNCHANGED <<captured, lost>>
        /\ calls' = Append(calls, [events |-> buf', client |-> "open"])
    BY <1>1, <1>2 DEF RecvEvent, SendBatch, captureVars
  <2>2. Len(buf') = Len(buf) + 1 /\ Len(buf) \in Nat
    BY <1>2, <1>t, <2>1, AppendProperties, HeadTailProperties DEF RecvEvent
  <2>. QED BY <2>1, <2>2, EmptySeq
<1>3. CASE Tick
  BY <1>1, <1>3 DEF Tick, SendBatch, captureVars
<1>4. CASE RpcOk \/ RpcErr
  <2>1. PICK o \in {"ok", "err"} : calls' = [calls EXCEPT ![Len(calls)].client = o]
    BY <1>4 DEF RpcOk, RpcErr, RpcReturns
  <2>2. \A k \in DOMAIN calls : calls'[k].events = calls[k].events
    <3>1. \A k \in DOMAIN calls : calls[k] \in Call
      BY <1>t
    <3>. QED BY <2>1, <3>1 DEF Call
  <2>3. DOMAIN calls' = DOMAIN calls
    BY <2>1
  <2>. QED BY <2>2, <2>3 DEF SentBatches
<1>. QED
  BY <1>1, <1>2, <1>3, <1>4
     DEF Next, ReadLoopNext, SendLoopNext, CaptureSample, ReadLoopStart, ReadLoopStartFails,
         ReadSample, Offer, ReadLoopReturns, CloseReader, StopRequested, ServerHandles,
         Signal, Join, Terminated, vars, sendVars

LEMMA StreamInit == Init => Stream!Init
  BY DEF Init, Stream!Init, SentBatches

LEMMA StreamNext == StreamInv /\ [Next]_vars => [Stream!Next]_Stream!vars
<1>. SUFFICES ASSUME StreamInv, [Next]_vars, StreamInv'
              PROVE  Stream!Next \/ UNCHANGED <<captured, SentBatches, lost>>
  BY RevivedNext DEF Stream!vars
<1>t. TypeOK /\ TypeOK' /\ ControlInv /\ OrderInv
  BY DEF StreamInv, LossInv
<1>s. ASSUME UNCHANGED calls
      PROVE  UNCHANGED SentBatches
  BY <1>s DEF SentBatches
<1>1. EventsStep
  BY EventsNext DEF StreamInv, LossInv
<1>2. CASE Keeps /\ SentBatches' = SentBatches
  BY <1>2 DEF Keeps
<1>3. ASSUME NEW e \in Event, Gains(e)
      PROVE  Stream!Next
  <2>1. e.cpu \in CPUs /\ e.n \in 1..MaxPackets /\ captured[e.cpu] \in Nat
    BY <1>t DEF Event, TypeOK
  <2>2. captured[e.cpu] < MaxPackets /\ e = [cpu |-> e.cpu, n |-> captured[e.cpu] + 1]
    BY <1>3, <2>1, ConstantsType DEF Gains, Event
  <2>3. Stream!Produce(e.cpu)
    BY <1>3, <1>s, <2>2 DEF Gains, Stream!Produce
  <2>. QED BY <2>1, <2>3 DEF Stream!Next
<1>4. CASE LosesHand \/ LosesRings \/ LosesBatch
  <2>1. PICK S : /\ S \subseteq Carried /\ \A e \in S : e \notin InCalls
                 /\ lost' = lost \cup S /\ UNCHANGED <<captured, calls>>
    BY <1>4, <1>t, StagesApart, BatchApart DEF LosesHand, LosesRings, LosesBatch, Loses
  <2>2. S \subseteq Stream!Pending
    BY <2>1, CarriedIsPending
  <2>3. Stream!Drop(S)
    BY <1>s, <2>1, <2>2 DEF Stream!Drop
  <2>. QED BY <2>2, <2>3 DEF Stream!Next
<1>5. CASE /\ buf' # <<>>
           /\ UNCHANGED <<captured, lost>>
           /\ calls' = Append(calls, [events |-> buf', client |-> "open"])
  <2>. DEFINE n == Len(calls) + 1
  <2>1. buf' \in Seq(Event) /\ calls \in Seq(Call) /\ Len(buf') \in 1..BatchSize
    <3>1. buf' \in Seq(Event) /\ calls \in Seq(Call) /\ Len(buf') <= BatchSize
      BY <1>t DEF TypeOK
    <3>2. Len(buf') \in Nat /\ Len(buf') # 0
      BY <1>5, <3>1, EmptySeq, LenProperties
    <3>. QED BY <3>1, <3>2, ConstantsType
  <2>2. /\ DOMAIN calls = 1..Len(calls) /\ Len(calls) \in Nat
        /\ DOMAIN calls' = 1..n
        /\ \A i \in DOMAIN calls : calls'[i] = calls[i]
        /\ calls'[n].events = buf'
        /\ InCalls' = InCalls \cup Range(buf')
    <3>1. InCalls = EventsOf(calls) /\ InCalls' = EventsOf(calls')
      BY DEF InCalls, EventsOf
    <3>. QED BY <1>5, <2>1, <3>1, EventsOfNewCall
  <2>3. SentBatches' = Append(SentBatches, buf')
    <3>1. DOMAIN SentBatches' = 1..n /\ DOMAIN SentBatches = 1..Len(calls)
      BY <2>2 DEF SentBatches
    <3>2. Len(SentBatches) = Len(calls)
      BY <2>2, <3>1
    <3>3. \A i \in 1..n : SentBatches'[i] = IF i = n THEN buf' ELSE SentBatches[i]
      BY <2>2 DEF SentBatches
    <3>. QED BY <2>2, <3>1, <3>2, <3>3 DEF SentBatches
  <2>4. Ordered(buf')
    BY <2>2 DEF StreamInv, OrderInv, PipelineOrder
  <2>5. Ahead(InCalls, Range(buf'))
    BY <2>2 DEF StreamInv, OrderInv, PipelineOrder, Ahead, InCalls
  <2>6. Range(buf') \subseteq Stream!Pending
    <3>1. ASSUME NEW e \in Range(buf')
          PROVE  e \in Stream!Pending
      <4>1. e \in Carried' /\ e \in Event
        BY <2>1, RangeType DEF Carried
      <4>2. e \notin lost /\ e.n <= captured[e.cpu]
        BY <1>5, <4>1 DEF StreamInv, NothingRevived, OrderInv, CapturedSoFar
      <4>3. e \notin InCalls
        BY <2>5, <4>1 DEF Ahead, Event
      <4>. QED BY <1>t, <4>1, <4>2, <4>3, SentIsInCalls
             DEF Stream!Pending, Stream!Packet, Event
    <3>. QED BY <3>1
  <2>7. Stream!Deliver(buf')
    BY <1>5, <1>t, <2>3, <2>4, <2>5, <2>6, SentIsInCalls
       DEF Stream!Deliver, Stream!Range, Range, Ordered, Ahead
  <2>8. buf' \in Stream!Batches
    <3>1. buf' \in [1..Len(buf') -> Event] /\ Stream!Packet = Event
      BY <2>1, LenProperties DEF Stream!Packet, Event
    <3>. QED BY <2>1, <3>1 DEF Stream!Batches
  <2>. QED BY <2>7, <2>8 DEF Stream!Next
<1>. QED BY <1>1, <1>2, <1>3, <1>4, <1>5, <1>t, CallsNext DEF EventsStep

(* The agent is a lossy ordered stream: it sends nothing it has given up,  *)
(* sends nothing twice or behind a later packet of the same CPU, and drops *)
(* nothing that a call carries (collector.go:144-148, sender.go:75-109).   *)
THEOREM ImplementsStream == Spec => StreamKept
<1>1. Spec => []StreamInv
  BY RevivedInit, RevivedNext, PTL DEF Spec
<1>. QED BY <1>1, StreamInit, StreamNext, PTL DEF Spec, StreamKept, Stream!Spec
=============================================================================
