------------------------------- MODULE Agent -------------------------------
(***************************************************************************)
(* The capture pipeline of one monitoring agent (src/monitoring-agent):    *)
(*                                                                         *)
(*   eBPF programs -> per-CPU perf rings -> ReadLoop -> eventCh            *)
(*                 -> SendLoop (buf) -> SendPacketBatch calls              *)
(*                                                                         *)
(* from the moment Attach has returned (cmd/agent/main.go:75) to the exit  *)
(* of main.  Four threads of control interleave: the kernel, the ReadLoop  *)
(* goroutine and its closer goroutine, the SendLoop goroutine, and main.   *)
(*                                                                         *)
(* An event is a record [cpu, n]: the n-th sample the kernel submits on    *)
(* that CPU; what the sample says of its packet plays no part here.        *)
(*                                                                         *)
(* Left out: errors of Read other than ErrClosed, LostSamples records and  *)
(* undecodable samples (collector.go:120-136), which are logged and leave  *)
(* the loop where it was.  The perf reader, the Go channel and the gRPC    *)
(* connection are not code of this repository: they are modelled by what   *)
(* the agent observes of them.                                             *)
(***************************************************************************)
EXTENDS Naturals, Sequences, Functions

CONSTANTS
    CPUs,          \* the CPUs, each with a perf ring of its own
    MaxPackets,    \* bound of the model: samples submitted per CPU
    RingCap,       \* samples a perf ring holds
    ChannelSize,   \* capacity of eventCh (Batch.ChannelSize)
    BatchSize      \* Batch.Size

ASSUME AgentAssumption ==
    /\ MaxPackets \in Nat
    /\ RingCap \in Nat \ {0}
    /\ ChannelSize \in Nat \ {0}    \* main.go:47-50 replaces chSz <= 0
    /\ BatchSize \in Nat \ {0}      \* sender.go:71-74 replaces Size <= 0

VARIABLES
    captured,   \* samples the kernel has submitted so far, per CPU
    ring,       \* the perf rings
    reader,     \* c.reader: "none" before NewReader, "open", "closed"
    readLoop,   \* control of ReadLoop
    hand,       \* the evt ReadLoop has decoded and not yet offered
    eventCh,    \* the channel between the two goroutines
    sendLoop,   \* control of SendLoop
    buf,        \* SendLoop's buf
    calls,      \* the SendPacketBatch calls, in the order they are issued
    handled,    \* indices of calls, in the order the server handles them
    cancelled,  \* ctx is done
    mainPc,     \* control of main
    lost,       \* history: the events given up on their way to a call
    cut         \* history: those of them that the stop has cost

captureVars == <<captured, ring>>
readVars == <<reader, readLoop, hand>>
sendVars == <<sendLoop, buf, calls, handled>>
vars == <<captureVars, readVars, eventCh, sendVars, cancelled, mainPc, lost, cut>>

Event == [cpu : CPUs, n : 1..MaxPackets]
Call == [events : Seq(Event), client : {"open", "ok", "err"}]

Init ==
    /\ captured = [c \in CPUs |-> 0]
    /\ ring = [c \in CPUs |-> <<>>]
    /\ reader = "none"
    /\ readLoop = "start"
    /\ hand = <<>>
    /\ eventCh = <<>>
    /\ sendLoop = "select"
    /\ buf = <<>>
    /\ calls = <<>>
    /\ handled = <<>>
    /\ cancelled = FALSE
    /\ mainPc = "waiting"
    /\ lost = {}
    /\ cut = {}

-----------------------------------------------------------------------------
(* The kernel                                                              *)

(* bpf_perf_event_output never waits: without an open ring for the CPU, or *)
(* with a full one, the sample is gone.                                    *)
CaptureSample(c) ==
    /\ mainPc # "exited"
    /\ captured[c] < MaxPackets
    /\ captured' = [captured EXCEPT ![c] = @ + 1]
    /\ LET e == [cpu |-> c, n |-> captured[c] + 1]
       IN  IF reader = "open" /\ Len(ring[c]) < RingCap
           THEN ring' = [ring EXCEPT ![c] = Append(@, e)] /\ UNCHANGED lost
           ELSE lost' = lost \cup {e} /\ UNCHANGED ring
    /\ UNCHANGED <<readVars, eventCh, sendVars, cancelled, mainPc, cut>>

-----------------------------------------------------------------------------
(* ReadLoop and its closer goroutine                                       *)

ReadLoopStart ==
    /\ readLoop = "start"
    /\ readLoop' = "reading"
    /\ reader' = "open"
    /\ UNCHANGED <<captureVars, hand, eventCh, sendVars, cancelled, mainPc, lost, cut>>

(* A plausible bug: the error of ReadLoop is logged and ctx not cancelled. *)
ReadLoopStartFailsNoCancel ==
    /\ readLoop = "start"
    /\ readLoop' = "failed"
    /\ UNCHANGED <<captureVars, reader, hand, eventCh, sendVars, cancelled, mainPc, lost, cut>>

(* NewReader fails: ReadLoop returns the error and main's goroutine        *)
(* cancels ctx; main itself keeps waiting for a signal.                    *)
ReadLoopStartFails ==
    /\ readLoop = "start"
    /\ readLoop' = "failed"
    /\ cancelled' = TRUE
    /\ UNCHANGED <<captureVars, reader, hand, eventCh, sendVars, mainPc, lost, cut>>

(* reader.Read returns the oldest sample of some ring. *)
ReadSample(c) ==
    /\ readLoop = "reading"
    /\ reader = "open"
    /\ ring[c] # <<>>
    /\ ring' = [ring EXCEPT ![c] = Tail(@)]
    /\ hand' = <<Head(ring[c])>>
    /\ readLoop' = "holding"
    /\ UNCHANGED <<captured, reader, eventCh, sendVars, cancelled, mainPc, lost, cut>>

(* A plausible bug: a plain send on the channel instead of the select with *)
(* a default branch.                                                       *)
OfferBlocking ==
    /\ readLoop = "holding"
    /\ Len(eventCh) < ChannelSize
    /\ readLoop' = "reading"
    /\ hand' = <<>>
    /\ eventCh' = eventCh \o hand
    /\ UNCHANGED <<captureVars, reader, sendVars, cancelled, mainPc, lost, cut>>

(* A plausible bug: when the channel is full the oldest queued event makes *)
(* room, without being accounted for.                                      *)
OfferEvictingOldest ==
    /\ readLoop = "holding"
    /\ readLoop' = "reading"
    /\ hand' = <<>>
    /\ eventCh' = IF Len(eventCh) < ChannelSize THEN eventCh \o hand
                                                ELSE Tail(eventCh) \o hand
    /\ UNCHANGED <<captureVars, reader, sendVars, cancelled, mainPc, lost, cut>>

(* A plausible bug: the drop is counted, but the event is offered again.   *)
OfferRetries ==
    /\ readLoop = "holding"
    /\ IF Len(eventCh) < ChannelSize
       THEN /\ readLoop' = "reading"
            /\ hand' = <<>>
            /\ eventCh' = eventCh \o hand
            /\ UNCHANGED lost
       ELSE lost' = lost \cup Range(hand) /\ UNCHANGED <<readLoop, hand, eventCh>>
    /\ UNCHANGED <<captureVars, reader, sendVars, cancelled, mainPc, cut>>

(* The select of collector.go:144: the event is queued, or dropped when    *)
(* the channel is full.                                                    *)
Offer ==
    /\ readLoop = "holding"
    /\ readLoop' = "reading"
    /\ hand' = <<>>
    /\ IF Len(eventCh) < ChannelSize
       THEN eventCh' = eventCh \o hand /\ UNCHANGED lost
       ELSE lost' = lost \cup Range(hand) /\ UNCHANGED eventCh
    /\ UNCHANGED <<captureVars, reader, sendVars, cancelled, mainPc, cut>>

(* <-ctx.Done(); reader.Close(): what the rings still hold is gone. *)
CloseReader ==
    /\ cancelled
    /\ reader = "open"
    /\ reader' = "closed"
    /\ ring' = [c \in CPUs |-> <<>>]
    /\ lost' = lost \cup UNION {Range(ring[c]) : c \in CPUs}
    /\ cut' = cut \cup UNION {Range(ring[c]) : c \in CPUs}
    /\ UNCHANGED <<captured, readLoop, hand, eventCh, sendVars, cancelled, mainPc>>

(* Read returns ErrClosed. *)
ReadLoopReturns ==
    /\ readLoop = "reading"
    /\ reader = "closed"
    /\ readLoop' = "done"
    /\ UNCHANGED <<captureVars, reader, hand, eventCh, sendVars, cancelled, mainPc, lost, cut>>

-----------------------------------------------------------------------------
(* SendLoop                                                                *)

(* buf is reset without its events having been sent. *)
GiveUp(events) ==
    /\ lost' = lost \cup Range(events)
    /\ cut' = cut \cup Range(events)
    /\ buf' = <<>>

(* sendBatch issues the call and waits for it; buf is reset when it has    *)
(* returned (sender.go:88-89).  A context derived from one that is already *)
(* cancelled is cancelled too: gRPC fails that call before it sends        *)
(* anything, the error is logged and buf is reset all the same.            *)
SendBatch(events) ==
    IF cancelled
    THEN GiveUp(events) /\ UNCHANGED <<sendLoop, calls>>
    ELSE /\ calls' = Append(calls, [events |-> events, client |-> "open"])
         /\ sendLoop' = "sending"
         /\ buf' = events
         /\ UNCHANGED <<lost, cut>>

(* A plausible bug: the size is tested before the event is appended. *)
RecvEventTestsFirst ==
    /\ sendLoop = "select"
    /\ eventCh # <<>>
    /\ eventCh' = Tail(eventCh)
    /\ LET batch == Append(buf, Head(eventCh))
       IN  IF Len(buf) >= BatchSize
           THEN SendBatch(batch)
           ELSE buf' = batch /\ UNCHANGED <<sendLoop, calls, lost, cut>>
    /\ UNCHANGED <<captureVars, readVars, handled, cancelled, mainPc>>

RecvEvent ==
    /\ sendLoop = "select"
    /\ eventCh # <<>>
    /\ eventCh' = Tail(eventCh)
    /\ LET batch == Append(buf, Head(eventCh))
       IN  IF Len(batch) >= BatchSize
           THEN SendBatch(batch)
           ELSE buf' = batch /\ UNCHANGED <<sendLoop, calls, lost, cut>>
    /\ UNCHANGED <<captureVars, readVars, handled, cancelled, mainPc>>

(* A plausible bug: the ticker only sends a batch that is full. *)
TickFullOnly ==
    /\ sendLoop = "select"
    /\ Len(buf) >= BatchSize
    /\ SendBatch(buf)
    /\ UNCHANGED <<captureVars, readVars, eventCh, handled, cancelled, mainPc>>

(* The flush ticker; with an empty buf send returns at once and nothing    *)
(* changes.                                                                *)
Tick ==
    /\ sendLoop = "select"
    /\ buf # <<>>
    /\ SendBatch(buf)
    /\ UNCHANGED <<captureVars, readVars, eventCh, handled, cancelled, mainPc>>

(* A plausible bug, the obvious mend of the last send(): it alone is given *)
(* a context of its own.                                                   *)
StopRequestedOwnContext ==
    /\ sendLoop = "select"
    /\ cancelled
    /\ IF buf = <<>>
       THEN sendLoop' = "done" /\ UNCHANGED calls
       ELSE /\ calls' = Append(calls, [events |-> buf, client |-> "open"])
            /\ sendLoop' = "sending"
    /\ UNCHANGED <<captureVars, readVars, eventCh, buf, handled, cancelled, mainPc, lost, cut>>

(* <-ctx.Done(): a last send(), which has the cancelled ctx, then return.  *)
(* eventCh is not drained.                                                 *)
StopRequested ==
    /\ sendLoop = "select"
    /\ cancelled
    /\ sendLoop' = "done"
    /\ GiveUp(buf)
    /\ UNCHANGED <<captureVars, readVars, eventCh, calls, handled, cancelled, mainPc>>

(* The call in flight returns to sendBatch with the given outcome. *)
RpcReturns(outcome) ==
    /\ sendLoop = "sending"
    /\ calls' = [calls EXCEPT ![Len(calls)].client = outcome]
    /\ sendLoop' = "select"

(* A plausible bug: the batch is written to a stream and not waited for. *)
RpcOkUnacknowledged ==
    /\ RpcReturns("ok")
    /\ buf' = <<>>
    /\ UNCHANGED <<captureVars, readVars, eventCh, handled, cancelled, mainPc, lost, cut>>

(* The answer arrives, possibly just before the ctx is cancelled under the *)
(* call.                                                                   *)
RpcOk ==
    /\ RpcReturns("ok")
    /\ Len(calls) \in Range(handled)
    /\ buf' = <<>>
    /\ UNCHANGED <<captureVars, readVars, eventCh, handled, cancelled, mainPc, lost, cut>>

(* A plausible bug: buf is kept when the call fails, to be sent again. *)
RpcErrKeepsBuf ==
    /\ RpcReturns("err")
    /\ UNCHANGED <<captureVars, readVars, eventCh, buf, handled, cancelled, mainPc, lost, cut>>

(* The call times out (5 s), fails in the transport, or has its ctx        *)
(* cancelled.  The error is logged and buf is reset all the same: the      *)
(* batch is never sent again.                                              *)
RpcErr ==
    /\ RpcReturns("err")
    /\ buf' = <<>>
    /\ UNCHANGED <<captureVars, readVars, eventCh, handled, cancelled, mainPc, lost, cut>>

(* The collector runs its handler for a call: at most once, and possibly   *)
(* after the client has given up on it and issued later ones.              *)
ServerHandles(i) ==
    /\ i \notin Range(handled)
    /\ handled' = Append(handled, i)
    /\ UNCHANGED <<captureVars, readVars, eventCh, sendLoop, buf, calls, cancelled, mainPc, lost, cut>>

-----------------------------------------------------------------------------
(* main                                                                    *)

(* SIGINT or SIGTERM: cancel(), then wg.Wait(). *)
Signal ==
    /\ mainPc = "waiting"
    /\ mainPc' = "joining"
    /\ cancelled' = TRUE
    /\ UNCHANGED <<captureVars, readVars, eventCh, sendVars, lost, cut>>

Join ==
    /\ mainPc = "joining"
    /\ readLoop \in {"failed", "done"}
    /\ sendLoop = "done"
    /\ mainPc' = "exited"
    /\ UNCHANGED <<captureVars, readVars, eventCh, sendVars, cancelled, lost, cut>>

(* The process is gone; keeps TLC from reporting its end as a deadlock. *)
Terminated ==
    /\ mainPc = "exited"
    /\ UNCHANGED vars

ReadLoopNext ==
    \/ ReadLoopStart
    \/ ReadLoopStartFails
    \/ \E c \in CPUs : ReadSample(c)
    \/ Offer
    \/ ReadLoopReturns

SendLoopNext ==
    \/ RecvEvent
    \/ Tick
    \/ StopRequested
    \/ RpcOk
    \/ RpcErr

Next ==
    \/ \E c \in CPUs : CaptureSample(c)
    \/ ReadLoopNext
    \/ CloseReader
    \/ SendLoopNext
    \/ \E i \in DOMAIN calls : ServerHandles(i)
    \/ Signal
    \/ Join
    \/ Terminated

Spec == Init /\ [][Next]_vars

(* The reader's goroutines run when they can. *)
FairSpec == Spec /\ WF_vars(ReadLoopNext) /\ WF_vars(CloseReader)

(* So does SendLoop: a select takes a branch that stays ready, and a call  *)
(* returns, since its context has a deadline.  Nothing is assumed of the   *)
(* server, of the signal, or of traffic.                                   *)
SenderFairness ==
    /\ WF_vars(RecvEvent)
    /\ WF_vars(Tick)
    /\ WF_vars(StopRequested)
    /\ WF_vars(RpcOk \/ RpcErr)

MainFairness == WF_vars(Join)

-----------------------------------------------------------------------------
(* Properties                                                              *)

TypeOK ==
    /\ captured \in [CPUs -> 0..MaxPackets]
    /\ ring \in [CPUs -> Seq(Event)]
    /\ \A c \in CPUs : Len(ring[c]) <= RingCap
    /\ reader \in {"none", "open", "closed"}
    /\ readLoop \in {"start", "reading", "holding", "failed", "done"}
    /\ hand \in Seq(Event)
    /\ Len(hand) = IF readLoop = "holding" THEN 1 ELSE 0
    /\ eventCh \in Seq(Event)
    /\ Len(eventCh) <= ChannelSize
    /\ sendLoop \in {"select", "sending", "done"}
    /\ buf \in Seq(Event)
    /\ Len(buf) <= BatchSize
    /\ sendLoop = "select" => Len(buf) < BatchSize
    /\ calls \in Seq(Call)
    /\ handled \in Seq(Nat)
    /\ cancelled \in BOOLEAN
    /\ mainPc \in {"waiting", "joining", "exited"}
    /\ lost \subseteq Event
    /\ cut \subseteq lost

(* The events of buf that no call carries yet: while a call is in flight   *)
(* buf still holds that call's events.                                     *)
Unsent == IF sendLoop = "sending" THEN <<>> ELSE buf

(* s holds the events of each CPU in capture order, none twice. *)
Ordered(s) ==
    \A i, j \in DOMAIN s : i < j /\ s[i].cpu = s[j].cpu => s[i].n < s[j].n

(* Every event of A was captured before every event of B of its CPU. *)
Ahead(A, B) == \A e \in A, f \in B : e.cpu = f.cpu => e.n < f.n

InCalls == UNION {Range(calls[k].events) : k \in DOMAIN calls}

InRings == UNION {Range(ring[c]) : c \in CPUs}

(* Along the whole pipeline the events of one CPU stay in capture order    *)
(* and none is sent twice, whatever is dropped, times out or is given up   *)
(* (collector.go:144-148, sender.go:84-109).                               *)
PipelineOrder ==
    /\ \A k \in DOMAIN calls : Ordered(calls[k].events)
    /\ \A k, l \in DOMAIN calls :
          k < l => Ahead(Range(calls[k].events), Range(calls[l].events))
    /\ Ordered(Unsent)
    /\ Ordered(eventCh)
    /\ \A c \in CPUs : Ordered(ring[c])
    /\ Ahead(InCalls, Range(Unsent) \cup Range(eventCh) \cup Range(hand) \cup InRings)
    /\ Ahead(Range(Unsent), Range(eventCh) \cup Range(hand) \cup InRings)
    /\ Ahead(Range(eventCh), Range(hand) \cup InRings)
    /\ Ahead(Range(hand), InRings)

Carried == InCalls \cup Range(buf) \cup Range(eventCh) \cup Range(hand) \cup InRings

(* The pipeline loses events at four places only, the full or missing      *)
(* ring, the full channel, the closing of the reader and a send() under    *)
(* the cancelled ctx: any other event that was captured is in some stage   *)
(* or in a call that was issued in time.                                   *)
Accounted ==
    {e \in Event : e.n <= captured[e.cpu]} = Carried \cup lost

(* A stop costs the tail of what was captured on a CPU and nothing inside  *)
(* it.  The last send() saves nothing, its ctx being cancelled already;    *)
(* but what it, the sends of a select that chose another branch after the  *)
(* cancel, and the closing of the reader give up was captured after all    *)
(* that has been sent.  And when main exits nobody holds anything back:    *)
(* each call has returned, and only eventCh still has events               *)
(* (sender.go:94-96,113; collector.go:105-108).                            *)
StopCutsTail ==
    /\ Ahead(InCalls, cut)
    /\ mainPc = "exited" =>
          /\ Carried = InCalls \cup Range(eventCh)
          /\ \A k \in DOMAIN calls : calls[k].client # "open"

(* The agent is a lossy ordered stream to whoever sees only what the       *)
(* kernel captures, which calls are issued and what is dropped: it sends   *)
(* nothing it has given up, and drops nothing it has sent or will send     *)
(* (collector.go:144-148, sender.go:75-109).                               *)
SentBatches == [k \in DOMAIN calls |-> calls[k].events]

Stream == INSTANCE PacketStream
            WITH MaxBatch <- BatchSize,
                 produced <- captured, delivered <- SentBatches, dropped <- lost

StreamKept == Stream!Spec

(* The calls are serial: as long as none of them has failed at the client, *)
(* the server handles the batches in the order they were cut, each once.   *)
(* (After a timeout this is lost: the late handler of one batch may run    *)
(* after that of the next.)                                                *)
InOrderWithoutTimeout ==
    (\A k \in DOMAIN calls : calls[k].client # "err")
        => \A k \in DOMAIN handled : handled[k] = k

(* Once the signal has arrived main exits, whatever the pipeline holds and *)
(* although nobody receives from eventCh any more (main.go:92-93).         *)
ShutdownCompletes ==
    SenderFairness /\ MainFairness => (mainPc = "joining" ~> mainPc = "exited")

(* An event SendLoop has buffered does not wait for the batch to fill up:  *)
(* the ticker sends it, or the stop gives it up (sender.go:94-96,106-107). *)
BufferedIsSent == SenderFairness => ((buf # <<>>) ~> (buf = <<>>))

(* A collector that answers slowly or never does not back up into the      *)
(* kernel: although SendLoop may hang in a call for ever the rings keep    *)
(* draining, at the price of dropped events (collector.go:144-148).        *)
RingsKeepDraining == \A c \in CPUs : (ring[c] # <<>>) ~> (ring[c] = <<>>)

(* When the perf reader cannot be created SendLoop ends although main goes *)
(* on waiting for a signal (main.go:79-82).                                *)
ReaderFailureStopsSender ==
    SenderFairness => (readLoop = "failed" ~> sendLoop = "done")
=============================================================================
