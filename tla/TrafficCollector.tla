-------------------------- MODULE TrafficCollector --------------------------
(***************************************************************************)
(* The traffic collector (src/traffic-collector): gRPC handlers that turn  *)
(* the calls of the agents into Kafka messages, the kafka-go Writer they   *)
(* share, and the shutdown of the process.                                 *)
(*                                                                         *)
(* A host issues its calls one after the other: call 0 is RegisterHost,    *)
(* call k > 0 the k-th SendPacketBatch.  A message is a record [host, n]:  *)
(* n = 0 is the HostInfo, n > 0 the n-th packet the host reports.          *)
(*                                                                         *)
(* The Writer and the gRPC server are libraries, modelled by what the      *)
(* handlers and main observe of them: one queue per topic and partition,   *)
(* written in order by one goroutine, MaxAttempts tries for each batch, a  *)
(* batch whose acknowledgement is lost written again.  A message in a log  *)
(* stays there: the brokers are taken to be durable.                       *)
(***************************************************************************)
EXTENDS Naturals, Sequences, FiniteSets, Functions, FiniteSetsExt

CONSTANTS
    Hosts,           \* the monitored hosts
    NoKey,           \* the empty message key
    Partitions,      \* the partitions of each topic
    PartitionOf,     \* kafka.Hash: the partition of a key
    Modes,           \* the values of cfg.Async, a subset of BOOLEAN
    KafkaBatchSize,  \* most messages in one write to a partition
    MaxAttempts,     \* tries the Writer makes for one batch
    EventsPerCall,   \* packets in one SendPacketBatch
    MaxCalls,        \* bound of the model: SendPacketBatch calls of a host
    MaxCrashes       \* bound of the model: crashes of the process

ASSUME CollectorAssumption ==
    /\ NoKey \notin Hosts
    /\ PartitionOf \in [Hosts \cup {NoKey} -> Partitions]
    /\ Modes \subseteq BOOLEAN
    /\ {KafkaBatchSize, MaxAttempts, EventsPerCall} \subseteq Nat \ {0}
    /\ {MaxCalls, MaxCrashes} \subseteq Nat

Calls == Hosts \X (0..MaxCalls)
Message == [host : Hosts, n : 0..MaxCalls * EventsPerCall]
TopicPartitions == {"hosts", "packets"} \X Partitions

VARIABLES
    async,      \* cfg.Async: read when the collector starts, kept for good
    phase,      \* the server's side of each call
    next,       \* the event of the call its handler publishes next
    client,     \* the agent's side of each call
    pending,    \* messages queued in the Writer, per topic and partition
    flight,     \* the batch being written
    attempts,   \* tries spent on it
    log,        \* the Kafka logs
    main,       \* control of main
    crashes,    \* history: crashes so far
    published,  \* history: what WriteMessages has queued, in order
    reported,   \* history: messages whose failure was logged as an error
    crashLost   \* history: messages a crash took out of the Writer

callVars == <<phase, next, client>>
writerVars == <<pending, flight, attempts, log>>
processVars == <<async, main, crashes>>
history == <<published, reported, crashLost>>
vars == <<callVars, writerVars, processVars, history>>

Init ==
    /\ async \in Modes
    /\ phase = [c \in Calls |-> "idle"]
    /\ next = [c \in Calls |-> 1]
    /\ client = [c \in Calls |-> "none"]
    /\ pending = [tp \in TopicPartitions |-> <<>>]
    /\ flight = [tp \in TopicPartitions |-> <<>>]
    /\ attempts = [tp \in TopicPartitions |-> 0]
    /\ log = [tp \in TopicPartitions |-> <<>>]
    /\ main = "running"
    /\ crashes = 0
    /\ published = [tp \in TopicPartitions |-> <<>>]
    /\ reported = {}
    /\ crashLost = {}

(* The messages call c stands for, in the order of batch.Events. *)
Batch(c) ==
    IF c[2] = 0
    THEN <<[host |-> c[1], n |-> 0]>>
    ELSE [i \in 1..EventsPerCall |->
            [host |-> c[1], n |-> (c[2] - 1) * EventsPerCall + i]]

(* PublishHost keys its message with the host id.  PublishPacket keys it   *)
(* with packet.HostId, which ToPacketInfo never fills in.                  *)
KeyOf(m) == IF m.n = 0 THEN m.host ELSE NoKey

Destination(m) == <<IF m.n = 0 THEN "hosts" ELSE "packets", PartitionOf[KeyOf(m)]>>

Busy(c) == phase[c] \in {"handling", "awaiting"}

Undelivered(tp) == Range(pending[tp]) \cup Range(flight[tp])

-----------------------------------------------------------------------------
(* The agents (sender.go)                                                  *)

(* Calls are serial; an agent whose registration fails exits, one that     *)
(* gets an answer goes on whatever the answer's Ok says.                   *)
Issue(c) ==
    /\ client[c] = "none"
    /\ c[2] > 0 => /\ client[<<c[1], 0>>] = "ok"
                   /\ client[<<c[1], c[2] - 1>>] \in {"ok", "err"}
    /\ client' = [client EXCEPT ![c] = "open"]
    /\ phase' = [phase EXCEPT ![c] = "sent"]
    /\ UNCHANGED <<next, writerVars, processVars, history>>

(* The deadline of the call passes or its connection fails; the context of *)
(* the handler, if there is one, is cancelled.                             *)
GiveUp(c) ==
    /\ client[c] = "open"
    /\ client' = [client EXCEPT ![c] = "err"]
    /\ UNCHANGED <<phase, next, writerVars, processVars, history>>

ReceiveResponse(c) ==
    /\ client[c] = "open"
    /\ phase[c] = "returned"
    /\ client' = [client EXCEPT ![c] = "ok"]
    /\ UNCHANGED <<phase, next, writerVars, processVars, history>>

-----------------------------------------------------------------------------
(* The handlers (server.go)                                                *)

(* gRPC starts a goroutine for the call.  Each call has its own: one the   *)
(* client has given up may still start, after a later one did.             *)
StartHandler(c) ==
    /\ phase[c] = "sent"
    /\ main \in {"running", "stopping"}
    /\ phase' = [phase EXCEPT ![c] = "handling"]
    /\ UNCHANGED <<next, client, writerVars, processVars, history>>

(* After GracefulStop has begun new streams are refused. *)
Refuse(c) ==
    /\ phase[c] = "sent"
    /\ main # "running"
    /\ phase' = [phase EXCEPT ![c] = "lost"]
    /\ client' = [client EXCEPT ![c] = "err"]
    /\ UNCHANGED <<next, writerVars, processVars, history>>

(* A plausible bug: a synchronous WriteMessages that does not wait. *)
PublishNoWait(c) ==
    /\ phase[c] = "handling"
    /\ next[c] <= Len(Batch(c))
    /\ LET m == Batch(c)[next[c]]
       IN  /\ pending' = [pending EXCEPT ![Destination(m)] = Append(@, m)]
           /\ published' = [published EXCEPT ![Destination(m)] = Append(@, m)]
    /\ next' = [next EXCEPT ![c] = @ + 1]
    /\ UNCHANGED <<phase, client, flight, attempts, log, processVars, reported, crashLost>>

(* One PublishHost or PublishPacket whose WriteMessages queues the message *)
(* and, unless the Writer is asynchronous, waits for it.                   *)
Publish(c) ==
    /\ phase[c] = "handling"
    /\ next[c] <= Len(Batch(c))
    /\ LET m == Batch(c)[next[c]]
       IN  /\ pending' = [pending EXCEPT ![Destination(m)] = Append(@, m)]
           /\ published' = [published EXCEPT ![Destination(m)] = Append(@, m)]
    /\ next' = [next EXCEPT ![c] = @ + 1]
    /\ phase' = [phase EXCEPT ![c] = IF async THEN "handling" ELSE "awaiting"]
    /\ UNCHANGED <<client, flight, attempts, log, processVars, reported, crashLost>>

(* WriteMessages fails before it queues anything (no metadata, or the      *)
(* context is done): the error is logged and the loop goes on.             *)
PublishFails(c) ==
    /\ phase[c] = "handling"
    /\ next[c] <= Len(Batch(c))
    /\ next' = [next EXCEPT ![c] = @ + 1]
    /\ reported' = reported \cup {Batch(c)[next[c]]}
    /\ UNCHANGED <<phase, client, writerVars, processVars, published, crashLost>>

(* The wait of a synchronous WriteMessages ends: the message is written or *)
(* dropped, or the context is done, which is logged as an error.           *)
WaitEnds(c) ==
    /\ phase[c] = "awaiting"
    /\ LET m == Batch(c)[next[c] - 1]
       IN  IF m \in Undelivered(Destination(m))
           THEN client[c] = "err" /\ reported' = reported \cup {m}
           ELSE UNCHANGED reported
    /\ phase' = [phase EXCEPT ![c] = "handling"]
    /\ UNCHANGED <<next, client, writerVars, processVars, published, crashLost>>

(* A plausible bug: the loop runs in a goroutine of its own and the        *)
(* handler answers at once.                                                *)
ReturnEarly(c) ==
    /\ phase[c] = "handling"
    /\ client[c] = "open"
    /\ client' = [client EXCEPT ![c] = "ok"]
    /\ UNCHANGED <<phase, next, writerVars, processVars, history>>

(* The handler returns its response.  SendPacketBatch reports Ok and the   *)
(* full count whatever happened to the messages.                           *)
Return(c) ==
    /\ phase[c] = "handling"
    /\ next[c] > Len(Batch(c))
    /\ phase' = [phase EXCEPT ![c] = "returned"]
    /\ UNCHANGED <<next, client, writerVars, processVars, history>>

-----------------------------------------------------------------------------
(* The Writer (kafka-go, as producer.go configures it)                     *)

(* A plausible bug: only full batches are written, BatchTimeout is not     *)
(* honoured.                                                               *)
TakeFullBatch(tp) ==
    /\ flight[tp] = <<>>
    /\ Len(pending[tp]) >= KafkaBatchSize
    /\ flight' = [flight EXCEPT ![tp] = SubSeq(pending[tp], 1, KafkaBatchSize)]
    /\ pending' = [pending EXCEPT ![tp] = SubSeq(@, KafkaBatchSize + 1, Len(@))]
    /\ UNCHANGED <<callVars, attempts, log, processVars, history>>

(* The goroutine of the partition takes up the oldest messages: a full     *)
(* batch, or what BatchTimeout found.                                      *)
TakeBatch(tp) ==
    /\ flight[tp] = <<>>
    /\ \E k \in 1..Min({KafkaBatchSize, Len(pending[tp])}) :
          /\ flight' = [flight EXCEPT ![tp] = SubSeq(pending[tp], 1, k)]
          /\ pending' = [pending EXCEPT ![tp] = SubSeq(@, k + 1, Len(@))]
    /\ UNCHANGED <<callVars, attempts, log, processVars, history>>

WriteAcked(tp) ==
    /\ flight[tp] # <<>>
    /\ log' = [log EXCEPT ![tp] = @ \o flight[tp]]
    /\ flight' = [flight EXCEPT ![tp] = <<>>]
    /\ attempts' = [attempts EXCEPT ![tp] = 0]
    /\ UNCHANGED <<callVars, pending, processVars, history>>

(* A plausible bug: a batch that failed goes back to the end of the queue. *)
WriteFailsRequeues(tp) ==
    /\ flight[tp] # <<>>
    /\ \/ UNCHANGED log
       \/ log' = [log EXCEPT ![tp] = @ \o flight[tp]]
    /\ attempts[tp] + 1 < MaxAttempts
    /\ attempts' = [attempts EXCEPT ![tp] = @ + 1]
    /\ pending' = [pending EXCEPT ![tp] = @ \o flight[tp]]
    /\ flight' = [flight EXCEPT ![tp] = <<>>]
    /\ UNCHANGED <<callVars, processVars, history>>

(* A plausible bug: the tries are not counted. *)
WriteFailsForever(tp) ==
    /\ flight[tp] # <<>>
    /\ \/ UNCHANGED log
       \/ log' = [log EXCEPT ![tp] = @ \o flight[tp]]
    /\ UNCHANGED <<callVars, flight, attempts, pending, processVars, history>>

(* A plausible bug: one try too many. *)
WriteFailsOneMore(tp) ==
    /\ flight[tp] # <<>>
    /\ \/ UNCHANGED log
       \/ log' = [log EXCEPT ![tp] = @ \o flight[tp]]
    /\ \/ /\ attempts[tp] < MaxAttempts
          /\ attempts' = [attempts EXCEPT ![tp] = @ + 1]
          /\ UNCHANGED <<flight, reported>>
       \/ /\ attempts' = [attempts EXCEPT ![tp] = 0]
          /\ flight' = [flight EXCEPT ![tp] = <<>>]
          /\ reported' = reported \cup Range(flight[tp])
    /\ UNCHANGED <<callVars, pending, processVars, published, crashLost>>

(* A try fails, with the batch in the log (the acknowledgement was lost)   *)
(* or not.  It is made again, in place, unless the tries are used up or    *)
(* the error is permanent: then Completion, or the error WriteMessages     *)
(* returns, logs the loss.                                                 *)
WriteFails(tp) ==
    /\ flight[tp] # <<>>
    /\ \/ UNCHANGED log
       \/ log' = [log EXCEPT ![tp] = @ \o flight[tp]]
    /\ \/ /\ attempts[tp] + 1 < MaxAttempts
          /\ attempts' = [attempts EXCEPT ![tp] = @ + 1]
          /\ UNCHANGED <<flight, reported>>
       \/ /\ attempts' = [attempts EXCEPT ![tp] = 0]
          /\ flight' = [flight EXCEPT ![tp] = <<>>]
          /\ reported' = reported \cup Range(flight[tp])
    /\ UNCHANGED <<callVars, pending, processVars, published, crashLost>>

-----------------------------------------------------------------------------
(* The process (cmd/collector/main.go)                                     *)

(* SIGINT or SIGTERM: GracefulStop begins. *)
Stop ==
    /\ main = "running"
    /\ main' = "stopping"
    /\ UNCHANGED <<callVars, writerVars, async, crashes, history>>

(* GracefulStop has waited for the handlers; producer.Close() begins. *)
CloseProducer ==
    /\ main = "stopping"
    /\ \A c \in Calls : ~Busy(c)
    /\ main' = "closing"
    /\ UNCHANGED <<callVars, writerVars, async, crashes, history>>

(* A plausible bug: main returns without closing the Writer. *)
ExitNoDrain ==
    /\ main = "closing"
    /\ main' = "exited"
    /\ pending' = [tp \in TopicPartitions |-> <<>>]
    /\ flight' = [tp \in TopicPartitions |-> <<>>]
    /\ UNCHANGED <<callVars, attempts, log, async, crashes, history>>

(* Close returns when every queue has been written. *)
Exit ==
    /\ main = "closing"
    /\ \A tp \in TopicPartitions : Undelivered(tp) = {}
    /\ main' = "exited"
    /\ UNCHANGED <<callVars, writerVars, async, crashes, history>>

(* The process is killed and started again: handlers, connections and the  *)
(* Writer's queues are gone.                                               *)
Crash ==
    /\ main # "exited"
    /\ crashes < MaxCrashes
    /\ crashes' = crashes + 1
    /\ main' = "running"
    /\ phase' = [c \in Calls |-> IF phase[c] = "sent" \/ Busy(c) THEN "lost" ELSE phase[c]]
    /\ client' = [c \in Calls |-> IF client[c] = "open" THEN "err" ELSE client[c]]
    /\ crashLost' = crashLost \cup UNION {Undelivered(tp) : tp \in TopicPartitions}
    /\ pending' = [tp \in TopicPartitions |-> <<>>]
    /\ flight' = [tp \in TopicPartitions |-> <<>>]
    /\ attempts' = [tp \in TopicPartitions |-> 0]
    /\ UNCHANGED <<async, next, log, published, reported>>

(* The process is gone; keeps TLC from reporting its end as a deadlock. *)
Terminated ==
    /\ main = "exited"
    /\ UNCHANGED vars

AgentStep(c) == Issue(c) \/ GiveUp(c) \/ ReceiveResponse(c)

HandlerStep(c) == Publish(c) \/ PublishFails(c) \/ WaitEnds(c) \/ Return(c)

WriterStep(tp) == TakeBatch(tp) \/ WriteAcked(tp) \/ WriteFails(tp)

Next ==
    \/ \E c \in Calls : AgentStep(c) \/ StartHandler(c) \/ Refuse(c) \/ HandlerStep(c)
    \/ \E tp \in TopicPartitions : WriterStep(tp)
    \/ Stop
    \/ CloseProducer
    \/ Exit
    \/ Crash
    \/ Terminated

Spec == Init /\ [][Next]_vars

(* Goroutines that can run do; a write to Kafka ends one way or the other. *)
(* Nothing is assumed of the agents, the signal or the brokers' answers.   *)
Fairness ==
    /\ \A c \in Calls : WF_vars(HandlerStep(c))
    /\ \A tp \in TopicPartitions : WF_vars(WriterStep(tp))
    /\ WF_vars(CloseProducer)
    /\ WF_vars(Exit)

FairSpec == Spec /\ Fairness

-----------------------------------------------------------------------------
(* Properties                                                              *)

TypeOK ==
    /\ async \in BOOLEAN
    /\ phase \in [Calls -> {"idle", "sent", "handling", "awaiting", "returned", "lost"}]
    /\ next \in [Calls -> Nat]
    /\ \A c \in Calls : next[c] \in 1..Len(Batch(c)) + 1
    /\ client \in [Calls -> {"none", "open", "ok", "err"}]
    /\ pending \in [TopicPartitions -> Seq(Message)]
    /\ flight \in [TopicPartitions -> Seq(Message)]
    /\ \A tp \in TopicPartitions : Len(flight[tp]) <= KafkaBatchSize
    /\ attempts \in [TopicPartitions -> 0..MaxAttempts - 1]
    /\ log \in [TopicPartitions -> Seq(Message)]
    /\ main \in {"running", "stopping", "closing", "exited"}
    /\ crashes \in 0..MaxCrashes
    /\ published \in [TopicPartitions -> Seq(Message)]
    /\ reported \subseteq Message
    /\ crashLost \subseteq Message

Logged == UNION {Range(log[tp]) : tp \in TopicPartitions}

(* The offset at which the log of tp first holds m. *)
FirstIn(tp, m) == Min({i \in DOMAIN log[tp] : log[tp][i] = m})

(* Retries may repeat a batch and drops may leave holes, but a log never   *)
(* shows two messages for the first time in another order than the one in  *)
(* which the handlers published them (kafka-go's write loop; producer.go   *)
(* relies on it for the order within a partition).                         *)
LogFollowsPublishOrder ==
    \A tp \in TopicPartitions : \A i, j \in DOMAIN published[tp] :
        i < j /\ {published[tp][i], published[tp][j]} \subseteq Range(log[tp])
            => FirstIn(tp, published[tp][i]) < FirstIn(tp, published[tp][j])

InHostOrder(h) ==
    \A tp \in TopicPartitions : \A m1, m2 \in Range(log[tp]) :
        m1.host = h /\ m2.host = h /\ m1.n < m2.n => FirstIn(tp, m1) < FirstIn(tp, m2)

(* The packets of a host whose calls all got their answer are logged in    *)
(* the order the host reported them: a call is answered only after its     *)
(* whole batch has been handed to the Writer (server.go:65-75).            *)
HostOrderWithoutTimeouts ==
    \A h \in Hosts :
        (\A c \in Calls : c[1] = h => client[c] # "err") => InHostOrder(h)

(* Nothing an agent got an answer for disappears in an orderly stop: after *)
(* GracefulStop and Close every such message is in a log, or its failure   *)
(* was logged, or an earlier crash took it (main.go:60-63).                *)
StoppedCleanly ==
    main = "exited" =>
        \A c \in Calls : client[c] = "ok" =>
            Range(Batch(c)) \subseteq Logged \cup reported \cup crashLost

(* A retried batch repeats its messages at most MaxAttempts times. *)
BoundedDuplicates ==
    \A tp \in TopicPartitions : \A m \in Range(log[tp]) :
        Cardinality({i \in DOMAIN log[tp] : log[tp][i] = m}) <= MaxAttempts

(* With a synchronous Writer the answer means more: every message of the   *)
(* call is in a log or its failure was logged, crash or not                *)
(* (producer.go:38,127; server.go:65-75).                                  *)
AckedIsSettled ==
    ~async => \A c \in Calls : client[c] = "ok" =>
                  Range(Batch(c)) \subseteq Logged \cup reported

(* A stop that is not interrupted by a crash completes, although Kafka may *)
(* fail every write (main.go:57-63).                                       *)
StopCompletes == main = "stopping" ~> main \in {"exited", "running"}

(* The comments of producer.go: the key is the host id (:32) and so all    *)
(* batches of a host go to the partition of that host (:113).              *)
PartitionedByHost ==
    \A tp \in TopicPartitions : \A m \in Range(log[tp]) :
        tp[2] = PartitionOf[m.host]
=============================================================================
