----------------------------- MODULE AlertRelay -----------------------------
(***************************************************************************)
(* The live alerts of the web backend (src/app-service/backend): the task  *)
(* consume_alerts reads alerts from Kafka and broadcasts each to the       *)
(* WebSocket connections of ConnectionManager, whose handlers come and go  *)
(* on the same event loop.  Tasks interleave at their awaits: between two  *)
(* awaits a task is alone, and so one action.                              *)
(*                                                                         *)
(* The alerts come from the online detector (alert_publisher.py), which    *)
(* writes to a topic of its own configuration.  Kafka, the event loop and  *)
(* the WebSocket protocol are libraries, modelled by what the backend      *)
(* observes of them; a topic has one partition, as topics created on first *)
(* use have here.  A connection is used once: a client that comes back is  *)
(* another connection.                                                     *)
(***************************************************************************)
EXTENDS Naturals, Sequences, FiniteSets, Functions, SequencesExt

CONSTANTS
    Conns,         \* WebSocket connections
    NoConn,        \* no connection
    ALERT_TOPIC,   \* topic of the detector (online-detector/config.py)
    ALERTS_TOPIC,  \* topic of the backend (backend/config.py)
    MaxAlerts,     \* bound of the model: alerts the detector publishes
    MaxCrashes     \* bound of the model: restarts of the backend

ASSUME RelayAssumption ==
    /\ NoConn \notin Conns /\ IsFiniteSet(Conns)
    /\ {MaxAlerts, MaxCrashes} \subseteq Nat

VARIABLES
    kafka,      \* messages in each topic
    committed,  \* <<offset>> the group has committed, or <<>>
    position,   \* messages the consumer has taken
    consumer,   \* control of consume_alerts
    active,     \* manager.active
    link,       \* each connection, as the server's side of it sees it
    index,      \* the iterator of broadcast over active
    target,     \* the connection whose send_text is awaited
    dead,       \* broadcast's list dead
    sent,       \* history: alerts whose send_text succeeded, per connection
    audience,   \* history: the members of active when the broadcast began
    removals,   \* history: members removed from active since then
    crashes,    \* history: restarts so far
    relayed,    \* history: alerts whose broadcast has come to its end
    missed      \* history: alerts skipped at a start, or cut by a restart

kafkaVars == <<kafka, committed>>
broadcastVars == <<index, target, dead>>
history == <<sent, audience, removals, crashes, relayed, missed>>
vars == <<kafkaVars, position, consumer, active, link, broadcastVars, history>>

Topics == {ALERT_TOPIC, ALERTS_TOPIC}

Init ==
    /\ kafka = [t \in Topics |-> 0]
    /\ committed = <<>>
    /\ position = 0
    /\ consumer = "starting"
    /\ active = <<>>
    /\ link = [c \in Conns |-> "none"]
    /\ index = 0
    /\ target = NoConn
    /\ dead = <<>>
    /\ sent = [c \in Conns |-> <<>>]
    /\ audience = {}
    /\ removals = 0
    /\ crashes = 0
    /\ relayed = {}
    /\ missed = {}

-----------------------------------------------------------------------------
(* ConnectionManager                                                       *)

Broadcasting == consumer = "broadcasting"

(* disconnect: c leaves active, if it is still there. *)
Disconnect(c) ==
    /\ active' = RemoveFirst(active, c)
    /\ removals' = IF Broadcasting /\ Contains(active, c) THEN removals + 1 ELSE removals

-----------------------------------------------------------------------------
(* The detector *)
PublishAlert ==
    /\ kafka[ALERT_TOPIC] < MaxAlerts
    /\ kafka' = [kafka EXCEPT ![ALERT_TOPIC] = @ + 1]
    /\ UNCHANGED <<committed, position, consumer, active, link, broadcastVars, history>>

-----------------------------------------------------------------------------
(* The handlers of /ws and /ws/alerts                                      *)

(* A request for a connection; the handler awaits ws.accept(). *)
Open(c) ==
    /\ link[c] = "none"
    /\ link' = [link EXCEPT ![c] = "accepting"]
    /\ UNCHANGED <<kafkaVars, position, consumer, active, broadcastVars, history>>

(* A plausible bug: the new connection is put in front. *)
ConnectInFront(c) ==
    /\ link[c] = "accepting"
    /\ link' = [link EXCEPT ![c] = "open"]
    /\ active' = <<c>> \o active
    /\ UNCHANGED <<kafkaVars, position, consumer, broadcastVars, history>>

Connect(c) ==
    /\ link[c] = "accepting"
    /\ link' = [link EXCEPT ![c] = "open"]
    /\ active' = Append(active, c)
    /\ UNCHANGED <<kafkaVars, position, consumer, broadcastVars, history>>

(* The client closes the connection or its network goes away; the server   *)
(* has yet to notice.                                                      *)
ClientLeaves(c) ==
    /\ link[c] \in {"accepting", "open"}
    /\ link' = [link EXCEPT ![c] = IF @ = "open" THEN "gone" ELSE "closed"]
    /\ UNCHANGED <<kafkaVars, position, consumer, active, broadcastVars, history>>

(* receive_text raises WebSocketDisconnect: manager.disconnect(websocket). *)
HandlerDisconnects(c) ==
    /\ link[c] = "gone"
    /\ link' = [link EXCEPT ![c] = "closed"]
    /\ Disconnect(c)
    /\ UNCHANGED <<kafkaVars, position, consumer, broadcastVars>>
    /\ UNCHANGED <<sent, audience, crashes, relayed, missed>>

(* receive_text raises something else (a binary frame has no text): the    *)
(* handler ends and the server closes the connection, but disconnect is    *)
(* not called.                                                             *)
HandlerFails(c) ==
    /\ link[c] = "open"
    /\ link' = [link EXCEPT ![c] = "closed"]
    /\ UNCHANGED <<kafkaVars, position, consumer, active, broadcastVars, history>>

-----------------------------------------------------------------------------
(* consume_alerts and ConnectionManager.broadcast                          *)

(* A plausible bug: every start is at the end of the topic. *)
ConsumerStartsAtEnd ==
    /\ consumer = "starting"
    /\ consumer' = "polling"
    /\ position' = kafka[ALERTS_TOPIC]
    /\ missed' = IF committed = <<>> THEN missed \cup ((1..position') \ relayed) ELSE missed
    /\ UNCHANGED <<kafkaVars, active, link, broadcastVars>>
    /\ UNCHANGED <<sent, audience, removals, crashes, relayed>>

(* consumer.start(): from the committed offset, or from the end of the     *)
(* topic if the group has none; what has been published by then is         *)
(* skipped.                                                                *)
ConsumerStarts ==
    /\ consumer = "starting"
    /\ consumer' = "polling"
    /\ IF committed = <<>>
       THEN /\ position' = kafka[ALERTS_TOPIC]
            /\ missed' = missed \cup ((1..position') \ relayed)
       ELSE position' = committed[1] /\ UNCHANGED missed
    /\ UNCHANGED <<kafkaVars, active, link, broadcastVars>>
    /\ UNCHANGED <<sent, audience, removals, crashes, relayed>>

(* consumer.start() raises, or a message does not decode: the task ends    *)
(* and nobody starts it again.                                             *)
ConsumerDies ==
    /\ \/ consumer = "starting"
       \/ consumer = "polling" /\ position < kafka[ALERTS_TOPIC]
    /\ consumer' = "dead"
    /\ UNCHANGED <<kafkaVars, position, active, link, broadcastVars, history>>

(* The next alert is taken and its broadcast begins. *)
TakeAlert ==
    /\ consumer = "polling"
    /\ position < kafka[ALERTS_TOPIC]
    /\ position' = position + 1
    /\ consumer' = "broadcasting"
    /\ index' = 0
    /\ dead' = <<>>
    /\ audience' = Range(active)
    /\ removals' = 0
    /\ UNCHANGED <<kafkaVars, active, link, target, sent, crashes, relayed, missed>>

(* The for loop takes the next element of active, as active is now, and    *)
(* awaits its send_text.                                                   *)
SendNext ==
    /\ Broadcasting
    /\ target = NoConn
    /\ index < Len(active)
    /\ target' = active[index + 1]
    /\ index' = index + 1
    /\ UNCHANGED <<kafkaVars, position, consumer, active, link, dead, history>>

(* send_text returns; for a client that is gone it may still do so. *)
SendSucceeds ==
    /\ target # NoConn
    /\ link[target] \in {"open", "gone"}
    /\ sent' = [sent EXCEPT ![target] = Append(@, position)]
    /\ target' = NoConn
    /\ UNCHANGED <<kafkaVars, position, consumer, active, link, index, dead>>
    /\ UNCHANGED <<audience, removals, crashes, relayed, missed>>

(* A plausible bug: the failed connection is removed inside the loop. *)
SendFailsRemoves ==
    /\ target # NoConn
    /\ link[target] \in {"gone", "closed"}
    /\ active' = RemoveFirst(active, target)
    /\ target' = NoConn
    /\ UNCHANGED <<kafkaVars, position, consumer, dead, link, index, history>>

SendFails ==
    /\ target # NoConn
    /\ link[target] \in {"gone", "closed"}
    /\ dead' = Append(dead, target)
    /\ target' = NoConn
    /\ UNCHANGED <<kafkaVars, position, consumer, active, link, index, history>>

(* A plausible bug: active is replaced by the members the broadcast began  *)
(* with, less the dead.                                                    *)
ReapDeadFromSnapshot ==
    /\ Broadcasting
    /\ target = NoConn
    /\ index >= Len(active)
    /\ active' = SelectSeq(active, LAMBDA c : c \in audience /\ ~Contains(dead, c))
    /\ consumer' = "polling"
    /\ UNCHANGED <<kafkaVars, position, link, broadcastVars, history>>

(* The loop is at the end of active: the dead are disconnected and the     *)
(* broadcast is over.                                                      *)
ReapDead ==
    /\ Broadcasting
    /\ target = NoConn
    /\ index >= Len(active)
    /\ active' = FoldLeft(RemoveFirst, active, dead)
    /\ consumer' = "polling"
    /\ relayed' = relayed \cup {position}
    /\ UNCHANGED <<kafkaVars, position, link, broadcastVars>>
    /\ UNCHANGED <<sent, audience, removals, crashes, missed>>

(* A plausible bug: the offset after the next message is committed. *)
AutoCommitNext ==
    /\ consumer \in {"polling", "broadcasting"}
    /\ committed' = <<position + 1>>
    /\ UNCHANGED <<kafka, position, consumer, active, link, broadcastVars, history>>

(* enable_auto_commit: the position is committed now and then, during a    *)
(* broadcast too.                                                          *)
AutoCommit ==
    /\ consumer \in {"polling", "broadcasting"}
    /\ committed' = <<position>>
    /\ UNCHANGED <<kafka, position, consumer, active, link, broadcastVars, history>>

-----------------------------------------------------------------------------

(* The backend dies and is restarted; its connections are gone.  A         *)
(* broadcast that is cut is made again, unless its offset was committed.   *)
Restart ==
    /\ crashes < MaxCrashes
    /\ crashes' = crashes + 1
    /\ consumer' = "starting"
    /\ active' = <<>>
    /\ link' = [c \in Conns |-> IF link[c] = "none" THEN "none" ELSE "closed"]
    /\ target' = NoConn
    /\ missed' = IF Broadcasting /\ committed = <<position>> THEN missed \cup {position} ELSE missed
    /\ UNCHANGED <<kafkaVars, position, index, dead, sent, audience, removals, relayed>>

(* Nothing to relay and nobody to wait for. *)
Quiet ==
    /\ consumer \in {"polling", "dead"}
    /\ UNCHANGED vars

Handler(c) == Connect(c) \/ HandlerDisconnects(c)

RelayStep ==
    \/ ConsumerStarts
    \/ ConsumerDies
    \/ TakeAlert
    \/ SendNext
    \/ SendSucceeds
    \/ SendFails
    \/ ReapDead

Next ==
    \/ PublishAlert
    \/ \E c \in Conns : Open(c) \/ Handler(c) \/ ClientLeaves(c) \/ HandlerFails(c)
    \/ RelayStep
    \/ AutoCommit
    \/ Restart
    \/ Quiet

Spec == Init /\ [][Next]_vars

(* The event loop runs every task that is ready, and send_text ends: a     *)
(* client that does not read is closed by the keepalive of the server.     *)
FairSpec == Spec /\ WF_vars(RelayStep)

-----------------------------------------------------------------------------
(* Properties                                                              *)

TypeOK ==
    /\ kafka \in [Topics -> 0..MaxAlerts]
    /\ committed \in Seq(0..MaxAlerts) /\ Len(committed) <= 1
    /\ position \in 0..MaxAlerts
    /\ consumer \in {"starting", "polling", "broadcasting", "dead"}
    /\ active \in Seq(Conns)
    /\ link \in [Conns -> {"none", "accepting", "open", "gone", "closed"}]
    /\ index \in 0..Cardinality(Conns)
    /\ target \in Conns \cup {NoConn}
    /\ target # NoConn => Broadcasting
    /\ dead \in Seq(Conns)
    /\ sent \in [Conns -> Seq(1..MaxAlerts)]
    /\ audience \subseteq Conns
    /\ removals \in Nat
    /\ crashes \in 0..MaxCrashes
    /\ relayed \cup missed \subseteq 1..MaxAlerts

(* No connection gets an alert twice or out of order, although active      *)
(* changes under the iterator of broadcast and a restart may read alerts   *)
(* again (utils.py:14-30).                                                 *)
SentInOrder ==
    \A c \in Conns : \A i, j \in DOMAIN sent[c] : i < j => sent[c][i] < sent[c][j]

(* Connections that are open are known: whoever can still be reached is in *)
(* active, exactly once (utils.py:14-20,29-30).                            *)
OpenIsActive ==
    \A c \in Conns : link[c] = "open" =>
        Cardinality({i \in DOMAIN active : active[i] = c}) = 1

(* When a broadcast is over, whoever was there when it began and is still  *)
(* in active has been sent the alert, except for at most one connection    *)
(* for each one that was removed while the loop was suspended              *)
(* (utils.py:22-30).                                                       *)
MissesNeedRemovals ==
    [][ReapDead => Cardinality({c \in audience \cap Range(active') :
                                   position \notin Range(sent[c])}) <= removals]_vars

(* As long as there is a consumer task again and again, what the detector  *)
(* publishes is broadcast from the first of active to the last, with two   *)
(* exceptions: what was in the topic when the group had no offset yet, and *)
(* an alert in whose broadcast the backend died after its offset had been  *)
(* committed (consumers.py:12-33).  In particular no alert is lost that a  *)
(* task which died, or a restart, has left in the topic.                   *)
PublishedIsRelayed ==
    []<>(consumer # "dead") =>
        \A k \in 1..MaxAlerts :
            (kafka[ALERT_TOPIC] >= k) ~> (k \in relayed \cup missed)

(* The docstring of consumers.py:14 and the comment at :29: an alert goes  *)
(* to all WebSocket clients, that is, to each one that is connected from   *)
(* the beginning of its broadcast to the end.                              *)
BroadcastReachesAll ==
    [][ReapDead => \A c \in audience : link[c] = "open" => position \in Range(sent[c])]_vars
=============================================================================
