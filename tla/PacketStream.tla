---------------------------- MODULE PacketStream ----------------------------
(***************************************************************************)
(* What a monitoring agent promises to the collector: a lossy ordered      *)
(* stream.  Each CPU numbers the packets it captures.  A packet may be     *)
(* dropped before it is sent, alone or with others, and is then never      *)
(* sent; what is sent goes out in batches, each packet once and behind     *)
(* all packets of its CPU that were sent before.  Nothing is promised of   *)
(* the order of two CPUs, nor that a batch arrives.                        *)
(*                                                                         *)
(* Module Agent implements it.                                             *)
(***************************************************************************)
EXTENDS Naturals, Sequences, Functions

CONSTANTS
    CPUs,
    MaxPackets,    \* bound of the model: packets of a CPU
    MaxBatch       \* packets of a batch

VARIABLES
    produced,   \* packets captured so far, per CPU
    delivered,  \* the batches sent
    dropped     \* the packets given up

vars == <<produced, delivered, dropped>>

Packet == [cpu : CPUs, n : 1..MaxPackets]

Batches == UNION {[1..len -> Packet] : len \in 1..MaxBatch}

Sent == UNION {Range(delivered[k]) : k \in DOMAIN delivered}

Pending == {p \in Packet : p.n <= produced[p.cpu]} \ (Sent \cup dropped)

Init ==
    /\ produced = [c \in CPUs |-> 0]
    /\ delivered = <<>>
    /\ dropped = {}

(* A packet is captured, or found to have no room and given up at once. *)
Produce(c) ==
    /\ produced[c] < MaxPackets
    /\ produced' = [produced EXCEPT ![c] = @ + 1]
    /\ \/ UNCHANGED dropped
       \/ dropped' = dropped \cup {[cpu |-> c, n |-> produced[c] + 1]}
    /\ UNCHANGED delivered

Drop(P) ==
    /\ P \subseteq Pending
    /\ dropped' = dropped \cup P
    /\ UNCHANGED <<produced, delivered>>

Deliver(batch) ==
    /\ Range(batch) \subseteq Pending
    /\ \A i, j \in DOMAIN batch :
          i < j /\ batch[i].cpu = batch[j].cpu => batch[i].n < batch[j].n
    /\ \A p \in Sent, q \in Range(batch) : p.cpu = q.cpu => p.n < q.n
    /\ delivered' = Append(delivered, batch)
    /\ UNCHANGED <<produced, dropped>>

Next ==
    \/ \E c \in CPUs : Produce(c)
    \/ \E P \in SUBSET Pending : Drop(P)
    \/ \E batch \in Batches : Deliver(batch)

Spec == Init /\ [][Next]_vars
=============================================================================
