----------------------------- MODULE PacketPath -----------------------------
(***************************************************************************)
(* What the eBPF programs of the agent make of a packet                    *)
(* (monitoring-agent/bpf/traffic.c).  The five programs differ in the hook *)
(* they are attached to, in the direction they note, in the clock they     *)
(* read and in the way they reach the headers: the TC and XDP programs     *)
(* look at the linear part of the packet, which begins with an Ethernet    *)
(* header, the cgroup programs copy from anywhere in a packet that begins  *)
(* with the IP header.                                                     *)
(*                                                                         *)
(* Addresses, the length and the numbers of protocols and ports are left   *)
(* out: a packet is what the parsers branch on.                            *)
(***************************************************************************)
EXTENDS Naturals

CONSTANT Packets   \* the packets of the model

(* How much of the headers is there: each level includes the ones before.  *)
Cut == 0
Ethernet == 1
Ip == 2
Short == 3       \* and some bytes after it, too few for a transport header
Transport == 4

Packet == [
    ipv4 : BOOLEAN,             \* the ethertype, or the version, says IPv4
    proto : {"tcp", "udp", "icmp"},
    linear : Cut..Transport,    \* headers that lie in the linear part
    whole : Cut..Transport,     \* headers that lie in the packet at all
    l4 : {"own", "other"},      \* what lies at ip + ihl * 4: its transport
                                \* header, or other bytes, as in a later
                                \* fragment or where ihl is too small
    l4End : Ip..Transport       \* what must be there for a header to be read
                                \* at ip + ihl * 4: less than Transport where
                                \* a small ihl points into the IP header
    ]

ASSUME PacketAssumption ==
    /\ Packets \subseteq Packet
    /\ \A p \in Packets : p.linear <= p.whole /\ (p.l4 = "own" => p.l4End = Transport)

Programs == {"tc_cls_ingress", "tc_cls_egress", "xdp_traffic", "cg_skb_ingress", "cg_skb_egress"}

TcPrograms == {"tc_cls_ingress", "tc_cls_egress"}
CgroupPrograms == {"cg_skb_ingress", "cg_skb_egress"}

(* evt.direction *)
DirectionOf(program) ==
    IF program \in {"tc_cls_egress", "cg_skb_egress"} THEN "egress" ELSE "ingress"

(* The ports of the event, given the headers the parser can reach: zero    *)
(* for other protocols and when the header does not fit, and otherwise     *)
(* what lies at ip + ihl * 4, where neither the offset of the fragment nor *)
(* a lower bound of ihl is looked at.                                      *)
PortsIn(packet, reach) ==
    IF packet.proto = "icmp" \/ reach < packet.l4End THEN "zero"
    ELSE IF packet.l4 = "own" THEN "own" ELSE "other bytes"

Event(program, packet, reach) ==
    {[direction |-> DirectionOf(program), proto |-> packet.proto, ports |-> PortsIn(packet, reach)]}

(* The set of the one event, or the empty set when the parser returns -1.  *)
ParseEthIp(program, packet) ==
    IF packet.linear >= Ip /\ packet.ipv4 THEN Event(program, packet, packet.linear) ELSE {}

ParseSkbIp(program, packet) ==
    IF packet.whole >= Ip /\ packet.ipv4 THEN Event(program, packet, packet.whole) ELSE {}

(* What the program hands to bpf_perf_event_output.  It never stops the    *)
(* packet.                                                                 *)
EventsOf(program, packet) ==
    IF program \in CgroupPrograms THEN ParseSkbIp(program, packet) ELSE ParseEthIp(program, packet)
=============================================================================
