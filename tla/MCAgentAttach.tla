--------------------------- MODULE MCAgentAttach ---------------------------
(***************************************************************************)
(* Two interfaces and two runs: the second meets what the first has left.  *)
(* The configurations differ in every way that matters to it: filters in   *)
(* one direction or in both, XDP, cgroup, and an interface listed twice.   *)
(* Each interface is replaced at most once.                                *)
(***************************************************************************)
EXTENDS AgentAttach

CONSTANTS
    e0, e1

MCInterfaces == {e0, e1}

OnInterfaces(direction, list) ==
    [mode |-> "interface", direction |-> direction, interfaces |-> list]

MCConfigs ==
    {OnInterfaces("both", <<e0, e1>>), OnInterfaces("egress", <<e0>>),
     OnInterfaces("ingress", <<e0, e1>>), OnInterfaces("both", <<e0, e0>>),
     [mode |-> "cgroup", direction |-> "both", interfaces |-> <<e0>>]}

(* Other bytes are tried with TCP only: what the parsers do with UDP is    *)
(* the same.                                                               *)
MCPackets ==
    {p \in Packet : /\ p.linear <= p.whole
                    /\ p.l4 = "own" => p.l4End = Transport
                    /\ p.l4 = "other" => p.proto = "tcp"}
=============================================================================
