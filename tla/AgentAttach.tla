---------------------------- MODULE AgentAttach ----------------------------
(***************************************************************************)
(* The eBPF programs of the agent in the kernel, over several runs of the  *)
(* agent (src/monitoring-agent: cmd/agent/main.go, internal/bpfprog):      *)
(* Attach puts them in place one after the other, Close takes them away,   *)
(* and between any two steps the process may fail, crash, or lose a        *)
(* network interface under its feet.                                       *)
(*                                                                         *)
(* What holds a program in place decides what becomes of it: an XDP or     *)
(* cgroup program hangs on a link that goes with the process, a TC filter  *)
(* stays in the qdisc of its interface until somebody deletes it.  A       *)
(* program reports to the perf rings of the run that loaded it and to no   *)
(* other.                                                                  *)
(*                                                                         *)
(* A capture that Attach has set up is read as module Agent says.  The     *)
(* qdisc itself, whose QdiscAdd may fail unnoticed (tc.go:52), and the     *)
(* filters of other programs in it are left out.                           *)
(***************************************************************************)
EXTENDS PacketPath, MonoClock, Sequences, Functions, SequencesExt

CONSTANTS
    Interfaces,  \* names of network interfaces
    Cgroup,      \* the place cgroup programs are attached to
    Configs,     \* the configurations the agent is started with
    MaxRuns,     \* bound of the model: starts of the agent
    MaxIndex     \* bound of the model: interfaces there ever are of a name

Config == [mode : {"interface", "cgroup"},
           direction : {"ingress", "egress", "both"},
           interfaces : Seq(Interfaces)]

ASSUME AttachAssumption ==
    /\ Cgroup \notin Interfaces
    /\ Configs \subseteq Config
    /\ \A c \in Configs : c.interfaces # <<>>   \* config.go:62, any for cgroup
    /\ {MaxRuns, MaxIndex} \subseteq Nat \ {0}

VARIABLES
    ifindex,   \* the index of each interface, 0 while there is none
    indices,   \* indices given so far to interfaces of the name
    hooks,     \* the run whose program is in place at each hook, or 0
    run,       \* the number of this run, or of the last
    pc,        \* control of main: "down", "attaching", "running", "closing"
    cfg,       \* the configuration of the run
    attached,  \* programs Attach has put in place
    idx,       \* idx of tcAttach: the index it has looked up
    closers    \* c.closers

kernelVars == <<ifindex, indices, hooks>>
agentVars == <<run, pc, cfg, attached, idx, closers>>
vars == <<kernelVars, agentVars, clockVars>>

Hooks == (Interfaces \X {"xdp_traffic", "tc_cls_ingress", "tc_cls_egress"})
            \cup ({Cgroup} \X CgroupPrograms)

(* The switch of Attach: what is attached at each place, in this order. *)
ProgramsOf(c) ==
    IF c.mode = "interface"
    THEN CASE c.direction = "ingress" -> <<"xdp_traffic">>
           [] c.direction = "egress" -> <<"tc_cls_egress">>
           [] c.direction = "both" -> <<"tc_cls_ingress", "tc_cls_egress">>
    ELSE CASE c.direction = "ingress" -> <<"cg_skb_ingress">>
           [] c.direction = "egress" -> <<"cg_skb_egress">>
           [] c.direction = "both" -> <<"cg_skb_ingress", "cg_skb_egress">>

PlacesOf(c) == IF c.mode = "interface" THEN c.interfaces ELSE <<Cgroup>>

ToAttach(c) == Len(PlacesOf(c)) * Len(ProgramsOf(c))

(* The next program Attach has to put in place, and where. *)
NextPlace == PlacesOf(cfg)[(attached \div Len(ProgramsOf(cfg))) + 1]
NextProgram == ProgramsOf(cfg)[(attached % Len(ProgramsOf(cfg))) + 1]
NextHook == <<NextPlace, NextProgram>>
FirstOfPlace == attached % Len(ProgramsOf(cfg)) = 0
LastOfPlace == (attached + 1) % Len(ProgramsOf(cfg)) = 0

IndexOf(place) == IF place = Cgroup THEN 1 ELSE ifindex[place]

Closer == [place : Interfaces \cup {Cgroup}, index : Nat, program : Programs]

Init ==
    /\ ifindex = [i \in Interfaces |-> 1]
    /\ indices = [i \in Interfaces |-> 1]
    /\ hooks = [h \in Hooks |-> 0]
    /\ run = 0
    /\ pc = "down"
    /\ cfg \in Configs
    /\ attached = 0
    /\ idx = 0
    /\ closers = <<>>
    /\ ClockInit

-----------------------------------------------------------------------------
(* Attach                                                                  *)

(* main up to the call of Attach; NewCollector computes the offset. *)
Start(c) ==
    /\ pc = "down"
    /\ run < MaxRuns
    /\ run' = run + 1
    /\ pc' = "attaching"
    /\ cfg' = c
    /\ attached' = 0
    /\ closers' = <<>>
    /\ NewMonoOffset
    /\ UNCHANGED <<kernelVars, idx>>

(* InterfaceByName and LinkByIndex. *)
LookUp ==
    /\ pc = "attaching"
    /\ attached < ToAttach(cfg)
    /\ FirstOfPlace
    /\ IndexOf(NextPlace) # 0
    /\ idx = 0
    /\ idx' = IndexOf(NextPlace)
    /\ UNCHANGED <<kernelVars, run, pc, cfg, attached, closers, clockVars>>

(* What is appended to c.closers: for each link, and once for the qdisc of *)
(* an interface, after its last filter.                                    *)
NewClosers ==
    IF NextProgram \in TcPrograms /\ ~LastOfPlace THEN <<>>
    ELSE <<[place |-> NextPlace, index |-> idx, program |-> NextProgram]>>

(* A plausible bug: an error of FilterAdd is ignored, like that of         *)
(* QdiscAdd.                                                               *)
AttachProgramIgnoresError ==
    /\ pc = "attaching"
    /\ attached < ToAttach(cfg)
    /\ idx # 0
    /\ hooks' = IF hooks[NextHook] = 0 /\ IndexOf(NextPlace) = idx
                THEN [hooks EXCEPT ![NextHook] = run] ELSE hooks
    /\ closers' = closers \o NewClosers
    /\ idx' = IF LastOfPlace THEN 0 ELSE idx
    /\ attached' = attached + 1
    /\ UNCHANGED <<ifindex, indices, run, pc, cfg, clockVars>>

(* FilterAdd, AttachXDP or AttachCgroup succeeds: the interface is still   *)
(* the one that was looked up and the hook is free.  (FilterAdd is         *)
(* exclusive, with a fixed handle and priority.)                           *)
AttachProgram ==
    /\ pc = "attaching"
    /\ attached < ToAttach(cfg)
    /\ idx # 0
    /\ IndexOf(NextPlace) = idx
    /\ hooks[NextHook] = 0
    /\ hooks' = [hooks EXCEPT ![NextHook] = run]
    /\ closers' = closers \o NewClosers
    /\ idx' = IF LastOfPlace THEN 0 ELSE idx
    /\ attached' = attached + 1
    /\ UNCHANGED <<ifindex, indices, run, pc, cfg, clockVars>>

(* A plausible bug: the loop over the interfaces returns what tcAttach     *)
(* returns for the first of them.                                          *)
AttachReturnsAfterFirst ==
    /\ pc = "attaching"
    /\ attached > 0 /\ FirstOfPlace
    /\ pc' = "running"
    /\ UNCHANGED <<kernelVars, run, cfg, attached, idx, closers, clockVars>>

AttachReturns ==
    /\ pc = "attaching"
    /\ attached = ToAttach(cfg)
    /\ pc' = "running"
    /\ UNCHANGED <<kernelVars, run, cfg, attached, idx, closers, clockVars>>

-----------------------------------------------------------------------------
(* The end of a run                                                        *)

(* The process is gone, and its links with it; its filters stay. *)
ProcessGone ==
    /\ hooks' = [h \in Hooks |-> IF hooks[h] = run /\ h[2] \notin TcPrograms THEN 0 ELSE hooks[h]]
    /\ pc' = "down"
    /\ idx' = 0
    /\ UNCHANGED <<ifindex, indices, run, cfg, attached, closers, clockVars>>

(* A step of Attach fails: the hook is taken, the interface is not there,  *)
(* or the kernel has another reason.  os.Exit(1) runs no deferred Close.   *)
AttachFails ==
    /\ pc = "attaching"
    /\ attached < ToAttach(cfg)
    /\ ProcessGone

Crash ==
    /\ pc \in {"running", "closing"}
    /\ ProcessGone

(* The signal has come and both loops have ended (module Agent). *)
Stop ==
    /\ pc = "running"
    /\ pc' = "closing"
    /\ UNCHANGED <<kernelVars, run, cfg, attached, idx, closers, clockVars>>

(* The hooks a closer frees: its link, or everything in the clsact qdisc.  *)
Frees(c) ==
    IF c.program \in TcPrograms THEN {h \in Hooks : h[1] = c.place /\ h[2] \in TcPrograms}
    ELSE {h \in Hooks : h = <<c.place, c.program>> /\ hooks[h] = run}

(* A plausible bug: Close returns at the first error. *)
RunCloserStopsAtError ==
    /\ pc = "closing"
    /\ closers # <<>>
    /\ LET c == Last(closers) IN
       IF c.index = IndexOf(c.place)
       THEN /\ hooks' = [h \in Hooks |-> IF h \in Frees(c) THEN 0 ELSE hooks[h]]
            /\ closers' = Front(closers)
       ELSE closers' = <<>> /\ UNCHANGED hooks
    /\ UNCHANGED <<ifindex, indices, run, pc, cfg, attached, idx, clockVars>>

(* One round of the loop of Close, from the last closer to the first.  The *)
(* closer of an interface that is gone fails, which is logged.             *)
RunCloser ==
    /\ pc = "closing"
    /\ closers # <<>>
    /\ LET c == Last(closers) IN
       IF c.index = IndexOf(c.place)
       THEN hooks' = [h \in Hooks |-> IF h \in Frees(c) THEN 0 ELSE hooks[h]]
       ELSE UNCHANGED hooks
    /\ closers' = Front(closers)
    /\ UNCHANGED <<ifindex, indices, run, pc, cfg, attached, idx, clockVars>>

Exit ==
    /\ pc = "closing"
    /\ closers = <<>>
    /\ ProcessGone

-----------------------------------------------------------------------------
(* The host                                                                *)

(* An interface is removed, and with it its qdisc, filters and XDP program. *)
Unplug(i) ==
    /\ ifindex[i] # 0
    /\ ifindex' = [ifindex EXCEPT ![i] = 0]
    /\ hooks' = [h \in Hooks |-> IF h[1] = i THEN 0 ELSE hooks[h]]
    /\ UNCHANGED <<indices, agentVars, clockVars>>

(* There is an interface of that name again, with another index. *)
Plug(i) ==
    /\ ifindex[i] = 0
    /\ indices[i] < MaxIndex
    /\ indices' = [indices EXCEPT ![i] = @ + 1]
    /\ ifindex' = [ifindex EXCEPT ![i] = indices[i] + 1]
    /\ UNCHANGED <<hooks, agentVars, clockVars>>

AgentStep ==
    \/ \E c \in Configs : Start(c)
    \/ LookUp
    \/ AttachProgram
    \/ AttachReturns
    \/ AttachFails
    \/ Stop
    \/ RunCloser
    \/ Exit

HostStep ==
    \/ Crash
    \/ \E i \in Interfaces : Unplug(i) \/ Plug(i)
    \/ ClockStep /\ UNCHANGED <<kernelVars, agentVars>>

(* No agent is running, and nobody need start one. *)
Rest ==
    /\ pc = "down"
    /\ UNCHANGED vars

Next == AgentStep \/ HostStep \/ Rest

Spec == Init /\ [][Next]_vars

-----------------------------------------------------------------------------
(* Properties                                                              *)

TypeOK ==
    /\ ifindex \in [Interfaces -> 0..MaxIndex]
    /\ indices \in [Interfaces -> 1..MaxIndex]
    /\ \A i \in Interfaces : ifindex[i] \in {0, indices[i]}
    /\ hooks \in [Hooks -> 0..run]
    /\ run \in 0..MaxRuns
    /\ pc \in {"down", "attaching", "running", "closing"}
    /\ pc # "down" => run # 0
    /\ cfg \in Configs
    /\ attached \in 0..ToAttach(cfg)
    /\ pc = "running" => attached = ToAttach(cfg)
    /\ idx \in 0..MaxIndex
    /\ closers \in Seq(Closer)
    /\ ClockTypeOK

(* The events this run gets of a packet that crosses a place. *)
EventsAt(place, direction, packet) ==
    UNION {{[program |-> h[2], event |-> e] : e \in EventsOf(h[2], packet)} :
             h \in {g \in Hooks : g[1] = place /\ hooks[g] = run
                                 /\ DirectionOf(g[2]) = direction}}

Wanted(direction) == cfg.direction \in {direction, "both"}

(* Its own ports or none of a packet whose ihl leads to its transport      *)
(* header, and not none if that header is in the linear part.  Of a later  *)
(* fragment and of a packet with a small ihl nothing is said: the programs *)
(* report of them the bytes they find.                                     *)
PortsAsFarAsKnown(packet, event) ==
    packet.l4 = "own" =>
        /\ event.ports \in {"own", "zero"}
        /\ packet.linear = Transport /\ packet.proto # "icmp" => event.ports = "own"

CapturedAt(place, direction, packet) ==
    LET events == EventsAt(place, direction, packet)
    IN  /\ \A e, f \in events : e = f
        /\ Wanted(direction) /\ packet.ipv4 /\ packet.linear >= Ip => events # {}
        /\ ~Wanted(direction) \/ ~packet.ipv4 => events = {}
        /\ \A e \in events : PortsAsFarAsKnown(packet, e.event)

(* An agent that runs captures: at every place it was told to watch, and   *)
(* that is still the interface it has attached to, an IPv4 packet in a     *)
(* direction it was told to watch is reported to this run, once, whatever  *)
(* crashed and failed runs have left behind and whatever the configuration *)
(* repeats.  The ports reported are its own where ihl leads to its         *)
(* transport header; they mean nothing of a later fragment or of a packet  *)
(* with a small ihl (tc.go:54-90, xdp.go:25, cgroup.go:13-39,              *)
(* traffic.c:46-115).                                                      *)
CapturedOnce ==
    pc = "running" =>
        \A place \in Range(PlacesOf(cfg)) : \E c \in Range(closers) :
            /\ c.place = place
            /\ c.index = IndexOf(place) =>
                 \A direction \in {"ingress", "egress"}, packet \in Packets :
                     CapturedAt(place, direction, packet)

(* When Close is through, no program of this run is left in the kernel,    *)
(* although closers of interfaces that are gone have failed on the way;    *)
(* and what a run leaves that ends in any other way are TC filters at      *)
(* most (collector.go:152-158, tc.go:92-107).                              *)
NothingLeftBehind ==
    /\ pc = "closing" /\ closers = <<>> => \A h \in Hooks : hooks[h] # run
    /\ \A h \in Hooks :
          hooks[h] # 0 /\ (hooks[h] # run \/ pc = "down") => h[2] \in TcPrograms

(* An event never bears a time that is still to come, unless the wall      *)
(* clock was set back under the agent, or the event is one of              *)
(* tc_cls_ingress and the host had been suspended before the agent was     *)
(* started: then it is ahead by that much (traffic.c:123, clock.go:17-31). *)
(* The streaming queries depend on it: a time that is ahead moves their    *)
(* watermark, and what comes after it is dropped.                          *)
NotFromTheFuture ==
    pc = "running" /\ "setBack" \notin since =>
        \A h \in Hooks : hooks[h] = run =>
            ToRealtime(Ktime(h[2])) <=
                wall + (IF h[2] = "tc_cls_ingress" THEN sleptBefore ELSE 0)

(* The comments of clock.go:10 and collector.go:138: adding the offset to  *)
(* the time of an event gives the real time, as long as nothing has        *)
(* happened to the clocks since the offset was computed.                   *)
RealtimeIsWall ==
    pc = "running" /\ since = {} =>
        \A h \in Hooks : hooks[h] = run => ToRealtime(Ktime(h[2])) = wall
=============================================================================
