------------------------- MODULE AgentAttachProofs -------------------------
(***************************************************************************)
(* What the agent captures, what it leaves in the kernel and what times    *)
(* its events bear, for every set of interfaces and configurations and any *)
(* number of runs.                                                         *)
(***************************************************************************)
EXTENDS AgentAttach, SequenceTheorems, TLAPS

LEMMA AttachConstants ==
    /\ Cgroup \notin Interfaces
    /\ Configs \subseteq Config
    /\ \A c \in Configs : c.interfaces # <<>>
    /\ MaxRuns \in Nat /\ MaxRuns > 0
    /\ MaxIndex \in Nat /\ MaxIndex > 0
    /\ MaxTime \in Nat
  BY AttachAssumption, ClockAssumption DEF AttachAssumption, ClockAssumption

(* What Attach puts in place: one program or two at each of some places,   *)
(* all of them TC filters or none.                                         *)
LEMMA ConfigType ==
    ASSUME NEW c \in Configs
    PROVE  /\ ProgramsOf(c) \in Seq(Programs) /\ Len(ProgramsOf(c)) \in {1, 2}
           /\ PlacesOf(c) \in Seq(Interfaces \cup {Cgroup}) /\ Len(PlacesOf(c)) \in Nat \ {0}
           /\ \A k \in 1..Len(PlacesOf(c)), j \in 1..Len(ProgramsOf(c)) :
                 <<PlacesOf(c)[k], ProgramsOf(c)[j]>> \in Hooks
           /\ \A j \in 1..Len(ProgramsOf(c)), k \in 1..Len(ProgramsOf(c)) :
                 ProgramsOf(c)[j] \in TcPrograms => ProgramsOf(c)[k] \in TcPrograms
           /\ \A k \in 1..Len(PlacesOf(c)) : PlacesOf(c)[k] \in Interfaces =>
                 c.mode = "interface"
<1>. USE AttachConstants
<1>0. /\ c \in Config /\ c.mode \in {"interface", "cgroup"} /\ c.direction \in {"ingress", "egress", "both"}
      /\ c.interfaces \in Seq(Interfaces) /\ c.interfaces # <<>>
  BY DEF Config
<1>1. CASE c.mode = "interface"
  <2>1. PlacesOf(c) = c.interfaces
    BY <1>1 DEF PlacesOf
  <2>2. /\ Len(c.interfaces) \in Nat \ {0} /\ DOMAIN c.interfaces = 1..Len(c.interfaces)
        /\ \A k \in 1..Len(c.interfaces) : c.interfaces[k] \in Interfaces
    BY <1>0, EmptySeq, LenProperties, ElementOfSeq
  <2>3. c.interfaces \in Seq(Interfaces \cup {Cgroup})
    BY <1>0, SeqMonotonic
  <2>4. \/ ProgramsOf(c) = <<"xdp_traffic">>
        \/ ProgramsOf(c) = <<"tc_cls_egress">>
        \/ ProgramsOf(c) = <<"tc_cls_ingress", "tc_cls_egress">>
    BY <1>0, <1>1 DEF ProgramsOf
  <2>5. CASE ProgramsOf(c) = <<"xdp_traffic">>
    BY <1>1, <2>1, <2>2, <2>3, <2>5 DEF Hooks, Programs, TcPrograms
  <2>6. CASE ProgramsOf(c) = <<"tc_cls_egress">>
    BY <1>1, <2>1, <2>2, <2>3, <2>6 DEF Hooks, Programs, TcPrograms
  <2>7. CASE ProgramsOf(c) = <<"tc_cls_ingress", "tc_cls_egress">>
    BY <1>1, <2>1, <2>2, <2>3, <2>7 DEF Hooks, Programs, TcPrograms
  <2>. QED BY <2>4, <2>5, <2>6, <2>7
<1>2. CASE c.mode = "cgroup"
  <2>1. PlacesOf(c) = <<Cgroup>>
    BY <1>2 DEF PlacesOf
  <2>4. \/ ProgramsOf(c) = <<"cg_skb_ingress">>
        \/ ProgramsOf(c) = <<"cg_skb_egress">>
        \/ ProgramsOf(c) = <<"cg_skb_ingress", "cg_skb_egress">>
    BY <1>0, <1>2 DEF ProgramsOf
  <2>5. CASE ProgramsOf(c) = <<"cg_skb_ingress">>
    BY <1>2, <2>1, <2>5 DEF Hooks, Programs, TcPrograms, CgroupPrograms
  <2>6. CASE ProgramsOf(c) = <<"cg_skb_egress">>
    BY <1>2, <2>1, <2>6 DEF Hooks, Programs, TcPrograms, CgroupPrograms
  <2>7. CASE ProgramsOf(c) = <<"cg_skb_ingress", "cg_skb_egress">>
    BY <1>2, <2>1, <2>7 DEF Hooks, Programs, TcPrograms, CgroupPrograms
  <2>. QED BY <2>4, <2>5, <2>6, <2>7
<1>. QED BY <1>0, <1>1, <1>2

LEMMA ToAttachType ==
    ASSUME NEW c \in Configs
    PROVE  /\ ToAttach(c) \in Nat
           /\ ToAttach(c) % Len(ProgramsOf(c)) = 0
  BY ConfigType DEF ToAttach

(* The next program and its place, and which the one after it will be. *)
LEMMA NextHookType ==
    ASSUME cfg \in Configs, attached \in 0..ToAttach(cfg), attached < ToAttach(cfg)
    PROVE  /\ NextPlace \in Interfaces \cup {Cgroup}
           /\ NextProgram \in Programs
           /\ <<NextPlace, NextProgram>> \in Hooks
           /\ FirstOfPlace \/ LastOfPlace
           /\ ~LastOfPlace => Len(ProgramsOf(cfg)) = 2 /\ attached % 2 = 0
           /\ ~FirstOfPlace /\ NextPlace \in Interfaces => NextProgram \in TcPrograms
<1>. DEFINE n == Len(ProgramsOf(cfg))
            m == Len(PlacesOf(cfg))
            k == (attached \div n) + 1
            j == (attached % n) + 1
<1>1. n \in {1, 2} /\ m \in Nat \ {0} /\ attached \in Nat /\ attached < m * n
  BY ConfigType, ToAttachType DEF ToAttach
<1>2. k \in 1..m /\ j \in 1..n
  <2>1. CASE n = 1
    BY <1>1, <2>1
  <2>2. CASE n = 2
    BY <1>1, <2>2
  <2>. QED BY <1>1, <2>1, <2>2
<1>4. NextPlace = PlacesOf(cfg)[k] /\ NextProgram = ProgramsOf(cfg)[j]
  BY DEF NextPlace, NextProgram
<1>5. <<NextPlace, NextProgram>> \in Hooks
  BY <1>2, <1>4, ConfigType
<1>6. NextPlace \in Interfaces \cup {Cgroup} /\ NextProgram \in Programs
  BY <1>5 DEF Hooks, CgroupPrograms, Programs
<1>7. CASE n = 1
  BY <1>1, <1>5, <1>6, <1>7 DEF FirstOfPlace, LastOfPlace
<1>8. CASE n = 2
  <2>1. /\ FirstOfPlace <=> attached % 2 = 0
        /\ LastOfPlace <=> (attached + 1) % 2 = 0
    BY <1>8 DEF FirstOfPlace, LastOfPlace
  <2>2. attached % 2 = 0 \/ (attached + 1) % 2 = 0
    BY <1>1
  <2>3. ASSUME ~FirstOfPlace, NextPlace \in Interfaces
        PROVE  NextProgram \in TcPrograms
    <3>1. j = 2
      BY <1>1, <1>8, <2>1, <2>3
    <3>2. cfg.mode = "interface"
      BY <1>2, <1>4, <2>3, ConfigType
    <3>3. ProgramsOf(cfg) = <<"tc_cls_ingress", "tc_cls_egress">>
      BY <1>8, <3>2, AttachConstants DEF Config, ProgramsOf
    <3>. QED BY <1>4, <3>1, <3>3 DEF TcPrograms
  <2>. QED BY <1>5, <1>6, <1>8, <2>1, <2>2, <2>3
<1>. QED BY <1>1, <1>7, <1>8

-----------------------------------------------------------------------------
(* Type correctness                                                        *)

KernelTypeOK ==
    /\ ifindex \in [Interfaces -> 0..MaxIndex]
    /\ indices \in [Interfaces -> 1..MaxIndex]
    /\ \A i \in Interfaces : ifindex[i] \in {0, indices[i]}
    /\ hooks \in [Hooks -> 0..run]

AgentTypeOK ==
    /\ run \in 0..MaxRuns
    /\ pc \in {"down", "attaching", "running", "closing"}
    /\ pc # "down" => run # 0
    /\ cfg \in Configs
    /\ attached \in 0..ToAttach(cfg)
    /\ pc = "running" => attached = ToAttach(cfg)
    /\ idx \in 0..MaxIndex
    /\ closers \in Seq(Closer)

LEMMA TypeParts ==
    /\ TypeOK <=> KernelTypeOK /\ AgentTypeOK /\ ClockTypeOK
    /\ TypeOK' <=> KernelTypeOK' /\ AgentTypeOK' /\ ClockTypeOK'
  BY DEF TypeOK, KernelTypeOK, AgentTypeOK

ClockNumbers ==
    /\ wall \in 0..MaxTime
    /\ boot \in Nat
    /\ mono \in 0..boot
    /\ offset \in Int
    /\ sleptBefore \in 0..(boot - mono)

LEMMA ClockStepType ==
    ASSUME ClockTypeOK, ClockStep
    PROVE  ClockTypeOK'
<1>. USE AttachConstants
<1>1. ClockNumbers
  BY DEF ClockTypeOK, ClockNumbers
<1>2. ClockNumbers'
  BY <1>1 DEF ClockNumbers, ClockStep, TimePasses, Suspend, SetForward, SetBack
<1>3. since' \subseteq {"suspended", "setForward", "setBack"}
  BY DEF ClockTypeOK, ClockStep, TimePasses, Suspend, SetForward, SetBack
<1>. QED BY <1>2, <1>3 DEF ClockTypeOK, ClockNumbers

LEMMA OffsetType ==
    ASSUME ClockTypeOK, NewMonoOffset
    PROVE  ClockTypeOK'
<1>1. ClockNumbers
  BY DEF ClockTypeOK, ClockNumbers
<1>2. ClockNumbers'
  BY <1>1, AttachConstants DEF ClockNumbers, NewMonoOffset
<1>. QED BY <1>2 DEF ClockTypeOK, ClockNumbers, NewMonoOffset

LEMMA IndexType ==
    ASSUME KernelTypeOK, NEW p \in Interfaces \cup {Cgroup}
    PROVE  IndexOf(p) \in 0..MaxIndex
  BY AttachConstants DEF KernelTypeOK, IndexOf

LEMMA AttachTypeInit == Init => TypeOK
<1>. SUFFICES ASSUME Init
              PROVE  TypeOK
  OBVIOUS
<1>1. ClockTypeOK
  BY AttachConstants DEF Init, ClockInit, ClockTypeOK
<1>2. KernelTypeOK
  BY AttachConstants DEF Init, KernelTypeOK
<1>3. AgentTypeOK
  BY AttachConstants, ToAttachType, EmptySeq DEF Init, AgentTypeOK
<1>. QED BY <1>1, <1>2, <1>3, TypeParts

LEMMA AttachProgramType ==
    ASSUME TypeOK, AttachProgram
    PROVE  KernelTypeOK' /\ AgentTypeOK'
<1>. USE AttachConstants
<1>1. /\ KernelTypeOK /\ AgentTypeOK /\ attached < ToAttach(cfg)
      /\ ToAttach(cfg) \in Nat
      /\ NextPlace \in Interfaces \cup {Cgroup} /\ NextProgram \in Programs /\ NextHook \in Hooks
  BY TypeParts, ToAttachType, NextHookType DEF AttachProgram, AgentTypeOK, NextHook
<1>2. hooks' \in [Hooks -> 0..run] /\ UNCHANGED <<ifindex, indices, run, pc, cfg>>
  <2>1. run \in 0..run
    BY <1>1 DEF AgentTypeOK
  <2>. QED BY <1>1, <2>1 DEF AttachProgram, KernelTypeOK
<1>3. closers' \in Seq(Closer)
  <2>1. NewClosers \in Seq(Closer)
    <3>1. [place |-> NextPlace, index |-> idx, program |-> NextProgram] \in Closer
      BY <1>1 DEF Closer, AgentTypeOK
    <3>. QED BY <3>1, EmptySeq DEF NewClosers
  <2>2. closers' = closers \o NewClosers
    BY DEF AttachProgram
  <2>. QED BY <1>1, <2>1, <2>2, ConcatProperties DEF AgentTypeOK
<1>4. attached' \in 0..ToAttach(cfg) /\ idx' \in 0..MaxIndex /\ pc' = "attaching"
  BY <1>1, <1>2 DEF AttachProgram, AgentTypeOK
<1>5. ToAttach(cfg') = ToAttach(cfg) /\ run' # 0
  BY <1>1, <1>2 DEF AttachProgram, AgentTypeOK
<1>6. KernelTypeOK'
  BY <1>1, <1>2 DEF KernelTypeOK
<1>. QED BY <1>1, <1>2, <1>3, <1>4, <1>5, <1>6 DEF AgentTypeOK

LEMMA ProcessGoneType ==
    ASSUME TypeOK, ProcessGone
    PROVE  KernelTypeOK' /\ AgentTypeOK'
<1>1. KernelTypeOK /\ AgentTypeOK
  BY TypeParts
<1>2. hooks' \in [Hooks -> 0..run]
  BY <1>1 DEF ProcessGone, KernelTypeOK, AgentTypeOK
<1>3. KernelTypeOK'
  BY <1>1, <1>2 DEF ProcessGone, KernelTypeOK
<1>. QED BY <1>1, <1>3, AttachConstants DEF ProcessGone, AgentTypeOK

LEMMA RunCloserType ==
    ASSUME TypeOK, RunCloser
    PROVE  KernelTypeOK' /\ AgentTypeOK'
<1>1. KernelTypeOK /\ AgentTypeOK
  BY TypeParts
<1>2. hooks' \in [Hooks -> 0..run]
  BY <1>1 DEF RunCloser, KernelTypeOK, AgentTypeOK
<1>3. closers' \in Seq(Closer)
  BY <1>1, LenProperties, SubSeqProperties DEF RunCloser, Front, AgentTypeOK
<1>4. KernelTypeOK'
  BY <1>1, <1>2 DEF RunCloser, KernelTypeOK
<1>. QED BY <1>1, <1>3, <1>4 DEF RunCloser, AgentTypeOK

LEMMA AttachTypeNext ==
    ASSUME TypeOK, [Next]_vars
    PROVE  TypeOK'
<1>. USE AttachConstants
<1>0. KernelTypeOK /\ AgentTypeOK /\ ClockTypeOK
  BY TypeParts
<1>1. ASSUME NEW c \in Configs, Start(c)
      PROVE  TypeOK'
  <2>1. ClockTypeOK'
    BY <1>0, <1>1, OffsetType DEF Start
  <2>2. KernelTypeOK'
    BY <1>0, <1>1 DEF Start, kernelVars, KernelTypeOK, AgentTypeOK
  <2>3. AgentTypeOK'
    BY <1>0, <1>1, ToAttachType, EmptySeq DEF Start, kernelVars, AgentTypeOK
  <2>. QED BY <2>1, <2>2, <2>3, TypeParts
<1>2. CASE LookUp
  <2>1. NextPlace \in Interfaces \cup {Cgroup}
    BY <1>0, <1>2, NextHookType DEF LookUp, AgentTypeOK
  <2>2. idx' \in 0..MaxIndex
    BY <1>0, <1>2, <2>1, IndexType DEF LookUp
  <2>. QED BY <1>0, <1>2, <2>2 DEF LookUp, TypeOK, kernelVars, clockVars, ClockTypeOK, KernelTypeOK, AgentTypeOK
<1>3. CASE AttachProgram
  <2>1. ClockTypeOK'
    BY <1>0, <1>3 DEF AttachProgram, clockVars, ClockTypeOK
  <2>. QED BY <1>3, <2>1, AttachProgramType, TypeParts
<1>4. CASE AttachReturns \/ Stop
  BY <1>0, <1>4 DEF AttachReturns, Stop, TypeOK, kernelVars, clockVars, ClockTypeOK, KernelTypeOK, AgentTypeOK
<1>5. CASE AttachFails \/ Exit \/ Crash
  <2>1. ProcessGone
    BY <1>5 DEF AttachFails, Exit, Crash
  <2>2. ClockTypeOK'
    BY <1>0, <2>1 DEF ProcessGone, clockVars, ClockTypeOK
  <2>. QED BY <2>1, <2>2, ProcessGoneType, TypeParts
<1>6. CASE RunCloser
  <2>1. ClockTypeOK'
    BY <1>0, <1>6 DEF RunCloser, clockVars, ClockTypeOK
  <2>. QED BY <1>6, <2>1, RunCloserType, TypeParts
<1>7. ASSUME NEW i \in Interfaces, Unplug(i) \/ Plug(i)
      PROVE  TypeOK'
  <2>1. AgentTypeOK' /\ ClockTypeOK'
    BY <1>0, <1>7 DEF Unplug, Plug, agentVars, clockVars, AgentTypeOK, ClockTypeOK
  <2>2. CASE Unplug(i)
    <3>1. /\ ifindex' \in [Interfaces -> 0..MaxIndex]
          /\ \A e \in Interfaces : ifindex'[e] \in {0, indices[e]}
      BY <1>0, <2>2 DEF Unplug, KernelTypeOK
    <3>2. hooks' \in [Hooks -> 0..run]
      BY <1>0, <2>2 DEF Unplug, KernelTypeOK, AgentTypeOK
    <3>. QED BY <1>0, <2>1, <2>2, <3>1, <3>2, TypeParts DEF Unplug, agentVars, KernelTypeOK
  <2>3. CASE Plug(i)
    <3>1. /\ ifindex' \in [Interfaces -> 0..MaxIndex]
          /\ indices' \in [Interfaces -> 1..MaxIndex]
          /\ \A e \in Interfaces : ifindex'[e] \in {0, indices'[e]}
      BY <1>0, <2>3 DEF Plug, KernelTypeOK
    <3>. QED BY <1>0, <2>1, <2>3, <3>1, TypeParts DEF Plug, agentVars, KernelTypeOK
  <2>. QED BY <1>7, <2>2, <2>3
<1>8. CASE ClockStep /\ UNCHANGED <<kernelVars, agentVars>>
  BY <1>0, <1>8, ClockStepType, TypeParts DEF kernelVars, agentVars, KernelTypeOK, AgentTypeOK
<1>9. CASE UNCHANGED vars
  BY <1>0, <1>9, TypeParts DEF vars, kernelVars, agentVars, clockVars, KernelTypeOK, AgentTypeOK, ClockTypeOK
<1>. QED BY <1>1, <1>2, <1>3, <1>4, <1>5, <1>6, <1>7, <1>8, <1>9
         DEF Next, AgentStep, HostStep, Rest

(* The agent's state is well typed for every configuration: Attach never   *)
(* runs past the last place, and an agent that runs has attached           *)
(* everything (collector.go:71-90).                                        *)
THEOREM AttachTypeCorrect == Spec => []TypeOK
<1>1. Init => TypeOK
  BY AttachTypeInit
<1>2. TypeOK /\ [Next]_vars => TypeOK'
  BY AttachTypeNext
<1>. QED BY <1>1, <1>2, PTL DEF Spec

-----------------------------------------------------------------------------
(* Times                                                                   *)

(* Unless the wall clock was set back, the two clocks plus the offset are  *)
(* behind it, CLOCK_BOOTTIME but for the suspends before the offset.       *)
OffsetInv ==
    "setBack" \notin since =>
        /\ mono + offset <= wall
        /\ boot + offset <= wall + sleptBefore

LEMMA OffsetInit == Init => OffsetInv
  BY DEF Init, ClockInit, OffsetInv

LEMMA OffsetClockStep ==
    ASSUME ClockTypeOK, OffsetInv, ClockStep
    PROVE  OffsetInv'
<1>. SUFFICES ASSUME "setBack" \notin since'
              PROVE  mono' + offset' <= wall' /\ boot' + offset' <= wall' + sleptBefore'
  BY DEF OffsetInv
<1>1. ClockNumbers /\ MaxTime \in Nat
  BY AttachConstants DEF ClockTypeOK, ClockNumbers
<1>2. "setBack" \notin since /\ ~SetBack
  BY DEF ClockStep, TimePasses, Suspend, SetForward, SetBack
<1>3. mono + offset <= wall /\ boot + offset <= wall + sleptBefore
  BY <1>2 DEF OffsetInv
<1>4. /\ offset' = offset /\ sleptBefore' = sleptBefore /\ wall' = wall + 1
      /\ boot' = boot \/ boot' = boot + 1
      /\ mono' = mono \/ mono' = mono + 1
  BY <1>2 DEF ClockStep, TimePasses, Suspend, SetForward
<1>. QED BY <1>1, <1>3, <1>4 DEF ClockNumbers

LEMMA OffsetNext ==
    ASSUME TypeOK, OffsetInv, [Next]_vars
    PROVE  OffsetInv'
<1>1. ClockTypeOK /\ ClockNumbers
  BY TypeParts DEF ClockTypeOK, ClockNumbers
<1>2. CASE ClockStep
  BY <1>1, <1>2, OffsetClockStep
<1>3. CASE NewMonoOffset
  BY <1>1, <1>3 DEF ClockNumbers, NewMonoOffset, OffsetInv
<1>4. CASE UNCHANGED clockVars
  BY <1>4 DEF clockVars, OffsetInv
<1>. QED BY <1>2, <1>3, <1>4
         DEF Next, AgentStep, HostStep, Rest, vars, Start, LookUp, AttachProgram, AttachReturns,
             AttachFails, Stop, RunCloser, Exit, Crash, ProcessGone, Unplug, Plug

(* For every host and configuration: no event bears a time that is still   *)
(* to come but those of tc_cls_ingress on a host that was suspended before *)
(* the agent started, or where the wall clock was set back (clock.go,      *)
(* traffic.c:123).                                                         *)
THEOREM TimesAreNotAhead == Spec => []NotFromTheFuture
<1>1. Init => OffsetInv
  BY OffsetInit
<1>2. TypeOK /\ OffsetInv /\ [Next]_vars => OffsetInv'
  BY OffsetNext
<1>3. TypeOK /\ OffsetInv => NotFromTheFuture
  <2>. SUFFICES ASSUME ClockNumbers, OffsetInv, "setBack" \notin since, NEW program \in Programs
                PROVE  ToRealtime(Ktime(program)) <=
                          wall + (IF program = "tc_cls_ingress" THEN sleptBefore ELSE 0)
    <3>1. TypeOK => ClockNumbers
      BY TypeParts DEF ClockTypeOK, ClockNumbers
    <3>2. \A h \in Hooks : h[2] \in Programs
      BY DEF Hooks, Programs, CgroupPrograms
    <3>. QED BY <3>1, <3>2 DEF NotFromTheFuture
  <2>1. mono + offset <= wall /\ boot + offset <= wall + sleptBefore
    BY DEF OffsetInv
  <2>. QED BY <2>1 DEF ToRealtime, Ktime, ClockNumbers
<1>. QED BY <1>1, <1>2, <1>3, AttachTypeCorrect, PTL DEF Spec

-----------------------------------------------------------------------------
(* Hooks                                                                   *)

(* Running closer c frees hook h, as the interfaces are now. *)
FreedBy(c, h) ==
    /\ c.place = h[1]
    /\ c.index = IndexOf(h[1])
    /\ IF h[2] \in TcPrograms THEN c.program \in TcPrograms ELSE c.program = h[2]

(* The hook of the first of two filters, for which no closer is registered *)
(* before the second is in place.                                          *)
AwaitsSecond(h) ==
    /\ pc = "attaching"
    /\ ~FirstOfPlace
    /\ h[1] = NextPlace
    /\ h[2] \in TcPrograms
    /\ idx = IndexOf(NextPlace)

OwnHooksTracked ==
    pc # "down" => \A h \in Hooks : hooks[h] = run =>
        AwaitsSecond(h) \/ \E k \in 1..Len(closers) : FreedBy(closers[k], h)

OnlyFiltersOutlive ==
    \A h \in Hooks : hooks[h] # 0 /\ (hooks[h] # run \/ pc = "down") => h[2] \in TcPrograms

NoInterfaceNoHooks ==
    \A h \in Hooks : h[1] \in Interfaces /\ ifindex[h[1]] = 0 => hooks[h] = 0

HookInv == OwnHooksTracked /\ OnlyFiltersOutlive /\ NoInterfaceNoHooks

LEMMA HookFacts ==
    /\ \A h \in Hooks : h = <<h[1], h[2]>> /\ h[1] \in Interfaces \cup {Cgroup}
    /\ \A h \in Hooks : h[2] \in TcPrograms => h[1] \in Interfaces
  BY DEF Hooks, CgroupPrograms, TcPrograms

LEMMA HookInit == Init => HookInv
  BY DEF Init, HookInv, OwnHooksTracked, OnlyFiltersOutlive, NoInterfaceNoHooks

(* After its first filter a place waits for the second; after its last     *)
(* program the new closer frees all this run has in place there.           *)
LEMMA HookAttachProgram ==
    ASSUME TypeOK, TypeOK', HookInv, AttachProgram
    PROVE  HookInv'
<1>1. /\ KernelTypeOK /\ AgentTypeOK /\ attached < ToAttach(cfg) /\ cfg \in Configs
      /\ NextPlace \in Interfaces \cup {Cgroup} /\ NextProgram \in Programs /\ NextHook \in Hooks
      /\ FirstOfPlace \/ LastOfPlace
      /\ ~LastOfPlace => Len(ProgramsOf(cfg)) = 2 /\ attached \in Nat /\ attached % 2 = 0
      /\ ~FirstOfPlace /\ NextPlace \in Interfaces => NextProgram \in TcPrograms
  BY TypeParts, NextHookType, ToAttachType DEF AttachProgram, AgentTypeOK, NextHook
<1>2. /\ pc = "attaching" /\ pc' = "attaching" /\ run' = run /\ cfg' = cfg /\ run # 0 /\ idx # 0
      /\ ifindex' = ifindex /\ closers' = closers \o NewClosers
      /\ hooks' = [hooks EXCEPT ![NextHook] = run]
      /\ IndexOf(NextPlace) = idx /\ hooks[NextHook] = 0
      /\ attached' = attached + 1
      /\ idx' = IF LastOfPlace THEN 0 ELSE idx
  BY <1>1 DEF AttachProgram, AgentTypeOK
<1>3. \A h \in Hooks : hooks'[h] = IF h = NextHook THEN run ELSE hooks[h]
  BY <1>1, <1>2 DEF KernelTypeOK
<1>4. \A p : IndexOf(p)' = IndexOf(p)
  BY <1>2 DEF IndexOf
<1>5. OnlyFiltersOutlive'
  BY <1>1, <1>2, <1>3 DEF HookInv, OnlyFiltersOutlive
<1>6. NoInterfaceNoHooks'
  <2>1. NextPlace \in Interfaces => ifindex[NextPlace] # 0
    BY <1>2, AttachConstants DEF IndexOf
  <2>. QED BY <1>2, <1>3, <2>1 DEF HookInv, NoInterfaceNoHooks, NextHook
<1>7. /\ closers' \in Seq(Closer) /\ Len(closers) \in Nat /\ Len(closers') >= Len(closers)
      /\ \A k \in 1..Len(closers) : closers'[k] = closers[k]
  <2>1. closers \in Seq(Closer) /\ closers' \in Seq(Closer)
    BY <1>1, TypeParts DEF AgentTypeOK
  <2>2. NewClosers \in Seq(Closer)
    <3>1. [place |-> NextPlace, index |-> idx, program |-> NextProgram] \in Closer
      BY <1>1 DEF Closer, AgentTypeOK
    <3>. QED BY <3>1, EmptySeq DEF NewClosers
  <2>. QED BY <1>2, <2>1, <2>2, ConcatProperties, LenProperties
<1>8. ASSUME NEW h \in Hooks, hooks'[h] = run
      PROVE  (AwaitsSecond(h) \/ \E k \in 1..Len(closers) : FreedBy(closers[k], h))'
  <2>1. CASE \E k \in 1..Len(closers) : FreedBy(closers[k], h)
    BY <1>4, <1>7, <2>1 DEF FreedBy
  <2>2. CASE h = NextHook \/ AwaitsSecond(h)
    <3>1. CASE NextProgram \in TcPrograms /\ ~LastOfPlace
      <4>1. h = NextHook
        BY <1>1, <2>2, <3>1 DEF AwaitsSecond
      <4>2. ~FirstOfPlace' /\ NextPlace' = NextPlace
        <5>1. Len(ProgramsOf(cfg)) = 2 /\ attached \in Nat /\ attached % 2 = 0
          BY <1>1, <3>1
        <5>2. (attached + 1) % 2 # 0
          BY <5>1
        <5>3. (attached + 1) \div 2 = attached \div 2
          BY <5>1
        <5>. QED BY <1>2, <5>1, <5>2, <5>3 DEF FirstOfPlace, NextPlace
      <4>. QED BY <1>2, <1>4, <3>1, <4>1, <4>2 DEF AwaitsSecond, NextHook
    <3>2. CASE ~(NextProgram \in TcPrograms /\ ~LastOfPlace)
      <4>. DEFINE c == [place |-> NextPlace, index |-> idx, program |-> NextProgram]
      <4>1. closers' = closers \o <<c>>
        BY <1>2, <3>2 DEF NewClosers
      <4>2. Len(closers') = Len(closers) + 1 /\ closers'[Len(closers) + 1] = c
        BY <1>1, <4>1, <1>7 DEF AgentTypeOK
      <4>3. h[1] = NextPlace /\ (h[2] = NextProgram \/ AwaitsSecond(h))
        BY <2>2 DEF NextHook, AwaitsSecond
      <4>4. AwaitsSecond(h) => NextProgram \in TcPrograms
        BY <1>1, HookFacts DEF AwaitsSecond
      <4>5. FreedBy(closers[Len(closers)], h)'
        BY <1>2, <1>4, <4>2, <4>3, <4>4 DEF FreedBy, AwaitsSecond
      <4>. QED BY <1>7, <4>2, <4>5
    <3>. QED BY <3>1, <3>2
  <2>. QED BY <1>2, <1>3, <1>8, <2>1, <2>2 DEF HookInv, OwnHooksTracked
<1>. QED BY <1>2, <1>5, <1>6, <1>8 DEF HookInv, OwnHooksTracked

LEMMA HookProcessGone ==
    ASSUME TypeOK, HookInv, ProcessGone
    PROVE  HookInv'
<1>1. \A h \in Hooks : hooks'[h] = IF hooks[h] = run /\ h[2] \notin TcPrograms THEN 0 ELSE hooks[h]
  BY DEF ProcessGone
<1>2. OwnHooksTracked'
  BY DEF ProcessGone, OwnHooksTracked
<1>3. OnlyFiltersOutlive'
  BY <1>1 DEF HookInv, OnlyFiltersOutlive
<1>4. NoInterfaceNoHooks'
  BY <1>1 DEF ProcessGone, HookInv, NoInterfaceNoHooks
<1>. QED BY <1>2, <1>3, <1>4 DEF HookInv

(* Front leaves out the last element. *)
LEMMA FrontFacts ==
    ASSUME NEW S, NEW s \in Seq(S), s # <<>>
    PROVE  /\ Len(s) \in Nat \ {0}
           /\ Len(Front(s)) = Len(s) - 1
           /\ \A k \in 1..Len(s) - 1 : Front(s)[k] = s[k]
<1>1. Len(s) \in Nat \ {0}
  BY EmptySeq, LenProperties
<1>2. \A k \in 1..Len(s) - 1 : s[k] \in S
  BY <1>1, ElementOfSeq
<1>3. Len(s) - 1 \in Int /\ 1 \in Int /\ (1 <= Len(s) - 1 \/ Len(s) - 1 = 0)
  <2>1. PICK l \in Nat : l = Len(s) /\ l # 0
    BY <1>1
  <2>2. l - 1 \in Int /\ 1 \in Int
    OBVIOUS
  <2>3. 1 <= l - 1 \/ l - 1 = 0
    BY <2>1
  <2>. QED BY ONLY <2>1, <2>2, <2>3
<1>4. /\ Len(Front(s)) = Len(s) - 1
      /\ \A k \in 1..(Len(s) - 1) - 1 + 1 : Front(s)[k] = s[1 + k - 1]
  BY ONLY <1>2, <1>3, SubSeqProperties DEF Front
<1>. QED BY <1>1, <1>4

(* The last closer frees what it tracks, so that the others track the rest. *)
LEMMA HookRunCloser ==
    ASSUME TypeOK, HookInv, RunCloser
    PROVE  HookInv'
<1>. DEFINE c == Last(closers)
<1>1. /\ KernelTypeOK /\ closers \in Seq(Closer) /\ closers # <<>> /\ run # 0
      /\ pc = "closing" /\ pc' = pc /\ run' = run /\ ifindex' = ifindex
      /\ closers' = Front(closers)
      /\ hooks' = IF c.index = IndexOf(c.place)
                  THEN [h \in Hooks |-> IF h \in Frees(c) THEN 0 ELSE hooks[h]] ELSE hooks
  BY TypeParts DEF RunCloser, AgentTypeOK
<1>2. \A h \in Hooks : hooks'[h] \in {0, hooks[h]}
  BY <1>1 DEF KernelTypeOK
<1>3. /\ Len(closers) \in Nat \ {0} /\ c = closers[Len(closers)]
      /\ Len(closers') = Len(closers) - 1
      /\ \A k \in 1..Len(closers') : closers'[k] = closers[k]
  BY <1>1, FrontFacts DEF Last
<1>4. OwnHooksTracked'
  <2>. SUFFICES ASSUME NEW h \in Hooks, hooks'[h] = run
                PROVE  (\E k \in 1..Len(closers) : FreedBy(closers[k], h))'
    BY <1>1 DEF OwnHooksTracked
  <2>1. hooks[h] = run
    BY <1>1, <1>2
  <2>2. PICK k \in 1..Len(closers) : FreedBy(closers[k], h)
    BY <1>1, <2>1 DEF HookInv, OwnHooksTracked, AwaitsSecond
  <2>3. k # Len(closers)
    <3>. SUFFICES ASSUME FreedBy(c, h)
                  PROVE  FALSE
      BY <1>3, <2>2
    <3>1. h \in Frees(c)
      BY <2>1, HookFacts DEF Frees, FreedBy, TcPrograms
    <3>2. hooks'[h] = 0
      BY <1>1, <3>1 DEF FreedBy
    <3>. QED BY <1>1, <3>2
  <2>4. k \in 1..Len(closers') /\ closers'[k] = closers[k]
    BY <1>3, <2>3
  <2>5. FreedBy(closers[k], h)'
    BY <1>1, <2>2, <2>4 DEF FreedBy, IndexOf
  <2>. QED BY <2>4, <2>5
<1>5. OnlyFiltersOutlive'
  BY <1>1, <1>2 DEF HookInv, OnlyFiltersOutlive
<1>6. NoInterfaceNoHooks'
  BY <1>1, <1>2 DEF HookInv, NoInterfaceNoHooks
<1>. QED BY <1>4, <1>5, <1>6 DEF HookInv

(* An interface that goes takes its hooks along, and one that comes has    *)
(* none; the others keep their index.                                      *)
LEMMA HookInterface ==
    ASSUME TypeOK, HookInv, NEW i \in Interfaces, Unplug(i) \/ Plug(i)
    PROVE  HookInv'
<1>1. /\ KernelTypeOK /\ AgentTypeOK
      /\ UNCHANGED agentVars
      /\ \A p \in (Interfaces \cup {Cgroup}) \ {i} : IndexOf(p)' = IndexOf(p)
  BY TypeParts DEF Unplug, Plug, IndexOf, KernelTypeOK
<1>2. \A h \in Hooks : hooks'[h] = IF h[1] = i THEN 0 ELSE hooks[h]
  <2>1. CASE Unplug(i)
    BY <2>1 DEF Unplug
  <2>2. CASE Plug(i)
    BY <2>2 DEF Plug, HookInv, NoInterfaceNoHooks
  <2>. QED BY <2>1, <2>2
<1>3. OwnHooksTracked'
  <2>. SUFFICES ASSUME pc # "down", NEW h \in Hooks, hooks'[h] = run
                PROVE  (AwaitsSecond(h) \/ \E k \in 1..Len(closers) : FreedBy(closers[k], h))'
    BY <1>1 DEF OwnHooksTracked, agentVars
  <2>1. h[1] # i /\ hooks[h] = run
    BY <1>1, <1>2 DEF AgentTypeOK
  <2>2. IndexOf(h[1])' = IndexOf(h[1])
    BY <1>1, <2>1, HookFacts
  <2>3. ASSUME NEW k \in 1..Len(closers), FreedBy(closers[k], h)
        PROVE  FreedBy(closers[k], h)'
    BY <1>1, <2>2, <2>3 DEF FreedBy, agentVars
  <2>4. AwaitsSecond(h) => AwaitsSecond(h)'
    <3>1. NextPlace' = NextPlace /\ FirstOfPlace' = FirstOfPlace
      BY <1>1 DEF agentVars, NextPlace, FirstOfPlace
    <3>. QED BY <1>1, <2>2, <3>1 DEF AwaitsSecond, agentVars
  <2>. QED BY <1>1, <2>1, <2>3, <2>4 DEF HookInv, OwnHooksTracked, agentVars
<1>4. OnlyFiltersOutlive'
  BY <1>1, <1>2 DEF HookInv, OnlyFiltersOutlive, agentVars
<1>5. NoInterfaceNoHooks'
  <2>1. \A e \in Interfaces \ {i} : ifindex'[e] = ifindex[e]
    BY <1>1 DEF Unplug, Plug, KernelTypeOK
  <2>. QED BY <1>2, <2>1 DEF HookInv, NoInterfaceNoHooks
<1>. QED BY <1>3, <1>4, <1>5 DEF HookInv

LEMMA HookNext ==
    ASSUME TypeOK, TypeOK', HookInv, [Next]_vars
    PROVE  HookInv'
<1>0. KernelTypeOK /\ AgentTypeOK
  BY TypeParts
<1>1. ASSUME NEW c \in Configs, Start(c)
      PROVE  HookInv'
  <2>1. /\ pc = "down" /\ run' = run + 1 /\ pc' = "attaching" /\ hooks' = hooks /\ ifindex' = ifindex
        /\ \A h \in Hooks : hooks[h] \in 0..run
        /\ run \in Nat
    BY <1>0, <1>1, AttachConstants DEF Start, kernelVars, KernelTypeOK, AgentTypeOK
  <2>2. \A h \in Hooks : hooks'[h] # run'
    BY <2>1
  <2>. QED BY <2>1, <2>2 DEF HookInv, OwnHooksTracked, OnlyFiltersOutlive, NoInterfaceNoHooks
<1>2. CASE LookUp
  <2>1. UNCHANGED <<ifindex, hooks, run, pc, cfg, attached, closers>> /\ FirstOfPlace
    BY <1>2 DEF LookUp, kernelVars
  <2>2. \A p : IndexOf(p)' = IndexOf(p)
    BY <2>1 DEF IndexOf
  <2>. QED BY <2>1, <2>2
           DEF HookInv, OwnHooksTracked, OnlyFiltersOutlive, NoInterfaceNoHooks, AwaitsSecond, FreedBy
<1>3. CASE AttachProgram
  BY <1>3, HookAttachProgram
<1>4. CASE AttachReturns \/ Stop
  <2>1. UNCHANGED <<ifindex, hooks, run, cfg, attached, closers>> /\ pc # "down" /\ pc' # "down"
    BY <1>4 DEF AttachReturns, Stop, kernelVars
  <2>2. \A p : IndexOf(p)' = IndexOf(p)
    BY <2>1 DEF IndexOf
  <2>3. \A h \in Hooks : ~AwaitsSecond(h)
    BY <1>0, <1>4, ToAttachType DEF AttachReturns, Stop, AwaitsSecond, FirstOfPlace, AgentTypeOK
  <2>. QED BY <2>1, <2>2, <2>3
           DEF HookInv, OwnHooksTracked, OnlyFiltersOutlive, NoInterfaceNoHooks, FreedBy
<1>5. CASE AttachFails \/ Exit \/ Crash
  BY <1>5, HookProcessGone DEF AttachFails, Exit, Crash
<1>6. CASE RunCloser
  BY <1>6, HookRunCloser
<1>7. ASSUME NEW i \in Interfaces, Unplug(i) \/ Plug(i)
      PROVE  HookInv'
  BY <1>7, HookInterface
<1>8. CASE UNCHANGED <<kernelVars, agentVars>>
  <2>1. UNCHANGED <<ifindex, hooks, run, pc, cfg, attached, idx, closers>>
    BY <1>8 DEF kernelVars, agentVars
  <2>2. /\ \A p : IndexOf(p)' = IndexOf(p)
        /\ NextPlace' = NextPlace /\ FirstOfPlace' = FirstOfPlace
    BY <2>1 DEF IndexOf, NextPlace, FirstOfPlace
  <2>. QED BY <2>1, <2>2
           DEF HookInv, OwnHooksTracked, OnlyFiltersOutlive, NoInterfaceNoHooks, AwaitsSecond, FreedBy
<1>. QED BY <1>1, <1>2, <1>3, <1>4, <1>5, <1>6, <1>7, <1>8
         DEF Next, AgentStep, HostStep, Rest, vars

(* For every set of interfaces, configuration and number of runs: a Close  *)
(* that runs to its end takes away all that the run has put in place, and  *)
(* no end of a run leaves more than TC filters (collector.go:152-158,      *)
(* tc.go:92-107).                                                          *)
THEOREM CloseTakesAll == Spec => []NothingLeftBehind
<1>1. Init => HookInv
  BY HookInit
<1>2. TypeOK /\ TypeOK' /\ HookInv /\ [Next]_vars => HookInv'
  BY HookNext
<1>3. HookInv => NothingLeftBehind
  <2>1. closers = <<>> => 1..Len(closers) = {}
    BY EmptySeq
  <2>. QED BY <2>1 DEF HookInv, OwnHooksTracked, OnlyFiltersOutlive, AwaitsSecond, NothingLeftBehind
<1>. QED BY <1>1, <1>2, <1>3, AttachTypeCorrect, PTL DEF Spec
-----------------------------------------------------------------------------
(* Capture                                                                 *)

(* What this run has in place anywhere is a program of its configuration. *)
OwnAreConfigured ==
    pc # "down" => \A h \in Hooks : hooks[h] = run =>
        \E j \in 1..Len(ProgramsOf(cfg)) : h[2] = ProgramsOf(cfg)[j]

(* The indices a run has looked up are of interfaces there have been: one  *)
(* that comes later has a greater index than all of them.                  *)
LookedUp(place, index) == place \in Interfaces => index <= indices[place]

OldIndices ==
    /\ \A k \in 1..Len(closers) :
          closers[k].index # 0 /\ LookedUp(closers[k].place, closers[k].index)
    /\ pc = "attaching" /\ attached < ToAttach(cfg) => LookedUp(NextPlace, idx)
    /\ pc = "down" => idx = 0

(* Closer c stands for place k: as long as the interface is the same, all  *)
(* programs of the configuration are in place there.                       *)
Covers(c, k) ==
    /\ c.place = PlacesOf(cfg)[k]
    /\ c.index = IndexOf(c.place) =>
          \A j \in 1..Len(ProgramsOf(cfg)) : hooks[<<c.place, ProgramsOf(cfg)[j]>>] = run

PlacesCovered ==
    pc \in {"attaching", "running"} =>
        \A k \in 1..(attached \div Len(ProgramsOf(cfg))) :
            \E m \in 1..Len(closers) : Covers(closers[m], k)

FirstInPlace ==
    pc = "attaching" /\ ~FirstOfPlace =>
        /\ idx # 0
        /\ idx = IndexOf(NextPlace) => hooks[<<NextPlace, ProgramsOf(cfg)[1]>>] = run

CaptureInv == OwnAreConfigured /\ OldIndices /\ PlacesCovered /\ FirstInPlace

LEMMA CountPlaces ==
    ASSUME NEW n \in {1, 2}, NEW a \in Nat
    PROVE  /\ a \div n \in Nat
           /\ (a + 1) % n # 0 => n = 2 /\ a % n = 0 /\ (a + 1) \div n = a \div n
           /\ (a + 1) % n = 0 => (a + 1) \div n = (a \div n) + 1 /\ (a % n) + 1 = n
<1>1. CASE n = 1
  BY <1>1
<1>2. CASE n = 2
  BY <1>2
<1>. QED BY <1>1, <1>2

(* How many places are finished, and that Attach is not beyond the last. *)
LEMMA PlacesType ==
    ASSUME AgentTypeOK
    PROVE  /\ Len(ProgramsOf(cfg)) \in {1, 2} /\ attached \in Nat /\ ToAttach(cfg) \in Nat
           /\ attached \div Len(ProgramsOf(cfg)) \in 0..Len(PlacesOf(cfg))
           /\ pc = "running" => attached \div Len(ProgramsOf(cfg)) = Len(PlacesOf(cfg))
           /\ ~FirstOfPlace => attached < ToAttach(cfg)
           /\ \A k \in 1..(attached \div Len(ProgramsOf(cfg))), j \in 1..Len(ProgramsOf(cfg)) :
                 <<PlacesOf(cfg)[k], ProgramsOf(cfg)[j]>> \in Hooks
<1>. DEFINE n == Len(ProgramsOf(cfg))
            m == Len(PlacesOf(cfg))
<1>1. n \in {1, 2} /\ m \in Nat \ {0} /\ attached \in 0..(m * n)
      /\ (pc = "running" => attached = m * n)
      /\ (~FirstOfPlace => attached # ToAttach(cfg)) /\ ToAttach(cfg) = m * n
  BY ConfigType, ToAttachType DEF AgentTypeOK, ToAttach, FirstOfPlace
<1>2. attached \div n \in 0..m /\ (pc = "running" => attached \div n = m)
  <2>1. CASE n = 1
    BY <1>1, <2>1
  <2>2. CASE n = 2
    BY <1>1, <2>2
  <2>. QED BY <1>1, <2>1, <2>2
<1>3. m * n \in Nat
  BY <1>1
<1>4. \A k \in 1..(attached \div n), j \in 1..n : <<PlacesOf(cfg)[k], ProgramsOf(cfg)[j]>> \in Hooks
  <2>1. \A k \in 1..(attached \div n) : k \in 1..m
    BY <1>1, <1>2
  <2>. QED BY <2>1, ConfigType DEF AgentTypeOK
<1>. QED BY <1>1, <1>2, <1>3, <1>4

LEMMA NextIsAPlace ==
    ASSUME cfg \in Configs, attached \in 0..ToAttach(cfg), attached < ToAttach(cfg)
    PROVE  (attached \div Len(ProgramsOf(cfg))) + 1 \in 1..Len(PlacesOf(cfg))
<1>. DEFINE n == Len(ProgramsOf(cfg))
            m == Len(PlacesOf(cfg))
<1>1. n \in {1, 2} /\ m \in Nat \ {0} /\ attached \in Nat /\ attached < m * n
  BY ConfigType, ToAttachType DEF ToAttach
<1>2. CASE n = 1
  BY <1>1, <1>2
<1>3. CASE n = 2
  BY <1>1, <1>3
<1>. QED BY <1>1, <1>2, <1>3

LEMMA CaptureInit == Init => CaptureInv
<1>1. ASSUME Init
      PROVE  Len(closers) = 0
  BY <1>1, EmptySeq DEF Init
<1>. QED BY <1>1 DEF Init, CaptureInv, OwnAreConfigured, OldIndices, PlacesCovered, FirstInPlace

LEMMA CaptureStart ==
    ASSUME TypeOK, CaptureInv, NEW c \in Configs, Start(c)
    PROVE  CaptureInv'
<1>1. /\ KernelTypeOK /\ AgentTypeOK /\ run \in Nat
      /\ Len(closers') = 0 /\ attached' = 0 /\ idx' = 0 /\ pc' = "attaching" /\ cfg' = c
      /\ run' = run + 1 /\ hooks' = hooks /\ indices' = indices
  BY TypeParts, AttachConstants, EmptySeq
     DEF Start, kernelVars, AgentTypeOK, CaptureInv, OldIndices
<1>2. OwnAreConfigured'
  <2>1. \A h \in Hooks : hooks'[h] # run'
    BY <1>1 DEF KernelTypeOK
  <2>. QED BY <2>1 DEF OwnAreConfigured
<1>3. OldIndices'
  BY <1>1 DEF OldIndices, LookedUp, KernelTypeOK
<1>4. Len(ProgramsOf(cfg')) \in {1, 2}
  BY <1>1, ConfigType
<1>5. PlacesCovered' /\ FirstInPlace'
  <2>1. attached' \div Len(ProgramsOf(cfg')) = 0 /\ attached' % Len(ProgramsOf(cfg')) = 0
    BY <1>1, <1>4
  <2>. QED BY <2>1 DEF PlacesCovered, FirstInPlace, FirstOfPlace
<1>. QED BY <1>2, <1>3, <1>5 DEF CaptureInv

LEMMA CaptureLookUp ==
    ASSUME TypeOK, CaptureInv, LookUp
    PROVE  CaptureInv'
<1>1. /\ KernelTypeOK /\ AgentTypeOK /\ pc = "attaching" /\ FirstOfPlace
      /\ UNCHANGED <<ifindex, indices, hooks, run, pc, cfg, attached, closers>>
      /\ idx' = IndexOf(NextPlace) /\ NextPlace \in Interfaces \cup {Cgroup}
  BY TypeParts, NextHookType DEF LookUp, kernelVars, AgentTypeOK
<1>2. /\ \A p : IndexOf(p)' = IndexOf(p)
      /\ NextPlace' = NextPlace /\ FirstOfPlace'
  BY <1>1 DEF IndexOf, NextPlace, FirstOfPlace
<1>3. LookedUp(NextPlace, idx')
  BY <1>1, AttachConstants DEF LookedUp, IndexOf, KernelTypeOK
<1>. QED BY <1>1, <1>2, <1>3
         DEF CaptureInv, OwnAreConfigured, OldIndices, LookedUp, PlacesCovered, Covers, FirstInPlace

(* The last program of a place brings the closer that covers it, the first *)
(* of two what the second relies on.                                       *)
LEMMA CaptureAttachProgram ==
    ASSUME TypeOK, TypeOK', CaptureInv, AttachProgram
    PROVE  CaptureInv'
<1>. DEFINE n == Len(ProgramsOf(cfg))
            c == [place |-> NextPlace, index |-> idx, program |-> NextProgram]
<1>1. /\ KernelTypeOK /\ AgentTypeOK /\ attached < ToAttach(cfg) /\ cfg \in Configs
      /\ NextPlace \in Interfaces \cup {Cgroup} /\ NextProgram \in Programs /\ NextHook \in Hooks
      /\ n \in {1, 2} /\ attached \in Nat /\ closers \in Seq(Closer) /\ closers' \in Seq(Closer)
  BY TypeParts, NextHookType, PlacesType DEF AttachProgram, AgentTypeOK, NextHook
<1>2. /\ pc = "attaching" /\ pc' = "attaching" /\ idx # 0
      /\ UNCHANGED <<ifindex, indices, run, cfg>>
      /\ closers' = closers \o NewClosers
      /\ hooks' = [hooks EXCEPT ![NextHook] = run]
      /\ IndexOf(NextPlace) = idx
      /\ attached' = attached + 1
      /\ idx' = IF LastOfPlace THEN 0 ELSE idx
  BY DEF AttachProgram
<1>3. \A h \in Hooks : hooks'[h] = IF h = NextHook THEN run ELSE hooks[h]
  BY <1>1, <1>2 DEF KernelTypeOK
<1>4. /\ \A p : IndexOf(p)' = IndexOf(p)
      /\ \A p, i : LookedUp(p, i)' <=> LookedUp(p, i)
  BY <1>2 DEF IndexOf, LookedUp
<1>5. (attached % n) + 1 \in 1..n /\ NextProgram = ProgramsOf(cfg)[(attached % n) + 1]
  <2>1. (attached % n) + 1 \in 1..n
    <3>1. CASE n = 1
      BY <1>1, <3>1
    <3>2. CASE n = 2
      BY <1>1, <3>2
    <3>. QED BY <1>1, <3>1, <3>2
  <2>. QED BY <2>1 DEF NextProgram
<1>6. OwnAreConfigured'
  BY <1>2, <1>3, <1>5 DEF CaptureInv, OwnAreConfigured, NextHook
<1>7. /\ Len(closers) \in Nat /\ Len(closers') >= Len(closers)
      /\ \A k \in 1..Len(closers) : closers'[k] = closers[k]
      /\ \A k \in 1..Len(closers') : k \in 1..Len(closers) \/ closers'[k] = c
      /\ LastOfPlace => Len(closers') = Len(closers) + 1 /\ closers'[Len(closers) + 1] = c
  <2>. HIDE DEF c
  <2>1. (NewClosers = <<>> /\ ~LastOfPlace) \/ NewClosers = <<c>>
    BY DEF NewClosers, c
  <2>2. CASE NewClosers = <<>> /\ ~LastOfPlace
    BY <1>1, <1>2, <2>2, ConcatEmptySeq, LenProperties
  <2>3. CASE NewClosers = <<c>>
    <3>1. closers' = Append(closers, c)
      BY <1>1, <1>2, <2>3
    <3>. QED BY <1>1, <3>1, AppendProperties, LenProperties
  <2>. QED BY <2>1, <2>2, <2>3
<1>8. ASSUME ~LastOfPlace
      PROVE  /\ n = 2 /\ attached % n = 0 /\ attached' \div n = attached \div n
             /\ NextPlace' = NextPlace
  BY <1>1, <1>2, <1>8, CountPlaces DEF LastOfPlace, NextPlace
<1>9. OldIndices'
  <2>1. LookedUp(NextPlace, idx)
    BY <1>1, <1>2 DEF CaptureInv, OldIndices
  <2>2. \A k \in 1..Len(closers') :
           closers'[k].index # 0 /\ LookedUp(closers'[k].place, closers'[k].index)
    BY <1>2, <1>7, <2>1 DEF CaptureInv, OldIndices
  <2>3. attached' < ToAttach(cfg') => LookedUp(NextPlace', idx')
    <3>1. CASE LastOfPlace
      BY <1>1, <1>2, <3>1 DEF LookedUp, KernelTypeOK
    <3>2. CASE ~LastOfPlace
      BY <1>2, <1>8, <2>1, <3>2
    <3>. QED BY <3>1, <3>2
  <2>. QED BY <1>2, <1>4, <2>2, <2>3 DEF OldIndices, LookedUp
<1>10. FirstInPlace'
  <2>1. CASE LastOfPlace
    BY <1>2, <2>1 DEF FirstInPlace, FirstOfPlace, LastOfPlace
  <2>2. CASE ~LastOfPlace
    <3>1. NextHook = <<NextPlace, ProgramsOf(cfg)[1]>>
      BY <1>5, <1>8, <2>2 DEF NextHook
    <3>. QED BY <1>1, <1>2, <1>3, <1>8, <2>2, <3>1 DEF FirstInPlace
  <2>. QED BY <2>1, <2>2
<1>11. ASSUME NEW k \in 1..(attached' \div n)
       PROVE  (\E m \in 1..Len(closers) : Covers(closers[m], k))'
  <2>1. CASE k \in 1..(attached \div n)
    <3>1. PICK m \in 1..Len(closers) : Covers(closers[m], k)
      BY <1>2, <2>1 DEF CaptureInv, PlacesCovered
    <3>2. \A j \in 1..n : <<PlacesOf(cfg)[k], ProgramsOf(cfg)[j]>> \in Hooks
      BY <1>1, <2>1, PlacesType
    <3>3. m \in 1..Len(closers') /\ closers'[m] = closers[m]
      BY <1>7
    <3>4. Covers(closers[m], k)'
      BY <1>2, <1>3, <1>4, <3>1, <3>2, <3>3 DEF Covers
    <3>. QED BY <3>3, <3>4
  <2>2. CASE k \notin 1..(attached \div n)
    <3>1. LastOfPlace
      BY <1>8, <2>2
    <3>2. attached' \div n = (attached \div n) + 1 /\ (attached % n) + 1 = n /\ attached \div n \in Nat
      BY <1>1, <1>2, <3>1, CountPlaces DEF LastOfPlace
    <3>3. k = (attached \div n) + 1 /\ NextPlace = PlacesOf(cfg)[k]
      BY <2>2, <3>2 DEF NextPlace
    <3>4. k \in 1..Len(PlacesOf(cfg))
      BY <1>1, <3>3, NextIsAPlace DEF AgentTypeOK
    <3>5. \A j \in 1..n : <<NextPlace, ProgramsOf(cfg)[j]>> \in Hooks
      BY <1>1, <3>3, <3>4, ConfigType
    <3>6. ASSUME NEW j \in 1..n
          PROVE  hooks'[<<NextPlace, ProgramsOf(cfg)[j]>>] = run
      <4>1. CASE j = n
        <5>1. NextHook = <<NextPlace, ProgramsOf(cfg)[j]>>
          BY <1>5, <3>2, <4>1 DEF NextHook
        <5>. QED BY <1>1, <1>3, <5>1
      <4>2. CASE j # n
        <5>1. n = 2 /\ j = 1
          <6>1. j \in 1..n /\ n \in {1, 2}
            BY <1>1
          <6>2. CASE n = 1
            BY <4>2, <6>1, <6>2
          <6>3. CASE n = 2
            BY <4>2, <6>1, <6>3
          <6>. QED BY <6>1, <6>2, <6>3
        <5>2. ~FirstOfPlace
          BY <3>2, <5>1 DEF FirstOfPlace
        <5>. QED BY <1>2, <1>3, <3>5, <5>1, <5>2 DEF CaptureInv, FirstInPlace
      <4>. QED BY <4>1, <4>2
    <3>7. PICK z \in 1..Len(closers') : closers'[z] = c
      BY <1>7, <3>1
    <3>8. Covers(closers[z], k)'
      <4>1. closers'[z].place = PlacesOf(cfg')[k] /\ closers'[z].place = NextPlace
        BY <1>2, <3>3, <3>7
      <4>. QED BY <1>2, <3>6, <3>7, <4>1 DEF Covers
    <3>. QED BY <3>7, <3>8
  <2>. QED BY <2>1, <2>2
<1>12. PlacesCovered'
  BY <1>2, <1>11 DEF PlacesCovered
<1>. QED BY <1>6, <1>9, <1>10, <1>12 DEF CaptureInv

(* An interface that goes, or comes back, no longer has an index that a    *)
(* run has looked up; at the other places nothing changes.                 *)
LEMMA CaptureInterface ==
    ASSUME TypeOK, CaptureInv, NoInterfaceNoHooks, NEW i \in Interfaces, Unplug(i) \/ Plug(i)
    PROVE  CaptureInv'
<1>1. /\ KernelTypeOK /\ AgentTypeOK /\ i # Cgroup
      /\ UNCHANGED <<run, pc, cfg, attached, idx, closers>>
      /\ \A p : p # i => IndexOf(p)' = IndexOf(p)
  <2>1. i # Cgroup
    BY AttachConstants
  <2>2. \A p : p # i => IndexOf(p)' = IndexOf(p)
    <3>1. \E v : ifindex' = [ifindex EXCEPT ![i] = v]
      BY DEF Unplug, Plug
    <3>2. DOMAIN ifindex = Interfaces
      BY TypeParts DEF KernelTypeOK
    <3>. QED BY <3>1, <3>2 DEF IndexOf
  <2>. QED BY <2>1, <2>2, TypeParts DEF Unplug, Plug, agentVars
<1>2. \A h \in Hooks : hooks'[h] = IF h[1] = i THEN 0 ELSE hooks[h]
  <2>1. CASE Unplug(i)
    BY <2>1 DEF Unplug
  <2>2. CASE Plug(i)
    BY <2>2 DEF Plug, NoInterfaceNoHooks
  <2>. QED BY <2>1, <2>2
<1>3. \A e \in Interfaces : indices'[e] >= indices[e]
  BY <1>1 DEF Unplug, Plug, KernelTypeOK
<1>4. \A index \in Nat : index # 0 /\ LookedUp(i, index) => index # IndexOf(i)'
  <2>1. CASE Unplug(i)
    BY <1>1, <2>1 DEF Unplug, IndexOf, KernelTypeOK
  <2>2. CASE Plug(i)
    BY <1>1, <2>2 DEF Plug, IndexOf, KernelTypeOK, LookedUp
  <2>. QED BY <2>1, <2>2
<1>5. OwnAreConfigured'
  BY <1>1, <1>2 DEF CaptureInv, OwnAreConfigured, AgentTypeOK
<1>6. \A p, index : index \in Nat /\ LookedUp(p, index) => LookedUp(p, index)'
  BY <1>1, <1>3, TypeParts DEF LookedUp, KernelTypeOK, Unplug, Plug
<1>7. /\ NextPlace' = NextPlace /\ (FirstOfPlace' <=> FirstOfPlace)
      /\ \A k \in 1..Len(closers) : closers[k].index \in Nat
      /\ idx \in Nat
  <2>1. \A k \in 1..Len(closers) : closers[k] \in Closer
    BY <1>1, ElementOfSeq DEF AgentTypeOK
  <2>. QED BY <1>1, <2>1, AttachConstants DEF NextPlace, FirstOfPlace, Closer, AgentTypeOK
<1>8. OldIndices'
  BY <1>1, <1>6, <1>7 DEF CaptureInv, OldIndices
<1>9. ASSUME pc \in {"attaching", "running"}, NEW k \in 1..(attached \div Len(ProgramsOf(cfg)))
      PROVE  \E m \in 1..Len(closers) : Covers(closers[m], k)'
  <2>1. PICK m \in 1..Len(closers) : Covers(closers[m], k)
    BY <1>9 DEF CaptureInv, PlacesCovered
  <2>2. \A j \in 1..Len(ProgramsOf(cfg)) : <<PlacesOf(cfg)[k], ProgramsOf(cfg)[j]>> \in Hooks
    BY <1>1, PlacesType
  <2>3. closers[m].index \in Nat /\ closers[m].index # 0
        /\ LookedUp(closers[m].place, closers[m].index)
    BY <1>7 DEF CaptureInv, OldIndices
  <2>4. CASE PlacesOf(cfg)[k] = i
    BY <1>1, <1>4, <2>1, <2>3, <2>4 DEF Covers
  <2>5. CASE PlacesOf(cfg)[k] # i
    BY <1>1, <1>2, <2>1, <2>2, <2>5 DEF Covers
  <2>. QED BY <2>4, <2>5
<1>10. PlacesCovered'
  BY <1>1, <1>9 DEF PlacesCovered
<1>11. FirstInPlace'
  <2>. SUFFICES ASSUME pc = "attaching", ~FirstOfPlace, idx = IndexOf(NextPlace)'
                PROVE  hooks'[<<NextPlace, ProgramsOf(cfg)[1]>>] = run
    BY <1>1, <1>7 DEF CaptureInv, FirstInPlace
  <2>1. attached < ToAttach(cfg) /\ NextPlace \in Interfaces \cup {Cgroup}
        /\ cfg \in Configs /\ attached \in 0..ToAttach(cfg)
    BY <1>1, PlacesType, NextHookType DEF AgentTypeOK
  <2>2. NextPlace # i
    BY <1>1, <1>4, <1>7, <2>1 DEF CaptureInv, OldIndices, FirstInPlace
  <2>3. hooks[<<NextPlace, ProgramsOf(cfg)[1]>>] = run
    BY <1>1, <1>7, <2>2 DEF CaptureInv, FirstInPlace, IndexOf
  <2>4. <<NextPlace, ProgramsOf(cfg)[1]>> \in Hooks
    <3>1. /\ NextPlace = PlacesOf(cfg)[(attached \div Len(ProgramsOf(cfg))) + 1]
          /\ Len(ProgramsOf(cfg)) \in {1, 2}
      BY <2>1, ConfigType DEF NextPlace
    <3>2. (attached \div Len(ProgramsOf(cfg))) + 1 \in 1..Len(PlacesOf(cfg))
      BY <1>1, <2>1, NextIsAPlace
    <3>. QED BY <2>1, <3>1, <3>2, ConfigType
  <2>. QED BY <1>2, <2>2, <2>3, <2>4
<1>. QED BY <1>5, <1>8, <1>10, <1>11 DEF CaptureInv

LEMMA CaptureNext ==
    ASSUME TypeOK, TypeOK', HookInv, CaptureInv, [Next]_vars
    PROVE  CaptureInv'
<1>1. ASSUME NEW c \in Configs, Start(c)
      PROVE  CaptureInv'
  BY <1>1, CaptureStart
<1>2. CASE LookUp
  BY <1>2, CaptureLookUp
<1>3. CASE AttachProgram
  BY <1>3, CaptureAttachProgram
<1>4. CASE AttachReturns
  <2>1. /\ UNCHANGED <<ifindex, indices, hooks, run, cfg, attached, idx, closers>>
        /\ pc = "attaching" /\ pc' = "running"
    BY <1>4 DEF AttachReturns, kernelVars
  <2>2. \A p : IndexOf(p)' = IndexOf(p)
    BY <2>1 DEF IndexOf
  <2>. QED BY <2>1, <2>2
           DEF CaptureInv, OwnAreConfigured, OldIndices, LookedUp, PlacesCovered, Covers, FirstInPlace
<1>5. CASE Stop
  BY <1>5 DEF Stop, kernelVars, CaptureInv, OwnAreConfigured, OldIndices, LookedUp, PlacesCovered,
              FirstInPlace
<1>6. CASE AttachFails \/ Exit \/ Crash
  BY <1>6 DEF AttachFails, Exit, Crash, ProcessGone, CaptureInv, OwnAreConfigured, OldIndices,
              LookedUp, PlacesCovered, FirstInPlace
<1>7. CASE RunCloser
  <2>1. /\ UNCHANGED <<ifindex, indices, run, pc, cfg, attached, idx>>
        /\ pc = "closing" /\ run # 0 /\ closers \in Seq(Closer) /\ closers # <<>>
        /\ closers' = Front(closers)
    BY <1>7, TypeParts DEF RunCloser, AgentTypeOK
  <2>2. \A h \in Hooks : hooks'[h] \in {0, hooks[h]}
    BY <1>7, TypeParts DEF RunCloser, KernelTypeOK
  <2>3. /\ Len(closers') \in 0..Len(closers) /\ Len(closers) \in Nat
        /\ \A k \in 1..Len(closers') : closers'[k] = closers[k]
    BY <2>1, FrontFacts
  <2>. QED BY <2>1, <2>2, <2>3
           DEF CaptureInv, OwnAreConfigured, OldIndices, LookedUp, PlacesCovered, FirstInPlace
<1>8. ASSUME NEW i \in Interfaces, Unplug(i) \/ Plug(i)
      PROVE  CaptureInv'
  BY <1>8, CaptureInterface DEF HookInv
<1>9. CASE UNCHANGED <<kernelVars, agentVars>>
  <2>1. UNCHANGED <<ifindex, indices, hooks, run, pc, cfg, attached, idx, closers>>
    BY <1>9 DEF kernelVars, agentVars
  <2>2. /\ \A p : IndexOf(p)' = IndexOf(p)
        /\ NextPlace' = NextPlace /\ (FirstOfPlace' <=> FirstOfPlace)
    BY <2>1 DEF IndexOf, NextPlace, FirstOfPlace
  <2>. QED BY <2>1, <2>2
           DEF CaptureInv, OwnAreConfigured, OldIndices, LookedUp, PlacesCovered, Covers, FirstInPlace
<1>. QED BY <1>1, <1>2, <1>3, <1>4, <1>5, <1>6, <1>7, <1>8, <1>9
         DEF Next, AgentStep, HostStep, Rest, vars

(* What a program makes of a packet: at most one event, none unless it is  *)
(* IPv4, one if the IP header is in the linear part, and with the ports    *)
(* that PortsAsFarAsKnown says.                                            *)
LEMMA EventsFacts ==
    ASSUME NEW program \in Programs, NEW packet \in Packets
    PROVE  /\ \A e, f \in EventsOf(program, packet) : e = f
           /\ packet.ipv4 /\ packet.linear >= Ip => EventsOf(program, packet) # {}
           /\ ~packet.ipv4 => EventsOf(program, packet) = {}
           /\ \A e \in EventsOf(program, packet) : PortsAsFarAsKnown(packet, e)
<1>1. /\ packet \in Packet /\ packet.linear <= packet.whole
      /\ packet.linear \in 0..4 /\ packet.whole \in 0..4
      /\ packet.l4 = "own" => packet.l4End = 4
  BY PacketAssumption DEF PacketAssumption, Packet, Cut, Transport
<1>2. \A reach \in 0..4 : packet.l4 = "own" =>
        /\ PortsIn(packet, reach) \in {"own", "zero"}
        /\ reach = 4 /\ packet.proto # "icmp" => PortsIn(packet, reach) = "own"
  BY <1>1 DEF PortsIn
<1>3. PICK reach \in 0..4 :
         /\ reach >= packet.linear
         /\ EventsOf(program, packet) =
              IF reach >= Ip /\ packet.ipv4 THEN Event(program, packet, reach) ELSE {}
  <2>1. CASE program \in CgroupPrograms
    BY <1>1, <2>1 DEF EventsOf, ParseSkbIp
  <2>2. CASE program \notin CgroupPrograms
    BY <1>1, <2>2 DEF EventsOf, ParseEthIp
  <2>. QED BY <2>1, <2>2
<1>4. PICK e : Event(program, packet, reach) = {e} /\ e.ports = PortsIn(packet, reach)
  <2>. DEFINE e == [direction |-> DirectionOf(program), proto |-> packet.proto,
                    ports |-> PortsIn(packet, reach)]
  <2>1. Event(program, packet, reach) = {e} /\ e.ports = PortsIn(packet, reach)
    BY DEF Event
  <2>. QED BY <2>1
<1>5. packet.linear >= Ip => reach >= Ip
  BY <1>1, <1>3 DEF Ip
<1>6. PortsAsFarAsKnown(packet, e)
  BY <1>1, <1>2, <1>3, <1>4 DEF PortsAsFarAsKnown, Transport
<1>. QED BY <1>3, <1>4, <1>5, <1>6

(* A configuration has one program for a direction that is wanted, and     *)
(* none for the other.                                                     *)
LEMMA OneForDirection ==
    ASSUME NEW c \in Configs, NEW direction \in {"ingress", "egress"}
    PROVE  /\ c.direction \in {direction, "both"} =>
                 \E j \in 1..Len(ProgramsOf(c)) :
                    /\ DirectionOf(ProgramsOf(c)[j]) = direction
                    /\ \A i \in 1..Len(ProgramsOf(c)) :
                          DirectionOf(ProgramsOf(c)[i]) = direction => i = j
           /\ c.direction \notin {direction, "both"} =>
                 \A j \in 1..Len(ProgramsOf(c)) : DirectionOf(ProgramsOf(c)[j]) # direction
<1>1. c.mode \in {"interface", "cgroup"} /\ c.direction \in {"ingress", "egress", "both"}
  BY AttachConstants DEF Config
<1>2. CASE c.direction = "ingress"
  BY <1>1, <1>2 DEF ProgramsOf, DirectionOf
<1>3. CASE c.direction = "egress"
  BY <1>1, <1>3 DEF ProgramsOf, DirectionOf
<1>4. CASE c.direction = "both"
  <2>1. CASE c.mode = "interface"
    <3>1. ProgramsOf(c) = <<"tc_cls_ingress", "tc_cls_egress">>
      BY <1>4, <2>1 DEF ProgramsOf
    <3>. QED BY <1>4, <3>1 DEF DirectionOf
  <2>2. CASE c.mode = "cgroup"
    <3>1. ProgramsOf(c) = <<"cg_skb_ingress", "cg_skb_egress">>
      BY <1>4, <2>2 DEF ProgramsOf
    <3>. QED BY <1>4, <3>1 DEF DirectionOf
  <2>. QED BY <1>1, <2>1, <2>2
<1>. QED BY <1>1, <1>2, <1>3, <1>4

(* Where all programs of the configuration are in place, and no others of  *)
(* this run, a packet is reported as it should be.                         *)
LEMMA CoveredCaptures ==
    ASSUME TypeOK, OwnAreConfigured, pc = "running", NEW k \in 1..Len(PlacesOf(cfg)),
           \A j \in 1..Len(ProgramsOf(cfg)) : hooks[<<PlacesOf(cfg)[k], ProgramsOf(cfg)[j]>>] = run,
           NEW direction \in {"ingress", "egress"}, NEW packet \in Packets
    PROVE  CapturedAt(PlacesOf(cfg)[k], direction, packet)
<1>. DEFINE place == PlacesOf(cfg)[k]
            R == ProgramsOf(cfg)
            H == {g \in Hooks : g[1] = place /\ hooks[g] = run /\ DirectionOf(g[2]) = direction}
            events == EventsAt(place, direction, packet)
<1>1. /\ cfg \in Configs
      /\ \A j \in 1..Len(R) : <<place, R[j]>> \in Hooks /\ R[j] \in Programs
  <2>1. cfg \in Configs
    BY TypeParts DEF AgentTypeOK
  <2>. QED BY <2>1, ConfigType, ElementOfSeq
<1>2. \A h \in H : h[1] = place /\ \E j \in 1..Len(R) : h[2] = R[j] /\ DirectionOf(R[j]) = direction
  BY DEF OwnAreConfigured
<1>3. events = UNION {{[program |-> h[2], event |-> e] : e \in EventsOf(h[2], packet)} : h \in H}
  BY DEF EventsAt
<1>4. CASE Wanted(direction)
  <2>1. PICK j \in 1..Len(R) :
           /\ DirectionOf(R[j]) = direction
           /\ \A i \in 1..Len(R) : DirectionOf(R[i]) = direction => i = j
    BY <1>1, <1>4, OneForDirection DEF Wanted
  <2>2. H = {<<place, R[j]>>}
    BY <1>1, <1>2, <2>1, HookFacts
  <2>3. events = {[program |-> R[j], event |-> e] : e \in EventsOf(R[j], packet)}
    <3>1. <<place, R[j]>>[2] = R[j]
      OBVIOUS
    <3>. HIDE DEF R, place, H, events
    <3>2. \A x : x \in events <=> \E h \in {<<place, R[j]>>} : \E e \in EventsOf(h[2], packet) :
                                      x = [program |-> h[2], event |-> e]
      BY <1>3, <2>2
    <3>. QED BY <3>1, <3>2
  <2>4. /\ \A e, f \in EventsOf(R[j], packet) : e = f
        /\ packet.ipv4 /\ packet.linear >= Ip => EventsOf(R[j], packet) # {}
        /\ ~packet.ipv4 => EventsOf(R[j], packet) = {}
        /\ \A e \in EventsOf(R[j], packet) : PortsAsFarAsKnown(packet, e)
    BY <1>1, EventsFacts
  <2>5. /\ \A e, f \in events : e = f
        /\ packet.ipv4 /\ packet.linear >= Ip => events # {}
        /\ ~packet.ipv4 => events = {}
        /\ \A e \in events : PortsAsFarAsKnown(packet, e.event)
    <3>. HIDE DEF events, R
    <3>1. \A x : x \in events <=> \E e \in EventsOf(R[j], packet) : x = [program |-> R[j], event |-> e]
      BY <2>3
    <3>2. \A x \in events : x.event \in EventsOf(R[j], packet) /\ x = [program |-> R[j], event |-> x.event]
      BY <3>1
    <3>3. \A e, f \in events : e = f
      BY <2>4, <3>2
    <3>4. packet.ipv4 /\ packet.linear >= Ip => events # {}
      BY <2>4, <3>1
    <3>. QED BY <2>4, <3>2, <3>3, <3>4
  <2>. QED BY <1>4, <2>5 DEF CapturedAt
<1>5. CASE ~Wanted(direction)
  <2>1. \A j \in 1..Len(R) : DirectionOf(R[j]) # direction
    BY <1>1, <1>5, OneForDirection DEF Wanted
  <2>2. H = {}
    BY <1>2, <2>1
  <2>3. events = {}
    BY <1>3, <2>2
  <2>. QED BY <1>5, <2>3 DEF CapturedAt
<1>. QED BY <1>4, <1>5

(* For every set of interfaces, list of them and number of runs: an agent  *)
(* that runs reports each IPv4 packet it was told to watch for, once, at   *)
(* every place that is still the interface it has attached to, with its    *)
(* own ports where ihl leads to its transport header; of the ports of a    *)
(* later fragment or of a packet with a small ihl nothing is said          *)
(* (collector.go:71-90, tc.go:54-90, traffic.c:46-115).                    *)
THEOREM PacketsCapturedOnce == Spec => []CapturedOnce
<1>1. Init => HookInv /\ CaptureInv
  BY HookInit, CaptureInit
<1>2. TypeOK /\ TypeOK' /\ HookInv /\ CaptureInv /\ [Next]_vars => HookInv' /\ CaptureInv'
  BY HookNext, CaptureNext
<1>3. TypeOK /\ CaptureInv => CapturedOnce
  <2>. SUFFICES ASSUME TypeOK, CaptureInv, pc = "running", NEW place \in Range(PlacesOf(cfg))
                PROVE  \E c \in Range(closers) :
                          /\ c.place = place
                          /\ c.index = IndexOf(place) =>
                               \A direction \in {"ingress", "egress"}, packet \in Packets :
                                   CapturedAt(place, direction, packet)
    BY DEF CapturedOnce
  <2>1. /\ AgentTypeOK /\ cfg \in Configs /\ DOMAIN PlacesOf(cfg) = 1..Len(PlacesOf(cfg))
        /\ DOMAIN closers = 1..Len(closers)
    BY TypeParts, ConfigType, LenProperties DEF AgentTypeOK
  <2>2. PICK k \in 1..Len(PlacesOf(cfg)) : place = PlacesOf(cfg)[k]
    BY <2>1 DEF Range
  <2>3. PICK m \in 1..Len(closers) : Covers(closers[m], k)
    BY <2>1, <2>2, PlacesType DEF CaptureInv, PlacesCovered
  <2>4. closers[m] \in Range(closers)
    BY <2>1 DEF Range
  <2>5. closers[m].index = IndexOf(place) =>
          \A direction \in {"ingress", "egress"}, packet \in Packets :
             CapturedAt(place, direction, packet)
    BY <2>2, <2>3, CoveredCaptures DEF CaptureInv, Covers
  <2>. QED BY <2>2, <2>3, <2>4, <2>5 DEF Covers
<1>. QED BY <1>1, <1>2, <1>3, AttachTypeCorrect, PTL DEF Spec
=============================================================================
