----------------------------- MODULE MonoClock -----------------------------
(***************************************************************************)
(* The clocks behind the time of an event.  The programs read              *)
(* CLOCK_MONOTONIC, which stands still while the host is suspended, except *)
(* for tc_cls_ingress, which reads CLOCK_BOOTTIME; the agent adds the      *)
(* offset of the wall clock to CLOCK_MONOTONIC that it has computed once,  *)
(* at its start (internal/bpfprog/clock.go).                               *)
(*                                                                         *)
(* The clocks are the kernel's.  A unit of time is as long as a suspend is *)
(* worth telling; reading two clocks takes none.  That clock_gettime fails *)
(* for CLOCK_MONOTONIC (clock.go:19-22) is left out: it cannot.            *)
(***************************************************************************)
EXTENDS Integers

CONSTANT MaxTime   \* bound of the model: the latest wall clock time

ASSUME ClockAssumption == MaxTime \in Nat

VARIABLES
    mono,        \* CLOCK_MONOTONIC
    boot,        \* CLOCK_BOOTTIME
    wall,        \* CLOCK_REALTIME
    offset,      \* MonoOffset.offsetNs
    sleptBefore, \* history: time suspended when the offset was computed
    since        \* history: what has happened to the clocks since then

clockVars == <<mono, boot, wall, offset, sleptBefore, since>>

ClockInit ==
    /\ mono = 0
    /\ boot = 0
    /\ wall = 0
    /\ offset = 0
    /\ sleptBefore = 0
    /\ since = {}

NewMonoOffset ==
    /\ offset' = wall - mono
    /\ sleptBefore' = boot - mono
    /\ since' = {}
    /\ UNCHANGED <<mono, boot, wall>>

TimePasses ==
    /\ wall < MaxTime
    /\ mono' = mono + 1
    /\ boot' = boot + 1
    /\ wall' = wall + 1
    /\ UNCHANGED <<offset, sleptBefore, since>>

Suspend ==
    /\ wall < MaxTime
    /\ boot' = boot + 1
    /\ wall' = wall + 1
    /\ since' = since \cup {"suspended"}
    /\ UNCHANGED <<mono, offset, sleptBefore>>

(* The wall clock is set, by NTP or by hand. *)
SetForward ==
    /\ wall < MaxTime
    /\ wall' = wall + 1
    /\ since' = since \cup {"setForward"}
    /\ UNCHANGED <<mono, boot, offset, sleptBefore>>

SetBack ==
    /\ wall > 0
    /\ wall' = wall - 1
    /\ boot < MaxTime   \* bound of the model: no endless setting back
    /\ since' = since \cup {"setBack"}
    /\ UNCHANGED <<mono, boot, offset, sleptBefore>>

ClockStep == TimePasses \/ Suspend \/ SetForward \/ SetBack

(* A plausible bug: another program reads CLOCK_BOOTTIME as well. *)
KtimeXdpBoot(program) ==
    IF program \in {"tc_cls_ingress", "xdp_traffic"} THEN boot ELSE mono

(* evt.timestamp_ns *)
Ktime(program) == IF program = "tc_cls_ingress" THEN boot ELSE mono

ToRealtime(ktime) == ktime + offset

ClockTypeOK ==
    /\ wall \in 0..MaxTime
    /\ boot \in Nat
    /\ mono \in 0..boot
    /\ offset \in Int
    /\ sleptBefore \in 0..(boot - mono)
    /\ since \subseteq {"suspended", "setForward", "setBack"}
=============================================================================
