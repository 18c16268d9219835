---------------------------- MODULE ManagedChaos ----------------------------
(***************************************************************************)
(* The dead-man switch of pkg/chaos: ManagedChaosDriver (driver.go) around *)
(* the Linux netem driver (driver_linux.go), the kernel's root qdisc of    *)
(* every network interface, and the server process that holds them all.    *)
(*                                                                         *)
(* Every method runs under one mutex and is one step here.  What runs in a *)
(* goroutine of its own, and so interleaves, is the callback of a watchdog *)
(* timer that has expired, the goroutine that watches the context of one   *)
(* Apply, and the signal trap.  The states Applying and Reverting never    *)
(* outlive the mutex and are not represented.                              *)
(***************************************************************************)
EXTENDS Naturals

CONSTANTS
    Faults,        \* the FaultSpecs that callers ask for; all are valid
    NoFault,       \* the nil *FaultSpec, and the empty root qdisc
    Contexts,      \* the contexts of the runs and trials that call Apply
    Interfaces,    \* the network interfaces the host has
    IdOf,          \* FaultSpec.ID of every fault; two faults may share one
    InterfaceOf,   \* FaultSpec.Filter.Interface; it may not exist on the host
    Filtered,      \* faults with a target IP or port (Case B of netem's Apply)
    Disturbances,  \* what may go wrong: "kernel_error", "link_error",
                   \* "signal", "kill"
    MaxApplies,    \* bound: successful Apply calls in one process life
    MaxLaunches    \* bound: times the server process is started

ASSUME ChaosConstants ==
    /\ NoFault \notin Faults
    /\ Filtered \subseteq Faults
    /\ InterfaceOf \in [Faults -> STRING]
    /\ Interfaces \subseteq STRING
    /\ DOMAIN IdOf = Faults
    /\ Disturbances \subseteq {"kernel_error", "link_error", "signal", "kill"}
    /\ MaxApplies \in Nat
    /\ MaxLaunches \in Nat \ {0}

VARIABLES
    process,       \* "up" or "down"
    state,         \* status.State
    currentFault,  \* status.CurrentFault
    watchdogTimer, \* number of the Apply whose timer is armed, or NoTimer
    expired,       \* Applies whose timer has fired; its callback awaits the mutex
    monitors,      \* goroutines watching the context of one Apply
    trap,          \* the signal goroutine: "waiting", "signalled" or "gone"
    closed,        \* stopSignals is closed
    cancelled,     \* contexts that are Done
    applies,       \* successful Applies so far: the latest one's number
    appliedFault,  \* netem's own appliedFault
    qdisc,         \* what sits at the root of every interface, in the kernel
    launches       \* processes started so far

managed == <<state, currentFault, watchdogTimer>>
kernel  == <<appliedFault, qdisc>>
signals == <<trap, closed>>
vars == <<process, managed, expired, monitors, signals, cancelled, applies,
          kernel, launches>>

NoTimer == 0

Monitor == [apply : 1..MaxApplies, ctx : Contexts, id : {IdOf[f] : f \in Faults},
            stage : {"watching", "reverting"}]

-----------------------------------------------------------------------------
(* A new process: NewManagedChaosDriver around NewLinuxNetemDriver.        *)

Init ==
    /\ process = "up" /\ launches = 1
    /\ state = "idle" /\ currentFault = NoFault /\ watchdogTimer = NoTimer
    /\ expired = {} /\ monitors = {} /\ trap = "waiting" /\ closed = FALSE
    /\ cancelled = {} /\ applies = 0 /\ appliedFault = NoFault
    /\ qdisc = [i \in Interfaces |-> NoFault]

-----------------------------------------------------------------------------
(* LinuxNetemDriver                                                        *)

SetQdisc(i, q) == [qdisc EXCEPT ![i] = q]

(* The driver remembers one fault, whatever interface the last one was on. *)
NetemApplies(ctx, f) ==
    /\ InterfaceOf[f] \in Interfaces
    /\ ~(f \in Filtered /\ ctx \in cancelled)
    /\ qdisc' = SetQdisc(InterfaceOf[f], f)
    /\ appliedFault' = f

(* Where a failing Apply may leave the qdiscs: untouched when the namespace
   or the link is not found, without a root when QdiscDel went through and
   QdiscAdd did not, with a prio root and its netem band when tc did not
   install the filter, which it never does under a context already Done. *)
FailedQdisc(ctx, f) ==
    IF InterfaceOf[f] \notin Interfaces THEN {qdisc}
    ELSE {q \in {qdisc} : Disturbances \cap {"kernel_error", "link_error"} # {}}
         \cup {q \in {SetQdisc(InterfaceOf[f], NoFault)} : "kernel_error" \in Disturbances}
         \cup {q \in {SetQdisc(InterfaceOf[f], f)} :
              /\ f \in Filtered
              /\ "kernel_error" \in Disturbances \/ ctx \in cancelled}

NetemApplyFails(ctx, f) ==
    /\ qdisc' \in FailedQdisc(ctx, f)
    /\ UNCHANGED appliedFault

(* Mutant: the record is cleared and the qdisc is not deleted. *)
NetemReverts_NoDelete ==
    /\ appliedFault' = NoFault
    /\ UNCHANGED qdisc

NetemReverts ==
    /\ appliedFault' = NoFault
    /\ qdisc' = IF appliedFault = NoFault THEN qdisc
                ELSE SetQdisc(InterfaceOf[appliedFault], NoFault)

(* Any failure to look the link up counts as "already reverted". *)
NetemForgets ==
    /\ "link_error" \in Disturbances
    /\ appliedFault' = NoFault
    /\ UNCHANGED qdisc

NetemRevertFails ==
    /\ "kernel_error" \in Disturbances
    /\ appliedFault # NoFault
    /\ UNCHANGED kernel

-----------------------------------------------------------------------------
(* ManagedChaosDriver                                                      *)

(* Mutant: the old timer is stopped after the new one is armed. *)
ArmWatchdog_StopLast(f) ==
    /\ applies' = applies + 1
    /\ watchdogTimer' = NoTimer

(* Mutant: a timer that is still there is kept for the new fault. *)
ArmWatchdog_KeepOld(f) ==
    /\ applies' = applies + 1
    /\ watchdogTimer' = IF watchdogTimer = NoTimer THEN applies' ELSE watchdogTimer

ArmWatchdog(f) ==
    /\ applies' = applies + 1
    /\ watchdogTimer' = applies'

WatchContext(ctx, f) ==
    monitors' = monitors \cup
        {[apply |-> applies', ctx |-> ctx, id |-> IdOf[f], stage |-> "watching"]}

ApplySucceeds(ctx, f) ==
    /\ process = "up"
    /\ applies < MaxApplies
    /\ NetemApplies(ctx, f)
    /\ state' = "injected"
    /\ currentFault' = f
    /\ ArmWatchdog(f)
    /\ WatchContext(ctx, f)
    /\ UNCHANGED <<process, expired, signals, cancelled, launches>>

ApplyFails(ctx, f) ==
    /\ process = "up"
    /\ NetemApplyFails(ctx, f)
    /\ state' = "failed"
    /\ currentFault' = f
    /\ watchdogTimer' = NoTimer
    /\ UNCHANGED <<process, expired, monitors, signals, cancelled, applies, launches>>

Apply == \E ctx \in Contexts, f \in Faults :
             ApplySucceeds(ctx, f) \/ ApplyFails(ctx, f)

RevertNothing ==
    /\ state \in {"idle", "reverted"}
    /\ watchdogTimer' = NoTimer
    /\ UNCHANGED <<state, currentFault, kernel>>

RevertSucceeds ==
    /\ state \in {"injected", "failed"}
    /\ NetemReverts \/ NetemForgets
    /\ state' = "reverted"
    /\ currentFault' = NoFault
    /\ watchdogTimer' = NoTimer

(* Mutant: the driver's error is dropped. *)
RevertFails_Swallowed ==
    /\ state \in {"injected", "failed"}
    /\ NetemRevertFails
    /\ state' = "reverted"
    /\ watchdogTimer' = NoTimer
    /\ UNCHANGED currentFault

RevertFails ==
    /\ state \in {"injected", "failed"}
    /\ NetemRevertFails
    /\ state' = "failed"
    /\ watchdogTimer' = NoTimer
    /\ UNCHANGED currentFault

Revert == RevertNothing \/ RevertSucceeds \/ RevertFails

(* A run that ends, a trial that ends, AbortRun. *)
CallerReverts ==
    /\ process = "up"
    /\ Revert
    /\ UNCHANGED <<process, expired, monitors, signals, cancelled, applies, launches>>

(* The timer fires: Stop can no longer prevent its callback. *)
WatchdogExpires ==
    /\ process = "up"
    /\ watchdogTimer # NoTimer
    /\ watchdogTimer \notin expired
    /\ expired' = expired \cup {watchdogTimer}
    /\ UNCHANGED <<process, managed, monitors, signals, cancelled, applies,
                   kernel, launches>>

WatchdogReverts(n) ==
    /\ process = "up"
    /\ n \in expired
    /\ expired' = expired \ {n}
    /\ Revert
    /\ UNCHANGED <<process, monitors, signals, cancelled, applies, launches>>

CancelContext(ctx) ==
    /\ process = "up"
    /\ ctx \notin cancelled
    /\ cancelled' = cancelled \cup {ctx}
    /\ UNCHANGED <<process, managed, expired, monitors, signals, applies,
                   kernel, launches>>

(* Mutant: the comparison is the wrong way round. *)
IsCurrent_Flipped(m) == currentFault = NoFault \/ IdOf[currentFault] # m.id

IsCurrent(m) == currentFault # NoFault /\ IdOf[currentFault] = m.id

(* ctx.Done: the monitor looks at the current fault under the mutex, lets
   go of the mutex, and only then calls Revert. *)
MonitorChecks(m) ==
    /\ process = "up"
    /\ m.stage = "watching"
    /\ m.ctx \in cancelled
    /\ monitors' = (monitors \ {m}) \cup
                   {x \in {[m EXCEPT !.stage = "reverting"]} : IsCurrent(m)}
    /\ UNCHANGED <<process, managed, expired, signals, cancelled, applies,
                   kernel, launches>>

MonitorReverts(m) ==
    /\ process = "up"
    /\ m.stage = "reverting"
    /\ monitors' = monitors \ {m}
    /\ Revert
    /\ UNCHANGED <<process, expired, signals, cancelled, applies, launches>>

MonitorStops(m) ==
    /\ process = "up"
    /\ m.stage = "watching"
    /\ closed
    /\ monitors' = monitors \ {m}
    /\ UNCHANGED <<process, managed, expired, signals, cancelled, applies,
                   kernel, launches>>

(* SIGINT or SIGTERM.  The trap takes one signal and is gone afterwards. *)
Signal ==
    /\ process = "up"
    /\ "signal" \in Disturbances
    /\ trap = "waiting" /\ ~closed
    /\ trap' = "signalled"
    /\ UNCHANGED <<process, managed, expired, monitors, closed, cancelled,
                   applies, kernel, launches>>

TrapReverts ==
    /\ process = "up"
    /\ trap = "signalled"
    /\ trap' = "gone"
    /\ Revert
    /\ UNCHANGED <<process, expired, monitors, closed, cancelled, applies, launches>>

(* select may as well take the closed stopSignals. *)
TrapStops ==
    /\ process = "up"
    /\ trap = "signalled" /\ closed
    /\ trap' = "gone"
    /\ UNCHANGED <<process, managed, expired, monitors, closed, cancelled,
                   applies, kernel, launches>>

(* main.go's deferred Close, on the way out after the same signal.  It
   leaves the status as it is, and reverts through the driver directly. *)
Close ==
    /\ process = "up"
    /\ trap # "waiting" /\ ~closed
    /\ closed' = TRUE
    /\ watchdogTimer' = NoTimer
    /\ NetemReverts \/ NetemForgets \/ NetemRevertFails
    /\ UNCHANGED <<process, state, currentFault, expired, monitors, trap,
                   cancelled, applies, launches>>

-----------------------------------------------------------------------------
(* The process                                                             *)

Stops == process' = "down" /\ UNCHANGED <<managed, expired, monitors, signals,
                                          cancelled, applies, kernel, launches>>

Exit == process = "up" /\ closed /\ Stops

Kill == process = "up" /\ "kill" \in Disturbances /\ Stops

(* The kernel keeps its qdiscs; everything else starts over. *)
Launch ==
    /\ process = "down"
    /\ launches < MaxLaunches
    /\ process' = "up" /\ launches' = launches + 1
    /\ state' = "idle" /\ currentFault' = NoFault /\ watchdogTimer' = NoTimer
    /\ expired' = {} /\ monitors' = {} /\ trap' = "waiting" /\ closed' = FALSE
    /\ cancelled' = {} /\ applies' = 0 /\ appliedFault' = NoFault
    /\ UNCHANGED qdisc

Next ==
    \/ Apply
    \/ CallerReverts
    \/ WatchdogExpires
    \/ \E n \in expired : WatchdogReverts(n)
    \/ \E ctx \in Contexts : CancelContext(ctx)
    \/ \E m \in monitors : MonitorChecks(m) \/ MonitorReverts(m) \/ MonitorStops(m)
    \/ Signal
    \/ TrapReverts
    \/ TrapStops
    \/ Close
    \/ Exit
    \/ Kill
    \/ Launch

Spec == Init /\ [][Next]_vars

(* The runtime runs a timer that is due and a goroutine that is runnable. *)
WatchdogFairness ==
    /\ WF_vars(WatchdogExpires)
    /\ \A n \in 1..MaxApplies : WF_vars(WatchdogReverts(n))

MonitorFairness ==
    \A n \in 1..MaxApplies :
        WF_vars(\E m \in monitors : m.apply = n /\ (MonitorChecks(m) \/ MonitorReverts(m)))

WatchdogSpec == Spec /\ WatchdogFairness
CancelSpec   == Spec /\ MonitorFairness

-----------------------------------------------------------------------------
(* Properties                                                              *)

TypeOK ==
    /\ process \in {"up", "down"}
    /\ state \in {"idle", "injected", "reverted", "failed"}
    /\ currentFault \in Faults \cup {NoFault}
    /\ watchdogTimer \in 0..MaxApplies
    /\ expired \subseteq 1..MaxApplies
    /\ monitors \subseteq Monitor
    /\ trap \in {"waiting", "signalled", "gone"}
    /\ closed \in BOOLEAN
    /\ cancelled \subseteq Contexts
    /\ applies \in 0..MaxApplies
    /\ appliedFault \in {f \in Faults : InterfaceOf[f] \in Interfaces} \cup {NoFault}
    /\ qdisc \in [Interfaces -> Faults \cup {NoFault}]
    /\ launches \in 1..MaxLaunches

WatchdogGuards == watchdogTimer \in {applies} \ {NoTimer} \/ applies \in expired
MonitorGuards  == \E m \in monitors : m.apply = applies

(* While the status says "injected", until Close, two of the three ways out
   are in place for that very Apply: its timer is armed or its callback
   already on its way, and its context is watched. *)
InjectedIsGuarded ==
    state = "injected" /\ ~closed => WatchdogGuards /\ MonitorGuards

(* The status tells the truth about the kernel until Close: an "injected"
   fault is the one at the root of its interface, and the one netem will
   remove. *)
InjectedIsInstalled ==
    state = "injected" /\ ~closed =>
        /\ currentFault \in Faults /\ appliedFault = currentFault
        /\ qdisc[InterfaceOf[currentFault]] = currentFault

(* When the status says there is nothing to revert, Revert will do nothing
   more: no fault may then be left in the kernel. *)
RevertedIsClean ==
    state \in {"idle", "reverted"} => \A i \in Interfaces : qdisc[i] = NoFault

(* The watchdog alone, with no help from the run that asked for it, gets
   every fault out of the kernel or, where the kernel refuses, leaves a
   status that says failed. *)
InstalledIsRemoved ==
    \A i \in Interfaces :
        qdisc[i] # NoFault ~> (qdisc[i] = NoFault \/ state = "failed" \/ closed)

InForce(n) == state = "injected" /\ applies = n

(* While the process lives, cancelling the context of an Apply is enough on
   its own to end the fault it injected, even if its watchdog never fired. *)
CancelledIsReverted ==
    \A n \in 1..MaxApplies :
        (InForce(n) /\ \E m \in monitors : m.apply = n /\ m.ctx \in cancelled)
            ~> (~InForce(n) \/ closed \/ process = "down")

(* On a host with one interface and no filtered faults, the driver, the
   kernel and the process together are a dead-man switch. *)
TheInterface == CHOOSE i \in Interfaces : TRUE

Guard ==
    IF qdisc[TheInterface] = NoFault THEN "off"
    ELSE IF process = "up" /\ state = "injected" /\ WatchdogGuards THEN "armed"
    ELSE "lost"

Switch == INSTANCE DeadManSwitch
              WITH inForce <- qdisc[TheInterface], guard <- Guard,
                   MayLoseGuard <- Disturbances # {}

IsDeadManSwitch == Switch!Spec
=============================================================================
