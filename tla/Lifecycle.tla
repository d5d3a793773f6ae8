------------------------------ MODULE Lifecycle ------------------------------
(***************************************************************************)
(* How the driver comes up and goes down: lan865x_probe with oa_tc6_init   *)
(* and ptp_device_init as a sequence of steps, each with what it leaves    *)
(* behind and what is undone when it fails, lan865x_remove, the device     *)
(* resources the driver core releases, and those who use what is there:    *)
(* the threads, the interrupt handler, the stack, the clock, the device.   *)
(***************************************************************************)
EXTENDS Integers, Sequences, SequencesExt

CONSTANTS
  FailSteps,      \* names of the steps that may fail
  IgnoredFail,    \* register writes without a check may fail
  MaxWork,        \* bound: multicast updates scheduled
  NodeIdPins      \* the sets of nodeid pins, of 0..3, that may read as 1

LAN8650_NODE_MAX_COUNT == 8

\* A step adds resources and configures the MAC-PHY ("checked" settings fail
\* the step, "ignored" ones are lost silently); undo names what its failure
\* jumps to.
Step(name, adds, checked, ignored, undo) ==
  [name |-> name, adds |-> adds, checked |-> checked, ignored |-> ignored, undo |-> undo]

AllocEtherdev == Step("alloc_etherdev", {"netdev"}, {}, {}, "return")
AllocTc6 == Step("alloc_tc6", {"tc6"}, {}, {}, "free_netdev")
AllocBuffers == Step("alloc_buffers", {"buffers"}, {}, {}, "free_netdev")
oa_tc6_sw_reset_macphy == Step("sw_reset", {}, {"reset"}, {}, "free_netdev")
oa_tc6_unmask_macphy_error_interrupts == Step("unmask_interrupts", {}, {}, {}, "free_netdev")
oa_tc6_check_phy_reg_direct_access_capability ==
  Step("check_capability", {}, {}, {}, "free_netdev")
oa_tc6_mdiobus_register == Step("mdiobus_register", {"mdio"}, {}, {}, "free_netdev")
\* The end of oa_tc6_phy_init, which takes back the bus when it fails.
PhyConnect == Step("phy_connect", {"phy"}, {}, {}, "mdiobus")
\* The twenty tuning registers are one setting, written without a check.
set_macphy_register == {"chip"}
init_lan865x == Step("init_lan865x", {}, {"cdctl"},
                     set_macphy_register \cup {"plca", "filter", "rxen", "ti", "timestamps"},
                     "phy_exit")
oa_tc6_enable_data_transfer == Step("enable_data", {}, {"sync"}, {}, "phy_exit")
oa_tc6_update_buffer_status_from_register == Step("buffer_status", {}, {}, {}, "phy_exit")
StartSpiThread == Step("spi_thread", {"wq", "spiThread"}, {}, {}, "phy_exit")
RequestIrq == Step("request_irq", {"irq"}, {}, {}, "kthread_stop")

oa_tc6_zero_align_receive_frame_enable == Step("zarfe", {}, {"zarfe"}, {}, "oa_tc6_exit")
ReadNodeId == Step("nodeid_gpios", {}, {}, {}, "return")
SetMacaddr == Step("set_macaddr", {}, {"mac"}, {}, "oa_tc6_exit")
RegisterNetdev == Step("register_netdev", {"registered"}, {}, {"nodemac"}, "oa_tc6_exit")
lan865x_set_nodeid == Step("set_nodeid", {}, {"nodeid"}, {}, "oa_tc6_exit")
PtpAlloc == Step("ptp_alloc", {"ptpdev"}, {}, {}, "oa_tc6_exit")
PtpClockRegister == Step("ptp_clock", {"ptpClock"}, {}, {}, "ptpdev")
PtpThread == Step("ptp_thread", {"ptpThread"}, {}, {}, "ptpdev")
MiscRegister == Step("misc_register", {"misc"}, {}, {}, "return")

InitSteps == <<
  AllocEtherdev, AllocTc6, AllocBuffers, oa_tc6_sw_reset_macphy,
  oa_tc6_unmask_macphy_error_interrupts, oa_tc6_check_phy_reg_direct_access_capability,
  oa_tc6_mdiobus_register, PhyConnect, init_lan865x, oa_tc6_enable_data_transfer,
  oa_tc6_update_buffer_status_from_register, StartSpiThread, RequestIrq>>

ProbeSteps == <<
  oa_tc6_zero_align_receive_frame_enable, ReadNodeId, SetMacaddr, RegisterNetdev,
  lan865x_set_nodeid, PtpAlloc, PtpClockRegister, PtpThread, MiscRegister>>

Probe_ResetLate == RemoveAt(InitSteps, 4) \o <<InitSteps[4]>> \o ProbeSteps
Probe == InitSteps \o ProbeSteps

Names == {InitSteps[i].name : i \in 1..Len(InitSteps)}
           \cup {ProbeSteps[i].name : i \in 1..Len(ProbeSteps)}
ASSUME FailAssumption == FailSteps \subseteq Names

PhyExit == <<"phy", "mdio">>
Oa_tc6_exit_NoStop == PhyExit
Oa_tc6_exit == PhyExit \o <<"spiThread">>

\* What is undone, in order; removal does the same after unregistering.
Undo(label) ==
  CASE label = "return" -> <<>>
    [] label = "free_netdev" -> <<"netdev">>
    [] label = "mdiobus" -> <<"mdio", "netdev">>
    [] label = "phy_exit" -> PhyExit \o <<"netdev">>
    [] label = "kthread_stop" -> <<"spiThread">> \o PhyExit \o <<"netdev">>
    [] label = "oa_tc6_exit" -> Oa_tc6_exit \o <<"netdev">>
    [] label = "ptpdev" -> <<"ptpdev">> \o Oa_tc6_exit \o <<"netdev">>

Removal_ExitFirst == <<"work">> \o Oa_tc6_exit \o <<"registered", "netdev", "misc">>
Removal == <<"work", "registered">> \o Oa_tc6_exit \o <<"netdev", "misc">>

\* Device resources are released last to first once probe has failed or
\* remove has returned; the wait queue is part of tc6.
Devres == <<"irq", "buffers", "wq", "tc6">>

PtpSteps == {"ptp_alloc", "ptp_clock", "ptp_thread"}

VARIABLES
  state,     \* "probing", "undoing", "bound", "removing", "releasing", "gone"
  next,      \* the next step of Probe
  todo,      \* what is still to be undone
  failedAt,  \* the step that failed, or "none"
  live,      \* resources there are
  conf,      \* settings the MAC-PHY has
  works,     \* multicast updates scheduled
  nodeId     \* the node id written to PLCA_CTRL1, or -1

vars == <<state, next, todo, failedAt, live, conf, works, nodeId>>

Settings == UNION {Probe[i].checked \cup Probe[i].ignored : i \in 1..Len(Probe)}

TypeOK ==
  /\ state \in {"probing", "undoing", "bound", "removing", "releasing", "gone"}
  /\ next \in 1..Len(Probe) + 1
  /\ failedAt \in Names \cup {"none"}
  /\ live \subseteq {"work"} \cup UNION {Probe[i].adds : i \in 1..Len(Probe)}
  /\ conf \subseteq Settings
  /\ nodeId \in -1..15

Init ==
  /\ state = "probing" /\ next = 1 /\ todo = <<>> /\ failedAt = "none"
  /\ live = {} /\ conf = {} /\ works = 0 /\ nodeId = -1

\* Pin 3 is the most significant.
NodeId(pins) == LET value(i) == IF i \in pins THEN 1 ELSE 0
                IN 8 * value(3) + 4 * value(2) + 2 * value(1) + value(0)

\* A reset takes every setting back.
Configured(s, lost) ==
  IF s.name = "sw_reset" THEN s.checked
  ELSE conf \cup s.checked \cup (s.ignored \ lost)

Do == LET s == Probe[next] IN
  /\ state = "probing" /\ next <= Len(Probe)
  /\ live' = live \cup s.adds
  /\ \E lost \in IF IgnoredFail THEN SUBSET s.ignored ELSE {{}} : conf' = Configured(s, lost)
  /\ IF s.name = "nodeid_gpios" THEN \E p \in NodeIdPins : nodeId' = NodeId(p)
                                ELSE UNCHANGED nodeId
  /\ next' = next + 1
  /\ state' = IF next = Len(Probe) THEN "bound" ELSE state
  /\ UNCHANGED <<todo, failedAt, works>>

Fail == LET s == Probe[next] IN
  /\ state = "probing" /\ next <= Len(Probe)
  /\ s.name \in FailSteps
  /\ failedAt' = s.name
  /\ todo' = Undo(s.undo)
  /\ state' = "undoing"
  /\ UNCHANGED <<next, live, conf, works, nodeId>>

\* One call of the error path or of lan865x_remove. free_netdev frees what is
\* there; a multicast update that runs is waited for when it is cancelled.
UndoOne ==
  /\ state \in {"undoing", "removing"} /\ todo # <<>>
  /\ live' = live \ {Head(todo)}
  /\ todo' = Tail(todo)
  /\ UNCHANGED <<state, next, failedAt, conf, works, nodeId>>

\* ret is 0 when ptp_device_init has failed: the driver core takes the device
\* as bound.
UndoDone ==
  /\ state \in {"undoing", "removing"} /\ todo = <<>>
  /\ IF state = "undoing" /\ failedAt \in PtpSteps
     THEN state' = "bound" /\ UNCHANGED todo
     ELSE state' = "releasing" /\ todo' = Devres
  /\ UNCHANGED <<next, failedAt, live, conf, works, nodeId>>

Release ==
  /\ state = "releasing"
  /\ IF todo = <<>> THEN state' = "gone" /\ UNCHANGED <<todo, live>>
     ELSE live' = live \ {Head(todo)} /\ todo' = Tail(todo) /\ UNCHANGED state
  /\ UNCHANGED <<next, failedAt, conf, works, nodeId>>

Unbind ==
  /\ state = "bound"
  /\ state' = "removing" /\ todo' = Removal
  /\ UNCHANGED <<next, failedAt, live, conf, works, nodeId>>

\* The stack changes the multicast list of a registered device.
ScheduleWork ==
  /\ "registered" \in live /\ works < MaxWork
  /\ live' = live \cup {"work"} /\ works' = works + 1
  /\ UNCHANGED <<state, next, todo, failedAt, conf, nodeId>>

RunWork ==
  /\ "work" \in live
  /\ live' = live \ {"work"}
  /\ UNCHANGED <<state, next, todo, failedAt, conf, works, nodeId>>

Next == Do \/ Fail \/ UndoOne \/ UndoDone \/ Release \/ Unbind
        \/ ScheduleWork \/ RunWork

Spec == Init /\ [][Next]_vars

-----------------------------------------------------------------------------
(* Correctness.                                                            *)

\* Who reaches the driver's state whenever it runs. The stack's calls and
\* ethtool's get_ts_info come through the registered device.
Users == {"spiThread", "irq", "registered", "ts_info", "work", "misc", "ptpThread", "ptpClock"}
Holder(user) == IF user = "ts_info" THEN "registered" ELSE user

\* What each of them reaches; "ptpSet" stands for what ptp_device_init sets once
\* the clock is registered: the clock's operations and, on return, priv->ptpdev.
Needs(user) ==
  CASE user = "spiThread" -> {"netdev", "tc6", "buffers", "wq"}
    [] user = "irq" -> {"tc6", "wq"}
    [] user = "registered" -> {"netdev", "tc6", "buffers", "wq", "phy"}
    [] user = "ts_info" -> {"netdev", "ptpdev", "ptpSet"}
    [] user = "work" -> {"netdev", "tc6", "buffers"}
    [] user = "misc" -> {"tc6", "buffers"}
    [] user = "ptpThread" -> {"netdev", "ptpdev", "tc6", "buffers"}
    [] user = "ptpClock" -> {"netdev", "ptpdev", "ptpSet", "tc6", "buffers"}

Done(name) == \E i \in 1 .. next - 1 : Probe[i].name = name
There == live \cup IF Done("ptp_thread") THEN {"ptpSet"} ELSE {}

\* The windows the code leaves open, by what a user may find gone or not yet
\* there: a failure that returns without stopping anything, or that frees
\* everything under a registered device; probe before priv->ptpdev is set; and
\* removal, which stops neither the PTP side nor a late multicast update.
Exposed(user, failed, phase) ==
  CASE failed \in {"nodeid_gpios", "misc_register"} ->
         IF user = "irq" THEN {} ELSE {"tc6", "buffers", "wq"}
    [] failed = "set_nodeid" ->
         IF user \in {"registered", "ts_info", "work"} THEN Needs(user) ELSE {}
    [] failed \in PtpSteps ->
         IF user = "registered" THEN {"netdev", "phy"}
         ELSE IF user \in {"ts_info", "work", "ptpClock"} THEN Needs(user) ELSE {}
    [] failed = "none" /\ phase = "probing" ->
         IF user = "ts_info" THEN {"ptpdev", "ptpSet"}
         ELSE IF user = "ptpClock" THEN {"ptpSet"} ELSE {}
    [] failed = "none" /\ phase \in {"removing", "releasing", "gone"} ->
         IF user \in {"work", "ptpThread", "ptpClock"} THEN {"netdev", "tc6", "buffers"} ELSE {}
    [] OTHER -> {}

\* At every point of probe, of each error path, of remove and of the release,
\* every user finds what it reaches, but for what those windows name: no other
\* user, no other time and nothing else (lan865x_probe, lan865x_remove).
UsersSafe == \A u \in Users :
  Holder(u) \in live => Needs(u) \ Exposed(u, failedAt, state) \subseteq There

\* The same without the windows. It does not hold (configuration LcUsers): the
\* first to find nothing is get_ts_info while the device is being probed.
UsersServed == \A u \in Users : Holder(u) \in live => Needs(u) \subseteq There

\* What a failure, or a removal ("none"), leaves behind for good.
LeftBy(step) ==
  CASE step = "none" -> {"ptpdev", "ptpClock", "ptpThread", "work"}
    [] step = "nodeid_gpios" -> {"netdev", "mdio", "phy", "spiThread"}
    [] step = "misc_register" -> {"netdev", "mdio", "phy", "spiThread", "registered",
                                  "ptpdev", "ptpClock", "ptpThread", "work"}
    [] step = "set_nodeid" -> {"registered", "work"}
    [] step \in {"ptp_alloc", "ptp_clock"} -> {"work"}
    [] step = "ptp_thread" -> {"ptpClock", "work"}
    [] OTHER -> {}

\* When all is over, nothing is left but that: after a failed step of oa_tc6_init
\* or one that goes to oa_tc6_exit before the registration, nothing at all.
NothingLeft == state = "gone" => live \subseteq LeftBy(failedAt)

\* A device that was bound without an error holds all settings whose writes are
\* checked, and no data was transferred before the configuration was synchronised.
BoundIsConfigured ==
  /\ state = "bound" /\ failedAt = "none" =>
       {"reset", "cdctl", "sync", "zarfe", "mac", "nodeid"} \subseteq conf
  /\ "spiThread" \in live => "sync" \in conf

\* Comment at oa_tc6.c:1491: oa_tc6_init returns the structure if the MAC-PHY
\* initialization was successful, otherwise NULL.
InitMeansInitialised == next > Len(InitSteps) =>
  UNION {s.checked \cup s.ignored : s \in Range(InitSteps)} \subseteq conf

\* Comment at lan865x.c:487: zero alignment is to be configured for proper
\* operation, so before a thread reads frames from an enabled receiver.
AlignedBeforeFrames ==
  "spiThread" \in live /\ {"rxen", "sync"} \subseteq conf => "zarfe" \in conf

\* Comment at lan865x.c:47: the LAN8650 supports a node count of 8, so the id of
\* a node is below it.
NodeIdSupported == "nodeid" \in conf => nodeId < LAN8650_NODE_MAX_COUNT
=============================================================================
