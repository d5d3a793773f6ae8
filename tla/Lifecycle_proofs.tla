-------------------------- MODULE Lifecycle_proofs --------------------------
(***************************************************************************)
(* Proofs that the driver comes up and goes down without reaching what is  *)
(* not there, whichever steps of probe fail, whichever writes are lost and *)
(* however the stack schedules multicast updates meanwhile.                *)
(***************************************************************************)
EXTENDS Lifecycle, SequenceTheorems, TLAPS

-----------------------------------------------------------------------------
(* The inductive invariant.                                                *)

\* What the steps before step n have added.
Built(n) == UNION {Probe[i].adds : i \in 1 .. n - 1}

\* The settings whose writes are checked are there once their step is done.
ConfInv ==
  /\ next > 4 => "reset" \in conf
  /\ next > 9 => "cdctl" \in conf
  /\ next > 10 => "sync" \in conf
  /\ next > 14 => "zarfe" \in conf
  /\ next > 16 => "mac" \in conf
  /\ next > 18 => "nodeid" \in conf

\* Probe adds one thing after the other; updates come with the registration.
BuildInv ==
  /\ next \in 1 .. 23
  /\ "spiThread" \in live => next > 12
  /\ state = "probing" => failedAt = "none" /\ next < 23
  /\ state = "bound" /\ failedAt = "none" => next = 23
  /\ state \in {"probing", "bound"} /\ failedAt = "none" =>
       /\ live \ {"work"} = Built(next)
       /\ "work" \in live => next > 17
       /\ todo = <<>>

\* What each user must find, by the step that failed and what is going on.
OwedAt(failed, phase) == [u \in Users |-> Needs(u) \ Exposed(u, failed, phase)]
Owed == OwedAt(failedAt, state)

\* Every user whose holder is there finds what it is owed.
Served(owed, there) ==
  \A u \in Users : Holder(u) \in there => owed[u] \subseteq there

\* What a user is owed is not undone before its holder.
InOrder(owed, calls, there) ==
  \A u \in Users : Holder(u) \in there =>
    \A i \in 1 .. Len(calls) : calls[i] \in owed[u] => \E j \in 1 .. i - 1 : calls[j] = Holder(u)

Undone(calls) == {calls[i] : i \in 1 .. Len(calls)}
Managed == {"irq", "buffers", "wq", "tc6"}   \* the resources in Devres

\* The calls that undo something, by what they undo.
Calls == {"work", "registered", "phy", "mdio", "spiThread", "netdev", "misc", "ptpdev"}
           \cup Managed

\* Steps whose failure leaves something behind or a netdev registered.
NotUndone == {"nodeid_gpios", "set_nodeid", "misc_register"} \cup PtpSteps

\* What is not undone by the calls at hand: what the failure leaves, the
\* registration until the device is unbound, and the device resources.
Remains ==
  LeftBy(failedAt)
    \cup (IF failedAt \in PtpSteps /\ state \in {"undoing", "bound"} THEN {"registered"} ELSE {})
    \cup (IF state \in {"undoing", "bound", "removing"} THEN Managed ELSE {})

TeardownInv ==
  /\ todo \in Seq(Calls)
  /\ Served(Owed, There)
  /\ InOrder(Owed, todo, There)
  /\ "registered" \in Undone(todo) => state = "removing"
  /\ state \in {"bound", "removing"} => failedAt \in {"none"} \cup PtpSteps
  /\ state \in {"bound", "gone"} => todo = <<>>
  /\ failedAt = "none" => state # "undoing"
  /\ failedAt \notin NotUndone \cup {"none"} => "registered" \notin live
  /\ state \in {"undoing", "removing", "releasing", "gone"} \/ failedAt # "none" =>
       live \subseteq Undone(todo) \cup Remains

States == {"probing", "undoing", "bound", "removing", "releasing", "gone"}

\* A failure of misc_register comes with everything else in place.
StepInv == failedAt = "misc_register" => next = 22

LifeInv == state \in States /\ ConfInv /\ BuildInv /\ StepInv /\ TeardownInv

-----------------------------------------------------------------------------
(* The steps of probe.                                                     *)

\* What the proofs use of the sequence of steps: how long it is, what each
\* step adds, and which settings it must write.
LEMMA ProbeIs ==
    /\ Len(Probe) = 22
    /\ Probe[1] = AllocEtherdev /\ Probe[2] = AllocTc6 /\ Probe[3] = AllocBuffers
    /\ Probe[4] = oa_tc6_sw_reset_macphy
    /\ Probe[5] = oa_tc6_unmask_macphy_error_interrupts
    /\ Probe[6] = oa_tc6_check_phy_reg_direct_access_capability
    /\ Probe[7] = oa_tc6_mdiobus_register /\ Probe[8] = PhyConnect
    /\ Probe[9] = init_lan865x /\ Probe[10] = oa_tc6_enable_data_transfer
    /\ Probe[11] = oa_tc6_update_buffer_status_from_register
    /\ Probe[12] = StartSpiThread /\ Probe[13] = RequestIrq
    /\ Probe[14] = oa_tc6_zero_align_receive_frame_enable
    /\ Probe[15] = ReadNodeId /\ Probe[16] = SetMacaddr
    /\ Probe[17] = RegisterNetdev /\ Probe[18] = lan865x_set_nodeid
    /\ Probe[19] = PtpAlloc /\ Probe[20] = PtpClockRegister
    /\ Probe[21] = PtpThread /\ Probe[22] = MiscRegister
  <1> DEFINE S == {InitSteps[i] : i \in 1 .. 13} \cup {ProbeSteps[i] : i \in 1 .. 9}
  <1>1. InitSteps \in Seq(S) /\ Len(InitSteps) = 13
    BY DEF InitSteps
  <1>2. ProbeSteps \in Seq(S) /\ Len(ProbeSteps) = 9
    BY DEF ProbeSteps
  <1> HIDE DEF S
  <1>3. /\ Len(Probe) = 22
        /\ \A i \in 1 .. 22 : Probe[i] = IF i <= 13 THEN InitSteps[i] ELSE ProbeSteps[i - 13]
    <2> DEFINE a == InitSteps  b == ProbeSteps
    <2>1. a \in Seq(S) /\ Len(a) = 13 /\ b \in Seq(S) /\ Len(b) = 9
      BY <1>1, <1>2
    <2> HIDE DEF a, b
    <2>2. /\ Len(a \o b) = Len(a) + Len(b)
          /\ \A i \in 1 .. Len(a) + Len(b) :
               (a \o b)[i] = IF i <= Len(a) THEN a[i] ELSE b[i - Len(a)]
      <3>1. a \in Seq(S) /\ b \in Seq(S)
        BY <2>1
      <3> QED BY <3>1, ConcatProperties, Zenon
    <2>3. 13 + 9 = 22 /\ Probe = a \o b
      BY DEF Probe, a, b
    <2> QED BY <2>1, <2>2, <2>3 DEF a, b
  <1>4. \A i \in 1 .. 13 : Probe[i] = InitSteps[i]
    BY <1>3
  <1>5. \A i \in 1 .. 9 : Probe[13 + i] = ProbeSteps[i]
    BY <1>3
  <1>6. /\ Probe[1] = AllocEtherdev /\ Probe[2] = AllocTc6 /\ Probe[3] = AllocBuffers
        /\ Probe[4] = oa_tc6_sw_reset_macphy
        /\ Probe[5] = oa_tc6_unmask_macphy_error_interrupts
        /\ Probe[6] = oa_tc6_check_phy_reg_direct_access_capability
        /\ Probe[7] = oa_tc6_mdiobus_register /\ Probe[8] = PhyConnect
        /\ Probe[9] = init_lan865x /\ Probe[10] = oa_tc6_enable_data_transfer
        /\ Probe[11] = oa_tc6_update_buffer_status_from_register
        /\ Probe[12] = StartSpiThread /\ Probe[13] = RequestIrq
    BY <1>4 DEF InitSteps
  <1>7. /\ Probe[14] = oa_tc6_zero_align_receive_frame_enable
        /\ Probe[15] = ReadNodeId /\ Probe[16] = SetMacaddr
        /\ Probe[17] = RegisterNetdev /\ Probe[18] = lan865x_set_nodeid
        /\ Probe[19] = PtpAlloc /\ Probe[20] = PtpClockRegister
        /\ Probe[21] = PtpThread /\ Probe[22] = MiscRegister
    BY <1>5 DEF ProbeSteps
  <1> QED BY <1>3, <1>6, <1>7

\* What each step adds, and the settings it fails without.
LEMMA StepAdds ==
    /\ Probe[1].adds = {"netdev"} /\ Probe[2].adds = {"tc6"} /\ Probe[3].adds = {"buffers"}
    /\ Probe[4].adds = {} /\ Probe[5].adds = {} /\ Probe[6].adds = {}
    /\ Probe[7].adds = {"mdio"} /\ Probe[8].adds = {"phy"}
    /\ Probe[9].adds = {} /\ Probe[10].adds = {} /\ Probe[11].adds = {}
    /\ Probe[12].adds = {"wq", "spiThread"} /\ Probe[13].adds = {"irq"}
    /\ Probe[14].adds = {} /\ Probe[15].adds = {} /\ Probe[16].adds = {}
    /\ Probe[17].adds = {"registered"} /\ Probe[18].adds = {}
    /\ Probe[19].adds = {"ptpdev"} /\ Probe[20].adds = {"ptpClock"}
    /\ Probe[21].adds = {"ptpThread"} /\ Probe[22].adds = {"misc"}
  BY ProbeIs DEF Step, AllocEtherdev, AllocTc6, AllocBuffers,
     oa_tc6_sw_reset_macphy, oa_tc6_unmask_macphy_error_interrupts,
     oa_tc6_check_phy_reg_direct_access_capability, oa_tc6_mdiobus_register,
     PhyConnect, init_lan865x, oa_tc6_enable_data_transfer,
     oa_tc6_update_buffer_status_from_register, StartSpiThread, RequestIrq,
     oa_tc6_zero_align_receive_frame_enable, ReadNodeId, SetMacaddr,
     RegisterNetdev, lan865x_set_nodeid, PtpAlloc, PtpClockRegister, PtpThread,
     MiscRegister

LEMMA StepWrites ==
    /\ "reset" \in Probe[4].checked /\ "cdctl" \in Probe[9].checked
    /\ "sync" \in Probe[10].checked /\ "zarfe" \in Probe[14].checked
    /\ "mac" \in Probe[16].checked /\ "nodeid" \in Probe[18].checked
    /\ \A i \in 1 .. 22 : Probe[i].name = "sw_reset" <=> i = 4
  <1>1. /\ "reset" \in Probe[4].checked /\ "cdctl" \in Probe[9].checked
        /\ "sync" \in Probe[10].checked /\ "zarfe" \in Probe[14].checked
        /\ "mac" \in Probe[16].checked /\ "nodeid" \in Probe[18].checked
    BY ProbeIs DEF Step, oa_tc6_sw_reset_macphy, init_lan865x,
       oa_tc6_enable_data_transfer, oa_tc6_zero_align_receive_frame_enable,
       SetMacaddr, lan865x_set_nodeid
  <1>2. /\ Probe[1].name # "sw_reset" /\ Probe[2].name # "sw_reset"
        /\ Probe[3].name # "sw_reset" /\ Probe[4].name = "sw_reset"
        /\ Probe[5].name # "sw_reset" /\ Probe[6].name # "sw_reset"
        /\ Probe[7].name # "sw_reset" /\ Probe[8].name # "sw_reset"
        /\ Probe[9].name # "sw_reset" /\ Probe[10].name # "sw_reset"
        /\ Probe[11].name # "sw_reset" /\ Probe[12].name # "sw_reset"
        /\ Probe[13].name # "sw_reset" /\ Probe[14].name # "sw_reset"
        /\ Probe[15].name # "sw_reset" /\ Probe[16].name # "sw_reset"
        /\ Probe[17].name # "sw_reset" /\ Probe[18].name # "sw_reset"
        /\ Probe[19].name # "sw_reset" /\ Probe[20].name # "sw_reset"
        /\ Probe[21].name # "sw_reset" /\ Probe[22].name # "sw_reset"
    BY ProbeIs DEF Step, AllocEtherdev, AllocTc6, AllocBuffers,
       oa_tc6_sw_reset_macphy, oa_tc6_unmask_macphy_error_interrupts,
       oa_tc6_check_phy_reg_direct_access_capability, oa_tc6_mdiobus_register,
       PhyConnect, init_lan865x, oa_tc6_enable_data_transfer,
       oa_tc6_update_buffer_status_from_register, StartSpiThread, RequestIrq,
       oa_tc6_zero_align_receive_frame_enable, ReadNodeId, SetMacaddr,
       RegisterNetdev, lan865x_set_nodeid, PtpAlloc, PtpClockRegister, PtpThread,
       MiscRegister
  <1> QED BY <1>1, <1>2

\* Which step adds a resource.
LEMMA AddedBy ==
    ASSUME NEW i \in 1 .. 22
    PROVE  /\ "netdev" \in Probe[i].adds <=> i = 1
           /\ "tc6" \in Probe[i].adds <=> i = 2
           /\ "buffers" \in Probe[i].adds <=> i = 3
           /\ "mdio" \in Probe[i].adds <=> i = 7
           /\ "phy" \in Probe[i].adds <=> i = 8
           /\ "wq" \in Probe[i].adds <=> i = 12
           /\ "spiThread" \in Probe[i].adds <=> i = 12
           /\ "irq" \in Probe[i].adds <=> i = 13
           /\ "registered" \in Probe[i].adds <=> i = 17
           /\ "ptpdev" \in Probe[i].adds <=> i = 19
           /\ "ptpClock" \in Probe[i].adds <=> i = 20
           /\ "ptpThread" \in Probe[i].adds <=> i = 21
           /\ "misc" \in Probe[i].adds <=> i = 22
           /\ "work" \notin Probe[i].adds
           /\ Probe[i].adds \subseteq {"netdev", "tc6", "buffers", "mdio", "phy", "wq",
                "spiThread", "irq", "registered", "ptpdev", "ptpClock", "ptpThread", "misc"}
  <1>1. \/ i = 1 \/ i = 2 \/ i = 3 \/ i = 4 \/ i = 5 \/ i = 6 \/ i = 7 \/ i = 8
        \/ i = 9 \/ i = 10 \/ i = 11 \/ i = 12 \/ i = 13 \/ i = 14 \/ i = 15
        \/ i = 16 \/ i = 17 \/ i = 18 \/ i = 19 \/ i = 20 \/ i = 21 \/ i = 22
    OBVIOUS
  <1> QED BY <1>1, StepAdds

\* What is there before step n.
LEMMA BuiltIs ==
    ASSUME NEW n \in 1 .. 23
    PROVE  /\ "netdev" \in Built(n) <=> n > 1
           /\ "tc6" \in Built(n) <=> n > 2
           /\ "buffers" \in Built(n) <=> n > 3
           /\ "mdio" \in Built(n) <=> n > 7
           /\ "phy" \in Built(n) <=> n > 8
           /\ "wq" \in Built(n) <=> n > 12
           /\ "spiThread" \in Built(n) <=> n > 12
           /\ "irq" \in Built(n) <=> n > 13
           /\ "registered" \in Built(n) <=> n > 17
           /\ "ptpdev" \in Built(n) <=> n > 19
           /\ "ptpClock" \in Built(n) <=> n > 20
           /\ "ptpThread" \in Built(n) <=> n > 21
           /\ "misc" \in Built(n) <=> n > 22
           /\ Built(n) \subseteq {"netdev", "tc6", "buffers", "mdio", "phy", "wq",
                "spiThread", "irq", "registered", "ptpdev", "ptpClock", "ptpThread", "misc"}
  <1>1. \A i \in 1 .. n - 1 : i \in 1 .. 22
    OBVIOUS
  <1>2. ASSUME NEW x, NEW k \in 1 .. 22, \A i \in 1 .. 22 : x \in Probe[i].adds <=> i = k
        PROVE  x \in Built(n) <=> n > k
    <2>1. x \in Built(n) <=> \E i \in 1 .. n - 1 : x \in Probe[i].adds
      BY DEF Built
    <2>2. x \in Built(n) <=> \E i \in 1 .. n - 1 : i = k
      BY <1>1, <1>2, <2>1
    <2> QED BY <2>2
  <1>3. /\ "netdev" \in Built(n) <=> n > 1
        /\ "tc6" \in Built(n) <=> n > 2
        /\ "buffers" \in Built(n) <=> n > 3
        /\ "mdio" \in Built(n) <=> n > 7
        /\ "phy" \in Built(n) <=> n > 8
    BY <1>2, AddedBy
  <1>4. /\ "wq" \in Built(n) <=> n > 12
        /\ "spiThread" \in Built(n) <=> n > 12
        /\ "irq" \in Built(n) <=> n > 13
        /\ "registered" \in Built(n) <=> n > 17
        /\ "misc" \in Built(n) <=> n > 22
    BY <1>2, AddedBy
  <1>5. /\ "ptpdev" \in Built(n) <=> n > 19
        /\ "ptpClock" \in Built(n) <=> n > 20
        /\ "ptpThread" \in Built(n) <=> n > 21
    BY <1>2, AddedBy
  <1>6. Built(n) \subseteq {"netdev", "tc6", "buffers", "mdio", "phy", "wq",
           "spiThread", "irq", "registered", "ptpdev", "ptpClock", "ptpThread", "misc"}
    BY <1>1, AddedBy DEF Built
  <1> QED BY <1>3, <1>4, <1>5, <1>6

\* A step that succeeds adds what it adds.
LEMMA BuiltNext ==
    ASSUME NEW n \in 1 .. 22
    PROVE  Built(n + 1) = Built(n) \cup Probe[n].adds
  <1>1. \A i : i \in 1 .. (n + 1) - 1 <=> i \in 1 .. n - 1 \/ i = n
    OBVIOUS
  <1> QED BY <1>1 DEF Built

\* Where a step that fails jumps to.
LEMMA StepUndoes ==
    /\ Probe[1].undo = "return"
    /\ \A i \in 2 .. 7 : Probe[i].undo = "free_netdev"
    /\ Probe[8].undo = "mdiobus"
    /\ \A i \in 9 .. 12 : Probe[i].undo = "phy_exit"
    /\ Probe[13].undo = "kthread_stop"
    /\ Probe[14].undo = "oa_tc6_exit" /\ Probe[16].undo = "oa_tc6_exit"
    /\ Probe[17].undo = "oa_tc6_exit" /\ Probe[18].undo = "oa_tc6_exit"
    /\ Probe[19].undo = "oa_tc6_exit"
    /\ Probe[20].undo = "ptpdev" /\ Probe[21].undo = "ptpdev"
    /\ Probe[15].undo = "return" /\ Probe[22].undo = "return"
    /\ Probe[15].name = "nodeid_gpios" /\ Probe[18].name = "set_nodeid"
    /\ Probe[19].name = "ptp_alloc" /\ Probe[20].name = "ptp_clock"
    /\ Probe[21].name = "ptp_thread" /\ Probe[22].name = "misc_register"
    /\ \A i \in 1 .. 17 : i # 15 => Probe[i].name \notin NotUndone \cup {"none"}
  <1>1. /\ Probe[1].undo = "return"
        /\ Probe[2].undo = "free_netdev" /\ Probe[3].undo = "free_netdev"
        /\ Probe[4].undo = "free_netdev" /\ Probe[5].undo = "free_netdev"
        /\ Probe[6].undo = "free_netdev" /\ Probe[7].undo = "free_netdev"
        /\ Probe[8].undo = "mdiobus"
        /\ Probe[9].undo = "phy_exit" /\ Probe[10].undo = "phy_exit"
        /\ Probe[11].undo = "phy_exit" /\ Probe[12].undo = "phy_exit"
        /\ Probe[13].undo = "kthread_stop"
        /\ Probe[14].undo = "oa_tc6_exit" /\ Probe[16].undo = "oa_tc6_exit"
        /\ Probe[17].undo = "oa_tc6_exit"
    BY ProbeIs DEF Step, AllocEtherdev, AllocTc6, AllocBuffers,
       oa_tc6_sw_reset_macphy, oa_tc6_unmask_macphy_error_interrupts,
       oa_tc6_check_phy_reg_direct_access_capability, oa_tc6_mdiobus_register,
       PhyConnect, init_lan865x, oa_tc6_enable_data_transfer,
       oa_tc6_update_buffer_status_from_register, StartSpiThread, RequestIrq,
       oa_tc6_zero_align_receive_frame_enable, SetMacaddr, RegisterNetdev
  <1>2. /\ Probe[15].undo = "return" /\ Probe[18].undo = "oa_tc6_exit"
        /\ Probe[19].undo = "oa_tc6_exit" /\ Probe[20].undo = "ptpdev"
        /\ Probe[21].undo = "ptpdev" /\ Probe[22].undo = "return"
        /\ Probe[15].name = "nodeid_gpios" /\ Probe[18].name = "set_nodeid"
        /\ Probe[19].name = "ptp_alloc" /\ Probe[20].name = "ptp_clock"
        /\ Probe[21].name = "ptp_thread" /\ Probe[22].name = "misc_register"
    BY ProbeIs DEF Step, ReadNodeId, lan865x_set_nodeid, PtpAlloc,
       PtpClockRegister, PtpThread, MiscRegister
  <1> DEFINE Named == NotUndone \cup {"none"}
  <1>4. /\ Probe[1].name \notin Named /\ Probe[2].name \notin Named
        /\ Probe[3].name \notin Named /\ Probe[4].name \notin Named
        /\ Probe[5].name \notin Named /\ Probe[6].name \notin Named
        /\ Probe[7].name \notin Named /\ Probe[8].name \notin Named
        /\ Probe[9].name \notin Named /\ Probe[10].name \notin Named
    BY ProbeIs DEF Step, AllocEtherdev, AllocTc6, AllocBuffers,
       oa_tc6_sw_reset_macphy, oa_tc6_unmask_macphy_error_interrupts,
       oa_tc6_check_phy_reg_direct_access_capability, oa_tc6_mdiobus_register,
       PhyConnect, init_lan865x, oa_tc6_enable_data_transfer, NotUndone, PtpSteps
  <1>5. /\ Probe[11].name \notin Named /\ Probe[12].name \notin Named
        /\ Probe[13].name \notin Named /\ Probe[14].name \notin Named
        /\ Probe[16].name \notin Named /\ Probe[17].name \notin Named
    BY ProbeIs DEF Step, oa_tc6_update_buffer_status_from_register, StartSpiThread,
       RequestIrq, oa_tc6_zero_align_receive_frame_enable, SetMacaddr,
       RegisterNetdev, NotUndone, PtpSteps
  <1>6. ASSUME NEW i \in 1 .. 17, i # 15 PROVE Probe[i].name \notin Named
    <2>1. \/ i = 1 \/ i = 2 \/ i = 3 \/ i = 4 \/ i = 5 \/ i = 6 \/ i = 7 \/ i = 8
          \/ i = 9 \/ i = 10 \/ i = 11 \/ i = 12 \/ i = 13 \/ i = 14 \/ i = 16 \/ i = 17
      BY <1>6
    <2> QED BY <1>4, <1>5, <2>1
  <1>3. /\ \A i \in 2 .. 7 : i = 2 \/ i = 3 \/ i = 4 \/ i = 5 \/ i = 6 \/ i = 7
        /\ \A i \in 9 .. 12 : i = 9 \/ i = 10 \/ i = 11 \/ i = 12
    OBVIOUS
  <1> QED BY <1>1, <1>2, <1>3, <1>6

-----------------------------------------------------------------------------
(* What is undone.                                                         *)

\* The concatenation of two lists, written as one.
LEMMA Joined ==
    ASSUME NEW S, NEW x \in Seq(S), NEW y \in Seq(S), NEW z \in Seq(S),
           Len(z) = Len(x) + Len(y),
           \A i \in 1 .. Len(x) : z[i] = x[i],
           \A i \in 1 .. Len(y) : z[Len(x) + i] = y[i]
    PROVE  x \o y = z
  <1>1. Len(x) \in Nat /\ Len(y) \in Nat
    OBVIOUS
  <1>2. /\ x \o y \in Seq(S) /\ Len(x \o y) = Len(x) + Len(y)
        /\ \A i \in 1 .. Len(x) + Len(y) :
             (x \o y)[i] = IF i <= Len(x) THEN x[i] ELSE y[i - Len(x)]
    BY ConcatProperties
  <1>3. ASSUME NEW i \in 1 .. Len(z) PROVE z[i] = (x \o y)[i]
    <2>1. CASE i <= Len(x)
      BY <1>2, <2>1
    <2>2. CASE ~(i <= Len(x))
      <3>1. i - Len(x) \in 1 .. Len(y) /\ Len(x) + (i - Len(x)) = i
        BY <1>1, <2>2
      <3> QED BY <1>2, <2>2, <3>1
    <2> QED BY <2>1, <2>2
  <1> QED BY <1>2, <1>3, SeqEqual

\* The calls of the error paths that undo something, and of lan865x_remove.
LEMMA UndoIs ==
    /\ Undo("return") = <<>>
    /\ Undo("free_netdev") = <<"netdev">>
    /\ Undo("mdiobus") = <<"mdio", "netdev">>
    /\ Undo("phy_exit") = <<"phy", "mdio", "netdev">>
    /\ Undo("kthread_stop") = <<"spiThread", "phy", "mdio", "netdev">>
    /\ Undo("oa_tc6_exit") = <<"phy", "mdio", "spiThread", "netdev">>
    /\ Undo("ptpdev") = <<"ptpdev", "phy", "mdio", "spiThread", "netdev">>
    /\ Removal = <<"work", "registered", "phy", "mdio", "spiThread", "netdev", "misc">>
  <1>1. <<"phy", "mdio">> \o <<"netdev">>
         = <<"phy", "mdio", "netdev">>
    <2> DEFINE x == <<"phy", "mdio">>
               y == <<"netdev">>
               z == <<"phy", "mdio", "netdev">>
    <2>1. x \in Seq(Calls) /\ y \in Seq(Calls) /\ z \in Seq(Calls)
      BY DEF Calls
    <2>2. /\ Len(z) = Len(x) + Len(y)
          /\ \A i \in 1 .. Len(x) : z[i] = x[i]
          /\ \A i \in 1 .. Len(y) : z[Len(x) + i] = y[i]
      OBVIOUS
    <2> HIDE DEF x, y, z
    <2>3. x \o y = z
      BY <2>1, <2>2, Joined
    <2> QED BY <2>3 DEF x, y, z
  <1>2. <<"phy", "mdio">> \o <<"spiThread">>
         = <<"phy", "mdio", "spiThread">>
    <2> DEFINE x == <<"phy", "mdio">>
               y == <<"spiThread">>
               z == <<"phy", "mdio", "spiThread">>
    <2>1. x \in Seq(Calls) /\ y \in Seq(Calls) /\ z \in Seq(Calls)
      BY DEF Calls
    <2>2. /\ Len(z) = Len(x) + Len(y)
          /\ \A i \in 1 .. Len(x) : z[i] = x[i]
          /\ \A i \in 1 .. Len(y) : z[Len(x) + i] = y[i]
      OBVIOUS
    <2> HIDE DEF x, y, z
    <2>3. x \o y = z
      BY <2>1, <2>2, Joined
    <2> QED BY <2>3 DEF x, y, z
  <1>3. <<"phy", "mdio", "spiThread">> \o <<"netdev">>
         = <<"phy", "mdio", "spiThread", "netdev">>
    <2> DEFINE x == <<"phy", "mdio", "spiThread">>
               y == <<"netdev">>
               z == <<"phy", "mdio", "spiThread", "netdev">>
    <2>1. x \in Seq(Calls) /\ y \in Seq(Calls) /\ z \in Seq(Calls)
      BY DEF Calls
    <2>2. /\ Len(z) = Len(x) + Len(y)
          /\ \A i \in 1 .. Len(x) : z[i] = x[i]
          /\ \A i \in 1 .. Len(y) : z[Len(x) + i] = y[i]
      OBVIOUS
    <2> HIDE DEF x, y, z
    <2>3. x \o y = z
      BY <2>1, <2>2, Joined
    <2> QED BY <2>3 DEF x, y, z
  <1>4. <<"spiThread">> \o <<"phy", "mdio">>
         = <<"spiThread", "phy", "mdio">>
    <2> DEFINE x == <<"spiThread">>
               y == <<"phy", "mdio">>
               z == <<"spiThread", "phy", "mdio">>
    <2>1. x \in Seq(Calls) /\ y \in Seq(Calls) /\ z \in Seq(Calls)
      BY DEF Calls
    <2>2. /\ Len(z) = Len(x) + Len(y)
          /\ \A i \in 1 .. Len(x) : z[i] = x[i]
          /\ \A i \in 1 .. Len(y) : z[Len(x) + i] = y[i]
      OBVIOUS
    <2> HIDE DEF x, y, z
    <2>3. x \o y = z
      BY <2>1, <2>2, Joined
    <2> QED BY <2>3 DEF x, y, z
  <1>5. <<"spiThread", "phy", "mdio">> \o <<"netdev">>
         = <<"spiThread", "phy", "mdio", "netdev">>
    <2> DEFINE x == <<"spiThread", "phy", "mdio">>
               y == <<"netdev">>
               z == <<"spiThread", "phy", "mdio", "netdev">>
    <2>1. x \in Seq(Calls) /\ y \in Seq(Calls) /\ z \in Seq(Calls)
      BY DEF Calls
    <2>2. /\ Len(z) = Len(x) + Len(y)
          /\ \A i \in 1 .. Len(x) : z[i] = x[i]
          /\ \A i \in 1 .. Len(y) : z[Len(x) + i] = y[i]
      OBVIOUS
    <2> HIDE DEF x, y, z
    <2>3. x \o y = z
      BY <2>1, <2>2, Joined
    <2> QED BY <2>3 DEF x, y, z
  <1>6. <<"work", "registered">> \o <<"phy", "mdio", "spiThread">>
         = <<"work", "registered", "phy", "mdio", "spiThread">>
    <2> DEFINE x == <<"work", "registered">>
               y == <<"phy", "mdio", "spiThread">>
               z == <<"work", "registered", "phy", "mdio", "spiThread">>
    <2>1. x \in Seq(Calls) /\ y \in Seq(Calls) /\ z \in Seq(Calls)
      BY DEF Calls
    <2>2. /\ Len(z) = Len(x) + Len(y)
          /\ \A i \in 1 .. Len(x) : z[i] = x[i]
          /\ \A i \in 1 .. Len(y) : z[Len(x) + i] = y[i]
      OBVIOUS
    <2> HIDE DEF x, y, z
    <2>3. x \o y = z
      BY <2>1, <2>2, Joined
    <2> QED BY <2>3 DEF x, y, z
  <1>7. <<"work", "registered", "phy", "mdio", "spiThread">> \o <<"netdev", "misc">>
         = <<"work", "registered", "phy", "mdio", "spiThread", "netdev", "misc">>
    <2> DEFINE x == <<"work", "registered", "phy", "mdio", "spiThread">>
               y == <<"netdev", "misc">>
               z == <<"work", "registered", "phy", "mdio", "spiThread", "netdev", "misc">>
    <2>1. x \in Seq(Calls) /\ y \in Seq(Calls) /\ z \in Seq(Calls)
      BY DEF Calls
    <2>2. /\ Len(z) = Len(x) + Len(y)
          /\ \A i \in 1 .. Len(x) : z[i] = x[i]
          /\ \A i \in 1 .. Len(y) : z[Len(x) + i] = y[i]
      OBVIOUS
    <2> HIDE DEF x, y, z
    <2>3. x \o y = z
      BY <2>1, <2>2, Joined
    <2> QED BY <2>3 DEF x, y, z
  <1>8. <<"ptpdev">> \o <<"phy", "mdio", "spiThread">>
         = <<"ptpdev", "phy", "mdio", "spiThread">>
    <2> DEFINE x == <<"ptpdev">>
               y == <<"phy", "mdio", "spiThread">>
               z == <<"ptpdev", "phy", "mdio", "spiThread">>
    <2>1. x \in Seq(Calls) /\ y \in Seq(Calls) /\ z \in Seq(Calls)
      BY DEF Calls
    <2>2. /\ Len(z) = Len(x) + Len(y)
          /\ \A i \in 1 .. Len(x) : z[i] = x[i]
          /\ \A i \in 1 .. Len(y) : z[Len(x) + i] = y[i]
      OBVIOUS
    <2> HIDE DEF x, y, z
    <2>3. x \o y = z
      BY <2>1, <2>2, Joined
    <2> QED BY <2>3 DEF x, y, z
  <1>9. <<"ptpdev", "phy", "mdio", "spiThread">> \o <<"netdev">>
         = <<"ptpdev", "phy", "mdio", "spiThread", "netdev">>
    <2> DEFINE x == <<"ptpdev", "phy", "mdio", "spiThread">>
               y == <<"netdev">>
               z == <<"ptpdev", "phy", "mdio", "spiThread", "netdev">>
    <2>1. x \in Seq(Calls) /\ y \in Seq(Calls) /\ z \in Seq(Calls)
      BY DEF Calls
    <2>2. /\ Len(z) = Len(x) + Len(y)
          /\ \A i \in 1 .. Len(x) : z[i] = x[i]
          /\ \A i \in 1 .. Len(y) : z[Len(x) + i] = y[i]
      OBVIOUS
    <2> HIDE DEF x, y, z
    <2>3. x \o y = z
      BY <2>1, <2>2, Joined
    <2> QED BY <2>3 DEF x, y, z
  <1> QED BY <1>1, <1>2, <1>3, <1>4, <1>5, <1>6, <1>7, <1>8, <1>9
          DEF Undo, PhyExit, Oa_tc6_exit, Removal

\* What a user is owed, by the step that failed and what is going on.
LEMMA OwedIs ==
    ASSUME NEW failed, NEW phase
    PROVE  /\ \A u \in Users : OwedAt(failed, phase)[u] = Needs(u) \ Exposed(u, failed, phase)
           /\ \A u \in Users : OwedAt(failed, phase)[u] \subseteq Needs(u)
           /\ \A u \in Users : "work" \notin OwedAt(failed, phase)[u]
           /\ OwedAt(failed, phase)["work"] \subseteq OwedAt(failed, phase)["registered"]
           /\ failed \in {"nodeid_gpios", "misc_register"} =>
                \A u \in Users \ {"irq"} : OwedAt(failed, phase)[u] \cap Managed = {}
           /\ failed = "set_nodeid" =>
                \A u \in {"registered", "ts_info", "work"} : OwedAt(failed, phase)[u] = {}
           /\ failed \in PtpSteps =>
                /\ OwedAt(failed, phase)["registered"] \subseteq Managed
                /\ \A u \in {"ts_info", "work", "ptpClock"} : OwedAt(failed, phase)[u] = {}
           /\ failed = "none" /\ phase = "probing" =>
                /\ OwedAt(failed, phase)["ts_info"] \subseteq {"netdev"}
                /\ "ptpSet" \notin OwedAt(failed, phase)["ptpClock"]
           /\ failed = "none" /\ phase \in {"removing", "releasing", "gone"} =>
                /\ OwedAt(failed, phase)["work"] = {}
                /\ OwedAt(failed, phase)["ptpThread"] \subseteq {"ptpdev"}
                /\ OwedAt(failed, phase)["ptpClock"] \subseteq {"ptpdev", "ptpSet"}
  <1> DEFINE owed == OwedAt(failed, phase)
  <1>1. \A u \in Users : owed[u] = Needs(u) \ Exposed(u, failed, phase)
    BY DEF OwedAt
  <1>2. /\ Needs("work") = {"netdev", "tc6", "buffers"}
        /\ Needs("registered") = {"netdev", "tc6", "buffers", "wq", "phy"}
        /\ Needs("ts_info") = {"netdev", "ptpdev", "ptpSet"}
        /\ Needs("ptpThread") = {"netdev", "ptpdev", "tc6", "buffers"}
        /\ Needs("ptpClock") = {"netdev", "ptpdev", "ptpSet", "tc6", "buffers"}
    BY DEF Needs
  <1>3. \A u \in Users : "work" \notin Needs(u) /\ "irq" \notin Needs(u)
    BY DEF Needs, Users
  <1>4. {"work", "registered", "ts_info", "ptpThread", "ptpClock"} \subseteq Users
    BY DEF Users
  <1> HIDE DEF owed
  <1>5. CASE failed \in {"nodeid_gpios", "misc_register"}
    <2>1. \A u \in Users : Exposed(u, failed, phase)
             = IF u = "irq" THEN {} ELSE {"tc6", "buffers", "wq"}
      BY <1>5 DEF Exposed, PtpSteps
    <2>2. failed \notin PtpSteps \cup {"set_nodeid", "none"}
      BY <1>5 DEF PtpSteps
    <2> QED BY <1>1, <1>2, <1>3, <1>4, <2>1, <2>2 DEF Managed, owed
  <1>6. CASE failed = "set_nodeid"
    <2>1. \A u \in Users : Exposed(u, failed, phase)
             = IF u \in {"registered", "ts_info", "work"} THEN Needs(u) ELSE {}
      BY <1>6 DEF Exposed, PtpSteps
    <2>2. failed \notin PtpSteps \cup {"nodeid_gpios", "misc_register", "none"}
      BY <1>6 DEF PtpSteps
    <2> QED BY <1>1, <1>3, <1>4, <2>1, <2>2 DEF owed
  <1>7. CASE failed \in PtpSteps
    <2>1. \A u \in Users : Exposed(u, failed, phase)
             = IF u = "registered" THEN {"netdev", "phy"}
               ELSE IF u \in {"ts_info", "work", "ptpClock"} THEN Needs(u) ELSE {}
      BY <1>7 DEF Exposed, PtpSteps
    <2>2. failed \notin {"nodeid_gpios", "misc_register", "set_nodeid", "none"}
      BY <1>7 DEF PtpSteps
    <2> QED BY <1>1, <1>2, <1>3, <1>4, <2>1, <2>2 DEF Managed, owed
  <1>8. CASE failed = "none" /\ phase = "probing"
    <2>1. \A u \in Users : Exposed(u, failed, phase)
             = IF u = "ts_info" THEN {"ptpdev", "ptpSet"}
               ELSE IF u = "ptpClock" THEN {"ptpSet"} ELSE {}
      BY <1>8 DEF Exposed, PtpSteps
    <2>2. /\ failed \notin PtpSteps \cup {"nodeid_gpios", "misc_register", "set_nodeid"}
          /\ phase \notin {"removing", "releasing", "gone"}
      BY <1>8 DEF PtpSteps
    <2> QED BY <1>1, <1>2, <1>3, <1>4, <2>1, <2>2 DEF owed
  <1>9. CASE failed = "none" /\ phase \in {"removing", "releasing", "gone"}
    <2>1. \A u \in Users : Exposed(u, failed, phase)
             = IF u \in {"work", "ptpThread", "ptpClock"} THEN {"netdev", "tc6", "buffers"} ELSE {}
      BY <1>9 DEF Exposed, PtpSteps
    <2>2. /\ failed \notin PtpSteps \cup {"nodeid_gpios", "misc_register", "set_nodeid"}
          /\ phase # "probing"
      BY <1>9 DEF PtpSteps
    <2> QED BY <1>1, <1>2, <1>3, <1>4, <2>1, <2>2 DEF owed
  <1>10. CASE /\ failed \notin {"nodeid_gpios", "misc_register", "set_nodeid"} \cup PtpSteps
              /\ failed = "none" => phase \notin {"probing", "removing", "releasing", "gone"}
    <2>1. \A u \in Users : Exposed(u, failed, phase) = {}
      BY <1>10 DEF Exposed
    <2> QED BY <1>1, <1>2, <1>3, <1>4, <1>10, <2>1 DEF owed
  <1> QED BY <1>5, <1>6, <1>7, <1>8, <1>9, <1>10

\* After a failure, what a user is owed does not depend on what goes on.
LEMMA OwedStays ==
    ASSUME NEW failed, NEW phase, NEW then,
           \/ failed # "none"
           \/ {phase, then} \subseteq {"removing", "releasing", "gone"}
    PROVE  OwedAt(failed, then) = OwedAt(failed, phase)
  <1> SUFFICES ASSUME NEW u \in Users
               PROVE  Exposed(u, failed, then) = Exposed(u, failed, phase)
    BY DEF OwedAt
  <1>1. CASE failed # "none"
    BY <1>1 DEF Exposed
  <1>2. CASE failed = "none" /\ {phase, then} \subseteq {"removing", "releasing", "gone"}
    <2>1. failed \notin {"nodeid_gpios", "misc_register", "set_nodeid"} \cup PtpSteps
      BY <1>2 DEF PtpSteps
    <2>2. phase # "probing" /\ then # "probing"
      BY <1>2
    <2> QED BY <1>2, <2>1, <2>2 DEF Exposed
  <1> QED BY <1>1, <1>2

\* As long as nothing is undone, every user finds what it is owed.
LEMMA BuiltServed ==
    ASSUME NEW n \in 1 .. 23, NEW there, there \ {"work", "ptpSet"} = Built(n),
           "work" \in there => n > 17, n > 21 => "ptpSet" \in there,
           NEW owed, \A u \in Users : owed[u] \subseteq Needs(u),
           n \in 18 .. 21 => owed["ts_info"] \subseteq {"netdev"},
           n = 21 => "ptpSet" \notin owed["ptpClock"]
    PROVE  Served(owed, there)
  <1> SUFFICES ASSUME NEW u \in Users, Holder(u) \in there
               PROVE  owed[u] \subseteq there
    BY DEF Served
  <1>1. Built(n) \subseteq there /\ owed[u] \subseteq Needs(u)
    OBVIOUS
  <1>2. u # "work" => Holder(u) \in Built(n)
    BY DEF Users, Holder
  <1>3. \/ u = "spiThread" \/ u = "irq" \/ u = "registered" \/ u = "ts_info"
        \/ u = "work" \/ u = "misc" \/ u = "ptpThread" \/ u = "ptpClock"
    BY DEF Users
  <1>4. CASE u = "spiThread"
    <2>1. n > 12
      BY <1>2, <1>4, BuiltIs DEF Holder
    <2>2. {"netdev", "tc6", "buffers", "wq"} \subseteq Built(n)
      BY <2>1, BuiltIs
    <2> QED BY <1>1, <1>4, <2>2 DEF Needs
  <1>5. CASE u = "irq"
    <2>1. n > 13
      BY <1>2, <1>5, BuiltIs DEF Holder
    <2>2. {"tc6", "wq"} \subseteq Built(n)
      BY <2>1, BuiltIs
    <2> QED BY <1>1, <1>5, <2>2 DEF Needs
  <1>6. CASE u = "registered"
    <2>1. n > 17
      BY <1>2, <1>6, BuiltIs DEF Holder
    <2>2. {"netdev", "tc6", "buffers", "wq", "phy"} \subseteq Built(n)
      BY <2>1, BuiltIs
    <2> QED BY <1>1, <1>6, <2>2 DEF Needs
  <1>7. CASE u = "ts_info"
    <2>1. n > 17
      BY <1>2, <1>7, BuiltIs DEF Holder
    <2>2. "netdev" \in Built(n) /\ (n > 21 => "ptpdev" \in Built(n) /\ "ptpSet" \in there)
      BY <2>1, BuiltIs
    <2>3. n \in 18 .. 21 \/ n > 21
      BY <2>1
    <2> QED BY <1>1, <1>7, <2>2, <2>3 DEF Needs
  <1>8. CASE u = "work"
    <2>1. n > 17
      BY <1>8 DEF Holder
    <2>2. {"netdev", "tc6", "buffers"} \subseteq Built(n)
      BY <2>1, BuiltIs
    <2> QED BY <1>1, <1>8, <2>2 DEF Needs
  <1>9. CASE u = "misc"
    <2>1. n > 22
      BY <1>2, <1>9, BuiltIs DEF Holder
    <2>2. {"tc6", "buffers"} \subseteq Built(n)
      BY <2>1, BuiltIs
    <2> QED BY <1>1, <1>9, <2>2 DEF Needs
  <1>10. CASE u = "ptpThread"
    <2>1. n > 21
      BY <1>2, <1>10, BuiltIs DEF Holder
    <2>2. {"netdev", "ptpdev", "tc6", "buffers"} \subseteq Built(n)
      BY <2>1, BuiltIs
    <2> QED BY <1>1, <1>10, <2>2 DEF Needs
  <1>11. CASE u = "ptpClock"
    <2>1. n > 20
      BY <1>2, <1>11, BuiltIs DEF Holder
    <2>2. {"netdev", "ptpdev", "tc6", "buffers"} \subseteq Built(n)
      BY <2>1, BuiltIs
    <2>3. n = 21 \/ "ptpSet" \in there
      BY <2>1
    <2> QED BY <1>1, <1>11, <2>2, <2>3 DEF Needs
  <1> QED BY <1>3, <1>4, <1>5, <1>6, <1>7, <1>8, <1>9, <1>10, <1>11

\* Calls that stop the SPI thread before they free the netdev are in order, when
\* nobody but the thread and the interrupt handler is owed more than what the
\* driver core releases.
LEMMA StopsFirst ==
    ASSUME NEW calls \in Seq(Calls), NEW there, NEW owed,
           \A u \in Users : owed[u] \subseteq Needs(u),
           \A u \in Users : Holder(u) \in there => u \in {"spiThread", "irq"} \/ owed[u] \subseteq Managed,
           \A i \in 1 .. Len(calls) : calls[i] \notin Managed,
           "spiThread" \in there =>
             \A i \in 1 .. Len(calls) :
               calls[i] = "netdev" => \E j \in 1 .. i - 1 : calls[j] = "spiThread"
    PROVE  InOrder(owed, calls, there)
  <1> SUFFICES ASSUME NEW u \in Users, Holder(u) \in there, NEW i \in 1 .. Len(calls),
                      calls[i] \in owed[u]
               PROVE  \E j \in 1 .. i - 1 : calls[j] = Holder(u)
    BY DEF InOrder
  <1>1. calls[i] \notin Managed /\ calls[i] \in Needs(u)
    OBVIOUS
  <1>2. Needs("irq") \subseteq Managed
    BY DEF Needs, Managed
  <1>3. u = "spiThread"
    BY <1>1, <1>2
  <1>4. calls[i] = "netdev" /\ Holder(u) = "spiThread"
    BY <1>1, <1>3 DEF Needs, Managed, Holder
  <1> QED BY <1>4

\* One call of a sequence in order leaves a sequence in order, with every
\* user served.
LEMMA CallInOrder ==
    ASSUME NEW calls \in Seq(Calls), calls # <<>>, NEW there, NEW owed,
           Served(owed, there), InOrder(owed, calls, there)
    PROVE  /\ Tail(calls) \in Seq(Calls) /\ Head(calls) \in Calls
           /\ Undone(calls) = {Head(calls)} \cup Undone(Tail(calls))
           /\ Served(owed, there \ {Head(calls)})
           /\ InOrder(owed, Tail(calls), there \ {Head(calls)})
  <1>1. /\ Tail(calls) \in Seq(Calls) /\ Head(calls) = calls[1] /\ Head(calls) \in Calls
        /\ Len(calls) \in Nat \ {0} /\ Len(Tail(calls)) = Len(calls) - 1
        /\ \A i \in 1 .. Len(Tail(calls)) : Tail(calls)[i] = calls[i + 1]
    BY HeadTailProperties, LenProperties, EmptySeq
  <1> DEFINE h == Head(calls)  rest == Tail(calls)
  <1>2. /\ h = calls[1] /\ Len(calls) \in Nat \ {0} /\ Len(rest) = Len(calls) - 1
        /\ \A i \in 1 .. Len(rest) : rest[i] = calls[i + 1]
    BY <1>1
  <1> HIDE DEF h, rest
  <1>3. Undone(calls) = {h} \cup Undone(rest)
    <2>1. \A i \in 1 .. Len(calls) : i = 1 \/ (i - 1 \in 1 .. Len(rest) /\ calls[i] = rest[i - 1])
      BY <1>2
    <2>2. \A i \in 1 .. Len(rest) : i + 1 \in 1 .. Len(calls) /\ rest[i] = calls[i + 1]
      BY <1>2
    <2>3. 1 \in 1 .. Len(calls)
      BY <1>2
    <2> QED BY <1>2, <2>1, <2>2, <2>3 DEF Undone
  <1>4. \A u \in Users : Holder(u) \in there => h \notin owed[u]
    <2> SUFFICES ASSUME NEW u \in Users, Holder(u) \in there, h \in owed[u] PROVE FALSE
      OBVIOUS
    <2>1. 1 \in 1 .. Len(calls) /\ calls[1] \in owed[u]
      BY <1>2
    <2>2. \E j \in 1 .. 1 - 1 : calls[j] = Holder(u)
      BY <2>1 DEF InOrder
    <2> QED BY <2>2
  <1>5. Served(owed, there \ {h})
    BY <1>4 DEF Served
  <1>6. InOrder(owed, rest, there \ {h})
    <2> SUFFICES ASSUME NEW u \in Users, Holder(u) \in there \ {h}, NEW i \in 1 .. Len(rest),
                        rest[i] \in owed[u]
                 PROVE  \E j \in 1 .. i - 1 : rest[j] = Holder(u)
      BY DEF InOrder
    <2> DEFINE k == i + 1
    <2>1. k \in 1 .. Len(calls) /\ calls[k] \in owed[u] /\ k - 1 = i
      BY <1>2
    <2> HIDE DEF k
    <2>2. PICK j \in 1 .. k - 1 : calls[j] = Holder(u)
      BY <2>1 DEF InOrder
    <2>3. j # 1
      BY <1>2, <2>2
    <2>4. j - 1 \in 1 .. i - 1 /\ rest[j - 1] = calls[j]
      BY <1>2, <2>1, <2>2, <2>3
    <2> QED BY <2>2, <2>4
  <1> QED BY <1>1, <1>3, <1>5, <1>6 DEF h, rest

-----------------------------------------------------------------------------
(* A step that fails.                                                      *)

\* The calls of an error path stop the thread before they free the netdev, and
\* leave only what the failure leaves, the registration and device resources.
Leaves(name, calls, there) ==
  /\ calls \in Seq(Calls) /\ "registered" \notin Undone(calls)
  /\ \A i \in 1 .. Len(calls) : calls[i] \notin Managed
  /\ "spiThread" \in there =>
       \A i \in 1 .. Len(calls) :
         calls[i] = "netdev" => \E j \in 1 .. i - 1 : calls[j] = "spiThread"
  /\ there \subseteq Undone(calls) \cup Managed \cup LeftBy(name)
       \cup (IF name \in PtpSteps THEN {"registered"} ELSE {})

\* Where a failure jumps to undoes what there is, but for the device resources
\* and what LeftBy names, and stops the thread before it frees the netdev.
LEMMA FailLeaves ==
    ASSUME NEW n \in 1 .. 22, NEW there, there \ {"work"} = Built(n),
           "work" \in there => n > 17, NEW calls, calls = Undo(Probe[n].undo)
    PROVE  Leaves(Probe[n].name, calls, there)
  <1>1. \/ n = 1 \/ n \in 2 .. 7 \/ n = 8 \/ n \in 9 .. 12 \/ n = 13 \/ n \in {14, 16, 17}
        \/ n = 15 \/ n = 18 \/ n = 19 \/ n = 20 \/ n = 21 \/ n = 22
    OBVIOUS
  <1>2. CASE n = 1
    <2>1. calls = <<>> /\ Probe[n].undo = "return"
      BY <1>2, StepUndoes, UndoIs
    <2>2. calls \in Seq(Calls) /\ Len(calls) = 0 /\ 1 .. Len(calls) = {}
      BY <2>1, EmptySeq
    <2>4. "registered" \notin Undone(calls) /\ \A i \in 1 .. Len(calls) : calls[i] \notin Managed
      BY <2>2 DEF Undone
    <2>5. there \subseteq {}
      BY <1>2, BuiltIs
    <2>6. \A i \in 1 .. Len(calls) : FALSE
      BY <2>2
    <2> QED BY <2>2, <2>4, <2>5, <2>6 DEF Managed, Leaves
  <1>3. CASE n \in 2 .. 7
    <2>1. calls = <<"netdev">> /\ Probe[n].undo = "free_netdev"
      BY <1>3, StepUndoes, UndoIs
    <2>2. /\ calls \in Seq(Calls) /\ Len(calls) = 1
          /\ calls[1] = "netdev"
      BY <2>1 DEF Calls
    <2>3. \A i \in 1 .. 1 : i = 1
      OBVIOUS
    <2>4. /\ {"netdev"} \subseteq Undone(calls) /\ "registered" \notin Undone(calls)
          /\ \A i \in 1 .. Len(calls) : calls[i] \notin Managed
      BY <2>2, <2>3 DEF Undone, Managed
    <2>5. there \subseteq {"netdev", "tc6", "buffers"}
      BY <1>3, BuiltIs
    <2>6. "spiThread" \notin there
      BY <2>5
    <2> QED BY <2>2, <2>4, <2>5, <2>6 DEF Managed, Leaves
  <1>4. CASE n = 8
    <2>1. calls = <<"mdio", "netdev">> /\ Probe[n].undo = "mdiobus"
      BY <1>4, StepUndoes, UndoIs
    <2>2. /\ calls \in Seq(Calls) /\ Len(calls) = 2
          /\ calls[1] = "mdio" /\ calls[2] = "netdev"
      BY <2>1 DEF Calls
    <2>3. \A i \in 1 .. 2 : i = 1 \/ i = 2
      OBVIOUS
    <2>4. /\ {"mdio", "netdev"} \subseteq Undone(calls) /\ "registered" \notin Undone(calls)
          /\ \A i \in 1 .. Len(calls) : calls[i] \notin Managed
      BY <2>2, <2>3 DEF Undone, Managed
    <2>5. there \subseteq {"netdev", "tc6", "buffers", "mdio"}
      BY <1>4, BuiltIs
    <2>6. "spiThread" \notin there
      BY <2>5
    <2> QED BY <2>2, <2>4, <2>5, <2>6 DEF Managed, Leaves
  <1>5. CASE n \in 9 .. 12
    <2>1. calls = <<"phy", "mdio", "netdev">> /\ Probe[n].undo = "phy_exit"
      BY <1>5, StepUndoes, UndoIs
    <2>2. /\ calls \in Seq(Calls) /\ Len(calls) = 3
          /\ calls[1] = "phy" /\ calls[2] = "mdio" /\ calls[3] = "netdev"
      BY <2>1 DEF Calls
    <2>3. \A i \in 1 .. 3 : i = 1 \/ i = 2 \/ i = 3
      OBVIOUS
    <2>4. /\ {"phy", "mdio", "netdev"} \subseteq Undone(calls) /\ "registered" \notin Undone(calls)
          /\ \A i \in 1 .. Len(calls) : calls[i] \notin Managed
      BY <2>2, <2>3 DEF Undone, Managed
    <2>5. there \subseteq {"netdev", "tc6", "buffers", "mdio", "phy"}
      BY <1>5, BuiltIs
    <2>6. "spiThread" \notin there
      BY <2>5
    <2> QED BY <2>2, <2>4, <2>5, <2>6 DEF Managed, Leaves
  <1>6. CASE n = 13
    <2>1. calls = <<"spiThread", "phy", "mdio", "netdev">> /\ Probe[n].undo = "kthread_stop"
      BY <1>6, StepUndoes, UndoIs
    <2>2. /\ calls \in Seq(Calls) /\ Len(calls) = 4
          /\ calls[1] = "spiThread" /\ calls[2] = "phy" /\ calls[3] = "mdio" /\ calls[4] = "netdev"
      BY <2>1 DEF Calls
    <2>3. \A i \in 1 .. 4 : i = 1 \/ i = 2 \/ i = 3 \/ i = 4
      OBVIOUS
    <2>4. /\ {"spiThread", "phy", "mdio", "netdev"} \subseteq Undone(calls) /\ "registered" \notin Undone(calls)
          /\ \A i \in 1 .. Len(calls) : calls[i] \notin Managed
      BY <2>2, <2>3 DEF Undone, Managed
    <2>5. there \subseteq {"netdev", "tc6", "buffers", "mdio", "phy", "wq", "spiThread"}
      BY <1>6, BuiltIs
    <2>6. \A i \in 1 .. Len(calls) :
            calls[i] = "netdev" => \E j \in 1 .. i - 1 : calls[j] = "spiThread"
      <3>1. \A i \in 1 .. 4 : calls[i] = "netdev" => i = 4
        BY <2>2, <2>3
      <3>2. 1 \in 1 .. 4 - 1
        OBVIOUS
      <3> QED BY <2>2, <3>1, <3>2
    <2> QED BY <2>2, <2>4, <2>5, <2>6 DEF Managed, Leaves
  <1>7. CASE n \in {14, 16, 17}
    <2>1. calls = <<"phy", "mdio", "spiThread", "netdev">> /\ Probe[n].undo = "oa_tc6_exit"
      BY <1>7, StepUndoes, UndoIs
    <2>2. /\ calls \in Seq(Calls) /\ Len(calls) = 4
          /\ calls[1] = "phy" /\ calls[2] = "mdio" /\ calls[3] = "spiThread" /\ calls[4] = "netdev"
      BY <2>1 DEF Calls
    <2>3. \A i \in 1 .. 4 : i = 1 \/ i = 2 \/ i = 3 \/ i = 4
      OBVIOUS
    <2>4. /\ {"phy", "mdio", "spiThread", "netdev"} \subseteq Undone(calls) /\ "registered" \notin Undone(calls)
          /\ \A i \in 1 .. Len(calls) : calls[i] \notin Managed
      BY <2>2, <2>3 DEF Undone, Managed
    <2>5. there \subseteq {"netdev", "tc6", "buffers", "mdio", "phy", "wq", "spiThread", "irq"}
      BY <1>7, BuiltIs
    <2>6. \A i \in 1 .. Len(calls) :
            calls[i] = "netdev" => \E j \in 1 .. i - 1 : calls[j] = "spiThread"
      <3>1. \A i \in 1 .. 4 : calls[i] = "netdev" => i = 4
        BY <2>2, <2>3
      <3>2. 3 \in 1 .. 4 - 1
        OBVIOUS
      <3> QED BY <2>2, <3>1, <3>2
    <2> QED BY <2>2, <2>4, <2>5, <2>6 DEF Managed, Leaves
  <1>8. CASE n = 15
    <2>1. calls = <<>> /\ Probe[n].undo = "return"
      BY <1>8, StepUndoes, UndoIs
    <2>2. calls \in Seq(Calls) /\ Len(calls) = 0 /\ 1 .. Len(calls) = {}
      BY <2>1, EmptySeq
    <2>4. "registered" \notin Undone(calls) /\ \A i \in 1 .. Len(calls) : calls[i] \notin Managed
      BY <2>2 DEF Undone
    <2>5. there \subseteq {"netdev", "tc6", "buffers", "mdio", "phy", "wq", "spiThread", "irq"}
      BY <1>8, BuiltIs
    <2>6. \A i \in 1 .. Len(calls) : FALSE
      BY <2>2
    <2>7. LeftBy(Probe[n].name) = {"netdev", "mdio", "phy", "spiThread"}
      BY <1>8, StepUndoes DEF LeftBy, PtpSteps
    <2> QED BY <2>2, <2>4, <2>5, <2>6, <2>7 DEF Managed, Leaves
  <1>9. CASE n = 18
    <2>1. calls = <<"phy", "mdio", "spiThread", "netdev">> /\ Probe[n].undo = "oa_tc6_exit"
      BY <1>9, StepUndoes, UndoIs
    <2>2. /\ calls \in Seq(Calls) /\ Len(calls) = 4
          /\ calls[1] = "phy" /\ calls[2] = "mdio" /\ calls[3] = "spiThread" /\ calls[4] = "netdev"
      BY <2>1 DEF Calls
    <2>3. \A i \in 1 .. 4 : i = 1 \/ i = 2 \/ i = 3 \/ i = 4
      OBVIOUS
    <2>4. /\ {"phy", "mdio", "spiThread", "netdev"} \subseteq Undone(calls) /\ "registered" \notin Undone(calls)
          /\ \A i \in 1 .. Len(calls) : calls[i] \notin Managed
      BY <2>2, <2>3 DEF Undone, Managed
    <2>5. there \subseteq {"netdev", "tc6", "buffers", "mdio", "phy", "wq", "spiThread", "irq", "registered", "work"}
      BY <1>9, BuiltIs
    <2>6. \A i \in 1 .. Len(calls) :
            calls[i] = "netdev" => \E j \in 1 .. i - 1 : calls[j] = "spiThread"
      <3>1. \A i \in 1 .. 4 : calls[i] = "netdev" => i = 4
        BY <2>2, <2>3
      <3>2. 3 \in 1 .. 4 - 1
        OBVIOUS
      <3> QED BY <2>2, <3>1, <3>2
    <2>7. LeftBy(Probe[n].name) = {"registered", "work"}
      BY <1>9, StepUndoes DEF LeftBy, PtpSteps
    <2> QED BY <2>2, <2>4, <2>5, <2>6, <2>7 DEF Managed, Leaves
  <1>10. CASE n = 19
    <2>1. calls = <<"phy", "mdio", "spiThread", "netdev">> /\ Probe[n].undo = "oa_tc6_exit"
      BY <1>10, StepUndoes, UndoIs
    <2>2. /\ calls \in Seq(Calls) /\ Len(calls) = 4
          /\ calls[1] = "phy" /\ calls[2] = "mdio" /\ calls[3] = "spiThread" /\ calls[4] = "netdev"
      BY <2>1 DEF Calls
    <2>3. \A i \in 1 .. 4 : i = 1 \/ i = 2 \/ i = 3 \/ i = 4
      OBVIOUS
    <2>4. /\ {"phy", "mdio", "spiThread", "netdev"} \subseteq Undone(calls) /\ "registered" \notin Undone(calls)
          /\ \A i \in 1 .. Len(calls) : calls[i] \notin Managed
      BY <2>2, <2>3 DEF Undone, Managed
    <2>5. there \subseteq {"netdev", "tc6", "buffers", "mdio", "phy", "wq", "spiThread", "irq", "registered", "work"}
      BY <1>10, BuiltIs
    <2>6. \A i \in 1 .. Len(calls) :
            calls[i] = "netdev" => \E j \in 1 .. i - 1 : calls[j] = "spiThread"
      <3>1. \A i \in 1 .. 4 : calls[i] = "netdev" => i = 4
        BY <2>2, <2>3
      <3>2. 3 \in 1 .. 4 - 1
        OBVIOUS
      <3> QED BY <2>2, <3>1, <3>2
    <2>7. LeftBy(Probe[n].name) = {"work"} /\ Probe[n].name \in PtpSteps
      BY <1>10, StepUndoes DEF LeftBy, PtpSteps
    <2> QED BY <2>2, <2>4, <2>5, <2>6, <2>7 DEF Managed, Leaves
  <1>11. CASE n = 20
    <2>1. calls = <<"ptpdev", "phy", "mdio", "spiThread", "netdev">> /\ Probe[n].undo = "ptpdev"
      BY <1>11, StepUndoes, UndoIs
    <2>2. /\ calls \in Seq(Calls) /\ Len(calls) = 5
          /\ calls[1] = "ptpdev" /\ calls[2] = "phy" /\ calls[3] = "mdio" /\ calls[4] = "spiThread" /\ calls[5] = "netdev"
      BY <2>1 DEF Calls
    <2>3. \A i \in 1 .. 5 : i = 1 \/ i = 2 \/ i = 3 \/ i = 4 \/ i = 5
      OBVIOUS
    <2>4. /\ {"ptpdev", "phy", "mdio", "spiThread", "netdev"} \subseteq Undone(calls) /\ "registered" \notin Undone(calls)
          /\ \A i \in 1 .. Len(calls) : calls[i] \notin Managed
      BY <2>2, <2>3 DEF Undone, Managed
    <2>5. there \subseteq {"netdev", "tc6", "buffers", "mdio", "phy", "wq", "spiThread", "irq", "registered", "work", "ptpdev"}
      BY <1>11, BuiltIs
    <2>6. \A i \in 1 .. Len(calls) :
            calls[i] = "netdev" => \E j \in 1 .. i - 1 : calls[j] = "spiThread"
      <3>1. \A i \in 1 .. 5 : calls[i] = "netdev" => i = 5
        BY <2>2, <2>3
      <3>2. 4 \in 1 .. 5 - 1
        OBVIOUS
      <3> QED BY <2>2, <3>1, <3>2
    <2>7. LeftBy(Probe[n].name) = {"work"} /\ Probe[n].name \in PtpSteps
      BY <1>11, StepUndoes DEF LeftBy, PtpSteps
    <2> QED BY <2>2, <2>4, <2>5, <2>6, <2>7 DEF Managed, Leaves
  <1>12. CASE n = 21
    <2>1. calls = <<"ptpdev", "phy", "mdio", "spiThread", "netdev">> /\ Probe[n].undo = "ptpdev"
      BY <1>12, StepUndoes, UndoIs
    <2>2. /\ calls \in Seq(Calls) /\ Len(calls) = 5
          /\ calls[1] = "ptpdev" /\ calls[2] = "phy" /\ calls[3] = "mdio" /\ calls[4] = "spiThread" /\ calls[5] = "netdev"
      BY <2>1 DEF Calls
    <2>3. \A i \in 1 .. 5 : i = 1 \/ i = 2 \/ i = 3 \/ i = 4 \/ i = 5
      OBVIOUS
    <2>4. /\ {"ptpdev", "phy", "mdio", "spiThread", "netdev"} \subseteq Undone(calls) /\ "registered" \notin Undone(calls)
          /\ \A i \in 1 .. Len(calls) : calls[i] \notin Managed
      BY <2>2, <2>3 DEF Undone, Managed
    <2>5. there \subseteq {"netdev", "tc6", "buffers", "mdio", "phy", "wq", "spiThread", "irq", "registered", "work", "ptpdev", "ptpClock"}
      BY <1>12, BuiltIs
    <2>6. \A i \in 1 .. Len(calls) :
            calls[i] = "netdev" => \E j \in 1 .. i - 1 : calls[j] = "spiThread"
      <3>1. \A i \in 1 .. 5 : calls[i] = "netdev" => i = 5
        BY <2>2, <2>3
      <3>2. 4 \in 1 .. 5 - 1
        OBVIOUS
      <3> QED BY <2>2, <3>1, <3>2
    <2>7. LeftBy(Probe[n].name) = {"ptpClock", "work"} /\ Probe[n].name \in PtpSteps
      BY <1>12, StepUndoes DEF LeftBy, PtpSteps
    <2> QED BY <2>2, <2>4, <2>5, <2>6, <2>7 DEF Managed, Leaves
  <1>13. CASE n = 22
    <2>1. calls = <<>> /\ Probe[n].undo = "return"
      BY <1>13, StepUndoes, UndoIs
    <2>2. calls \in Seq(Calls) /\ Len(calls) = 0 /\ 1 .. Len(calls) = {}
      BY <2>1, EmptySeq
    <2>4. "registered" \notin Undone(calls) /\ \A i \in 1 .. Len(calls) : calls[i] \notin Managed
      BY <2>2 DEF Undone
    <2>5. there \subseteq {"netdev", "tc6", "buffers", "mdio", "phy", "wq", "spiThread", "irq", "registered", "work", "ptpdev", "ptpClock", "ptpThread"}
      BY <1>13, BuiltIs
    <2>6. \A i \in 1 .. Len(calls) : FALSE
      BY <2>2
    <2>7. LeftBy(Probe[n].name) = {"netdev", "mdio", "phy", "spiThread", "registered",
                                   "ptpdev", "ptpClock", "ptpThread", "work"}
      BY <1>13, StepUndoes DEF LeftBy, PtpSteps
    <2> QED BY <2>2, <2>4, <2>5, <2>6, <2>7 DEF Managed, Leaves
  <1> QED BY <1>1, <1>2, <1>3, <1>4, <1>5, <1>6, <1>7, <1>8, <1>9, <1>10, <1>11, <1>12, <1>13

-----------------------------------------------------------------------------
(* The steps.                                                              *)

\* Past the last step of ptp_device_init what it sets is there.
LEMMA PtpSetThere ==
    ASSUME NEW n \in 1 .. 23, n > 21
    PROVE  \E i \in 1 .. n - 1 : Probe[i].name = "ptp_thread"
  <1>1. 21 \in 1 .. n - 1 /\ Probe[21].name = "ptp_thread"
    BY StepUndoes
  <1> QED BY <1>1

LEMMA LifeInit == Init => LifeInv
  <1> SUFFICES ASSUME Init PROVE LifeInv
    OBVIOUS
  <1>1. /\ state = "probing" /\ next = 1 /\ todo = <<>> /\ failedAt = "none"
        /\ live = {} /\ Len(<<>>) = 0
    BY EmptySeq DEF Init
  <1>2. Built(1) = {}
    <2>1. 1 .. 1 - 1 = {}
      OBVIOUS
    <2> QED BY <2>1 DEF Built
  <1>3. ConfInv /\ BuildInv /\ StepInv
    BY <1>1, <1>2 DEF ConfInv, BuildInv, StepInv
  <1>4. There \cap {Holder(u) : u \in Users} = {}
    BY <1>1 DEF There, Users, Holder
  <1>5. TeardownInv
    BY <1>1, <1>4, EmptySeq DEF TeardownInv, Served, InOrder, Undone
  <1> QED BY <1>1, <1>3, <1>5 DEF LifeInv, States

\* A step of probe that succeeds.
LEMMA LifeDo ==
    ASSUME LifeInv, Do
    PROVE  LifeInv'
  <1>1. PICK n \in 1 .. 22 :
           /\ n = next /\ state = "probing" /\ failedAt = "none" /\ todo = <<>>
           /\ live \ {"work"} = Built(n) /\ ("work" \in live => n > 17)
    <2>1. /\ next \in 1 .. 23 /\ next < 23 /\ state = "probing" /\ failedAt = "none"
          /\ todo = <<>> /\ live \ {"work"} = Built(next)
          /\ "work" \in live => next > 17
      BY DEF Do, LifeInv, BuildInv
    <2>2. next \in 1 .. 22
      BY <2>1
    <2> QED BY <2>1, <2>2
  <1>2. /\ live' = live \cup Probe[n].adds /\ next' = n + 1
        /\ state' = (IF n = 22 THEN "bound" ELSE "probing")
        /\ UNCHANGED <<todo, failedAt>>
        /\ \E lost : conf' = Configured(Probe[n], lost)
    BY <1>1, ProbeIs DEF Do
  <1>3. next' \in 1 .. 23 /\ (n # 22 => next' < 23) /\ (n = 22 => next' = 23)
    BY <1>2
  <1>4. /\ live' \ {"work"} = Built(next')
        /\ "work" \in live' => next' > 17
    <2>1. "work" \notin Probe[n].adds
      BY AddedBy
    <2>2. Built(next') = Built(n) \cup Probe[n].adds
      BY <1>2, BuiltNext
    <2>3. live' \ {"work"} = Built(next')
      BY <1>1, <1>2, <2>1, <2>2
    <2>4. n > 17 => next' > 17
      BY <1>2
    <2> QED BY <1>1, <1>2, <2>1, <2>3, <2>4
  <1>5. BuildInv' /\ StepInv'
    <2>1. "spiThread" \in live' => next' > 12
      BY <1>3, <1>4, BuiltIs
    <2> QED BY <1>1, <1>2, <1>3, <1>4, <2>1 DEF BuildInv, StepInv
  <1>6. ConfInv'
    <2>1. CASE n = 4
      <3>1. conf' = Probe[4].checked
        BY <1>2, <2>1, StepWrites DEF Configured
      <3> QED BY <1>2, <2>1, <3>1, StepWrites DEF ConfInv
    <2>2. CASE n # 4
      <3>1. conf \subseteq conf' /\ Probe[n].checked \subseteq conf'
        BY <1>2, <2>2, StepWrites DEF Configured
      <3>2. \A k \in 1 .. 22 : next' > k => next > k \/ n = k
        BY <1>1, <1>2
      <3>3. \A k \in 1 .. 22 : \A c : (next > k => c \in conf) /\ c \in Probe[k].checked
                                 => (next' > k => c \in conf')
        BY <3>1, <3>2
      <3>4. /\ 4 \in 1 .. 22 /\ 9 \in 1 .. 22 /\ 10 \in 1 .. 22 /\ 14 \in 1 .. 22
            /\ 16 \in 1 .. 22 /\ 18 \in 1 .. 22
        OBVIOUS
      <3>5. ConfInv
        BY DEF LifeInv
      <3> QED BY <3>3, <3>4, <3>5, StepWrites DEF ConfInv
    <2> QED BY <2>1, <2>2
  <1>7. TeardownInv'
    <2>1. Served(Owed, There)'
      <3> DEFINE there == There'  owed == OwedAt("none", state')
                 m == n + 1
      <3>1. m \in 1 .. 23 /\ next' = m
        BY <1>2
      <3>2. /\ there \ {"work", "ptpSet"} = Built(m)
            /\ "work" \in there => m > 17
        <4>1. Built(m) \cap {"work", "ptpSet"} = {}
          BY <3>1, BuiltIs
        <4> QED BY <1>2, <1>4, <3>1, <4>1 DEF There
      <3>3. m > 21 => "ptpSet" \in there
        BY <3>1, PtpSetThere DEF There, Done
      <3>4. \A u \in Users : owed[u] \subseteq Needs(u)
        BY OwedIs
      <3>5. m \in 18 .. 21 => owed["ts_info"] \subseteq {"netdev"} /\ "ptpSet" \notin owed["ptpClock"]
        <4>1. m \in 18 .. 21 => state' = "probing"
          BY <1>2
        <4> QED BY <4>1, OwedIs
      <3>6. m = 21 => m \in 18 .. 21
        OBVIOUS
      <3> HIDE DEF there, owed, m
      <3>7. Served(owed, there)
        BY <3>1, <3>2, <3>3, <3>4, <3>5, <3>6, BuiltServed
      <3>8. owed = Owed' /\ there = There'
        BY <1>1, <1>2 DEF owed, there, Owed
      <3> QED BY <3>7, <3>8 DEF Served
    <2>2. todo' = <<>> /\ Len(<<>>) = 0 /\ failedAt' = "none" /\ 1 .. 0 = {}
      BY <1>1, <1>2, EmptySeq
    <2> QED BY <1>2, <2>1, <2>2, EmptySeq DEF TeardownInv, InOrder, Undone
  <1> QED BY <1>2, <1>5, <1>6, <1>7 DEF LifeInv, States

\* A step of probe that fails.
LEMMA LifeFail ==
    ASSUME LifeInv, Fail
    PROVE  LifeInv'
  <1>1. PICK n \in 1 .. 22 :
           /\ n = next /\ live \ {"work"} = Built(n) /\ ("work" \in live => n > 17)
           /\ todo' = Undo(Probe[n].undo) /\ failedAt' = Probe[n].name
           /\ state' = "undoing" /\ UNCHANGED <<next, live, conf>>
    <2>1. /\ next \in 1 .. 23 /\ next < 23
          /\ live \ {"work"} = Built(next)
          /\ "work" \in live => next > 17
      BY DEF Fail, LifeInv, BuildInv
    <2>2. next \in 1 .. 22
      BY <2>1
    <2> QED BY <2>1, <2>2 DEF Fail
  <1> DEFINE owed == OwedAt(Probe[n].name, "undoing")  there == There'  calls == todo'
  <1>2. /\ n \in 1 .. 17 /\ n # 15 => Probe[n].name \notin NotUndone \cup {"none"}
        /\ n = 15 => Probe[n].name = "nodeid_gpios"
        /\ n = 18 => Probe[n].name = "set_nodeid"
        /\ n \in 19 .. 21 => Probe[n].name \in PtpSteps
        /\ n = 22 => Probe[n].name = "misc_register"
    <2>1. n \in 19 .. 21 => n = 19 \/ n = 20 \/ n = 21
      OBVIOUS
    <2> QED BY <2>1, StepUndoes DEF PtpSteps
  <1>3. n \in 1 .. 17 \/ n = 18 \/ n \in 19 .. 21 \/ n = 22
    OBVIOUS
  <1>4. Probe[n].name # "none" /\ (Probe[n].name = "misc_register" => n = 22)
    <2>1. "misc_register" \in NotUndone /\ "misc_register" \notin PtpSteps /\ "none" \notin PtpSteps
      BY DEF NotUndone, PtpSteps
    <2> QED BY <1>2, <1>3, <2>1
  <1>5. ConfInv' /\ BuildInv' /\ StepInv'
    BY <1>1, <1>4 DEF LifeInv, ConfInv, BuildInv, StepInv
  <1>6. /\ there \ {"work", "ptpSet"} = Built(n)
        /\ "work" \in there => n > 17
        /\ n > 21 => "ptpSet" \in there
        /\ there \subseteq live \cup {"ptpSet"}
    <2>1. Built(n) \cap {"work", "ptpSet"} = {} /\ n \in 1 .. 23
      BY BuiltIs
    <2>2. n > 21 => Done("ptp_thread")'
      BY <1>1, <2>1, PtpSetThere DEF Done
    <2>3. There' = live \cup IF Done("ptp_thread")' THEN {"ptpSet"} ELSE {}
      BY <1>1 DEF There
    <2> QED BY <1>1, <2>1, <2>2, <2>3
  <1>7. \A u \in Users : owed[u] \subseteq Needs(u)
    BY OwedIs
  <1>8. /\ n \in 18 .. 21 => owed["ts_info"] = {} /\ owed["work"] = {}
        /\ n \in 18 .. 21 => owed["registered"] \subseteq Managed
        /\ n \in 19 .. 21 => owed["ptpClock"] = {}
    <2>1. n \in 18 .. 21 => n = 18 \/ n \in 19 .. 21
      OBVIOUS
    <2> QED BY <1>2, <2>1, OwedIs
  <1>9. owed = Owed' /\ there = There' /\ calls = todo'
    BY <1>1 DEF Owed
  <1>10. calls = Undo(Probe[n].undo)
    BY <1>1
  <1> HIDE DEF owed, there, calls
  <1>11. Served(Owed, There)'
    <2>1. n \in 1 .. 23 /\ (n = 21 => "ptpSet" \notin owed["ptpClock"])
      BY <1>8
    <2>2. n \in 18 .. 21 => owed["ts_info"] \subseteq {"netdev"}
      BY <1>8
    <2>3. Served(owed, there)
      BY <1>6, <1>7, <2>1, <2>2, BuiltServed
    <2> QED BY <1>9, <2>3 DEF Served
  <1>12. /\ calls \in Seq(Calls) /\ "registered" \notin Undone(calls)
         /\ \A i \in 1 .. Len(calls) : calls[i] \notin Managed
         /\ "spiThread" \in live =>
              \A i \in 1 .. Len(calls) :
                calls[i] = "netdev" => \E j \in 1 .. i - 1 : calls[j] = "spiThread"
         /\ live \subseteq Undone(calls) \cup Managed \cup LeftBy(Probe[n].name)
              \cup (IF Probe[n].name \in PtpSteps THEN {"registered"} ELSE {})
    <2>1. PICK here, todos : here = live /\ todos = calls
      OBVIOUS
    <2>2. here \ {"work"} = Built(n) /\ ("work" \in here => n > 17) /\ todos = Undo(Probe[n].undo)
      BY <1>1, <1>10, <2>1
    <2>3. Leaves(Probe[n].name, todos, here)
      BY <2>2, FailLeaves
    <2> QED BY <2>1, <2>3 DEF Leaves
  <1>13. InOrder(Owed, todo, There)'
    <2>1. CASE n = 15 \/ n = 22
      <3>1. calls = <<>>
        BY <1>10, <2>1, StepUndoes, UndoIs
      <3>2. 1 .. Len(calls) = {}
        BY <3>1, EmptySeq
      <3> QED BY <1>9, <3>2 DEF InOrder
    <2>2. CASE n # 15 /\ n # 22
      <3>1. ASSUME NEW u \in Users, Holder(u) \in there
            PROVE  u \in {"spiThread", "irq"} \/ owed[u] \subseteq Managed
        <4>1. u # "work" => Holder(u) \in Built(n)
          BY <1>6, <3>1 DEF Users, Holder
        <4>2. \/ u = "spiThread" \/ u = "irq" \/ u = "registered" \/ u = "ts_info"
              \/ u = "work" \/ u = "misc" \/ u = "ptpThread" \/ u = "ptpClock"
          BY DEF Users
        <4>3. u # "misc" /\ u # "ptpThread"
          <5>1. n \in 1 .. 23 /\ ~(n > 21)
            BY <2>2
          <5>2. "misc" \notin Built(n) /\ "ptpThread" \notin Built(n)
            BY <5>1, BuiltIs
          <5> QED BY <4>1, <5>2 DEF Holder
        <4>4. u \in {"registered", "ts_info", "work"} => n \in 18 .. 21
          <5>1. u \in {"registered", "ts_info"} => n > 17
            <6>1. "registered" \in Built(n) => n > 17
              BY BuiltIs
            <6> QED BY <4>1, <6>1 DEF Holder
          <5>2. u = "work" => n > 17
            BY <1>6, <3>1 DEF Holder
          <5> QED BY <2>2, <5>1, <5>2
        <4>5. u = "ptpClock" => n \in 19 .. 21
          <5>1. "ptpClock" \in Built(n) => n > 20
            BY BuiltIs
          <5> QED BY <2>2, <4>1, <5>1 DEF Holder
        <4> QED BY <1>8, <4>2, <4>3, <4>4, <4>5
      <3>2. "spiThread" \in there => "spiThread" \in live
        BY <1>6
      <3>3. InOrder(owed, calls, there)
        BY <1>7, <1>12, <3>1, <3>2, StopsFirst
      <3> QED BY <1>9, <3>3 DEF InOrder
    <2> QED BY <2>1, <2>2
  <1>14. failedAt' \notin NotUndone \cup {"none"} => "registered" \notin live'
    <2>1. ASSUME failedAt' \notin NotUndone \cup {"none"} PROVE ~(n > 17)
      <3>1. {"set_nodeid", "misc_register"} \cup PtpSteps \subseteq NotUndone
        BY DEF NotUndone
      <3>2. n # 18 /\ n \notin 19 .. 21 /\ n # 22
        BY <1>1, <1>2, <2>1, <3>1
      <3> QED BY <1>3, <3>2
    <2>2. n \in 1 .. 23
      OBVIOUS
    <2> QED BY <1>1, <2>1, <2>2, BuiltIs
  <1>15. live' \subseteq (Undone(todo) \cup Remains)'
    <2>1. Remains' = LeftBy(Probe[n].name)
            \cup (IF Probe[n].name \in PtpSteps THEN {"registered"} ELSE {}) \cup Managed
      BY <1>1 DEF Remains
    <2>2. Undone(todo)' = Undone(calls)
      BY <1>9 DEF Undone
    <2> QED BY <1>1, <1>12, <2>1, <2>2
  <1>16. todo' \in Seq(Calls) /\ "registered" \notin Undone(todo)'
    BY <1>9, <1>12 DEF Undone
  <1>17. TeardownInv'
    BY <1>1, <1>4, <1>11, <1>13, <1>14, <1>15, <1>16 DEF TeardownInv
  <1> QED BY <1>1, <1>5, <1>17 DEF LifeInv, States

\* One call of an error path, of remove, or of the release of the device
\* resources.
LEMMA LifeUndo ==
    ASSUME LifeInv, todo # <<>>,
           state \in {"undoing", "removing", "releasing"},
           live' = live \ {Head(todo)}, todo' = Tail(todo),
           UNCHANGED <<state, next, failedAt, conf>>
    PROVE  LifeInv'
  <1>1. ConfInv' /\ BuildInv' /\ StepInv'
    BY DEF LifeInv, ConfInv, BuildInv, StepInv
  <1>2. TeardownInv
    BY DEF LifeInv
  <1>3. PICK calls, there, owed :
           /\ calls = todo /\ there = There /\ owed = Owed
           /\ calls \in Seq(Calls) /\ calls # <<>>
    BY <1>2 DEF TeardownInv
  <1>4. Served(owed, there) /\ InOrder(owed, calls, there)
    BY <1>2, <1>3 DEF TeardownInv
  <1>5. /\ Tail(calls) \in Seq(Calls) /\ Head(calls) \in Calls
        /\ Undone(calls) = {Head(calls)} \cup Undone(Tail(calls))
        /\ Served(owed, there \ {Head(calls)})
        /\ InOrder(owed, Tail(calls), there \ {Head(calls)})
    BY <1>3, <1>4, CallInOrder
  <1>6. There' = there \ {Head(calls)}
    <2>1. Head(calls) # "ptpSet" /\ (Done("ptp_thread")' <=> Done("ptp_thread"))
      BY <1>5 DEF Calls, Managed, Done
    <2> QED BY <1>3, <2>1 DEF There
  <1>7. Owed' = owed /\ Remains' = Remains
    BY <1>3 DEF Owed, Remains
  <1>8. Served(Owed, There)' /\ InOrder(Owed, todo, There)'
    <2>1. todo' = Tail(calls)
      BY <1>3
    <2> QED BY <1>5, <1>6, <1>7, <2>1 DEF Served, InOrder
  <1>9. /\ Undone(todo)' = Undone(Tail(calls)) /\ Undone(todo) = Undone(calls)
        /\ Head(todo) = Head(calls)
    BY <1>3 DEF Undone
  <1>10. live \subseteq Undone(todo) \cup Remains => live' \subseteq Undone(todo)' \cup Remains
    BY <1>5, <1>9
  <1>11. /\ "registered" \in Undone(todo)' => "registered" \in Undone(todo)
         /\ "registered" \in live' => "registered" \in live
    BY <1>5, <1>9
  <1>12. TeardownInv'
    <2>1. todo' \in Seq(Calls)
      BY <1>3, <1>5
    <2> QED BY <1>2, <1>7, <1>8, <1>10, <1>11, <2>1 DEF TeardownInv
  <1> QED BY <1>1, <1>12 DEF LifeInv, States

\* All calls made, the device is taken for bound or its resources are released.
LEMMA LifeUndoDone ==
    ASSUME LifeInv, UndoDone
    PROVE  LifeInv'
  <1>1. /\ state \in {"undoing", "removing"} /\ todo = <<>>
        /\ UNCHANGED <<next, failedAt, live, conf>>
        /\ \/ failedAt \in PtpSteps /\ state = "undoing" /\ state' = "bound" /\ todo' = todo
           \/ /\ ~(failedAt \in PtpSteps /\ state = "undoing")
              /\ state' = "releasing" /\ todo' = Devres
    BY DEF UndoDone
  <1>2. TeardownInv /\ "none" \notin PtpSteps
    BY DEF LifeInv, PtpSteps
  <1>3. ConfInv' /\ BuildInv' /\ StepInv'
    BY <1>1, <1>2 DEF LifeInv, ConfInv, BuildInv, StepInv
  <1>4. Owed' = Owed /\ There' = There
    <2>1. failedAt # "none" \/ state = "removing"
      BY <1>1, <1>2 DEF TeardownInv
    <2>2. failedAt # "none" \/ {state, state'} \subseteq {"removing", "releasing", "gone"}
      BY <1>1, <1>2, <2>1
    <2>3. OwedAt(failedAt, state') = OwedAt(failedAt, state)
      BY <2>2, OwedStays
    <2> QED BY <1>1, <2>3 DEF Owed, There, Done
  <1>5. live \subseteq Remains /\ Undone(todo) = {}
    <2>1. Undone(todo) = {}
      BY <1>1, EmptySeq DEF Undone
    <2> QED BY <1>1, <1>2, <2>1 DEF TeardownInv
  <1>6. CASE failedAt \in PtpSteps /\ state = "undoing" /\ state' = "bound" /\ todo' = todo
    <2>1. Remains' = Remains /\ Undone(todo)' = Undone(todo) /\ todo' = <<>>
      BY <1>1, <1>6 DEF Remains, Undone
    <2>2. TeardownInv'
      BY <1>1, <1>2, <1>4, <1>5, <1>6, <2>1 DEF TeardownInv, Served, InOrder
    <2> QED BY <1>3, <1>6, <2>2 DEF LifeInv, States
  <1>7. CASE /\ ~(failedAt \in PtpSteps /\ state = "undoing")
             /\ state' = "releasing" /\ todo' = Devres
    <2>1. live \subseteq LeftBy(failedAt) \cup Managed /\ Remains' = LeftBy(failedAt)
      BY <1>1, <1>5, <1>7 DEF Remains
    <2>2. /\ todo' \in Seq(Calls) /\ Len(todo') = 4 /\ todo'[1] = "irq"
          /\ todo'[2] = "buffers" /\ todo'[3] = "wq" /\ todo'[4] = "tc6"
      BY <1>7 DEF Devres, Calls, Managed
    <2>3. Managed \subseteq Undone(todo)' /\ "registered" \notin Undone(todo)'
      <3>1. \A i \in 1 .. 4 : i = 1 \/ i = 2 \/ i = 3 \/ i = 4
        OBVIOUS
      <3> QED BY <2>2, <3>1 DEF Managed, Undone
    <2>4. ASSUME NEW u \in Users, Holder(u) \in There
          PROVE  u = "irq" \/ Owed[u] \cap Managed = {}
      <3>1. Holder(u) \in live
        BY <2>4 DEF There, Users, Holder
      <3>2. CASE failedAt = "none"
        <4>1. state = "removing" /\ LeftBy(failedAt) = {"ptpdev", "ptpClock", "ptpThread", "work"}
          BY <1>1, <1>2, <3>2 DEF TeardownInv, LeftBy
        <4>2. u \in {"irq", "ptpClock", "ptpThread", "work"}
          BY <2>1, <3>1, <4>1 DEF Users, Holder, Managed
        <4>3. /\ Owed["work"] = {} /\ Owed["ptpThread"] \subseteq {"ptpdev"}
              /\ Owed["ptpClock"] \subseteq {"ptpdev", "ptpSet"}
          BY <3>2, <4>1, OwedIs DEF Owed
        <4> QED BY <4>2, <4>3 DEF Managed
      <3>3. CASE failedAt \in {"nodeid_gpios", "misc_register"}
        BY <3>3, OwedIs DEF Owed
      <3>4. CASE failedAt = "set_nodeid"
        <4>1. LeftBy(failedAt) = {"registered", "work"}
          BY <3>4 DEF LeftBy, PtpSteps
        <4>2. u \in {"irq", "registered", "ts_info", "work"}
          BY <2>1, <3>1, <4>1 DEF Users, Holder, Managed
        <4>3. \A v \in {"registered", "ts_info", "work"} : Owed[v] = {}
          BY <3>4, OwedIs DEF Owed
        <4> QED BY <4>2, <4>3
      <3>5. CASE failedAt \in PtpSteps
        <4>1. LeftBy(failedAt) \subseteq {"ptpClock", "work"}
          BY <3>5 DEF LeftBy, PtpSteps
        <4>2. u \in {"irq", "ptpClock", "work"}
          BY <2>1, <3>1, <4>1 DEF Users, Holder, Managed
        <4>3. \A v \in {"work", "ptpClock"} : Owed[v] = {}
          BY <3>5, OwedIs DEF Owed
        <4> QED BY <4>2, <4>3
      <3>6. CASE failedAt \notin NotUndone \cup {"none"}
        <4>1. LeftBy(failedAt) = {}
          BY <3>6 DEF LeftBy, NotUndone, PtpSteps
        <4>2. u = "irq"
          BY <2>1, <3>1, <4>1 DEF Users, Holder, Managed
        <4> QED BY <4>2
      <3> QED BY <3>2, <3>3, <3>4, <3>5, <3>6 DEF NotUndone
    <2>5. InOrder(Owed, todo, There)'
      <3>1. \A i \in 1 .. 4 : /\ todo'[i] \in Managed
                              /\ todo'[i] \in Needs("irq") => 1 \in 1 .. i - 1
        <4>1. \A i \in 1 .. 4 : i = 1 \/ (1 \in 1 .. i - 1 /\ (i = 2 \/ i = 3 \/ i = 4))
          OBVIOUS
        <4> QED BY <2>2, <4>1 DEF Needs, Managed
      <3>2. Owed["irq"] \subseteq Needs("irq") /\ Holder("irq") = "irq"
        <4>1. "irq" \in Users
          BY DEF Users
        <4> QED BY <4>1, OwedIs DEF Owed, Holder
      <3>3. ASSUME NEW u \in Users, Holder(u) \in There, NEW i \in 1 .. Len(todo'),
                   todo'[i] \in Owed[u]
            PROVE  \E j \in 1 .. i - 1 : todo'[j] = Holder(u)
        <4>1. i \in 1 .. 4 /\ todo'[i] \in Managed
          BY <2>2, <3>1, <3>3
        <4>2. u = "irq"
          BY <2>4, <3>3, <4>1
        <4> QED BY <2>2, <3>1, <3>2, <3>3, <4>1, <4>2
      <3> QED BY <1>4, <3>3 DEF InOrder
    <2>6. Served(Owed, There)'
      BY <1>2, <1>4 DEF TeardownInv, Served
    <2>7. live' \subseteq (Undone(todo) \cup Remains)'
      BY <1>1, <2>1, <2>3
    <2>8. TeardownInv'
      BY <1>1, <1>2, <1>7, <2>2, <2>3, <2>5, <2>6, <2>7 DEF TeardownInv
    <2> QED BY <1>3, <1>7, <2>8 DEF LifeInv, States
  <1> QED BY <1>1, <1>6, <1>7

\* The last device resource is released.
LEMMA LifeGone ==
    ASSUME LifeInv, Release, todo = <<>>
    PROVE  LifeInv'
  <1>1. /\ state = "releasing" /\ state' = "gone"
        /\ UNCHANGED <<next, failedAt, live, conf, todo>>
    BY DEF Release
  <1>2. ConfInv' /\ BuildInv' /\ StepInv' /\ TeardownInv
    BY <1>1 DEF LifeInv, ConfInv, BuildInv, StepInv
  <1>3. Owed' = Owed /\ There' = There /\ Remains' = Remains /\ Undone(todo)' = Undone(todo)
    <2>1. OwedAt(failedAt, "gone") = OwedAt(failedAt, "releasing")
      BY OwedStays
    <2> QED BY <1>1, <2>1 DEF Owed, There, Done, Remains, Undone
  <1>4. TeardownInv'
    <2>1. "registered" \notin Undone(todo)
      BY <1>1, <1>2 DEF TeardownInv
    <2> QED BY <1>1, <1>2, <1>3, <2>1 DEF TeardownInv, Served, InOrder
  <1> QED BY <1>1, <1>2, <1>4 DEF LifeInv, States

\* The driver is unbound: what lan865x_remove undoes is in order.
LEMMA LifeUnbind ==
    ASSUME LifeInv, Unbind
    PROVE  LifeInv'
  <1>1. /\ state = "bound" /\ state' = "removing" /\ todo' = Removal
        /\ UNCHANGED <<next, failedAt, live, conf>>
    BY DEF Unbind
  <1>2. TeardownInv /\ failedAt \in {"none"} \cup PtpSteps /\ todo = <<>> /\ "none" \notin PtpSteps
    BY <1>1 DEF LifeInv, TeardownInv, PtpSteps
  <1>3. ConfInv' /\ BuildInv' /\ StepInv'
    BY <1>1 DEF LifeInv, ConfInv, BuildInv, StepInv
  <1>4. PICK calls :
          /\ calls = todo' /\ calls \in Seq(Calls) /\ Len(calls) = 7
          /\ calls[1] = "work" /\ calls[2] = "registered" /\ calls[3] = "phy"
          /\ calls[4] = "mdio" /\ calls[5] = "spiThread" /\ calls[6] = "netdev"
          /\ calls[7] = "misc"
    <2>1. todo' = <<"work", "registered", "phy", "mdio", "spiThread", "netdev", "misc">>
      BY <1>1, UndoIs
    <2> DEFINE t == <<"work", "registered", "phy", "mdio", "spiThread", "netdev", "misc">>
    <2>2. /\ t \in Seq(Calls) /\ Len(t) = 7
          /\ t[1] = "work" /\ t[2] = "registered" /\ t[3] = "phy"
          /\ t[4] = "mdio" /\ t[5] = "spiThread" /\ t[6] = "netdev" /\ t[7] = "misc"
      BY DEF Calls
    <2>3. todo' = t
      BY <2>1
    <2> HIDE DEF t
    <2> QED BY <2>2, <2>3
  <1>5. \A i \in 1 .. 7 : i = 1 \/ i = 2 \/ i = 3 \/ i = 4 \/ i = 5 \/ i = 6 \/ i = 7
    OBVIOUS
  <1>6. /\ {"work", "registered", "phy", "mdio", "spiThread", "netdev", "misc"}
             \subseteq Undone(calls)
        /\ Undone(todo)' = Undone(calls)
    BY <1>4 DEF Undone
  <1>7. Remains' = LeftBy(failedAt) \cup Managed /\ There' = There
    BY <1>1 DEF Remains, There, Done
  <1>8. CASE failedAt = "none"
    <2>1. live \ {"work"} = Built(23) /\ next = 23
      BY <1>1, <1>8 DEF LifeInv, BuildInv
    <2>2. live \subseteq Undone(calls) \cup Managed \cup LeftBy(failedAt)
      <3>1. 23 \in 1 .. 23
        OBVIOUS
      <3>2. Built(23) \subseteq {"netdev", "tc6", "buffers", "mdio", "phy", "wq",
               "spiThread", "irq", "registered", "ptpdev", "ptpClock", "ptpThread", "misc"}
        BY <3>1, BuiltIs
      <3>3. LeftBy(failedAt) = {"ptpdev", "ptpClock", "ptpThread", "work"}
        BY <1>8 DEF LeftBy
      <3> QED BY <1>6, <2>1, <3>2, <3>3 DEF Managed
    <2> DEFINE owed == OwedAt("none", "removing")  there == There
    <2>3. Owed' = owed
      BY <1>1, <1>8 DEF Owed
    <2>4. Served(Owed, There)'
      <3>1. there \ {"work", "ptpSet"} = Built(23) /\ "ptpSet" \in there
        <4>1. Built(23) \cap {"work", "ptpSet"} = {}
          BY BuiltIs
        <4>2. Done("ptp_thread")
          BY <2>1, PtpSetThere DEF Done
        <4> QED BY <2>1, <4>1, <4>2 DEF There
      <3>2. \A u \in Users : owed[u] \subseteq Needs(u)
        BY OwedIs
      <3> HIDE DEF owed, there
      <3>3. Served(owed, there)
        BY <3>1, <3>2, BuiltServed
      <3> QED BY <1>7, <2>3, <3>3 DEF Served, there
    <2>5. InOrder(Owed, todo, There)'
      <3>1. /\ owed["work"] = {} /\ owed["ptpThread"] \subseteq {"ptpdev"}
            /\ owed["ptpClock"] \subseteq {"ptpdev", "ptpSet"}
            /\ \A u \in Users : owed[u] \subseteq Needs(u)
        BY OwedIs
      <3> HIDE DEF owed
      <3>2. ASSUME NEW u \in Users, NEW i \in 1 .. Len(calls), calls[i] \in owed[u]
            PROVE  \/ u = "spiThread" /\ i = 6
                   \/ u \in {"registered", "ts_info"} /\ (i = 3 \/ i = 6)
        <4>1. \/ u = "spiThread" \/ u = "irq" \/ u = "registered" \/ u = "ts_info"
              \/ u = "work" \/ u = "misc" \/ u = "ptpThread" \/ u = "ptpClock"
          BY DEF Users
        <4>2. /\ owed["spiThread"] \subseteq Needs("spiThread") /\ owed["irq"] \subseteq Needs("irq")
              /\ owed["registered"] \subseteq Needs("registered") /\ owed["misc"] \subseteq Needs("misc")
              /\ owed["ts_info"] \subseteq Needs("ts_info")
          BY <3>1 DEF Users
        <4>3. u \notin {"work", "ptpThread", "ptpClock", "irq", "misc"}
          BY <1>4, <1>5, <3>1, <3>2, <4>2 DEF Needs
        <4> QED BY <1>4, <1>5, <3>2, <4>1, <4>2, <4>3 DEF Needs
      <3>3. 5 \in 1 .. 6 - 1 /\ 2 \in 1 .. 6 - 1 /\ 2 \in 1 .. 3 - 1
        OBVIOUS
      <3>4. /\ Holder("spiThread") = "spiThread" /\ Holder("registered") = "registered"
            /\ Holder("ts_info") = "registered"
        BY DEF Holder
      <3>5. InOrder(owed, calls, There)
        BY <1>4, <3>2, <3>3, <3>4 DEF InOrder
      <3> QED BY <1>4, <1>7, <2>3, <3>5 DEF InOrder
    <2>6. live' \subseteq (Undone(todo) \cup Remains)'
      BY <1>1, <1>6, <1>7, <2>2
    <2>7. TeardownInv'
      BY <1>1, <1>4, <1>8, <2>4, <2>5, <2>6 DEF TeardownInv
    <2> QED BY <1>1, <1>3, <2>7 DEF LifeInv, States
  <1>9. CASE failedAt \in PtpSteps
    <2>1. Owed' = Owed
      <3>1. OwedAt(failedAt, "removing") = OwedAt(failedAt, "bound")
        BY <1>2, <1>9, OwedStays
      <3> QED BY <1>1, <3>1 DEF Owed
    <2>2. live \subseteq LeftBy(failedAt) \cup {"registered"} \cup Managed
      <3>1. Undone(todo) = {}
        BY <1>2, EmptySeq DEF Undone
      <3>2. live \subseteq Undone(todo) \cup Remains
        BY <1>2, <1>9 DEF TeardownInv
      <3> QED BY <1>1, <1>9, <3>1, <3>2 DEF Remains
    <2>3. LeftBy(failedAt) \subseteq {"ptpClock", "work"}
      BY <1>9 DEF LeftBy, PtpSteps
    <2>4. PICK owed, there : owed = Owed /\ there = There
      OBVIOUS
    <2>5. /\ \A u \in Users : owed[u] \subseteq Needs(u)
          /\ owed["registered"] \subseteq Managed
          /\ \A u \in {"ts_info", "work", "ptpClock"} : owed[u] = {}
      BY <1>9, <2>4, OwedIs DEF Owed
    <2>6. /\ \A u \in Users : Holder(u) \in there => u \in {"spiThread", "irq"} \/ owed[u] \subseteq Managed
          /\ "spiThread" \notin there
      <3>1. there \subseteq {"ptpClock", "work", "registered", "ptpSet"} \cup Managed
        BY <2>2, <2>3, <2>4 DEF There
      <3>2. \A u \in Users : Holder(u) \in there =>
              u \in {"irq", "registered", "ts_info", "work", "ptpClock"}
        BY <3>1 DEF Users, Holder, Managed
      <3> QED BY <2>5, <3>1, <3>2 DEF Managed
    <2>7. \A i \in 1 .. Len(calls) : calls[i] \notin Managed
      BY <1>4, <1>5 DEF Managed
    <2>8. InOrder(owed, calls, there)
      BY <1>4, <2>5, <2>6, <2>7, StopsFirst
    <2>9. InOrder(Owed, todo, There)' /\ Served(Owed, There)'
      BY <1>2, <1>4, <1>7, <2>1, <2>4, <2>8 DEF InOrder, Served, TeardownInv
    <2>10. live' \subseteq (Undone(todo) \cup Remains)'
      BY <1>1, <1>6, <1>7, <2>2
    <2>11. failedAt \in NotUndone
      BY <1>9 DEF NotUndone
    <2>12. TeardownInv'
      BY <1>1, <1>2, <1>4, <1>9, <2>9, <2>10, <2>11 DEF TeardownInv
    <2> QED BY <1>1, <1>3, <2>12 DEF LifeInv, States
  <1> QED BY <1>2, <1>8, <1>9

\* A multicast update is scheduled or has run: nobody is owed it, and while it
\* may be scheduled it finds what the registered device finds.
LEMMA LifeWork ==
    ASSUME LifeInv, ScheduleWork \/ RunWork
    PROVE  LifeInv'
  <1>1. /\ UNCHANGED <<state, next, todo, failedAt, conf>>
        /\ live' \ {"work"} = live \ {"work"}
        /\ "work" \in live' => "work" \in live \/ "registered" \in live
    BY DEF ScheduleWork, RunWork
  <1>2. ConfInv' /\ StepInv' /\ TeardownInv
    BY <1>1 DEF LifeInv, ConfInv, StepInv
  <1>3. BuildInv'
    <2>1. ASSUME state \in {"probing", "bound"}, failedAt = "none", "work" \in live'
          PROVE  next > 17
      <3>1. "work" \in live \/ "registered" \in Built(next)
        BY <1>1, <2>1 DEF LifeInv, BuildInv
      <3>2. "work" \in live => next > 17
        BY <2>1 DEF LifeInv, BuildInv
      <3>3. next \in 1 .. 23
        BY DEF LifeInv, BuildInv
      <3> QED BY <3>1, <3>2, <3>3, BuiltIs
    <2>2. "spiThread" \in live' => "spiThread" \in live
      BY <1>1
    <2> QED BY <1>1, <2>1, <2>2 DEF LifeInv, BuildInv
  <1>4. /\ Owed' = Owed /\ Remains' = Remains /\ Undone(todo)' = Undone(todo)
        /\ There' \ {"work"} = There \ {"work"}
        /\ "work" \in There' => "work" \in There \/ "registered" \in There
    BY <1>1 DEF Owed, Remains, Undone, There, Done
  <1>5. /\ \A u \in Users : "work" \notin Owed[u]
        /\ Owed["work"] \subseteq Owed["registered"]
        /\ failedAt \in {"none"} \cup PtpSteps /\ state = "removing" => Owed["work"] = {}
    BY OwedIs DEF Owed
  <1>6. /\ "work" \in Users /\ "registered" \in Users
        /\ Holder("work") = "work" /\ Holder("registered") = "registered"
        /\ \A u \in Users : Holder(u) = "work" => u = "work"
    BY DEF Users, Holder
  <1>7. Served(Owed, There)'
    <2>1. ASSUME NEW u \in Users, Holder(u) \in There' PROVE Owed[u] \subseteq There'
      <3>1. Holder(u) \in There => Owed[u] \subseteq There'
        <4>1. Holder(u) \in There => Owed[u] \subseteq There
          BY <1>2 DEF TeardownInv, Served
        <4> QED BY <1>4, <1>5, <4>1
      <3>2. CASE Holder(u) = "work" /\ "registered" \in There
        <4>1. Owed["registered"] \subseteq There
          BY <1>2, <1>6, <3>2 DEF TeardownInv, Served
        <4> QED BY <1>4, <1>5, <1>6, <3>2, <4>1
      <3> QED BY <1>4, <2>1, <3>1, <3>2
    <2> QED BY <1>4, <2>1 DEF Served
  <1>8. InOrder(Owed, todo, There)'
    <2>1. ASSUME NEW u \in Users, Holder(u) \in There', NEW i \in 1 .. Len(todo),
                 todo[i] \in Owed[u]
          PROVE  \E j \in 1 .. i - 1 : todo[j] = Holder(u)
      <3>1. CASE Holder(u) \in There
        BY <1>2, <2>1, <3>1 DEF TeardownInv, InOrder
      <3>2. CASE u = "work" /\ "registered" \in There
        <4>1. todo[i] \in Owed["registered"]
          BY <1>5, <2>1, <3>2
        <4>2. PICK j \in 1 .. i - 1 : todo[j] = "registered"
          BY <1>2, <1>6, <3>2, <4>1 DEF TeardownInv, InOrder
        <4>3. j \in 1 .. Len(todo)
          <5>1. Len(todo) \in Nat
            BY <1>2, LenProperties DEF TeardownInv
          <5> QED BY <4>2, <5>1
        <4>4. "registered" \in Undone(todo)
          BY <4>2, <4>3 DEF Undone
        <4>5. state = "removing" /\ failedAt \in {"none"} \cup PtpSteps
          BY <1>2, <4>4 DEF TeardownInv
        <4> QED BY <1>5, <2>1, <3>2, <4>5
      <3> QED BY <1>4, <1>6, <2>1, <3>1, <3>2
    <2> QED BY <1>1, <1>4, <2>1 DEF InOrder
  <1>9. ASSUME \/ state \in {"undoing", "removing", "releasing", "gone"} \/ failedAt # "none"
        PROVE  live' \subseteq (Undone(todo) \cup Remains)'
    <2>1. live \subseteq Undone(todo) \cup Remains
      BY <1>2, <1>9 DEF TeardownInv
    <2>2. "registered" \in live => "work" \in LeftBy(failedAt)
      <3>1. SUFFICES ASSUME "registered" \in live PROVE "work" \in LeftBy(failedAt)
        OBVIOUS
      <3>2. failedAt \in NotUndone \cup {"none"}
        BY <1>2, <3>1 DEF TeardownInv
      <3>3. failedAt # "nodeid_gpios"
        <4>1. SUFFICES ASSUME failedAt = "nodeid_gpios" PROVE FALSE
          OBVIOUS
        <4>2. /\ failedAt \notin PtpSteps
              /\ LeftBy(failedAt) = {"netdev", "mdio", "phy", "spiThread"}
          BY <4>1 DEF LeftBy, PtpSteps
        <4>3. "registered" \notin Remains
          BY <4>2 DEF Remains, Managed
        <4>4. state = "removing"
          BY <1>2, <2>1, <3>1, <4>3 DEF TeardownInv
        <4> QED BY <1>2, <4>1, <4>2, <4>4 DEF TeardownInv
      <3> QED BY <3>2, <3>3 DEF NotUndone, LeftBy, PtpSteps
    <2>3. LeftBy(failedAt) \subseteq Remains
      BY DEF Remains
    <2> QED BY <1>1, <1>4, <2>1, <2>2, <2>3
  <1>10. TeardownInv'
    <2>1. "registered" \in live' => "registered" \in live
      BY <1>1
    <2> QED BY <1>1, <1>2, <1>4, <1>7, <1>8, <1>9, <2>1 DEF TeardownInv
  <1> QED BY <1>1, <1>2, <1>3, <1>10 DEF LifeInv, States

LEMMA LifeInvariant == Spec => []LifeInv
  <1>1. Init => LifeInv
    BY LifeInit
  <1>2. LifeInv /\ [Next]_vars => LifeInv'
    <2> SUFFICES ASSUME LifeInv, [Next]_vars
                 PROVE  LifeInv'
      OBVIOUS
    <2>1. CASE Do
      BY <2>1, LifeDo
    <2>2. CASE Fail
      BY <2>2, LifeFail
    <2>3. CASE UndoOne
      BY <2>3, LifeUndo DEF UndoOne
    <2>4. CASE UndoDone
      BY <2>4, LifeUndoDone
    <2>5. CASE Release
      <3>1. CASE todo = <<>>
        BY <2>5, <3>1, LifeGone
      <3>2. CASE todo # <<>>
        BY <2>5, <3>2, LifeUndo DEF Release
      <3> QED BY <3>1, <3>2
    <2>6. CASE Unbind
      BY <2>6, LifeUnbind
    <2>7. CASE ScheduleWork \/ RunWork
      BY <2>7, LifeWork
    <2>8. CASE UNCHANGED vars
      BY <2>8 DEF vars, LifeInv, ConfInv, BuildInv, StepInv, TeardownInv, Served, InOrder,
         Undone, Remains, Owed, There, Done
    <2> QED BY <2>1, <2>2, <2>3, <2>4, <2>5, <2>6, <2>7, <2>8 DEF Next
  <1> QED BY <1>1, <1>2, PTL DEF Spec

-----------------------------------------------------------------------------
(* Types.                                                                  *)

LEMMA NodeIdRange == ASSUME NEW pins PROVE NodeId(pins) \in 0..15
  BY DEF NodeId

\* A step of probe adds resources and settings of probe.
LEMMA TypeDo == TypeOK /\ Do => TypeOK'
  <1> SUFFICES ASSUME TypeOK, Do PROVE TypeOK'
    OBVIOUS
  <1>1. next \in 1 .. Len(Probe) /\ next + 1 \in 1 .. Len(Probe) + 1 /\ Len(Probe) = 22
    BY ProbeIs DEF TypeOK, Do
  <1>2. state' \in States /\ next' \in 1 .. Len(Probe) + 1 /\ failedAt' \in Names \cup {"none"}
    BY <1>1 DEF TypeOK, Do, States
  <1>3. live' \subseteq {"work"} \cup UNION {Probe[i].adds : i \in 1 .. Len(Probe)}
    <2>1. live' = live \cup Probe[next].adds
      BY DEF Do
    <2>2. live \subseteq {"work"} \cup UNION {Probe[i].adds : i \in 1 .. Len(Probe)}
      BY DEF TypeOK
    <2> QED BY <1>1, <2>1, <2>2
  <1>4. conf' \subseteq Settings
    <2>1. Probe[next].checked \cup Probe[next].ignored \subseteq Settings
      BY <1>1 DEF Settings
    <2>2. conf' \subseteq conf \cup Probe[next].checked \cup Probe[next].ignored
      BY DEF Do, Configured
    <2> QED BY <2>1, <2>2 DEF TypeOK
  <1>5. nodeId' \in -1..15
    <2>1. nodeId' = nodeId \/ \E p \in NodeIdPins : nodeId' = NodeId(p)
      BY DEF Do
    <2> QED BY <2>1, NodeIdRange DEF TypeOK
  <1> QED BY <1>2, <1>3, <1>4, <1>5 DEF TypeOK, States

LEMMA TypeStep == TypeOK /\ [Next]_vars => TypeOK'
  <1> SUFFICES ASSUME TypeOK, [Next]_vars PROVE TypeOK'
    OBVIOUS
  <1> DEFINE All == UNION {Probe[i].adds : i \in 1 .. Len(Probe)}
             Places == 1 .. Len(Probe) + 1
  <1>1. CASE Do
    BY <1>1, TypeDo
  <1>2. TypeOK <=> /\ state \in States /\ next \in Places /\ failedAt \in Names \cup {"none"}
                   /\ live \subseteq {"work"} \cup All
                   /\ conf \subseteq Settings /\ nodeId \in -1..15
    BY DEF TypeOK, States
  <1>3. TypeOK' <=> /\ state' \in States /\ next' \in Places /\ failedAt' \in Names \cup {"none"}
                    /\ live' \subseteq {"work"} \cup All
                    /\ conf' \subseteq Settings /\ nodeId' \in -1..15
    BY DEF TypeOK, States
  <1> HIDE DEF All, Places
  <1>4. CASE Fail
    BY <1>2, <1>3, <1>4, FailAssumption DEF Fail, States
  <1>5. CASE UndoOne \/ UndoDone \/ Release \/ Unbind
    BY <1>2, <1>3, <1>5 DEF UndoOne, UndoDone, Release, Unbind, States
  <1>6. CASE ScheduleWork \/ RunWork \/ UNCHANGED vars
    BY <1>2, <1>3, <1>6 DEF ScheduleWork, RunWork, vars
  <1> QED BY <1>1, <1>4, <1>5, <1>6 DEF Next

-----------------------------------------------------------------------------
(* The theorems.                                                           *)

\* The variables stay in their ranges: what is there and what is set are things
\* probe adds and sets, and four pins give a node id up to 15 (lan865x.c:509),
\* which is more than the chip has (the configuration LcNodeId).
THEOREM LifeTyping == Spec => []TypeOK
  <1>1. Init => TypeOK
    <2>1. 1 \in 1 .. Len(Probe) + 1
      BY ProbeIs
    <2> QED BY <2>1 DEF Init, TypeOK
  <1> QED BY <1>1, TypeStep, PTL DEF Spec

\* At every point of probe, of each error path, of remove and of the release of
\* the device resources, every user finds what it reaches, but for the windows
\* Exposed names: the SPI thread, the interrupt handler, the stack's calls,
\* ethtool, multicast updates, the ioctl, the PTP thread and the PTP clock, over
\* the failure of any step (lan865x_probe, oa_tc6_init, ptp_device_init,
\* oa_tc6_exit, lan865x_remove).
THEOREM NobodyReachesOut == Spec => []UsersSafe
  <1>1. LifeInv => UsersSafe
    <2> SUFFICES ASSUME LifeInv, NEW u \in Users, Holder(u) \in live
                 PROVE  Needs(u) \ Exposed(u, failedAt, state) \subseteq There
      BY DEF UsersSafe
    <2>1. Holder(u) \in There /\ Owed[u] = Needs(u) \ Exposed(u, failedAt, state)
      BY OwedIs DEF There, Owed
    <2> QED BY <2>1 DEF LifeInv, TeardownInv, Served
  <1> QED BY <1>1, LifeInvariant, PTL

\* Whichever step fails, nothing is left when all is over but what LeftBy names
\* for that step, which is nothing for sixteen of the twenty-two.
THEOREM NoResourceLeft == Spec => []NothingLeft
  <1>1. LifeInv => NothingLeft
    <2> SUFFICES ASSUME LifeInv, state = "gone" PROVE live \subseteq LeftBy(failedAt)
      BY DEF NothingLeft
    <2>1. live \subseteq Undone(todo) \cup LeftBy(failedAt)
      BY DEF LifeInv, TeardownInv, Remains
    <2>2. Undone(todo) = {}
      BY EmptySeq DEF LifeInv, TeardownInv, Undone
    <2> QED BY <2>1, <2>2
  <1> QED BY <1>1, LifeInvariant, PTL

\* A device bound without an error has every setting whose write is checked,
\* and the SPI thread only runs once the configuration is synchronised.
THEOREM SettingsMade == Spec => []BoundIsConfigured
  <1>1. LifeInv => BoundIsConfigured
    BY DEF LifeInv, ConfInv, BuildInv, BoundIsConfigured
  <1> QED BY <1>1, LifeInvariant, PTL

=============================================================================
