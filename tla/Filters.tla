------------------------------- MODULE Filters -------------------------------
(***************************************************************************)
(* What the MAC-PHY lets through: its own address, set in two registers by *)
(* lan865x_set_mac_address and by probe, and the multicast filter, which a *)
(* work item rewrites register by register from flags and a list that the  *)
(* stack goes on changing.                                                 *)
(***************************************************************************)
EXTENDS Integers, FiniteSetsExt

CONSTANTS
  Addresses,    \* station addresses, each the set of its one bits of 0..47
  Groups,       \* multicast addresses, likewise
  Flags,        \* of {"promisc", "allmulti"}: flags the stack may set
  Effects,      \* what a write reported as failed did: of {"lost", "done"}
  MaxFaults,    \* bound: failing writes
  MaxChanges,   \* bound: changes of flags, list or address
  NodeIdStep    \* probe gives the node id to an address that is in use

ASSUME GroupsAssumption == \A g \in Addresses \cup Groups : g \subseteq 0..47
ASSUME FlagsAssumption == Flags \subseteq {"promisc", "allmulti"}
ASSUME EffectsAssumption == Effects \subseteq {"lost", "done"} /\ MaxFaults \in Nat

AllOnes == 0..31
Low(a) == a \cap 0..31
High(a) == a \cap 32..47

VARIABLES
  devAddr,       \* netdev->dev_addr
  low, high,     \* MAC_L_SADDR1, MAC_H_SADDR1
  setter,        \* the address being set: step, new address, whether by probe
  flags, mc,     \* netdev->flags, the multicast list
  pending,       \* multicast_work is queued
  worker,        \* the work handler: step, hash values to write, mode
  hashHi, hashLo, netCfg, \* H_HASH, L_HASH as sets of bits, and MAC_NET_CFG
  steady,        \* groups on the list since the filter last was up to date
  changes, faults   \* so far; failed writes by their effect

addrVars == <<devAddr, low, high, setter>>
filterVars == <<flags, mc, pending, worker, hashHi, hashLo, netCfg, steady>>
vars == <<addrVars, filterVars, changes, faults>>

Idle == [step |-> "idle", hi |-> {}, lo |-> {}, mode |-> "local"]

TypeOK ==
  /\ devAddr \in Addresses
  /\ setter.step \in {"idle", "low", "high", "restore"}
  /\ flags \subseteq Flags /\ mc \subseteq Groups
  /\ worker.step \in {"idle", "allmulti", "empty", "list", "high", "low", "config"}
  /\ worker.mode \in {"local", "multicast", "promisc"}
  /\ hashHi \subseteq AllOnes /\ hashLo \subseteq AllOnes
  /\ faults \in [{"lost", "done"} -> 0..MaxFaults]

Init ==
  /\ devAddr \in Addresses /\ low = Low(devAddr) /\ high = High(devAddr)
  /\ setter = [step |-> "idle", new |-> devAddr, probe |-> FALSE]
  /\ flags = {} /\ mc = {} /\ pending = FALSE /\ worker = Idle
  /\ hashHi = {} /\ hashLo = {} /\ netCfg = "multicast"
  /\ steady = {} /\ changes = 0
  /\ faults = [e \in {"lost", "done"} |-> 0]

\* One register write: done, or failed with the effects a failure may have.
Outcomes(old, value) == {[how |-> "ok", now |-> value]} \cup
  IF faults["lost"] + faults["done"] = MaxFaults THEN {}
  ELSE {[how |-> e, now |-> IF e = "done" THEN value ELSE old] : e \in Effects}

Ok(w) == w.how = "ok"
Count(w) == faults' = IF Ok(w) THEN faults ELSE [faults EXCEPT ![w.how] = @ + 1]

-----------------------------------------------------------------------------
(* The station address.                                                    *)

SetMacAddress ==
  /\ setter.step = "idle" /\ changes < MaxChanges
  /\ \E a \in Addresses \ {devAddr} : setter' = [step |-> "low", new |-> a, probe |-> FALSE]
  /\ changes' = changes + 1
  /\ UNCHANGED <<devAddr, low, high, filterVars, faults>>

\* Probe stores the address in the netdev, writes it and ignores the result.
ProbeSetsNodeId ==
  /\ NodeIdStep /\ setter.step = "idle" /\ changes = 0 /\ changes' = 1
  /\ \E a \in Addresses \ {devAddr} :
       devAddr' = a /\ setter' = [step |-> "low", new |-> a, probe |-> TRUE]
  /\ UNCHANGED <<low, high, filterVars, faults>>

To(s) == setter' = [setter EXCEPT !.step = s]

WriteLow ==
  /\ setter.step = "low"
  /\ \E w \in Outcomes(low, Low(setter.new)) :
       low' = w.now /\ Count(w) /\ To(IF Ok(w) THEN "high" ELSE "idle")
  /\ UNCHANGED <<devAddr, high, filterVars, changes>>

WriteHigh ==
  /\ setter.step = "high"
  /\ \E w \in Outcomes(high, High(setter.new)) :
       /\ high' = w.now /\ Count(w)
       /\ To(IF Ok(w) THEN "idle" ELSE "restore")
       /\ devAddr' = IF Ok(w) THEN setter.new ELSE devAddr
  /\ UNCHANGED <<low, filterVars, changes>>

RestoredLow_New == Low(setter.new)
RestoredLow == Low(devAddr)

Restore ==
  /\ setter.step = "restore"
  /\ \E w \in Outcomes(low, RestoredLow) : low' = w.now /\ Count(w) /\ To("idle")
  /\ UNCHANGED <<devAddr, high, filterVars, changes>>

-----------------------------------------------------------------------------
(* The multicast filter.                                                   *)

Parity(S) == Cardinality(S) % 2

\* Bit i of the hash is the parity of the address bits i, i + 6, ...
lan865x_hash(g) ==
  LET hash(i) == Parity({b \in g : b % 6 = i})
  IN hash(0) + 2 * hash(1) + 4 * hash(2) + 8 * hash(3) + 16 * hash(4) + 32 * hash(5)

HashHi_OnlyLast(S) ==
  LET upper == {h \in S : lan865x_hash(h) >= 32}
  IN IF upper = {} THEN {} ELSE {Max({lan865x_hash(g) : g \in upper}) - 32}
HashHi(S) == {lan865x_hash(g) - 32 : g \in {h \in S : lan865x_hash(h) >= 32}}
HashLo(S) == {lan865x_hash(g) : g \in {h \in S : lan865x_hash(h) < 32}}

InHash(g) == IF lan865x_hash(g) >= 32 THEN lan865x_hash(g) - 32 \in hashHi
                                      ELSE lan865x_hash(g) \in hashLo

Accepts(g) == netCfg = "promisc" \/ (netCfg = "multicast" /\ InHash(g))

Wanted(g) == flags # {} \/ g \in mc

Rescheduled_IfIdle == pending \/ worker.step = "idle"
Rescheduled == TRUE

\* The stack changes a flag or the list, then calls ndo_set_rx_mode.
SetRxMode ==
  /\ changes < MaxChanges /\ changes' = changes + 1
  /\ \/ UNCHANGED mc /\ \E f \in Flags : flags' \in {flags \cup {f}, flags \ {f}} \ {flags}
     \/ UNCHANGED flags /\ \E g \in Groups : mc' \in {mc \cup {g}, mc \ {g}} \ {mc}
  /\ pending' = Rescheduled
  /\ steady' = mc' \cap IF worker.step = "idle" /\ ~pending
                        THEN {g \in mc : Accepts(g)} ELSE steady
  /\ UNCHANGED <<addrVars, worker, hashHi, hashLo, netCfg, faults>>

At(s, hi, lo, mode) == worker' = [step |-> s, hi |-> hi, lo |-> lo, mode |-> mode]
Onto(s) == worker' = [worker EXCEPT !.step = s]
GiveUp == worker' = Idle

\* Flags, the test for an empty list and the list are read one after the other,
\* without a lock.
WorkStart ==
  /\ worker.step = "idle" /\ pending
  /\ pending' = FALSE
  /\ IF "promisc" \in flags THEN At("config", {}, {}, "promisc") ELSE Onto("allmulti")
  /\ UNCHANGED <<addrVars, flags, mc, hashHi, hashLo, netCfg, steady, changes, faults>>

ReadAllmulti ==
  /\ worker.step = "allmulti"
  /\ IF "allmulti" \in flags THEN At("high", AllOnes, AllOnes, "multicast") ELSE Onto("empty")
  /\ UNCHANGED <<addrVars, flags, mc, pending, hashHi, hashLo, netCfg, steady, changes, faults>>

ReadEmpty ==
  /\ worker.step = "empty"
  /\ IF mc = {} THEN At("high", {}, {}, "local") ELSE Onto("list")
  /\ UNCHANGED <<addrVars, flags, mc, pending, hashHi, hashLo, netCfg, steady, changes, faults>>

ReadList ==
  /\ worker.step = "list"
  /\ At("high", HashHi(mc), HashLo(mc), "multicast")
  /\ UNCHANGED <<addrVars, flags, mc, pending, hashHi, hashLo, netCfg, steady, changes, faults>>

WriteHashHi ==
  /\ worker.step = "high"
  /\ \E w \in Outcomes(hashHi, worker.hi) :
       hashHi' = w.now /\ Count(w) /\ IF Ok(w) THEN Onto("low") ELSE GiveUp
  /\ UNCHANGED <<addrVars, flags, mc, pending, hashLo, netCfg, steady, changes>>

WriteHashLo ==
  /\ worker.step = "low"
  /\ \E w \in Outcomes(hashLo, worker.lo) :
       hashLo' = w.now /\ Count(w) /\ IF Ok(w) THEN Onto("config") ELSE GiveUp
  /\ UNCHANGED <<addrVars, flags, mc, pending, hashHi, netCfg, steady, changes>>

WriteNetCfg ==
  /\ worker.step = "config"
  /\ \E w \in Outcomes(netCfg, worker.mode) :
       netCfg' = w.now /\ Count(w) /\ GiveUp
  /\ UNCHANGED <<addrVars, flags, mc, pending, hashHi, hashLo, steady, changes>>

Worker == WorkStart \/ ReadAllmulti \/ ReadEmpty \/ ReadList \/ WriteHashHi \/ WriteHashLo \/ WriteNetCfg

Next == \/ SetMacAddress \/ ProbeSetsNodeId \/ WriteLow \/ WriteHigh \/ Restore
        \/ SetRxMode \/ Worker

Spec == Init /\ [][Next]_vars

\* The workqueue runs what is queued.
FairSpec == Spec /\ WF_vars(Worker)

-----------------------------------------------------------------------------
(* Correctness.                                                            *)

\* With at most one write lost, the registers hold the address the netdev has
\* whenever no call is under way (lan865x_set_hw_macaddr) - unless it was probe's:
\* that stores the address first and ignores the result (lan865x.c:542).
AddressConsistent ==
  /\ setter.step = "idle"
  /\ faults["lost"] <= 1 /\ faults["done"] = 0
  /\ setter.probe => faults["lost"] = 0
  => low \cup high = devAddr

\* Comment at lan865x.c:90: the old low bytes are restored if the high bytes
\* were not set; the registers never keep the halves of two addresses.
AddressWhole == setter.step = "idle" => low \cup high \in Addresses

\* A group that stays on the list is received all the time, while the worker
\* rewrites the registers for others and when it gives up half-way
\* (lan865x_multicast_work_handler).
GroupsKept == \A g \in steady : Accepts(g)

\* Once the stack makes no more changes, the filter lets through what is wanted,
\* and is only left promiscuous if that is what is wanted; nothing tries again
\* what a failed write has left undone.
FilterFollows ==
  [](faults["lost"] + faults["done"] = 0) =>
    <>[](/\ \A g \in Groups : Wanted(g) => Accepts(g)
         /\ netCfg = "promisc" => "promisc" \in flags)
=============================================================================
