--------------------------- MODULE Filters_proofs ---------------------------
(***************************************************************************)
(* Proofs that the filters of the MAC-PHY follow what the stack asked for, *)
(* for every set of addresses, groups and flags, any number of failing     *)
(* writes and any number of changes: the registers hold the address of the *)
(* netdev, a group that stays on the list is let through all the time, and *)
(* the filter the worker leaves is the one last asked for.                 *)
(***************************************************************************)
EXTENDS Filters, FiniteSetTheorems, TLAPS

-----------------------------------------------------------------------------
(* The inductive invariants.                                               *)

SetterState == [step : {"idle", "low", "high", "restore"}, new : Addresses,
                probe : BOOLEAN]
WorkerState == [step : {"idle", "allmulti", "empty", "list", "high", "low", "config"},
                hi : SUBSET AllOnes, lo : SUBSET AllOnes,
                mode : {"local", "multicast", "promisc"}]

Lost == faults["lost"]
Done == faults["done"]

AddrTypeInv ==
  /\ devAddr \in Addresses /\ setter \in SetterState
  /\ faults \in [{"lost", "done"} -> Nat]

Synced == low = Low(devAddr) /\ high = High(devAddr)

\* The registers hold the address of the netdev as far as failed writes and
\* probe's way of setting it allow, and the new address as far as it is set.
AddrInv ==
  /\ setter.step = "idle" /\ Lost <= 1 /\ Done = 0
       /\ (setter.probe => Lost = 0) => Synced
  /\ setter.step \in {"low", "high"} /\ Lost = 0 /\ Done = 0 /\ ~setter.probe =>
       /\ high = High(devAddr)
       /\ setter.step = "low" => low = Low(devAddr)
  /\ setter.step = "high" => low = Low(setter.new)
  /\ setter.step = "restore" =>
       /\ Lost + Done >= 1
       /\ Lost <= 1 /\ Done = 0 /\ ~setter.probe => high = High(devAddr)

\* The bit of the group is set in the two halves of a hash filter.
Covers(hi, lo, g) == IF lan865x_hash(g) >= 32 THEN lan865x_hash(g) - 32 \in hi
                                              ELSE lan865x_hash(g) \in lo

\* What the worker has still to write, with what it has written, lets the
\* groups through that were on the list all the time; it only closes the
\* filter for an empty list.
GroupInv ==
  /\ mc \subseteq Groups /\ steady \subseteq mc /\ worker \in WorkerState
  /\ \A g \in steady :
       /\ Accepts(g)
       /\ worker.step \in {"high", "low"} =>
            worker.mode = "multicast" /\ Covers(worker.hi, worker.lo, g)
       /\ worker.step = "low" => hashHi = worker.hi
       /\ worker.step = "config" =>
            worker.mode = "promisc" \/ (worker.mode = "multicast" /\ InHash(g))

\* A filter with this mode and these hash values lets through what is wanted, and is
\* promiscuous only if that is asked for.
Asked(mode, hi, lo) ==
  /\ \A g \in Groups :
       Wanted(g) => mode = "promisc" \/ (mode = "multicast" /\ Covers(hi, lo, g))
  /\ mode = "promisc" => "promisc" \in flags

\* What the worker has read still holds, what it has taken over to write is what is
\* asked for, and so is what it leaves.
UpToDate ==
  /\ worker.step = "idle" => Asked(netCfg, hashHi, hashLo)
  /\ worker.step = "allmulti" => "promisc" \notin flags
  /\ worker.step \in {"empty", "list"} => flags = {}
  /\ worker.step \in {"high", "low", "config"} => Asked(worker.mode, worker.hi, worker.lo)
  /\ worker.step = "low" => hashHi = worker.hi
  /\ worker.step = "config" /\ worker.mode # "promisc" =>
       hashHi = worker.hi /\ hashLo = worker.lo

\* So it is as long as no write has failed and no change waits for the worker.
SettleInv == Lost = 0 /\ Done = 0 /\ ~pending => UpToDate

\* The worker rests, no change waits for it and no write has failed: the filter lets
\* through what is wanted, and is promiscuous only if that is wanted. It is what
\* FilterFollows says of the time after the last change.
FilterSettled ==
  worker.step = "idle" /\ ~pending /\ Lost = 0 /\ Done = 0 =>
    /\ \A g \in Groups : Wanted(g) => Accepts(g)
    /\ netCfg = "promisc" => "promisc" \in flags

-----------------------------------------------------------------------------
(* The operators.                                                          *)

\* A hash of six bits names a bit of one of the two registers.
LEMMA HashRange ==
    ASSUME NEW g \in Groups
    PROVE  lan865x_hash(g) \in 0 .. 63
  <1> DEFINE hash(i) == Parity({b \in g : b % 6 = i})
  <1>1. ASSUME NEW i \in 0 .. 5 PROVE hash(i) \in 0 .. 1
    <2>1. IsFiniteSet(0 .. 47)
      <3>1. 0 \in Int /\ 47 \in Int
        OBVIOUS
      <3> QED BY <3>1, FS_Interval
    <2>2. {b \in g : b % 6 = i} \in SUBSET (0 .. 47)
      BY GroupsAssumption
    <2>3. IsFiniteSet({b \in g : b % 6 = i})
      BY <2>1, <2>2, FS_Subset
    <2>4. PICK n \in Nat : n = Cardinality({b \in g : b % 6 = i})
      BY <2>3, FS_CardinalityType
    <2>5. n % 2 \in 0 .. 1
      OBVIOUS
    <2> QED BY <2>4, <2>5 DEF Parity
  <1>2. lan865x_hash(g) = hash(0) + 2 * hash(1) + 4 * hash(2) + 8 * hash(3)
                            + 16 * hash(4) + 32 * hash(5)
    BY DEF lan865x_hash
  <1>3. /\ hash(0) \in 0 .. 1 /\ hash(1) \in 0 .. 1 /\ hash(2) \in 0 .. 1
        /\ hash(3) \in 0 .. 1 /\ hash(4) \in 0 .. 1 /\ hash(5) \in 0 .. 1
    BY <1>1
  <1> HIDE DEF hash
  <1> QED BY <1>2, <1>3

\* The hash filter of a list covers the list; with all bits set, every group.
LEMMA HashCovers ==
    ASSUME NEW S \in SUBSET Groups
    PROVE  /\ HashHi(S) \in SUBSET AllOnes /\ HashLo(S) \in SUBSET AllOnes
           /\ \A g \in S : Covers(HashHi(S), HashLo(S), g)
           /\ \A g \in Groups : Covers(AllOnes, AllOnes, g)
  <1>1. \A g \in Groups : lan865x_hash(g) \in 0 .. 63
    BY HashRange
  <1>2. \A g \in Groups : /\ lan865x_hash(g) >= 32 => lan865x_hash(g) - 32 \in AllOnes
                          /\ ~(lan865x_hash(g) >= 32) => lan865x_hash(g) \in AllOnes
                          /\ lan865x_hash(g) < 32 <=> ~(lan865x_hash(g) >= 32)
    <2> SUFFICES ASSUME NEW g \in Groups, NEW n \in 0 .. 63, n = lan865x_hash(g)
                 PROVE  /\ n >= 32 => n - 32 \in AllOnes
                        /\ ~(n >= 32) => n \in AllOnes
                        /\ n < 32 <=> ~(n >= 32)
      BY <1>1
    <2> QED BY DEF AllOnes
  <1> QED BY <1>2 DEF HashHi, HashLo, Covers

\* An address is its two halves.
LEMMA Halves ==
    ASSUME NEW a \in Addresses
    PROVE  Low(a) \cup High(a) = a
  <1>1. \A b \in a : b \in 0 .. 31 \/ b \in 32 .. 47
    BY GroupsAssumption
  <1> QED BY <1>1 DEF Low, High

-----------------------------------------------------------------------------
(* The station address.                                                    *)

\* A write is done, or not done at all, or done and reported as failed.
LEMMA WriteOutcome ==
    ASSUME AddrTypeInv, NEW old, NEW value, NEW w \in Outcomes(old, value),
           Count(w)
    PROVE  /\ faults' \in [{"lost", "done"} -> Nat]
           /\ \/ Ok(w) /\ w.now = value /\ Lost' = Lost /\ Done' = Done
              \/ ~Ok(w) /\ w.now = old /\ Lost' = Lost + 1 /\ Done' = Done
              \/ ~Ok(w) /\ w.now = value /\ Lost' = Lost /\ Done' = Done + 1
  <1>1. faults \in [{"lost", "done"} -> Nat]
    BY DEF AddrTypeInv
  <1>2. CASE Ok(w)
    <2>1. w = [how |-> "ok", now |-> value]
      BY <1>2, EffectsAssumption DEF Outcomes, Ok
    <2> QED BY <1>1, <1>2, <2>1 DEF Count, Lost, Done
  <1>3. CASE ~Ok(w)
    <2>1. PICK e \in {"lost", "done"} :
             w = [how |-> e, now |-> IF e = "done" THEN value ELSE old]
      BY <1>3, EffectsAssumption DEF Outcomes, Ok
    <2>2. faults' = [faults EXCEPT ![e] = @ + 1]
      BY <1>3, <2>1 DEF Count
    <2> QED BY <1>1, <1>3, <2>1, <2>2 DEF Lost, Done
  <1> QED BY <1>2, <1>3

LEMMA AddrInit == Init => AddrTypeInv /\ AddrInv
  BY DEF Init, AddrTypeInv, SetterState, AddrInv, Synced

\* Either way to set an address starts with the low half.
LEMMA AddrStart ==
    ASSUME AddrTypeInv, AddrInv, SetMacAddress \/ ProbeSetsNodeId
    PROVE  AddrTypeInv' /\ AddrInv'
  <1>1. PICK a \in Addresses, b \in BOOLEAN :
           /\ setter.step = "idle" /\ setter' = [step |-> "low", new |-> a, probe |-> b]
           /\ UNCHANGED <<low, high, faults>>
           /\ IF b THEN devAddr' = a ELSE devAddr' = devAddr
    BY DEF SetMacAddress, ProbeSetsNodeId, filterVars
  <1>2. AddrTypeInv'
    BY <1>1 DEF AddrTypeInv, SetterState
  <1>3. AddrInv'
    BY <1>1 DEF AddrInv, Synced, Lost, Done
  <1> QED BY <1>2, <1>3

\* One write after the other, and the restoration of the low half.
LEMMA AddrWrite ==
    ASSUME AddrTypeInv, AddrInv, WriteLow \/ WriteHigh \/ Restore
    PROVE  AddrTypeInv' /\ AddrInv'
  <1>1. /\ setter \in SetterState /\ devAddr \in Addresses
        /\ Lost \in Nat /\ Done \in Nat
    BY DEF AddrTypeInv, Lost, Done
  <1>2. CASE WriteLow
    <2>1. PICK w \in Outcomes(low, Low(setter.new)) :
             low' = w.now /\ Count(w) /\ To(IF Ok(w) THEN "high" ELSE "idle")
      BY <1>2 DEF WriteLow
    <2>2. /\ setter.step = "low" /\ UNCHANGED <<devAddr, high>>
          /\ setter'.step = (IF Ok(w) THEN "high" ELSE "idle")
          /\ setter'.new = setter.new /\ setter'.probe = setter.probe
          /\ setter' \in SetterState
      BY <1>1, <1>2, <2>1 DEF WriteLow, To, SetterState
    <2>3. /\ faults' \in [{"lost", "done"} -> Nat]
          /\ \/ Ok(w) /\ low' = Low(setter.new) /\ Lost' = Lost /\ Done' = Done
             \/ ~Ok(w) /\ low' = low /\ Lost' = Lost + 1 /\ Done' = Done
             \/ ~Ok(w) /\ low' = Low(setter.new) /\ Lost' = Lost /\ Done' = Done + 1
      BY <2>1, WriteOutcome
    <2>4. AddrTypeInv'
      BY <1>1, <2>2, <2>3 DEF AddrTypeInv
    <2>5. CASE Ok(w)
      BY <2>2, <2>3, <2>4, <2>5 DEF AddrInv
    <2>6. CASE ~Ok(w)
      <3>1. setter'.step = "idle"
        BY <2>2, <2>6
      <3>2. ASSUME Lost' <= 1, Done' = 0, setter'.probe => Lost' = 0
            PROVE  Synced'
        <4>1. Lost' = Lost + 1 /\ Done' = Done /\ low' = low
          BY <1>1, <2>3, <2>6, <3>2
        <4>2. Lost = 0 /\ Done = 0 /\ ~setter.probe
          BY <1>1, <2>2, <3>2, <4>1
        <4> QED BY <2>2, <4>1, <4>2 DEF AddrInv, Synced
      <3> QED BY <2>4, <3>1, <3>2 DEF AddrInv
    <2> QED BY <2>5, <2>6
  <1>3. CASE WriteHigh
    <2>1. PICK w \in Outcomes(high, High(setter.new)) :
             /\ high' = w.now /\ Count(w)
             /\ To(IF Ok(w) THEN "idle" ELSE "restore")
             /\ devAddr' = IF Ok(w) THEN setter.new ELSE devAddr
      BY <1>3 DEF WriteHigh
    <2>2. /\ setter.step = "high" /\ low' = low
          /\ setter'.step = (IF Ok(w) THEN "idle" ELSE "restore")
          /\ setter'.new = setter.new /\ setter'.probe = setter.probe
          /\ setter' \in SetterState /\ setter.new \in Addresses
      BY <1>1, <1>3, <2>1 DEF WriteHigh, To, SetterState
    <2>3. /\ faults' \in [{"lost", "done"} -> Nat]
          /\ \/ Ok(w) /\ high' = High(setter.new) /\ Lost' = Lost /\ Done' = Done
             \/ ~Ok(w) /\ high' = high /\ Lost' = Lost + 1 /\ Done' = Done
             \/ ~Ok(w) /\ high' = High(setter.new) /\ Lost' = Lost /\ Done' = Done + 1
      BY <2>1, WriteOutcome
    <2>4. AddrTypeInv'
      BY <1>1, <2>1, <2>2, <2>3 DEF AddrTypeInv
    <2>5. CASE Ok(w)
      <3>1. Synced'
        BY <2>1, <2>2, <2>3, <2>5 DEF AddrInv, Synced
      <3> QED BY <2>2, <2>4, <2>5, <3>1 DEF AddrInv
    <2>6. CASE ~Ok(w)
      <3>1. setter'.step = "restore" /\ devAddr' = devAddr
        BY <2>1, <2>2, <2>6
      <3>2. Lost' + Done' >= 1
        BY <1>1, <2>3, <2>6
      <3>3. ASSUME Lost' <= 1, Done' = 0, ~setter'.probe
            PROVE  high' = High(devAddr)
        <4>1. Lost' = Lost + 1 /\ Done' = Done /\ high' = high
          BY <1>1, <2>3, <2>6, <3>3
        <4>2. Lost = 0 /\ Done = 0 /\ ~setter.probe
          BY <1>1, <2>2, <3>3, <4>1
        <4> QED BY <2>2, <4>1, <4>2 DEF AddrInv
      <3> QED BY <2>4, <3>1, <3>2, <3>3 DEF AddrInv
    <2> QED BY <2>5, <2>6
  <1>4. CASE Restore
    <2>1. PICK w \in Outcomes(low, Low(devAddr)) :
             low' = w.now /\ Count(w) /\ To("idle")
      BY <1>4 DEF Restore, RestoredLow
    <2>2. /\ setter.step = "restore" /\ UNCHANGED <<devAddr, high>>
          /\ setter'.step = "idle" /\ setter'.probe = setter.probe
          /\ setter' \in SetterState
      BY <1>1, <1>4, <2>1 DEF Restore, To, SetterState
    <2>3. /\ faults' \in [{"lost", "done"} -> Nat]
          /\ \/ Ok(w) /\ low' = Low(devAddr) /\ Lost' = Lost /\ Done' = Done
             \/ ~Ok(w) /\ low' = low /\ Lost' = Lost + 1 /\ Done' = Done
             \/ ~Ok(w) /\ low' = Low(devAddr) /\ Lost' = Lost /\ Done' = Done + 1
      BY <2>1, WriteOutcome
    <2>4. AddrTypeInv'
      BY <1>1, <2>2, <2>3 DEF AddrTypeInv
    <2>5. ASSUME Lost' <= 1, Done' = 0, setter'.probe => Lost' = 0
          PROVE  Synced'
      <3>1. Lost + Done >= 1
        BY <2>2 DEF AddrInv
      <3>2. Ok(w) /\ low' = Low(devAddr) /\ Lost' = Lost /\ Done' = Done
        BY <1>1, <2>3, <2>5, <3>1
      <3>3. Lost # 0 /\ ~setter.probe
        BY <1>1, <2>2, <2>5, <3>1, <3>2
      <3> QED BY <2>2, <2>5, <3>2, <3>3 DEF AddrInv, Synced
    <2> QED BY <2>2, <2>4, <2>5 DEF AddrInv
  <1> QED BY <1>2, <1>3, <1>4

\* The filter shares only the failing writes, which make no more promises.
LEMMA AddrElsewhere ==
    ASSUME AddrTypeInv, AddrInv, SetRxMode \/ Worker \/ UNCHANGED vars
    PROVE  AddrTypeInv' /\ AddrInv'
  <1>1. UNCHANGED addrVars
    BY DEF SetRxMode, Worker, WorkStart, ReadAllmulti, ReadEmpty, ReadList,
           WriteHashHi, WriteHashLo, WriteNetCfg, vars
  <1>2. /\ faults' \in [{"lost", "done"} -> Nat]
        /\ Lost \in Nat /\ Done \in Nat /\ Lost' \in Nat /\ Done' \in Nat
        /\ Lost' >= Lost /\ Done' >= Done
    <2>1. Lost \in Nat /\ Done \in Nat
      BY DEF AddrTypeInv, Lost, Done
    <2>2. CASE faults' = faults
      BY <2>1, <2>2 DEF AddrTypeInv, Lost, Done
    <2>3. CASE faults' # faults
      <3>1. \E old, value : \E w \in Outcomes(old, value) : Count(w)
        <4>1. WriteHashHi \/ WriteHashLo \/ WriteNetCfg
          BY <2>3 DEF SetRxMode, Worker, WorkStart, ReadAllmulti, ReadEmpty,
             ReadList, vars
        <4> QED BY <4>1 DEF WriteHashHi, WriteHashLo, WriteNetCfg
      <3>2. PICK old, value : \E w \in Outcomes(old, value) : Count(w)
        BY <3>1
      <3>3. /\ faults' \in [{"lost", "done"} -> Nat]
            /\ Lost' = Lost \/ Lost' = Lost + 1
            /\ Done' = Done \/ Done' = Done + 1
        BY <3>2, WriteOutcome
      <3> QED BY <2>1, <3>3
    <2> QED BY <2>2, <2>3
  <1>3. /\ Lost' = 0 => Lost = 0
        /\ Lost' <= 1 => Lost <= 1
        /\ Done' = 0 => Done = 0
        /\ Lost + Done >= 1 => Lost' + Done' >= 1
    <2>1. \A k, l, m, n \in Nat : m >= k /\ n >= l =>
             /\ m = 0 => k = 0
             /\ m <= 1 => k <= 1
             /\ n = 0 => l = 0
             /\ k + l >= 1 => m + n >= 1
      OBVIOUS
    <2> HIDE DEF Lost, Done
    <2> QED BY <1>2, <2>1
  <1>4. AddrTypeInv'
    BY <1>1, <1>2 DEF AddrTypeInv, addrVars
  <1>5. AddrInv'
    BY <1>1, <1>3, <1>4 DEF AddrInv, Synced, addrVars
  <1> QED BY <1>4, <1>5

-----------------------------------------------------------------------------
(* The multicast filter.                                                   *)

LEMMA GroupInit == Init => GroupInv
  BY DEF Init, GroupInv, WorkerState, Idle

\* A change of the list or the flags: a group stays steady if it stays on the
\* list, and becomes steady only while the worker rests.
LEMMA GroupSetRxMode ==
    ASSUME GroupInv, SetRxMode
    PROVE  GroupInv'
  <1>1. /\ UNCHANGED <<worker, hashHi, hashLo, netCfg>>
        /\ mc' \subseteq Groups /\ steady' \subseteq mc'
        /\ \A g \in steady' : \/ g \in steady
                              \/ worker.step = "idle" /\ Accepts(g)
    BY DEF SetRxMode, GroupInv
  <1>2. \A g : (Accepts(g)' <=> Accepts(g)) /\ (InHash(g)' <=> InHash(g))
    BY <1>1 DEF Accepts, InHash
  <1> QED BY <1>1, <1>2 DEF GroupInv

\* The worker reads flags and list, and takes over what is to be written.
LEMMA GroupRead ==
    ASSUME GroupInv, WorkStart \/ ReadAllmulti \/ ReadEmpty \/ ReadList
    PROVE  GroupInv'
  <1>1. /\ UNCHANGED <<mc, hashHi, hashLo, netCfg, steady>>
        /\ worker \in WorkerState /\ mc \subseteq Groups /\ steady \subseteq mc
    BY DEF WorkStart, ReadAllmulti, ReadEmpty, ReadList, GroupInv
  <1>2. {} \in SUBSET AllOnes /\ AllOnes \in SUBSET AllOnes
    OBVIOUS
  <1>3. \A g : (Accepts(g)' <=> Accepts(g)) /\ (InHash(g)' <=> InHash(g))
    BY <1>1 DEF Accepts, InHash
  <1>4. CASE worker' = [step |-> "config", hi |-> {}, lo |-> {}, mode |-> "promisc"]
    BY <1>1, <1>2, <1>3, <1>4 DEF GroupInv, WorkerState
  <1>5. CASE \E s \in {"allmulti", "empty", "list"} : worker' = [worker EXCEPT !.step = s]
    <2>1. worker' \in WorkerState /\ worker'.step \in {"allmulti", "empty", "list"}
      BY <1>1, <1>5 DEF WorkerState
    <2> QED BY <1>1, <1>3, <2>1 DEF GroupInv
  <1>6. CASE worker' = [step |-> "high", hi |-> AllOnes, lo |-> AllOnes,
                        mode |-> "multicast"]
    <2>1. worker' \in WorkerState
      BY <1>2, <1>6 DEF WorkerState
    <2>2. \A g \in steady : Covers(worker'.hi, worker'.lo, g)
      BY <1>1, <1>6, HashCovers
    <2> QED BY <1>1, <1>3, <1>6, <2>1, <2>2 DEF GroupInv
  <1>7. CASE mc = {} /\ worker' = [step |-> "high", hi |-> {}, lo |-> {}, mode |-> "local"]
    <2>1. worker' \in WorkerState /\ steady' = {}
      BY <1>1, <1>2, <1>7 DEF WorkerState
    <2> QED BY <1>1, <2>1 DEF GroupInv
  <1>8. CASE worker' = [step |-> "high", hi |-> HashHi(mc), lo |-> HashLo(mc),
                        mode |-> "multicast"]
    <2>1. /\ HashHi(mc) \in SUBSET AllOnes /\ HashLo(mc) \in SUBSET AllOnes
          /\ \A g \in mc : Covers(HashHi(mc), HashLo(mc), g)
      BY <1>1, HashCovers
    <2>2. worker' \in WorkerState
      BY <1>8, <2>1 DEF WorkerState
    <2>3. \A g \in steady : Covers(worker'.hi, worker'.lo, g)
      BY <1>1, <1>8, <2>1
    <2> QED BY <1>1, <1>3, <1>8, <2>2, <2>3 DEF GroupInv
  <1> QED BY <1>4, <1>5, <1>6, <1>7, <1>8
          DEF WorkStart, ReadAllmulti, ReadEmpty, ReadList, At, Onto

\* The worker writes the two halves and the mode, or gives up half-way: a
\* group is let through by the old and by the new value alike.
LEMMA GroupWrite ==
    ASSUME GroupInv, WriteHashHi \/ WriteHashLo \/ WriteNetCfg
    PROVE  GroupInv'
  <1>1. /\ UNCHANGED <<mc, steady>> /\ worker \in WorkerState /\ Idle \in WorkerState
        /\ mc \subseteq Groups /\ steady \subseteq mc
    BY DEF WriteHashHi, WriteHashLo, WriteNetCfg, GroupInv, WorkerState, Idle
  <1>2. \A old, value : \A w \in Outcomes(old, value) :
           w.now \in {old, value} /\ (Ok(w) => w.now = value)
    BY EffectsAssumption DEF Outcomes, Ok
  <1>3. \A s \in {"low", "config"} :
           LET w == [worker EXCEPT !.step = s] IN
           /\ w \in WorkerState /\ w.step = s /\ w.hi = worker.hi
           /\ w.lo = worker.lo /\ w.mode = worker.mode
    BY <1>1 DEF WorkerState
  <1>4. Idle.step = "idle"
    BY DEF Idle
  <1>5. CASE WriteHashHi
    <2>1. /\ hashHi' \in {hashHi, worker.hi} /\ UNCHANGED <<hashLo, netCfg>>
          /\ worker.step = "high"
          /\ \/ worker' = Idle
             \/ hashHi' = worker.hi /\ worker' = [worker EXCEPT !.step = "low"]
      BY <1>2, <1>5 DEF WriteHashHi, Onto, GiveUp
    <2>2. ASSUME NEW g \in steady PROVE Accepts(g)'
      BY <2>1 DEF GroupInv, Accepts, InHash, Covers
    <2> QED BY <1>1, <1>3, <1>4, <2>1, <2>2 DEF GroupInv
  <1>6. CASE WriteHashLo
    <2>1. /\ hashLo' \in {hashLo, worker.lo} /\ UNCHANGED <<hashHi, netCfg>>
          /\ worker.step = "low"
          /\ \/ worker' = Idle
             \/ hashLo' = worker.lo /\ worker' = [worker EXCEPT !.step = "config"]
      BY <1>2, <1>6 DEF WriteHashLo, Onto, GiveUp
    <2>2. ASSUME NEW g \in steady
          PROVE  Accepts(g)' /\ (hashLo' = worker.lo => InHash(g)')
      BY <2>1 DEF GroupInv, Accepts, InHash, Covers
    <2> QED BY <1>1, <1>3, <1>4, <2>1, <2>2 DEF GroupInv
  <1>7. CASE WriteNetCfg
    <2>1. /\ netCfg' \in {netCfg, worker.mode} /\ UNCHANGED <<hashHi, hashLo>>
          /\ worker.step = "config" /\ worker' = Idle
      BY <1>2, <1>7 DEF WriteNetCfg, GiveUp
    <2>2. ASSUME NEW g \in steady PROVE Accepts(g)'
      BY <2>1 DEF GroupInv, Accepts, InHash
    <2> QED BY <1>1, <1>4, <2>1, <2>2 DEF GroupInv
  <1> QED BY <1>5, <1>6, <1>7

-----------------------------------------------------------------------------
(* The filter at rest.                                                     *)

\* Failed writes are counted for ever.
LEMMA Unfailed ==
    ASSUME AddrTypeInv, [Next]_vars, Lost' = 0, Done' = 0
    PROVE  Lost = 0 /\ Done = 0
  <1>1. CASE faults' = faults
    BY <1>1 DEF Lost, Done
  <1>2. CASE faults' # faults
    <2>1. \E old, value : \E w \in Outcomes(old, value) : Count(w)
      <3>1. WriteLow \/ WriteHigh \/ Restore \/ WriteHashHi \/ WriteHashLo \/ WriteNetCfg
        BY <1>2 DEF Next, SetMacAddress, ProbeSetsNodeId, SetRxMode, Worker, WorkStart,
                    ReadAllmulti, ReadEmpty, ReadList, vars
      <3> QED BY <3>1 DEF WriteLow, WriteHigh, Restore, WriteHashHi, WriteHashLo, WriteNetCfg
    <2>2. Lost' \in {Lost, Lost + 1} /\ Done' \in {Done, Done + 1}
      BY <2>1, WriteOutcome
    <2>3. Lost \in Nat /\ Done \in Nat
      BY DEF AddrTypeInv, Lost, Done
    <2>4. \A n \in Nat : n + 1 # 0
      OBVIOUS
    <2> QED BY <2>2, <2>3, <2>4
  <1> QED BY <1>1, <1>2

\* A write after which none has failed is done.
LEMMA WriteDone ==
    ASSUME AddrTypeInv, NEW old, NEW value, NEW w \in Outcomes(old, value), Count(w),
           Lost' = 0, Done' = 0
    PROVE  Ok(w) /\ w.now = value
  <1>1. Lost \in Nat /\ Done \in Nat
    BY DEF AddrTypeInv, Lost, Done
  <1>2. \A n \in Nat : n + 1 # 0
    OBVIOUS
  <1> QED BY <1>1, <1>2, WriteOutcome

LEMMA SettleInit == Init => SettleInv
  BY DEF Init, SettleInv, UpToDate, Asked, Wanted, Idle

\* The worker reads flags and list while no change comes in between.
LEMMA SettleRead ==
    ASSUME AddrTypeInv, GroupInv, SettleInv, flags \subseteq Flags,
           WorkStart \/ ReadAllmulti \/ ReadEmpty \/ ReadList
    PROVE  SettleInv'
  <1> SUFFICES ASSUME Lost = 0, Done = 0, ~pending' PROVE UpToDate'
    BY DEF WorkStart, ReadAllmulti, ReadEmpty, ReadList, SettleInv, Lost, Done
  <1>1. UNCHANGED <<flags, mc, hashHi, hashLo, netCfg>> /\ worker \in WorkerState
    BY DEF WorkStart, ReadAllmulti, ReadEmpty, ReadList, GroupInv
  <1>9. ~WorkStart => UpToDate
    BY DEF ReadAllmulti, ReadEmpty, ReadList, SettleInv
  <1>2. \A s \in {"allmulti", "empty", "list"} : [worker EXCEPT !.step = s].step = s
    BY <1>1 DEF WorkerState
  <1>3. \A hi, lo : Asked("promisc", hi, lo)' <=> "promisc" \in flags
    BY <1>1 DEF Asked
  <1>4. CASE WorkStart
    <2>1. CASE "promisc" \in flags
      <3>1. worker' = [step |-> "config", hi |-> {}, lo |-> {}, mode |-> "promisc"]
        BY <1>4, <2>1 DEF WorkStart, At
      <3> QED BY <1>3, <2>1, <3>1 DEF UpToDate
    <2>2. CASE "promisc" \notin flags
      BY <1>1, <1>2, <1>4, <2>2 DEF WorkStart, Onto, UpToDate
    <2> QED BY <2>1, <2>2
  <1>5. CASE ReadAllmulti
    <2>1. "promisc" \notin flags
      BY <1>5, <1>9 DEF ReadAllmulti, WorkStart, UpToDate
    <2>2. CASE "allmulti" \in flags
      <3>1. worker' = [step |-> "high", hi |-> AllOnes, lo |-> AllOnes, mode |-> "multicast"]
        BY <1>5, <2>2 DEF ReadAllmulti, At
      <3>2. Asked("multicast", AllOnes, AllOnes)'
        BY <1>1, HashCovers DEF Asked, GroupInv
      <3> QED BY <3>1, <3>2 DEF UpToDate
    <2>3. CASE "allmulti" \notin flags
      <3>1. flags = {}
        BY <2>1, <2>3, FlagsAssumption
      <3> QED BY <1>1, <1>2, <1>5, <2>3, <3>1 DEF ReadAllmulti, Onto, UpToDate
    <2> QED BY <2>2, <2>3
  <1>6. CASE ReadEmpty
    <2>1. flags = {}
      BY <1>6, <1>9 DEF ReadEmpty, WorkStart, UpToDate
    <2>2. mc = {} => Asked("local", {}, {})'
      BY <1>1, <2>1 DEF Asked, Wanted
    <2>3. CASE mc = {}
      <3>1. worker' = [step |-> "high", hi |-> {}, lo |-> {}, mode |-> "local"]
        BY <1>6, <2>3 DEF ReadEmpty, At
      <3> QED BY <2>2, <2>3, <3>1 DEF UpToDate
    <2>4. CASE mc # {}
      BY <1>1, <1>2, <1>6, <2>1, <2>4 DEF ReadEmpty, Onto, UpToDate
    <2> QED BY <2>3, <2>4
  <1>7. CASE ReadList
    <2>1. flags = {} /\ mc \in SUBSET Groups
      BY <1>7, <1>9 DEF ReadList, WorkStart, UpToDate, GroupInv
    <2>2. worker' = [step |-> "high", hi |-> HashHi(mc), lo |-> HashLo(mc), mode |-> "multicast"]
      BY <1>7 DEF ReadList, At
    <2>3. Asked("multicast", HashHi(mc), HashLo(mc))'
      BY <1>1, <2>1, HashCovers DEF Asked, Wanted, Covers
    <2> QED BY <1>1, <2>2, <2>3 DEF UpToDate
  <1> QED BY <1>4, <1>5, <1>6, <1>7

\* A write that is done brings the registers to what was taken over.
LEMMA SettleWrite ==
    ASSUME AddrTypeInv, GroupInv, UpToDate, WriteHashHi \/ WriteHashLo \/ WriteNetCfg,
           Lost' = 0, Done' = 0
    PROVE  UpToDate'
  <1>1. UNCHANGED <<flags, mc, pending>> /\ worker \in WorkerState /\ Idle.step = "idle"
    BY DEF WriteHashHi, WriteHashLo, WriteNetCfg, GroupInv, Idle
  <1>2. Asked(worker.mode, worker.hi, worker.lo)
    BY DEF UpToDate, WriteHashHi, WriteHashLo, WriteNetCfg
  <1>3. \A mode, hi, lo : Asked(mode, hi, lo)' <=> Asked(mode, hi, lo)
    BY <1>1 DEF Asked, Wanted, Covers
  <1>4. \A s \in {"low", "config"} :
           LET w == [worker EXCEPT !.step = s] IN
           w.step = s /\ w.hi = worker.hi /\ w.lo = worker.lo /\ w.mode = worker.mode
    BY <1>1 DEF WorkerState
  <1>5. CASE WriteHashHi
    <2>1. hashHi' = worker.hi /\ worker' = [worker EXCEPT !.step = "low"]
      BY <1>5, WriteDone DEF WriteHashHi, Onto
    <2>2. worker'.step = "low" /\ worker'.hi = worker.hi /\ worker'.lo = worker.lo
          /\ worker'.mode = worker.mode
      BY <1>4, <2>1
    <2> QED BY <1>2, <1>3, <2>1, <2>2 DEF UpToDate
  <1>6. CASE WriteHashLo
    <2>1. /\ hashLo' = worker.lo /\ worker' = [worker EXCEPT !.step = "config"]
          /\ hashHi' = worker.hi
      BY <1>6, WriteDone DEF WriteHashLo, Onto, UpToDate
    <2>2. worker'.step = "config" /\ worker'.hi = worker.hi /\ worker'.lo = worker.lo
          /\ worker'.mode = worker.mode
      BY <1>4, <2>1
    <2> QED BY <1>2, <1>3, <2>1, <2>2 DEF UpToDate
  <1>7. CASE WriteNetCfg
    <2>1. /\ netCfg' = worker.mode /\ worker' = Idle /\ UNCHANGED <<hashHi, hashLo>>
          /\ worker.mode # "promisc" => hashHi = worker.hi /\ hashLo = worker.lo
      BY <1>7, WriteDone DEF WriteNetCfg, GiveUp, UpToDate
    <2>2. Asked(netCfg', hashHi, hashLo)
      BY <1>2, <2>1 DEF Asked
    <2>3. Asked(netCfg, hashHi, hashLo)'
      BY <1>1, <2>1, <2>2 DEF Asked, Wanted, Covers
    <2> QED BY <1>1, <2>1, <2>3 DEF UpToDate
  <1> QED BY <1>5, <1>6, <1>7

LEMMA SettleStep ==
    ASSUME AddrTypeInv, GroupInv, SettleInv, flags \subseteq Flags, [Next]_vars
    PROVE  SettleInv' /\ (flags \subseteq Flags)'
  <1>1. (flags \subseteq Flags)'
    BY DEF Next, SetMacAddress, ProbeSetsNodeId, WriteLow, WriteHigh, Restore, SetRxMode, Worker,
           WorkStart, ReadAllmulti, ReadEmpty, ReadList, WriteHashHi, WriteHashLo, WriteNetCfg,
           filterVars, vars
  <1>2. CASE SetRxMode
    BY <1>2 DEF SetRxMode, Rescheduled, SettleInv
  <1>3. CASE WorkStart \/ ReadAllmulti \/ ReadEmpty \/ ReadList
    BY <1>1, <1>3, SettleRead
  <1>4. CASE ~(Lost' = 0 /\ Done' = 0)
    BY <1>1, <1>4 DEF SettleInv
  <1>5. ASSUME Lost' = 0, Done' = 0,
               \/ SetMacAddress \/ ProbeSetsNodeId \/ WriteLow \/ WriteHigh \/ Restore
               \/ UNCHANGED vars
        PROVE  SettleInv'
    <2>1. UNCHANGED filterVars
      BY <1>5 DEF SetMacAddress, ProbeSetsNodeId, WriteLow, WriteHigh, Restore, vars
    <2>2. Lost = 0 /\ Done = 0
      BY <1>5, Unfailed
    <2> QED BY <2>1, <2>2 DEF filterVars, SettleInv, UpToDate, Asked, Wanted, Covers
  <1>6. ASSUME Lost' = 0, Done' = 0, WriteHashHi \/ WriteHashLo \/ WriteNetCfg
        PROVE  SettleInv'
    <2>1. Lost = 0 /\ Done = 0
      BY <1>6, Unfailed
    <2>2. pending' = pending
      BY <1>6 DEF WriteHashHi, WriteHashLo, WriteNetCfg
    <2>3. ~pending => UpToDate
      BY <2>1 DEF SettleInv
    <2>4. ~pending => UpToDate'
      BY <1>6, <2>3, SettleWrite
    <2> QED BY <2>2, <2>4 DEF SettleInv
  <1> QED BY <1>1, <1>2, <1>3, <1>4, <1>5, <1>6 DEF Next, Worker

LEMMA AddrInvariant == Spec => [](AddrTypeInv /\ AddrInv)
  <1>1. Init => AddrTypeInv /\ AddrInv
    BY AddrInit
  <1>2. AddrTypeInv /\ AddrInv /\ [Next]_vars => (AddrTypeInv /\ AddrInv)'
    <2> SUFFICES ASSUME AddrTypeInv, AddrInv, [Next]_vars
                 PROVE  AddrTypeInv' /\ AddrInv'
      OBVIOUS
    <2>1. CASE SetMacAddress \/ ProbeSetsNodeId
      BY <2>1, AddrStart
    <2>2. CASE WriteLow \/ WriteHigh \/ Restore
      BY <2>2, AddrWrite
    <2>3. CASE SetRxMode \/ Worker \/ UNCHANGED vars
      BY <2>3, AddrElsewhere
    <2> QED BY <2>1, <2>2, <2>3 DEF Next
  <1> QED BY <1>1, <1>2, PTL DEF Spec

LEMMA GroupInvariant == Spec => []GroupInv
  <1>1. Init => GroupInv
    BY GroupInit
  <1>2. GroupInv /\ [Next]_vars => GroupInv'
    <2> SUFFICES ASSUME GroupInv, [Next]_vars
                 PROVE  GroupInv'
      OBVIOUS
    <2>1. CASE SetRxMode
      BY <2>1, GroupSetRxMode
    <2>2. CASE WorkStart \/ ReadAllmulti \/ ReadEmpty \/ ReadList
      BY <2>2, GroupRead
    <2>3. CASE WriteHashHi \/ WriteHashLo \/ WriteNetCfg
      BY <2>3, GroupWrite
    <2>4. CASE \/ SetMacAddress \/ ProbeSetsNodeId \/ WriteLow \/ WriteHigh
               \/ Restore \/ UNCHANGED vars
      <3>1. UNCHANGED filterVars
        BY <2>4 DEF SetMacAddress, ProbeSetsNodeId, WriteLow, WriteHigh, Restore, vars
      <3> QED BY <3>1 DEF filterVars, GroupInv, Accepts, InHash
    <2> QED BY <2>1, <2>2, <2>3, <2>4 DEF Next, Worker
  <1> QED BY <1>1, <1>2, PTL DEF Spec

-----------------------------------------------------------------------------
(* The theorems.                                                           *)

\* With at most one write lost and none done but reported as failed, the two
\* registers hold the address of the netdev whenever no call is under way,
\* whichever write it was; after probe's call only if none was lost
\* (lan865x_set_hw_macaddr, lan865x_set_mac_address, lan865x_probe).
THEOREM AddressesAgree == Spec => []AddressConsistent
  <1>1. AddrTypeInv /\ AddrInv => AddressConsistent
    BY Halves DEF AddrTypeInv, AddrInv, AddressConsistent, Synced, Lost, Done
  <1> QED BY <1>1, AddrInvariant, PTL

\* A group that stays on the multicast list is received all the time: through
\* every interleaving of the worker's reads without a lock and its three
\* writes with changes of the list, and when a write fails half-way
\* (lan865x_multicast_work_handler).
THEOREM GroupsReceived == Spec => []GroupsKept
  <1>1. GroupInv => GroupsKept
    BY DEF GroupInv, GroupsKept
  <1> QED BY <1>1, GroupInvariant, PTL

\* Whenever the worker rests and has nothing to do, the filter is what flags and list
\* ask for, however they changed while it was reading and writing, unless a write has
\* failed (lan865x_set_multicast_list, lan865x_multicast_work_handler).
THEOREM FilterComesToRest == Spec => []FilterSettled
  <1>1. Init => SettleInv /\ flags \subseteq Flags
    BY SettleInit DEF Init
  <1>2. /\ AddrTypeInv /\ GroupInv /\ SettleInv /\ flags \subseteq Flags /\ [Next]_vars
        => (SettleInv /\ flags \subseteq Flags)'
    BY SettleStep
  <1>3. SettleInv => FilterSettled
    BY DEF SettleInv, UpToDate, FilterSettled, Asked, Accepts, InHash, Covers
  <1> QED BY <1>1, <1>2, <1>3, AddrInvariant, GroupInvariant, PTL DEF Spec

\* Addresses, flags, list, hash registers and the steps of both handlers stay what they
\* are declared as, and no more writes fail than the bound allows.
THEOREM FilterTyping == Spec => []TypeOK
  <1> DEFINE Registers == hashHi \subseteq AllOnes /\ hashLo \subseteq AllOnes
             Bounded == faults \in [{"lost", "done"} -> 0 .. MaxFaults] /\ Lost + Done <= MaxFaults
             Rest == Registers /\ Bounded /\ flags \subseteq Flags
  <1>1. Init => Rest
    BY EffectsAssumption DEF Init, Lost, Done
  <1>2. GroupInv /\ Rest /\ [Next]_vars => Rest'
    <2> SUFFICES ASSUME GroupInv, Rest, [Next]_vars PROVE Rest'
      OBVIOUS
    <2>1. \A old, value : \A w \in Outcomes(old, value) :
            /\ w.now \in {old, value}
            /\ Count(w) => Bounded'
      <3> SUFFICES ASSUME NEW old, NEW value, NEW w \in Outcomes(old, value)
                   PROVE  w.now \in {old, value} /\ (Count(w) => Bounded')
        OBVIOUS
      <3>1. CASE w = [how |-> "ok", now |-> value]
        BY <3>1 DEF Count, Ok, Lost, Done
      <3>2. CASE w # [how |-> "ok", now |-> value]
        <4>1. PICK e \in {"lost", "done"} :
                /\ w = [how |-> e, now |-> IF e = "done" THEN value ELSE old]
                /\ faults["lost"] + faults["done"] # MaxFaults
          BY <3>2, EffectsAssumption DEF Outcomes
        <4>2. Count(w) => faults' = [faults EXCEPT ![e] = @ + 1]
          BY <4>1 DEF Count, Ok
        <4>3. PICK k \in 0 .. MaxFaults, l \in 0 .. MaxFaults :
                k = faults["lost"] /\ l = faults["done"] /\ k + l < MaxFaults
          BY <4>1, EffectsAssumption DEF Lost, Done
        <4>4. k + 1 \in 0 .. MaxFaults /\ l + 1 \in 0 .. MaxFaults
              /\ (k + 1) + l <= MaxFaults /\ k + (l + 1) <= MaxFaults
          BY <4>3, EffectsAssumption
        <4>5. Count(w) => faults' \in [{"lost", "done"} -> 0 .. MaxFaults]
          BY <4>2, <4>3, <4>4
        <4>6. Count(w) => Lost' + Done' <= MaxFaults
          BY <4>2, <4>3, <4>4 DEF Lost, Done
        <4> QED BY <4>1, <4>5, <4>6
      <3> QED BY <3>1, <3>2
    <2>2. worker.hi \subseteq AllOnes /\ worker.lo \subseteq AllOnes
      BY DEF GroupInv, WorkerState
    <2>3. CASE SetMacAddress \/ ProbeSetsNodeId \/ UNCHANGED vars
      BY <2>3 DEF SetMacAddress, ProbeSetsNodeId, vars, filterVars, Lost, Done
    <2>4. CASE WriteLow \/ WriteHigh \/ Restore
      <3>1. Bounded' /\ UNCHANGED filterVars
        BY <2>1, <2>4 DEF WriteLow, WriteHigh, Restore
      <3> HIDE DEF Bounded
      <3> QED BY <3>1 DEF filterVars
    <2>5. CASE SetRxMode
      BY <2>5 DEF SetRxMode, Lost, Done
    <2>6. CASE WorkStart \/ ReadAllmulti \/ ReadEmpty \/ ReadList
      BY <2>6 DEF WorkStart, ReadAllmulti, ReadEmpty, ReadList, Lost, Done
    <2>7. CASE WriteHashHi \/ WriteHashLo \/ WriteNetCfg
      <3>1. Bounded' /\ UNCHANGED flags
        BY <2>1, <2>7 DEF WriteHashHi, WriteHashLo, WriteNetCfg
      <3>2. Registers'
        BY <2>1, <2>2, <2>7 DEF WriteHashHi, WriteHashLo, WriteNetCfg
      <3> HIDE DEF Bounded, Registers
      <3> QED BY <3>1, <3>2
    <2> QED BY <2>3, <2>4, <2>5, <2>6, <2>7 DEF Next, Worker
  <1>3. AddrTypeInv /\ GroupInv /\ Rest => TypeOK
    BY DEF AddrTypeInv, SetterState, GroupInv, WorkerState, TypeOK
  <1> QED BY <1>1, <1>2, <1>3, AddrInvariant, GroupInvariant, PTL DEF Spec
=============================================================================
