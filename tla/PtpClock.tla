------------------------------ MODULE PtpClock ------------------------------
(***************************************************************************)
(* The PTP hardware clock (lan865x_ptp.c) over the clock registers of the  *)
(* MAC-PHY (lan865x_arch.c). A call holds ptpdev->lock over several        *)
(* register accesses while the clock keeps running; a second is Second     *)
(* ticks, MAC_TSL counts Seconds of them (2^32), and a time in the driver  *)
(* is an unsigned number below Counter (2^64, no whole number of seconds). *)
(***************************************************************************)
EXTENDS Integers

CONSTANTS
  Callers,      \* processes that use the PTP clock device
  NULL,
  Second, Seconds, Counter,
  Times,        \* times to set
  Deltas,       \* offsets for adjtime, taken either way
  Freqs,        \* scaled_ppm for adjfine, taken either way
  MaxTicks,     \* bound: ticks of the clock while a call holds the lock
  MaxCalls,     \* bound: calls
  Faults        \* whether a register access may fail

Word == Seconds * Second    \* where the time of the registers wraps

\* A call takes less than a second, two signed times do not exceed an unsigned one.
ASSUME PtpAssumption ==
  /\ NULL \notin Callers
  /\ Second \in Nat \ {0, 1} /\ Seconds \in Nat \ {0, 1}
  /\ Counter \in Nat /\ Word <= Counter
  /\ Times \subseteq 0..Counter - 1
  /\ \A d \in Deltas : d \in Nat /\ Word + d <= Counter
  /\ MaxTicks \in 0..Second /\ MaxCalls \in Nat

VARIABLES
  tn, tsl,      \* MAC_TN and MAC_TSL, nanoseconds and seconds
  ti, tisubn,   \* MAC_TI and MAC_TISUBN, the increment per 25 MHz cycle
  holder,       \* who holds ptpdev->lock, interrupts disabled
  pc, call,     \* per caller: the next step, and the call with its locals
  ticks, calls, \* history: ticks passed since the lock was taken, calls begun
  leaked        \* history: an adjtime by nothing has taken the lock
vars == <<tn, tsl, ti, tisubn, holder, pc, call, ticks, calls, leaked>>
mac == <<tn, tsl, ti, tisubn>>
hist == <<ticks, calls, leaked>>

Clock == tsl * Second + tn
Unknown == 0
NoCall == [op |-> "none", arg |-> 0, nsec |-> Unknown, value |-> Unknown,
           from |-> Unknown, to |-> Unknown, set |-> Unknown, old |-> Unknown,
           split |-> FALSE, failed |-> FALSE]

\* adjfine: an increment of 40 ns, times 2^24, plus the share scaled_ppm asks
\* for (10240 * |scaled_ppm| / 1000000, cancelled), in whole units.
Base == 40 * 2^24
Abs(x) == IF x < 0 THEN -x ELSE x
DiffB24(scaled) == (32 * Abs(scaled)) \div 3125
TicksScale(scaled) == IF scaled < 0 THEN Base - DiffB24(scaled) ELSE Base + DiffB24(scaled)

\* max_adj (lan865x.c:552) keeps the share far below the whole.
ASSUME FreqAssumption == \A f \in Freqs : f \in Nat /\ DiffB24(f) <= Base

\* lan865x_set_sys_clock_ti: the low byte of the 24 bits goes to the top of
\* MAC_TISUBN; here a pair <<bits 23..8, bits 7..0>>.
Subnano_Plain(scale) == <<scale % 2^16, (scale % 2^24) \div 2^16>>
Subnano(scale) == <<(scale % 2^24) \div 2^8, scale % 2^8>>
Nano(scale) == (scale \div 2^24) % 256

Init ==
  /\ tn \in 0..Second - 1 /\ tsl = 0 /\ ti = 40 /\ tisubn = <<0, 0>>
  /\ holder = NULL
  /\ pc = [c \in Callers |-> "idle"] /\ call = [c \in Callers |-> NoCall]
  /\ ticks = 0 /\ calls = 0 /\ leaked = FALSE

\* The clock of the MAC-PHY runs on, in and between the calls.
Running(c) == pc[c] \notin {"idle", "lock"}
Tick ==
  /\ IF \E c \in Callers : Running(c) THEN ticks < MaxTicks /\ ticks' = ticks + 1
     ELSE UNCHANGED ticks
  /\ tn' = (tn + 1) % Second
  /\ tsl' = (tsl + (tn + 1) \div Second) % Seconds
  /\ UNCHANGED <<ti, tisubn, holder, pc, call, calls, leaked>>

EitherWay(S) == S \cup {-x : x \in S}
Calls == [op : {"gettimex64"}, arg : {0}] \cup [op : {"settime64"}, arg : Times]
         \cup [op : {"adjtime"}, arg : EitherWay(Deltas)]
         \cup [op : {"adjfine"}, arg : EitherWay(Freqs)]

Begin(c) ==
  /\ pc[c] = "idle" /\ calls < MaxCalls /\ calls' = calls + 1
  /\ \E x \in Calls : call' = [call EXCEPT ![c] =
       [NoCall EXCEPT !.op = x.op, !.arg = x.arg,
                      !.value = IF x.op = "settime64" THEN x.arg ELSE Unknown]]
  /\ pc' = [pc EXCEPT ![c] = "lock"]
  /\ UNCHANGED <<mac, holder, ticks, leaked>>

\* Each call takes the lock first; adjtime by nothing returns with it held.
Free_Always(c) == TRUE
Free(c) == holder = NULL

AfterLock_NoExit(x) ==
  IF x.op = "settime64" THEN "write_tn"
  ELSE IF x.arg = 0 /\ x.op # "gettimex64" THEN "idle"
  ELSE IF x.op = "adjfine" THEN "write_ti" ELSE "read_tn"
AfterLock(x) ==
  IF x.op = "adjtime" /\ x.arg = 0 THEN "idle"
  ELSE IF x.op \in {"gettimex64", "adjtime"} THEN "read_tn"
  ELSE IF x.op = "settime64" THEN "write_tn"
  ELSE IF x.arg = 0 THEN "unlock" ELSE "write_ti"

Lock(c) ==
  /\ pc[c] = "lock" /\ Free(c) /\ holder' = c
  /\ pc' = [pc EXCEPT ![c] = AfterLock(call[c])]
  /\ leaked' = (leaked \/ (call[c].op = "adjtime" /\ call[c].arg = 0))
  /\ UNCHANGED <<mac, call, ticks, calls>>

\* lan865x_get_sys_clock: nanoseconds, then seconds; a failed read gives the
\* error, -ENODEV, as the time, and the upper seconds are read and not used.
Got_Swapped(x, s, n) == s * Second + n
Got(x, s, n) == s * Second + x.nsec
Finish(c, v, failed) ==
  /\ call' = [call EXCEPT ![c].value = IF call[c].op = "adjtime" THEN (v + call[c].arg) % Counter ELSE v,
                          ![c].to = Clock, ![c].failed = failed]
  /\ pc' = [pc EXCEPT ![c] = IF call[c].op = "adjtime" THEN "write_tn" ELSE "unlock"]

ReadTN(c) ==
  /\ pc[c] = "read_tn"
  /\ call' = [call EXCEPT ![c].nsec = tn, ![c].from = Clock]
  /\ pc' = [pc EXCEPT ![c] = "read_tsl"]
  /\ UNCHANGED <<mac, holder, hist>>

ReadTSL(c) ==
  /\ pc[c] = "read_tsl" /\ Finish(c, Got(call[c], tsl, tn), FALSE)
  /\ UNCHANGED <<mac, holder, hist>>

ReadFails(c) ==
  /\ Faults /\ pc[c] \in {"read_tn", "read_tsl"} /\ Finish(c, Counter - 1, TRUE)
  /\ UNCHANGED <<mac, holder, hist>>

\* lan865x_set_sys_clock: nanoseconds, then seconds, then their upper half;
\* its callers do not look at its result. The call keeps, for the properties, how
\* many ticks there were at the first write, and whether a second began between
\* the two.
Nanoseconds_Unsplit(v) == v
Nanoseconds(v) == v % Second

WriteTN(c) ==
  /\ pc[c] = "write_tn" /\ tn' = Nanoseconds(call[c].value)
  /\ call' = [call EXCEPT ![c].set = ticks, ![c].old = tsl]
  /\ pc' = [pc EXCEPT ![c] = "write_tsl"]
  /\ UNCHANGED <<tsl, ti, tisubn, holder, hist>>

WriteTSL(c) ==
  /\ pc[c] = "write_tsl" /\ tsl' = (call[c].value \div Second) % Seconds
  /\ call' = [call EXCEPT ![c].split = tsl # call[c].old]
  /\ pc' = [pc EXCEPT ![c] = "unlock"]
  /\ UNCHANGED <<tn, ti, tisubn, holder, hist>>

\* lan865x_set_sys_clock_ti: whole nanoseconds, then the fraction.
WriteTI(c) ==
  /\ pc[c] = "write_ti" /\ ti' = Nano(TicksScale(call[c].arg))
  /\ pc' = [pc EXCEPT ![c] = "write_tisubn"]
  /\ UNCHANGED <<tn, tsl, tisubn, holder, call, hist>>

WriteTISUBN(c) ==
  /\ pc[c] = "write_tisubn" /\ tisubn' = Subnano(TicksScale(call[c].arg))
  /\ pc' = [pc EXCEPT ![c] = "unlock"]
  /\ UNCHANGED <<tn, tsl, ti, holder, call, hist>>

\* A failed write ends lan865x_set_sys_clock and nothing else.
WriteFails(c) ==
  /\ Faults /\ pc[c] \in {"write_tn", "write_tsl", "write_ti", "write_tisubn"}
  /\ pc' = [pc EXCEPT ![c] = IF pc[c] = "write_ti" THEN "write_tisubn" ELSE "unlock"]
  /\ call' = [call EXCEPT ![c].failed = TRUE]
  /\ UNCHANGED <<mac, holder, hist>>

Unlock(c) ==
  /\ pc[c] = "unlock" /\ holder' = NULL /\ pc' = [pc EXCEPT ![c] = "idle"]
  /\ call' = [call EXCEPT ![c] = NoCall] /\ ticks' = 0
  /\ UNCHANGED <<mac, calls, leaked>>

Step(c) == Lock(c) \/ ReadTN(c) \/ ReadTSL(c) \/ ReadFails(c) \/ WriteTN(c) \/ WriteTSL(c)
           \/ WriteTI(c) \/ WriteTISUBN(c) \/ WriteFails(c) \/ Unlock(c)
Next == Tick \/ \E c \in Callers : Begin(c) \/ Step(c)

Spec == Init /\ [][Next]_vars

-----------------------------------------------------------------------------
Steps == {"idle", "lock", "read_tn", "read_tsl", "write_tn", "write_tsl", "write_ti",
          "write_tisubn", "unlock"}

\* Registers keep their width: a second's worth of nanoseconds, the 16 and 8
\* bits of MAC_TISUBN.
TypeOK ==
  /\ tn \in 0..Second - 1 /\ tsl \in 0..Seconds - 1
  /\ ti \in 0..255 /\ tisubn \in (0..2^16 - 1) \X (0..2^8 - 1)
  /\ holder \in Callers \cup {NULL} /\ pc \in [Callers -> Steps]
  /\ ticks \in 0..MaxTicks /\ calls \in 0..MaxCalls /\ leaked \in BOOLEAN

\* A call about to return whose register accesses all went well.
Returning(c, op) == pc[c] = "unlock" /\ call[c].op = op /\ ~call[c].failed
Carried(x) == x.from \div Second # x.to \div Second

\* gettimex64 reports a time at which the clock really stood, unless a second
\* began between its two reads, and then it is ahead by less than a second,
\* never behind (lan865x_get_sys_clock): nobody sets the clock in between.
ReadingTrue == \A c \in Callers : Returning(c, "gettimex64") =>
  LET x == call[c]
  IN IF Carried(x) THEN (x.value - x.from) % Word < ((x.to - x.from) % Word) + Second
     ELSE x.value = x.from

\* Without that allowance: the clock stood at the time reported at some moment
\* between the two reads.
ReadingStood == \A c \in Callers : Returning(c, "gettimex64") =>
  LET x == call[c] IN (x.value - x.from) % Word <= (x.to - x.from) % Word

\* settime64 leaves the clock at the time asked for plus what has passed since,
\* a second less if and only if one began between its two writes. adjtime moves
\* the clock by the offset asked for from where it stood when adjtime read it, a
\* second more if one began between its two reads and a second less if one began
\* between its writes, unless that would be before time 0. Both whatever the other
\* callers do.
WritesLand == \A c \in Callers :
  LET x == call[c]  passed == ticks - x.set
      late == IF x.split THEN Second ELSE 0
      read == (x.from + IF Carried(x) THEN Second ELSE 0) % Word
  IN /\ Returning(c, "settime64") => (Clock - (x.arg + passed - late)) % Word = 0
     /\ Returning(c, "adjtime") /\ read + x.arg >= 0 =>
          (Clock - (read + x.arg + passed - late)) % Word = 0

Rate == ti * 2^24 + tisubn[1] * 2^8 + tisubn[2]

\* adjfine: the increment the MAC-PHY then applies differs from 40 ns by the
\* share asked for, to the last of its 24 fraction bits and in its direction.
RateAsAsked == \A c \in Callers : Returning(c, "adjfine") /\ call[c].arg # 0 =>
  LET moved == IF call[c].arg < 0 THEN Base - Rate ELSE Rate - Base
  IN 3125 * moved <= 32 * Abs(call[c].arg) /\ 32 * Abs(call[c].arg) < 3125 * (moved + 1)

\* No path through a call, failing register accesses included, returns with
\* ptpdev->lock held, but an adjtime by nothing (lan865x_ptp.c:138): until then
\* who holds the lock is in the middle of its call.
InTheCall == holder # NULL /\ ~leaked => holder \in Callers /\ Running(holder)
=============================================================================
