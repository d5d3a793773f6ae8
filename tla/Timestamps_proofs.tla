------------------------- MODULE Timestamps_proofs -------------------------
(***************************************************************************)
(* Proofs that a transmit timestamp is given to the frame it belongs to,   *)
(* and to a clone that is still there, while requests of a kind come one   *)
(* at a time and the PTP thread's writes of STATUS0 work, for every set of *)
(* frames, of errors and of failures, any capacity of the queue and any    *)
(* number of changes of the configuration; and that what one of the        *)
(* threads that share STATUS0 has yet to serve is lost only to a clear.    *)
(***************************************************************************)
EXTENDS Timestamps, SequenceTheorems, TLAPS

\* The two values the code reads without having written them have the bits
\* that do no harm: no capture mode for a frame without a request, no status
\* before the first read has succeeded (lan865x.c:316, lan865x_ptp.c).
Initialised == UnsetModes \subseteq {NONE} /\ UnsetStatus \subseteq {{}}

-----------------------------------------------------------------------------
(* The inductive invariant.  The capture bit of a mode passes from the     *)
(* queue to STATUS0, from there to the PTP thread's status, and is served  *)
(* there; a request holds its mode until that is over, while nobody was    *)
(* hasty and no clear of the PTP thread has failed.                        *)

Kinds == {GPTP, NORMAL}
Status == SUBSET (TsBits \cup ErrorBits)
Held == Frames \cup {NULL}
PtpState == [step : {"poll", "high", "low", "report", "free", "clear", "oops"},
             at : 0 .. 3, hi : Held, lo : Held, status : Status]
SpiState == [step : {"idle", "read", "clear", "act", "dead"}, value : Status]

TypeInv ==
  /\ offered \subseteq Frames
  /\ waiting \in [Kinds -> Requesting \cup {NULL}]
  /\ refs \in [Kinds -> Nat]
  /\ queue \in Seq(Frames \X (0 .. 3))
  /\ status0 \in Status
  /\ captured \in [Modes -> Held]
  /\ ptp \in PtpState /\ spi \in SpiState
  /\ stamps \in Seq(Requesting \X Held \X Held)
  /\ due \subseteq Kinds /\ hasty \in Nat /\ unclear \in Nat

\* Which capture the PTP thread is at, and that only the two kinds have captures.
ShapeInv ==
  /\ ptp.step = "poll" => ptp.status = {}
  /\ ptp.step \in {"high", "low", "report", "free"} =>
       ptp.at \in Kinds /\ TsBit(ptp.at) \in ptp.status
  /\ TsBit(RESERVED) \notin status0 \cup ptp.status
  /\ \A i \in 1 .. Len(queue) : queue[i][2] \in Kinds \cup {NONE}

\* The PTP thread is about to release what waiting_txts_skb of mode k points at.
Freeing(k) == ptp.step = "free" /\ ptp.at = k

\* A request that is neither answered nor lost: its clone waits, with a reference to
\* spare for the thread if that is about to release the one before it.
Fresh(k) ==
  /\ k \in due /\ waiting[k] \in Requesting /\ ModeOf(waiting[k]) = k
  /\ waiting[k] \in offered /\ ~Stamped(waiting[k])
  /\ refs[k] > 0 /\ (Freeing(k) => refs[k] > 1)

\* Its timestamp is in the capture register.
Ready(k) == Fresh(k) /\ captured[k] = waiting[k]

\* The bit of a mode that is in the queue is not to be served; if it is still set
\* the frame of that capture has its timestamp.
QueueInv ==
  /\ \A i \in 1 .. Len(queue) : queue[i][2] # NONE =>
       /\ Fresh(queue[i][2]) /\ queue[i][1] = waiting[queue[i][2]]
       /\ ~Serving(queue[i][2])
       /\ TsBit(queue[i][2]) \in status0 =>
            TsBit(queue[i][2]) \in ptp.status /\ Stamped(captured[queue[i][2]])
  /\ \A i, j \in 1 .. Len(queue) :
       queue[i][2] # NONE /\ queue[i][2] = queue[j][2] => i = j

\* A bit that is to be served is that of the clone; one that has been served, and
\* is still set, is that of a stamped frame or again that of the clone.
BitInv == \A k \in Kinds :
  /\ TsBit(k) \in status0 \ ptp.status \/ Serving(k) => Ready(k)
  /\ TsBit(k) \in status0 => Ready(k) \/ Stamped(captured[k])

PtpInv ==
  /\ ptp.step \in {"low", "report"} => ptp.hi \in {captured[ptp.at], NULL}
  /\ ptp.step = "report" => ptp.lo \in {captured[ptp.at], NULL}
  /\ \A k \in Kinds : Freeing(k) => waiting[k] \in Requesting /\ refs[k] > 0
  /\ ptp.step # "oops"

StampInv ==
  /\ OwnStamps
  /\ \A i \in 1 .. Len(stamps) : stamps[i][1] \in offered

RequestInv == QueueInv /\ BitInv /\ PtpInv /\ StampInv
Calm == OneAtATime => RequestInv

\* A request on its way to its timestamp: the frame waits for the wire, or it has left
\* and the bit of its capture waits for the PTP thread or is being served.
UnderWay(f) ==
  \/ \E i \in 1 .. Len(queue) : queue[i] = <<f, ModeOf(f)>>
  \/ /\ waiting[ModeOf(f)] = f /\ captured[ModeOf(f)] = f /\ ~Stamped(f)
     /\ TsBit(ModeOf(f)) \in status0 \/ Serving(ModeOf(f))

\* It stays on its way until it is answered, unless one of the two threads clears its
\* bit.
StaysUnderWay(f) ==
  UnderWay(f) => \/ UnderWay(f)' \/ Stamped(f)'
                 \/ SpiClear /\ TsBit(ModeOf(f)) \in spi.value
                 \/ PtpClear /\ TsBit(ModeOf(f)) \in ptp.status
RequestsKept == \A f \in Requesting : StaysUnderWay(f)

\* An error the SPI thread has yet to act upon and can know of.
Known(e) == spi.step # "dead" /\ e \in unacted \cap (status0 \cup spi.value)

\* It stays known until the thread acts upon it or ends, unless the PTP thread clears
\* its bit.
ErrorsKept == \A e \in Errors :
  Known(e) => \/ Known(e)' \/ spi'.step = "dead"
              \/ SpiAct /\ e \in spi.value
              \/ PtpClear /\ e \in ptp.status

-----------------------------------------------------------------------------
(* Facts about the operators of the model.                                 *)

USE DEF NONE, GPTP, NORMAL, RESERVED, stack, wire, history

\* A set of modes that is not empty has a least one.
LEMMA LeastMode ==
    ASSUME NEW S \in SUBSET Modes, S # {}
    PROVE  Min(S) \in S /\ \A m \in S : Min(S) <= m
  <1> DEFINE Least(x) == x \in S /\ \A m \in S : x <= m
  <1>1. \E x \in S : \A m \in S : x <= m
    <2>1. S \subseteq {1, 2, 3}
      BY DEF Modes
    <2>2. CASE 1 \in S
      BY <2>1, <2>2
    <2>3. CASE 1 \notin S /\ 2 \in S
      BY <2>1, <2>3
    <2>4. CASE 1 \notin S /\ 2 \notin S
      <3>1. S = {3}
        BY <2>1, <2>4
      <3> QED BY <3>1
    <2> QED BY <2>2, <2>3, <2>4
  <1> QED BY <1>1 DEF Min

\* Capture bits and error bits are different bits, one of each mode.
LEMMA BitsApart ==
    /\ TsBits = {8, 9, 10} /\ ErrorBits = {0, 3, 4, 5}
    /\ \A k \in Modes : TsBit(k) \in TsBits /\ TsBit(k) \notin Errors
    /\ \A k, m \in Modes : TsBit(k) = TsBit(m) => k = m
  <1>1. TsBits = {8, 9, 10} /\ ErrorBits = {0, 3, 4, 5}
    BY DEF TsBits, TsBit, Modes, ErrorBits, TXPE, RXBOE, LOFE, HDRE
  <1> QED BY <1>1, BitsAssumption DEF TsBit, Modes

\* The next step of a round: the next capture bit in the status, the write
\* back when there was one, or the poll.
LEMMA OnwardServes ==
    ASSUME NEW p \in PtpState, NEW m \in 0 .. 3, NEW q, q = Onward(p, m)
    PROVE  /\ q \in PtpState
           /\ \/ /\ q.step = "high" /\ q.at \in Modes /\ q.at > m
                 /\ q.status = p.status /\ TsBit(q.at) \in p.status
                 /\ \A k \in Modes : k > m /\ TsBit(k) \in p.status => q.at <= k
              \/ q.step = "clear" /\ q.status = p.status
                 /\ \A k \in Modes : k > m => TsBit(k) \notin p.status
              \/ q.step = "poll" /\ q.status = {}
                 /\ \A k \in Modes : TsBit(k) \notin p.status
  <1>1. PICK left \in SUBSET Modes : left = Pending(p.status, m)
    BY DEF Pending
  <1>2. \A k \in Modes : k \in left <=> k > m /\ TsBit(k) \in p.status
    BY <1>1 DEF Pending
  <1>3. Modes \subseteq 0 .. 3 /\ NULL \in Held /\ {} \in Status /\ 0 \in 0 .. 3
    BY DEF Modes, Held, Status
  <1>4. CASE left # {}
    <2>1. PICK x \in left : x = Min(left) /\ \A k \in left : x <= k
      BY <1>4, LeastMode
    <2>2. q = [p EXCEPT !.step = "high", !.at = x]
      BY <1>1, <1>4, <2>1 DEF Onward
    <2>3. q \in PtpState /\ q.step = "high" /\ q.at = x /\ q.status = p.status
      BY <1>3, <2>2 DEF PtpState
    <2> QED BY <1>2, <2>1, <2>3
  <1>5. CASE left = {} /\ p.status \cap TsBits # {}
    <2>1. q = [p EXCEPT !.step = "clear", !.at = NONE]
      BY <1>1, <1>5 DEF Onward
    <2>2. q \in PtpState /\ q.step = "clear" /\ q.status = p.status
      BY <1>3, <2>1 DEF PtpState
    <2> QED BY <1>2, <1>5, <2>2
  <1>6. CASE left = {} /\ p.status \cap TsBits = {}
    <2>1. q = [p EXCEPT !.step = "poll", !.at = NONE, !.status = {}]
      BY <1>1, <1>6 DEF Onward
    <2>2. q \in PtpState /\ q.step = "poll" /\ q.status = {}
      BY <1>3, <2>1 DEF PtpState
    <2> QED BY <1>6, <2>2, BitsApart
  <1> QED BY <1>4, <1>5, <1>6

-----------------------------------------------------------------------------
(* Typing.                                                                 *)

LEMMA TypeInit == Initialised /\ Init => TypeInv /\ ShapeInv
  <1> SUFFICES ASSUME Initialised, Init PROVE TypeInv /\ ShapeInv
    OBVIOUS
  <1>1. ptp \in PtpState
    <2>1. UnsetStatus \subseteq Status /\ NULL \in Held /\ 0 \in 0 .. 3
      BY DEF Initialised, Status, Held
    <2> QED BY <2>1 DEF Init, PtpState
  <1>2. spi \in SpiState
    BY DEF Init, SpiState, Status
  <1>3. TypeInv
    BY <1>1, <1>2, EmptySeq DEF Init, TypeInv, Kinds, Held, Status
  <1>4. ShapeInv
    BY EmptySeq DEF Init, Initialised, ShapeInv
  <1> QED BY <1>3, <1>4

\* The transmit function: what it keeps and queues.
LEMMA OfferQueues ==
    ASSUME Initialised, TypeInv, NEW f \in Frames, Offer(f)
    PROVE  \/ queue' = queue /\ due' = due
           \/ \E m \in 0 .. 3 :
                /\ queue' = Append(queue, <<f, m>>) /\ <<f, m>> \in Frames \X (0 .. 3)
                /\ offered' = offered \cup {f}
                /\ IF f \in Requesting /\ txOn
                   THEN m = ModeOf(f) /\ due' = due \cup {ModeOf(f)}
                   ELSE m = NONE /\ due' = due
  <1>1. CASE Queued(f)
    <2>1. PICK m \in CaptureModes(f) : queue' = Append(queue, <<f, m>>)
      BY <1>1 DEF Queued
    <2>2. m \in 0 .. 3 /\ m = IF f \in Requesting /\ txOn THEN ModeOf(f) ELSE NONE
      BY <2>1 DEF CaptureModes, ModeOf, Initialised
    <2> QED BY <1>1, <2>1, <2>2 DEF Queued
  <1>2. CASE Dropped(f) \/ Refused
    BY <1>2 DEF Dropped, Refused
  <1> QED BY <1>1, <1>2 DEF Offer

LEMMA TypeOffer ==
    ASSUME Initialised, TypeInv, ShapeInv, NEW f \in Frames, Offer(f)
    PROVE  TypeInv' /\ ShapeInv'
  <1>1. ModeOf(f) \in Kinds /\ (f \in Requesting => f \in Requesting \cup {NULL})
    BY DEF ModeOf, Kinds
  <1>2. /\ waiting' \in [Kinds -> Requesting \cup {NULL}]
        /\ refs' \in [Kinds -> Nat] /\ hasty' \in Nat
    <2>1. Keep(f) /\ waiting \in [Kinds -> Requesting \cup {NULL}]
          /\ refs \in [Kinds -> Nat] /\ hasty \in Nat /\ CloneRefs \in Nat
      BY DEF Offer, TypeInv, CloneRefs
    <2>2. CASE f \in Requesting /\ txOn
      <3>1. /\ waiting' = [waiting EXCEPT ![ModeOf(f)] = f]
            /\ refs' = [refs EXCEPT ![ModeOf(f)] = CloneRefs]
            /\ hasty' \in {hasty, hasty + 1}
        BY <2>1, <2>2 DEF Keep
      <3> QED BY <1>1, <2>1, <2>2, <3>1
    <2>3. CASE ~(f \in Requesting /\ txOn)
      BY <2>1, <2>3 DEF Keep
    <2> QED BY <2>2, <2>3
  <1>3. /\ queue' \in Seq(Frames \X (0 .. 3)) /\ due' \subseteq Kinds
        /\ \A i \in 1 .. Len(queue') : queue'[i][2] \in Kinds \cup {NONE}
    <2>1. queue \in Seq(Frames \X (0 .. 3)) /\ due \subseteq Kinds
      BY DEF TypeInv
    <2>2. CASE queue' = queue /\ due' = due
      BY <2>1, <2>2 DEF ShapeInv
    <2>3. CASE ~(queue' = queue /\ due' = due)
      <3>1. PICK m \in 0 .. 3 :
              /\ queue' = Append(queue, <<f, m>>) /\ <<f, m>> \in Frames \X (0 .. 3)
              /\ m \in Kinds \cup {NONE} /\ due' \subseteq Kinds
        BY <1>1, <2>1, <2>3, OfferQueues
      <3>2. /\ Len(queue) \in Nat /\ Len(queue') = Len(queue) + 1
            /\ queue' \in Seq(Frames \X (0 .. 3)) /\ queue'[Len(queue) + 1] = <<f, m>>
            /\ \A i \in 1 .. Len(queue) : queue'[i] = queue[i]
        BY <2>1, <3>1, AppendProperties, LenProperties
      <3> QED BY <3>1, <3>2 DEF ShapeInv
    <2> QED BY <2>2, <2>3
  <1>4. offered' \subseteq Frames
    BY DEF Offer, Queued, Dropped, Refused, TypeInv
  <1>5. UNCHANGED <<status0, captured, ptp, spi, stamps, unclear>>
    BY DEF Offer
  <1> QED BY <1>2, <1>3, <1>4, <1>5 DEF TypeInv, ShapeInv

\* The PTP thread.
LEMMA TypePtp ==
    ASSUME TypeInv, ShapeInv, PtpThread
    PROVE  TypeInv' /\ ShapeInv'
  <1>1. ptp \in PtpState /\ status0 \in Status /\ Kinds \subseteq 0 .. 3 /\ NULL \in Held
        /\ Kinds = Modes \ {RESERVED} /\ TsBit(RESERVED) \notin status0 \cup ptp.status
    BY DEF TypeInv, ShapeInv, Kinds, Modes, Held
  <1>2. CASE PtpRead \/ PtpReadFails
    <2>1. PICK p \in PtpState : p.status \in {status0, ptp.status} /\ ptp' = Onward(p, NONE)
      <3>1. /\ [ptp EXCEPT !.status = status0] \in PtpState
            /\ [ptp EXCEPT !.status = status0].status = status0
        BY <1>1 DEF PtpState
      <3> QED BY <1>1, <1>2, <3>1 DEF PtpRead, PtpReadFails
    <2>2. NONE \in 0 .. 3 /\ TsBit(RESERVED) \notin p.status
      BY <1>1, <2>1
    <2>3. PICK q : q = ptp'
      OBVIOUS
    <2>4. /\ q \in PtpState /\ q.step \in {"high", "clear", "poll"}
          /\ q.step = "poll" => q.status = {}
          /\ q.step = "high" => q.at \in Modes /\ TsBit(q.at) \in q.status
          /\ TsBit(RESERVED) \notin q.status
      BY <2>1, <2>2, <2>3, OnwardServes
    <2>5. q.step = "high" => q.at \in Kinds
      BY <1>1, <2>4
    <2> QED BY <1>2, <2>3, <2>4, <2>5 DEF TypeInv, ShapeInv, PtpRead, PtpReadFails
  <1>3. CASE ReadHigh \/ ReadLow
    <2>1. ptp.at \in Kinds
      BY <1>3 DEF ShapeInv, ReadHigh, ReadLow
    <2>2. Half(ptp.at) \subseteq Held
      BY <1>1, <2>1 DEF Half, RegisterOf, TypeInv, Held
    <2>3. /\ ptp' \in PtpState /\ ptp'.at = ptp.at /\ ptp'.status = ptp.status
          /\ ptp'.step \in {"low", "report"} /\ ptp.step \in {"high", "low"}
      BY <1>1, <1>3, <2>2 DEF ReadHigh, ReadLow, PtpState
    <2> QED BY <1>3, <2>3 DEF TypeInv, ShapeInv, ReadHigh, ReadLow
  <1>4. CASE Report
    <2>1. /\ ptp.step = "report" /\ ptp.at \in Kinds /\ ptp.at # RESERVED
          /\ ptp.hi \in Held /\ ptp.lo \in Held
      BY <1>1, <1>4 DEF ShapeInv, Report, PtpState
    <2>2. /\ ptp' \in PtpState /\ ptp'.at = ptp.at /\ ptp'.status = ptp.status
          /\ ptp'.step \in {"free", "oops"}
      BY <1>1, <1>4, <2>1 DEF Report, Oops, PtpState
    <2>3. stamps' \in Seq(Requesting \X Held \X Held) /\ due' \subseteq Kinds
      <3>1. CASE Live(ptp.at)
        <4>1. waiting[ptp.at] \in Requesting
          BY <2>1, <3>1 DEF Live, TypeInv
        <4>2. <<waiting[ptp.at], ptp.hi, ptp.lo>> \in Requesting \X Held \X Held
          BY <2>1, <4>1
        <4>3. /\ stamps' = Append(stamps, <<waiting[ptp.at], ptp.hi, ptp.lo>>)
              /\ due' = due \ {ptp.at}
          BY <1>4, <2>1, <3>1 DEF Report
        <4> QED BY <4>2, <4>3, AppendProperties DEF TypeInv
      <3>2. CASE ~Live(ptp.at)
        BY <1>4, <2>1, <3>2 DEF Report, TypeInv
      <3> QED BY <3>1, <3>2
    <2>4. UNCHANGED <<offered, waiting, refs, queue, status0, captured, spi, hasty, unclear>>
      BY <1>4 DEF Report
    <2>5. TypeInv'
      BY <2>2, <2>3, <2>4 DEF TypeInv
    <2>6. ShapeInv'
      BY <2>1, <2>2, <2>4 DEF ShapeInv
    <2> QED BY <2>5, <2>6
  <1>5. CASE Free
    <2>1. ptp.step = "free" /\ ptp.at \in Kinds /\ ptp.at \in 0 .. 3
          /\ TsBit(ptp.at) \in ptp.status /\ ptp.at \in Modes
      BY <1>1, <1>5 DEF ShapeInv, Free
    <2>2. /\ ptp' \in PtpState
          /\ ptp'.step = "poll" => ptp'.status = {}
          /\ ptp'.step \in {"high", "low", "report", "free"} =>
               ptp'.at \in Kinds /\ TsBit(ptp'.at) \in ptp'.status
          /\ TsBit(RESERVED) \notin ptp'.status
      <3>1. CASE ptp' = Onward(ptp, ptp.at)
        <4>1. PICK q : q = ptp'
          OBVIOUS
        <4>2. /\ q \in PtpState /\ q.step \in {"high", "clear", "poll"}
              /\ q.step = "poll" => q.status = {}
              /\ q.step = "high" => q.at \in Modes /\ TsBit(q.at) \in q.status
              /\ TsBit(RESERVED) \notin q.status
          BY <1>1, <2>1, <3>1, <4>1, OnwardServes
        <4> QED BY <1>1, <4>1, <4>2
      <3>2. CASE Oops
        BY <1>1, <3>2 DEF Oops, PtpState
      <3> QED BY <1>5, <3>1, <3>2 DEF Free
    <2>3. refs' \in [Kinds -> Nat]
      BY <1>5, <2>1 DEF Free, Live, TypeInv
    <2> QED BY <1>5, <2>2, <2>3 DEF TypeInv, ShapeInv, Free
  <1>6. CASE PtpClear \/ PtpClearFails
    <2>1. ptp' \in PtpState /\ ptp'.status = {} /\ ptp'.step = "poll"
      BY <1>1, <1>6 DEF PtpClear, PtpClearFails, PtpState, Status
    <2>2. status0' \in Status /\ status0' \subseteq status0
      BY <1>1, <1>6 DEF PtpClear, PtpClearFails, Cleared, Status
    <2>3. due' \subseteq Kinds /\ unclear' \in Nat
      BY <1>6 DEF PtpClear, PtpClearFails, TypeInv
    <2>4. UNCHANGED <<offered, waiting, refs, queue, captured, spi, stamps, hasty>>
      BY <1>6 DEF PtpClear, PtpClearFails
    <2>5. TypeInv'
      BY <2>1, <2>2, <2>3, <2>4 DEF TypeInv
    <2>6. ShapeInv'
      BY <1>1, <2>1, <2>2, <2>4 DEF ShapeInv
    <2> QED BY <2>5, <2>6
  <1> QED BY <1>2, <1>3, <1>4, <1>5, <1>6 DEF PtpThread

\* The head of the queue and what is left behind it.
LEMMA EgressTakes ==
    ASSUME TypeInv, ShapeInv, Egress
    PROVE  \E h \in Frames \X (0 .. 3) :
             /\ h = queue[1] /\ h = Head(queue) /\ h[2] \in Kinds \cup {NONE}
             /\ queue \in Seq(Frames \X (0 .. 3)) /\ Len(queue) \in Nat
             /\ 1 \in 1 .. Len(queue) /\ Len(queue') = Len(queue) - 1
             /\ queue' \in Seq(Frames \X (0 .. 3))
             /\ \A i \in 1 .. Len(queue') :
                  i + 1 \in 1 .. Len(queue) /\ i + 1 # 1 /\ queue'[i] = queue[i + 1]
  <1>1. queue \in Seq(Frames \X (0 .. 3)) /\ queue # <<>> /\ queue' = Tail(queue)
    BY DEF TypeInv, Egress
  <1>2. Len(queue) \in Nat /\ Len(queue) # 0
    BY <1>1, LenProperties, EmptySeq
  <1>3. /\ Len(queue') = Len(queue) - 1 /\ queue' \in Seq(Frames \X (0 .. 3))
        /\ \A i \in 1 .. Len(queue') : queue'[i] = queue[i + 1]
    BY <1>1, HeadTailProperties
  <1>4. Head(queue) \in Frames \X (0 .. 3) /\ Head(queue) = queue[1]
    BY <1>1, HeadTailProperties
  <1>5. \A i \in 1 .. Len(queue') : i + 1 \in 1 .. Len(queue) /\ i + 1 # 1
    BY <1>2, <1>3
  <1>6. 1 \in 1 .. Len(queue)
    BY <1>2
  <1> QED BY <1>1, <1>2, <1>3, <1>4, <1>5, <1>6 DEF ShapeInv

\* Every step keeps the types.
LEMMA TypeStep ==
    ASSUME Initialised, TypeInv, ShapeInv, [Next]_vars
    PROVE  TypeInv' /\ ShapeInv'
  <1>1. CASE \E f \in Frames : Offer(f)
    BY <1>1, TypeOffer
  <1>2. CASE \E f \in Frames : CloneFails(f)
    BY <1>2 DEF CloneFails, TypeInv, ShapeInv
  <1>3. CASE Egress
    <2>1. PICK h \in Frames \X (0 .. 3) :
            /\ h = Head(queue) /\ h[2] \in Kinds \cup {NONE}
            /\ queue' \in Seq(Frames \X (0 .. 3))
            /\ \A i \in 1 .. Len(queue') : queue'[i] \in {queue[j] : j \in 1 .. Len(queue)}
      BY <1>3, EgressTakes
    <2>2. h[1] \in Held /\ (h[2] # NONE => h[2] \in Kinds /\ h[2] \in Modes)
      BY <2>1 DEF Held, Kinds, Modes
    <2>3. captured' \in [Modes -> Held]
      BY <1>3, <2>1, <2>2 DEF Egress, TypeInv
    <2>4. status0' \in Status /\ TsBit(RESERVED) \notin status0'
      <3>1. h[2] # NONE => TsBit(h[2]) \in TsBits /\ TsBit(h[2]) # TsBit(RESERVED)
        BY <2>2, BitsApart DEF Kinds, Modes
      <3>2. status0 \in Status /\ TsBit(RESERVED) \notin status0
        BY DEF TypeInv, ShapeInv
      <3> QED BY <1>3, <2>1, <3>1, <3>2 DEF Egress, Status
    <2>5. UNCHANGED <<offered, waiting, refs, ptp, spi, stamps, due, hasty, unclear>>
      BY <1>3 DEF Egress
    <2>6. \A i \in 1 .. Len(queue') : queue'[i][2] \in Kinds \cup {NONE}
      BY <2>1 DEF ShapeInv
    <2>7. TypeInv'
      BY <2>1, <2>3, <2>4, <2>5 DEF TypeInv
    <2> QED BY <2>4, <2>5, <2>6, <2>7 DEF ShapeInv
  <1>4. CASE \E e \in Errors : RaiseError(e)
    <2>1. PICK e \in Errors : RaiseError(e)
      BY <1>4
    <2>2. status0' \in Status /\ TsBit(RESERVED) \notin status0'
      <3>1. status0 \in Status /\ TsBit(RESERVED) \notin status0 /\ RESERVED \in Modes
        BY DEF TypeInv, ShapeInv, Modes
      <3> QED BY <2>1, <3>1, BitsApart, BitsAssumption DEF RaiseError, Status
    <2> QED BY <2>1, <2>2 DEF RaiseError, TypeInv, ShapeInv
  <1>5. CASE PtpThread
    BY <1>5, TypePtp
  <1>6. CASE SpiThread
    <2>1. spi \in SpiState /\ status0 \in Status /\ {} \in Status
      BY DEF TypeInv, Status
    <2>2. spi' \in SpiState
      BY <1>6, <2>1 DEF SpiThread, ExtendedStatus, SpiRead, SpiClear, SpiClearFails,
                        SpiAct, SpiState
    <2>3. status0' \in Status /\ status0' \subseteq status0
      BY <1>6, <2>1 DEF SpiThread, ExtendedStatus, SpiRead, SpiClear, SpiClearFails,
                        SpiAct, SpiCleared, Status
    <2>4. /\ UNCHANGED <<offered, waiting, refs, queue, captured, ptp, stamps, hasty, unclear>>
          /\ due' \subseteq due
      BY <1>6 DEF SpiThread, ExtendedStatus, SpiRead, SpiClear, SpiClearFails, SpiAct
    <2>5. TypeInv'
      BY <2>2, <2>3, <2>4 DEF TypeInv
    <2> QED BY <2>3, <2>4, <2>5 DEF ShapeInv
  <1>7. CASE SetTsConfig \/ UNCHANGED vars
    BY <1>7 DEF SetTsConfig, vars, TypeInv, ShapeInv
  <1> QED BY <1>1, <1>2, <1>3, <1>4, <1>5, <1>6, <1>7 DEF Next

-----------------------------------------------------------------------------
(* The way of a request.                                                   *)

\* The initial state has no request and no capture bit.
LEMMA RequestInit == Initialised /\ Init => RequestInv
  <1> SUFFICES ASSUME Initialised, Init PROVE RequestInv
    OBVIOUS
  <1>1. Len(<<>>) = 0 /\ ptp.step = "poll" /\ ptp.status = {}
    BY EmptySeq DEF Init, Initialised
  <1>2. QueueInv /\ StampInv
    BY <1>1 DEF Init, QueueInv, StampInv, OwnStamps
  <1>3. BitInv /\ PtpInv
    BY <1>1 DEF Init, BitInv, Serving, Freeing, PtpInv
  <1> QED BY <1>2, <1>3 DEF RequestInv

\* Steps that only take capture bits away, and the requests with those that nobody
\* will serve: the SPI thread's, new errors, a failed clone, a new configuration.
LEMMA RequestQuiet ==
    ASSUME RequestInv,
           UNCHANGED <<waiting, refs, queue, captured, ptp, stamps>>,
           offered \subseteq offered',
           \A k \in Kinds : TsBit(k) \in status0' => TsBit(k) \in status0,
           NEW T \in SUBSET Kinds, due' = due \ T,
           \A k \in T : /\ TsBit(k) \in status0 /\ TsBit(k) \notin status0'
                        /\ ~Serving(k) /\ ~Stamped(captured[k])
    PROVE  RequestInv'
  <1>1. \A k : Serving(k)' <=> Serving(k)
    BY DEF Serving
  <1>2. \A f : Stamped(f)' <=> Stamped(f)
    BY DEF Stamped
  <1>3. \A k \in Kinds : k \notin T /\ Fresh(k) => Fresh(k)'
    BY <1>2 DEF Fresh, Freeing
  <1>4. QueueInv'
    <2>1. ASSUME NEW i \in 1 .. Len(queue), queue[i][2] # NONE
          PROVE  /\ Fresh(queue[i][2])' /\ queue[i][1] = waiting[queue[i][2]]
                 /\ ~Serving(queue[i][2])
                 /\ TsBit(queue[i][2]) \in status0' =>
                      TsBit(queue[i][2]) \in ptp.status /\ Stamped(captured[queue[i][2]])
      <3>1. /\ Fresh(queue[i][2]) /\ queue[i][1] = waiting[queue[i][2]]
            /\ ~Serving(queue[i][2])
            /\ TsBit(queue[i][2]) \in status0 =>
                 TsBit(queue[i][2]) \in ptp.status /\ Stamped(captured[queue[i][2]])
        BY <2>1 DEF RequestInv, QueueInv
      <3>2. PICK k : k = queue[i][2]
        OBVIOUS
      <3>3. k \notin T /\ k \in Kinds
        BY <3>1, <3>2 DEF Fresh, ModeOf, Kinds
      <3> QED BY <1>3, <3>1, <3>2, <3>3
    <2> QED BY <1>1, <1>2, <2>1 DEF RequestInv, QueueInv
  <1>5. BitInv'
    BY <1>1, <1>2, <1>3 DEF RequestInv, BitInv, Ready
  <1>6. PtpInv' /\ StampInv'
    BY DEF RequestInv, PtpInv, Freeing, StampInv, OwnStamps
  <1> QED BY <1>4, <1>5, <1>6 DEF RequestInv

\* A request that is not hasty finds its kind free: the one before it has been answered
\* or lost, and what is left of its bit will not be served.
LEMMA KindFree ==
    ASSUME TypeInv, RequestInv, OneAtATime', NEW f \in Frames, Offer(f),
           f \in Requesting /\ txOn
    PROVE  /\ ModeOf(f) \in Kinds /\ ModeOf(f) \notin due /\ ~Fresh(ModeOf(f))
           /\ ~Serving(ModeOf(f))
           /\ TsBit(ModeOf(f)) \in status0 =>
                TsBit(ModeOf(f)) \in ptp.status /\ Stamped(captured[ModeOf(f)])
           /\ waiting' = [waiting EXCEPT ![ModeOf(f)] = f]
           /\ refs' = [refs EXCEPT ![ModeOf(f)] = 2]
  <1>1. ModeOf(f) \in Kinds
    BY DEF ModeOf, Kinds
  <1>2. /\ waiting' = [waiting EXCEPT ![ModeOf(f)] = f]
        /\ refs' = [refs EXCEPT ![ModeOf(f)] = 2]
        /\ ModeOf(f) \in due => hasty' = hasty + 1
    BY DEF Offer, Keep, CloneRefs
  <1>3. hasty' = 0 /\ hasty \in Nat
    BY DEF OneAtATime, TypeInv
  <1>4. ModeOf(f) \notin due
    BY <1>2, <1>3
  <1>5. ~Fresh(ModeOf(f)) /\ ~Ready(ModeOf(f))
    BY <1>4 DEF Fresh, Ready
  <1> QED BY <1>1, <1>2, <1>4, <1>5 DEF RequestInv, BitInv

LEMMA RequestOffer ==
    ASSUME Initialised, TypeInv, RequestInv, OneAtATime', NEW f \in Frames, Offer(f)
    PROVE  RequestInv'
  <1> DEFINE keep == f \in Requesting /\ txOn
  <1>1. /\ f \notin offered
        /\ UNCHANGED <<status0, captured, ptp, stamps>>
        /\ offered \subseteq offered'
    BY DEF Offer, Queued, Dropped, Refused
  <1>2. /\ waiting \in [Kinds -> Requesting \cup {NULL}] /\ refs \in [Kinds -> Nat]
        /\ queue \in Seq(Frames \X (0 .. 3)) /\ Len(queue) \in Nat
        /\ due \subseteq Kinds
    BY LenProperties DEF TypeInv
  <1>3. /\ ~Stamped(f) /\ \A g : Stamped(g)' <=> Stamped(g)
        /\ \A k : Serving(k)' <=> Serving(k)
    BY <1>1 DEF RequestInv, StampInv, Stamped, Serving
  <1>4. due \subseteq due'
    BY DEF Offer, Queued, Dropped, Refused
  <1>5. \A k \in Kinds : Fresh(k) => Fresh(k)' /\ waiting'[k] = waiting[k]
    <2> SUFFICES ASSUME NEW k \in Kinds, Fresh(k)
                 PROVE  Fresh(k)' /\ waiting'[k] = waiting[k]
      OBVIOUS
    <2>1. waiting'[k] = waiting[k] /\ refs'[k] = refs[k]
      <3>1. CASE keep
        <4>1. /\ waiting' = [waiting EXCEPT ![ModeOf(f)] = f] /\ ~Fresh(ModeOf(f))
              /\ refs' = [refs EXCEPT ![ModeOf(f)] = 2]
          BY <3>1, KindFree
        <4> QED BY <1>2, <4>1
      <3>2. CASE ~keep
        BY <3>2 DEF Offer, Keep
      <3> QED BY <3>1, <3>2
    <2> QED BY <1>1, <1>3, <1>4, <2>1 DEF Fresh, Freeing
  <1>6. BitInv'
    BY <1>1, <1>3, <1>5 DEF RequestInv, BitInv, Ready
  <1>7. PtpInv'
    <2>1. ASSUME NEW k \in Kinds, Freeing(k)
          PROVE  waiting'[k] \in Requesting /\ refs'[k] > 0
      <3>1. waiting[k] \in Requesting /\ refs[k] > 0
        BY <2>1 DEF RequestInv, PtpInv
      <3>2. CASE keep
        <4>1. /\ waiting' = [waiting EXCEPT ![ModeOf(f)] = f]
              /\ refs' = [refs EXCEPT ![ModeOf(f)] = 2]
          BY <3>2, KindFree
        <4> QED BY <1>2, <3>1, <3>2, <4>1
      <3>3. CASE ~keep
        BY <3>1, <3>3 DEF Offer, Keep
      <3> QED BY <3>2, <3>3
    <2> QED BY <1>1, <2>1 DEF RequestInv, PtpInv, Freeing
  <1>8. StampInv'
    BY <1>1 DEF RequestInv, StampInv, OwnStamps
  <1>9. QueueInv'
    <2>1. CASE queue' = queue
      <3>1. ASSUME NEW i \in 1 .. Len(queue), queue[i][2] # NONE
            PROVE  Fresh(queue[i][2])' /\ waiting'[queue[i][2]] = waiting[queue[i][2]]
        <4>1. Fresh(queue[i][2])
          BY <3>1 DEF RequestInv, QueueInv
        <4>2. PICK k \in Kinds : k = queue[i][2] /\ k = queue'[i][2]
          BY <1>2, <2>1, <4>1 DEF Fresh
        <4>3. Fresh(k)' /\ waiting'[k] = waiting[k]
          BY <1>5, <4>1, <4>2
        <4> QED BY <4>2, <4>3
      <3> QED BY <1>1, <1>3, <2>1, <3>1 DEF RequestInv, QueueInv
    <2>2. CASE queue' # queue
      <3>1. PICK m \in 0 .. 3 :
              /\ queue' = Append(queue, <<f, m>>) /\ <<f, m>> \in Frames \X (0 .. 3)
              /\ offered' = offered \cup {f}
              /\ IF f \in Requesting /\ txOn
                 THEN m = ModeOf(f) /\ due' = due \cup {ModeOf(f)}
                 ELSE m = NONE /\ due' = due
        BY <2>2, OfferQueues
      <3>2. <<f, m>>[1] = f /\ <<f, m>>[2] = m
        OBVIOUS
      <3>3. /\ Len(queue') = Len(queue) + 1 /\ queue'[Len(queue) + 1] = <<f, m>>
            /\ \A i \in 1 .. Len(queue) : queue'[i] = queue[i]
        BY <1>2, <3>1, AppendProperties
      <3>4. m # NONE => /\ m \in Kinds /\ ~Fresh(m) /\ ~Serving(m)
                        /\ TsBit(m) \in status0 =>
                             TsBit(m) \in ptp.status /\ Stamped(captured[m])
                        /\ Fresh(m)' /\ waiting'[m] = f
        <4> SUFFICES ASSUME m # NONE
                     PROVE  /\ m \in Kinds /\ ~Fresh(m) /\ ~Serving(m)
                            /\ TsBit(m) \in status0 =>
                                 TsBit(m) \in ptp.status /\ Stamped(captured[m])
                            /\ Fresh(m)' /\ waiting'[m] = f
          OBVIOUS
        <4>1. keep /\ m = ModeOf(f) /\ m \in due'
          BY <3>1
        <4>2. /\ m \in Kinds /\ ~Fresh(m) /\ ~Serving(m)
              /\ TsBit(m) \in status0 =>
                   TsBit(m) \in ptp.status /\ Stamped(captured[m])
              /\ waiting' = [waiting EXCEPT ![m] = f] /\ refs' = [refs EXCEPT ![m] = 2]
          BY <4>1, KindFree
        <4>3. waiting'[m] = f /\ refs'[m] = 2 /\ f \in offered'
          BY <1>2, <3>1, <4>2
        <4>4. Fresh(m)'
          BY <1>3, <4>1, <4>3 DEF Fresh
        <4> QED BY <4>2, <4>3, <4>4
      <3>5. ASSUME NEW i \in 1 .. Len(queue'), queue'[i][2] # NONE
            PROVE  /\ Fresh(queue[i][2])' /\ queue'[i][1] = waiting'[queue'[i][2]]
                   /\ ~Serving(queue'[i][2])
                   /\ TsBit(queue'[i][2]) \in status0 =>
                        TsBit(queue'[i][2]) \in ptp.status /\ Stamped(captured[queue'[i][2]])
                   /\ i \in 1 .. Len(queue) => queue'[i][2] # m
        <4>1. CASE i = Len(queue) + 1
          <5>1. queue'[i][1] = f /\ queue'[i][2] = m /\ i \notin 1 .. Len(queue)
            BY <1>2, <3>2, <3>3, <4>1
          <5> QED BY <3>4, <3>5, <5>1
        <4>2. CASE i # Len(queue) + 1
          <5>1. i \in 1 .. Len(queue) /\ queue'[i] = queue[i]
            BY <1>2, <3>3, <4>2
          <5>2. PICK k : k = queue[i][2]
            OBVIOUS
          <5>3. /\ Fresh(k) /\ queue[i][1] = waiting[k] /\ ~Serving(k)
                /\ TsBit(k) \in status0 => TsBit(k) \in ptp.status /\ Stamped(captured[k])
            BY <3>5, <5>1, <5>2 DEF RequestInv, QueueInv
          <5>4. k \in Kinds /\ k # NONE
            BY <1>2, <3>5, <5>1, <5>2, <5>3 DEF Fresh
          <5>5. Fresh(k)' /\ waiting'[k] = waiting[k] /\ k # m
            BY <1>5, <3>4, <5>3, <5>4
          <5> QED BY <5>1, <5>2, <5>3, <5>5
        <4> QED BY <4>1, <4>2
      <3>6. ASSUME NEW i \in 1 .. Len(queue'), NEW j \in 1 .. Len(queue'),
                   queue'[i][2] # NONE, queue'[i][2] = queue'[j][2]
            PROVE  i = j
        <4>1. /\ i = Len(queue) + 1 \/ i \in 1 .. Len(queue)
              /\ j = Len(queue) + 1 \/ j \in 1 .. Len(queue)
          BY <1>2, <3>3
        <4>2. CASE i \in 1 .. Len(queue) /\ j \in 1 .. Len(queue)
          BY <3>3, <3>6, <4>2 DEF RequestInv, QueueInv
        <4>3. CASE i = Len(queue) + 1 /\ j \in 1 .. Len(queue)
          BY <3>2, <3>3, <3>5, <3>6, <4>3
        <4>4. CASE i \in 1 .. Len(queue) /\ j = Len(queue) + 1
          BY <3>2, <3>3, <3>5, <3>6, <4>4
        <4> QED BY <4>1, <4>2, <4>3, <4>4
      <3> QED BY <1>1, <1>3, <3>5, <3>6 DEF QueueInv
    <2> QED BY <2>1, <2>2
  <1> QED BY <1>6, <1>7, <1>8, <1>9 DEF RequestInv

\* The frame at the head leaves: its bit and its time are those of the clone.
LEMMA RequestEgress ==
    ASSUME TypeInv, ShapeInv, RequestInv, Egress
    PROVE  RequestInv'
  <1>1. PICK h \in Frames \X (0 .. 3) :
          /\ h = queue[1] /\ h = Head(queue) /\ h[2] \in Kinds \cup {NONE}
          /\ 1 \in 1 .. Len(queue)
          /\ \A i \in 1 .. Len(queue') :
               i + 1 \in 1 .. Len(queue) /\ i + 1 # 1 /\ queue'[i] = queue[i + 1]
    BY EgressTakes
  <1>2. UNCHANGED <<offered, waiting, refs, ptp, stamps, due>>
    BY DEF Egress
  <1>3. /\ \A k : Fresh(k)' <=> Fresh(k)
        /\ \A k : Serving(k)' <=> Serving(k)
        /\ \A f : Stamped(f)' <=> Stamped(f)
    BY <1>2 DEF Fresh, Freeing, Stamped, Serving
  <1>4. Kinds \subseteq Modes /\ due \subseteq Kinds
    BY DEF Kinds, Modes, TypeInv
  <1>5. \A i, j \in 1 .. Len(queue') :
           queue'[i][2] # NONE /\ queue'[i][2] = queue'[j][2] => i = j
    <2> SUFFICES ASSUME NEW i \in 1 .. Len(queue'), NEW j \in 1 .. Len(queue'),
                        queue'[i][2] # NONE, queue'[i][2] = queue'[j][2]
                 PROVE  i = j
      OBVIOUS
    <2> DEFINE a == i + 1  b == j + 1
    <2>1. /\ a \in 1 .. Len(queue) /\ queue'[i] = queue[a]
          /\ b \in 1 .. Len(queue) /\ queue'[j] = queue[b]
      BY <1>1
    <2> HIDE DEF a, b
    <2>2. a = b
      BY <2>1 DEF RequestInv, QueueInv
    <2> QED BY <2>2 DEF a, b
  <1>6. ASSUME NEW i \in 1 .. Len(queue'), queue'[i][2] # NONE
        PROVE  /\ Fresh(queue'[i][2]) /\ queue'[i][1] = waiting[queue'[i][2]]
               /\ ~Serving(queue'[i][2]) /\ queue'[i][2] \in Kinds
               /\ TsBit(queue'[i][2]) \in status0 =>
                    TsBit(queue'[i][2]) \in ptp.status /\ Stamped(captured[queue'[i][2]])
               /\ queue'[i][2] # h[2]
    <2>1. i + 1 \in 1 .. Len(queue) /\ i + 1 # 1 /\ queue'[i] = queue[i + 1]
      BY <1>1
    <2>2. /\ Fresh(queue'[i][2]) /\ queue'[i][1] = waiting[queue'[i][2]]
          /\ ~Serving(queue'[i][2])
          /\ TsBit(queue'[i][2]) \in status0 =>
               TsBit(queue'[i][2]) \in ptp.status /\ Stamped(captured[queue'[i][2]])
      BY <1>6, <2>1 DEF RequestInv, QueueInv
    <2>3. queue'[i][2] \in Kinds
      BY <1>4, <2>2 DEF Fresh
    <2>4. queue'[i][2] # h[2]
      BY <1>1, <1>6, <2>1 DEF RequestInv, QueueInv
    <2> QED BY <2>2, <2>3, <2>4
  <1>7. CASE h[2] = NONE
    <2>1. captured' = captured /\ status0' = status0
      BY <1>1, <1>7 DEF Egress
    <2>2. QueueInv'
      BY <1>2, <1>3, <1>5, <1>6, <2>1 DEF QueueInv
    <2>3. BitInv' /\ PtpInv' /\ StampInv'
      BY <1>2, <1>3, <2>1 DEF RequestInv, BitInv, Ready, PtpInv, Freeing,
         StampInv, OwnStamps
    <2> QED BY <2>2, <2>3 DEF RequestInv
  <1>8. CASE h[2] # NONE
    <2>1. PICK m \in Kinds : m = h[2]
      BY <1>1, <1>8
    <2>2. Fresh(m) /\ h[1] = waiting[m] /\ ~Serving(m)
      BY <1>1, <1>8, <2>1 DEF RequestInv, QueueInv
    <2>3. /\ captured' = [captured EXCEPT ![m] = h[1]]
          /\ status0' = status0 \cup {TsBit(m)} /\ captured \in [Modes -> Held]
      BY <1>1, <1>8, <2>1 DEF Egress, TypeInv
    <2>4. /\ captured'[m] = waiting[m]
          /\ \A k \in Modes : k # m => captured'[k] = captured[k]
                                 /\ TsBit(k) # TsBit(m)
      BY <1>4, <2>1, <2>2, <2>3, BitsApart
    <2>5. \A k \in Modes : k # m => (TsBit(k) \in status0' <=> TsBit(k) \in status0)
      BY <2>3, <2>4
    <2>6. QueueInv'
      BY <1>2, <1>3, <1>4, <1>5, <1>6, <2>1, <2>4, <2>5 DEF QueueInv
    <2>7. BitInv'
      <3>1. ASSUME NEW k \in Kinds
            PROVE  /\ TsBit(k) \in status0' \ ptp.status \/ Serving(k) => Ready(k)'
                   /\ TsBit(k) \in status0' => Ready(k)' \/ Stamped(captured'[k])
        <4>1. CASE k = m
          BY <1>2, <1>3, <2>2, <2>4, <4>1 DEF Ready
        <4>2. CASE k # m
          <5>1. captured'[k] = captured[k] /\ (TsBit(k) \in status0' <=> TsBit(k) \in status0)
            BY <1>4, <2>4, <2>5, <4>2
          <5> QED BY <1>2, <1>3, <5>1 DEF RequestInv, BitInv, Ready
        <4> QED BY <4>1, <4>2
      <3> QED BY <1>2, <1>3, <3>1 DEF BitInv
    <2>8. PtpInv'
      <3>1. ptp.step \in {"low", "report"} => captured'[ptp.at] = captured[ptp.at]
        <4>1. ptp.step \in {"low", "report"} => Serving(ptp.at) /\ ptp.at \in Modes
          BY <1>4 DEF ShapeInv, Serving
        <4> QED BY <2>2, <2>4, <4>1
      <3> QED BY <1>2, <3>1 DEF RequestInv, PtpInv, Freeing
    <2>9. StampInv'
      BY <1>2 DEF RequestInv, StampInv, OwnStamps
    <2> QED BY <2>6, <2>7, <2>8, <2>9 DEF RequestInv
  <1> QED BY <1>7, <1>8

\* A poll takes over the bits of STATUS0 as they are.
LEMMA RequestPoll ==
    ASSUME TypeInv, ShapeInv, RequestInv, PtpRead \/ PtpReadFails
    PROVE  RequestInv'
  <1>1. /\ UNCHANGED <<offered, waiting, refs, queue, status0, captured, stamps, due>>
        /\ ptp.step = "poll" /\ ptp.status = {}
    BY DEF PtpRead, PtpReadFails, ShapeInv
  <1>2. PICK p \in PtpState : p.status \subseteq status0 /\ ptp' = Onward(p, NONE)
    <2>1. ptp \in PtpState /\ status0 \in Status
      BY DEF TypeInv
    <2>2. CASE PtpRead
      <3>1. /\ [ptp EXCEPT !.status = status0] \in PtpState
            /\ [ptp EXCEPT !.status = status0].status = status0
        BY <2>1 DEF PtpState
      <3> QED BY <2>2, <3>1 DEF PtpRead
    <2>3. CASE PtpReadFails
      BY <1>1, <2>1, <2>3 DEF PtpReadFails
    <2> QED BY <2>2, <2>3
  <1>3. PICK q \in PtpState :
           /\ q = ptp' /\ q.status \subseteq status0
           /\ q.step \in {"high", "clear", "poll"}
    <2>1. NONE \in 0 .. 3
      OBVIOUS
    <2> QED BY <1>2, <2>1, OnwardServes
  <1>4. /\ \A k : Fresh(k) => Fresh(k)'
        /\ \A f : Stamped(f)' <=> Stamped(f)
    BY <1>1, <1>3 DEF Fresh, Freeing, Stamped
  <1>5. \A k : Serving(k)' => TsBit(k) \in status0
    BY <1>3 DEF Serving
  <1>6. QueueInv'
    <2>1. \A i \in 1 .. Len(queue) : queue[i][2] # NONE => TsBit(queue[i][2]) \notin status0
      BY <1>1 DEF RequestInv, QueueInv
    <2> QED BY <1>1, <1>4, <1>5, <2>1 DEF RequestInv, QueueInv
  <1>7. BitInv'
    <2>1. \A k \in Kinds : TsBit(k) \in status0 => Ready(k)
      BY <1>1 DEF RequestInv, BitInv
    <2> QED BY <1>1, <1>4, <1>5, <2>1 DEF BitInv, Ready
  <1>8. PtpInv'
    BY <1>3 DEF PtpInv, Freeing
  <1>9. StampInv'
    BY <1>1 DEF RequestInv, StampInv, OwnStamps
  <1> QED BY <1>6, <1>7, <1>8, <1>9 DEF RequestInv

LEMMA RequestReads ==
    ASSUME TypeInv, ShapeInv, RequestInv, ReadHigh \/ ReadLow
    PROVE  RequestInv'
  <1>1. /\ UNCHANGED <<offered, waiting, refs, queue, status0, captured, stamps, due>>
        /\ ptp \in PtpState /\ ptp.at \in Kinds
    BY DEF ReadHigh, ReadLow, TypeInv, ShapeInv
  <1>2. Half(ptp.at) \subseteq {captured[ptp.at], NULL}
    BY DEF Half, RegisterOf
  <1>3. /\ ptp'.at = ptp.at /\ ptp'.status = ptp.status
        /\ ptp.step \in {"high", "low"} /\ ptp'.step \in {"low", "report"}
        /\ ptp'.hi \in {captured[ptp.at], NULL}
        /\ ptp'.step = "report" => ptp'.lo \in {captured[ptp.at], NULL}
    <2>1. CASE ReadHigh
      BY <1>1, <1>2, <2>1 DEF ReadHigh, PtpState
    <2>2. CASE ReadLow
      <3>1. ptp.hi \in {captured[ptp.at], NULL}
        BY <2>2 DEF ReadLow, RequestInv, PtpInv
      <3> QED BY <1>1, <1>2, <2>2, <3>1 DEF ReadLow, PtpState
    <2> QED BY <2>1, <2>2
  <1>4. /\ \A k : Fresh(k)' <=> Fresh(k)
        /\ \A k : Serving(k)' <=> Serving(k)
        /\ \A f : Stamped(f)' <=> Stamped(f)
    BY <1>1, <1>3 DEF Fresh, Freeing, Serving, Stamped
  <1>5. QueueInv' /\ BitInv'
    BY <1>1, <1>3, <1>4 DEF RequestInv, QueueInv, BitInv, Ready
  <1>6. PtpInv'
    BY <1>1, <1>3 DEF PtpInv, Freeing
  <1>7. StampInv'
    BY <1>1 DEF RequestInv, StampInv, OwnStamps
  <1> QED BY <1>5, <1>6, <1>7 DEF RequestInv

\* What the PTP thread serves is the clone's own timestamp, the first it gets.
LEMMA ReportStamps ==
    ASSUME TypeInv, ShapeInv, RequestInv, Report
    PROVE  \E m \in Kinds, w \in Requesting, h \in Held, l \in Held :
             /\ {h, l} \subseteq {w, NULL}
             /\ m = ptp.at /\ w = waiting[m] /\ Serving(m) /\ Ready(m)
             /\ ptp.step = "report" /\ TsBit(m) \in ptp.status
             /\ stamps' = Append(stamps, <<w, h, l>>)
             /\ <<w, h, l>> \in Requesting \X Held \X Held
             /\ due' = due \ {m}
             /\ ptp' = [ptp EXCEPT !.step = "free", !.hi = NULL, !.lo = NULL]
  <1>1. PICK m \in Kinds : m = ptp.at /\ TsBit(m) \in ptp.status /\ ptp.step = "report"
    BY DEF Report, ShapeInv
  <1>2. Serving(m) /\ Ready(m)
    <2>1. Serving(m)
      BY <1>1 DEF Serving
    <2> QED BY <2>1 DEF RequestInv, BitInv
  <1>3. PICK w \in Requesting : w = waiting[m] /\ refs[m] > 0 /\ captured[m] = w
    BY <1>2 DEF Ready, Fresh
  <1>4. Live(ptp.at) /\ ptp.at # RESERVED
    BY <1>1, <1>3, FramesAssumption DEF Live, Kinds, Requesting
  <1>5. ptp.hi \in {w, NULL} /\ ptp.lo \in {w, NULL}
    BY <1>1, <1>3 DEF RequestInv, PtpInv
  <1>6. <<w, ptp.hi, ptp.lo>> \in Requesting \X Held \X Held
    BY <1>5 DEF Held, Frames
  <1> QED BY <1>1, <1>2, <1>3, <1>4, <1>5, <1>6 DEF Report

LEMMA RequestReport ==
    ASSUME TypeInv, ShapeInv, RequestInv, Report
    PROVE  RequestInv'
  <1>1. PICK m \in Kinds, w \in Requesting, h \in Held, l \in Held :
             /\ {h, l} \subseteq {w, NULL}
             /\ m = ptp.at /\ w = waiting[m] /\ Serving(m) /\ Ready(m)
             /\ ptp.step = "report" /\ TsBit(m) \in ptp.status
             /\ stamps' = Append(stamps, <<w, h, l>>)
             /\ <<w, h, l>> \in Requesting \X Held \X Held
             /\ due' = due \ {m}
             /\ ptp' = [ptp EXCEPT !.step = "free", !.hi = NULL, !.lo = NULL]
    BY ReportStamps
  <1>2. UNCHANGED <<offered, waiting, refs, queue, status0, captured>>
    BY DEF Report
  <1>3. ptp'.step = "free" /\ ptp'.at = m /\ ptp'.status = ptp.status /\ ptp \in PtpState
    BY <1>1 DEF TypeInv, PtpState
  <1>4. /\ stamps \in Seq(Requesting \X Held \X Held) /\ Len(stamps) \in Nat
        /\ Len(stamps') = Len(stamps) + 1 /\ stamps'[Len(stamps) + 1] = <<w, h, l>>
        /\ \A i \in 1 .. Len(stamps) : stamps'[i] = stamps[i]
    BY <1>1, LenProperties, AppendProperties DEF TypeInv
  <1>5. \A f : Stamped(f)' <=> Stamped(f) \/ f = w
    <2> SUFFICES ASSUME NEW f PROVE Stamped(f)' <=> Stamped(f) \/ f = w
      OBVIOUS
    <2>1. <<w, h, l>>[1] = w
      OBVIOUS
    <2>2. ASSUME Stamped(f)' PROVE Stamped(f) \/ f = w
      <3>1. PICK i \in 1 .. Len(stamps') : stamps'[i][1] = f
        BY <2>2 DEF Stamped
      <3>2. i \in 1 .. Len(stamps) \/ i = Len(stamps) + 1
        BY <1>4
      <3> QED BY <1>4, <2>1, <3>1, <3>2 DEF Stamped
    <2>3. ASSUME Stamped(f) PROVE Stamped(f)'
      <3>1. PICK i \in 1 .. Len(stamps) : stamps[i][1] = f
        BY <2>3 DEF Stamped
      <3>2. i \in 1 .. Len(stamps')
        BY <1>4
      <3> QED BY <1>4, <3>1, <3>2 DEF Stamped
    <2>4. ASSUME f = w PROVE Stamped(f)'
      <3>1. Len(stamps) + 1 \in 1 .. Len(stamps')
        BY <1>4
      <3> QED BY <1>4, <2>1, <2>4, <3>1 DEF Stamped
    <2> QED BY <2>2, <2>3, <2>4
  <1>6. Kinds = {1, 2} /\ ModeOf(w) = m /\ w \in offered /\ ~Stamped(w) /\ refs[m] > 0
        /\ captured[m] = w /\ due \subseteq Kinds
    BY <1>1 DEF Ready, Fresh, Kinds, TypeInv
  <1>7. \A k \in Kinds : k # m /\ Fresh(k) => Fresh(k)'
    <2> SUFFICES ASSUME NEW k \in Kinds, k # m, Fresh(k) PROVE Fresh(k)'
      OBVIOUS
    <2>1. waiting[k] # w
      BY <1>6 DEF Fresh
    <2> QED BY <1>1, <1>2, <1>3, <1>5, <2>1 DEF Fresh, Freeing
  <1>8. ~Serving(m)' /\ \A k \in Kinds : Serving(k)' => Serving(k) /\ k # m
    BY <1>1, <1>3, <1>6 DEF Serving
  <1>9. QueueInv'
    <2>1. ASSUME NEW i \in 1 .. Len(queue), queue[i][2] # NONE
          PROVE  /\ Fresh(queue[i][2])' /\ queue[i][1] = waiting[queue[i][2]]
                 /\ ~Serving(queue[i][2])'
                 /\ TsBit(queue[i][2]) \in status0 =>
                      TsBit(queue[i][2]) \in ptp.status /\ Stamped(captured[queue[i][2]])'
      <3>1. PICK k : k = queue[i][2] /\ k = queue'[i][2]
        BY <1>2
      <3>2. /\ Fresh(k) /\ queue[i][1] = waiting[k] /\ ~Serving(k)
            /\ TsBit(k) \in status0 => TsBit(k) \in ptp.status /\ Stamped(captured[k])
        BY <2>1, <3>1 DEF RequestInv, QueueInv
      <3>3. k \in Kinds /\ k # m
        BY <1>1, <1>6, <3>2 DEF Fresh
      <3>4. Fresh(k)' /\ ~Serving(k)' /\ (Stamped(captured[k]) => Stamped(captured[k])')
        BY <1>2, <1>5, <1>7, <1>8, <3>2, <3>3
      <3> QED BY <3>1, <3>2, <3>4
    <2> QED BY <1>2, <1>3, <2>1 DEF RequestInv, QueueInv
  <1>10. BitInv'
    <2>1. ASSUME NEW k \in Kinds
          PROVE  /\ TsBit(k) \in status0 \ ptp.status \/ Serving(k)' => Ready(k)'
                 /\ TsBit(k) \in status0 => Ready(k)' \/ Stamped(captured[k])'
      <3>1. CASE k = m
        <4>1. Stamped(captured[k])'
          BY <1>2, <1>5, <1>6, <3>1
        <4> QED BY <1>1, <1>8, <3>1, <4>1
      <3>2. CASE k # m
        <4>1. Ready(k) => Ready(k)'
          BY <1>2, <1>7, <3>2 DEF Ready
        <4>2. Stamped(captured[k]) => Stamped(captured[k])'
          BY <1>2, <1>5
        <4> QED BY <1>8, <3>2, <4>1, <4>2 DEF RequestInv, BitInv
      <3> QED BY <3>1, <3>2
    <2> QED BY <1>2, <1>3, <2>1 DEF BitInv
  <1>11. PtpInv'
    BY <1>1, <1>2, <1>3, <1>6 DEF PtpInv, Freeing
  <1>12. StampInv'
    <2>1. <<w, h, l>>[1] = w /\ <<w, h, l>>[2] = h /\ <<w, h, l>>[3] = l
      OBVIOUS
    <2>2. \A i \in 1 .. Len(stamps') : i \in 1 .. Len(stamps) \/ i = Len(stamps) + 1
      BY <1>4
    <2>3. \A i \in 1 .. Len(stamps) : stamps[i][1] # w
      BY <1>6 DEF Stamped
    <2>4. \A i \in 1 .. Len(stamps') : stamps'[i][1] \in offered
      BY <1>4, <1>6, <2>1, <2>2 DEF RequestInv, StampInv
    <2>5. \A i \in 1 .. Len(stamps') :
            {stamps'[i][2], stamps'[i][3]} \subseteq {stamps'[i][1], NULL}
      <3> SUFFICES ASSUME NEW i \in 1 .. Len(stamps')
                   PROVE  {stamps'[i][2], stamps'[i][3]} \subseteq {stamps'[i][1], NULL}
        OBVIOUS
      <3>1. CASE i \in 1 .. Len(stamps)
        BY <1>4, <3>1 DEF RequestInv, StampInv, OwnStamps
      <3>2. CASE i = Len(stamps) + 1
        BY <1>1, <1>4, <2>1, <3>2
      <3> QED BY <2>2, <3>1, <3>2
    <2>6. \A i, j \in 1 .. Len(stamps') : stamps'[i][1] = stamps'[j][1] => i = j
      BY <1>4, <2>1, <2>2, <2>3 DEF RequestInv, StampInv, OwnStamps
    <2> QED BY <1>2, <2>4, <2>5, <2>6 DEF StampInv, OwnStamps
  <1> QED BY <1>9, <1>10, <1>11, <1>12 DEF RequestInv

\* The PTP thread goes on to the next bit of its status, and forgets none.
LEMMA FreeGoesOn ==
    ASSUME TypeInv, ShapeInv, RequestInv, Free
    PROVE  \E m \in Kinds :
             /\ Freeing(m) /\ refs' = [refs EXCEPT ![m] = @ - 1] /\ refs[m] > 0
             /\ ptp'.step \in {"high", "clear"} /\ ptp'.status = ptp.status
             /\ \A k \in Kinds : Serving(k)' <=> Serving(k)
  <1>1. PICK m \in Kinds : m = ptp.at /\ TsBit(m) \in ptp.status /\ ptp.step = "free"
    BY DEF Free, ShapeInv
  <1>2. Freeing(m) /\ waiting[m] \in Requesting /\ refs[m] > 0
    BY <1>1 DEF Freeing, RequestInv, PtpInv
  <1>3. Live(ptp.at)
    BY <1>1, <1>2, FramesAssumption DEF Live, Requesting
  <1>4. refs' = [refs EXCEPT ![m] = @ - 1] /\ ptp' = Onward(ptp, m)
    BY <1>1, <1>3 DEF Free
  <1>5. ptp \in PtpState /\ m \in 0 .. 3 /\ m \in Modes /\ Kinds \subseteq Modes
        /\ Kinds = {1, 2}
    BY DEF TypeInv, Kinds, Modes
  <1>6. PICK q : q = ptp'
    OBVIOUS
  <1>7. \/ /\ q.step = "high" /\ q.at \in Modes /\ q.at > m
           /\ q.status = ptp.status /\ TsBit(q.at) \in ptp.status
           /\ \A k \in Modes : k > m /\ TsBit(k) \in ptp.status => q.at <= k
        \/ q.step = "clear" /\ q.status = ptp.status
           /\ \A k \in Modes : k > m => TsBit(k) \notin ptp.status
    BY <1>1, <1>4, <1>5, <1>6, OnwardServes
  <1>8. ASSUME NEW k \in Kinds PROVE Serving(k)' <=> Serving(k)
    <2>1. Serving(k) <=> TsBit(k) \in ptp.status /\ k > m
      BY <1>1, <1>5 DEF Serving
    <2>2. q.at \in Modes => (q.at <= k <=> q.at < k \/ q.at = k)
      BY <1>5 DEF Modes
    <2>3. CASE q.step = "high"
      <3>1. Serving(k)' <=> TsBit(k) \in q.status /\ q.at <= k
        BY <1>6, <1>7, <2>2, <2>3 DEF Serving
      <3>2. q.at \in Modes /\ q.at > m /\ q.status = ptp.status
            /\ (k > m /\ TsBit(k) \in ptp.status => q.at <= k)
        BY <1>5, <1>7, <2>3
      <3>3. q.at <= k => k > m
        BY <1>5, <3>2 DEF Modes
      <3> QED BY <2>1, <3>1, <3>2, <3>3
    <2>4. CASE q.step = "clear"
      <3>1. ~Serving(k)'
        BY <1>6, <2>4 DEF Serving
      <3>2. k > m => TsBit(k) \notin ptp.status
        BY <1>5, <1>7, <2>4
      <3> QED BY <2>1, <3>1, <3>2
    <2> QED BY <1>7, <2>3, <2>4
  <1>9. q.step \in {"high", "clear"} /\ q.status = ptp.status
    BY <1>7
  <1> QED BY <1>2, <1>4, <1>6, <1>8, <1>9

LEMMA RequestFree ==
    ASSUME TypeInv, ShapeInv, RequestInv, Free
    PROVE  RequestInv'
  <1>1. PICK m \in Kinds :
             /\ Freeing(m) /\ refs' = [refs EXCEPT ![m] = @ - 1] /\ refs[m] > 0
             /\ ptp'.step \in {"high", "clear"} /\ ptp'.status = ptp.status
             /\ \A k \in Kinds : Serving(k)' <=> Serving(k)
    BY FreeGoesOn
  <1>2. UNCHANGED <<offered, waiting, queue, status0, captured, stamps, due>>
    BY DEF Free
  <1>3. \A f : Stamped(f)' <=> Stamped(f)
    BY <1>2 DEF Stamped
  <1>4. refs \in [Kinds -> Nat] /\ due \subseteq Kinds
    BY DEF TypeInv
  <1>5. \A k \in Kinds : Fresh(k) => Fresh(k)'
    <2> SUFFICES ASSUME NEW k \in Kinds, Fresh(k) PROVE Fresh(k)'
      OBVIOUS
    <2>1. refs'[k] > 0
      <3>1. CASE k = m
        <4>1. refs[m] > 1 /\ refs[m] \in Nat /\ refs'[m] = refs[m] - 1
          BY <1>1, <1>4, <3>1 DEF Fresh
        <4> QED BY <3>1, <4>1
      <3>2. CASE k # m
        BY <1>1, <1>4, <3>2 DEF Fresh
      <3> QED BY <3>1, <3>2
    <2>2. ~Freeing(k)'
      BY <1>1 DEF Freeing
    <2> QED BY <1>2, <1>3, <2>1, <2>2 DEF Fresh
  <1>6. QueueInv'
    <2>1. ASSUME NEW i \in 1 .. Len(queue), queue[i][2] # NONE
          PROVE  Fresh(queue[i][2])' /\ ~Serving(queue[i][2])'
      <3>1. PICK k : k = queue[i][2] /\ k = queue'[i][2]
        BY <1>2
      <3>2. Fresh(k) /\ ~Serving(k)
        BY <2>1, <3>1 DEF RequestInv, QueueInv
      <3>3. k \in Kinds
        BY <1>4, <3>2 DEF Fresh
      <3>4. Fresh(k)' /\ ~Serving(k)'
        BY <1>1, <1>5, <3>2, <3>3
      <3> QED BY <3>1, <3>4
    <2> QED BY <1>1, <1>2, <1>3, <2>1 DEF RequestInv, QueueInv
  <1>7. BitInv'
    BY <1>1, <1>2, <1>3, <1>5 DEF RequestInv, BitInv, Ready
  <1>8. PtpInv' /\ StampInv'
    BY <1>1, <1>2 DEF RequestInv, PtpInv, Freeing, StampInv, OwnStamps
  <1> QED BY <1>6, <1>7, <1>8 DEF RequestInv

\* The PTP thread clears what it has served, and may take a request's bit with it.
LEMMA RequestClear ==
    ASSUME TypeInv, ShapeInv, RequestInv, PtpClear
    PROVE  RequestInv'
  <1>1. /\ ptp.step = "clear" /\ ptp'.step = "poll" /\ ptp'.status = {}
        /\ status0' = status0 \ ptp.status /\ due' = due \ TakenModes(ptp.status)
        /\ UNCHANGED <<offered, waiting, refs, queue, captured, stamps>>
    BY DEF PtpClear, Cleared, TypeInv, PtpState
  <1>2. /\ \A k : ~Serving(k) /\ ~Serving(k)' /\ ~Freeing(k) /\ ~Freeing(k)'
        /\ \A f : Stamped(f)' <=> Stamped(f)
    BY <1>1 DEF Serving, Freeing, Stamped
  <1>3. \A k \in TakenModes(ptp.status) :
          /\ TsBit(k) \in status0 /\ TsBit(k) \in ptp.status /\ ~Stamped(captured[k])
    BY DEF TakenModes
  <1>4. \A k : k \notin TakenModes(ptp.status) /\ Fresh(k) => Fresh(k)'
    BY <1>1, <1>2 DEF Fresh
  <1>5. QueueInv'
    <2>1. ASSUME NEW i \in 1 .. Len(queue), queue[i][2] # NONE
          PROVE  Fresh(queue[i][2])' /\ TsBit(queue[i][2]) \notin status0'
      <3>1. PICK k : k = queue[i][2] /\ k = queue'[i][2]
        BY <1>1
      <3>2. /\ Fresh(k)
            /\ TsBit(k) \in status0 => TsBit(k) \in ptp.status /\ Stamped(captured[k])
        BY <2>1, <3>1 DEF RequestInv, QueueInv
      <3>3. Fresh(k)' /\ TsBit(k) \notin status0'
        BY <1>1, <1>3, <1>4, <3>2
      <3> QED BY <3>1, <3>3
    <2> QED BY <1>1, <1>2, <2>1 DEF RequestInv, QueueInv
  <1>6. BitInv'
    <2>1. ASSUME NEW k \in Kinds, TsBit(k) \in status0'
          PROVE  Ready(k)'
      <3>1. TsBit(k) \in status0 \ ptp.status
        BY <1>1, <2>1
      <3>2. Ready(k) /\ k \notin TakenModes(ptp.status)
        BY <1>3, <3>1 DEF RequestInv, BitInv
      <3> QED BY <1>1, <1>4, <3>2 DEF Ready
    <2> QED BY <1>1, <1>2, <2>1 DEF BitInv
  <1>7. PtpInv' /\ StampInv'
    BY <1>1, <1>2 DEF RequestInv, PtpInv, StampInv, OwnStamps
  <1> QED BY <1>5, <1>6, <1>7 DEF RequestInv

\* While nobody is hasty and no clear of the PTP thread fails.
LEMMA RequestStep ==
    ASSUME Initialised, TypeInv, ShapeInv, RequestInv, OneAtATime', [Next]_vars
    PROVE  RequestInv'
  <1>1. CASE \E f \in Frames : Offer(f)
    BY <1>1, RequestOffer
  <1>2. CASE Egress
    BY <1>2, RequestEgress
  <1>3. CASE PtpRead \/ PtpReadFails
    BY <1>3, RequestPoll
  <1>4. CASE ReadHigh \/ ReadLow
    BY <1>4, RequestReads
  <1>5. CASE Report
    BY <1>5, RequestReport
  <1>6. CASE Free
    BY <1>6, RequestFree
  <1>7. CASE PtpClear
    BY <1>7, RequestClear
  <1>8. CASE PtpClearFails
    BY <1>8 DEF PtpClearFails, OneAtATime, TypeInv
  <1>9. CASE SpiClear
    <2>1. PICK T : T = TakenModes(spi.value)
      OBVIOUS
    <2>2. /\ T \in SUBSET Kinds
          /\ \A k \in T : /\ TsBit(k) \in status0 \cap spi.value /\ ~Serving(k)
                          /\ ~Stamped(captured[k])
      BY <2>1 DEF TakenModes, Kinds
    <2>3. /\ UNCHANGED <<offered, waiting, refs, queue, captured, ptp, stamps>>
          /\ due' = due \ T /\ status0' = status0 \ spi.value
      BY <1>9, <2>1 DEF SpiClear, SpiCleared
    <2> QED BY <2>2, <2>3, RequestQuiet
  <1>10. CASE \/ (\E f \in Frames : CloneFails(f)) \/ SetTsConfig
              \/ (\E e \in Errors : RaiseError(e))
              \/ ExtendedStatus \/ SpiRead \/ SpiClearFails \/ SpiAct \/ UNCHANGED vars
    <2>1. /\ UNCHANGED <<waiting, refs, queue, captured, ptp, stamps, due>>
          /\ offered \subseteq offered'
      BY <1>10 DEF CloneFails, SetTsConfig, RaiseError, ExtendedStatus, SpiRead,
                   SpiClearFails, SpiAct, vars
    <2>2. \A k \in Kinds : TsBit(k) \in status0' => TsBit(k) \in status0
      <3>1. CASE \E e \in Errors : RaiseError(e)
        <4>1. \A k \in Kinds : TsBit(k) \notin Errors
          BY BitsApart DEF Kinds, Modes
        <4> QED BY <3>1, <4>1 DEF RaiseError
      <3>2. CASE status0' = status0
        BY <3>2
      <3> QED BY <1>10, <3>1, <3>2 DEF CloneFails, SetTsConfig, ExtendedStatus, SpiRead,
                   SpiClearFails, SpiAct, vars
    <2>3. {} \in SUBSET Kinds /\ due' = due \ {}
      BY <2>1
    <2> QED BY <2>1, <2>2, <2>3, RequestQuiet
  <1> QED BY <1>1, <1>2, <1>3, <1>4, <1>5, <1>6, <1>7, <1>8, <1>9, <1>10
          DEF Next, PtpThread, SpiThread

-----------------------------------------------------------------------------
(* No request leaves its way unseen.                                       *)

\* A capture on its way is that of the clone, and its kind is taken.
LEMMA UnderWayReady ==
    ASSUME RequestInv, NEW f \in Requesting, NEW k \in Kinds, k = ModeOf(f),
           captured[k] = f, ~Stamped(f), TsBit(k) \in status0 \/ Serving(k)
    PROVE  Ready(k) /\ k \in due
  BY DEF RequestInv, BitInv, Ready, Fresh

LEMMA KeptOffer ==
    ASSUME Initialised, TypeInv, RequestInv, OneAtATime', NEW f \in Requesting,
           NEW g \in Frames, Offer(g)
    PROVE  StaysUnderWay(f)
  <1> SUFFICES ASSUME UnderWay(f) PROVE UnderWay(f)'
    BY DEF StaysUnderWay
  <1>1. PICK k \in Kinds : k = ModeOf(f)
    BY DEF ModeOf, Kinds
  <1>2. UNCHANGED <<status0, captured, ptp, stamps>>
    BY DEF Offer
  <1>3. ASSUME NEW i \in 1 .. Len(queue), queue[i] = <<f, k>>
        PROVE  UnderWay(f)'
    <2>1. queue \in Seq(Frames \X (0 .. 3)) /\ Len(queue) \in Nat
      BY LenProperties DEF TypeInv
    <2>2. CASE queue' = queue
      BY <1>1, <1>3, <2>2 DEF UnderWay
    <2>3. CASE queue' # queue
      <3>1. PICK m \in 0 .. 3 :
              queue' = Append(queue, <<g, m>>) /\ <<g, m>> \in Frames \X (0 .. 3)
        BY <2>3, OfferQueues
      <3>2. queue'[i] = queue[i] /\ i \in 1 .. Len(queue')
        <4>1. Len(queue') = Len(queue) + 1 /\ queue'[i] = queue[i]
          BY <1>3, <2>1, <3>1, AppendProperties
        <4> QED BY <2>1, <4>1
      <3> QED BY <1>1, <1>3, <3>2 DEF UnderWay
    <2> QED BY <2>2, <2>3
  <1>4. CASE /\ waiting[k] = f /\ captured[k] = f /\ ~Stamped(f)
             /\ TsBit(k) \in status0 \/ Serving(k)
    <2>1. k \in due
      BY <1>1, <1>4, UnderWayReady
    <2>2. waiting'[k] = f
      <3>1. CASE g \in Requesting /\ txOn
        <4>1. ModeOf(g) \notin due /\ waiting' = [waiting EXCEPT ![ModeOf(g)] = g]
          BY <3>1, KindFree
        <4> QED BY <1>4, <2>1, <4>1 DEF TypeInv
      <3>2. CASE ~(g \in Requesting /\ txOn)
        BY <1>4, <3>2 DEF Offer, Keep
      <3> QED BY <3>1, <3>2
    <2> QED BY <1>1, <1>2, <1>4, <2>2 DEF UnderWay, Serving, Stamped
  <1> QED BY <1>1, <1>3, <1>4 DEF UnderWay

LEMMA KeptEgress ==
    ASSUME TypeInv, ShapeInv, RequestInv, NEW f \in Requesting, Egress
    PROVE  StaysUnderWay(f)
  <1> SUFFICES ASSUME UnderWay(f) PROVE UnderWay(f)'
    BY DEF StaysUnderWay
  <1>1. PICK k \in Kinds : k = ModeOf(f)
    BY DEF ModeOf, Kinds
  <1>2. UNCHANGED <<waiting, ptp, stamps>> /\ status0 \subseteq status0'
    BY DEF Egress
  <1>3. PICK h \in Frames \X (0 .. 3) :
          /\ h = queue[1] /\ h = Head(queue) /\ h[2] \in Kinds \cup {NONE}
          /\ Len(queue) \in Nat /\ 1 \in 1 .. Len(queue)
          /\ Len(queue') = Len(queue) - 1
          /\ \A i \in 1 .. Len(queue') : queue'[i] = queue[i + 1]
    BY EgressTakes
  <1>4. k # NONE /\ k \in Modes /\ captured \in [Modes -> Held]
    BY DEF Kinds, Modes, TypeInv
  <1>5. ASSUME NEW i \in 1 .. Len(queue), queue[i] = <<f, k>>
        PROVE  UnderWay(f)'
    <2>1. CASE i = 1
      <3>1. h[1] = f /\ h[2] = k
        BY <1>3, <1>5, <2>1
      <3>2. TsBit(k) \in status0' /\ captured'[k] = f
        BY <1>3, <1>4, <3>1 DEF Egress
      <3>3. Fresh(k) /\ waiting[k] = f
        BY <1>3, <1>4, <3>1 DEF RequestInv, QueueInv
      <3> QED BY <1>1, <1>2, <3>2, <3>3 DEF UnderWay, Fresh, Stamped
    <2>2. CASE i # 1
      <3>1. PICK j \in 1 .. Len(queue') : j + 1 = i
        <4>1. i - 1 \in 1 .. Len(queue') /\ (i - 1) + 1 = i
          BY <1>3, <2>2
        <4> QED BY <4>1
      <3>2. queue'[j] = <<f, k>>
        BY <1>3, <1>5, <3>1
      <3> QED BY <1>1, <3>2 DEF UnderWay
    <2> QED BY <2>1, <2>2
  <1>6. CASE /\ waiting[k] = f /\ captured[k] = f /\ ~Stamped(f)
             /\ TsBit(k) \in status0 \/ Serving(k)
    <2>1. h[2] # k
      BY <1>3, <1>4, <1>6 DEF RequestInv, QueueInv
    <2>2. captured'[k] = f
      BY <1>3, <1>4, <1>6, <2>1 DEF Egress
    <2> QED BY <1>1, <1>2, <1>6, <2>2 DEF UnderWay, Serving, Stamped
  <1> QED BY <1>1, <1>5, <1>6 DEF UnderWay

\* What is served is stamped, and what comes after it in the round is still to come.
LEMMA KeptReport ==
    ASSUME TypeInv, ShapeInv, RequestInv, NEW f \in Requesting, Report
    PROVE  StaysUnderWay(f)
  <1> SUFFICES ASSUME UnderWay(f), ~Stamped(f)' PROVE UnderWay(f)'
    BY DEF StaysUnderWay
  <1>1. PICK k \in Kinds : k = ModeOf(f)
    BY DEF ModeOf, Kinds
  <1>2. PICK m \in Kinds, w \in Requesting, h \in Held, l \in Held :
             /\ {h, l} \subseteq {w, NULL}
             /\ m = ptp.at /\ w = waiting[m] /\ Serving(m) /\ Ready(m)
             /\ ptp.step = "report" /\ TsBit(m) \in ptp.status
             /\ stamps' = Append(stamps, <<w, h, l>>)
             /\ <<w, h, l>> \in Requesting \X Held \X Held
             /\ due' = due \ {m}
             /\ ptp' = [ptp EXCEPT !.step = "free", !.hi = NULL, !.lo = NULL]
    BY ReportStamps
  <1>3. /\ UNCHANGED <<waiting, queue, status0, captured>> /\ ptp \in PtpState
        /\ ptp'.step = "free" /\ ptp'.at = m /\ ptp'.status = ptp.status
    BY <1>2 DEF Report, TypeInv, PtpState
  <1>4. f # w
    <2>1. /\ Len(stamps) \in Nat /\ Len(stamps') = Len(stamps) + 1
          /\ stamps'[Len(stamps) + 1] = <<w, h, l>>
      BY <1>2, LenProperties, AppendProperties DEF TypeInv
    <2>2. Len(stamps) + 1 \in 1 .. Len(stamps') /\ <<w, h, l>>[1] = w
      BY <2>1
    <2> QED BY <2>1, <2>2 DEF Stamped
  <1>5. waiting[k] = f /\ Serving(k) => Serving(k)'
    <2> SUFFICES ASSUME waiting[k] = f, Serving(k) PROVE Serving(k)'
      OBVIOUS
    <2>1. k # m
      BY <1>2, <1>4
    <2>2. m < k
      BY <1>2, <2>1 DEF Serving, Kinds
    <2> QED BY <1>3, <2>2 DEF Serving
  <1> QED BY <1>1, <1>3, <1>5 DEF UnderWay

LEMMA KeptStep ==
    ASSUME Initialised, TypeInv, ShapeInv, RequestInv, OneAtATime', [Next]_vars,
           NEW f \in Requesting
    PROVE  StaysUnderWay(f)
  <1>1. CASE \E g \in Frames : Offer(g)
    BY <1>1, KeptOffer
  <1>2. CASE Egress
    BY <1>2, KeptEgress
  <1>3. CASE PtpRead \/ PtpReadFails
    <2>1. UNCHANGED <<waiting, queue, status0, captured, stamps>> /\ ptp.step = "poll"
      BY <1>3 DEF PtpRead, PtpReadFails
    <2> QED BY <2>1 DEF StaysUnderWay, UnderWay, Serving, Stamped
  <1>4. CASE Report
    BY <1>4, KeptReport
  <1>5. CASE ReadHigh \/ ReadLow
    <2>1. /\ UNCHANGED <<waiting, queue, status0, captured, stamps>> /\ ptp'.at = ptp.at
          /\ ptp'.status = ptp.status /\ ptp'.step \in {"low", "report"}
          /\ ptp.step \in {"high", "low"}
      BY <1>5 DEF ReadHigh, ReadLow, TypeInv, PtpState
    <2> QED BY <2>1 DEF StaysUnderWay, UnderWay, Serving, Stamped
  <1>6. CASE Free
    <2>1. UNCHANGED <<waiting, queue, status0, captured, stamps>>
      BY <1>6 DEF Free
    <2>2. \A k \in Kinds : Serving(k)' <=> Serving(k)
      BY <1>6, FreeGoesOn
    <2>3. ModeOf(f) \in Kinds
      BY DEF ModeOf, Kinds
    <2> QED BY <2>1, <2>2, <2>3 DEF StaysUnderWay, UnderWay, Stamped
  <1>7. CASE PtpClear
    <2>1. /\ UNCHANGED <<waiting, queue, captured, stamps>> /\ ptp.step = "clear"
          /\ status0' = status0 \ ptp.status
      BY <1>7 DEF PtpClear, Cleared
    <2> QED BY <1>7, <2>1 DEF StaysUnderWay, UnderWay, Serving, Stamped
  <1>8. CASE PtpClearFails
    BY <1>8 DEF PtpClearFails, OneAtATime, TypeInv
  <1>9. CASE SpiClear
    <2>1. /\ UNCHANGED <<waiting, queue, captured, stamps, ptp>>
          /\ status0' = status0 \ spi.value
      BY <1>9 DEF SpiClear, SpiCleared
    <2> QED BY <1>9, <2>1 DEF StaysUnderWay, UnderWay, Serving, Stamped
  <1>10. CASE \/ (\E g \in Frames : CloneFails(g)) \/ SetTsConfig
              \/ (\E e \in Errors : RaiseError(e))
              \/ ExtendedStatus \/ SpiRead \/ SpiClearFails \/ SpiAct \/ UNCHANGED vars
    <2>1. /\ UNCHANGED <<waiting, queue, captured, stamps, ptp>>
          /\ status0 \subseteq status0'
      BY <1>10 DEF CloneFails, SetTsConfig, RaiseError, ExtendedStatus, SpiRead,
                   SpiClearFails, SpiAct, vars
    <2> QED BY <2>1 DEF StaysUnderWay, UnderWay, Serving, Stamped
  <1> QED BY <1>1, <1>2, <1>3, <1>4, <1>5, <1>6, <1>7, <1>8, <1>9, <1>10
          DEF Next, PtpThread, SpiThread

-----------------------------------------------------------------------------
(* The theorems.                                                           *)

\* Hasty requests and failed clears are only counted up.
LEMMA OnceBroken ==
    ASSUME TypeInv, [Next]_vars, OneAtATime'
    PROVE  OneAtATime
  <1>1. hasty \in Nat /\ unclear \in Nat
    BY DEF TypeInv
  <1>2. hasty' \in {hasty, hasty + 1}
    BY DEF Next, Offer, Keep, CloneFails, SetTsConfig, Egress, RaiseError, PtpThread, PtpRead,
       PtpReadFails, ReadHigh, ReadLow, Report, Free, PtpClear, PtpClearFails, SpiThread,
       ExtendedStatus, SpiRead, SpiClear, SpiClearFails, SpiAct, vars
  <1>3. unclear' \in {unclear, unclear + 1}
    BY DEF Next, Offer, CloneFails, SetTsConfig, Egress, RaiseError, PtpThread, PtpRead,
       PtpReadFails, ReadHigh, ReadLow, Report, Free, PtpClear, PtpClearFails, SpiThread,
       ExtendedStatus, SpiRead, SpiClear, SpiClearFails, SpiAct, vars
  <1> QED BY <1>1, <1>2, <1>3 DEF OneAtATime

LEMMA RequestInvariant ==
    ASSUME Initialised
    PROVE  Spec => [](TypeInv /\ ShapeInv /\ Calm)
  <1>1. Init => TypeInv /\ ShapeInv /\ Calm
    BY TypeInit, RequestInit DEF Calm
  <1>2. TypeInv /\ ShapeInv /\ Calm /\ [Next]_vars => (TypeInv /\ ShapeInv /\ Calm)'
    <2> SUFFICES ASSUME TypeInv, ShapeInv, Calm, [Next]_vars
                 PROVE  (TypeInv /\ ShapeInv /\ Calm)'
      OBVIOUS
    <2>1. TypeInv' /\ ShapeInv'
      BY TypeStep
    <2>2. OneAtATime' => RequestInv'
      BY OnceBroken, RequestStep DEF Calm
    <2> QED BY <2>1, <2>2 DEF Calm
  <1> QED BY <1>1, <1>2, PTL DEF Spec

\* A timestamp handed up to the stack is that of the frame it is given for,
\* but for a half that could not be read, and no frame gets two: as long as
\* nobody asked for a second one of a kind while the first was due, and every
\* clear of the PTP thread has worked; whatever the transmit function, the
\* MAC-PHY and both threads do in between, with requests that follow at once,
\* are refused or dropped, and failing reads (lan865x_send_packet,
\* lan865x_ptp_thread_handler, oa_tc6_process_extended_status).
THEOREM StampsRight == Initialised => (Spec => []StampsTrue)
  <1> SUFFICES ASSUME Initialised PROVE Spec => []StampsTrue
    OBVIOUS
  <1>1. Calm => StampsTrue
    BY DEF Calm, RequestInv, StampInv, StampsTrue
  <1>2. Spec => [](TypeInv /\ ShapeInv /\ Calm)
    BY RequestInvariant
  <1> QED BY <1>1, <1>2, PTL

\* Under the same conditions the PTP thread finds a clone that is still
\* referenced, for every capture bit it serves and every reference it
\* releases: although it may release one of the clone that has just taken the
\* place of the one it stamped (lan865x_ptp.c:41).
THEOREM CloneFound == Initialised => (Spec => []CloneThere)
  <1> SUFFICES ASSUME Initialised PROVE Spec => []CloneThere
    OBVIOUS
  <1>1. Calm => CloneThere
    BY DEF Calm, RequestInv, PtpInv, CloneThere, CloneHeld
  <1>2. Spec => [](TypeInv /\ ShapeInv /\ Calm)
    BY RequestInvariant
  <1> QED BY <1>1, <1>2, PTL

\* No request is lost but to a clear: a frame accepted with a timestamp request stays
\* on its way until the stack has its timestamp, except that one of the two writes of
\* STATUS0 may take its capture bit away: the SPI thread's (oa_tc6.c:728), or the PTP
\* thread's own, which clears the bit of the request before (lan865x_ptp.c:60). It is
\* the part of RequestStamped that is not about fairness, for requests that are not
\* hasty and clears that do not fail.
THEOREM RequestLostToClears ==
    Initialised => (Spec => [][OneAtATime' => RequestsKept]_vars)
  <1> SUFFICES ASSUME Initialised PROVE Spec => [][OneAtATime' => RequestsKept]_vars
    OBVIOUS
  <1>1. TypeInv /\ ShapeInv /\ Calm /\ [Next]_vars => [OneAtATime' => RequestsKept]_vars
    BY OnceBroken, KeptStep DEF Calm, RequestsKept
  <1>2. Spec => [](TypeInv /\ ShapeInv /\ Calm)
    BY RequestInvariant
  <1> QED BY <1>1, <1>2, PTL DEF Spec

\* No error is lost but in one way: once raised it stays in STATUS0 or in the value the
\* SPI thread has read, until that thread acts upon it or ends, except that the PTP
\* thread's write back may take its bit away (lan865x_ptp.c:60).
THEOREM ErrorLostToPtpOnly == Spec => [][ErrorsKept]_vars
  <1> DEFINE ReadInv == /\ spi = [step |-> spi.step, value |-> spi.value]
                        /\ spi.step \in {"idle", "read"} => spi.value = {}
  <1>1. Init => ReadInv
    BY DEF Init
  <1>2. ReadInv /\ [Next]_vars => ReadInv'
    <2> SUFFICES ASSUME ReadInv, [Next]_vars PROVE ReadInv'
      OBVIOUS
    <2>1. CASE SpiThread
      BY <2>1 DEF SpiThread, ExtendedStatus, SpiRead, SpiClear, SpiClearFails, SpiAct
    <2>2. CASE spi' = spi
      BY <2>2
    <2> QED BY <2>1, <2>2 DEF Next, Offer, CloneFails, SetTsConfig, Egress, RaiseError, PtpThread,
          PtpRead, PtpReadFails, ReadHigh, ReadLow, Report, Free, PtpClear,
          PtpClearFails, vars
  <1>3. ReadInv /\ [Next]_vars => [ErrorsKept]_vars
    <2> SUFFICES ASSUME ReadInv, [Next]_vars, NEW e \in Errors, Known(e)
                 PROVE  \/ Known(e)' \/ spi'.step = "dead"
                        \/ SpiAct /\ e \in spi.value
                        \/ PtpClear /\ e \in ptp.status
      BY DEF ErrorsKept
    <2>1. CASE ExtendedStatus \/ SpiRead
      BY <2>1 DEF ExtendedStatus, SpiRead, Known
    <2>2. CASE SpiClear \/ SpiClearFails
      BY <2>2 DEF SpiClear, SpiClearFails, SpiCleared, Known
    <2>3. CASE SpiAct
      BY <2>3 DEF SpiAct, Known
    <2>4. CASE PtpClear
      BY <2>4 DEF PtpClear, Cleared, Known
    <2>5. CASE UNCHANGED spi /\ status0 \subseteq status0' /\ unacted \subseteq unacted'
      BY <2>5 DEF Known
    <2> QED BY <2>1, <2>2, <2>3, <2>4, <2>5 DEF Next, Offer, CloneFails, SetTsConfig, Egress,
          RaiseError, PtpThread, PtpRead, PtpReadFails, ReadHigh, ReadLow, Report, Free, PtpClearFails,
          SpiThread, vars
  <1> QED BY <1>1, <1>2, <1>3, PTL DEF Spec

\* Clones, queue, status bits and the steps of both threads stay what they are
\* declared as, and the queue within its bound.
THEOREM StampTyping == Initialised => (Spec => []TypeOK)
  <1> SUFFICES ASSUME Initialised PROVE Spec => []TypeOK
    OBVIOUS
  <1> DEFINE Rest == /\ Len(queue) <= Capacity
                     /\ status0 \subseteq TsBits \cup Errors /\ unacted \subseteq Errors
                     /\ taken \subseteq Requesting \cup Errors
  <1>1. Init => Rest
    BY EmptySeq, CapacityAssumption DEF Init
  <1>2. TypeInv /\ Rest /\ [Next]_vars => Rest'
    <2> SUFFICES ASSUME TypeInv, Rest, [Next]_vars PROVE Rest'
      OBVIOUS
    <2>1. queue \in Seq(Frames \X (0 .. 3)) /\ Len(queue) \in Nat
      BY LenProperties DEF TypeInv
    <2>2. ASSUME NEW f \in Frames, Offer(f) PROVE Rest'
      <3>1. UNCHANGED <<status0, unacted, taken>>
        BY <2>2 DEF Offer
      <3>2. CASE queue' = queue
        BY <3>1, <3>2
      <3>3. CASE queue' # queue
        <4>1. PICK m \in 0 .. 3 :
                queue' = Append(queue, <<f, m>>) /\ <<f, m>> \in Frames \X (0 .. 3)
          BY <2>2, <3>3, OfferQueues
        <4>2. Len(queue') = Len(queue) + 1
          BY <2>1, <4>1, AppendProperties
        <4>3. Len(queue) # Capacity
          BY <2>2, <3>3 DEF Offer, Queued, Dropped, Refused, Full
        <4> QED BY <2>1, <3>1, <4>2, <4>3, CapacityAssumption
      <3> QED BY <3>2, <3>3
    <2>3. CASE Egress
      <3>1. queue' = Tail(queue) /\ queue # <<>>
        BY <2>3 DEF Egress
      <3>2. Len(queue') = Len(queue) - 1
        BY <2>1, <3>1, HeadTailProperties
      <3>3. Len(queue') <= Capacity
        BY <2>1, <3>2, CapacityAssumption
      <3>4. Head(queue) \in Frames \X (0 .. 3)
        BY <2>1, <3>1, HeadTailProperties
      <3>5. PICK m \in 0 .. 3 : m = Head(queue)[2]
        BY <3>4
      <3>6. m # NONE => TsBit(m) \in TsBits
        BY <3>5, BitsApart DEF Modes
      <3> QED BY <2>3, <3>3, <3>5, <3>6 DEF Egress
    <2>4. CASE (\E f \in Frames : CloneFails(f)) \/ SetTsConfig \/ UNCHANGED vars
      BY <2>4 DEF CloneFails, SetTsConfig, vars
    <2>5. CASE \E e \in Errors : RaiseError(e)
      BY <2>5 DEF RaiseError
    <2>6. CASE PtpThread
      BY <2>6 DEF PtpThread, PtpRead, PtpReadFails, ReadHigh, ReadLow, Report, Free, PtpClear,
         PtpClearFails, Cleared, TakenFrames, TakenModes
    <2>7. CASE SpiThread
      BY <2>7 DEF SpiThread, ExtendedStatus, SpiRead, SpiClear, SpiClearFails, SpiAct, SpiCleared,
         TakenFrames, TakenModes
    <2> QED BY <2>2, <2>3, <2>4, <2>5, <2>6, <2>7 DEF Next
  <1>3. TypeInv /\ Rest => TypeOK
    BY DEF TypeInv, TypeOK, Kinds, Held, PtpState, SpiState, Status
  <1>4. Spec => [](TypeInv /\ ShapeInv /\ Calm)
    BY RequestInvariant
  <1> QED BY <1>1, <1>2, <1>3, <1>4, PTL DEF Spec

=============================================================================
