----------------------------- MODULE Timestamps -----------------------------
(***************************************************************************)
(* Transmit timestamps and the status register they share with the error   *)
(* interrupts: lan865x_send_packet keeps a clone of each frame it requests *)
(* a timestamp for, the PTP thread polls STATUS0 for captures, and the SPI *)
(* thread reads and clears the same register on an extended status.  What  *)
(* lies between the transmit function and the wire is TxService's queue.   *)
(***************************************************************************)
EXTENDS Integers, Sequences, FiniteSetsExt

CONSTANTS
  GptpFrames, NormalFrames,  \* frames that request a timestamp, by kind
  PlainFrames,   \* frames that request none
  NULL,          \* no frame
  UnsetModes,    \* low bits an uninitialised ts_capture_mode may have
  UnsetStatus,   \* values the PTP thread's uninitialised status may have
  Errors,        \* error bits the MAC-PHY may raise
  Unmasked,      \* bits of STATUS0 that raise an extended status
  Capacity,      \* bound: frames between the transmit function and the wire
  MaxConfig,     \* bound: changes of the timestamp configuration
  MaxHasty,      \* bound: requests made while one of their kind is due
  MaxUnclear,    \* bound: writes of STATUS0 that fail in the PTP thread
  Faults         \* of {"read", "write", "half", "alloc", "busy"}: failing reads
                 \* and writes of STATUS0 and reads of a capture register,
                 \* skb_clone and skb_linearize, NETDEV_TX_BUSY

\* ts_capture_mode, also the number of a capture register.
NONE == 0
GPTP == 1
NORMAL == 2
RESERVED == 3
Modes == {GPTP, NORMAL, RESERVED}

\* Bits of STATUS0: protocol error, receive overflow, loss of frame, header error.
TXPE == 0
RXBOE == 3
LOFE == 4
HDRE == 5
TsBit(mode) == 7 + mode
TsBits == {TsBit(m) : m \in Modes}
ErrorBits == {TXPE, RXBOE, LOFE, HDRE}

ASSUME BitsAssumption == Errors \subseteq ErrorBits /\ UnsetModes \subseteq 0..3
ASSUME CapacityAssumption == Capacity \in Nat
ASSUME FramesAssumption == NULL \notin GptpFrames \cup NormalFrames \cup PlainFrames

Requesting == GptpFrames \cup NormalFrames
Frames == Requesting \cup PlainFrames

VARIABLES
  txOn,      \* tstamp_config.tx_type = HWTSTAMP_TX_ON
  offered,   \* frames accepted from the stack
  waiting,   \* waiting_txts_skb: per mode the frame of the clone, or NULL
  refs,      \* references to the clone waiting_txts_skb points at
  queue,     \* accepted frames on their way to the wire, with their mode
  status0,   \* STATUS0 of the MAC-PHY
  captured,  \* the capture registers: the frame that left last
  ptp,       \* the PTP thread: step, status, mode at hand, halves read
  spi,       \* the SPI thread: step and the value read
  stamps,    \* timestamps handed up: <<frame, high half, low half>>
  unacted,   \* errors raised, not yet acted upon by the SPI thread
  changes,   \* configuration changes
  \* What the properties need to know of the past; no step depends on it.
  due,       \* kinds whose last requester has yet to get its timestamp
  hasty,     \* requests made while one of their kind was due
  unclear,   \* writes of STATUS0 that failed in the PTP thread
  taken      \* frames and errors one thread's clear took from the other

stack == <<txOn, changes, offered, waiting>>
wire == <<queue, captured>>
history == <<due, hasty, unclear, taken>>
vars == <<txOn, offered, waiting, refs, queue, status0, captured, ptp, spi,
          stamps, unacted, changes, due, hasty, unclear, taken>>

TypeOK ==
  /\ offered \subseteq Frames
  /\ waiting \in [{GPTP, NORMAL} -> Requesting \cup {NULL}]
  /\ queue \in Seq(Frames \X (0..3)) /\ Len(queue) <= Capacity
  /\ status0 \subseteq TsBits \cup Errors
  /\ captured \in [Modes -> Frames \cup {NULL}]
  /\ ptp.status \subseteq TsBits \cup ErrorBits
  /\ spi.step \in {"idle", "read", "clear", "act", "dead"}
  /\ unacted \subseteq Errors
  /\ due \subseteq {GPTP, NORMAL} /\ taken \subseteq Requesting \cup Errors

Init ==
  /\ txOn \in BOOLEAN /\ offered = {}
  /\ waiting = [m \in {GPTP, NORMAL} |-> NULL]
  /\ refs = [m \in {GPTP, NORMAL} |-> 0]
  /\ queue = <<>> /\ status0 = {}
  /\ captured = [m \in Modes |-> NULL]
  /\ ptp \in [step : {"poll"}, at : {NONE}, hi : {NULL}, lo : {NULL}, status : UnsetStatus]
  /\ spi = [step |-> "idle", value |-> {}]
  /\ stamps = <<>> /\ unacted = {} /\ changes = 0
  /\ due = {} /\ hasty = 0 /\ unclear = 0 /\ taken = {}

-----------------------------------------------------------------------------
(* lan865x_send_packet.                                                    *)

ModeOf(f) == IF f \in GptpFrames THEN GPTP ELSE NORMAL

CloneRefs_One == 1
CloneRefs == 2   \* skb_clone, then skb_get

CaptureModes(f) == IF f \notin Requesting THEN UnsetModes
                   ELSE IF txOn THEN {ModeOf(f)} ELSE {NONE}

Full == Len(queue) = Capacity

\* The clone is kept before the mailbox turns out to be free or not; the one
\* before it is forgotten.
Keep(f) == IF f \in Requesting /\ txOn
           THEN /\ waiting' = [waiting EXCEPT ![ModeOf(f)] = f]
                /\ refs' = [refs EXCEPT ![ModeOf(f)] = CloneRefs]
                /\ IF ModeOf(f) \in due THEN hasty < MaxHasty /\ hasty' = hasty + 1
                   ELSE UNCHANGED hasty
           ELSE UNCHANGED <<waiting, refs, hasty>>

Queued(f) ==
  /\ ~Full
  /\ \E m \in CaptureModes(f) : queue' = Append(queue, <<f, m>>)
  /\ offered' = offered \cup {f}
  /\ due' = IF f \in Requesting /\ txOn THEN due \cup {ModeOf(f)} ELSE due

\* skb_linearize fails.
Dropped(f) ==
  /\ "alloc" \in Faults /\ ~Full
  /\ offered' = offered \cup {f}
  /\ UNCHANGED <<queue, due>>

\* NETDEV_TX_BUSY: the stack offers the frame again.
Refused == "busy" \in Faults /\ Full /\ UNCHANGED <<queue, offered, due>>

Offer(f) ==
  /\ f \notin offered
  /\ Keep(f)
  /\ Queued(f) \/ Dropped(f) \/ Refused
  /\ UNCHANGED <<txOn, status0, captured, ptp, spi, stamps, unacted, changes,
                 unclear, taken>>

\* -EAGAIN, which the stack takes for an skb consumed: the frame is gone.
CloneFails(f) ==
  /\ "alloc" \in Faults /\ f \in Requesting \ offered
  /\ offered' = offered \cup {f}
  /\ UNCHANGED <<txOn, waiting, refs, queue, status0, captured, ptp, spi, stamps,
                 unacted, changes, history>>

SetTsConfig ==
  /\ changes < MaxConfig
  /\ txOn' = ~txOn /\ changes' = changes + 1
  /\ UNCHANGED <<offered, waiting, refs, wire, status0, ptp, spi, stamps, unacted,
                 history>>

-----------------------------------------------------------------------------
(* The MAC-PHY.                                                            *)

Egress ==
  /\ queue # <<>>
  /\ LET f == Head(queue)[1]  m == Head(queue)[2] IN
     IF m = NONE THEN UNCHANGED <<captured, status0>>
     ELSE /\ captured' = [captured EXCEPT ![m] = f]
          /\ status0' = status0 \cup {TsBit(m)}
  /\ queue' = Tail(queue)
  /\ UNCHANGED <<stack, refs, ptp, spi, stamps, unacted, history>>

RaiseError(e) ==
  /\ e \in Errors \ unacted
  /\ status0' = status0 \cup {e}
  /\ unacted' = unacted \cup {e}
  /\ UNCHANGED <<stack, refs, wire, ptp, spi, stamps, history>>

-----------------------------------------------------------------------------
(* lan865x_ptp_thread_handler.                                             *)

Pending(status, after) == {m \in Modes : m > after /\ TsBit(m) \in status}

\* The next capture bit to be served after mode m, or the end of the round.
Onward(p, m) == LET left == Pending(p.status, m) IN
  IF left # {} THEN [p EXCEPT !.step = "high", !.at = Min(left)]
  ELSE IF p.status \cap TsBits # {} THEN [p EXCEPT !.step = "clear", !.at = NONE]
  ELSE [p EXCEPT !.step = "poll", !.at = NONE, !.status = {}]

PtpRead ==
  /\ ptp.step = "poll"
  /\ ptp' = Onward([ptp EXCEPT !.status = status0], NONE)
  /\ UNCHANGED <<stack, refs, wire, status0, spi, stamps, unacted, history>>

PtpReadFails ==
  /\ ptp.step = "poll" /\ "read" \in Faults
  /\ ptp' = Onward(ptp, NONE)
  /\ UNCHANGED <<stack, refs, wire, status0, spi, stamps, unacted, history>>

RegisterOf_First(m) == GPTP
RegisterOf(m) == m

\* A half that cannot be read counts as zero.
Half(m) == {captured[RegisterOf(m)]} \cup (IF "half" \in Faults THEN {NULL} ELSE {})

ReadHigh ==
  /\ ptp.step = "high"
  /\ \E v \in Half(ptp.at) : ptp' = [ptp EXCEPT !.step = "low", !.hi = v]
  /\ UNCHANGED <<stack, refs, wire, status0, spi, stamps, unacted, history>>

ReadLow ==
  /\ ptp.step = "low"
  /\ \E v \in Half(ptp.at) : ptp' = [ptp EXCEPT !.step = "report", !.lo = v]
  /\ UNCHANGED <<stack, refs, wire, status0, spi, stamps, unacted, history>>

\* With no live clone left the kernel is in undefined state: the model stops
\* the thread ("oops").
Live(m) == waiting[m] # NULL /\ refs[m] > 0
Oops == ptp' = [ptp EXCEPT !.step = "oops"]

\* skb_tstamp_tx: from here on the requester may ask for another.
Report ==
  /\ ptp.step = "report"
  /\ IF ptp.at = RESERVED
     THEN /\ ptp' = Onward([ptp EXCEPT !.hi = NULL, !.lo = NULL], ptp.at)
          /\ UNCHANGED <<stamps, due>>
     ELSE IF Live(ptp.at)
     THEN /\ stamps' = Append(stamps, <<waiting[ptp.at], ptp.hi, ptp.lo>>)
          /\ due' = due \ {ptp.at}
          /\ ptp' = [ptp EXCEPT !.step = "free", !.hi = NULL, !.lo = NULL]
     ELSE Oops /\ UNCHANGED <<stamps, due>>
  /\ UNCHANGED <<stack, refs, wire, status0, spi, unacted, hasty, unclear, taken>>

\* kfree_skb of what waiting_txts_skb points at by now; the pointer stays.
Free ==
  /\ ptp.step = "free"
  /\ IF Live(ptp.at)
     THEN /\ refs' = [refs EXCEPT ![ptp.at] = @ - 1]
          /\ ptp' = Onward(ptp, ptp.at)
     ELSE Oops /\ UNCHANGED refs
  /\ UNCHANGED <<stack, wire, status0, spi, stamps, unacted, history>>

-----------------------------------------------------------------------------
(* Both threads write STATUS0 back, which clears the bits written as ones. *)

\* The PTP thread has read the bit of mode m and has yet to serve it.
Serving(m) ==
  /\ ptp.step \in {"high", "low", "report", "free"} /\ TsBit(m) \in ptp.status
  /\ ptp.at < m \/ (ptp.at = m /\ ptp.step # "free")

Stamped(f) == \E i \in 1..Len(stamps) : stamps[i][1] = f

\* The kinds whose capture nobody has stamped, or will, once these bits are gone.
TakenModes(bits) == {m \in {GPTP, NORMAL} :
  /\ TsBit(m) \in status0 \cap bits /\ ~Serving(m)
  /\ captured[m] \in Requesting /\ ~Stamped(captured[m])}
TakenFrames(bits) == {captured[m] : m \in TakenModes(bits)}

Cleared(status) == status0 \ status

PtpClear ==
  /\ ptp.step = "clear"
  /\ status0' = Cleared(ptp.status)
  /\ due' = due \ TakenModes(ptp.status)
  /\ taken' = taken \cup TakenFrames(ptp.status)
                   \cup ((unacted \cap status0 \cap ptp.status) \ spi.value)
  /\ ptp' = [ptp EXCEPT !.step = "poll", !.status = {}]
  /\ UNCHANGED <<stack, refs, wire, spi, stamps, unacted, hasty, unclear>>

\* The result of the write is not looked at.
PtpClearFails ==
  /\ ptp.step = "clear" /\ "write" \in Faults /\ unclear < MaxUnclear
  /\ unclear' = unclear + 1
  /\ ptp' = [ptp EXCEPT !.step = "poll", !.status = {}]
  /\ UNCHANGED <<stack, refs, wire, status0, spi, stamps, unacted, due, hasty, taken>>

-----------------------------------------------------------------------------
(* The SPI thread: oa_tc6_process_extended_status.                         *)

ExtendedStatus ==
  /\ spi.step = "idle" /\ status0 \cap Unmasked # {}
  /\ spi' = [spi EXCEPT !.step = "read"]
  /\ UNCHANGED <<stack, refs, wire, status0, ptp, stamps, unacted, history>>

SpiRead ==
  /\ spi.step = "read"
  /\ \/ spi' = [step |-> "clear", value |-> status0]
     \/ "read" \in Faults /\ spi' = [step |-> "dead", value |-> {}]
  /\ UNCHANGED <<stack, refs, wire, status0, ptp, stamps, unacted, history>>

SpiCleared == status0 \ spi.value

SpiClear ==
  /\ spi.step = "clear"
  /\ status0' = SpiCleared
  /\ due' = due \ TakenModes(spi.value)
  /\ taken' = taken \cup TakenFrames(spi.value)
  /\ \/ spi' = [spi EXCEPT !.step = "act"]
     \/ "write" \in Faults /\ spi' = [step |-> "dead", value |-> {}]
  /\ UNCHANGED <<stack, refs, wire, ptp, stamps, unacted, hasty, unclear>>

\* A write that failed before it reached the MAC-PHY; one that failed after
\* has cleared the bits, and ends the thread as well.
SpiClearFails ==
  /\ spi.step = "clear" /\ "write" \in Faults
  /\ spi' = [step |-> "dead", value |-> {}]
  /\ UNCHANGED <<stack, refs, wire, status0, ptp, stamps, unacted, history>>

\* The overflow is tested first; the others end the thread.
Fatal_NotHeader(value) == RXBOE \notin value /\ value \cap {TXPE, LOFE} # {}
Fatal(value) == RXBOE \notin value /\ value \cap {TXPE, LOFE, HDRE} # {}

SpiAct ==
  /\ spi.step = "act"
  /\ spi' = [step |-> IF Fatal(spi.value) THEN "dead" ELSE "idle", value |-> {}]
  /\ unacted' = IF Fatal(spi.value) THEN {} ELSE unacted \ spi.value
  /\ UNCHANGED <<stack, refs, wire, status0, ptp, stamps, history>>

PtpThread == \/ PtpRead \/ PtpReadFails \/ ReadHigh \/ ReadLow \/ Report \/ Free
             \/ PtpClear \/ PtpClearFails
SpiThread == ExtendedStatus \/ SpiRead \/ SpiClear \/ SpiClearFails \/ SpiAct

Next ==
  \/ \E f \in Frames : Offer(f) \/ CloneFails(f)
  \/ SetTsConfig \/ Egress
  \/ \E e \in Errors : RaiseError(e)
  \/ PtpThread \/ SpiThread

Spec == Init /\ [][Next]_vars

\* Two kernel threads that are never stopped, a poll that does not fail for
\* ever, and a wire that is free at times.
FairSpec == Spec /\ WF_vars(PtpThread) /\ WF_vars(PtpRead) /\ WF_vars(SpiThread)
                 /\ WF_vars(Egress)

-----------------------------------------------------------------------------
(* Correctness.                                                            *)

\* Each kind has one clone and one capture register (lan865x_arch.h:87): nobody
\* asks for a second timestamp of a kind before the first has come, or is known
\* to be lost. And the PTP thread's writes of STATUS0 have worked so far.
OneAtATime == hasty = 0 /\ unclear = 0

\* The timestamp of a frame is its own, in both halves that could be read, and
\* no frame gets a second one.
OwnStamps ==
  /\ \A i \in 1..Len(stamps) : {stamps[i][2], stamps[i][3]} \subseteq {stamps[i][1], NULL}
  /\ \A i, j \in 1..Len(stamps) : stamps[i][1] = stamps[j][1] => i = j

\* Timestamps go to their own frames although clone, capture register and
\* status bit are set by three actors and cleared by two: also when the next
\* request follows at once, before the PTP thread has released the clone and
\* cleared the bit, or is refused and made again, or its frame is dropped.
StampsTrue == OneAtATime => OwnStamps

\* skb_tstamp_tx and kfree_skb find a clone that is still referenced, under
\* the same conditions: the PTP thread may release a clone that has just
\* taken the place of the one it stamped (lan865x_ptp.c:41).
CloneHeld == ptp.step # "oops"
CloneThere == OneAtATime => CloneHeld

Requested(f) == \E i \in 1..Len(queue) : queue[i] = <<f, ModeOf(f)>> /\ f \in Requesting


\* oa_tc6.c:744: a lost frame or a bad header is not recoverable: once raised
\* it ends the SPI thread, unless the PTP thread's clear has taken it before
\* the SPI thread read it, or an overflow read with it hides it.
FatalStops == \A e \in Errors \ {RXBOE} :
  e \in unacted ~> \/ spi.step = "dead" \/ e \in taken
                   \/ spi.step = "act" /\ {e, RXBOE} \subseteq spi.value

\* A raised error stays in STATUS0 or in the hands of the SPI thread until it
\* was acted upon; framework.rst, "Extended status event", has the host read
\* STATUS0 to know the error.
ErrorsReachSpi == spi.step # "dead" => unacted \subseteq status0 \cup spi.value

\* No clear of STATUS0 takes what the other thread, or the next round, has yet
\* to serve.
NothingTaken == taken = {}

\* The same comment: the status the thread acts upon never holds a fatal error
\* it survives.
FatalNeverSurvived ==
  [][spi.step = "act" /\ spi.value \cap {LOFE, HDRE} # {} => spi'.step = "dead"]_spi

\* oa_tc6.c:727: the SPI thread clears the error status, so no capture
\* status the PTP thread waits for.
ClearsErrorsOnly ==
  [][spi.step = "clear" /\ spi'.step = "act" => status0 \cap TsBits \subseteq status0']_vars

\* framework.rst:226: a timestamp is captured for a frame that requested one.
OnlyRequestedCaptured == \A m \in Modes : captured[m] \in Requesting \cup {NULL}
=============================================================================
