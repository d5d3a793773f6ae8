------------------------------- MODULE TxPath -------------------------------
(***************************************************************************)
(* The transmit path of the OPEN Alliance TC6 framework (oa_tc6.c) between *)
(* the network stack and the MAC-PHY: the xmit callback with its one-skb   *)
(* mailbox waiting_tx_skb, the SPI kthread that cuts skbs into chunks under*)
(* the transmit credits, the interrupt handler, and open/close of the net  *)
(* device.  One action is one step between two points where another thread *)
(* of control can be observed; the program counters are pc (SPI thread),   *)
(* xpc (xmit callback) and isr.                                            *)
(***************************************************************************)
EXTENDS MacPhy

CONSTANTS OA_TC6_CHUNK_PAYLOAD_SIZE,  \* bytes of payload in a chunk
          OA_TC6_MAX_TX_CHUNKS,       \* chunks the SPI data buffers hold
          FrameLens,                  \* lengths of the frames the stack sends
          TsModes,                    \* timestamp capture modes they carry
          MaxFrames,                  \* bound: frames the stack sends
          MaxCloses,                  \* bound: times the device is closed
          Faults                      \* failures that may happen in this run

ASSUME TxPathAssumption ==
    /\ OA_TC6_CHUNK_PAYLOAD_SIZE \in Nat \ {0}
    /\ OA_TC6_MAX_TX_CHUNKS \in Nat
    /\ TxBuffers <= OA_TC6_MAX_TX_CHUNKS
    /\ RxBuffers <= OA_TC6_MAX_TX_CHUNKS
    /\ FrameLens \subseteq Nat \ {0}
    /\ TsModes \subseteq 0 .. 3
    /\ MaxFrames \in Nat /\ MaxCloses \in Nat
    /\ Faults \subseteq {"spi", "device", "ctrl", "nomem", "rx_overflow"}

VARIABLES
    \* struct oa_tc6
    waiting_tx_skb, waiting_tx_ts_capture_mode,
    ongoing_tx_skb, ongoing_tx_ts_capture_mode,
    tx_skb_offset, tx_credits, rx_chunks_available, int_flag,
    \* the SPI thread: where it is, its two buffers, its footer index
    pc, tx_buf, rx_buf, rx_next,
    \* the network stack: xmit callback, frame to send, queue and device state
    xpc, pending, stopped, up, offered, closes,
    \* the interrupt handler
    isr,
    \* history: frames accepted from the stack
    accepted

skbVars == <<ongoing_tx_skb, ongoing_tx_ts_capture_mode, tx_skb_offset>>
countVars == <<tx_credits, rx_chunks_available>>
bufVars == <<tx_buf, rx_buf, rx_next>>
waitingVars == <<waiting_tx_skb, waiting_tx_ts_capture_mode>>
intVars == <<int_flag, isr>>
linkVars == <<up, closes>>
netVars == <<pending, offered, xpc, stopped, accepted, linkVars>>
threadVars == <<skbVars, countVars, bufVars>>
driverVars == <<threadVars, waitingVars, intVars, netVars, pc>>
vars == <<devVars, driverVars>>

\* An skb is its length and its number in the order of acceptance.
NULL == [no |-> 0, len |-> 0]
Nothing == [len |-> 0, tsc |-> 0]

Min2(a, b) == IF a <= b THEN a ELSE b

Init ==
    /\ DevInit
    /\ waiting_tx_skb = NULL /\ waiting_tx_ts_capture_mode = 0
    /\ ongoing_tx_skb = NULL /\ ongoing_tx_ts_capture_mode = 0
    /\ tx_skb_offset = 0
    /\ tx_credits = TxBuffers /\ rx_chunks_available = 0
    /\ int_flag = TRUE
    /\ pc = "wait" /\ tx_buf = <<>> /\ rx_buf = <<>> /\ rx_next = 1
    /\ xpc = "idle" /\ pending = Nothing /\ stopped = FALSE
    /\ up = FALSE /\ offered = 0 /\ closes = 0
    /\ isr = "idle"
    /\ accepted = <<>>

-----------------------------------------------------------------------------
(* The network stack and the ndo callbacks.                                *)

\* The stack has a frame to send; it holds it until the driver takes it.
Offer ==
    /\ up /\ pending = Nothing /\ xpc = "idle" /\ offered < MaxFrames
    /\ \E l \in FrameLens, m \in TsModes : pending' = [len |-> l, tsc |-> m]
    /\ offered' = offered + 1
    /\ UNCHANGED <<devVars, threadVars, waitingVars, intVars, linkVars, pc,
                   xpc, stopped, accepted>>

MailboxBusy_WrongSlot == ongoing_tx_skb # NULL
MailboxBusy == waiting_tx_skb # NULL

\* oa_tc6_start_xmit is called and reads waiting_tx_skb, without the lock.
XmitCheck ==
    /\ xpc = "idle" /\ up /\ ~stopped /\ pending # Nothing
    /\ xpc' = IF MailboxBusy THEN "busy" ELSE "linearize"
    /\ UNCHANGED <<devVars, threadVars, waitingVars, intVars, linkVars, pc,
                   pending, offered, stopped, accepted>>

\* netif_stop_queue; NETDEV_TX_BUSY: the stack keeps the frame.
XmitBusy ==
    /\ xpc = "busy"
    /\ xpc' = "idle" /\ stopped' = TRUE
    /\ UNCHANGED <<devVars, threadVars, waitingVars, intVars, linkVars, pc,
                   pending, offered, accepted>>

\* skb_linearize fails: the frame is freed.
XmitDrop ==
    /\ xpc = "linearize" /\ "nomem" \in Faults
    /\ xpc' = "idle" /\ pending' = Nothing
    /\ UNCHANGED <<devVars, threadVars, waitingVars, intVars, linkVars, pc,
                   offered, stopped, accepted>>

\* Under tx_skb_lock the skb goes into the mailbox.
XmitStore ==
    /\ xpc = "linearize"
    /\ accepted' = Append(accepted, pending)
    /\ waiting_tx_skb' = [no |-> Len(accepted) + 1, len |-> pending.len]
    /\ waiting_tx_ts_capture_mode' = pending.tsc
    /\ pending' = Nothing
    /\ xpc' = "wake"
    /\ UNCHANGED <<devVars, threadVars, intVars, linkVars, pc, offered,
                   stopped>>

\* wake_up_interruptible: a sleeping thread looks at its condition again.
Awakened_Never == pc
Awakened == IF pc = "asleep" THEN "wait" ELSE pc

XmitWake ==
    /\ xpc = "wake"
    /\ xpc' = "idle" /\ pc' = Awakened
    /\ UNCHANGED <<devVars, threadVars, waitingVars, intVars, linkVars,
                   pending, offered, stopped, accepted>>

\* lan865x_net_open; a register access may fail before or after the device
\* has taken the new value.
NetOpen ==
    /\ ~up
    /\ \/ up' = TRUE /\ mac_en' = TRUE
       \/ "ctrl" \in Faults /\ UNCHANGED up /\ mac_en' = TRUE
       \/ "ctrl" \in Faults /\ UNCHANGED <<up, mac_en>>
    /\ UNCHANGED <<bufferVars, irqVars, macVars, threadVars, waitingVars,
                   intVars, pc, pending, offered, xpc, stopped, accepted,
                   closes>>

\* lan865x_net_close, after the stack has drained and purged its queue.
NetClose ==
    /\ up /\ xpc = "idle" /\ closes < MaxCloses
    /\ up' = FALSE /\ closes' = closes + 1
    /\ pending' = Nothing
    /\ stopped' = TRUE
    /\ \/ mac_en' = FALSE
       \/ "ctrl" \in Faults /\ UNCHANGED mac_en
    /\ UNCHANGED <<bufferVars, irqVars, macVars, threadVars, waitingVars,
                   intVars, pc, offered, xpc, accepted>>

-----------------------------------------------------------------------------
(* oa_tc6_macphy_isr.                                                      *)

IsrSet ==
    /\ isr = "idle" /\ irq_edge
    /\ irq_edge' = FALSE
    /\ int_flag' = TRUE /\ isr' = "wake"
    /\ UNCHANGED <<mac_en, bufferVars, irq, last, macVars, threadVars,
                   waitingVars, netVars, pc>>

IsrWake ==
    /\ isr = "wake"
    /\ isr' = "idle" /\ pc' = Awakened
    /\ UNCHANGED <<devVars, threadVars, waitingVars, netVars, int_flag>>

-----------------------------------------------------------------------------
(* The SPI thread: oa_tc6_spi_thread_handler and oa_tc6_try_spi_transfer.  *)

WaitCondition_SkbOnly == waiting_tx_skb # NULL /\ tx_credits > 0
WaitCondition == int_flag \/ (waiting_tx_skb # NULL /\ tx_credits > 0)

\* wait_event_interruptible: testing and going to sleep are one step, since
\* a wake-up that comes between them cancels the sleep.
ThreadWait ==
    /\ pc = "wait"
    /\ pc' = IF WaitCondition THEN "loop" ELSE "asleep"
    /\ UNCHANGED <<devVars, threadVars, waitingVars, intVars, netVars>>

SkbToSend_WaitingOnly == waiting_tx_skb # NULL
SkbToSend == ongoing_tx_skb # NULL \/ waiting_tx_skb # NULL

\* The top of the transfer loop: with no skb at all, the transfer serves the
\* receive side only.
LoopStart ==
    /\ pc = "loop"
    /\ pc' = IF SkbToSend THEN "prepare" ELSE "fill"
    /\ UNCHANGED <<devVars, threadVars, waitingVars, intVars, netVars>>

CreditLeft_OffByOne == Len(tx_buf) <= tx_credits
CreditLeft == Len(tx_buf) < tx_credits

\* The waiting skb becomes the ongoing one, under tx_skb_lock.
PrepareTake ==
    /\ pc = "prepare" /\ CreditLeft
    /\ ongoing_tx_skb = NULL /\ waiting_tx_skb # NULL
    /\ ongoing_tx_skb' = waiting_tx_skb /\ waiting_tx_skb' = NULL
    /\ ongoing_tx_ts_capture_mode' = waiting_tx_ts_capture_mode
    /\ waiting_tx_ts_capture_mode' = 0
    /\ UNCHANGED <<devVars, tx_skb_offset, countVars, bufVars, intVars,
                   netVars, pc>>

\* How much of the ongoing skb goes into the next chunk; whether it ends.
LengthToCopy == Min2(ongoing_tx_skb.len - tx_skb_offset,
                     OA_TC6_CHUNK_PAYLOAD_SIZE)
EndValid == tx_skb_offset + LengthToCopy = ongoing_tx_skb.len

NextOffset_NoReset == tx_skb_offset + LengthToCopy
NextOffset == IF EndValid THEN 0 ELSE tx_skb_offset + LengthToCopy

\* The capture mode travels in the chunk that ends the frame.
ChunkTsc_WrongSlot == IF EndValid THEN waiting_tx_ts_capture_mode ELSE 0
ChunkTsc == IF EndValid THEN ongoing_tx_ts_capture_mode ELSE 0

DataChunk == [dv |-> TRUE, no |-> ongoing_tx_skb.no, off |-> tx_skb_offset,
              cnt |-> LengthToCopy, sv |-> tx_skb_offset = 0,
              ev |-> EndValid, tsc |-> ChunkTsc]

EmptyChunk == [dv |-> FALSE, no |-> 0, off |-> 0, cnt |-> 0, sv |-> FALSE,
               ev |-> FALSE, tsc |-> 0]

\* oa_tc6_add_tx_skb_to_spi_buf: one more chunk of the ongoing skb, which is
\* freed with its last byte.
PrepareAdd ==
    /\ pc = "prepare" /\ CreditLeft /\ ongoing_tx_skb # NULL
    /\ tx_buf' = Append(tx_buf, DataChunk)
    /\ tx_skb_offset' = NextOffset
    /\ ongoing_tx_skb' = IF EndValid THEN NULL ELSE ongoing_tx_skb
    /\ ongoing_tx_ts_capture_mode' =
           IF EndValid THEN 0 ELSE ongoing_tx_ts_capture_mode
    /\ UNCHANGED <<devVars, countVars, rx_buf, rx_next, waitingVars, intVars,
                   netVars, pc>>

\* The credits are used up, or there is no skb left to cut.
PrepareDone ==
    /\ pc = "prepare"
    /\ ~CreditLeft \/ (ongoing_tx_skb = NULL /\ waiting_tx_skb = NULL)
    /\ pc' = "fill"
    /\ UNCHANGED <<devVars, threadVars, waitingVars, intVars, netVars>>

NeededEmptyChunks_OneShort == rx_chunks_available - Len(tx_buf) - 1
NeededEmptyChunks == rx_chunks_available - Len(tx_buf)

Empty(n) == [i \in 1 .. n |-> EmptyChunk]

\* oa_tc6_prepare_spi_tx_buf_for_rx_chunks, then the test of int_flag.
FillForRx ==
    /\ pc = "fill"
    /\ tx_buf' = IF Len(tx_buf) >= rx_chunks_available THEN tx_buf
                 ELSE tx_buf \o Empty(NeededEmptyChunks)
    /\ pc' = IF int_flag THEN "int_clear"
             ELSE IF tx_buf' = <<>> THEN "wait" ELSE "xfer"
    /\ UNCHANGED <<devVars, skbVars, countVars, rx_buf, rx_next, waitingVars,
                   intVars, netVars>>

\* The flag is cleared; a data header must go out to lower the line.
IntClear ==
    /\ pc = "int_clear"
    /\ int_flag' = FALSE
    /\ tx_buf' = IF tx_buf = <<>> THEN Empty(1) ELSE tx_buf
    /\ pc' = "xfer"
    /\ UNCHANGED <<devVars, skbVars, countVars, rx_buf, rx_next, waitingVars,
                   isr, netVars>>

\* spi_sync, chunk by chunk; the device runs on in between.
Exchange ==
    /\ pc = "xfer" /\ Len(rx_buf) < Len(tx_buf)
    /\ ExchangeChunk(tx_buf[Len(rx_buf) + 1])
    /\ rx_buf' = Append(rx_buf, last')
    /\ pc' = IF Len(rx_buf) + 1 = Len(tx_buf) THEN "process" ELSE "xfer"
    /\ UNCHANGED <<skbVars, countVars, tx_buf, rx_next, waitingVars, intVars,
                   netVars>>

\* spi_sync fails: the thread function returns and both skbs stay.
SpiFail ==
    /\ pc = "xfer" /\ "spi" \in Faults
    /\ pc' = "exited"
    /\ UNCHANGED <<devVars, threadVars, waitingVars, intVars, netVars>>

-----------------------------------------------------------------------------
(* oa_tc6_process_spi_data_rx_buf, one footer a step.                      *)

EndOfTransfer_KeepsIndex ==
    tx_buf' = <<>> /\ rx_buf' = <<>> /\ rx_next' = rx_next
EndOfTransfer ==
    tx_buf' = <<>> /\ rx_buf' = <<>> /\ rx_next' = 1

\* The counts of the footer are taken over before its error bits are tested.
TakeCounts_First == /\ tx_credits' = rx_buf[1].txc
                    /\ rx_chunks_available' = rx_buf[1].rca
TakeCounts == /\ tx_credits' = rx_buf[rx_next].txc
              /\ rx_chunks_available' = rx_buf[rx_next].rca

ProcessFooter ==
    /\ pc = "process" /\ ~rx_buf[rx_next].exst
    /\ TakeCounts
    /\ IF rx_next < Len(rx_buf)
         THEN rx_next' = rx_next + 1 /\ UNCHANGED <<tx_buf, rx_buf, pc>>
         ELSE EndOfTransfer /\ pc' = "requeue"
    /\ UNCHANGED <<devVars, skbVars, waitingVars, intVars, netVars>>

\* Extended status: STATUS0 is read and cleared and shows RXBOE; -EAGAIN
\* starts the loop again, with the rest of the receive buffer unseen.
ProcessOverflow ==
    /\ pc = "process" /\ rx_buf[rx_next].exst
    /\ TakeCounts
    /\ rx_ovf' = FALSE
    /\ EndOfTransfer /\ pc' = "loop"
    /\ UNCHANGED <<mac_en, buffered, rx_pending, irqVars, macVars, skbVars,
                   waitingVars, intVars, netVars>>

\* A footer or a payload is refused with any other error: the ongoing skb is
\* freed and the thread function returns.
ProcessError ==
    /\ pc = "process" /\ "device" \in Faults
    /\ TakeCounts
    /\ ongoing_tx_skb' = NULL
    /\ EndOfTransfer /\ pc' = "exited"
    /\ UNCHANGED <<devVars, ongoing_tx_ts_capture_mode, tx_skb_offset,
                   waitingVars, intVars, netVars>>

MayWakeQueue_Inverted == waiting_tx_skb # NULL
MayWakeQueue == waiting_tx_skb = NULL

\* The mailbox is read first, the queue state after it.
QueueCheck ==
    /\ pc = "requeue"
    /\ pc' = IF MayWakeQueue THEN "wakeq" ELSE "loop"
    /\ UNCHANGED <<devVars, threadVars, waitingVars, intVars, netVars>>

QueueWake ==
    /\ pc = "wakeq"
    /\ stopped' = FALSE /\ pc' = "loop"
    /\ UNCHANGED <<devVars, threadVars, waitingVars, intVars, linkVars,
                   pending, offered, xpc, accepted>>

-----------------------------------------------------------------------------
Thread == \/ ThreadWait \/ LoopStart \/ PrepareTake \/ PrepareAdd
          \/ PrepareDone \/ FillForRx \/ IntClear \/ Exchange
          \/ ProcessFooter \/ ProcessOverflow \/ QueueCheck \/ QueueWake

Xmit == XmitCheck \/ XmitBusy \/ XmitStore \/ XmitWake

Isr == IsrSet \/ IsrWake

Device == /\ UNCHANGED driverVars
          /\ \/ AssertIrq \/ Egress \/ RxArrive
             \/ "rx_overflow" \in Faults /\ RxOverflow

Stack == Offer \/ NetOpen \/ NetClose

Failure == XmitDrop \/ SpiFail \/ ProcessError

Next == Thread \/ Xmit \/ Isr \/ Device \/ Stack \/ Failure

Spec == Init /\ [][Next]_vars

\* The scheduler runs the thread, a started callback and the interrupt
\* handler; the device keeps its interrupt promise and drains its buffer
\* while the MAC is enabled.  Nothing forces the stack to offer frames, to
\* open or close the device, or the wire to bring traffic.
Fairness ==
    /\ WF_vars(Thread) /\ WF_vars(Xmit) /\ WF_vars(Isr)
    /\ WF_vars(UNCHANGED driverVars /\ AssertIrq)
    /\ WF_vars(UNCHANGED driverVars /\ Egress)

FairSpec == Spec /\ Fairness

\* The same with traffic that keeps arriving.
TrafficSpec == FairSpec /\ WF_vars(UNCHANGED driverVars /\ RxArrive)

-----------------------------------------------------------------------------
(* Properties.                                                             *)

Skb == {NULL} \cup [no : Nat \ {0}, len : FrameLens]
StackFrame == [len : FrameLens, tsc : TsModes]
Chunk == [dv : BOOLEAN, no : Nat, off : Nat, cnt : Nat, sv : BOOLEAN,
          ev : BOOLEAN, tsc : Nat]
PcStates == {"wait", "asleep", "loop", "prepare", "fill", "int_clear",
             "xfer", "process", "requeue", "wakeq", "exited"}

\* The type of the device's variables.
DevTypeOK ==
    /\ mac_en \in BOOLEAN /\ buffered \in 0 .. TxBuffers
    /\ rx_pending \in 0 .. RxBuffers /\ rx_ovf \in BOOLEAN
    /\ irq \in BOOLEAN /\ irq_edge \in BOOLEAN /\ last \in Footer
    /\ frame \in [no : Nat, bytes : Nat]
    /\ handed \in Seq([len : Nat, tsc : Nat])
    /\ txbo \in BOOLEAN /\ txpe \in BOOLEAN

\* The type invariant of the whole path: in particular the credits the
\* driver believes in are a count the device can have, and the footer index
\* stays inside the receive buffer while footers are processed.
TypeOK ==
    /\ DevTypeOK
    /\ waiting_tx_skb \in Skb /\ ongoing_tx_skb \in Skb
    /\ waiting_tx_ts_capture_mode \in TsModes \cup {0}
    /\ ongoing_tx_ts_capture_mode \in TsModes \cup {0}
    /\ tx_skb_offset \in Nat
    /\ tx_credits \in 0 .. TxBuffers /\ rx_chunks_available \in 0 .. RxBuffers
    /\ int_flag \in BOOLEAN
    /\ pc \in PcStates
    /\ tx_buf \in Seq(Chunk) /\ rx_buf \in Seq(Footer)
    /\ rx_next \in Nat \ {0}
    /\ pc = "process" => rx_next <= Len(rx_buf)
    /\ xpc \in {"idle", "busy", "linearize", "wake"}
    /\ pending \in StackFrame \cup {Nothing}
    /\ stopped \in BOOLEAN /\ up \in BOOLEAN
    /\ offered \in 0 .. MaxFrames /\ closes \in 0 .. MaxCloses
    /\ isr \in {"idle", "wake"}
    /\ accepted \in Seq(StackFrame)

\* Whenever the thread has seen a transfer to its end or rests, the device has
\* the credits it believes in, with overflow recovery too: the older count that
\* -EAGAIN leaves behind (oa_tc6.c:963) does not outlive the next transfer.
CountSettled ==
    pc \in {"wait", "asleep", "requeue", "wakeq"} => tx_credits <= Credits

\* The device never receives a data chunk for which it has no buffer
\* (oa-tc6-framework.rst: "The SPI host should not write more data chunks
\* than the available transmit credits"), although the driver works from
\* footers that were sent while the device went on.
CreditsRespected == ~txbo

\* Every data chunk continues the MAC's current frame at the right byte, or
\* starts a frame when the one before it is complete: the framing survives
\* frames that span transfers, credits that run out in mid-frame and frames
\* that share a transfer.
FramingRespected == ~txpe

\* A transfer never outgrows the 48-chunk SPI buffers, whichever of credits
\* and receive chunks asks for more, and with the chunk added for int_flag.
SpiBufferFits == Len(tx_buf) <= OA_TC6_MAX_TX_CHUNKS

\* If the SPI thread sleeps although its wait condition holds, a wake-up is
\* on its way: the lockless flag, mailbox and credit updates lose none.
NoLostWakeup ==
    pc = "asleep" /\ WaitCondition => xpc = "wake" \/ isr = "wake"

\* If the thread sleeps with a frame it has not sent to the end, then the
\* device was last told it may not send, and its line is free to interrupt;
\* or the edge or a wake-up is on its way.
CreditInterruptArmed ==
    pc = "asleep" /\ (ongoing_tx_skb # NULL \/ waiting_tx_skb # NULL)
        => (last.txc = 0 /\ ~irq) \/ irq_edge \/ xpc = "wake" \/ isr = "wake"

\* The same for received chunks the driver has not been told of.
RxInterruptArmed ==
    pc = "asleep" /\ rx_pending > 0
        => (last.rca = 0 /\ ~irq) \/ irq_edge \/ isr = "wake"

\* The mailbox is handed over, never overwritten or dropped: a waiting skb
\* stays until the SPI thread makes it the ongoing one, with its timestamp
\* request, and only when no other skb is in the making.
MailboxHandOver ==
    [][ waiting_tx_skb # NULL /\ waiting_tx_skb' # waiting_tx_skb
        => /\ waiting_tx_skb' = NULL
           /\ ongoing_tx_skb = NULL /\ ongoing_tx_skb' = waiting_tx_skb
           /\ ongoing_tx_ts_capture_mode' = waiting_tx_ts_capture_mode ]_vars

\* What the MAC has received is, at every moment, a prefix of what the stack
\* was told is accepted: nothing lost in the middle, doubled, reordered, cut
\* or given another frame's timestamp request.
Service == INSTANCE TxService WITH Frame <- StackFrame
InOrderDelivery == Service!SafeSpec

\* And every accepted frame gets there, if the device works.
EventualDelivery == Service!Spec

\* A full receive buffer is read out, whatever the transmit side does.
ReceiveRelieved == rx_pending = RxBuffers ~> rx_pending < RxBuffers

\* As long as traffic arrives, a stopped queue is started again.
QueueRestarts == stopped /\ up ~> ~stopped \/ ~mac_en

\* A frame the stack offers to an open device is taken in the end.
OfferedAccepted == pending # Nothing ~> pending = Nothing \/ ~up

-----------------------------------------------------------------------------
(* The parts of the inductive invariants the proofs use.                   *)

\* What the SPI buffers hold at each point of the transfer loop.
BufferInv ==
    /\ pc \in {"wait", "asleep", "loop", "requeue", "wakeq"} => tx_buf = <<>>
    /\ pc \notin {"xfer", "process", "exited"} => rx_buf = <<>> /\ rx_next = 1
    /\ pc = "prepare" => Len(tx_buf) <= tx_credits
    /\ pc = "xfer" => rx_next = 1 /\ Len(rx_buf) < Len(tx_buf)
    /\ SpiBufferFits

\* The ongoing skb always has bytes left, and a new one starts at offset 0.
SkbInv ==
    pc # "exited" =>
        IF ongoing_tx_skb = NULL THEN tx_skb_offset = 0
                                 ELSE tx_skb_offset < ongoing_tx_skb.len

\* Only the xmit callback fills the mailbox, and it has found it empty.
MailboxInv ==
    xpc = "linearize" => pending # Nothing /\ waiting_tx_skb = NULL

\* Without overflow recovery the driver's count never exceeds the device's,
\* and the data chunks on their way fit the credits the device has.
CreditInv ==
    /\ ~rx_ovf
    /\ \A i \in 1 .. Len(rx_buf) : ~rx_buf[i].exst
    /\ pc \notin {"xfer", "process", "exited"} => tx_credits <= Credits
    /\ pc \in {"prepare", "fill", "int_clear"} =>
           \A i \in 1 .. Len(tx_buf) : tx_buf[i].dv => i <= tx_credits
    /\ pc = "xfer" =>
           \A i \in 1 .. Len(tx_buf) :
               i > Len(rx_buf) /\ tx_buf[i].dv => i - Len(rx_buf) <= Credits
    /\ pc = "process" => rx_buf[Len(rx_buf)].txc <= Credits
    /\ CreditsRespected

\* With a frame in hand the thread rests only when it has no credit, and
\* then it is the device that told it so.  After an overflow the count may be
\* an older one, but then there are chunks to read and the thread goes on.
ArmedInv ==
    /\ pc \notin {"xfer", "process", "exited"} /\ tx_credits = 0
           => last.txc = 0 \/ rx_chunks_available > 0
    /\ pc = "process" => last.txc = rx_buf[Len(rx_buf)].txc
    /\ \/ pc \in {"wait", "asleep"}
       \/ pc \in {"fill", "int_clear"} /\ tx_buf = <<>>
       => ongoing_tx_skb = NULL \/ tx_credits = 0

\* What the driver's count is worth after an overflow: it may be that of an
\* older footer until the next transfer, which chunks to read bring about.
SettledInv ==
    /\ pc \notin {"xfer", "process", "exited"} =>
           \/ tx_credits <= Credits
           \/ pc \notin {"requeue", "wakeq"} /\ rx_chunks_available > 0
    /\ pc = "process" => rx_buf[Len(rx_buf)].txc <= Credits

\* The interrupt line is never left low unnoticed: an asserted line has its
\* edge latched, its flag set, or the header that raises it again on its way.
LineInv ==
    /\ irq => irq_edge \/ int_flag \/ (pc = "xfer" /\ rx_buf = <<>>)
              \/ pc = "exited"
    /\ int_flag /\ pc = "asleep" => isr = "wake"

\* Where the footer with the overflow stands, and what it says: the buffer
\* was full, so that one chunk less than all of them is left.
OverflowInv ==
    /\ pc # "exited" /\ rx_ovf /\ (\A i \in 1 .. Len(rx_buf) : ~rx_buf[i].exst)
           => rx_pending = RxBuffers
    /\ \A i \in 1 .. Len(rx_buf) :
           rx_buf[i].exst /\ (\A j \in 1 .. i - 1 : ~rx_buf[j].exst)
               => rx_buf[i].rca = Capped(RxBuffers - 1)
    /\ \A j \in 1 .. rx_next - 1 : j <= Len(rx_buf) => ~rx_buf[j].exst

\* The thread rests only when it knows of no received chunk, and then the
\* device has told of none.
RxArmedInv ==
    /\ last.rca <= Capped(RxBuffers - 1)
    /\ pc \in {"wait", "asleep"} => rx_chunks_available = 0
    /\ pc \notin {"xfer", "process", "exited"} /\ rx_chunks_available = 0
           => last.rca = 0
    /\ pc = "process" => last.rca = rx_buf[Len(rx_buf)].rca
=============================================================================
