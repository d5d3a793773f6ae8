------------------------------- MODULE RxPath -------------------------------
(***************************************************************************)
(* The receive path of oa_tc6.c: a MAC-PHY that cuts Ethernet frames into  *)
(* chunks, and the SPI thread that puts them together in rx_skb, chunk by  *)
(* chunk as the footers say, and hands them to the stack.  Bytes are       *)
(* counted, not stored: an skb remembers which frame it began with, how    *)
(* long it is and whether every piece continued the one before it.         *)
(***************************************************************************)
EXTENDS Integers, Sequences

CONSTANTS OA_TC6_CHUNK_PAYLOAD_SIZE,  \* bytes of payload in a chunk
          FrameLens,       \* lengths on the SPI: timestamp, frame and FCS
          StartOffsets,    \* where in a chunk a frame may start; {0} with ZARFE
          TailLens,        \* bytes that may follow of a frame cut short
          MaxFrames,       \* bound: frames that arrive
          MaxTransfer,     \* bound: chunks in one transfer
          MaxOverflows,    \* bound: receive buffer overflows
          ErrorsUnmasked,  \* IMASK0 lets the error bits raise EXST
          BadFrames,       \* the MAC may mark a frame to be dropped (FD)
          Faults           \* failures that may happen in this run

\* sizeof(struct timestamp_format), in front of every frame (FTSE and FTSS).
TimestampSize == 8
FcsSize == 4
\* ETH_ZLEN and the FCS: the MAC hands up no shorter frame.
MinFrameSize == 64

\* Chunks have at most 64 bytes, as in oa_tc6.c; a frame is more than its
\* timestamp and its FCS.
ASSUME RxPathAssumption ==
    /\ OA_TC6_CHUNK_PAYLOAD_SIZE \in 1 .. 64
    /\ FrameLens \subseteq Nat /\ TailLens \subseteq Nat \ {0}
    /\ \A l \in FrameLens : l > TimestampSize + FcsSize
    /\ StartOffsets \subseteq 0 .. OA_TC6_CHUNK_PAYLOAD_SIZE - 1
    /\ 0 \in StartOffsets
    /\ MaxFrames \in Nat /\ MaxTransfer \in Nat /\ MaxOverflows \in Nat
    /\ ErrorsUnmasked \in BOOLEAN /\ BadFrames \in BOOLEAN
    /\ Faults \subseteq {"nomem", "device", "spi"}

VARIABLES
    rx_skb, rx_buf_overflow,         \* struct oa_tc6
    pc, rx_buf, rx_next,             \* the SPI thread
    cur,                             \* device: the frame being sent up
    rx_ovf,                          \* device: STATUS0.RXBOE
    overflows,                       \* device: overflows so far
    arrived, sent_up,                \* history: frames arrived, begun
    delivered, leaked                \* history: netif_rx, skbs overwritten

devVars == <<cur, rx_ovf, overflows, arrived, sent_up>>
vars == <<devVars, rx_skb, rx_buf_overflow, pc, rx_buf, rx_next, delivered,
          leaked>>

NoSkb == [no |-> 0, len |-> 0, ok |-> FALSE, drop |-> FALSE]
NoFrame == [no |-> 0, len |-> 0, off |-> 0, fd |-> FALSE]

Init ==
    /\ rx_skb = NoSkb /\ rx_buf_overflow = FALSE
    /\ pc = "xfer" /\ rx_buf = <<>> /\ rx_next = 1
    /\ cur = NoFrame /\ rx_ovf = FALSE /\ overflows = 0
    /\ arrived = <<>> /\ sent_up = 0
    /\ delivered = <<>> /\ leaked = 0

-----------------------------------------------------------------------------
(* The MAC-PHY.                                                            *)

RxArrive ==
    /\ Len(arrived) < MaxFrames
    /\ \E l \in FrameLens : arrived' = Append(arrived, l)
    /\ UNCHANGED <<cur, rx_ovf, overflows, sent_up, rx_skb, rx_buf_overflow,
                   pc, rx_buf, rx_next, delivered, leaked>>

\* Received data is lost: a frame not yet begun, or what is left of the frame
\* being sent up, of which a last piece may still follow.
RxOverflow ==
    /\ overflows < MaxOverflows
    /\ overflows' = overflows + 1 /\ rx_ovf' = TRUE
    /\ \/ /\ cur = NoFrame /\ sent_up < Len(arrived)
          /\ sent_up' = sent_up + 1 /\ UNCHANGED cur
       \/ /\ cur # NoFrame /\ UNCHANGED sent_up
          /\ \/ cur' = NoFrame
             \/ \E tail \in TailLens :
                   /\ cur.off + tail < cur.len
                   /\ cur' = [cur EXCEPT !.len = cur.off + tail]
    /\ UNCHANGED <<arrived, rx_skb, rx_buf_overflow, pc, rx_buf, rx_next,
                   delivered, leaked>>

\* A chunk: flags and offsets of its footer, and for the checks the frame and
\* the offset its first byte belongs to and the frame that starts in it (or,
\* if it is empty, the last one that was begun).
EmptyChunk == [dv |-> FALSE, sv |-> FALSE, ev |-> FALSE, fd |-> FALSE,
               swo |-> 0, ebo |-> 0, no |-> 0, off |-> 0, nxt |-> 0]

\* The frame sent up next, if it starts at byte sbo of a chunk.
Begun(sbo, fd) ==
    LET len == arrived[sent_up + 1]
        room == OA_TC6_CHUNK_PAYLOAD_SIZE - sbo
    IN  IF len <= room THEN NoFrame
        ELSE [no |-> sent_up + 1, len |-> len, off |-> room, fd |-> fd]

\* Nothing of a frame in this chunk.
EmitIdle == /\ cur = NoFrame /\ UNCHANGED <<cur, sent_up>>
            /\ rx_buf' = Append(rx_buf, [c |-> [EmptyChunk EXCEPT !.nxt = sent_up],
                                         exst |-> ErrorsUnmasked /\ rx_ovf])

EmitStart ==
    /\ cur = NoFrame /\ sent_up < Len(arrived)
    /\ sent_up' = sent_up + 1
    /\ \E sbo \in StartOffsets, fd \in {FALSE, BadFrames} :
         LET len == arrived[sent_up + 1]
             ends == sbo + len <= OA_TC6_CHUNK_PAYLOAD_SIZE
         IN /\ cur' = Begun(sbo, fd)
            /\ rx_buf' = Append(rx_buf,
                 [c |-> [EmptyChunk EXCEPT !.dv = TRUE, !.sv = TRUE,
                            !.swo = sbo, !.nxt = sent_up + 1, !.ev = ends,
                            !.ebo = IF ends THEN sbo + len - 1 ELSE 0,
                            !.fd = ends /\ fd],
                  exst |-> ErrorsUnmasked /\ rx_ovf])

\* The frame being sent up goes on; if it ends, another may start behind it.
EmitNext ==
    LET rest == cur.len - cur.off
        chunk == [EmptyChunk EXCEPT !.dv = TRUE, !.no = cur.no, !.off = cur.off]
        Push(c) == rx_buf' = Append(rx_buf,
                        [c |-> c, exst |-> ErrorsUnmasked /\ rx_ovf])
    IN  /\ cur # NoFrame
        /\ \/ /\ rest > OA_TC6_CHUNK_PAYLOAD_SIZE
              /\ cur' = [cur EXCEPT !.off = @ + OA_TC6_CHUNK_PAYLOAD_SIZE]
              /\ Push(chunk) /\ UNCHANGED sent_up
           \/ /\ rest <= OA_TC6_CHUNK_PAYLOAD_SIZE
              /\ cur' = NoFrame /\ UNCHANGED sent_up
              /\ Push([chunk EXCEPT !.ev = TRUE, !.ebo = rest - 1,
                                    !.fd = cur.fd])
           \/ /\ rest <= OA_TC6_CHUNK_PAYLOAD_SIZE /\ sent_up < Len(arrived)
              /\ sent_up' = sent_up + 1
              /\ \E sbo \in StartOffsets, fd \in {FALSE, BadFrames} :
                   /\ sbo >= rest
                   /\ arrived[sent_up + 1] > OA_TC6_CHUNK_PAYLOAD_SIZE - sbo
                   /\ cur' = Begun(sbo, fd)
                   /\ Push([chunk EXCEPT !.ev = TRUE, !.ebo = rest - 1,
                                         !.fd = cur.fd, !.sv = TRUE,
                                         !.swo = sbo, !.nxt = sent_up + 1])

-----------------------------------------------------------------------------
(* The SPI thread.                                                         *)

\* The chunks of a transfer come in one after the other; how many there are
\* was decided by credits and receive chunks, here by nothing at all.
Exchange ==
    /\ pc = "xfer" /\ Len(rx_buf) < MaxTransfer
    /\ EmitIdle \/ EmitStart \/ EmitNext
    /\ UNCHANGED <<rx_ovf, overflows, arrived, rx_skb, rx_buf_overflow, pc,
                   rx_next, delivered, leaked>>

TransferDone ==
    /\ pc = "xfer" /\ rx_buf # <<>>
    /\ pc' = "process"
    /\ UNCHANGED <<devVars, rx_skb, rx_buf_overflow, rx_buf, rx_next,
                   delivered, leaked>>

\* spi_sync fails: the thread returns and keeps the skb in the making.
SpiFail ==
    /\ pc = "xfer" /\ "spi" \in Faults
    /\ pc' = "exited"
    /\ UNCHANGED <<devVars, rx_skb, rx_buf_overflow, rx_buf, rx_next,
                   delivered, leaked>>

Chunk == rx_buf[rx_next].c

MoreChunks_OffByOne == rx_next <= Len(rx_buf)
MoreChunks == rx_next < Len(rx_buf)

\* On to the next chunk of the buffer, or to the next transfer.
NextChunk ==
    IF MoreChunks THEN rx_next' = rx_next + 1 /\ UNCHANGED <<rx_buf, pc>>
                  ELSE rx_next' = 1 /\ rx_buf' = <<>> /\ pc' = "xfer"

\* oa_tc6_cleanup_ongoing_rx_skb.
Freed_Kept == rx_skb
Freed == NoSkb

\* EXST: STATUS0 shows RXBOE and is cleared, the skb in the making is freed,
\* and -EAGAIN leaves the rest of the buffer.
OverflowStatus ==
    /\ pc = "process" /\ rx_buf[rx_next].exst
    /\ rx_ovf' = FALSE
    /\ rx_buf_overflow' = TRUE /\ rx_skb' = Freed
    /\ rx_next' = 1 /\ rx_buf' = <<>> /\ pc' = "xfer"
    /\ UNCHANGED <<cur, overflows, arrived, sent_up, delivered, leaked>>

\* Any other error of a footer: the thread frees the skb and returns.
DeviceError ==
    /\ pc = "process" /\ "device" \in Faults
    /\ rx_skb' = Freed
    /\ rx_next' = 1 /\ rx_buf' = <<>> /\ pc' = "exited"
    /\ UNCHANGED <<devVars, rx_buf_overflow, delivered, leaked>>

\* After an overflow nothing is used until a frame starts.
Skipping_Never == FALSE
Skipping == rx_buf_overflow /\ ~Chunk.sv

SkipChunk ==
    /\ pc = "process" /\ ~rx_buf[rx_next].exst
    /\ ~Chunk.dv \/ Skipping
    /\ NextChunk
    /\ UNCHANGED <<devVars, rx_skb, rx_buf_overflow, delivered, leaked>>

HasPayload == /\ pc = "process" /\ ~rx_buf[rx_next].exst
              /\ Chunk.dv /\ ~Skipping

Payload == HasPayload /\ rx_buf_overflow' = FALSE /\ UNCHANGED devVars

U8(n) == n % 256

\* oa_tc6_update_rx_skb: n bytes, which continue the skb if they are those of
\* its frame at its offset.
Put(skb, no, off, n) ==
    [skb EXCEPT !.len = @ + U8(n),
                !.ok = @ /\ skb.no = no /\ skb.len + TimestampSize = off]

\* A new skb for the frame that starts in the chunk, without the timestamp.
Started(size) ==
    Put([no |-> Chunk.nxt, len |-> 0, ok |-> TRUE, drop |-> FALSE],
        Chunk.nxt, TimestampSize, size - TimestampSize)

StartSize == OA_TC6_CHUNK_PAYLOAD_SIZE - Chunk.swo

\* What allocating into rx_skb does to the skb it still holds.
Overwritten(skb) == leaked' = leaked + (IF skb = NoSkb THEN 0 ELSE 1)

Submit(skb) == delivered' = Append(delivered, [skb EXCEPT !.drop = Chunk.fd])

\* prcs_complete_rx_frame: the FCS is not taken off.
CompleteFrame ==
    /\ Payload /\ Chunk.sv /\ Chunk.ev /\ Chunk.swo < Chunk.ebo
    /\ Overwritten(rx_skb)
    /\ Submit(Started(Chunk.ebo + 1 - Chunk.swo)) /\ rx_skb' = NoSkb
    /\ NextChunk

FrameStart ==
    /\ Payload /\ Chunk.sv /\ ~Chunk.ev
    /\ Overwritten(rx_skb)
    /\ rx_skb' = Started(StartSize)
    /\ NextChunk /\ UNCHANGED delivered

\* prcs_rx_frame_end: the last four bytes of the chunk are the FCS.
EndSize_KeepsFcs == Chunk.ebo + 1
EndSize == Chunk.ebo + 1 - FcsSize
Ended(skb) == Put(skb, Chunk.no, Chunk.off, EndSize)

\* rx_skb is used without a test: RxSkbThere says it is never NULL here.
FrameEnd ==
    /\ Payload /\ ~Chunk.sv /\ Chunk.ev /\ rx_skb # NoSkb
    /\ Submit(Ended(rx_skb)) /\ rx_skb' = NoSkb
    /\ NextChunk /\ UNCHANGED leaked

\* The end of one frame and the start of the next in one chunk.  The frame
\* that ends counts only if its skb is still there.
HasPrevious_OverflowOnly == rx_buf_overflow
HasPrevious == rx_skb # NoSkb
SubmitPrevious == IF HasPrevious THEN Submit(Ended(rx_skb))
                                 ELSE UNCHANGED delivered
EndThenStart == Chunk.sv /\ Chunk.ev /\ Chunk.swo > Chunk.ebo

EndAndStart ==
    /\ Payload /\ EndThenStart
    /\ SubmitPrevious
    /\ rx_skb' = Started(StartSize)
    /\ NextChunk /\ UNCHANGED leaked

\* Everything else is taken for the middle of a frame.
OngoingFrame ==
    /\ Payload /\ rx_skb # NoSkb
    /\ Chunk.sv = Chunk.ev /\ (Chunk.sv => Chunk.swo = Chunk.ebo)
    /\ rx_skb' = Put(rx_skb, Chunk.no, Chunk.off, OA_TC6_CHUNK_PAYLOAD_SIZE)
    /\ NextChunk /\ UNCHANGED <<delivered, leaked>>

\* -ENOMEM: the thread cleans up and returns.  A frame that ends in the same
\* chunk has been submitted before.
AllocFails ==
    /\ "nomem" \in Faults /\ Payload /\ Chunk.sv
    /\ IF EndThenStart THEN SubmitPrevious /\ UNCHANGED leaked
                       ELSE Overwritten(rx_skb) /\ UNCHANGED delivered
    /\ rx_skb' = NoSkb
    /\ pc' = "exited" /\ rx_buf' = <<>> /\ rx_next' = 1

Thread == \/ Exchange \/ TransferDone \/ SpiFail \/ OverflowStatus \/ SkipChunk
          \/ CompleteFrame \/ FrameStart \/ FrameEnd \/ EndAndStart
          \/ OngoingFrame \/ DeviceError \/ AllocFails

Next == RxArrive \/ RxOverflow \/ Thread

Spec == Init /\ [][Next]_vars

-----------------------------------------------------------------------------
(* Properties.                                                             *)

Chunks == [dv : BOOLEAN, sv : BOOLEAN, ev : BOOLEAN, fd : BOOLEAN,
           swo : StartOffsets, ebo : 0 .. OA_TC6_CHUNK_PAYLOAD_SIZE - 1,
           no : 0 .. MaxFrames, off : Nat, nxt : 0 .. MaxFrames]
Skbs == [no : 0 .. MaxFrames, len : Nat, ok : BOOLEAN, drop : BOOLEAN]

\* The type invariant: in particular the chunk that is processed is one of
\* the receive buffer.
TypeOK ==
    /\ rx_skb \in Skbs /\ rx_buf_overflow \in BOOLEAN
    /\ pc \in {"xfer", "process", "exited"}
    /\ rx_buf \in Seq([c : Chunks, exst : BOOLEAN])
    /\ rx_next \in Nat \ {0}
    /\ pc = "process" => rx_next <= Len(rx_buf)
    /\ cur \in [no : 0 .. MaxFrames, len : Nat, off : Nat, fd : BOOLEAN]
    /\ rx_ovf \in BOOLEAN /\ overflows \in 0 .. MaxOverflows
    /\ arrived \in Seq(FrameLens) /\ sent_up \in 0 .. Len(arrived)
    /\ delivered \in Seq(Skbs) /\ leaked \in Nat

\* The end and the middle of a frame find the skb its start has made: rx_skb
\* is not NULL where prcs_rx_frame_end and prcs_ongoing_rx_frame use it, also
\* after an overflow has freed it and thrown away the rest of a transfer.
RxSkbThere == HasPayload /\ ~Chunk.sv => rx_skb # NoSkb

\* Allocating rx_skb never overwrites one that is still in the making.
NoSkbLost == leaked = 0

\* Once the MAC-PHY has no more to send and nothing was lost, the stack has
\* every frame that arrived.
AllDelivered ==
    /\ pc = "xfer" /\ rx_buf = <<>> /\ overflows = 0
    /\ cur = NoFrame /\ sent_up = Len(arrived)
    => Len(delivered) = Len(arrived)

\* The receive path implements RxService: every frame comes up once, in
\* order, from its own bytes alone and with as many as it has, and is passed
\* over only after a loss. Of a frame below the minimum of Ethernet, which may
\* fit one chunk and then keeps its FCS, the size is left open.
DataSize(len) == len - TimestampSize - FcsSize
Runt(len) == len < TimestampSize + MinFrameSize
SizeUp(skb) == IF ~skb.ok THEN 0
               ELSE IF Runt(arrived[skb.no]) THEN DataSize(arrived[skb.no])
               ELSE skb.len
Service == INSTANCE RxService WITH
    FrameSize <- {DataSize(l) : l \in FrameLens},
    arrived <- [i \in 1 .. Len(arrived) |-> DataSize(arrived[i])],
    delivered <- [i \in 1 .. Len(delivered) |->
                     [no |-> delivered[i].no, size |-> SizeUp(delivered[i])]],
    lossy <- overflows > 0
FramesComeUp == Service!Spec

\* The stack never gets the FCS or anything behind it ("Remove unnecessary
\* last 4 bytes", prcs_rx_frame_end): an skb has the bytes of its frame.
FcsRemoved ==
    \A i \in 1 .. Len(delivered) :
        delivered[i].len = DataSize(arrived[delivered[i].no])

\* A frame the MAC marks with FD is dropped (oa-tc6-framework.rst: "the SPI
\* host should drop the received Ethernet frame").
FrameDropHonoured == \A i \in 1 .. Len(delivered) : ~delivered[i].drop
=============================================================================
