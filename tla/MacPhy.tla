------------------------------- MODULE MacPhy -------------------------------
(***************************************************************************)
(* The data side of the 10BASE-T1S MAC-PHY as the driver sees it: a        *)
(* transmit buffer counted in chunks (its free places are the credits), a  *)
(* count of received chunks to read, the interrupt line, and the MAC that  *)
(* puts frames together from the chunks.  Nothing of it is in the          *)
(* repository; it is modelled from how oa_tc6.c uses it and from the chunk *)
(* protocol in Documentation/networking/oa-tc6-framework.rst.              *)
(***************************************************************************)
EXTENDS Naturals, Sequences

CONSTANTS TxBuffers,   \* chunks the transmit buffer holds
          RxBuffers,   \* chunks the receive buffer holds
          FooterMax    \* the largest count a 5-bit footer field can carry

ASSUME MacPhyAssumption ==
    /\ TxBuffers \in Nat \ {0}
    /\ RxBuffers \in Nat \ {0}
    /\ FooterMax \in Nat \ {0}

VARIABLES
    mac_en,      \* MAC_NET_CTL.TXEN and RXEN
    buffered,    \* transmit chunks taken and not yet on the wire
    rx_pending,  \* received chunks the host has not read
    rx_ovf,      \* STATUS0.RXBOE, unmasked
    irq,         \* the interrupt line is asserted
    irq_edge,    \* a falling edge the interrupt controller has latched
    last,        \* the footer sent last
    frame,       \* the frame the MAC is receiving: skb number, bytes so far
    handed,      \* history: the frames received to their last byte
    txbo,        \* history: a data chunk came with no credit left
    txpe         \* history: a data chunk did not continue its frame

bufferVars == <<buffered, rx_pending, rx_ovf>>
irqVars == <<irq, irq_edge, last>>
macVars == <<frame, handed, txbo, txpe>>
devVars == <<mac_en, bufferVars, irqVars, macVars>>

Capped(n) == IF n <= FooterMax THEN n ELSE FooterMax

Credits == TxBuffers - buffered

NoFrame == [no |-> 0, bytes |-> 0]

\* A footer: transmit credits, receive chunks available, extended status.
Footer == [txc : 0 .. Capped(TxBuffers), rca : 0 .. Capped(RxBuffers),
           exst : BOOLEAN]

\* The state after oa_tc6_init: reset completion holds the line asserted.
DevInit ==
    /\ mac_en = TRUE
    /\ buffered = 0 /\ rx_pending = 0 /\ rx_ovf = FALSE
    /\ irq = TRUE /\ irq_edge = FALSE
    /\ last = [txc |-> Capped(TxBuffers), rca |-> 0, exst |-> FALSE]
    /\ frame = NoFrame /\ handed = <<>>
    /\ txbo = FALSE /\ txpe = FALSE

-----------------------------------------------------------------------------
\* A data chunk c continues the frame being received, or starts one.
Continues(c) == IF c.sv THEN frame = NoFrame /\ c.off = 0
                        ELSE frame.no = c.no /\ frame.bytes = c.off

\* The MAC takes the payload of chunk c, if it has one and there is room.
TakePayload(c) ==
    IF c.dv /\ Credits > 0
      THEN /\ buffered' = buffered + 1
           /\ txpe' = (txpe \/ ~Continues(c))
           /\ frame' = IF c.ev THEN NoFrame
                               ELSE [no |-> c.no, bytes |-> c.off + c.cnt]
           /\ handed' = IF c.ev
                          THEN Append(handed, [len |-> c.off + c.cnt,
                                               tsc |-> c.tsc])
                          ELSE handed
           /\ UNCHANGED txbo
      ELSE /\ txbo' = (txbo \/ c.dv)
           /\ UNCHANGED <<buffered, txpe, frame, handed>>

\* One chunk is exchanged: the header lowers the interrupt line, the payload
\* goes in, one received chunk comes out, and the footer tells what is left.
ExchangeChunk(c) ==
    /\ TakePayload(c)
    /\ rx_pending' = IF rx_pending > 0 THEN rx_pending - 1 ELSE 0
    /\ last' = [txc |-> Capped(TxBuffers - buffered'),
                rca |-> Capped(rx_pending'), exst |-> rx_ovf]
    /\ irq' = FALSE
    /\ UNCHANGED <<mac_en, rx_ovf, irq_edge>>

\* What raises the line: something the last footer did not report.
IrqReason == \/ last.txc = 0 /\ Credits > 0
             \/ last.rca = 0 /\ rx_pending > 0
             \/ ~last.exst /\ rx_ovf

AssertIrq ==
    /\ ~irq /\ IrqReason
    /\ irq' = TRUE /\ irq_edge' = TRUE
    /\ UNCHANGED <<mac_en, bufferVars, last, macVars>>

\* A buffered chunk leaves on the wire and its credit comes back.
Egress ==
    /\ mac_en /\ buffered > 0
    /\ buffered' = buffered - 1
    /\ UNCHANGED <<mac_en, rx_pending, rx_ovf, irqVars, macVars>>

\* A chunk arrives from the wire.
RxArrive ==
    /\ mac_en /\ rx_pending < RxBuffers
    /\ rx_pending' = rx_pending + 1
    /\ UNCHANGED <<mac_en, buffered, rx_ovf, irqVars, macVars>>

\* A chunk arrives and there is no room for it.
RxOverflow ==
    /\ mac_en /\ rx_pending = RxBuffers /\ ~rx_ovf
    /\ rx_ovf' = TRUE
    /\ UNCHANGED <<mac_en, buffered, rx_pending, irqVars, macVars>>
=============================================================================
