--------------------------- MODULE TxPath_proofs ---------------------------
(***************************************************************************)
(* Proofs about the transmit path, for every number of buffers, chunk size,*)
(* set of frames and bound.  The invariants build on each other:           *)
(*   Typing       TypeOK, BufferInv and SkbInv                             *)
(*   Mailbox      MailboxInv, NoLostWakeup and the hand-over property      *)
(*   Credits      CreditInv, when no receive overflow is recovered from    *)
(*   Line         LineInv: no asserted interrupt line goes unnoticed       *)
(*   Armed        OverflowInv and RxArmedInv, and with more than one       *)
(*                receive buffer ArmedInv and SettledInv                   *)
(*   Delivery     StreamInv: driver, chunks and MAC at places of one stream*)
(***************************************************************************)
EXTENDS TxPath, SequenceTheorems, TLAPS

-----------------------------------------------------------------------------
(* Facts about the operators of the model.                                 *)

\* A footer field never reports more than there is.
LEMMA CappedBound ==
    ASSUME NEW n \in Nat, NEW m \in Nat, n <= m
    PROVE  Capped(n) \in 0 .. Capped(m) /\ Capped(n) <= n
           /\ (Capped(n) = 0 => n = 0)
  BY MacPhyAssumption DEF Capped

\* An skb that is not NULL has bytes; a NULL one has none.
LEMMA SkbLength ==
    ASSUME NEW skb \in Skb
    PROVE  /\ skb.no \in Nat /\ skb.len \in Nat
           /\ skb # NULL => skb.len \in FrameLens /\ skb.len > 0
  <1>1. CASE skb = NULL
    BY <1>1 DEF NULL
  <1>2. CASE skb \in [no : Nat \ {0}, len : FrameLens]
    <2>1. skb.no \in Nat /\ skb.len \in FrameLens
      BY <1>2
    <2>2. \A l \in FrameLens : l \in Nat /\ l > 0
      BY TxPathAssumption
    <2> QED BY <2>1, <2>2
  <1> QED BY <1>1, <1>2 DEF Skb

\* Empty chunks are chunks, as many as asked for, and none carries data.
LEMMA EmptyChunksType ==
    ASSUME NEW n \in Nat
    PROVE  /\ Empty(n) \in Seq(Chunk) /\ Len(Empty(n)) = n
           /\ \A i \in 1 .. n : Empty(n)[i] = EmptyChunk
  <1>1. EmptyChunk \in Chunk
    BY DEF EmptyChunk, Chunk
  <1>2. Empty(n) \in [1 .. n -> Chunk]
    BY <1>1 DEF Empty
  <1> QED BY <1>2, SeqDef, LenProperties DEF Empty

\* A receive-side filling keeps the chunks there are and adds empty ones up
\* to the number of chunks to be read.
Filled(s, r) == IF Len(s) >= r THEN s ELSE s \o Empty(r - Len(s))

\* Filling up reaches the larger of the two numbers and adds no data chunk.
LEMMA FillProperties ==
    ASSUME NEW s \in Seq(Chunk), NEW r \in Nat
    PROVE  /\ Filled(s, r) \in Seq(Chunk)
           /\ Len(Filled(s, r)) = IF Len(s) >= r THEN Len(s) ELSE r
           /\ \A i \in 1 .. Len(Filled(s, r)) :
                  Filled(s, r)[i].dv => i <= Len(s) /\ Filled(s, r)[i] = s[i]
  <1> DEFINE t == Filled(s, r)
  <1>1. CASE Len(s) >= r
    BY <1>1 DEF Filled
  <1>2. CASE ~(Len(s) >= r)
    <2>1. r - Len(s) \in Nat
      BY <1>2, LenProperties
    <2>2. t = s \o Empty(r - Len(s))
      BY <1>2 DEF Filled
    <2> HIDE DEF t
    <2> DEFINE e == Empty(r - Len(s))
    <2>a. e \in Seq(Chunk) /\ Len(e) = r - Len(s)
      BY <2>1, EmptyChunksType
    <2> HIDE DEF e
    <2>b. s \o e \in Seq(Chunk) /\ Len(s \o e) = Len(s) + Len(e)
      BY <2>a, ConcatProperties
    <2>c. \A i \in 1 .. Len(s) + Len(e) :
             (s \o e)[i] = IF i <= Len(s) THEN s[i] ELSE e[i - Len(s)]
      BY <2>a, ConcatProperties
    <2>3. /\ t \in Seq(Chunk) /\ Len(t) = r
          /\ \A i \in 1 .. r : t[i] = IF i <= Len(s) THEN s[i]
                                      ELSE Empty(r - Len(s))[i - Len(s)]
      BY <2>1, <2>2, <2>a, <2>b, <2>c, LenProperties DEF e
    <2>4. \A i \in 1 .. r : i > Len(s) => t[i] = EmptyChunk
      <3> SUFFICES ASSUME NEW i \in 1 .. r, i > Len(s)
                   PROVE  t[i] = EmptyChunk
        OBVIOUS
      <3>1. i - Len(s) \in 1 .. (r - Len(s)) /\ ~(i <= Len(s))
        BY LenProperties
      <3>2. t[i] = Empty(r - Len(s))[i - Len(s)]
        BY <3>1, <2>3
      <3> QED BY <3>1, <3>2, <2>1, EmptyChunksType
    <2>5. ~EmptyChunk.dv
      BY DEF EmptyChunk
    <2>6. \A i \in 1 .. r : t[i].dv => i <= Len(s) /\ t[i] = s[i]
      <3> SUFFICES ASSUME NEW i \in 1 .. r, t[i].dv
                   PROVE  i <= Len(s) /\ t[i] = s[i]
        OBVIOUS
      <3>0. Len(s) \in Nat
        BY LenProperties
      <3>1. i <= Len(s)
        <4> SUFFICES ASSUME i > Len(s) PROVE FALSE
          BY <3>0
        <4>1. t[i] = EmptyChunk
          BY <2>4
        <4> QED BY <4>1, <2>5
      <3> QED BY <3>1, <2>3
    <2> QED BY <1>2, <2>3, <2>6 DEF t
  <1> QED BY <1>1, <1>2

\* The next chunk of an skb with bytes left takes at least one of them and
\* not more than there are.
LEMMA ChunkSize ==
    ASSUME ongoing_tx_skb \in Skb, ongoing_tx_skb # NULL,
           tx_skb_offset \in Nat, tx_skb_offset < ongoing_tx_skb.len
    PROVE  /\ LengthToCopy \in Nat /\ LengthToCopy > 0
           /\ tx_skb_offset + LengthToCopy <= ongoing_tx_skb.len
  BY SkbLength, TxPathAssumption DEF LengthToCopy, Min2

-----------------------------------------------------------------------------
(* Typing: what every variable holds, what the SPI buffers hold at each    *)
(* point of the loop, and the offset into the ongoing skb.  All three are  *)
(* needed together: a chunk is well typed because the skb has bytes left,  *)
(* and the footer index is in range because of where the loop is.          *)

USE DEF devVars, bufferVars, irqVars, macVars, skbVars, countVars, bufVars,
        waitingVars, intVars, linkVars, netVars, threadVars, driverVars, vars

TypeInv == TypeOK /\ BufferInv /\ SkbInv /\ MailboxInv

\* The initial state is well typed.
LEMMA TypeInit == Init => TypeInv
  <1> SUFFICES ASSUME Init PROVE TypeInv
    OBVIOUS
  <1> USE DEF Init, DevInit
  <1>0. /\ TxBuffers \in 0 .. TxBuffers /\ 0 \in 0 .. TxBuffers
        /\ 0 \in 0 .. RxBuffers
        /\ 0 \in 0 .. MaxFrames /\ 0 \in 0 .. MaxCloses
        /\ 0 <= OA_TC6_MAX_TX_CHUNKS
    BY MacPhyAssumption, TxPathAssumption
  <1>1. DevTypeOK
    <2>1. last \in Footer
      <3>1. Capped(TxBuffers) \in Nat /\ Capped(RxBuffers) \in Nat
        BY MacPhyAssumption, CappedBound
      <3> QED BY <3>1 DEF Footer
    <2>2. handed \in Seq([len : Nat, tsc : Nat])
      BY EmptySeq
    <2>3. frame \in [no : Nat, bytes : Nat]
      BY DEF NoFrame
    <2> QED BY <1>0, <2>1, <2>2, <2>3 DEF DevTypeOK
  <1>2. TypeOK
    <2>1. tx_buf \in Seq(Chunk) /\ rx_buf \in Seq(Footer)
          /\ accepted \in Seq(StackFrame)
      BY EmptySeq
    <2>2. NULL \in Skb
      BY DEF Skb
    <2>3. pc \in PcStates /\ pc # "process"
      BY DEF PcStates
    <2>4. /\ tx_credits \in 0 .. TxBuffers
          /\ rx_chunks_available \in 0 .. RxBuffers
          /\ offered \in 0 .. MaxFrames /\ closes \in 0 .. MaxCloses
          /\ rx_next \in Nat \ {0} /\ tx_skb_offset \in Nat
      BY <1>0
    <2>5. /\ waiting_tx_ts_capture_mode \in TsModes \cup {0}
          /\ ongoing_tx_ts_capture_mode \in TsModes \cup {0}
          /\ pending \in StackFrame \cup {Nothing}
          /\ waiting_tx_skb \in Skb /\ ongoing_tx_skb \in Skb
      BY <2>2
    <2>6. /\ xpc \in {"idle", "busy", "linearize", "wake"}
          /\ isr \in {"idle", "wake"}
          /\ stopped \in BOOLEAN /\ up \in BOOLEAN /\ int_flag \in BOOLEAN
      OBVIOUS
    <2> HIDE DEF Init
    <2> QED BY <1>1, <2>1, <2>3, <2>4, <2>5, <2>6 DEF TypeOK
  <1>3. BufferInv
    BY <1>0, EmptySeq DEF BufferInv, SpiBufferFits
  <1>4. SkbInv /\ MailboxInv
    BY DEF SkbInv, MailboxInv
  <1> QED BY <1>2, <1>3, <1>4 DEF TypeInv

\* A device step keeps the device's type; the driver's state is untouched.
LEMMA TypeDevice == TypeInv /\ Device => TypeInv'
  <1> SUFFICES ASSUME TypeInv, Device PROVE TypeInv'
    OBVIOUS
  <1> USE DEF TypeInv
  <1>1. DevTypeOK'
    <2> USE MacPhyAssumption DEF TypeOK, DevTypeOK
    <2>1. CASE AssertIrq
      BY <2>1 DEF AssertIrq
    <2>2. CASE Egress
      BY <2>2 DEF Egress
    <2>3. CASE RxArrive
      BY <2>3 DEF RxArrive
    <2>4. CASE RxOverflow
      BY <2>4 DEF RxOverflow
    <2> QED BY <2>1, <2>2, <2>3, <2>4 DEF Device
  <1>2. UNCHANGED driverVars
    BY DEF Device
  <1>3. TypeOK'
    BY <1>1, <1>2 DEF TypeOK
  <1>4. BufferInv' /\ SkbInv' /\ MailboxInv'
    BY <1>2 DEF BufferInv, SkbInv, MailboxInv, SpiBufferFits
  <1> QED BY <1>3, <1>4

\* The steps of the stack, the xmit callback and the interrupt handler leave
\* the buffers and the ongoing skb alone.
LEMMA TypeStack ==
    TypeInv /\ (Stack \/ Xmit \/ XmitDrop) => TypeInv'
  <1> SUFFICES ASSUME TypeInv, Stack \/ Xmit \/ XmitDrop PROVE TypeInv'
    OBVIOUS
  <1> USE DEF TypeInv
  <1>1. /\ DevTypeOK'
        /\ UNCHANGED <<skbVars, countVars, bufVars, int_flag, isr>>
        /\ pc' = pc \/ (pc = "asleep" /\ pc' = "wait")
    BY DEF Stack, Offer, NetOpen, NetClose, Xmit, XmitCheck, XmitBusy,
           XmitStore, XmitWake, XmitDrop, Awakened, TypeOK, DevTypeOK
  <1>2. BufferInv' /\ SkbInv'
    BY <1>1 DEF BufferInv, SkbInv, SpiBufferFits
  <1>3. /\ waiting_tx_skb' \in Skb
        /\ waiting_tx_ts_capture_mode' \in TsModes \cup {0}
        /\ accepted' \in Seq(StackFrame)
    <2>1. CASE XmitStore
      <3>1. pending \in StackFrame
        BY <2>1 DEF XmitStore, MailboxInv, TypeOK
      <3>2. Len(accepted) \in Nat
        BY LenProperties DEF TypeOK
      <3>3. waiting_tx_skb' \in Skb
        BY <2>1, <3>1, <3>2 DEF XmitStore, Skb, StackFrame
      <3>4. accepted' \in Seq(StackFrame)
        BY <2>1, <3>1, AppendProperties DEF XmitStore, TypeOK
      <3> QED BY <2>1, <3>1, <3>3, <3>4 DEF XmitStore, StackFrame
    <2>2. CASE ~XmitStore
      BY <2>2 DEF Stack, Offer, NetOpen, NetClose, Xmit, XmitCheck, XmitBusy,
                  XmitWake, XmitDrop, TypeOK
    <2> QED BY <2>1, <2>2
  <1>4. pending' \in StackFrame \cup {Nothing}
    BY DEF Stack, Offer, NetOpen, NetClose, Xmit, XmitCheck, XmitBusy,
           XmitStore, XmitWake, XmitDrop, TypeOK, StackFrame
  <1>a. offered' \in 0 .. MaxFrames
    <2>1. MaxFrames \in Nat
      BY TxPathAssumption
    <2> QED
      BY <2>1 DEF Stack, Offer, NetOpen, NetClose, Xmit, XmitCheck, XmitBusy,
                  XmitStore, XmitWake, XmitDrop, TypeOK
  <1>b. closes' \in 0 .. MaxCloses
    <2>1. MaxCloses \in Nat
      BY TxPathAssumption
    <2> QED
      BY <2>1 DEF Stack, Offer, NetOpen, NetClose, Xmit, XmitCheck, XmitBusy,
                  XmitStore, XmitWake, XmitDrop, TypeOK
  <1>5. /\ xpc' \in {"idle", "busy", "linearize", "wake"}
        /\ stopped' \in BOOLEAN /\ up' \in BOOLEAN
    BY DEF Stack, Offer, NetOpen, NetClose, Xmit, XmitCheck, XmitBusy,
           XmitStore, XmitWake, XmitDrop, TypeOK
  <1>6. TypeOK'
    BY <1>1, <1>3, <1>4, <1>a, <1>b, <1>5 DEF TypeOK, PcStates
  <1>7. MailboxInv'
    BY DEF Stack, Offer, NetOpen, NetClose, Xmit, XmitCheck, XmitBusy,
           XmitStore, XmitWake, XmitDrop, MailboxInv, MailboxBusy
  <1> QED BY <1>2, <1>6, <1>7

\* The interrupt handler touches the flag and the sleeping thread.
LEMMA TypeIsr == TypeInv /\ Isr => TypeInv'
  <1> SUFFICES ASSUME TypeInv, Isr PROVE TypeInv'
    OBVIOUS
  <1> USE DEF TypeInv, Isr, IsrSet, IsrWake, Awakened
  <1>1. TypeOK'
    <2>1. DevTypeOK'
      BY DEF TypeOK, DevTypeOK
    <2>2. pc' \in PcStates /\ (pc' = "process" => pc = "process")
      BY DEF TypeOK, PcStates
    <2>3. isr' \in {"idle", "wake"} /\ int_flag' \in BOOLEAN
      BY DEF TypeOK
    <2> QED BY <2>1, <2>2, <2>3 DEF TypeOK
  <1>2. BufferInv'
    BY DEF BufferInv, SpiBufferFits
  <1>3. SkbInv' /\ MailboxInv'
    BY DEF SkbInv, MailboxInv
  <1> QED BY <1>1, <1>2, <1>3

\* The steps of the thread that only move it from one point to the next.
LEMMA TypeControl ==
    TypeInv /\ (\/ ThreadWait \/ LoopStart \/ PrepareDone \/ SpiFail
               \/ QueueCheck \/ QueueWake)
        => TypeInv'
  <1> SUFFICES ASSUME TypeInv,
                      \/ ThreadWait \/ LoopStart \/ PrepareDone \/ SpiFail
                      \/ QueueCheck \/ QueueWake
               PROVE  TypeInv'
    OBVIOUS
  <1> USE DEF TypeInv, ThreadWait, LoopStart, PrepareDone, SpiFail,
              QueueCheck, QueueWake
  <1>1. TypeOK'
    <2>1. DevTypeOK'
      BY DEF TypeOK, DevTypeOK
    <2>2. pc' \in PcStates /\ pc' # "process" /\ stopped' \in BOOLEAN
      BY DEF PcStates, TypeOK
    <2> QED BY <2>1, <2>2 DEF TypeOK
  <1>2. BufferInv'
    BY EmptySeq DEF BufferInv, SpiBufferFits, TypeOK
  <1>3. SkbInv' /\ MailboxInv'
    BY DEF SkbInv, MailboxInv
  <1> QED BY <1>1, <1>2, <1>3

\* Taking the waiting skb: it has bytes, and the offset is 0.
LEMMA TypePrepareTake == TypeInv /\ PrepareTake => TypeInv'
  <1> SUFFICES ASSUME TypeInv, PrepareTake PROVE TypeInv'
    OBVIOUS
  <1> USE DEF TypeInv, PrepareTake
  <1>1. TypeOK'
    <2>1. DevTypeOK'
      BY DEF TypeOK, DevTypeOK
    <2>2. NULL \in Skb
      BY DEF Skb
    <2> QED BY <2>1, <2>2 DEF TypeOK
  <1>2. BufferInv'
    BY DEF BufferInv, SpiBufferFits
  <1>3. SkbInv'
    BY SkbLength DEF SkbInv, TypeOK
  <1>4. MailboxInv'
    BY DEF MailboxInv
  <1> QED BY <1>1, <1>2, <1>3, <1>4

\* Cutting a chunk: it is well typed, and the buffer stays within the
\* credits, hence within the SPI buffer.
LEMMA TypePrepareAdd == TypeInv /\ PrepareAdd => TypeInv'
  <1> SUFFICES ASSUME TypeInv, PrepareAdd PROVE TypeInv'
    OBVIOUS
  <1> USE DEF TypeInv
  <1>1. /\ LengthToCopy \in Nat /\ LengthToCopy > 0
        /\ tx_skb_offset + LengthToCopy <= ongoing_tx_skb.len
        /\ ongoing_tx_skb.no \in Nat /\ ongoing_tx_skb.len \in Nat
    BY ChunkSize, SkbLength DEF TypeOK, SkbInv, PrepareAdd
  <1>2. TsModes \cup {0} \subseteq Nat
    BY TxPathAssumption
  <1>3. DataChunk \in Chunk
    BY <1>1, <1>2 DEF DataChunk, Chunk, TypeOK, ChunkTsc, EndValid
  <1>4. tx_buf' \in Seq(Chunk) /\ Len(tx_buf') = Len(tx_buf) + 1
        /\ Len(tx_buf) \in Nat
    BY <1>3, AppendProperties, LenProperties DEF PrepareAdd, TypeOK
  <1>5. tx_skb_offset' \in Nat /\ SkbInv'
    <2>1. CASE EndValid
      BY <2>1 DEF PrepareAdd, NextOffset, SkbInv
    <2>2. CASE ~EndValid
      <3>1. /\ tx_skb_offset' = tx_skb_offset + LengthToCopy
            /\ ongoing_tx_skb' = ongoing_tx_skb /\ ongoing_tx_skb # NULL
        BY <2>2 DEF PrepareAdd, NextOffset
      <3>2. tx_skb_offset + LengthToCopy # ongoing_tx_skb.len
        BY <2>2 DEF EndValid
      <3>3. tx_skb_offset \in Nat
        BY DEF TypeOK
      <3> QED BY <1>1, <3>1, <3>2, <3>3 DEF SkbInv
    <2> QED BY <2>1, <2>2
  <1>6. TypeOK'
    <2>1. DevTypeOK'
      BY DEF TypeOK, DevTypeOK, PrepareAdd
    <2>2. NULL \in Skb
      BY DEF Skb
    <2> QED BY <1>4, <1>5, <2>1, <2>2 DEF TypeOK, PrepareAdd
  <1>7. BufferInv'
    <2>1. Len(tx_buf') <= tx_credits /\ tx_credits <= TxBuffers
      BY <1>4 DEF PrepareAdd, CreditLeft, TypeOK
    <2>2. Len(tx_buf') <= OA_TC6_MAX_TX_CHUNKS
      BY <1>4, <2>1, MacPhyAssumption, TxPathAssumption DEF TypeOK
    <2> QED BY <2>1, <2>2 DEF PrepareAdd, BufferInv, SpiBufferFits
  <1>8. MailboxInv'
    BY DEF MailboxInv, PrepareAdd
  <1> QED BY <1>5, <1>6, <1>7, <1>8

\* Filling up for the receive side.
LEMMA TypeFill == TypeInv /\ (FillForRx \/ IntClear) => TypeInv'
  <1> SUFFICES ASSUME TypeInv, FillForRx \/ IntClear PROVE TypeInv'
    OBVIOUS
  <1> USE DEF TypeInv
  <1>1. /\ tx_buf' \in Seq(Chunk) /\ Len(tx_buf') <= OA_TC6_MAX_TX_CHUNKS
        /\ pc' = "wait" => tx_buf' = <<>>
        /\ pc' = "xfer" => Len(tx_buf') > 0
    <2>1. CASE FillForRx
      <3>1. /\ rx_chunks_available \in Nat
            /\ rx_chunks_available <= OA_TC6_MAX_TX_CHUNKS
        BY MacPhyAssumption, TxPathAssumption DEF TypeOK
      <3>2. /\ tx_buf' \in Seq(Chunk)
            /\ Len(tx_buf') = IF Len(tx_buf) >= rx_chunks_available
                               THEN Len(tx_buf) ELSE rx_chunks_available
        <4>1. tx_buf' = Filled(tx_buf, rx_chunks_available)
          BY <2>1 DEF FillForRx, NeededEmptyChunks, Filled
        <4>2. tx_buf \in Seq(Chunk)
          BY DEF TypeOK
        <4> QED BY <3>1, <4>1, <4>2, FillProperties
      <3>3. Len(tx_buf') <= OA_TC6_MAX_TX_CHUNKS
        BY <2>1, <3>1, <3>2 DEF FillForRx, BufferInv, SpiBufferFits
      <3>4. tx_buf' # <<>> => Len(tx_buf') > 0
        BY <3>2, EmptySeq
      <3> QED BY <2>1, <3>2, <3>3, <3>4 DEF FillForRx
    <2>2. CASE IntClear
      <3>1. Empty(1) \in Seq(Chunk) /\ Len(Empty(1)) = 1
        BY EmptyChunksType
      <3>2. 1 <= OA_TC6_MAX_TX_CHUNKS
        BY MacPhyAssumption, TxPathAssumption
      <3>3. tx_buf # <<>> => Len(tx_buf) > 0
        BY EmptySeq DEF TypeOK
      <3>4. tx_buf' = Empty(1) \/ (tx_buf # <<>> /\ tx_buf' = tx_buf)
        BY <2>2 DEF IntClear
      <3>5. tx_buf \in Seq(Chunk) /\ Len(tx_buf) <= OA_TC6_MAX_TX_CHUNKS
        BY DEF TypeOK, BufferInv, SpiBufferFits
      <3>6. pc' = "xfer"
        BY <2>2 DEF IntClear
      <3>7. Len(tx_buf') <= OA_TC6_MAX_TX_CHUNKS /\ Len(tx_buf') > 0
        <4>1. CASE tx_buf' = Empty(1)
          <5>1. Len(tx_buf') = 1
            BY <4>1, <3>1
          <5> QED BY <5>1, <3>2
        <4>2. CASE tx_buf # <<>> /\ tx_buf' = tx_buf
          <5>1. Len(tx_buf') = Len(tx_buf) /\ Len(tx_buf) > 0
            BY <4>2, <3>3
          <5> QED BY <5>1, <3>5
        <4> QED BY <3>4, <4>1, <4>2
      <3> QED BY <3>1, <3>4, <3>5, <3>6, <3>7
    <2> QED BY <2>1, <2>2
  <1>2. TypeOK'
    <2>1. DevTypeOK'
      BY DEF TypeOK, DevTypeOK, FillForRx, IntClear
    <2>2. /\ pc' \in PcStates /\ pc' # "process" /\ int_flag' \in BOOLEAN
      BY DEF TypeOK, PcStates, FillForRx, IntClear
    <2> QED BY <1>1, <2>1, <2>2 DEF TypeOK, FillForRx, IntClear
  <1>3. BufferInv'
    <2>1. /\ pc \in {"fill", "int_clear"}
          /\ pc' \in {"int_clear", "wait", "xfer"}
          /\ UNCHANGED <<rx_buf, rx_next>>
      BY DEF FillForRx, IntClear
    <2> QED BY <1>1, <2>1, EmptySeq DEF BufferInv, SpiBufferFits
  <1>4. SkbInv' /\ MailboxInv'
    BY DEF SkbInv, MailboxInv, FillForRx, IntClear
  <1> QED BY <1>2, <1>3, <1>4

\* A part of a count and what is left of it are counts.
LEMMA Difference ==
    ASSUME NEW n \in Nat, NEW k \in 0 .. n
    PROVE  n - k \in Nat /\ n - k <= n /\ k \in Nat /\ k <= n
  OBVIOUS

\* What the exchange of a well-typed chunk does to the device's variables.
LEMMA ExchangeType ==
    ASSUME DevTypeOK, NEW c \in Chunk, ExchangeChunk(c)
    PROVE  DevTypeOK' /\ last'.txc <= Credits'
  <1>0. TxBuffers \in Nat /\ RxBuffers \in Nat
    BY MacPhyAssumption
  <1>1. buffered' \in 0 .. TxBuffers /\ rx_pending' \in 0 .. RxBuffers
    BY <1>0 DEF DevTypeOK, ExchangeChunk, TakePayload, Credits
  <1>2. last' \in Footer /\ last'.txc <= Credits'
    <2>1. /\ TxBuffers - buffered' \in Nat
          /\ TxBuffers - buffered' <= TxBuffers
          /\ rx_pending' \in Nat /\ rx_pending' <= RxBuffers
      BY <1>0, <1>1, Difference
    <2>2. /\ Capped(TxBuffers - buffered') \in 0 .. Capped(TxBuffers)
          /\ Capped(TxBuffers - buffered') <= TxBuffers - buffered'
          /\ Capped(rx_pending') \in 0 .. Capped(RxBuffers)
      BY <1>0, <2>1, CappedBound
    <2>3. /\ last' = [txc |-> Capped(TxBuffers - buffered'),
                      rca |-> Capped(rx_pending'), exst |-> rx_ovf]
          /\ rx_ovf \in BOOLEAN
      BY DEF ExchangeChunk, DevTypeOK
    <2> QED BY <2>2, <2>3 DEF Footer, Credits
  <1>3. frame' \in [no : Nat, bytes : Nat] /\ txpe' \in BOOLEAN
        /\ txbo' \in BOOLEAN
    <2>1. c.dv \in BOOLEAN /\ c.no \in Nat /\ c.off + c.cnt \in Nat
      BY DEF Chunk
    <2> QED BY <2>1 DEF NoFrame, DevTypeOK, ExchangeChunk, TakePayload
  <1>4. handed' \in Seq([len : Nat, tsc : Nat])
    <2>1. [len |-> c.off + c.cnt, tsc |-> c.tsc] \in [len : Nat, tsc : Nat]
      BY DEF Chunk
    <2>2. handed \in Seq([len : Nat, tsc : Nat])
      BY DEF DevTypeOK
    <2>3. Append(handed, [len |-> c.off + c.cnt, tsc |-> c.tsc])
             \in Seq([len : Nat, tsc : Nat])
      BY <2>1, <2>2, AppendProperties
    <2>4. \/ handed' = handed
          \/ handed' = Append(handed, [len |-> c.off + c.cnt, tsc |-> c.tsc])
      BY DEF ExchangeChunk, TakePayload
    <2> QED BY <2>2, <2>3, <2>4
  <1>5. UNCHANGED <<mac_en, rx_ovf, irq_edge>> /\ irq' = FALSE
    BY DEF ExchangeChunk
  <1> QED BY <1>1, <1>2, <1>3, <1>4, <1>5 DEF DevTypeOK

\* The exchange of one chunk.
LEMMA TypeExchange == TypeInv /\ Exchange => TypeInv'
  <1> SUFFICES ASSUME TypeInv, Exchange PROVE TypeInv'
    OBVIOUS
  <1> USE DEF TypeInv
  <1>1. /\ Len(rx_buf) \in Nat /\ Len(tx_buf) \in Nat
        /\ Len(rx_buf) < Len(tx_buf)
    BY LenProperties DEF TypeOK, Exchange
  <1>2. tx_buf[Len(rx_buf) + 1] \in Chunk
    BY <1>1, ElementOfSeq DEF TypeOK
  <1>3. DevTypeOK'
    BY <1>2, ExchangeType DEF Exchange, TypeOK
  <1>4. rx_buf' \in Seq(Footer) /\ Len(rx_buf') = Len(rx_buf) + 1
    BY <1>3, AppendProperties DEF Exchange, TypeOK, DevTypeOK
  <1>5. BufferInv'
    BY <1>1, <1>4 DEF Exchange, BufferInv, SpiBufferFits
  <1>6. TypeOK'
    <2>1. pc' \in PcStates /\ (pc' = "process" => rx_next' <= Len(rx_buf'))
      BY <1>1, <1>4 DEF Exchange, PcStates, BufferInv
    <2> QED BY <1>3, <1>4, <2>1 DEF Exchange, TypeOK
  <1>7. SkbInv' /\ MailboxInv'
    BY DEF SkbInv, MailboxInv, Exchange
  <1> QED BY <1>5, <1>6, <1>7

\* The counts a footer carries are counts the device can have.
LEMMA FooterCounts ==
    ASSUME TypeInv, pc = "process"
    PROVE  /\ rx_next \in 1 .. Len(rx_buf) /\ Len(rx_buf) \in Nat
           /\ rx_buf[rx_next] \in Footer
           /\ rx_buf[rx_next].txc \in 0 .. TxBuffers
           /\ rx_buf[rx_next].rca \in 0 .. RxBuffers
  <1>1. rx_next \in 1 .. Len(rx_buf) /\ Len(rx_buf) \in Nat
    BY LenProperties DEF TypeInv, TypeOK
  <1>2. rx_buf[rx_next] \in Footer
    BY <1>1, ElementOfSeq DEF TypeInv, TypeOK
  <1>3. /\ TxBuffers \in Nat /\ RxBuffers \in Nat
        /\ Capped(TxBuffers) \in Nat /\ Capped(RxBuffers) \in Nat
        /\ Capped(TxBuffers) <= TxBuffers /\ Capped(RxBuffers) <= RxBuffers
    BY MacPhyAssumption, CappedBound
  <1> QED BY <1>1, <1>2, <1>3 DEF Footer

\* Processing a footer, whatever it says.
LEMMA TypeProcess ==
    TypeInv /\ (ProcessFooter \/ ProcessOverflow \/ ProcessError) => TypeInv'
  <1> SUFFICES ASSUME TypeInv,
                      ProcessFooter \/ ProcessOverflow \/ ProcessError
               PROVE  TypeInv'
    OBVIOUS
  <1> USE DEF TypeInv
  <1>1. pc = "process"
    BY DEF ProcessFooter, ProcessOverflow, ProcessError
  <1>2. /\ tx_credits' \in 0 .. TxBuffers
        /\ rx_chunks_available' \in 0 .. RxBuffers
        /\ rx_next \in 1 .. Len(rx_buf) /\ Len(rx_buf) \in Nat
    BY <1>1, FooterCounts
       DEF TakeCounts, ProcessFooter, ProcessOverflow, ProcessError
  <1>3. /\ \/ pc' = "process" /\ rx_next' \in 1 .. Len(rx_buf)
              /\ UNCHANGED <<tx_buf, rx_buf>>
           \/ /\ pc' \in {"requeue", "loop", "exited"}
              /\ tx_buf' = <<>> /\ rx_buf' = <<>> /\ rx_next' = 1
        /\ ongoing_tx_skb' = ongoing_tx_skb
              \/ (ongoing_tx_skb' = NULL /\ pc' = "exited")
        /\ UNCHANGED <<tx_skb_offset, waitingVars, netVars, intVars>>
    BY <1>1, <1>2
       DEF ProcessFooter, ProcessOverflow, ProcessError, EndOfTransfer
  <1>4. TypeOK'
    <2>1. DevTypeOK'
      BY DEF TypeOK, DevTypeOK, ProcessFooter, ProcessOverflow, ProcessError
    <2>2. NULL \in Skb
      BY DEF Skb
    <2>3. /\ tx_buf' \in Seq(Chunk) /\ rx_buf' \in Seq(Footer)
          /\ rx_next' \in Nat \ {0} /\ pc' \in PcStates
          /\ pc' = "process" => rx_next' <= Len(rx_buf')
      <3>1. CASE pc' = "process" /\ UNCHANGED <<tx_buf, rx_buf>>
                 /\ rx_next' \in 1 .. Len(rx_buf)
        BY <1>2, <3>1 DEF TypeOK, PcStates
      <3>2. CASE /\ pc' \in {"requeue", "loop", "exited"}
                 /\ tx_buf' = <<>> /\ rx_buf' = <<>> /\ rx_next' = 1
        BY <3>2, EmptySeq DEF PcStates
      <3> QED BY <1>3, <3>1, <3>2
    <2>4. ongoing_tx_ts_capture_mode' = ongoing_tx_ts_capture_mode
      BY DEF ProcessFooter, ProcessOverflow, ProcessError
    <2> QED BY <1>2, <1>3, <2>1, <2>2, <2>3, <2>4 DEF TypeOK
  <1>5. BufferInv'
    <2>1. 0 <= OA_TC6_MAX_TX_CHUNKS
      BY TxPathAssumption
    <2> QED BY <1>1, <1>3, <2>1, EmptySeq DEF BufferInv, SpiBufferFits
  <1>6. SkbInv' /\ MailboxInv'
    BY <1>1, <1>3 DEF SkbInv, MailboxInv
  <1> QED BY <1>4, <1>5, <1>6

\* Every step keeps the typing invariants.
LEMMA TypeStep == TypeInv /\ [Next]_vars => TypeInv'
  <1> SUFFICES ASSUME TypeInv, [Next]_vars PROVE TypeInv'
    OBVIOUS
  <1>1. CASE Thread
    BY <1>1, TypeControl, TypePrepareTake, TypePrepareAdd, TypeFill,
       TypeExchange, TypeProcess DEF Thread
  <1>2. CASE Stack \/ Xmit
    BY <1>2, TypeStack
  <1>3. CASE Isr
    BY <1>3, TypeIsr
  <1>4. CASE Device
    BY <1>4, TypeDevice
  <1>5. CASE Failure
    BY <1>5, TypeStack, TypeControl, TypeProcess DEF Failure
  <1>6. CASE UNCHANGED vars
    <2>1. TypeOK'
      BY <1>6 DEF TypeInv, TypeOK, DevTypeOK
    <2>2. BufferInv' /\ SkbInv' /\ MailboxInv'
      BY <1>6 DEF TypeInv, BufferInv, SkbInv, MailboxInv, SpiBufferFits
    <2> QED BY <2>1, <2>2 DEF TypeInv
  <1> QED BY <1>1, <1>2, <1>3, <1>4, <1>5, <1>6 DEF Next

\* The type invariant with its strengthening holds in every state that
\* oa_tc6_init, the thread, the callback and the handler can produce.
LEMMA TypeInvariant == Spec => []TypeInv
  <1> QED BY TypeInit, TypeStep, PTL DEF Spec

\* The variables of driver and device keep their types under every fault,
\* among them the credit counts and the index into the footers.
THEOREM TypeCorrect == Spec => []TypeOK
  <1>1. TypeInv => TypeOK
    BY DEF TypeInv
  <1> QED BY <1>1, TypeInvariant, PTL

\* No transfer outgrows the SPI data buffers: prepare_spi_tx_buf never puts
\* more than 48 chunks into them, even after stale counts were taken over.
THEOREM BuffersFit == Spec => []SpiBufferFits
  <1>1. TypeInv => SpiBufferFits
    BY DEF TypeInv, BufferInv
  <1> QED BY <1>1, TypeInvariant, PTL

-----------------------------------------------------------------------------
(* The mailbox and the sleeping thread.                                    *)

\* A thread that sleeps although it has work has a wake-up coming.  Whoever
\* makes the condition true is the one that sends the wake-up, and a wake-up
\* is spent only on a thread that then tests the condition again.
LEMMA WakeupStep == TypeInv /\ NoLostWakeup /\ [Next]_vars => NoLostWakeup'
  <1> SUFFICES ASSUME TypeInv, NoLostWakeup, [Next]_vars PROVE NoLostWakeup'
    OBVIOUS
  <1> USE DEF NoLostWakeup, WaitCondition
  <1>1. CASE ThreadWait
    BY <1>1 DEF ThreadWait
  <1>2. CASE Thread /\ ~ThreadWait
    <2>1. pc' # "asleep"
      BY <1>2 DEF Thread, LoopStart, PrepareTake, PrepareAdd, PrepareDone,
         FillForRx, IntClear, Exchange, ProcessFooter, ProcessOverflow,
         QueueCheck, QueueWake
    <2> QED BY <2>1
  <1>3. CASE Stack \/ Xmit
    BY <1>3 DEF Stack, Offer, NetOpen, NetClose, Xmit, XmitCheck, XmitBusy,
       XmitStore, XmitWake, Awakened
  <1>4. CASE Isr
    BY <1>4 DEF Isr, IsrSet, IsrWake, Awakened
  <1>5. CASE Device
    BY <1>5 DEF Device
  <1>6. CASE Failure
    BY <1>6 DEF Failure, XmitDrop, SpiFail, ProcessError
  <1>7. CASE UNCHANGED vars
    BY <1>7
  <1> QED BY <1>1, <1>2, <1>3, <1>4, <1>5, <1>6, <1>7 DEF Next

\* Between the lockless tests of int_flag, waiting_tx_skb and tx_credits and
\* the sleep no wake-up is lost, whatever fails.
THEOREM NoWakeupLost == Spec => []NoLostWakeup
  <1>1. Init => NoLostWakeup
    BY DEF Init, NoLostWakeup
  <1> QED BY <1>1, TypeInvariant, WakeupStep, PTL DEF Spec

\* A waiting skb leaves the mailbox only to become the ongoing skb, together
\* with its timestamp request: oa_tc6_start_xmit, which tests the mailbox
\* without the lock, never overwrites it.
THEOREM HandOver == Spec => MailboxHandOver
  <1> DEFINE Step == waiting_tx_skb # NULL /\ waiting_tx_skb' # waiting_tx_skb
        => /\ waiting_tx_skb' = NULL
           /\ ongoing_tx_skb = NULL /\ ongoing_tx_skb' = waiting_tx_skb
           /\ ongoing_tx_ts_capture_mode' = waiting_tx_ts_capture_mode
  <1>1. TypeInv /\ [Next]_vars => [Step]_vars
    <2> SUFFICES ASSUME TypeInv, Next PROVE Step
      OBVIOUS
    <2>1. CASE PrepareTake
      BY <2>1 DEF PrepareTake
    <2>2. CASE XmitStore
      BY <2>2 DEF XmitStore, TypeInv, MailboxInv
    <2>3. CASE ~PrepareTake /\ ~XmitStore
      <3>1. UNCHANGED waiting_tx_skb
        BY <2>3 DEF Next, Thread, ThreadWait, LoopStart, PrepareAdd,
           PrepareDone, FillForRx, IntClear, Exchange, ProcessFooter,
           ProcessOverflow, QueueCheck, QueueWake, Xmit, XmitCheck, XmitBusy,
           XmitWake, Isr, IsrSet, IsrWake, Device, Stack, Offer, NetOpen,
           NetClose, Failure, XmitDrop, SpiFail, ProcessError
      <3> QED BY <3>1
    <2> QED BY <2>1, <2>2, <2>3
  <1> QED BY <1>1, TypeInvariant, PTL DEF Spec, MailboxHandOver

-----------------------------------------------------------------------------
(* Credits.  The driver works from the last footer it has processed, the   *)
(* device from its buffer as it is; between the two lie the chunks of a    *)
(* transfer.  CreditInv ties them together at every point of the loop.     *)

NoOverflowRecovery == "rx_overflow" \notin Faults

\* While chunks are cut, each data chunk stands at a place the credits allow.
LEMMA CreditPrepare ==
    ASSUME TypeInv, CreditInv, PrepareTake \/ PrepareAdd \/ PrepareDone
    PROVE  CreditInv'
  <1> USE DEF CreditInv, CreditsRespected, Credits
  <1>1. CASE PrepareAdd
    <2>1. Len(tx_buf) \in Nat /\ tx_buf \in Seq(Chunk)
      BY LenProperties DEF TypeInv, TypeOK
    <2>2. /\ Len(tx_buf') = Len(tx_buf) + 1
          /\ \A i \in 1 .. Len(tx_buf) : tx_buf'[i] = tx_buf[i]
      BY <1>1, <2>1, AppendProperties DEF PrepareAdd
    <2>3. Len(tx_buf) + 1 <= tx_credits
      BY <1>1, <2>1 DEF PrepareAdd, CreditLeft, TypeInv, TypeOK
    <2>4. \A i \in 1 .. Len(tx_buf') : tx_buf'[i].dv => i <= tx_credits
      <3> SUFFICES ASSUME NEW i \in 1 .. Len(tx_buf'), tx_buf'[i].dv
                   PROVE  i <= tx_credits
        OBVIOUS
      <3>1. CASE i = Len(tx_buf) + 1
        BY <3>1, <2>3
      <3>2. CASE i # Len(tx_buf) + 1
        <4>1. i \in 1 .. Len(tx_buf)
          BY <3>2, <2>1, <2>2
        <4> QED BY <4>1, <2>2, <1>1 DEF PrepareAdd
      <3> QED BY <3>1, <3>2
    <2> QED BY <1>1, <2>4 DEF PrepareAdd
  <1>2. CASE PrepareTake \/ PrepareDone
    BY <1>2 DEF PrepareTake, PrepareDone
  <1> QED BY <1>1, <1>2

\* The chunks added for the receive side carry no data.
LEMMA CreditFill ==
    ASSUME TypeInv, CreditInv, FillForRx \/ IntClear
    PROVE  CreditInv'
  <1>1. /\ pc \in {"fill", "int_clear"} /\ rx_buf = <<>> /\ rx_buf' = <<>>
        /\ Len(rx_buf) = 0
        /\ UNCHANGED <<devVars, tx_credits>>
    BY EmptySeq DEF FillForRx, IntClear, TypeInv, BufferInv
  <1>2. tx_buf \in Seq(Chunk) /\ rx_chunks_available \in Nat
    BY DEF TypeInv, TypeOK
  <1>3. \A i \in 1 .. Len(tx_buf') : tx_buf'[i].dv => i <= tx_credits
    <2>1. CASE FillForRx
      <3>1. tx_buf' = Filled(tx_buf, rx_chunks_available)
        BY <2>1 DEF FillForRx, NeededEmptyChunks, Filled
      <3>2. \A i \in 1 .. Len(tx_buf') :
               tx_buf'[i].dv => i <= Len(tx_buf) /\ tx_buf'[i] = tx_buf[i]
        BY <1>2, <3>1, FillProperties
      <3>3. \A i \in 1 .. Len(tx_buf) : tx_buf[i].dv => i <= tx_credits
        BY <1>1 DEF CreditInv
      <3> QED BY <1>2, <3>2, <3>3, LenProperties
    <2>2. CASE IntClear
      <3>1. CASE tx_buf = <<>>
        <4>1. tx_buf' = Empty(1)
          BY <2>2, <3>1 DEF IntClear
        <4>a. 1 \in Nat /\ 1 \in 1 .. 1
          OBVIOUS
        <4>b. Len(Empty(1)) = 1 /\ Empty(1)[1] = EmptyChunk
          BY <4>a, EmptyChunksType
        <4>2. Len(tx_buf') = 1 /\ tx_buf'[1] = EmptyChunk
          BY <4>1, <4>b
        <4>3. tx_buf'[1].dv = FALSE
          BY <4>2 DEF EmptyChunk
        <4> QED BY <4>2, <4>3
      <3>2. CASE tx_buf # <<>>
        BY <1>1, <2>2, <3>2 DEF IntClear, CreditInv
      <3> QED BY <3>1, <3>2
    <2> QED BY <2>1, <2>2
  <1>4. tx_credits <= Credits /\ Credits' = Credits
    BY <1>1 DEF CreditInv, Credits
  <1>5. \A i \in 1 .. Len(tx_buf') : tx_buf'[i].dv => i - 0 <= Credits
    <2>1. tx_credits \in Nat /\ Credits \in Int
      BY MacPhyAssumption DEF Credits, TypeInv, TypeOK, DevTypeOK
    <2> QED BY <1>3, <1>4, <2>1
  <1>6. pc' \in {"int_clear", "wait", "xfer"}
    BY DEF FillForRx, IntClear
  <1>7. Len(rx_buf') = 0
    BY <1>1, EmptySeq
  <1> QED BY <1>1, <1>3, <1>4, <1>5, <1>6, <1>7
          DEF CreditInv, CreditsRespected

\* The device has a credit for the chunk it takes, and for those behind it.
LEMMA CreditExchange ==
    ASSUME TypeInv, CreditInv, Exchange
    PROVE  CreditInv'
  <1> DEFINE k == Len(rx_buf) + 1
             c == tx_buf[k]
  <1>1. /\ Len(rx_buf) \in Nat /\ Len(tx_buf) \in Nat
        /\ k \in 1 .. Len(tx_buf) /\ c \in Chunk
    BY LenProperties, ElementOfSeq DEF TypeInv, TypeOK, Exchange
  <1>2. /\ pc = "xfer" /\ ExchangeChunk(c) /\ rx_buf' = Append(rx_buf, last')
        /\ pc' = IF k = Len(tx_buf) THEN "process" ELSE "xfer"
        /\ tx_buf' = tx_buf
    BY DEF Exchange
  <1>3. Credits \in Int /\ buffered \in Nat /\ TxBuffers \in Nat
    BY MacPhyAssumption DEF Credits, TypeInv, TypeOK, DevTypeOK
  <1>4. DevTypeOK' /\ last'.txc <= Credits'
    BY <1>1, <1>2, ExchangeType DEF TypeInv, TypeOK
  <1>5. c.dv => k - Len(rx_buf) <= Credits
    BY <1>1, <1>2 DEF CreditInv
  <1>6. /\ txbo' = txbo
        /\ \/ c.dv /\ Credits' = Credits - 1
           \/ ~c.dv /\ Credits' = Credits
    <2>1. TakePayload(c) /\ c.dv \in BOOLEAN /\ txbo \in BOOLEAN
      BY <1>1, <1>2 DEF ExchangeChunk, Chunk, TypeInv, TypeOK, DevTypeOK
    <2>2. CASE c.dv
      <3>1. Credits > 0
        BY <1>1, <1>3, <1>5, <2>2
      <3>2. buffered' = buffered + 1 /\ txbo' = txbo
        BY <2>1, <2>2, <3>1 DEF TakePayload
      <3> QED BY <1>3, <2>2, <3>2 DEF Credits
    <2>3. CASE ~c.dv
      <3>1. buffered' = buffered /\ txbo' = (txbo \/ c.dv)
        BY <2>1, <2>3 DEF TakePayload
      <3>2. txbo' = txbo
        BY <2>1, <2>3, <3>1, Zenon
      <3> QED BY <2>3, <3>1, <3>2 DEF Credits
    <2> QED BY <2>2, <2>3
  <1>7. /\ rx_buf' \in Seq(Footer) /\ Len(rx_buf') = k
        /\ \A i \in 1 .. Len(rx_buf) : rx_buf'[i] = rx_buf[i]
        /\ rx_buf'[k] = last'
    BY <1>2, <1>4, AppendProperties DEF TypeInv, TypeOK, DevTypeOK
  <1>8. ~rx_ovf /\ ~rx_ovf' /\ last'.exst = FALSE
    BY <1>2 DEF CreditInv, ExchangeChunk, TypeInv, TypeOK, DevTypeOK
  <1>9. \A i \in 1 .. Len(rx_buf') : ~rx_buf'[i].exst
    <2> SUFFICES ASSUME NEW i \in 1 .. Len(rx_buf') PROVE ~rx_buf'[i].exst
      OBVIOUS
    <2>1. CASE i = k
      BY <2>1, <1>7, <1>8
    <2>2. CASE i # k
      <3>1. i \in 1 .. Len(rx_buf)
        BY <2>2, <1>1, <1>7
      <3> QED BY <3>1, <1>7 DEF CreditInv
    <2> QED BY <2>1, <2>2
  <1>10. ASSUME NEW i \in 1 .. Len(tx_buf'), i > Len(rx_buf'), tx_buf'[i].dv
         PROVE  i - Len(rx_buf') <= Credits'
    <2>1. i \in 1 .. Len(tx_buf) /\ i > Len(rx_buf) /\ tx_buf[i].dv /\ i > k
      BY <1>1, <1>2, <1>7, <1>10
    <2>2. i - Len(rx_buf) <= Credits
      BY <1>2, <2>1 DEF CreditInv
    <2>3. i - k <= Credits - 1
      BY <1>1, <1>3, <2>1, <2>2
    <2> QED BY <1>1, <1>3, <1>6, <1>7, <2>1, <2>3
  <1>11. rx_buf'[Len(rx_buf')].txc <= Credits'
    BY <1>4, <1>7
  <1> HIDE DEF k, c
  <1> QED BY <1>2, <1>6, <1>8, <1>9, <1>10, <1>11
          DEF CreditInv, CreditsRespected

\* The last footer of a transfer is the one that counts.
LEMMA CreditProcess ==
    ASSUME TypeInv, CreditInv, ProcessFooter \/ ProcessOverflow \/ ProcessError
    PROVE  CreditInv'
  <1>1. /\ pc = "process" /\ rx_next \in 1 .. Len(rx_buf)
        /\ Len(rx_buf) \in Nat
    BY FooterCounts DEF ProcessFooter, ProcessOverflow, ProcessError
  <1>2. ~ProcessOverflow
    BY <1>1 DEF ProcessOverflow, CreditInv
  <1>3. UNCHANGED devVars
    BY <1>2 DEF ProcessFooter, ProcessError
  <1>4. CASE pc' = "process"
    BY <1>1, <1>2, <1>3, <1>4
       DEF ProcessFooter, ProcessError, CreditInv, CreditsRespected, Credits
  <1>5. CASE pc' # "process"
    <2>1. rx_buf' = <<>> /\ Len(rx_buf') = 0
      BY <1>2, <1>5, <1>1, EmptySeq
         DEF ProcessFooter, ProcessError, EndOfTransfer
    <2>2. \/ pc' = "exited"
          \/ pc' = "requeue" /\ tx_credits' = rx_buf[Len(rx_buf)].txc
      BY <1>1, <1>2, <1>5 DEF ProcessFooter, ProcessError, TakeCounts
    <2> QED BY <1>1, <1>3, <2>1, <2>2
            DEF CreditInv, CreditsRespected, Credits
  <1> QED BY <1>4, <1>5

\* Every other step leaves the chunks alone, and the device only gains.
LEMMA CreditStep ==
    ASSUME NoOverflowRecovery, TypeInv, CreditInv, [Next]_vars
    PROVE  CreditInv'
  <1>1. CASE Device
    <2>1. UNCHANGED <<driverVars, txbo, rx_ovf>>
      BY <1>1 DEF Device, AssertIrq, Egress, RxArrive, NoOverflowRecovery
    <2>2. Credits' >= Credits /\ Credits' \in Int /\ Credits \in Int
      BY <1>1, MacPhyAssumption
         DEF Device, AssertIrq, Egress, RxArrive, NoOverflowRecovery, Credits,
             TypeInv, TypeOK, DevTypeOK
    <2>3. pc \notin {"xfer", "process", "exited"} => tx_credits <= Credits'
      BY <2>2 DEF CreditInv, TypeInv, TypeOK
    <2>4. pc = "xfer" =>
             \A i \in 1 .. Len(tx_buf) :
               i > Len(rx_buf) /\ tx_buf[i].dv => i - Len(rx_buf) <= Credits'
      BY <2>2, LenProperties DEF CreditInv, TypeInv, TypeOK
    <2>5. pc = "process" => rx_buf[Len(rx_buf)].txc <= Credits'
      <3> SUFFICES ASSUME pc = "process"
                   PROVE  rx_buf[Len(rx_buf)].txc <= Credits'
        OBVIOUS
      <3>1. rx_buf[Len(rx_buf)] \in Footer
        BY FooterCounts, ElementOfSeq DEF TypeInv, TypeOK
      <3>2. rx_buf[Len(rx_buf)].txc \in Int
        BY <3>1 DEF Footer
      <3> QED BY <2>2, <3>2 DEF CreditInv
    <2> QED BY <2>1, <2>3, <2>4, <2>5 DEF CreditInv, CreditsRespected
  <1>2. CASE PrepareTake \/ PrepareAdd \/ PrepareDone
    BY <1>2, CreditPrepare
  <1>3. CASE FillForRx \/ IntClear
    BY <1>3, CreditFill
  <1>4. CASE Exchange
    BY <1>4, CreditExchange
  <1>5. CASE ProcessFooter \/ ProcessOverflow \/ ProcessError
    BY <1>5, CreditProcess
  <1>6. CASE \/ ThreadWait \/ LoopStart \/ QueueCheck \/ QueueWake \/ SpiFail
             \/ Xmit \/ Isr \/ Stack \/ XmitDrop \/ UNCHANGED vars
    <2>1. UNCHANGED <<tx_buf, rx_buf, tx_credits, buffered, rx_ovf, txbo>>
      BY <1>6 DEF ThreadWait, LoopStart, QueueCheck, QueueWake, SpiFail,
         Xmit, XmitCheck, XmitBusy, XmitStore, XmitWake, Isr, IsrSet, IsrWake,
         Stack, Offer, NetOpen, NetClose, XmitDrop
    <2>2. \/ pc' = pc \/ pc' = "exited"
          \/ /\ pc \in {"wait", "asleep", "loop", "requeue", "wakeq"}
             /\ pc' \in {"wait", "asleep", "loop", "prepare", "fill", "wakeq"}
      BY <1>6 DEF ThreadWait, LoopStart, QueueCheck, QueueWake, SpiFail,
         Xmit, XmitCheck, XmitBusy, XmitStore, XmitWake, Isr, IsrSet, IsrWake,
         Stack, Offer, NetOpen, NetClose, XmitDrop, Awakened
    <2>3. pc \in {"wait", "asleep", "loop", "requeue", "wakeq"}
             => Len(tx_buf) = 0
      BY EmptySeq DEF TypeInv, BufferInv
    <2> QED BY <2>1, <2>2, <2>3 DEF CreditInv, CreditsRespected, Credits
  <1> QED BY <1>1, <1>2, <1>3, <1>4, <1>5, <1>6
          DEF Next, Thread, Failure

\* The count that process_rx_chunk_footer leaves never exceeds the credits of
\* the device, if no receive buffer overflow cuts the processing short.
LEMMA CreditInvariant ==
    ASSUME NoOverflowRecovery PROVE Spec => []CreditInv
  <1>1. Init => CreditInv
    <2>1. Len(<<>>) = 0 /\ TxBuffers - 0 = TxBuffers /\ TxBuffers <= TxBuffers
      BY EmptySeq, MacPhyAssumption
    <2> QED BY <2>1 DEF Init, DevInit, CreditInv, CreditsRespected, Credits
  <1>2. TypeInv /\ CreditInv /\ [Next]_vars => CreditInv'
    BY CreditStep
  <1> QED BY <1>1, <1>2, TypeInvariant, PTL DEF Spec

\* The SPI host never writes a data chunk the MAC-PHY has no buffer for,
\* with any buffer sizes and any failure but the recovery from a receive
\* overflow (which the run TxOverflow shows to break it).
THEOREM CreditsNeverExceeded ==
    ASSUME NoOverflowRecovery PROVE Spec => []CreditsRespected
  <1>1. CreditInv => CreditsRespected
    BY DEF CreditInv
  <1> QED BY <1>1, CreditInvariant, PTL

-----------------------------------------------------------------------------
(* The interrupt line.                                                     *)

\* Only the device asserts the line, and latches the edge; the handler takes
\* the edge and sets the flag; the flag is cleared only when a header is
\* about to go out, which raises the line.
LEMMA LineStep ==
    ASSUME TypeInv, LineInv, [Next]_vars
    PROVE  LineInv'
  <1>1. CASE Device
    BY <1>1 DEF Device, AssertIrq, Egress, RxArrive, RxOverflow, LineInv
  <1>2. CASE Exchange
    BY <1>2 DEF Exchange, ExchangeChunk, LineInv
  <1>3. CASE IntClear
    <2>1. rx_buf' = <<>> /\ pc' = "xfer"
      BY <1>3 DEF IntClear, TypeInv, BufferInv
    <2> QED BY <2>1 DEF LineInv
  <1>4. CASE ThreadWait
    BY <1>4 DEF ThreadWait, WaitCondition, LineInv
  <1>5. CASE Isr
    BY <1>5 DEF Isr, IsrSet, IsrWake, Awakened, LineInv
  <1>6. CASE Stack \/ Xmit \/ XmitDrop \/ UNCHANGED vars
    <2>1. /\ UNCHANGED <<irq, irq_edge, int_flag, isr, rx_buf>>
          /\ pc' = pc \/ (pc = "asleep" /\ pc' = "wait")
      BY <1>6 DEF Stack, Offer, NetOpen, NetClose, Xmit, XmitCheck, XmitBusy,
         XmitStore, XmitWake, XmitDrop, Awakened
    <2> QED BY <2>1 DEF LineInv
  <1>7. CASE \/ LoopStart \/ PrepareTake \/ PrepareAdd \/ PrepareDone
             \/ FillForRx \/ QueueCheck \/ QueueWake
    <2>1. /\ UNCHANGED <<irq, irq_edge, int_flag>>
          /\ pc' # "asleep" /\ pc # "xfer" /\ pc # "exited"
      BY <1>7 DEF LoopStart, PrepareTake, PrepareAdd, PrepareDone, FillForRx,
         QueueCheck, QueueWake
    <2> QED BY <2>1 DEF LineInv
  <1>8. CASE ProcessFooter \/ ProcessOverflow
    <2>1. /\ UNCHANGED <<irq, irq_edge, int_flag>>
          /\ pc' # "asleep" /\ pc = "process"
      BY <1>8 DEF ProcessFooter, ProcessOverflow
    <2> QED BY <2>1 DEF LineInv
  <1>9. CASE SpiFail \/ ProcessError
    <2>1. pc' = "exited"
      BY <1>9 DEF SpiFail, ProcessError
    <2> QED BY <2>1 DEF LineInv
  <1> QED BY <1>1, <1>2, <1>3, <1>4, <1>5, <1>6, <1>7, <1>8, <1>9
          DEF Next, Thread, Failure

\* An asserted interrupt line is always about to be noticed or served.
LEMMA LineInvariant == Spec => []LineInv
  <1>1. Init => LineInv
    BY DEF Init, DevInit, LineInv
  <1>2. TypeInv /\ LineInv /\ [Next]_vars => LineInv'
    BY LineStep
  <1> QED BY <1>1, <1>2, TypeInvariant, PTL DEF Spec

-----------------------------------------------------------------------------
(* The interrupt that announces received chunks, with and without recovery *)
(* from a receive overflow: the footers behind the one that reports it are *)
(* not looked at, so that the count the driver keeps may be an old one.    *)

\* One chunk less than a full buffer is what a footer reports of it.
LEMMA CappedLess ==
    ASSUME NEW n \in 0 .. RxBuffers
    PROVE  /\ (IF n > 0 THEN n - 1 ELSE 0) \in Nat
           /\ Capped(IF n > 0 THEN n - 1 ELSE 0) <= Capped(RxBuffers - 1)
           /\ Capped(RxBuffers - 1) \in Nat
           /\ (Capped(RxBuffers - 1) = 0 <=> RxBuffers = 1)
  BY MacPhyAssumption DEF Capped

\* The exchange: the footer reports the count after the chunk has been read.
LEMMA RxArmedExchange ==
    ASSUME TypeInv, OverflowInv, RxArmedInv, Exchange
    PROVE  OverflowInv' /\ RxArmedInv'
  <1> DEFINE k == Len(rx_buf) + 1
  <1>1. /\ Len(rx_buf) \in Nat /\ Len(tx_buf) \in Nat /\ rx_buf \in Seq(Footer)
        /\ rx_next = 1 /\ pc = "xfer" /\ rx_next' = rx_next
    BY LenProperties DEF TypeInv, TypeOK, BufferInv, Exchange
  <1>2. tx_buf[Len(rx_buf) + 1] \in Chunk
    BY <1>1, ElementOfSeq DEF TypeInv, TypeOK, Exchange
  <1>3. DevTypeOK' /\ last' \in Footer
    BY <1>2, ExchangeType DEF Exchange, TypeInv, TypeOK, DevTypeOK
  <1>4. /\ Len(rx_buf') = k /\ rx_buf'[k] = last'
        /\ \A i \in 1 .. Len(rx_buf) : rx_buf'[i] = rx_buf[i]
    BY <1>1, <1>3, AppendProperties DEF Exchange
  <1>5. /\ rx_pending \in 0 .. RxBuffers /\ rx_ovf \in BOOLEAN
        /\ rx_pending' = IF rx_pending > 0 THEN rx_pending - 1 ELSE 0
        /\ last'.rca = Capped(rx_pending')
        /\ last'.exst = rx_ovf /\ rx_ovf' = rx_ovf
    BY DEF Exchange, ExchangeChunk, TypeInv, TypeOK, DevTypeOK
  <1>6. last'.rca <= Capped(RxBuffers - 1)
    BY <1>5, CappedLess
  <1>7. rx_ovf /\ (\A j \in 1 .. Len(rx_buf) : ~rx_buf[j].exst)
           => last'.rca = Capped(RxBuffers - 1)
    <2>1. rx_ovf /\ (\A j \in 1 .. Len(rx_buf) : ~rx_buf[j].exst)
             => rx_pending = RxBuffers
      BY <1>1 DEF OverflowInv
    <2> QED BY <2>1, <1>5, MacPhyAssumption
  <1>8. pc' \in {"xfer", "process"}
    BY DEF Exchange
  <1>9. RxArmedInv'
    BY <1>4, <1>6, <1>8 DEF RxArmedInv, k
  <1>10. OverflowInv'
    <2>1. ~(rx_ovf' /\ (\A i \in 1 .. Len(rx_buf') : ~rx_buf'[i].exst))
      BY <1>1, <1>4, <1>5
    <2>2. ASSUME NEW i \in 1 .. Len(rx_buf'), rx_buf'[i].exst,
                 \A j \in 1 .. i - 1 : ~rx_buf'[j].exst
          PROVE  rx_buf'[i].rca = Capped(RxBuffers - 1)
      <3>1. CASE i = k
        <4>1. \A j \in 1 .. Len(rx_buf) : ~rx_buf[j].exst
          BY <1>1, <1>4, <2>2, <3>1
        <4> QED BY <1>4, <1>5, <1>7, <2>2, <3>1, <4>1
      <3>2. CASE i # k
        <4>1. i \in 1 .. Len(rx_buf)
          BY <1>1, <1>4, <3>2
        <4>2. rx_buf[i].exst /\ \A j \in 1 .. i - 1 : ~rx_buf[j].exst
          BY <1>1, <1>4, <2>2, <4>1
        <4> QED BY <1>4, <4>1, <4>2 DEF OverflowInv
      <3> QED BY <3>1, <3>2
    <2>3. \A j \in 1 .. rx_next' - 1 : j <= Len(rx_buf') => ~rx_buf'[j].exst
      BY <1>1
    <2> QED BY <2>1, <2>2, <2>3 DEF OverflowInv
  <1> QED BY <1>9, <1>10

\* The footers are processed up to the last one, or up to the one with the
\* overflow; with more than one buffer that one announces further chunks.
LEMMA RxArmedProcess ==
    ASSUME TypeInv, OverflowInv, RxArmedInv,
           ProcessFooter \/ ProcessOverflow \/ ProcessError
    PROVE  OverflowInv' /\ RxArmedInv'
  <1>1. /\ pc = "process" /\ rx_next \in 1 .. Len(rx_buf)
        /\ Len(rx_buf) \in Nat /\ UNCHANGED last /\ last \in Footer
    BY FooterCounts DEF ProcessFooter, ProcessOverflow, ProcessError, TypeInv,
       TypeOK, DevTypeOK
  <1>2. CASE pc' = "process"
    <2>1. /\ ProcessFooter /\ ~rx_buf[rx_next].exst
          /\ rx_next' = rx_next + 1
          /\ UNCHANGED <<rx_buf, rx_pending, rx_ovf, pc>>
      BY <1>1, <1>2 DEF ProcessFooter, ProcessOverflow, ProcessError
    <2>2. \A j \in 1 .. rx_next' - 1 : j <= Len(rx_buf') => ~rx_buf'[j].exst
      BY <1>1, <2>1 DEF OverflowInv
    <2> QED BY <1>1, <2>1, <2>2 DEF OverflowInv, RxArmedInv
  <1>3. CASE ProcessError
    <2>1. rx_buf' = <<>> /\ Len(rx_buf') = 0 /\ rx_next' = 1 /\ pc' = "exited"
      BY <1>3, EmptySeq DEF ProcessError, EndOfTransfer
    <2> QED BY <1>1, <2>1 DEF OverflowInv, RxArmedInv
  <1>4. CASE ProcessFooter /\ pc' # "process"
    <2>1. /\ rx_buf' = <<>> /\ Len(rx_buf') = 0 /\ rx_next' = 1
          /\ pc' = "requeue" /\ rx_next = Len(rx_buf)
          /\ rx_chunks_available' = rx_buf[Len(rx_buf)].rca
          /\ UNCHANGED <<rx_ovf, rx_pending>>
          /\ ~rx_buf[rx_next].exst
      BY <1>1, <1>4, EmptySeq DEF ProcessFooter, EndOfTransfer, TakeCounts
    <2>2. \A j \in 1 .. Len(rx_buf) : ~rx_buf[j].exst
      BY <1>1, <2>1 DEF OverflowInv
    <2>3. rx_ovf' => rx_pending' = RxBuffers
      BY <1>1, <2>1, <2>2 DEF OverflowInv
    <2>4. OverflowInv'
      BY <2>1, <2>3 DEF OverflowInv
    <2> QED BY <1>1, <2>1, <2>4 DEF RxArmedInv
  <1>5. CASE ProcessOverflow
    <2>1. /\ rx_buf' = <<>> /\ Len(rx_buf') = 0 /\ rx_next' = 1
          /\ pc' = "loop" /\ rx_buf[rx_next].exst /\ ~rx_ovf'
          /\ rx_chunks_available' = rx_buf[rx_next].rca
      BY <1>1, <1>5, EmptySeq DEF ProcessOverflow, EndOfTransfer, TakeCounts
    <2>2. rx_buf[rx_next].rca = Capped(RxBuffers - 1)
      <3>1. \A j \in 1 .. rx_next - 1 : ~rx_buf[j].exst
        BY <1>1 DEF OverflowInv
      <3> QED BY <1>1, <2>1, <3>1 DEF OverflowInv
    <2>3. rx_chunks_available' = 0 => last.rca = 0
      <3>1. last.rca \in Nat /\ last.rca <= Capped(RxBuffers - 1)
        <4>1. last.rca \in 0 .. Capped(RxBuffers) /\ Capped(RxBuffers) \in Nat
          BY <1>1, MacPhyAssumption, CappedBound DEF Footer
        <4> QED BY <4>1 DEF RxArmedInv
      <3> QED BY <2>1, <2>2, <3>1
    <2>4. OverflowInv'
      BY <2>1 DEF OverflowInv
    <2> QED BY <1>1, <2>1, <2>3, <2>4 DEF RxArmedInv
  <1> QED BY <1>2, <1>3, <1>4, <1>5

\* Every other step leaves the footers alone; the thread turns to its wait
\* only after a look at the count, and the device drops chunks only when its
\* buffer is full, and then takes none until one has been read.
LEMMA RxArmedStep ==
    ASSUME TypeInv, OverflowInv, RxArmedInv, [Next]_vars
    PROVE  OverflowInv' /\ RxArmedInv'
  <1>1. CASE Device
    <2>1. UNCHANGED <<driverVars, last>>
      BY <1>1 DEF Device, AssertIrq, Egress, RxArrive, RxOverflow
    <2>2. rx_ovf' => rx_pending' = RxBuffers \/ (rx_ovf /\ rx_pending' = rx_pending)
                     \/ (rx_ovf /\ rx_pending < RxBuffers)
      BY <1>1, MacPhyAssumption DEF Device, AssertIrq, Egress, RxArrive, RxOverflow, TypeInv,
         TypeOK, DevTypeOK
    <2>3. RxBuffers \in Nat
      BY MacPhyAssumption
    <2>4. OverflowInv'
      BY <2>1, <2>2, <2>3 DEF OverflowInv
    <2> QED BY <2>1, <2>4 DEF RxArmedInv
  <1>2. CASE Exchange
    BY <1>2, RxArmedExchange
  <1>3. CASE ProcessFooter \/ ProcessOverflow \/ ProcessError
    BY <1>3, RxArmedProcess
  <1>4. CASE FillForRx
    <2>1. /\ pc = "fill" /\ pc' \in {"int_clear", "wait", "xfer"}
          /\ UNCHANGED <<devVars, rx_buf, rx_next, rx_chunks_available>>
      BY <1>4 DEF FillForRx
    <2>2. pc' = "wait" => rx_chunks_available = 0
      <3> SUFFICES ASSUME pc' = "wait" PROVE rx_chunks_available = 0
        OBVIOUS
      <3>1. tx_buf' = <<>> /\ tx_buf' = Filled(tx_buf, rx_chunks_available)
        BY <1>4 DEF FillForRx, NeededEmptyChunks, Filled
      <3>2. tx_buf \in Seq(Chunk) /\ rx_chunks_available \in Nat
        BY DEF TypeInv, TypeOK
      <3> QED BY <3>1, <3>2, FillProperties, EmptySeq, LenProperties
    <2> QED BY <2>1, <2>2 DEF OverflowInv, RxArmedInv
  <1>5. CASE \/ ThreadWait \/ LoopStart \/ PrepareTake \/ PrepareAdd
             \/ PrepareDone \/ IntClear \/ QueueCheck \/ QueueWake
             \/ SpiFail \/ Xmit \/ Isr \/ Stack \/ XmitDrop \/ UNCHANGED vars
    <2>1. UNCHANGED <<rx_buf, rx_next, rx_chunks_available, last, rx_ovf,
                      rx_pending>>
      BY <1>5 DEF ThreadWait, LoopStart, PrepareTake, PrepareAdd, PrepareDone,
         IntClear, QueueCheck, QueueWake, SpiFail, Xmit, XmitCheck, XmitBusy,
         XmitStore, XmitWake, Isr, IsrSet, IsrWake, Stack, Offer, NetOpen,
         NetClose, XmitDrop
    <2>2. \/ pc' = pc \/ pc' = "exited"
          \/ pc' = "xfer" /\ pc # "exited"
          \/ pc \notin {"xfer", "process", "exited"}
             /\ pc' \in {"wakeq", "prepare", "loop", "fill"}
          \/ pc \in {"wait", "asleep"} /\ pc' \in {"wait", "asleep"}
      BY <1>5 DEF ThreadWait, LoopStart, PrepareTake, PrepareAdd, PrepareDone,
         IntClear, QueueCheck, QueueWake, SpiFail, Xmit, XmitCheck, XmitBusy,
         XmitStore, XmitWake, Isr, IsrSet, IsrWake, Stack, Offer, NetOpen,
         NetClose, XmitDrop, Awakened
    <2> QED BY <2>1, <2>2 DEF OverflowInv, RxArmedInv
  <1> QED BY <1>1, <1>2, <1>3, <1>4, <1>5 DEF Next, Thread, Failure

\* So much is inductive.
LEMMA RxArmedInvariant == Spec => [](OverflowInv /\ RxArmedInv)
  <1>1. Init => OverflowInv /\ RxArmedInv
    <2>1. 0 \in 0 .. RxBuffers /\ Len(<<>>) = 0
      BY MacPhyAssumption, EmptySeq
    <2>2. Capped(RxBuffers - 1) \in Nat
      BY <2>1, CappedLess
    <2> QED BY <2>1, <2>2 DEF Init, DevInit, OverflowInv, RxArmedInv
  <1>2. TypeInv /\ OverflowInv /\ RxArmedInv /\ [Next]_vars
           => OverflowInv' /\ RxArmedInv'
    BY RxArmedStep
  <1> QED BY <1>1, <1>2, TypeInvariant, PTL DEF Spec

\* A thread that sleeps while received chunks lie in the device was told by
\* the last footer that there were none, and the line is free to announce
\* them; or the edge or the handler's wake-up is on its way.  It holds under
\* every failure, recovery from a receive overflow included.
THEOREM RxAnnounced == Spec => []RxInterruptArmed
  <1>1. LineInv /\ RxArmedInv => RxInterruptArmed
    BY DEF LineInv, RxArmedInv, RxInterruptArmed
  <1> QED BY <1>1, RxArmedInvariant, LineInvariant, PTL

-----------------------------------------------------------------------------
(* The interrupt that ends a wait for credits, and the credits the thread  *)
(* believes in when it waits.  Behind an overflow the footers that follow  *)
(* are dropped, and with them the count of the last one; but the footer    *)
(* with the overflow tells of chunks to read, so that a transfer follows   *)
(* and the count is put right before the thread rests.                     *)

\* With a single receive buffer the chunk that shows the overflow is also the
\* last one to read.  The MAC-PHY has many.
SeveralBuffers == "rx_overflow" \in Faults => RxBuffers > 1

\* Extended status is raised by nothing else.
Unprovoked ==
    NoOverflowRecovery => ~rx_ovf /\ \A i \in 1 .. Len(rx_buf) : ~rx_buf[i].exst

LEMMA OverflowOnly == Spec => []Unprovoked
  <1>1. CASE NoOverflowRecovery
    <2>1. CreditInv => Unprovoked
      BY DEF CreditInv, Unprovoked
    <2> QED BY <1>1, <2>1, CreditInvariant, PTL
  <1>2. CASE ~NoOverflowRecovery
    <2>1. Unprovoked
      BY <1>2 DEF Unprovoked
    <2> QED BY <2>1, PTL
  <1> QED BY <1>1, <1>2

\* An overflow leaves chunks to read.
LEMMA ChunksLeft ==
    ASSUME SeveralBuffers, TypeInv, Unprovoked, OverflowInv, ProcessOverflow
    PROVE  /\ rx_chunks_available' \in Nat /\ rx_chunks_available' > 0
           /\ tx_credits' \in Nat /\ rx_buf' = <<>> /\ Len(rx_buf') = 0
  <1>1. /\ pc = "process" /\ rx_next \in 1 .. Len(rx_buf) /\ rx_buf[rx_next].exst
        /\ rx_buf[rx_next].txc \in 0 .. TxBuffers /\ TxBuffers \in Nat
    BY FooterCounts, MacPhyAssumption DEF ProcessOverflow
  <1>2. RxBuffers > 1
    BY <1>1 DEF Unprovoked, NoOverflowRecovery, SeveralBuffers
  <1>3. \A j \in 1 .. rx_next - 1 : ~rx_buf[j].exst
    BY <1>1, LenProperties DEF OverflowInv, TypeInv, TypeOK
  <1>4. rx_buf[rx_next].rca = Capped(RxBuffers - 1)
    BY <1>1, <1>3 DEF OverflowInv
  <1>5. 0 \in 0 .. RxBuffers
    BY MacPhyAssumption
  <1>6. Capped(RxBuffers - 1) \in Nat /\ (Capped(RxBuffers - 1) = 0 <=> RxBuffers = 1)
    BY <1>5, CappedLess
  <1>7. Capped(RxBuffers - 1) > 0
    BY <1>2, <1>6
  <1> QED BY <1>1, <1>4, <1>6, <1>7, EmptySeq
          DEF ProcessOverflow, TakeCounts, EndOfTransfer

\* The count the driver rests on is the one the device sent last.
LEMMA ArmedStep ==
    ASSUME SeveralBuffers, TypeInv, Unprovoked, OverflowInv, ArmedInv, [Next]_vars
    PROVE  ArmedInv'
  <1>1. CASE Device
    <2>1. UNCHANGED <<driverVars, last>>
      BY <1>1 DEF Device, AssertIrq, Egress, RxArrive, RxOverflow
    <2> QED BY <2>1 DEF ArmedInv
  <1>2. CASE Exchange
    <2>1. last' \in Footer /\ Len(rx_buf) \in Nat /\ rx_buf \in Seq(Footer)
      BY <1>2, TypeExchange, LenProperties
         DEF TypeInv, TypeOK, DevTypeOK
    <2>2. rx_buf'[Len(rx_buf')] = last' /\ pc' \in {"process", "xfer"}
      BY <1>2, <2>1, AppendProperties DEF Exchange
    <2> QED BY <2>2 DEF ArmedInv
  <1>3. CASE ProcessFooter \/ ProcessOverflow \/ ProcessError
    <2>1. /\ pc = "process" /\ rx_next \in 1 .. Len(rx_buf)
          /\ Len(rx_buf) \in Nat
      BY <1>3, FooterCounts DEF ProcessFooter, ProcessOverflow, ProcessError
    <2>2. CASE ProcessOverflow
      <3>1. pc' = "loop" /\ rx_chunks_available' > 0
        BY <2>2, ChunksLeft DEF ProcessOverflow
      <3> QED BY <3>1 DEF ArmedInv
    <2>3. CASE ProcessFooter \/ ProcessError
      BY <2>1, <2>3 DEF ProcessFooter, ProcessError, TakeCounts, ArmedInv
    <2> QED BY <1>3, <2>2, <2>3
  <1>4. CASE PrepareAdd
    BY <1>4 DEF PrepareAdd, ArmedInv
  <1>5. CASE PrepareTake \/ PrepareDone
    <2>1. tx_credits \in Nat /\ (tx_buf = <<>> => Len(tx_buf) = 0)
      BY EmptySeq DEF TypeInv, TypeOK
    <2>2. CASE PrepareTake
      BY <2>2 DEF PrepareTake, ArmedInv
    <2>3. CASE PrepareDone
      <3>1. tx_buf = <<>> => ongoing_tx_skb = NULL \/ tx_credits = 0
        BY <2>1, <2>3 DEF PrepareDone, CreditLeft
      <3> QED BY <2>3, <3>1 DEF PrepareDone, ArmedInv
    <2> QED BY <1>5, <2>2, <2>3
  <1>6. CASE FillForRx
    <2>1. tx_buf' = <<>> => tx_buf = <<>>
      <3> SUFFICES ASSUME tx_buf' = <<>> PROVE tx_buf = <<>>
        OBVIOUS
      <3>1. tx_buf \in Seq(Chunk) /\ rx_chunks_available \in Nat
        BY DEF TypeInv, TypeOK
      <3>2. tx_buf' = Filled(tx_buf, rx_chunks_available)
        BY <1>6 DEF FillForRx, NeededEmptyChunks, Filled
      <3>3. Len(tx_buf) = 0
        BY <3>1, <3>2, FillProperties, EmptySeq, LenProperties
      <3> QED BY <3>1, <3>3, EmptySeq
    <2> QED BY <1>6, <2>1 DEF FillForRx, ArmedInv
  <1>7. CASE IntClear
    BY <1>7 DEF IntClear, ArmedInv
  <1>8. CASE \/ ThreadWait \/ LoopStart \/ QueueCheck \/ QueueWake \/ SpiFail
             \/ Xmit \/ Isr \/ Stack \/ XmitDrop \/ UNCHANGED vars
    <2>1. UNCHANGED <<tx_buf, rx_buf, countVars, last, ongoing_tx_skb>>
      BY <1>8 DEF ThreadWait, LoopStart, QueueCheck, QueueWake, SpiFail,
         Xmit, XmitCheck, XmitBusy, XmitStore, XmitWake, Isr, IsrSet, IsrWake,
         Stack, Offer, NetOpen, NetClose, XmitDrop
    <2>2. \/ pc' = pc \/ pc' \in {"exited", "wakeq", "prepare"}
          \/ pc \in {"requeue", "wakeq", "wait"} /\ pc' = "loop"
          \/ pc \in {"wait", "asleep"} /\ pc' \in {"wait", "asleep"}
          \/ pc = "loop" /\ pc' = "fill" /\ ongoing_tx_skb = NULL
      BY <1>8 DEF ThreadWait, LoopStart, QueueCheck, QueueWake, SpiFail,
         Xmit, XmitCheck, XmitBusy, XmitStore, XmitWake, Isr, IsrSet, IsrWake,
         Stack, Offer, NetOpen, NetClose, XmitDrop, Awakened, SkbToSend
    <2>3. pc' \in {"wakeq", "prepare"}
             => pc \notin {"xfer", "process", "exited"}
      BY <1>8 DEF ThreadWait, LoopStart, QueueCheck, QueueWake, SpiFail,
         Xmit, XmitCheck, XmitBusy, XmitStore, XmitWake, Isr, IsrSet, IsrWake,
         Stack, Offer, NetOpen, NetClose, XmitDrop, Awakened
    <2> QED BY <2>1, <2>2, <2>3 DEF ArmedInv
  <1> QED BY <1>1, <1>2, <1>3, <1>4, <1>5, <1>6, <1>7, <1>8
          DEF Next, Thread, Failure

\* A thread that sleeps on an unsent frame was told by the device itself, in
\* the last footer, that there is no credit, so that the MAC-PHY interrupts
\* when there is one; or a wake-up is already on its way.  It holds with recovery
\* from an overflow too, where the count is first that of a footer in the middle.
THEOREM InterruptArmed ==
    ASSUME SeveralBuffers PROVE Spec => []CreditInterruptArmed
  <1>1. Init => ArmedInv
    <2>1. Capped(TxBuffers) \in Nat /\ TxBuffers # 0
      BY MacPhyAssumption, CappedBound
    <2> QED BY <2>1 DEF Init, DevInit, ArmedInv
  <1>2. TypeInv /\ Unprovoked /\ OverflowInv /\ RxArmedInv /\ ArmedInv /\ [Next]_vars
           => ArmedInv'
    BY ArmedStep
  <1>3. TypeInv /\ NoLostWakeup /\ LineInv /\ RxArmedInv /\ ArmedInv
           => CreditInterruptArmed
    BY DEF TypeInv, TypeOK, NoLostWakeup, WaitCondition, LineInv, RxArmedInv,
           ArmedInv, CreditInterruptArmed
  <1> QED BY <1>1, <1>2, <1>3, TypeInvariant, OverflowOnly, RxArmedInvariant,
             NoWakeupLost, LineInvariant, PTL DEF Spec

\* The last footer of a transfer tells what the device has, and the device
\* takes chunks only in a transfer.
LEMMA SettledStep ==
    ASSUME SeveralBuffers, TypeInv, Unprovoked, OverflowInv, SettledInv, [Next]_vars
    PROVE  SettledInv'
  <1>1. /\ tx_credits \in Nat /\ TxBuffers \in Nat /\ buffered \in Nat
        /\ Credits \in Int
    BY MacPhyAssumption DEF TypeInv, TypeOK, DevTypeOK, Credits
  <1>2. CASE Device
    <2>1. UNCHANGED driverVars
      BY <1>2 DEF Device
    <2>2. Credits' >= Credits /\ Credits' \in Int /\ Credits \in Int
      BY <1>2, MacPhyAssumption
         DEF Device, AssertIrq, Egress, RxArrive, RxOverflow, Credits, TypeInv,
             TypeOK, DevTypeOK
    <2>3. pc = "process" => rx_buf[Len(rx_buf)].txc \in Nat
      <3> SUFFICES ASSUME pc = "process" PROVE rx_buf[Len(rx_buf)].txc \in Nat
        OBVIOUS
      <3>1. rx_buf[Len(rx_buf)] \in Footer
        <4>1. Len(rx_buf) \in 1 .. Len(rx_buf) /\ rx_buf \in Seq(Footer)
          BY FooterCounts DEF TypeInv, TypeOK
        <4> QED BY <4>1, ElementOfSeq
      <3>2. Capped(TxBuffers) \in Nat
        BY <1>1, CappedBound
      <3> QED BY <3>1, <3>2 DEF Footer
    <2>4. UNCHANGED <<pc, rx_buf, tx_credits, rx_chunks_available>>
      BY <2>1
    <2> QED BY <1>1, <2>2, <2>3, <2>4 DEF SettledInv
  <1>3. CASE Exchange
    <2>1. /\ Len(rx_buf) \in Nat /\ Len(tx_buf) \in Nat
          /\ tx_buf[Len(rx_buf) + 1] \in Chunk
      BY <1>3, LenProperties, ElementOfSeq DEF TypeInv, TypeOK, Exchange
    <2>2. DevTypeOK' /\ last'.txc <= Credits'
      BY <1>3, <2>1, ExchangeType DEF Exchange, TypeInv, TypeOK
    <2>3. rx_buf'[Len(rx_buf')] = last' /\ pc' \in {"process", "xfer"}
      BY <1>3, <2>1, <2>2, AppendProperties DEF Exchange, TypeInv, TypeOK, DevTypeOK
    <2> QED BY <2>2, <2>3 DEF SettledInv
  <1>4. CASE ProcessFooter \/ ProcessOverflow \/ ProcessError
    <2>1. pc = "process" /\ rx_next \in 1 .. Len(rx_buf) /\ Len(rx_buf) \in Nat
      BY <1>4, FooterCounts DEF ProcessFooter, ProcessOverflow, ProcessError
    <2>2. UNCHANGED buffered
      BY <1>4 DEF ProcessFooter, ProcessOverflow, ProcessError, devVars, bufferVars
    <2>3. Credits' = Credits
      BY <2>2 DEF Credits
    <2>4. CASE ProcessOverflow
      <3>1. pc' = "loop" /\ rx_chunks_available' > 0
        BY <2>4, ChunksLeft DEF ProcessOverflow
      <3> QED BY <3>1 DEF SettledInv
    <2>5. CASE ProcessFooter \/ ProcessError
      BY <2>1, <2>3, <2>5 DEF ProcessFooter, ProcessError, TakeCounts, SettledInv
    <2> QED BY <1>4, <2>4, <2>5
  <1>5. CASE ThreadWait \/ LoopStart \/ PrepareTake \/ PrepareAdd \/ PrepareDone
             \/ FillForRx \/ IntClear \/ QueueCheck \/ QueueWake \/ SpiFail
             \/ Xmit \/ Isr \/ Stack \/ XmitDrop \/ UNCHANGED vars
    <2>1. UNCHANGED <<buffered, rx_buf, tx_credits, rx_chunks_available>>
      BY <1>5 DEF ThreadWait, LoopStart, PrepareTake, PrepareAdd, PrepareDone,
         FillForRx, IntClear, QueueCheck, QueueWake, SpiFail, Xmit, XmitCheck,
         XmitBusy, XmitStore, XmitWake, Isr, IsrSet, IsrWake, Stack, Offer, NetOpen,
         NetClose, XmitDrop, devVars, bufferVars
    <2>2. Credits' = Credits
      BY <2>1 DEF Credits
    <2>3. \/ pc' = pc \/ pc' \in {"xfer", "exited"}
          \/ /\ pc \notin {"xfer", "process", "exited"}
             /\ pc' \notin {"process", "requeue", "wakeq"}
          \/ pc = "requeue" /\ pc' = "wakeq"
      BY <1>5 DEF ThreadWait, LoopStart, PrepareTake, PrepareAdd, PrepareDone,
         FillForRx, IntClear, QueueCheck, QueueWake, SpiFail, Xmit, XmitCheck,
         XmitBusy, XmitStore, XmitWake, Isr, IsrSet, IsrWake, Stack, Offer, NetOpen,
         NetClose, XmitDrop, Awakened
    <2> QED BY <2>1, <2>2, <2>3 DEF SettledInv
  <1> QED BY <1>2, <1>3, <1>4, <1>5 DEF Next, Thread, Failure

\* The credits the driver counts on when it rests, and after every transfer it has
\* seen to the end, are there.  After an overflow the count may be too high (the
\* configuration TxOverflow), but for one transfer at a time.
THEOREM CountPutRight ==
    ASSUME SeveralBuffers PROVE Spec => []CountSettled
  <1>1. Init => SettledInv
    <2>1. TxBuffers - 0 = TxBuffers /\ TxBuffers <= TxBuffers
      BY MacPhyAssumption
    <2> QED BY <2>1 DEF Init, DevInit, SettledInv, Credits
  <1>2. TypeInv /\ Unprovoked /\ OverflowInv /\ RxArmedInv /\ SettledInv /\ [Next]_vars
           => SettledInv'
    BY SettledStep
  <1>3. RxArmedInv /\ SettledInv => CountSettled
    BY DEF RxArmedInv, SettledInv, CountSettled
  <1> QED BY <1>1, <1>2, <1>3, TypeInvariant, OverflowOnly, RxArmedInvariant, PTL
          DEF Spec

-----------------------------------------------------------------------------
(* Delivery: the chunks the thread cuts and the MAC puts together are the  *)
(* accepted frames, whole and in order, so that TxPath implements          *)
(* TxService.  The stream of accepted frames is the one measure of both    *)
(* sides: StreamInv says where in it the driver and the MAC are, and that  *)
(* the chunks between the two lead from the one place to the other.        *)
(* A position in the stream is the number of frames that are complete and  *)
(* the bytes of the next one.                                              *)

\* The frames the thread has cut to their last byte.
CutFrames == IF ongoing_tx_skb # NULL THEN ongoing_tx_skb.no - 1
             ELSE IF waiting_tx_skb # NULL THEN waiting_tx_skb.no - 1
             ELSE Len(accepted)

DriverAt == [done |-> CutFrames, bytes |-> tx_skb_offset]
MacAt == [done |-> Len(handed), bytes |-> frame.bytes]

StartOf(c) == [done |-> c.no - 1, bytes |-> c.off]
EndOf(c) == IF c.ev THEN [done |-> c.no, bytes |-> 0]
                    ELSE [done |-> c.no - 1, bytes |-> c.off + c.cnt]

\* The position after chunk i of a transfer of which the device has had n.
StreamAt(buf, n, i) == IF i = n THEN MacAt ELSE EndOf(buf[i])

\* A chunk is part of an accepted frame; the one that ends it has its length
\* and its capture mode.
Truthful(c) ==
    /\ c.no \in 1 .. Len(accepted) /\ c.cnt > 0 /\ (c.sv <=> c.off = 0)
    /\ c.ev => accepted[c.no] = [len |-> c.off + c.cnt, tsc |-> c.tsc]

\* The skbs the driver holds are the last ones accepted, as they came.
NumberInv ==
    /\ waiting_tx_skb # NULL =>
           /\ waiting_tx_skb.no = Len(accepted) /\ Len(accepted) > 0
           /\ accepted[Len(accepted)] =
                  [len |-> waiting_tx_skb.len,
                   tsc |-> waiting_tx_ts_capture_mode]
    /\ ongoing_tx_skb # NULL =>
           /\ ongoing_tx_skb.no = IF waiting_tx_skb = NULL
                                    THEN Len(accepted) ELSE Len(accepted) - 1
           /\ ongoing_tx_skb.no > 0
           /\ accepted[ongoing_tx_skb.no] =
                  [len |-> ongoing_tx_skb.len,
                   tsc |-> ongoing_tx_ts_capture_mode]

\* The MAC is between two frames or inside the one it has not yet handed on.
FrameInv == frame = NoFrame \/ (frame.bytes > 0 /\ frame.no = Len(handed) + 1)

\* The data chunks the device has not had come first, each begins where the
\* one before it ends, the first where the MAC is, and the last ends where
\* the driver is.
ChainInv(buf, n) ==
    /\ \A i \in n + 1 .. Len(buf) :
           buf[i].dv => /\ StartOf(buf[i]) = StreamAt(buf, n, i - 1)
                        /\ i - 1 = n \/ buf[i - 1].dv
                        /\ Truthful(buf[i])
    /\ \A i \in n .. Len(buf) :
           /\ i = n \/ buf[i].dv
           /\ i = Len(buf) \/ ~buf[i + 1].dv
           => StreamAt(buf, n, i) = DriverAt

StreamInv ==
    /\ NumberInv /\ FrameInv /\ FramingRespected
    /\ pc = "prepare" => \A i \in 1 .. Len(tx_buf) : tx_buf[i].dv
    /\ pc = "process" => Len(rx_buf) = Len(tx_buf)
    /\ pc # "exited" => ChainInv(tx_buf, Len(rx_buf))

\* Filling up for the receive side keeps the chunks there are.
LEMMA FillKeeps ==
    ASSUME NEW s \in Seq(Chunk), NEW r \in Nat
    PROVE  \A i \in 1 .. Len(s) : Filled(s, r)[i] = s[i]
  <1>1. CASE Len(s) >= r
    BY <1>1 DEF Filled
  <1>2. CASE ~(Len(s) >= r)
    <2>1. r - Len(s) \in Nat /\ Len(s) \in Nat
      BY <1>2, LenProperties
    <2>2. Filled(s, r) = s \o Empty(r - Len(s))
      BY <1>2 DEF Filled
    <2>3. Empty(r - Len(s)) \in Seq(Chunk)
      BY <2>1, EmptyChunksType
    <2> QED BY <2>1, <2>2, <2>3, ConcatProperties
  <1> QED BY <1>1, <1>2

\* With empty buffers the driver and the MAC are at the same place.
LEMMA ChainAtRest ==
    ASSUME NEW n \in Nat, NEW buf, Len(buf) = n
    PROVE  ChainInv(buf, n) <=> MacAt = DriverAt
  BY DEF ChainInv, StreamAt

\* In the initial state nothing has been accepted, cut or received.
LEMMA StreamInit == Init => StreamInv
  <1> SUFFICES ASSUME Init PROVE StreamInv
    OBVIOUS
  <1>1. Len(<<>>) = 0
    BY EmptySeq
  <1>2. MacAt = DriverAt
    BY <1>1 DEF Init, DevInit, MacAt, DriverAt, CutFrames, NoFrame
  <1>3. ChainInv(tx_buf, Len(rx_buf))
    BY <1>1, <1>2, ChainAtRest DEF Init
  <1> QED BY <1>1, <1>3
          DEF Init, DevInit, StreamInv, NumberInv, FrameInv, FramingRespected

\* The place in the stream that a chunk, a transfer and the driver stand for
\* depends on these variables only.
streamVars == <<tx_buf, rx_buf, ongoing_tx_skb, tx_skb_offset, waitingVars,
                ongoing_tx_ts_capture_mode, accepted, frame, handed, txpe>>

\* Steps that touch none of them, and do not enter the cutting or the
\* processing of a transfer with chunks in the buffer.
LEMMA StreamQuiet ==
    ASSUME TypeInv, StreamInv, UNCHANGED streamVars,
           pc' = "prepare" => pc = "prepare" \/ tx_buf = <<>>,
           pc' = "process" => pc = "process",
           pc = "exited" => pc' = "exited"
    PROVE  StreamInv'
  <1> USE DEF streamVars
  <1>1. NumberInv' /\ FrameInv' /\ FramingRespected'
    BY DEF StreamInv, NumberInv, FrameInv, FramingRespected
  <1>2. pc' # "exited" => ChainInv(tx_buf, Len(rx_buf))'
    <2>1. DriverAt' = DriverAt /\ MacAt' = MacAt
      BY DEF DriverAt, MacAt, CutFrames
    <2>2. \A c : Truthful(c)' <=> Truthful(c)
      BY DEF Truthful
    <2>3. tx_buf' = tx_buf /\ rx_buf' = rx_buf
      OBVIOUS
    <2> QED BY <2>1, <2>2, <2>3
            DEF StreamInv, ChainInv, StreamAt, StartOf, EndOf
  <1>3. pc' = "prepare" => \A i \in 1 .. Len(tx_buf') : tx_buf'[i].dv
    BY EmptySeq DEF StreamInv
  <1> QED BY <1>1, <1>2, <1>3 DEF StreamInv

\* A new frame is accepted only into an empty mailbox: it is the last one.
LEMMA StreamStore ==
    ASSUME TypeInv, StreamInv, XmitStore
    PROVE  StreamInv'
  <1>1. /\ accepted \in Seq(StackFrame) /\ Len(accepted) \in Nat
        /\ pending \in StackFrame /\ waiting_tx_skb = NULL
    BY LenProperties DEF TypeInv, TypeOK, MailboxInv, XmitStore
  <1>2. /\ Len(accepted') = Len(accepted) + 1
        /\ accepted'[Len(accepted) + 1] = pending
        /\ \A k \in 1 .. Len(accepted) : accepted'[k] = accepted[k]
    BY <1>1, AppendProperties DEF XmitStore
  <1>3. /\ waiting_tx_skb' = [no |-> Len(accepted) + 1, len |-> pending.len]
        /\ waiting_tx_ts_capture_mode' = pending.tsc
        /\ UNCHANGED <<tx_buf, rx_buf, ongoing_tx_skb, tx_skb_offset, frame,
                       ongoing_tx_ts_capture_mode, handed, txpe, pc>>
    BY DEF XmitStore
  <1>4. waiting_tx_skb' # NULL /\ waiting_tx_skb'.no = Len(accepted) + 1
        /\ waiting_tx_skb'.len = pending.len
    <2>1. waiting_tx_skb'.no = Len(accepted) + 1 /\ Len(accepted) + 1 # 0
          /\ waiting_tx_skb'.len = pending.len
      BY <1>1, <1>3
    <2> QED BY <2>1 DEF NULL
  <1>5. NumberInv'
    <2>1. pending = [len |-> pending.len, tsc |-> pending.tsc]
      BY <1>1 DEF StackFrame
    <2>2. ongoing_tx_skb # NULL =>
             /\ ongoing_tx_skb.no = Len(accepted) /\ ongoing_tx_skb.no > 0
             /\ accepted[ongoing_tx_skb.no] =
                   [len |-> ongoing_tx_skb.len,
                    tsc |-> ongoing_tx_ts_capture_mode]
      BY <1>1 DEF StreamInv, NumberInv
    <2>3. ongoing_tx_skb # NULL =>
             accepted'[ongoing_tx_skb.no] = accepted[ongoing_tx_skb.no]
      BY <1>1, <1>2, <2>2
    <2>4. Len(accepted) + 1 > 0 /\ Len(accepted') - 1 = Len(accepted)
      BY <1>1, <1>2
    <2> QED BY <1>2, <1>3, <1>4, <2>1, <2>2, <2>3, <2>4 DEF NumberInv
  <1>6. CutFrames' = CutFrames
    <2>1. Len(accepted) + 1 - 1 = Len(accepted)
      BY <1>1
    <2> QED BY <1>1, <1>3, <1>4, <2>1 DEF CutFrames
  <1>7. \A c : Truthful(c) => Truthful(c)'
    <2> SUFFICES ASSUME NEW c, Truthful(c) PROVE Truthful(c)'
      OBVIOUS
    <2>1. c.no \in 1 .. Len(accepted) /\ c.no \in 1 .. Len(accepted')
      BY <1>1, <1>2 DEF Truthful
    <2> QED BY <1>2, <2>1 DEF Truthful
  <1>8. pc' # "exited" => ChainInv(tx_buf, Len(rx_buf))'
    BY <1>3, <1>6, <1>7
       DEF StreamInv, ChainInv, StreamAt, MacAt, DriverAt, StartOf, EndOf
  <1> QED BY <1>3, <1>5, <1>8 DEF StreamInv, FrameInv, FramingRespected

\* Taking the waiting skb moves nothing in the stream.
LEMMA StreamTake ==
    ASSUME TypeInv, StreamInv, PrepareTake
    PROVE  StreamInv'
  <1>1. /\ ongoing_tx_skb = NULL /\ waiting_tx_skb # NULL
        /\ ongoing_tx_skb' = waiting_tx_skb /\ waiting_tx_skb' = NULL
        /\ ongoing_tx_ts_capture_mode' = waiting_tx_ts_capture_mode
        /\ UNCHANGED <<tx_buf, rx_buf, tx_skb_offset, accepted, frame, handed,
                       txpe, pc>>
    BY DEF PrepareTake
  <1>2. NumberInv'
    BY <1>1 DEF StreamInv, NumberInv
  <1>3. DriverAt' = DriverAt
    BY <1>1 DEF DriverAt, CutFrames
  <1>4. pc' # "exited" => ChainInv(tx_buf, Len(rx_buf))'
    BY <1>1, <1>3
       DEF StreamInv, ChainInv, StreamAt, MacAt, StartOf, EndOf, Truthful
  <1> QED BY <1>1, <1>2, <1>4 DEF StreamInv, FrameInv, FramingRespected

\* A new chunk begins where the driver is and takes it to its end.
LEMMA StreamAdd ==
    ASSUME TypeInv, StreamInv, PrepareAdd
    PROVE  StreamInv'
  <1>1. /\ LengthToCopy \in Nat /\ LengthToCopy > 0
        /\ tx_skb_offset + LengthToCopy <= ongoing_tx_skb.len
        /\ ongoing_tx_skb.no \in Nat /\ ongoing_tx_skb.len \in Nat
        /\ tx_skb_offset \in Nat /\ ongoing_tx_skb # NULL
    BY ChunkSize, SkbLength DEF TypeInv, TypeOK, SkbInv, PrepareAdd
  <1>2. DataChunk \in Chunk
    <2>1. TsModes \cup {0} \subseteq Nat
      BY TxPathAssumption
    <2> QED BY <1>1, <2>1 DEF DataChunk, Chunk, TypeInv, TypeOK, ChunkTsc,
                              EndValid
  <1>3. PICK c \in Chunk : c = DataChunk
    BY <1>2
  <1>4. /\ c.dv = TRUE /\ c.no = ongoing_tx_skb.no /\ c.off = tx_skb_offset
        /\ c.cnt = LengthToCopy /\ (c.sv <=> tx_skb_offset = 0)
        /\ (c.ev <=> EndValid)
        /\ EndValid => c.tsc = ongoing_tx_ts_capture_mode
    BY <1>3 DEF DataChunk, ChunkTsc
  <1>5. PICK s \in Seq(Chunk) : s = tx_buf
    BY DEF TypeInv, TypeOK
  <1>6. /\ Len(s) \in Nat /\ tx_buf' = Append(s, c)
        /\ Len(tx_buf') = Len(s) + 1 /\ tx_buf'[Len(s) + 1] = c
        /\ \A i \in 1 .. Len(s) : tx_buf'[i] = s[i] /\ s[i].dv
    <2>1. tx_buf' = Append(s, c) /\ \A i \in 1 .. Len(s) : s[i].dv
      BY <1>3, <1>5 DEF PrepareAdd, StreamInv
    <2> QED BY <2>1, AppendProperties, LenProperties
  <1>7. /\ rx_buf = <<>> /\ Len(rx_buf) = 0 /\ pc = "prepare"
        /\ UNCHANGED <<rx_buf, waitingVars, accepted, frame, handed, txpe, pc>>
        /\ tx_skb_offset' = IF EndValid THEN 0 ELSE tx_skb_offset + LengthToCopy
        /\ ongoing_tx_skb' = IF EndValid THEN NULL ELSE ongoing_tx_skb
        /\ ongoing_tx_ts_capture_mode' =
               IF EndValid THEN 0 ELSE ongoing_tx_ts_capture_mode
    BY EmptySeq DEF PrepareAdd, NextOffset, TypeInv, BufferInv
  <1>8. /\ ongoing_tx_skb.no = IF waiting_tx_skb = NULL
                                 THEN Len(accepted) ELSE Len(accepted) - 1
        /\ waiting_tx_skb # NULL => waiting_tx_skb.no = Len(accepted)
        /\ ongoing_tx_skb.no > 0 /\ Len(accepted) \in Nat
        /\ accepted[ongoing_tx_skb.no] =
               [len |-> ongoing_tx_skb.len, tsc |-> ongoing_tx_ts_capture_mode]
    BY <1>1, LenProperties DEF StreamInv, NumberInv, TypeInv, TypeOK
  <1>9. Truthful(c)
    <2>1. ongoing_tx_skb.no \in 1 .. Len(accepted)
      BY <1>1, <1>8
    <2> QED BY <1>1, <1>4, <1>8, <2>1 DEF Truthful, EndValid
  <1>10. StartOf(c) = DriverAt
    BY <1>1, <1>4 DEF StartOf, DriverAt, CutFrames
  <1>11. EndOf(c) = DriverAt'
    <2>1. CASE EndValid
      <3>1. CutFrames' = ongoing_tx_skb.no
        BY <1>1, <1>7, <1>8, <2>1 DEF CutFrames
      <3> QED BY <1>4, <1>7, <2>1, <3>1 DEF EndOf, DriverAt
    <2>2. CASE ~EndValid
      <3>1. CutFrames' = ongoing_tx_skb.no - 1
        BY <1>1, <1>7, <2>2 DEF CutFrames
      <3> QED BY <1>4, <1>7, <2>2, <3>1 DEF EndOf, DriverAt
    <2> QED BY <2>1, <2>2
  <1>12. NumberInv'
    BY <1>7 DEF StreamInv, NumberInv
  <1>13. \A i \in 1 .. Len(tx_buf') : tx_buf'[i].dv
    BY <1>4, <1>6
  <1>14. ChainInv(tx_buf, 0)'
    <2>1. MacAt' = MacAt
      BY <1>7 DEF MacAt
    <2>2. \A x : Truthful(x)' <=> Truthful(x)
      BY <1>7 DEF Truthful
    <2>3. ChainInv(s, 0)
      BY <1>5, <1>7 DEF StreamInv
    <2>4. StreamAt(s, 0, Len(s)) = DriverAt
      <3>1. Len(s) \in 0 .. Len(s) /\ (Len(s) = 0 \/ s[Len(s)].dv)
        BY <1>6
      <3> QED BY <2>3, <3>1 DEF ChainInv
    <2>5. ASSUME NEW i \in 0 .. Len(s)
          PROVE  StreamAt(tx_buf, 0, i)' = StreamAt(s, 0, i)
      <3>1. i = 0 \/ i \in 1 .. Len(s)
        BY <1>6
      <3> QED BY <1>6, <2>1, <3>1 DEF StreamAt, EndOf
    <2>6. ASSUME NEW i \in 1 .. Len(tx_buf')
          PROVE  /\ StartOf(tx_buf'[i]) = StreamAt(tx_buf, 0, i - 1)'
                 /\ i - 1 = 0 \/ tx_buf'[i - 1].dv
                 /\ Truthful(tx_buf[i])'
      <3>1. i - 1 \in 0 .. Len(s) /\ i - 1 \in Int
            /\ (i - 1 = 0 \/ i - 1 \in 1 .. Len(tx_buf'))
        BY <1>6
      <3>2. StreamAt(tx_buf, 0, i - 1)' = StreamAt(s, 0, i - 1)
        BY <2>5, <3>1
      <3>3. CASE i = Len(s) + 1
        <4>1. i - 1 = Len(s) /\ tx_buf'[i] = c
          BY <1>6, <3>3
        <4>2. Truthful(tx_buf[i])'
          BY <1>9, <2>2, <4>1 DEF Truthful
        <4> QED BY <1>10, <1>13, <2>4, <3>1, <3>2, <4>1, <4>2
      <3>4. CASE i # Len(s) + 1
        <4>1. i \in 0 + 1 .. Len(s) /\ tx_buf'[i] = s[i] /\ s[i].dv
          BY <1>6, <3>4
        <4>2. StartOf(s[i]) = StreamAt(s, 0, i - 1) /\ Truthful(s[i])
          BY <2>3, <4>1 DEF ChainInv
        <4>3. Truthful(tx_buf[i])'
          BY <1>7, <4>1, <4>2 DEF Truthful
        <4> QED BY <1>13, <3>1, <3>2, <4>1, <4>2, <4>3
      <3> QED BY <3>3, <3>4
    <2>7. ASSUME NEW i \in 0 .. Len(tx_buf'),
                 i = Len(tx_buf') \/ ~tx_buf'[i + 1].dv
          PROVE  StreamAt(tx_buf, 0, i)' = DriverAt'
      <3>1. i = Len(s) + 1
        <4>1. i # Len(tx_buf') => i + 1 \in 1 .. Len(tx_buf')
          BY <1>6
        <4> QED BY <1>6, <1>13, <2>7, <4>1
      <3>2. i # 0 /\ tx_buf'[i] = c
        BY <1>6, <3>1
      <3>3. StreamAt(tx_buf, 0, i)' = EndOf(tx_buf'[i])
        BY <3>2 DEF StreamAt
      <3> QED BY <1>11, <3>2, <3>3
    <2>8. 0 + 1 = 1
      OBVIOUS
    <2>9. (\A i \in 0 + 1 .. Len(tx_buf) :
               tx_buf[i].dv => /\ StartOf(tx_buf[i]) = StreamAt(tx_buf, 0, i - 1)
                               /\ i - 1 = 0 \/ tx_buf[i - 1].dv
                               /\ Truthful(tx_buf[i]))'
      BY <2>6, <2>8
    <2>10. \A i \in 0 .. Len(tx_buf') :
               /\ i = 0 \/ tx_buf'[i].dv
               /\ i = Len(tx_buf') \/ ~tx_buf'[i + 1].dv
               => StreamAt(tx_buf, 0, i)' = DriverAt'
      BY <2>7
    <2> QED BY <2>9, <2>10 DEF ChainInv
  <1> QED BY <1>7, <1>12, <1>13, <1>14
          DEF StreamInv, FrameInv, FramingRespected

\* What is filled up for the receive side is no part of the stream.
LEMMA StreamFill ==
    ASSUME TypeInv, StreamInv, FillForRx \/ IntClear
    PROVE  StreamInv'
  <1>1. /\ rx_buf = <<>> /\ Len(rx_buf) = 0 /\ rx_buf' = rx_buf
        /\ pc' \in {"int_clear", "wait", "xfer"} /\ pc # "exited"
        /\ UNCHANGED <<ongoing_tx_skb, tx_skb_offset, waitingVars, frame,
                       ongoing_tx_ts_capture_mode, accepted, handed, txpe>>
    BY EmptySeq DEF FillForRx, IntClear, TypeInv, BufferInv
  <1>2. PICK s \in Seq(Chunk) : s = tx_buf
    BY DEF TypeInv, TypeOK
  <1>3. Len(s) \in Nat /\ rx_chunks_available \in Nat
    BY LenProperties DEF TypeInv, TypeOK
  <1>4. PICK t \in Seq(Chunk) : t = tx_buf'
    BY TypeFill DEF TypeInv, TypeOK
  <1>5. /\ Len(t) \in Nat /\ Len(t) >= Len(s)
        /\ \A i \in 1 .. Len(s) : t[i] = s[i]
        /\ \A i \in 1 .. Len(t) : t[i].dv => i <= Len(s)
    <2>1. CASE FillForRx
      <3>1. tx_buf' = Filled(s, rx_chunks_available)
        BY <1>2, <2>1 DEF FillForRx, NeededEmptyChunks, Filled
      <3>2. t = Filled(s, rx_chunks_available)
        BY <1>4, <3>1
      <3>3. PICK r \in Nat : r = rx_chunks_available
        BY <1>3
      <3>4. /\ Len(Filled(s, r)) = IF Len(s) >= r THEN Len(s) ELSE r
            /\ \A i \in 1 .. Len(Filled(s, r)) : Filled(s, r)[i].dv => i <= Len(s)
        BY FillProperties
      <3>5. \A i \in 1 .. Len(s) : Filled(s, r)[i] = s[i]
        BY FillKeeps
      <3> QED BY <1>3, <3>2, <3>3, <3>4, <3>5
    <2>2. CASE IntClear
      <3>1. CASE tx_buf = <<>>
        <4>1. t = Empty(1) /\ Len(s) = 0
          BY <1>2, <1>4, <2>2, <3>1, EmptySeq DEF IntClear
        <4>a. 1 \in Nat /\ 1 \in 1 .. 1
          OBVIOUS
        <4>2. Len(Empty(1)) = 1 /\ Empty(1)[1] = EmptyChunk
          BY <4>a, EmptyChunksType
        <4>3. ~t[1].dv /\ Len(t) = 1
          BY <4>1, <4>2 DEF EmptyChunk
        <4> QED BY <4>1, <4>3
      <3>2. CASE tx_buf # <<>>
        BY <1>2, <1>3, <1>4, <2>2, <3>2 DEF IntClear
      <3> QED BY <3>1, <3>2
    <2> QED BY <2>1, <2>2
  <1>6. DriverAt' = DriverAt /\ MacAt' = MacAt
    BY <1>1 DEF DriverAt, MacAt, CutFrames
  <1>7. \A x : Truthful(x)' <=> Truthful(x)
    BY <1>1 DEF Truthful
  <1>8. ChainInv(s, 0)
    BY <1>1, <1>2 DEF StreamInv
  <1>9. ASSUME NEW i \in 0 .. Len(s)
        PROVE  StreamAt(tx_buf, 0, i)' = StreamAt(s, 0, i)
    <2>1. i = 0 \/ i \in 1 .. Len(s)
      BY <1>3
    <2> QED BY <1>4, <1>5, <1>6, <2>1 DEF StreamAt
  <1>10. ASSUME NEW i \in 1 .. Len(t), t[i].dv
         PROVE  /\ StartOf(t[i]) = StreamAt(tx_buf, 0, i - 1)'
                /\ i - 1 = 0 \/ t[i - 1].dv
                /\ Truthful(t[i])'
    <2>1. /\ i \in 1 .. Len(s) /\ i \in 0 + 1 .. Len(s) /\ t[i] = s[i]
          /\ i - 1 \in 0 .. Len(s) /\ (i - 1 = 0 \/ i - 1 \in 1 .. Len(s))
      BY <1>3, <1>5, <1>10
    <2>2. /\ StartOf(s[i]) = StreamAt(s, 0, i - 1) /\ Truthful(s[i])
          /\ i - 1 = 0 \/ s[i - 1].dv
      BY <1>8, <1>10, <2>1 DEF ChainInv
    <2>3. i - 1 = 0 \/ t[i - 1].dv
      BY <1>5, <2>1, <2>2
    <2>4. StreamAt(tx_buf, 0, i - 1)' = StreamAt(s, 0, i - 1)
      BY <1>9, <2>1
    <2> QED BY <1>7, <2>1, <2>2, <2>3, <2>4
  <1>11. ASSUME NEW i \in 0 .. Len(t), i = 0 \/ t[i].dv,
                i = Len(t) \/ ~t[i + 1].dv
         PROVE  StreamAt(tx_buf, 0, i)' = DriverAt'
    <2>1. i \in 0 .. Len(s) /\ (i = 0 \/ (i \in 1 .. Len(s) /\ s[i].dv))
      BY <1>3, <1>5, <1>11
    <2>2. i = Len(s) \/ (i + 1 \in 1 .. Len(s) /\ i # Len(t))
      BY <1>3, <1>5, <2>1
    <2>3. i = Len(s) \/ ~s[i + 1].dv
      BY <1>5, <1>11, <2>2
    <2>4. StreamAt(s, 0, i) = DriverAt
      BY <1>8, <2>1, <2>3 DEF ChainInv
    <2> QED BY <1>6, <1>9, <2>1, <2>4
  <1>12. ChainInv(tx_buf, 0)'
    <2>1. 0 + 1 = 1
      OBVIOUS
    <2>2. \A i \in 0 + 1 .. Len(tx_buf') :
             tx_buf'[i].dv => /\ StartOf(tx_buf'[i]) = StreamAt(tx_buf, 0, i - 1)'
                              /\ i - 1 = 0 \/ tx_buf'[i - 1].dv
                              /\ Truthful(tx_buf[i])'
      <3>1. \A i \in 1 .. Len(t) : Truthful(t[i])' => Truthful(tx_buf[i])'
        BY <1>4
      <3> QED BY <1>4, <1>10, <2>1, <3>1
    <2>3. \A i \in 0 .. Len(tx_buf') :
             /\ i = 0 \/ tx_buf'[i].dv
             /\ i = Len(tx_buf') \/ ~tx_buf'[i + 1].dv
             => StreamAt(tx_buf, 0, i)' = DriverAt'
      BY <1>4, <1>11
    <2> QED BY <2>2, <2>3 DEF ChainInv
  <1>13. NumberInv' /\ FrameInv' /\ FramingRespected'
    BY <1>1 DEF StreamInv, NumberInv, FrameInv, FramingRespected
  <1> QED BY <1>1, <1>12, <1>13 DEF StreamInv

\* What the MAC makes of a data chunk that begins where the MAC is: the chunk
\* continues its frame, and the MAC is then where the chunk ends.  A frame it
\* hands on is the accepted one.
LEMMA MacTakes ==
    ASSUME TypeInv, FrameInv, NEW c \in Chunk, c.dv, Credits > 0,
           Truthful(c), StartOf(c) = MacAt, ExchangeChunk(c)
    PROVE  /\ txpe' = txpe /\ FrameInv' /\ MacAt' = EndOf(c)
           /\ \/ ~c.ev /\ handed' = handed
              \/ /\ c.ev /\ Len(handed) < Len(accepted)
                 /\ handed' = Append(handed, accepted[Len(handed) + 1])
  <1>1. /\ handed \in Seq([len : Nat, tsc : Nat]) /\ Len(handed) \in Nat
        /\ c.no \in Nat /\ c.off \in Nat /\ c.cnt \in Nat /\ c.tsc \in Nat
        /\ c.ev \in BOOLEAN /\ c.sv \in BOOLEAN /\ txpe \in BOOLEAN
    BY LenProperties DEF TypeInv, TypeOK, DevTypeOK, Chunk
  <1>2. c.no - 1 = Len(handed) /\ c.off = frame.bytes
    BY DEF StartOf, MacAt
  <1>3. c.no = Len(handed) + 1 /\ c.cnt > 0 /\ c.no \in 1 .. Len(accepted)
        /\ c.off + c.cnt \in Nat /\ c.off + c.cnt > 0
    BY <1>1, <1>2 DEF Truthful
  <1>4. Continues(c)
    <2>1. CASE c.sv
      BY <1>1, <1>2, <2>1 DEF Truthful, Continues, FrameInv
    <2>2. CASE ~c.sv
      <3>1. frame # NoFrame
        BY <1>2, <2>2 DEF Truthful, NoFrame
      <3> QED BY <1>2, <1>3, <2>2, <3>1 DEF Continues, FrameInv
    <2> QED BY <1>1, <2>1, <2>2
  <1>5. /\ txpe' = (txpe \/ ~Continues(c))
        /\ frame' = IF c.ev THEN NoFrame
                            ELSE [no |-> c.no, bytes |-> c.off + c.cnt]
        /\ handed' = IF c.ev
                       THEN Append(handed, [len |-> c.off + c.cnt, tsc |-> c.tsc])
                       ELSE handed
    BY DEF ExchangeChunk, TakePayload
  <1>6. txpe' = txpe
    BY <1>1, <1>4, <1>5, Zenon
  <1>7. CASE ~c.ev
    <2>1. frame'.no = c.no /\ frame'.bytes = c.off + c.cnt /\ handed' = handed
      BY <1>5, <1>7
    <2>2. FrameInv'
      BY <1>3, <2>1 DEF FrameInv
    <2>3. MacAt' = EndOf(c)
      BY <1>2, <1>7, <2>1 DEF MacAt, EndOf
    <2> QED BY <1>6, <1>7, <2>1, <2>2, <2>3
  <1>8. CASE c.ev
    <2>1. [len |-> c.off + c.cnt, tsc |-> c.tsc] = accepted[Len(handed) + 1]
      BY <1>3, <1>8 DEF Truthful
    <2>2. handed' = Append(handed, accepted[Len(handed) + 1])
          /\ frame' = NoFrame /\ frame'.bytes = 0
      BY <1>5, <1>8, <2>1 DEF NoFrame
    <2>3. Len(handed') = Len(handed) + 1
      <3>1. [len |-> c.off + c.cnt, tsc |-> c.tsc] \in [len : Nat, tsc : Nat]
        BY <1>1
      <3> QED BY <1>1, <2>1, <2>2, <3>1, AppendProperties
    <2>4. FrameInv' /\ MacAt' = EndOf(c)
      BY <1>3, <1>8, <2>2, <2>3 DEF FrameInv, MacAt, EndOf
    <2>5. Len(handed) < Len(accepted)
      <3>1. Len(accepted) \in Nat
        BY LenProperties DEF TypeInv, TypeOK
      <3> QED BY <1>1, <1>3, <3>1
    <2> QED BY <1>6, <1>8, <2>2, <2>4, <2>5
  <1> QED BY <1>1, <1>7, <1>8

\* The device takes the first chunk of those it has not had: a data chunk
\* finds a credit and the MAC at its place, and an empty one has no data
\* behind it.  Its place in the transfer is n + 1.
LEMMA NextChunk ==
    ASSUME TypeInv, CreditInv, StreamInv, Exchange
    PROVE  \E n \in Nat, s \in Seq(Chunk), c \in Chunk :
              /\ n = Len(rx_buf) /\ s = tx_buf /\ n + 1 \in 1 .. Len(s)
              /\ Len(s) \in Nat /\ c = s[n + 1] /\ ExchangeChunk(c)
              /\ ChainInv(s, n) /\ Len(rx_buf') = n + 1
              /\ c.dv => /\ Credits > 0 /\ Truthful(c)
                         /\ StartOf(c) = MacAt
  <1>1. /\ Len(rx_buf) \in Nat /\ Len(tx_buf) \in Nat
        /\ Len(rx_buf) + 1 \in 1 .. Len(tx_buf) /\ pc = "xfer"
        /\ tx_buf \in Seq(Chunk) /\ rx_buf \in Seq(Footer)
    BY LenProperties DEF TypeInv, TypeOK, Exchange
  <1>2. PICK n \in Nat, s \in Seq(Chunk) : n = Len(rx_buf) /\ s = tx_buf
    BY <1>1
  <1>3. s[n + 1] \in Chunk
    BY <1>1, <1>2, ElementOfSeq
  <1>4. PICK c \in Chunk : c = s[n + 1]
    BY <1>3
  <1>5. ExchangeChunk(c) /\ ChainInv(s, n)
    BY <1>1, <1>2, <1>4 DEF Exchange, StreamInv
  <1>6. Len(rx_buf') = n + 1
    <2>1. last' \in Footer
      BY <1>5, ExchangeType DEF TypeInv, TypeOK, DevTypeOK
    <2> QED BY <1>1, <1>2, <2>1, AppendProperties DEF Exchange
  <1>7. ASSUME c.dv PROVE Credits > 0 /\ Truthful(c) /\ StartOf(c) = MacAt
    <2>1. n + 1 \in n + 1 .. Len(s) /\ n + 1 - 1 = n /\ n + 1 - n = 1 /\ n + 1 > n
      BY <1>1, <1>2
    <2>2. StartOf(c) = StreamAt(s, n, n) /\ Truthful(c)
      BY <1>4, <1>5, <1>7, <2>1 DEF ChainInv
    <2>3. n + 1 - Len(rx_buf) <= Credits
      BY <1>1, <1>2, <1>4, <1>7, <2>1 DEF CreditInv
    <2>4. Credits \in Int
      BY MacPhyAssumption DEF Credits, TypeInv, TypeOK, DevTypeOK
    <2> QED BY <1>2, <2>1, <2>2, <2>3, <2>4 DEF StreamAt
  <1> QED BY <1>1, <1>2, <1>4, <1>5, <1>6, <1>7

\* The exchange of one chunk moves the MAC along the stream.
LEMMA StreamExchange ==
    ASSUME TypeInv, CreditInv, StreamInv, Exchange
    PROVE  StreamInv'
  <1>1. PICK n \in Nat, s \in Seq(Chunk), c \in Chunk :
              /\ n = Len(rx_buf) /\ s = tx_buf /\ n + 1 \in 1 .. Len(s)
              /\ Len(s) \in Nat /\ c = s[n + 1] /\ ExchangeChunk(c)
              /\ ChainInv(s, n) /\ Len(rx_buf') = n + 1
              /\ c.dv => /\ Credits > 0 /\ Truthful(c)
                         /\ StartOf(c) = MacAt
    BY NextChunk
  <1>2. /\ UNCHANGED <<tx_buf, ongoing_tx_skb, tx_skb_offset, waitingVars,
                       ongoing_tx_ts_capture_mode, accepted>>
        /\ pc' = IF n + 1 = Len(s) THEN "process" ELSE "xfer"
    BY <1>1 DEF Exchange
  <1>3. /\ txpe' = txpe /\ FrameInv'
        /\ MacAt' = IF c.dv THEN EndOf(c) ELSE MacAt
    <2>1. CASE c.dv
      BY <1>1, <2>1, MacTakes DEF StreamInv
    <2>2. CASE ~c.dv
      <3>1. UNCHANGED <<frame, handed, txpe>>
        BY <1>1, <2>2 DEF ExchangeChunk, TakePayload
      <3> QED BY <2>2, <3>1 DEF StreamInv, FrameInv, MacAt
    <2> QED BY <2>1, <2>2
  <1>4. DriverAt' = DriverAt /\ \A x : Truthful(x)' <=> Truthful(x)
    BY <1>2 DEF DriverAt, CutFrames, Truthful
  <1>5. ASSUME NEW i \in n + 2 .. Len(s), s[i].dv
        PROVE  /\ StartOf(s[i]) = StreamAt(s, n + 1, i - 1)'
               /\ i - 1 = n + 1 \/ s[i - 1].dv
               /\ Truthful(s[i])'
    <2>1. /\ i \in n + 1 .. Len(s) /\ i - 1 # n
          /\ (i - 1 = n + 1 => s[i - 1] = c)
      BY <1>1
    <2>2. /\ StartOf(s[i]) = StreamAt(s, n, i - 1)
          /\ s[i - 1].dv /\ Truthful(s[i])
      BY <1>1, <1>5, <2>1 DEF ChainInv
    <2>3. StartOf(s[i]) = EndOf(s[i - 1])
      BY <2>1, <2>2 DEF StreamAt
    <2>4. StreamAt(s, n + 1, i - 1)' = EndOf(s[i - 1])
      BY <1>3, <2>1, <2>2 DEF StreamAt
    <2> QED BY <1>4, <2>2, <2>3, <2>4
  <1>6. ASSUME NEW i \in n + 1 .. Len(s), i = n + 1 \/ s[i].dv,
               i = Len(s) \/ ~s[i + 1].dv
        PROVE  StreamAt(s, n + 1, i)' = DriverAt'
    <2>1. i \in n .. Len(s) /\ i # n /\ n \in n .. Len(s) /\ n # Len(s)
      BY <1>1
    <2>2. CASE s[i].dv
      <3>1. EndOf(s[i]) = DriverAt
        BY <1>1, <1>6, <2>1, <2>2 DEF ChainInv, StreamAt
      <3>2. StreamAt(s, n + 1, i)' = EndOf(s[i])
        BY <1>1, <1>3, <2>2 DEF StreamAt
      <3> QED BY <1>4, <3>1, <3>2
    <2>3. CASE ~s[i].dv
      <3>1. i = n + 1 /\ ~c.dv
        BY <1>1, <1>6, <2>3
      <3>2. StreamAt(s, n, n) = DriverAt
        BY <1>1, <2>1, <2>3, <3>1 DEF ChainInv
      <3> QED BY <1>3, <1>4, <3>1, <3>2 DEF StreamAt
    <2> QED BY <2>2, <2>3
  <1>7. ChainInv(tx_buf, Len(rx_buf))'
    <2>1. n + 1 + 1 = n + 2 /\ tx_buf' = s /\ Len(rx_buf') = n + 1
      BY <1>1, <1>2
    <2>2. \A i \in n + 1 + 1 .. Len(s) :
             s[i].dv => /\ StartOf(s[i]) = StreamAt(s, n + 1, i - 1)'
                        /\ i - 1 = n + 1 \/ s[i - 1].dv
                        /\ Truthful(s[i])'
      BY <1>5, <2>1
    <2>3. \A i \in n + 1 .. Len(s) :
             /\ i = n + 1 \/ s[i].dv
             /\ i = Len(s) \/ ~s[i + 1].dv
             => StreamAt(s, n + 1, i)' = DriverAt'
      BY <1>6
    <2>4. ChainInv(s, n + 1)'
      BY <2>2, <2>3 DEF ChainInv
    <2> QED BY <2>1, <2>4 DEF ChainInv, StreamAt, Truthful
  <1>8. NumberInv' /\ FramingRespected'
    BY <1>2, <1>3 DEF StreamInv, NumberInv, FramingRespected
  <1>9. pc' = "process" => Len(rx_buf') = Len(tx_buf')
    BY <1>1, <1>2
  <1> QED BY <1>2, <1>3, <1>7, <1>8, <1>9 DEF StreamInv

\* When the transfer has been processed nothing lies between driver and MAC.
LEMMA StreamProcess ==
    ASSUME TypeInv, CreditInv, StreamInv,
           ProcessFooter \/ ProcessOverflow \/ ProcessError
    PROVE  StreamInv'
  <1>1. /\ pc = "process" /\ rx_next \in 1 .. Len(rx_buf)
        /\ Len(rx_buf) \in Nat /\ Len(rx_buf) = Len(tx_buf)
    BY FooterCounts
       DEF ProcessFooter, ProcessOverflow, ProcessError, StreamInv
  <1>2. ~ProcessOverflow
    BY <1>1 DEF ProcessOverflow, CreditInv
  <1>3. UNCHANGED <<tx_skb_offset, waitingVars, ongoing_tx_ts_capture_mode,
                    accepted, frame, handed, txpe>>
    BY <1>2 DEF ProcessFooter, ProcessError
  <1>4. CASE ProcessError
    <2>1. pc' = "exited" /\ ongoing_tx_skb' = NULL
      BY <1>4 DEF ProcessError
    <2> QED BY <1>3, <2>1
            DEF StreamInv, NumberInv, FrameInv, FramingRespected
  <1>5. CASE ProcessFooter
    <2>1. \/ pc' = pc /\ tx_buf' = tx_buf /\ rx_buf' = rx_buf
          \/ pc' = "requeue" /\ tx_buf' = <<>> /\ rx_buf' = <<>>
      BY <1>5 DEF ProcessFooter, EndOfTransfer
    <2>2. ongoing_tx_skb' = ongoing_tx_skb
      BY <1>5 DEF ProcessFooter
    <2>3. MacAt = DriverAt /\ MacAt' = MacAt /\ DriverAt' = DriverAt
      <3>1. ChainInv(tx_buf, Len(rx_buf))
        BY <1>1 DEF StreamInv
      <3>2. MacAt = DriverAt
        BY <1>1, <3>1, ChainAtRest
      <3> QED BY <1>3, <2>2, <3>2 DEF MacAt, DriverAt, CutFrames
    <2>4. ChainInv(tx_buf, Len(rx_buf))'
      <3>1. Len(tx_buf') = Len(rx_buf') /\ Len(rx_buf') \in Nat
        BY <1>1, <2>1, EmptySeq
      <3> QED BY <2>3, <3>1 DEF ChainInv, StreamAt
    <2>5. NumberInv' /\ FrameInv' /\ FramingRespected'
      BY <1>3, <2>2 DEF StreamInv, NumberInv, FrameInv, FramingRespected
    <2>6. pc' # "prepare" /\ (pc' = "process" => Len(rx_buf') = Len(tx_buf'))
      BY <1>1, <2>1
    <2> QED BY <2>4, <2>5, <2>6 DEF StreamInv
  <1> QED BY <1>2, <1>4, <1>5

\* Every step keeps the chunks a way through the stream.
LEMMA StreamStep ==
    ASSUME TypeInv, CreditInv, StreamInv, [Next]_vars
    PROVE  StreamInv'
  <1>1. CASE XmitStore
    BY <1>1, StreamStore
  <1>2. CASE PrepareTake
    BY <1>2, StreamTake
  <1>3. CASE PrepareAdd
    BY <1>3, StreamAdd
  <1>4. CASE FillForRx \/ IntClear
    BY <1>4, StreamFill
  <1>5. CASE Exchange
    BY <1>5, StreamExchange
  <1>6. CASE ProcessFooter \/ ProcessOverflow \/ ProcessError
    BY <1>6, StreamProcess
  <1>7. CASE \/ ThreadWait \/ LoopStart \/ PrepareDone \/ QueueCheck
             \/ QueueWake \/ SpiFail \/ XmitCheck \/ XmitBusy \/ XmitWake
             \/ Isr \/ Device \/ Stack \/ XmitDrop \/ UNCHANGED vars
    <2>1. UNCHANGED streamVars
      BY <1>7 DEF streamVars, ThreadWait, LoopStart, PrepareDone, QueueCheck,
         QueueWake, SpiFail, XmitCheck, XmitBusy, XmitWake, Isr, IsrSet,
         IsrWake, Device, AssertIrq, Egress, RxArrive, RxOverflow, Stack,
         Offer, NetOpen, NetClose, XmitDrop
    <2>2. /\ pc' = "prepare" => pc = "prepare" \/ pc = "loop"
          /\ pc' = "process" => pc = "process"
          /\ pc = "exited" => pc' = "exited"
      BY <1>7 DEF ThreadWait, LoopStart, PrepareDone, QueueCheck,
         QueueWake, SpiFail, XmitCheck, XmitBusy, XmitWake, Isr, IsrSet,
         IsrWake, Device, Stack, Offer, NetOpen, NetClose, XmitDrop, Awakened
    <2>3. pc = "loop" => tx_buf = <<>>
      BY DEF TypeInv, BufferInv
    <2> QED BY <2>1, <2>2, <2>3, StreamQuiet
  <1> QED BY <1>1, <1>2, <1>3, <1>4, <1>5, <1>6, <1>7
          DEF Next, Thread, Xmit, Failure

\* Driver, chunks and MAC agree on the stream in every reachable state.
LEMMA StreamInvariant ==
    ASSUME NoOverflowRecovery PROVE Spec => []StreamInv
  <1>1. TypeInv /\ CreditInv /\ StreamInv /\ [Next]_vars => StreamInv'
    BY StreamStep
  <1> QED BY <1>1, StreamInit, TypeInvariant, CreditInvariant, PTL DEF Spec

\* The framing survives frames that span transfers or share them and credits
\* that run out in mid-frame: the MAC never sees a chunk that does not
\* continue its frame, or a start before the end (oa_tc6_add_tx_skb_to_spi_buf).
THEOREM FramesKept ==
    ASSUME NoOverflowRecovery PROVE Spec => []FramingRespected
  <1>1. StreamInv => FramingRespected
    BY DEF StreamInv
  <1> QED BY <1>1, StreamInvariant, PTL

\* A step of the model is a step of the service it promises, or none: only
\* oa_tc6_start_xmit accepts, and what the MAC hands on with the last chunk of
\* a frame is the next accepted frame, with its length and its request.
LEMMA ServiceStep ==
    ASSUME TypeInv, CreditInv, StreamInv, [Next]_vars
    PROVE  [Service!Next]_(Service!vars)
  <1> USE DEF Service!Next, Service!vars
  <1>1. CASE XmitStore
    <2>1. /\ pending \in StackFrame /\ accepted' = Append(accepted, pending)
          /\ handed' = handed
      BY <1>1 DEF XmitStore, TypeInv, TypeOK, MailboxInv
    <2> QED BY <2>1 DEF Service!Accept
  <1>2. CASE Exchange
    <2>1. accepted' = accepted
      BY <1>2 DEF Exchange
    <2>2. PICK n \in Nat, s \in Seq(Chunk), c \in Chunk :
              /\ ExchangeChunk(c)
              /\ c.dv => /\ Credits > 0 /\ Truthful(c)
                         /\ StartOf(c) = MacAt
      BY <1>2, NextChunk
    <2>3. CASE c.dv
      <3>1. \/ handed' = handed
            \/ /\ Len(handed) < Len(accepted)
               /\ handed' = Append(handed, accepted[Len(handed) + 1])
        BY <2>2, <2>3, MacTakes DEF StreamInv
      <3> QED BY <2>1, <3>1 DEF Service!Hand
    <2>4. CASE ~c.dv
      BY <2>1, <2>2, <2>4 DEF ExchangeChunk, TakePayload
    <2> QED BY <2>3, <2>4
  <1>3. CASE ~XmitStore /\ ~Exchange
    BY <1>3 DEF Next, Thread, ThreadWait, LoopStart, PrepareTake, PrepareAdd,
       PrepareDone, FillForRx, IntClear, ProcessFooter, ProcessOverflow,
       QueueCheck, QueueWake, Xmit, XmitCheck, XmitBusy, XmitWake, Isr,
       IsrSet, IsrWake, Device, AssertIrq, Egress, RxArrive, RxOverflow,
       Stack, Offer, NetOpen, NetClose, Failure, XmitDrop, SpiFail,
       ProcessError
  <1> QED BY <1>1, <1>2, <1>3

\* TxPath implements the safety of TxService: the MAC gets exactly the frames
\* oa_tc6_start_xmit accepted, each once, whole, in order and with its own
\* timestamp request, whatever fails but the recovery from a receive overflow.
THEOREM Delivery ==
    ASSUME NoOverflowRecovery PROVE Spec => InOrderDelivery
  <1>1. Init => Service!Init
    BY DEF Init, DevInit, Service!Init
  <1>2. TypeInv /\ CreditInv /\ StreamInv /\ [Next]_vars
           => [Service!Next]_(Service!vars)
    BY ServiceStep
  <1> QED BY <1>1, <1>2, TypeInvariant, CreditInvariant, StreamInvariant, PTL
          DEF Spec, InOrderDelivery, Service!SafeSpec

=============================================================================
