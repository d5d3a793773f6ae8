--------------------------- MODULE RxPath_proofs ---------------------------
(***************************************************************************)
(* Proofs about the receive path, for every set of frame lengths, length   *)
(* of a transfer and number of overflows.                                  *)
(***************************************************************************)
EXTENDS RxPath, SequenceTheorems, FiniteSetTheorems, TLAPS

-----------------------------------------------------------------------------
(* The inductive invariants.  The MAC-PHY's frame, the chunks that wait in *)
(* the buffer and the skb in the making are three views of one position in *)
(* the stream of frames; each invariant relates two neighbours.            *)

\* A position: the frame that is open and how much of it has been seen.
Nothing == [no |-> 0, off |-> 0]
Cur == [no |-> cur.no, off |-> cur.off]

\* The position before and behind a chunk.
Continues(c) == c.dv /\ (c.sv => c.ev /\ c.swo > c.ebo)
Before(c) == IF Continues(c) THEN [no |-> c.no, off |-> c.off] ELSE Nothing
After(c) ==
  IF c.sv /\ (c.ev => c.swo > c.ebo)
  THEN [no |-> c.nxt, off |-> OA_TC6_CHUNK_PAYLOAD_SIZE - c.swo]
  ELSE IF c.dv /\ ~c.ev THEN [no |-> c.no, off |-> c.off + OA_TC6_CHUNK_PAYLOAD_SIZE]
  ELSE Nothing

\* The last frame begun up to the end of a chunk, and before it.
BegunBy(c) == IF c.dv /\ ~c.sv THEN c.no ELSE c.nxt
BegunBefore(c) == IF c.sv THEN c.nxt - 1 ELSE BegunBy(c)

\* Frame numbers only leave a gap after a loss.
Near(m, n) == m <= n /\ (overflows = 0 => m = n)

Latest == IF delivered = <<>> THEN 0 ELSE delivered[Len(delivered)].no
Held == IF rx_skb = NoSkb THEN 0 ELSE 1

\* The skb in the making is that of the open frame, unless an overflow has
\* freed it.
HoldsFrame(o) == /\ rx_skb # NoSkb <=> o.no # 0 /\ ~rx_buf_overflow
                 /\ rx_skb # NoSkb => rx_skb.no = o.no

\* A frame is being sent up that is the last one begun and has bytes left.
CurInv == cur # NoFrame =>
  cur.no = sent_up /\ sent_up > 0 /\ cur.off > 0 /\ cur.off < cur.len

IndexInv == /\ pc # "process" => rx_next = 1
            /\ pc = "process" => rx_next <= Len(rx_buf)

TypeInv == TypeOK /\ Len(arrived) <= MaxFrames /\ CurInv /\ IndexInv

LossInv == overflows = 0 =>
  ~rx_ovf /\ ~rx_buf_overflow /\ \A i \in 1 .. Len(rx_buf) : ~rx_buf[i].exst

WellFormed(c) ==
  /\ ~c.dv => ~c.sv /\ ~c.ev
  /\ c.sv /\ c.ev => c.swo # c.ebo
  /\ c.sv => c.nxt > 0
  /\ Continues(c) => c.no > 0 /\ c.no = BegunBefore(c)
ChunkInv == \A i \in 1 .. Len(rx_buf) :
  WellFormed(rx_buf[i].c) /\ BegunBy(rx_buf[i].c) <= sent_up

\* Chunks in the buffer follow one another; one that does not is marked.
ChainInv == \A i \in 1 .. Len(rx_buf) - 1 :
  /\ Near(BegunBy(rx_buf[i].c), BegunBefore(rx_buf[i + 1].c))
  /\ ~rx_buf[i + 1].exst => After(rx_buf[i].c) = Before(rx_buf[i + 1].c)

\* The MAC-PHY goes on where the last chunk stopped, the thread where the
\* first one to be processed begins.
BackInv == rx_buf # <<>> =>
  /\ Near(BegunBy(rx_buf[Len(rx_buf)].c), sent_up)
  /\ ~rx_ovf => After(rx_buf[Len(rx_buf)].c) = Cur
FrontInv == pc # "exited" =>
  IF rx_buf # <<>>
  THEN /\ Near(Latest + Held, BegunBefore(rx_buf[rx_next].c))
       /\ ~rx_buf[rx_next].exst => HoldsFrame(Before(rx_buf[rx_next].c))
  ELSE /\ Near(Latest + Held, sent_up)
       /\ ~rx_ovf => HoldsFrame(Cur)

DeliveredInv == /\ overflows = 0 => \A i \in 1 .. Len(delivered) : delivered[i].no = i
                /\ Latest <= Len(arrived)

OrderInv == LossInv /\ ChunkInv /\ ChainInv /\ BackInv /\ FrontInv
            /\ DeliveredInv /\ leaked = 0

-----------------------------------------------------------------------------
(* The bytes.                                                              *)

\* A frame cut short by an overflow is told by the mark on its chunks, or no
\* skb is made of it because none of the chunks in the buffer starts a frame.
CutShort(i) == /\ Continues(rx_buf[i].c) /\ rx_buf[i].c.ev
               /\ rx_buf[i].c.off + rx_buf[i].c.ebo + 1 # arrived[rx_buf[i].c.no]
NoneStarts(n) == rx_buf_overflow /\ \A j \in rx_next .. n : ~rx_buf[j].c.sv

WholeInv ==
  /\ cur # NoFrame /\ cur.len # arrived[cur.no] => rx_ovf \/ NoneStarts(Len(rx_buf))
  /\ \A i \in rx_next .. Len(rx_buf) :
       CutShort(i) /\ ~rx_buf[i].exst => NoneStarts(i - 1)

\* All chunks of a frame but the first begin on a boundary.
Boundary(off) == \E s \in StartOffsets, k \in 1 .. off + OA_TC6_CHUNK_PAYLOAD_SIZE :
                     off = k * OA_TC6_CHUNK_PAYLOAD_SIZE - s
BoundaryInv ==
  /\ cur # NoFrame => Boundary(cur.off)
  /\ \A i \in 1 .. Len(rx_buf) :
       LET c == rx_buf[i].c IN
       /\ Continues(c) => Boundary(c.off) /\ c.off > 0
       /\ c.sv /\ c.ev /\ c.swo < c.ebo => c.ebo + 1 - c.swo = arrived[c.nxt]

SkbInv == rx_skb # NoSkb => rx_skb.ok
SkbLen(o) == rx_skb # NoSkb => rx_skb.len + TimestampSize = o.off
LenInv == pc # "exited" =>
  IF rx_buf # <<>> THEN ~rx_buf[rx_next].exst => SkbLen(Before(rx_buf[rx_next].c))
                   ELSE ~rx_ovf => SkbLen(Cur)

\* A chunk ends between the bytes of the FCS of a frame of length l.
Straddled(l) == \E off \in 0 .. l - 1 : Boundary(off) /\ l - off < FcsSize

\* The skb has the bytes of its frame; but a frame in a single chunk keeps its
\* FCS, and the size of the last piece wraps around if it is less than the FCS.
Measured(skb) ==
  LET l == arrived[skb.no]
  IN \/ skb.len = DataSize(l)
     \/ Runt(l) /\ skb.len = DataSize(l) + FcsSize
     \/ Straddled(l) /\ skb.len = DataSize(l) + 256
SizeInv == \A i \in 1 .. Len(delivered) :
  /\ delivered[i].no \in 1 .. Len(arrived)
  /\ delivered[i].ok
  /\ Measured(delivered[i])

\* No frame comes up twice or behind a later one.
RisingInv == \A i, j \in 1 .. Len(delivered) : i < j => delivered[i].no < delivered[j].no

BytesInv == WholeInv /\ BoundaryInv /\ SkbInv /\ LenInv /\ SizeInv /\ RisingInv
-----------------------------------------------------------------------------
(* What the MAC-PHY puts into a chunk.                                     *)

USE DEF devVars, vars

\* The chunks that can be sent, field by field.
LEMMA EmptyChunkType == EmptyChunk \in Chunks /\ 0 \in StartOffsets
                        /\ 0 \in 0 .. OA_TC6_CHUNK_PAYLOAD_SIZE - 1
  <1>1. 0 \in StartOffsets /\ 0 \in 0 .. OA_TC6_CHUNK_PAYLOAD_SIZE - 1 /\ 0 \in 0 .. MaxFrames
    BY RxPathAssumption
  <1> QED BY <1>1 DEF EmptyChunk, Chunks

\* What a chunk C says of a step of the MAC-PHY: it takes up the position where
\* the MAC-PHY is and leaves off where the MAC-PHY goes on.
Emitted(C) ==
  /\ C \in Chunks
  /\ rx_buf' = Append(rx_buf, [c |-> C, exst |-> ErrorsUnmasked /\ rx_ovf])
  /\ WellFormed(C)
  /\ Before(C) = Cur /\ After(C) = Cur'
  /\ BegunBefore(C) = sent_up /\ BegunBy(C) = sent_up'
  \* the bytes of the frame that ends in it, and of one that is all in it
  /\ Continues(C) /\ C.ev => C.off + C.ebo + 1 = cur.len
  /\ C.sv /\ C.ev /\ C.swo < C.ebo => C.ebo + 1 - C.swo = arrived[C.nxt]
  /\ IF C.sv THEN cur' # NoFrame => cur'.len = arrived[sent_up + 1]
             ELSE cur' # NoFrame => cur'.len = cur.len /\ cur # NoFrame

\* The frame that is begun has more bytes than its timestamp and FCS.
LEMMA BegunFrame ==
    ASSUME TypeInv, sent_up < Len(arrived)
    PROVE  /\ sent_up + 1 \in 1 .. Len(arrived) /\ sent_up + 1 \in 0 .. MaxFrames
           /\ arrived[sent_up + 1] \in Nat /\ arrived[sent_up + 1] > 12
  <1>1. /\ Len(arrived) \in Nat /\ sent_up \in 0 .. Len(arrived) /\ MaxFrames \in Nat
        /\ Len(arrived) <= MaxFrames
    BY LenProperties, RxPathAssumption DEF TypeInv, TypeOK
  <1>2. sent_up + 1 \in 1 .. Len(arrived)
    BY <1>1
  <1>3. arrived[sent_up + 1] \in FrameLens
    BY <1>2, ElementOfSeq DEF TypeInv, TypeOK
  <1>4. \A l \in FrameLens : l \in Nat /\ l > 12
    BY RxPathAssumption DEF TimestampSize, FcsSize
  <1>5. sent_up + 1 \in 0 .. MaxFrames
    BY <1>1, <1>2
  <1> QED BY <1>2, <1>3, <1>4, <1>5

LEMMA EmitShape ==
    ASSUME TypeInv, EmitIdle \/ EmitStart \/ EmitNext
    PROVE  /\ \E C \in Chunks : Emitted(C)
           /\ sent_up' \in 0 .. Len(arrived)
           /\ cur' \in [no : 0 .. MaxFrames, len : Nat, off : Nat, fd : BOOLEAN]
           /\ CurInv'
  <1> DEFINE P == OA_TC6_CHUNK_PAYLOAD_SIZE
             Entry(C) == [c |-> C, exst |-> ErrorsUnmasked /\ rx_ovf]
             CurType == [no : 0 .. MaxFrames, len : Nat, off : Nat, fd : BOOLEAN]
             len == arrived[sent_up + 1]
  <1>1. /\ P \in 1 .. 64 /\ MaxFrames \in Nat /\ Len(arrived) \in Nat
        /\ Len(arrived) <= MaxFrames /\ sent_up \in 0 .. Len(arrived)
        /\ sent_up \in 0 .. MaxFrames
        /\ cur \in CurType
        /\ \A s \in StartOffsets : s \in 0 .. P - 1
        /\ {FALSE, BadFrames} \subseteq BOOLEAN
    BY RxPathAssumption, LenProperties DEF TypeInv, TypeOK
  <1>2. NoFrame \in CurType
    BY <1>1 DEF NoFrame
  <1>3. CASE EmitIdle
    <2> DEFINE C == [EmptyChunk EXCEPT !.nxt = sent_up]
    <2>1. cur = NoFrame /\ cur' = cur /\ sent_up' = sent_up /\ rx_buf' = Append(rx_buf, Entry(C))
      BY <1>3 DEF EmitIdle
    <2> HIDE DEF C
    <2>2. C \in Chunks /\ ~C.dv /\ ~C.sv /\ ~C.ev /\ C.nxt = sent_up
      BY <1>1, EmptyChunkType DEF EmptyChunk, Chunks, C
    <2>3. WellFormed(C)
      BY <2>2 DEF WellFormed, Continues
    <2>4. Before(C) = Cur /\ After(C) = Cur'
      BY <2>1, <2>2 DEF Before, After, Continues, Cur, NoFrame, Nothing
    <2>5. BegunBefore(C) = sent_up /\ BegunBy(C) = sent_up'
      BY <2>1, <2>2 DEF BegunBefore, BegunBy
    <2>6. Emitted(C)
      BY <2>1, <2>2, <2>3, <2>4, <2>5 DEF Emitted, Continues
    <2> QED BY <1>1, <2>1, <2>2, <2>6 DEF CurInv
  <1>4. CASE EmitStart
    <2>1. PICK sbo \in StartOffsets, fd \in {FALSE, BadFrames} :
             LET ends == sbo + len <= P
             IN /\ cur' = Begun(sbo, fd)
                /\ rx_buf' = Append(rx_buf,
                     Entry([EmptyChunk EXCEPT !.dv = TRUE, !.sv = TRUE,
                            !.swo = sbo, !.nxt = sent_up + 1, !.ev = ends,
                            !.ebo = IF ends THEN sbo + len - 1 ELSE 0,
                            !.fd = ends /\ fd]))
      BY <1>4 DEF EmitStart
    <2> DEFINE ends == sbo + len <= P
               ebo == IF ends THEN sbo + len - 1 ELSE 0
               drop == ends /\ fd
               C == [EmptyChunk EXCEPT !.dv = TRUE, !.sv = TRUE, !.swo = sbo,
                        !.nxt = sent_up + 1, !.ev = ends, !.ebo = ebo, !.fd = drop]
    <2>2. cur = NoFrame /\ sent_up < Len(arrived) /\ sent_up' = sent_up + 1
      BY <1>4 DEF EmitStart
    <2>3. /\ sent_up + 1 \in 1 .. Len(arrived) /\ sent_up + 1 \in 0 .. MaxFrames
          /\ len \in Nat /\ len > 12
      BY <2>2, BegunFrame
    <2>4. rx_buf' = Append(rx_buf, Entry(C))
      BY <2>1
    <2>5. /\ sbo \in 0 .. P - 1 /\ ebo \in 0 .. P - 1
          /\ ends <=> sbo + len <= P
          /\ ends => ebo = sbo + len - 1
      BY <1>1, <2>3
    <2>6. ends \in BOOLEAN /\ drop \in BOOLEAN
      BY <1>1
    <2> HIDE DEF C, ends, ebo, drop
    <2>7. /\ C \in Chunks /\ C.dv /\ C.sv /\ (C.ev <=> ends)
          /\ C.swo = sbo /\ C.nxt = sent_up + 1 /\ C.ebo = ebo
      BY <2>3, <2>5, <2>6, EmptyChunkType DEF EmptyChunk, Chunks, C
    <2>8. cur' = IF ends THEN NoFrame
                 ELSE [no |-> sent_up + 1, len |-> len, off |-> P - sbo, fd |-> fd]
      BY <1>1, <2>1, <2>3, <2>5 DEF Begun
    <2>9. ~Continues(C)
      BY <1>1, <2>3, <2>5, <2>7 DEF Continues
    <2>10. WellFormed(C)
      BY <1>1, <2>3, <2>5, <2>7, <2>9 DEF WellFormed
    <2>11. Before(C) = Cur
      BY <2>2, <2>9 DEF Before, Cur, NoFrame, Nothing
    <2>12. After(C) = Cur'
      <3>1. CASE ends
        <4>1. C.ev /\ ~(C.swo > C.ebo)
          BY <1>1, <2>3, <2>5, <2>7, <3>1
        <4> QED BY <2>7, <2>8, <3>1, <4>1 DEF After, Cur, NoFrame, Nothing
      <3>2. CASE ~ends
        BY <2>7, <2>8, <3>2 DEF After, Cur
      <3> QED BY <3>1, <3>2
    <2>13. BegunBefore(C) = sent_up /\ BegunBy(C) = sent_up'
      BY <1>1, <2>2, <2>7 DEF BegunBefore, BegunBy
    <2>a. C.sv /\ C.ev /\ C.swo < C.ebo => C.ebo + 1 - C.swo = arrived[C.nxt]
      <3> SUFFICES ASSUME ends PROVE C.ebo + 1 - C.swo = arrived[C.nxt]
        BY <2>7
      <3>1. C.ebo = sbo + len - 1
        BY <2>5, <2>7
      <3> QED BY <2>3, <2>5, <2>7, <3>1
    <2>b. cur' # NoFrame => cur'.len = arrived[sent_up + 1]
      BY <2>8
    <2>14. Emitted(C)
      BY <2>4, <2>7, <2>9, <2>10, <2>11, <2>12, <2>13, <2>a, <2>b DEF Emitted
    <2>15. cur' \in CurType /\ CurInv'
      <3>1. CASE ends
        BY <1>2, <2>8, <3>1 DEF CurInv
      <3>2. CASE ~ends
        <4>1. P - sbo \in Nat /\ P - sbo > 0 /\ P - sbo < len
          BY <1>1, <2>3, <2>5, <3>2
        <4>2. fd \in BOOLEAN
          BY <1>1
        <4>3. cur' \in CurType
          BY <2>3, <2>8, <3>2, <4>1, <4>2
        <4> QED BY <1>1, <2>2, <2>3, <2>8, <3>2, <4>1, <4>3 DEF CurInv
      <3> QED BY <3>1, <3>2
    <2>16. sent_up' \in 0 .. Len(arrived)
      BY <2>2, <2>3, <1>1
    <2> QED BY <2>7, <2>14, <2>15, <2>16
  <1>5. CASE EmitNext
    <2> DEFINE rest == cur.len - cur.off
               D == [EmptyChunk EXCEPT !.dv = TRUE, !.no = cur.no, !.off = cur.off]
    <2>1. /\ cur # NoFrame /\ cur.no = sent_up /\ sent_up > 0 /\ cur.off > 0
          /\ cur.off < cur.len /\ cur.len \in Nat /\ cur.off \in Nat /\ cur.fd \in BOOLEAN
          /\ cur.no \in 0 .. MaxFrames
      BY <1>1, <1>5 DEF EmitNext, TypeInv, CurInv
    <2>2. /\ D \in Chunks /\ D.dv /\ ~D.sv /\ ~D.ev
          /\ D.no = cur.no /\ D.off = cur.off
      BY <2>1, EmptyChunkType DEF EmptyChunk, Chunks
    <2>3. rest \in Nat /\ rest > 0
      BY <2>1
    <2>a. CASE /\ rest > P
               /\ cur' = [cur EXCEPT !.off = @ + P]
               /\ rx_buf' = Append(rx_buf, Entry(D)) /\ sent_up' = sent_up
      <3> HIDE DEF D
      <3>1. /\ cur' \in CurType /\ cur'.off = cur.off + P /\ cur'.no = cur.no
            /\ cur'.len = cur.len /\ cur'.off < cur'.len
        <4>1. cur.off + P \in Nat /\ cur.off + P < cur.len
          <5>1. rest > P
            BY <2>a
          <5> QED BY <1>1, <2>1, <5>1
        <4> QED BY <1>1, <2>a, <4>1
      <3>2. Continues(D)
        BY <2>2 DEF Continues
      <3>3. BegunBefore(D) = sent_up /\ BegunBy(D) = sent_up'
        BY <2>1, <2>2, <2>a DEF BegunBefore, BegunBy
      <3>4. WellFormed(D)
        BY <2>1, <2>2, <3>3 DEF WellFormed
      <3>5. Before(D) = Cur /\ After(D) = Cur'
        BY <2>2, <3>1, <3>2 DEF Before, After, Cur
      <3>6. Emitted(D)
        BY <2>1, <2>2, <2>a, <3>1, <3>3, <3>4, <3>5 DEF Emitted
      <3>7. CurInv'
        <4>1. sent_up' = sent_up
          BY <2>a
        <4>2. cur'.off > 0
          BY <1>1, <2>1, <3>1
        <4> QED BY <2>1, <3>1, <4>1, <4>2 DEF CurInv
      <3> QED BY <1>1, <2>2, <2>a, <3>1, <3>6, <3>7
    <2>b. CASE /\ rest <= P
               /\ cur' = NoFrame /\ sent_up' = sent_up
               /\ rx_buf' = Append(rx_buf, Entry([D EXCEPT !.ev = TRUE, !.ebo = rest - 1,
                                                   !.fd = cur.fd]))
      <3> DEFINE C == [D EXCEPT !.ev = TRUE, !.ebo = rest - 1, !.fd = cur.fd]
      <3>1. rest - 1 \in 0 .. P - 1
        BY <1>1, <2>3, <2>b
      <3> HIDE DEF D
      <3>2. /\ C \in Chunks /\ C.dv /\ ~C.sv /\ C.ev
            /\ C.no = D.no /\ C.off = D.off /\ C.ebo = rest - 1
        BY <2>1, <2>2, <3>1 DEF Chunks
      <3>3. rx_buf' = Append(rx_buf, Entry(C))
        BY <2>b
      <3> HIDE DEF C
      <3>4. Continues(C)
        BY <3>2 DEF Continues
      <3>5. BegunBefore(C) = sent_up /\ BegunBy(C) = sent_up'
        BY <2>1, <2>2, <2>b, <3>2 DEF BegunBefore, BegunBy
      <3>6. WellFormed(C)
        BY <2>1, <2>2, <3>2, <3>5 DEF WellFormed
      <3>7. Before(C) = Cur /\ After(C) = Cur'
        BY <2>2, <2>b, <3>2, <3>4 DEF Before, After, Cur, NoFrame, Nothing
      <3>8. Emitted(C)
        BY <2>1, <2>2, <2>b, <3>2, <3>3, <3>5, <3>6, <3>7 DEF Emitted
      <3> QED BY <1>1, <1>2, <2>b, <3>2, <3>8 DEF CurInv
    <2>c. CASE /\ rest <= P /\ sent_up < Len(arrived)
               /\ sent_up' = sent_up + 1
               /\ \E sbo \in StartOffsets, fd \in {FALSE, BadFrames} :
                    /\ sbo >= rest
                    /\ len > P - sbo
                    /\ cur' = Begun(sbo, fd)
                    /\ rx_buf' = Append(rx_buf,
                          Entry([D EXCEPT !.ev = TRUE, !.ebo = rest - 1, !.fd = cur.fd,
                                          !.sv = TRUE, !.swo = sbo, !.nxt = sent_up + 1]))
      <3>1. PICK sbo \in StartOffsets, fd \in {FALSE, BadFrames} :
              /\ sbo >= rest /\ len > P - sbo /\ cur' = Begun(sbo, fd)
              /\ rx_buf' = Append(rx_buf,
                          Entry([D EXCEPT !.ev = TRUE, !.ebo = rest - 1, !.fd = cur.fd,
                                          !.sv = TRUE, !.swo = sbo, !.nxt = sent_up + 1]))
        BY <2>c
      <3> DEFINE C == [D EXCEPT !.ev = TRUE, !.ebo = rest - 1, !.fd = cur.fd,
                                !.sv = TRUE, !.swo = sbo, !.nxt = sent_up + 1]
      <3>2. rx_buf' = Append(rx_buf, Entry(C))
        BY <3>1
      <3>3. rest - 1 \in 0 .. P - 1 /\ sbo \in 0 .. P - 1
        BY <1>1, <2>3, <2>c
      <3>4. /\ sent_up + 1 \in 1 .. Len(arrived) /\ sent_up + 1 \in 0 .. MaxFrames
            /\ len \in Nat /\ len > 12
        BY <2>c, BegunFrame
      <3> HIDE DEF D
      <3>5. /\ C \in Chunks /\ C.dv /\ C.sv /\ C.ev
            /\ C.no = D.no /\ C.off = D.off /\ C.ebo = rest - 1
            /\ C.swo = sbo /\ C.nxt = sent_up + 1
        BY <2>1, <2>2, <3>3, <3>4 DEF Chunks
      <3> HIDE DEF C
      <3>6. C.swo > C.ebo
        BY <2>3, <3>1, <3>3, <3>5
      <3>7. Continues(C)
        BY <3>5, <3>6 DEF Continues
      <3>8. BegunBefore(C) = sent_up /\ BegunBy(C) = sent_up'
        BY <1>1, <2>c, <3>5 DEF BegunBefore, BegunBy
      <3>9. WellFormed(C)
        BY <2>1, <2>2, <3>3, <3>4, <3>5, <3>6, <3>8 DEF WellFormed
      <3>10. cur' = [no |-> sent_up + 1, len |-> len, off |-> P - sbo, fd |-> fd]
        BY <1>1, <3>1, <3>3, <3>4 DEF Begun
      <3>11. Before(C) = Cur /\ After(C) = Cur'
        BY <2>2, <3>5, <3>6, <3>7, <3>10 DEF Before, After, Cur
      <3>12. Emitted(C)
        BY <2>1, <2>2, <2>c, <3>2, <3>3, <3>5, <3>6, <3>8, <3>9, <3>10, <3>11 DEF Emitted
      <3>13. cur' \in CurType /\ CurInv'
        <4>1. P - sbo \in Nat /\ P - sbo > 0 /\ P - sbo < len
          BY <1>1, <3>1, <3>3, <3>4
        <4>2. fd \in BOOLEAN
          BY <1>1
        <4>3. cur' \in CurType
          BY <3>4, <3>10, <4>1, <4>2
        <4> QED BY <1>1, <2>c, <3>4, <3>10, <4>1, <4>3 DEF CurInv
      <3>14. sent_up' \in 0 .. Len(arrived)
        BY <1>1, <2>c, <3>4
      <3> QED BY <3>5, <3>12, <3>13, <3>14
    <2> QED BY <1>5, <2>a, <2>b, <2>c DEF EmitNext
  <1> QED BY <1>3, <1>4, <1>5
-----------------------------------------------------------------------------
(* Types.                                                                  *)

\* Initially nothing has arrived.
LEMMA RxTypeInit == Init => TypeInv
  <1> SUFFICES ASSUME Init PROVE TypeInv
    OBVIOUS
  <1>1. 0 \in 0 .. MaxFrames /\ 0 \in 0 .. MaxOverflows /\ 0 <= MaxFrames
    BY RxPathAssumption
  <1>2. /\ rx_buf = <<>> /\ arrived = <<>> /\ delivered = <<>>
        /\ Len(arrived) = 0
    BY EmptySeq DEF Init
  <1>3. /\ rx_buf \in Seq([c : Chunks, exst : BOOLEAN])
        /\ arrived \in Seq(FrameLens) /\ delivered \in Seq(Skbs)
    BY <1>2, EmptySeq
  <1>4. rx_skb \in Skbs /\ cur \in [no : 0 .. MaxFrames, len : Nat, off : Nat, fd : BOOLEAN]
    BY <1>1 DEF Init, NoSkb, NoFrame, Skbs
  <1>5. TypeOK
    <2>1. /\ rx_buf_overflow \in BOOLEAN /\ pc = "xfer" /\ rx_next = 1
          /\ rx_ovf \in BOOLEAN /\ overflows = 0 /\ sent_up = 0 /\ leaked = 0
      BY DEF Init
    <2> QED BY <1>1, <1>2, <1>3, <1>4, <2>1 DEF TypeOK
  <1>6. CurInv /\ IndexInv
    BY DEF Init, CurInv, IndexInv
  <1> QED BY <1>1, <1>2, <1>5, <1>6 DEF TypeInv

\* A frame arrives, or data is lost: only the MAC-PHY's own state changes.
LEMMA RxTypeDevice == TypeInv /\ (RxArrive \/ RxOverflow) => TypeInv'
  <1>1. ASSUME TypeInv, RxArrive PROVE TypeInv'
    <2>1. PICK l \in FrameLens : arrived' = Append(arrived, l)
      BY <1>1 DEF RxArrive
    <2>2. /\ arrived' \in Seq(FrameLens) /\ Len(arrived') = Len(arrived) + 1
          /\ Len(arrived) \in Nat
      BY <1>1, <2>1, AppendProperties, LenProperties DEF TypeInv, TypeOK
    <2>3. Len(arrived') <= MaxFrames /\ sent_up \in 0 .. Len(arrived')
      BY <1>1, <2>2, RxPathAssumption DEF RxArrive, TypeInv, TypeOK
    <2> QED BY <1>1, <2>2, <2>3 DEF RxArrive, TypeInv, TypeOK, CurInv, IndexInv
  <1>2. ASSUME TypeInv, RxOverflow PROVE TypeInv'
    <2>1. /\ overflows' \in 0 .. MaxOverflows /\ rx_ovf' \in BOOLEAN
          /\ UNCHANGED <<arrived, rx_skb, rx_buf_overflow, pc, rx_buf, rx_next,
                         delivered, leaked>>
      BY <1>2, RxPathAssumption DEF RxOverflow, TypeInv, TypeOK
    <2>2. /\ cur' \in [no : 0 .. MaxFrames, len : Nat, off : Nat, fd : BOOLEAN]
          /\ sent_up' \in 0 .. Len(arrived) /\ CurInv'
      <3>1. CASE cur = NoFrame /\ sent_up < Len(arrived) /\ sent_up' = sent_up + 1 /\ UNCHANGED cur
        BY <1>2, <3>1, LenProperties DEF TypeInv, TypeOK, CurInv
      <3>2. CASE UNCHANGED sent_up /\ cur' = NoFrame
        BY <1>2, <3>2, RxPathAssumption DEF TypeInv, TypeOK, CurInv, NoFrame
      <3>3. CASE /\ cur # NoFrame /\ UNCHANGED sent_up
                 /\ \E tail \in TailLens :
                      cur' = [cur EXCEPT !.len = cur.off + tail]
        <4>1. PICK tail \in TailLens : cur' = [cur EXCEPT !.len = cur.off + tail]
          BY <3>3
        <4>2. tail \in Nat /\ tail > 0
          BY RxPathAssumption
        <4>3. /\ cur \in [no : 0 .. MaxFrames, len : Nat, off : Nat, fd : BOOLEAN]
              /\ cur.no = sent_up /\ sent_up > 0 /\ cur.off > 0 /\ cur.off \in Nat
          BY <1>2, <3>3 DEF TypeInv, TypeOK, CurInv
        <4>4. cur.off + tail \in Nat /\ cur.off < cur.off + tail
          BY <4>2, <4>3
        <4>5. /\ cur' \in [no : 0 .. MaxFrames, len : Nat, off : Nat, fd : BOOLEAN]
              /\ cur'.no = cur.no /\ cur'.off = cur.off /\ cur'.len = cur.off + tail
          BY <4>1, <4>3, <4>4
        <4> QED BY <1>2, <3>3, <4>3, <4>4, <4>5 DEF TypeInv, TypeOK, CurInv
      <3> QED BY <1>2, <3>1, <3>2, <3>3 DEF RxOverflow
    <2> QED BY <1>2, <2>1, <2>2 DEF TypeInv, TypeOK, IndexInv
  <1> QED BY <1>1, <1>2

\* A chunk comes in.
LEMMA RxTypeExchange == TypeInv /\ Exchange => TypeInv'
  <1> SUFFICES ASSUME TypeInv, Exchange PROVE TypeInv'
    OBVIOUS
  <1>1. /\ EmitIdle \/ EmitStart \/ EmitNext
        /\ pc = "xfer"
        /\ UNCHANGED <<rx_ovf, overflows, arrived, rx_skb, rx_buf_overflow, pc,
                       rx_next, delivered, leaked>>
    BY DEF Exchange
  <1>2. PICK C \in Chunks : Emitted(C)
    BY <1>1, EmitShape
  <1>3. [c |-> C, exst |-> ErrorsUnmasked /\ rx_ovf] \in [c : Chunks, exst : BOOLEAN]
    OBVIOUS
  <1>4. rx_buf' \in Seq([c : Chunks, exst : BOOLEAN])
    BY <1>2, <1>3, AppendProperties DEF Emitted, TypeInv, TypeOK
  <1>5. /\ sent_up' \in 0 .. Len(arrived) /\ CurInv'
        /\ cur' \in [no : 0 .. MaxFrames, len : Nat, off : Nat, fd : BOOLEAN]
    BY <1>1, EmitShape
  <1> QED BY <1>1, <1>4, <1>5 DEF TypeInv, TypeOK, IndexInv

\* Putting bytes into an skb keeps its type and its frame.
LEMMA PutType ==
    ASSUME NEW skb \in Skbs, NEW no \in Nat, NEW off \in Nat, NEW n \in Int
    PROVE  /\ Put(skb, no, off, n) \in Skbs /\ Put(skb, no, off, n).no = skb.no
           /\ Put(skb, no, off, n).len = skb.len + U8(n)
  <1> DEFINE good == skb.ok /\ skb.no = no /\ skb.len + TimestampSize = off
  <1>1. U8(n) \in Nat
    BY DEF U8
  <1>2. good \in BOOLEAN
    OBVIOUS
  <1> HIDE DEF good
  <1>3. Put(skb, no, off, n) = [skb EXCEPT !.len = @ + U8(n), !.ok = good]
    BY DEF Put, good
  <1>4. skb.len + U8(n) \in Nat
    BY <1>1 DEF Skbs
  <1> QED BY <1>2, <1>3, <1>4 DEF Skbs

\* Bytes that continue those of the skb keep it in order.
LEMMA PutContinues ==
    ASSUME NEW skb \in Skbs, NEW no \in Nat, NEW off \in Nat, NEW n \in Int,
           skb.ok, skb.no = no, skb.len + TimestampSize = off
    PROVE  Put(skb, no, off, n).ok
  <1> DEFINE good == skb.ok /\ skb.no = no /\ skb.len + TimestampSize = off
             k == skb.len + U8(n)
  <1>1. good = TRUE
    BY DEF Skbs
  <1>2. Put(skb, no, off, n) = [skb EXCEPT !.len = k, !.ok = good]
    BY DEF Put
  <1> HIDE DEF good, k
  <1> QED BY <1>1, <1>2 DEF Skbs

\* The skb a chunk starts.
LEMMA StartedType ==
    ASSUME Chunk \in Chunks, NEW size \in Int
    PROVE  /\ Started(size) \in Skbs /\ Started(size).no = Chunk.nxt
           /\ Started(size).len = U8(size - TimestampSize)
           /\ Started(size).ok
  <1> DEFINE k == U8(size - TimestampSize)
             good == TRUE /\ Chunk.nxt = Chunk.nxt /\ 0 + TimestampSize = TimestampSize
  <1>1. k \in Nat /\ 0 + k = k /\ Chunk.nxt \in 0 .. MaxFrames
    BY DEF U8, Chunks, TimestampSize
  <1>2. good = TRUE
    BY DEF TimestampSize
  <1>3. Started(size) = [[no |-> Chunk.nxt, len |-> 0, ok |-> TRUE, drop |-> FALSE]
                            EXCEPT !.len = 0 + k, !.ok = good]
    BY DEF Started, Put
  <1> HIDE DEF k, good
  <1>4. Started(size) = [no |-> Chunk.nxt, len |-> k, ok |-> TRUE, drop |-> FALSE]
    BY <1>1, <1>2, <1>3
  <1> QED BY <1>1, <1>4 DEF k, Skbs

\* What has been put together is handed up with its number.
LEMMA SubmitType ==
    ASSUME delivered \in Seq(Skbs), NEW skb \in Skbs, Chunk \in Chunks, Submit(skb)
    PROVE  /\ delivered' \in Seq(Skbs) /\ Len(delivered') = Len(delivered) + 1
           /\ \A i \in 1 .. Len(delivered) : delivered'[i] = delivered[i]
           /\ delivered'[Len(delivered) + 1] = [skb EXCEPT !.drop = Chunk.fd]
           /\ delivered'[Len(delivered) + 1].no = skb.no
           /\ delivered'[Len(delivered) + 1].len = skb.len
           /\ delivered'[Len(delivered) + 1].ok = skb.ok
  <1> DEFINE e == [skb EXCEPT !.drop = Chunk.fd]
  <1>1. e \in Skbs /\ e.no = skb.no /\ e.len = skb.len /\ e.ok = skb.ok
    BY DEF Skbs, Chunks
  <1>2. delivered' = Append(delivered, e)
    BY DEF Submit
  <1> HIDE DEF e
  <1>3. /\ delivered' \in Seq(Skbs) /\ Len(delivered') = Len(delivered) + 1
        /\ \A i \in 1 .. Len(delivered) : delivered'[i] = delivered[i]
        /\ delivered'[Len(delivered) + 1] = e
    BY <1>1, <1>2, AppendProperties
  <1> QED BY <1>1, <1>3 DEF e

\* The chunk that is processed is one of the buffer.
LEMMA ChunkThere ==
    ASSUME TypeInv, pc = "process"
    PROVE  /\ rx_next \in 1 .. Len(rx_buf) /\ Len(rx_buf) \in Nat
           /\ rx_buf[rx_next] \in [c : Chunks, exst : BOOLEAN] /\ Chunk \in Chunks
           /\ Chunk.swo \in 0 .. OA_TC6_CHUNK_PAYLOAD_SIZE - 1
           /\ rx_buf # <<>>
  <1>1. rx_next \in 1 .. Len(rx_buf) /\ Len(rx_buf) \in Nat
    BY LenProperties DEF TypeInv, TypeOK
  <1>2. rx_buf[rx_next] \in [c : Chunks, exst : BOOLEAN]
    BY <1>1, ElementOfSeq DEF TypeInv, TypeOK
  <1>3. Chunk \in Chunks
    BY <1>2 DEF Chunk
  <1>4. Chunk.swo \in 0 .. OA_TC6_CHUNK_PAYLOAD_SIZE - 1
    <2>1. Chunk.swo \in StartOffsets
      BY <1>3 DEF Chunks
    <2> QED BY <2>1, RxPathAssumption
  <1>5. rx_buf # <<>>
    BY <1>1, EmptySeq
  <1> QED BY <1>1, <1>2, <1>3, <1>4, <1>5

\* What processing a chunk may do to the skb in the making and to what is
\* delivered has the right type.
LEMMA PayloadType ==
    ASSUME TypeInv, \/ CompleteFrame \/ FrameStart \/ FrameEnd \/ EndAndStart
                    \/ OngoingFrame \/ AllocFails
    PROVE  /\ rx_skb' \in Skbs /\ delivered' \in Seq(Skbs) /\ leaked' \in Nat
           /\ rx_buf_overflow' \in BOOLEAN /\ UNCHANGED devVars
           /\ NextChunk \/ (pc' = "exited" /\ rx_buf' = <<>> /\ rx_next' = 1)
  <1>1. pc = "process" /\ rx_buf_overflow' = FALSE /\ UNCHANGED devVars
    BY DEF CompleteFrame, FrameStart, FrameEnd, EndAndStart, OngoingFrame, AllocFails,
           Payload, HasPayload
  <1>2. /\ Chunk \in Chunks
        /\ rx_skb \in Skbs /\ delivered \in Seq(Skbs) /\ leaked \in Nat
    BY <1>1, ChunkThere DEF TypeInv, TypeOK
  <1>3. /\ Chunk.ebo \in Int /\ Chunk.swo \in Int /\ Chunk.no \in Nat /\ Chunk.off \in Nat
        /\ StartSize \in Int /\ EndSize \in Int /\ Chunk.ebo + 1 - Chunk.swo \in Int
        /\ OA_TC6_CHUNK_PAYLOAD_SIZE \in Int
    BY <1>1, <1>2, ChunkThere, RxPathAssumption DEF Chunks, StartSize, EndSize, FcsSize
  <1>4. NoSkb \in Skbs
    BY RxPathAssumption DEF NoSkb, Skbs
  <1>5. /\ Started(StartSize) \in Skbs /\ Started(Chunk.ebo + 1 - Chunk.swo) \in Skbs
        /\ Ended(rx_skb) \in Skbs
        /\ Put(rx_skb, Chunk.no, Chunk.off, OA_TC6_CHUNK_PAYLOAD_SIZE) \in Skbs
    BY <1>2, <1>3, StartedType, PutType DEF Ended
  <1>6. \A skb \in Skbs : Submit(skb) => delivered' \in Seq(Skbs)
    BY <1>2, SubmitType
  <1>7. SubmitPrevious => delivered' \in Seq(Skbs)
    BY <1>2, <1>5, <1>6 DEF SubmitPrevious
  <1>8. \A skb \in Skbs : Overwritten(skb) => leaked' \in Nat
    BY <1>2 DEF Overwritten
  <1>9. rx_skb' \in Skbs
    BY <1>4, <1>5 DEF CompleteFrame, FrameStart, FrameEnd, EndAndStart, OngoingFrame, AllocFails
  <1>10. delivered' \in Seq(Skbs) /\ leaked' \in Nat
    BY <1>2, <1>5, <1>6, <1>7, <1>8
       DEF CompleteFrame, FrameStart, FrameEnd, EndAndStart, OngoingFrame, AllocFails
  <1>11. NextChunk \/ (pc' = "exited" /\ rx_buf' = <<>> /\ rx_next' = 1)
    BY DEF CompleteFrame, FrameStart, FrameEnd, EndAndStart, OngoingFrame, AllocFails
  <1> QED BY <1>1, <1>9, <1>10, <1>11

\* Every step of the thread keeps the types; the index stays in the buffer.
LEMMA RxTypeThread ==
    TypeInv /\ (\/ TransferDone \/ SpiFail \/ OverflowStatus \/ SkipChunk \/ DeviceError
               \/ CompleteFrame \/ FrameStart \/ FrameEnd \/ EndAndStart
               \/ OngoingFrame \/ AllocFails)
      => TypeInv'
  <1>a. NoSkb \in Skbs /\ <<>> \in Seq([c : Chunks, exst : BOOLEAN])
    BY RxPathAssumption, EmptySeq DEF NoSkb, Skbs
  <1>b. ASSUME TypeInv, pc = "process", NextChunk
        PROVE  /\ pc' \in {"xfer", "process"} /\ rx_next' \in Nat \ {0}
               /\ rx_buf' \in Seq([c : Chunks, exst : BOOLEAN])
               /\ pc' = "process" => rx_next' <= Len(rx_buf')
               /\ IndexInv'
    <2>1. rx_next \in Nat \ {0} /\ Len(rx_buf) \in Nat
      BY <1>b, ChunkThere
    <2>2. CASE MoreChunks
      <3>1. rx_next' = rx_next + 1 /\ UNCHANGED <<rx_buf, pc>>
        BY <1>b, <2>2 DEF NextChunk
      <3>2. rx_next' <= Len(rx_buf) /\ rx_next' \in Nat \ {0}
        BY <2>1, <2>2, <3>1 DEF MoreChunks
      <3> QED BY <1>b, <3>1, <3>2 DEF TypeInv, TypeOK, IndexInv
    <2>3. CASE ~MoreChunks
      <3>1. rx_next' = 1 /\ rx_buf' = <<>> /\ pc' = "xfer"
        BY <1>b, <2>3 DEF NextChunk
      <3> QED BY <1>a, <3>1 DEF IndexInv
    <2> QED BY <2>2, <2>3
  <1>1. ASSUME TypeInv, TransferDone PROVE TypeInv'
    <2>1. Len(rx_buf) \in Nat /\ Len(rx_buf) # 0
      BY <1>1, LenProperties, EmptySeq DEF TransferDone, TypeInv, TypeOK
    <2> QED BY <1>1, <2>1 DEF TransferDone, TypeInv, TypeOK, CurInv, IndexInv
  <1>2. ASSUME TypeInv, SpiFail PROVE TypeInv'
    BY <1>2 DEF SpiFail, TypeInv, TypeOK, CurInv, IndexInv
  <1>3. ASSUME TypeInv, OverflowStatus \/ DeviceError PROVE TypeInv'
    <2>1. /\ rx_skb' = NoSkb /\ rx_buf' = <<>> /\ rx_next' = 1
          /\ pc' \in {"xfer", "exited"}
          /\ UNCHANGED <<cur, overflows, arrived, sent_up, delivered, leaked>>
      BY <1>3 DEF OverflowStatus, DeviceError, Freed
    <2>2. rx_ovf' \in BOOLEAN /\ rx_buf_overflow' \in BOOLEAN
      BY <1>3 DEF OverflowStatus, DeviceError, TypeInv, TypeOK
    <2> QED BY <1>3, <1>a, <2>1, <2>2 DEF TypeInv, TypeOK, CurInv, IndexInv
  <1>4. ASSUME TypeInv, SkipChunk PROVE TypeInv'
    BY <1>4, <1>b DEF SkipChunk, TypeInv, TypeOK, CurInv
  <1>5. ASSUME TypeInv, \/ CompleteFrame \/ FrameStart \/ FrameEnd \/ EndAndStart
                        \/ OngoingFrame \/ AllocFails
        PROVE  TypeInv'
    <2>1. /\ rx_skb' \in Skbs /\ delivered' \in Seq(Skbs) /\ leaked' \in Nat
          /\ rx_buf_overflow' \in BOOLEAN /\ UNCHANGED devVars
          /\ NextChunk \/ (pc' = "exited" /\ rx_buf' = <<>> /\ rx_next' = 1)
      BY <1>5, PayloadType
    <2>2. pc = "process"
      BY <1>5 DEF CompleteFrame, FrameStart, FrameEnd, EndAndStart, OngoingFrame, AllocFails,
             Payload, HasPayload
    <2>3. CASE NextChunk
      BY <1>5, <1>b, <2>1, <2>2, <2>3 DEF TypeInv, TypeOK, CurInv
    <2>4. CASE pc' = "exited" /\ rx_buf' = <<>> /\ rx_next' = 1
      BY <1>5, <1>a, <2>1, <2>2, <2>4 DEF TypeInv, TypeOK, CurInv, IndexInv
    <2> QED BY <2>1, <2>3, <2>4
  <1> QED BY <1>1, <1>2, <1>3, <1>4, <1>5

LEMMA RxTypeStep == TypeInv /\ [Next]_vars => TypeInv'
  <1>1. TypeInv /\ UNCHANGED vars => TypeInv'
    BY DEF TypeInv, TypeOK, CurInv, IndexInv
  <1> QED BY <1>1, RxTypeDevice, RxTypeExchange, RxTypeThread DEF Next, Thread

\* The receive path keeps its types; in particular the chunk that is processed
\* is always one of the buffer, whatever the MAC-PHY sends.
THEOREM RxTyping == Spec => []TypeOK
  <1>1. TypeInv => TypeOK
    BY DEF TypeInv
  <1> QED BY <1>1, RxTypeInit, RxTypeStep, PTL DEF Spec

-----------------------------------------------------------------------------
(* The order of the frames.                                                *)

\* An overflow is told to the thread: the error bits raise EXST, or there is
\* no overflow.  oa_tc6_unmask_macphy_error_interrupts unmasks them.
OverflowSeen == ErrorsUnmasked \/ MaxOverflows = 0

\* So far the thread has been told of every loss.
Told == ErrorsUnmasked \/ overflows = 0

LEMMA SeenTold == OverflowSeen /\ TypeInv => Told
  <1> SUFFICES ASSUME OverflowSeen, TypeInv PROVE Told
    OBVIOUS
  <1>1. overflows \in 0 .. MaxOverflows
    BY DEF TypeInv, TypeOK
  <1> QED BY <1>1 DEF OverflowSeen, Told

\* Initially the buffers are empty and nothing has begun.
LEMMA OrderInit == Init => OrderInv
  <1> SUFFICES ASSUME Init PROVE OrderInv
    OBVIOUS
  <1>1. /\ rx_buf = <<>> /\ Len(rx_buf) = 0 /\ delivered = <<>> /\ Len(delivered) = 0
        /\ arrived = <<>> /\ Len(arrived) = 0 /\ rx_skb = NoSkb /\ cur = NoFrame
        /\ sent_up = 0 /\ leaked = 0 /\ ~rx_ovf /\ ~rx_buf_overflow
    BY EmptySeq DEF Init
  <1>2. LossInv /\ ChunkInv /\ ChainInv /\ BackInv
    BY <1>1 DEF LossInv, ChunkInv, ChainInv, BackInv
  <1>3. Latest = 0 /\ Held = 0 /\ Cur.no = 0
    BY <1>1 DEF Latest, Held, Cur, NoFrame
  <1>4. FrontInv
    BY <1>1, <1>3 DEF FrontInv, HoldsFrame, Near
  <1>5. DeliveredInv
    BY <1>1, <1>3 DEF DeliveredInv
  <1> QED BY <1>1, <1>2, <1>4, <1>5 DEF OrderInv

\* Numbers.
LEMMA LatestType ==
    ASSUME TypeInv
    PROVE  /\ Latest \in Nat /\ Held \in {0, 1} /\ Latest + Held \in Nat
           /\ Len(delivered) \in Nat /\ delivered # <<>> => Len(delivered) > 0
           /\ sent_up \in Nat /\ sent_up <= Len(arrived) /\ Len(arrived) \in Nat
           /\ overflows \in Nat /\ Len(rx_buf) \in Nat
           /\ rx_buf # <<>> => Len(rx_buf) > 0
           /\ \A i \in 1 .. Len(rx_buf) :
                rx_buf[i].c \in Chunks /\ BegunBy(rx_buf[i].c) \in Nat
                /\ BegunBefore(rx_buf[i].c) \in Int
  <1>1. /\ Len(delivered) \in Nat /\ Len(arrived) \in Nat /\ Len(rx_buf) \in Nat
        /\ delivered # <<>> => Len(delivered) > 0
        /\ rx_buf # <<>> => Len(rx_buf) > 0
    BY LenProperties, EmptySeq DEF TypeInv, TypeOK
  <1>2. Latest \in Nat
    <2>1. CASE delivered = <<>>
      BY <2>1 DEF Latest
    <2>2. CASE delivered # <<>>
      <3>1. delivered[Len(delivered)] \in Skbs
        BY <1>1, <2>2, ElementOfSeq DEF TypeInv, TypeOK
      <3> QED BY <2>2, <3>1 DEF Latest, Skbs
    <2> QED BY <2>1, <2>2
  <1>3. Held \in {0, 1}
    BY DEF Held
  <1>4. sent_up \in Nat /\ sent_up <= Len(arrived) /\ overflows \in Nat
    BY <1>1, RxPathAssumption DEF TypeInv, TypeOK
  <1>5. ASSUME NEW i \in 1 .. Len(rx_buf)
        PROVE  rx_buf[i].c \in Chunks /\ BegunBy(rx_buf[i].c) \in Nat
               /\ BegunBefore(rx_buf[i].c) \in Int
    <2>1. rx_buf \in Seq([c : Chunks, exst : BOOLEAN])
      BY DEF TypeInv, TypeOK
    <2>2. rx_buf[i] \in [c : Chunks, exst : BOOLEAN]
      BY <2>1, ElementOfSeq
    <2>3. rx_buf[i].c \in Chunks
      BY <2>2
    <2>4. rx_buf[i].c.nxt \in Nat /\ rx_buf[i].c.no \in Nat
      BY <2>3 DEF Chunks
    <2> QED BY <2>3, <2>4 DEF BegunBy, BegunBefore
  <1> QED BY <1>1, <1>2, <1>3, <1>4, <1>5

\* A frame arrives, or data is lost and marked.
LEMMA OrderDevice ==
    ASSUME TypeInv, OrderInv, RxArrive \/ RxOverflow
    PROVE  OrderInv'
  <1>1. /\ UNCHANGED <<rx_buf, rx_next, pc, rx_skb, rx_buf_overflow, delivered, leaked>>
        /\ Latest' = Latest /\ Held' = Held /\ leaked' = 0
    BY DEF RxArrive, RxOverflow, Latest, Held, OrderInv
  <1>2. CASE RxArrive
    <2>1. UNCHANGED <<overflows, rx_ovf, sent_up, cur>> /\ Cur' = Cur
      BY <1>2 DEF RxArrive, Cur
    <2>2. Latest <= Len(arrived')
      <3>1. PICK l \in FrameLens : arrived' = Append(arrived, l)
        BY <1>2 DEF RxArrive
      <3>2. Len(arrived') = Len(arrived) + 1
        BY <3>1, AppendProperties DEF TypeInv, TypeOK
      <3>3. Latest <= Len(arrived)
        BY DEF OrderInv, DeliveredInv
      <3> QED BY <3>2, <3>3, LatestType
    <2>3. DeliveredInv'
      BY <1>1, <2>1, <2>2 DEF OrderInv, DeliveredInv
    <2>4. FrontInv'
      BY <1>1, <2>1 DEF OrderInv, FrontInv, Near, HoldsFrame
    <2>5. BackInv' /\ ChainInv'
      BY <1>1, <2>1 DEF OrderInv, BackInv, ChainInv, Near
    <2>6. LossInv' /\ ChunkInv'
      BY <1>1, <2>1 DEF OrderInv, LossInv, ChunkInv
    <2> QED BY <1>1, <2>3, <2>4, <2>5, <2>6 DEF OrderInv
  <1>3. CASE RxOverflow
    <2>1. /\ overflows' # 0 /\ rx_ovf' /\ UNCHANGED arrived
          /\ sent_up' \in Nat /\ sent_up <= sent_up'
      BY <1>3, LatestType DEF RxOverflow
    <2>2. DeliveredInv'
      BY <1>1, <2>1 DEF OrderInv, DeliveredInv
    <2>3. FrontInv'
      <3>1. CASE rx_buf # <<>>
        BY <1>1, <2>1, <3>1 DEF OrderInv, FrontInv, Near, HoldsFrame
      <3>2. CASE rx_buf = <<>>
        <4>1. pc # "exited" => Latest + Held <= sent_up'
          BY <2>1, <3>2, LatestType DEF OrderInv, FrontInv, Near
        <4> QED BY <1>1, <2>1, <3>2, <4>1 DEF FrontInv, Near
      <3> QED BY <3>1, <3>2
    <2>4. \A i \in 1 .. Len(rx_buf) : BegunBy(rx_buf[i].c) <= sent_up'
      BY <2>1, LatestType DEF OrderInv, ChunkInv
    <2>5. ChunkInv'
      BY <1>1, <2>4 DEF OrderInv, ChunkInv
    <2>6. BackInv'
      BY <1>1, <2>1, <2>4, LatestType DEF BackInv, Near
    <2>7. ChainInv'
      BY <1>1, <2>1 DEF OrderInv, ChainInv, Near
    <2>8. LossInv'
      BY <2>1 DEF LossInv
    <2> QED BY <1>1, <2>2, <2>3, <2>5, <2>6, <2>7, <2>8 DEF OrderInv
  <1> QED BY <1>2, <1>3

\* The mark of a chunk says whether data was lost.
LEMMA MarkSeen ==
    ASSUME Told, TypeInv, OrderInv
    PROVE  (ErrorsUnmasked /\ rx_ovf) \in BOOLEAN /\ (ErrorsUnmasked /\ rx_ovf <=> rx_ovf)
  <1>1. rx_ovf \in BOOLEAN
    BY DEF TypeInv, TypeOK
  <1>2. CASE ErrorsUnmasked
    BY <1>1, <1>2
  <1>3. CASE overflows = 0
    BY <1>1, <1>3 DEF OrderInv, LossInv
  <1> QED BY <1>2, <1>3 DEF Told

\* A chunk comes in and is marked if data was lost before it.
LEMMA OrderExchange ==
    ASSUME Told, TypeInv, OrderInv, Exchange
    PROVE  OrderInv'
  <1>1. /\ EmitIdle \/ EmitStart \/ EmitNext
        /\ pc = "xfer"
        /\ UNCHANGED <<rx_ovf, overflows, arrived, rx_skb, rx_buf_overflow, pc,
                       rx_next, delivered, leaked>>
    BY DEF Exchange
  <1>2. PICK C \in Chunks : Emitted(C)
    BY <1>1, EmitShape
  <1> DEFINE n == Len(rx_buf)
             mark == ErrorsUnmasked /\ rx_ovf
  <1>3. mark \in BOOLEAN /\ (mark <=> rx_ovf)
    BY MarkSeen
  <1> HIDE DEF mark
  <1> DEFINE entry == [c |-> C, exst |-> mark]
  <1>4. /\ n \in Nat /\ Len(rx_buf') = n + 1
        /\ \A i \in 1 .. n : rx_buf'[i] = rx_buf[i]
        /\ rx_buf'[n + 1] = entry /\ rx_buf' # <<>>
    <2>1. rx_buf' = Append(rx_buf, entry) /\ entry \in [c : Chunks, exst : BOOLEAN]
      BY <1>2, <1>3 DEF Emitted, mark
    <2>2. rx_buf \in Seq([c : Chunks, exst : BOOLEAN])
      BY DEF TypeInv, TypeOK
    <2>3. /\ Len(rx_buf') = n + 1 /\ rx_buf'[n + 1] = entry
          /\ \A i \in 1 .. n : rx_buf'[i] = rx_buf[i]
          /\ n \in Nat
      BY <2>1, <2>2, AppendProperties, LenProperties
    <2>4. rx_buf' # <<>>
      BY <2>3, EmptySeq
    <2> QED BY <2>3, <2>4
  <1>5. entry.c = C /\ (entry.exst <=> rx_ovf)
    BY <1>3
  <1> HIDE DEF entry
  <1>6. /\ BegunBefore(C) = sent_up /\ BegunBy(C) = sent_up' /\ WellFormed(C)
        /\ Before(C) = Cur /\ After(C) = Cur'
    BY <1>2 DEF Emitted
  <1>7. sent_up \in Nat /\ sent_up' \in Nat /\ sent_up <= sent_up'
    <2>1. sent_up \in Nat /\ sent_up' \in Nat
      BY <1>1, EmitShape, LatestType
    <2> QED BY <1>6, <2>1 DEF BegunBefore, BegunBy, Chunks
  <1>8. /\ Latest' = Latest /\ Held' = Held /\ leaked' = 0
    BY <1>1 DEF Latest, Held, OrderInv
  <1>9. LossInv'
    <2> SUFFICES ASSUME overflows' = 0
                 PROVE  /\ ~rx_ovf' /\ ~rx_buf_overflow'
                        /\ \A i \in 1 .. Len(rx_buf') : ~rx_buf'[i].exst
      BY DEF LossInv
    <2>1. overflows = 0 /\ ~rx_ovf /\ ~rx_buf_overflow
      BY <1>1 DEF OrderInv, LossInv
    <2>2. ASSUME NEW i \in 1 .. Len(rx_buf') PROVE ~rx_buf'[i].exst
      <3>1. CASE i \in 1 .. n
        BY <1>4, <2>1, <3>1 DEF OrderInv, LossInv
      <3>2. CASE i = n + 1
        BY <1>4, <1>5, <2>1, <3>2
      <3> QED BY <1>4, <3>1, <3>2
    <2> QED BY <1>1, <2>1, <2>2
  <1>10. ChunkInv'
    <2> SUFFICES ASSUME NEW i \in 1 .. Len(rx_buf')
                 PROVE  WellFormed(rx_buf'[i].c) /\ BegunBy(rx_buf'[i].c) <= sent_up'
      BY DEF ChunkInv, WellFormed, BegunBy, Continues, BegunBefore
    <2>1. CASE i \in 1 .. n
      <3>1. WellFormed(rx_buf[i].c) /\ BegunBy(rx_buf[i].c) <= sent_up
        BY <2>1 DEF OrderInv, ChunkInv
      <3>2. BegunBy(rx_buf[i].c) \in Nat
        BY <2>1, LatestType
      <3>3. BegunBy(rx_buf[i].c) <= sent_up'
        BY <1>7, <3>1, <3>2
      <3> QED BY <1>4, <2>1, <3>1, <3>3
    <2>2. CASE i = n + 1
      BY <1>4, <1>5, <1>6, <1>7, <2>2
    <2> QED BY <1>4, <2>1, <2>2
  <1>11. ASSUME rx_buf # <<>>
         PROVE  /\ n \in 1 .. n /\ Near(BegunBy(rx_buf[n].c), sent_up)
                /\ ~rx_ovf => After(rx_buf[n].c) = Cur
    BY <1>4, <1>11, LatestType DEF OrderInv, BackInv
  <1>12. ChainInv'
    <2> SUFFICES ASSUME NEW i \in 1 .. Len(rx_buf') - 1
                 PROVE  /\ Near(BegunBy(rx_buf'[i].c), BegunBefore(rx_buf'[i + 1].c))
                        /\ ~rx_buf'[i + 1].exst => After(rx_buf'[i].c) = Before(rx_buf'[i + 1].c)
      BY <1>1 DEF ChainInv, Near, BegunBy, BegunBefore, After, Before, Continues, Nothing
    <2>1. CASE i + 1 \in 1 .. n
      <3>1. i \in 1 .. n - 1 /\ i \in 1 .. n
        BY <1>4, <2>1
      <3>2. rx_buf'[i] = rx_buf[i] /\ rx_buf'[i + 1] = rx_buf[i + 1]
        BY <1>4, <2>1, <3>1
      <3> QED BY <3>1, <3>2 DEF OrderInv, ChainInv
    <2>2. CASE i = n
      <3>1. n \in 1 .. n /\ rx_buf # <<>>
        BY <1>4, <2>2, EmptySeq
      <3>2. rx_buf'[i] = rx_buf[n] /\ rx_buf'[i + 1] = entry
        BY <1>4, <2>2, <3>1
      <3> QED BY <1>5, <1>6, <1>11, <3>1, <3>2
    <2> QED BY <1>4, <2>1, <2>2
  <1>13. BackInv'
    <2>1. rx_buf'[Len(rx_buf')].c = C
      BY <1>4, <1>5
    <2>2. BegunBy(C) <= sent_up' /\ BegunBy(C) = sent_up'
      BY <1>6, <1>7
    <2> QED BY <1>6, <2>1, <2>2 DEF BackInv, Near, BegunBy, After, Cur, Nothing
  <1>14. FrontInv'
    <2>1. rx_next = 1 /\ rx_next' = 1
      BY <1>1 DEF TypeInv, IndexInv
    <2>2. CASE rx_buf = <<>>
      <3>1. n = 0
        BY <2>2, EmptySeq
      <3>2. rx_buf'[1] = entry
        BY <1>4, <3>1
      <3>3. Near(Latest + Held, sent_up) /\ (~rx_ovf => HoldsFrame(Cur))
        BY <1>1, <2>2 DEF OrderInv, FrontInv
      <3>4. Near(Latest + Held, BegunBefore(C)) /\ (~rx_ovf => HoldsFrame(Before(C)))
        BY <1>6, <3>3
      <3> QED BY <1>1, <1>4, <1>5, <1>8, <2>1, <3>2, <3>4
              DEF FrontInv, Near, HoldsFrame, BegunBefore, BegunBy, Before, Continues, Nothing
    <2>3. CASE rx_buf # <<>>
      <3>1. rx_buf'[1] = rx_buf[1]
        BY <1>4, <1>11, <2>3
      <3>2. Near(Latest + Held, BegunBefore(rx_buf[1].c))
            /\ (~rx_buf[1].exst => HoldsFrame(Before(rx_buf[1].c)))
        BY <1>1, <2>1, <2>3 DEF OrderInv, FrontInv
      <3> QED BY <1>1, <1>4, <1>8, <2>1, <3>1, <3>2
              DEF FrontInv, Near, HoldsFrame, BegunBefore, BegunBy, Before, Continues, Nothing
    <2> QED BY <2>2, <2>3
  <1>15. DeliveredInv'
    BY <1>1, <1>8 DEF OrderInv, DeliveredInv
  <1> QED BY <1>8, <1>9, <1>10, <1>12, <1>13, <1>14, <1>15 DEF OrderInv

\* The chunk that is processed, if it is not marked: the frames delivered and
\* held are those begun before it, and the skb is that of the open frame.
LEMMA AtChunk ==
    ASSUME TypeInv, OrderInv, pc = "process"
    PROVE  /\ Chunk \in Chunks /\ WellFormed(Chunk)
           /\ BegunBy(Chunk) \in Nat /\ BegunBefore(Chunk) \in Int
           /\ BegunBy(Chunk) <= sent_up /\ BegunBy(Chunk) <= Len(arrived)
           /\ Near(Latest + Held, BegunBefore(Chunk))
           /\ ~rx_buf[rx_next].exst => HoldsFrame(Before(Chunk))
  <1>1. /\ rx_next \in 1 .. Len(rx_buf) /\ Chunk \in Chunks /\ rx_buf # <<>>
        /\ Chunk = rx_buf[rx_next].c
    BY ChunkThere DEF Chunk
  <1>2. /\ WellFormed(Chunk) /\ BegunBy(Chunk) <= sent_up
    BY <1>1 DEF OrderInv, ChunkInv
  <1>3. /\ BegunBy(Chunk) \in Nat /\ BegunBefore(Chunk) \in Int
        /\ sent_up \in Nat /\ Len(arrived) \in Nat /\ sent_up <= Len(arrived)
    BY <1>1, LatestType
  <1>4. BegunBy(Chunk) <= Len(arrived)
    BY <1>2, <1>3
  <1>5. /\ Near(Latest + Held, BegunBefore(Chunk))
        /\ ~rx_buf[rx_next].exst => HoldsFrame(Before(Chunk))
    BY <1>1 DEF OrderInv, FrontInv
  <1> QED BY <1>1, <1>2, <1>3, <1>4, <1>5

LEMMA NearTransitive ==
    ASSUME NEW i \in Int, NEW j \in Int, NEW k \in Int, Near(i, j), Near(j, k)
    PROVE  Near(i, k)
  BY DEF Near

\* On to the next chunk: what is delivered and held is what had begun up to
\* the end of this one.
LEMMA OrderNext ==
    ASSUME TypeInv, TypeInv', OrderInv, pc = "process", NextChunk, UNCHANGED devVars,
           Near(Latest' + Held', BegunBy(Chunk)),
           NEW o, o = After(Chunk), HoldsFrame(o)',
           overflows = 0 => ~rx_buf_overflow',
           DeliveredInv', leaked' = 0
    PROVE  OrderInv'
  <1>1. /\ rx_next \in 1 .. Len(rx_buf) /\ Len(rx_buf) \in Nat /\ rx_buf # <<>>
        /\ Chunk = rx_buf[rx_next].c
    BY ChunkThere DEF Chunk
  <1>2. /\ Latest' + Held' \in Int /\ BegunBy(Chunk) \in Int /\ sent_up \in Int
    <2>1. BegunBy(Chunk) \in Int /\ sent_up \in Int
      BY AtChunk, LatestType
    <2>2. Latest' \in Nat
      <3>1. delivered' \in Seq(Skbs) /\ Len(delivered') \in Nat
        BY LenProperties DEF TypeInv, TypeOK
      <3>2. CASE delivered' = <<>>
        BY <3>2 DEF Latest
      <3>3. CASE delivered' # <<>>
        <4>1. Len(delivered') \in 1 .. Len(delivered')
          BY <3>1, <3>3, EmptySeq
        <4>2. delivered'[Len(delivered')] \in Skbs
          BY <3>1, <4>1, ElementOfSeq
        <4> QED BY <3>3, <4>2 DEF Latest, Skbs
      <3> QED BY <3>2, <3>3
    <2>3. Held' \in {0, 1}
      BY DEF Held
    <2> QED BY <2>1, <2>2, <2>3
  <1>3. CASE MoreChunks
    <2>1. rx_next' = rx_next + 1 /\ UNCHANGED <<rx_buf, pc>>
      BY <1>3 DEF NextChunk
    <2>2. rx_next \in 1 .. Len(rx_buf) - 1 /\ rx_next + 1 \in 1 .. Len(rx_buf)
      BY <1>1, <1>3 DEF MoreChunks
    <2> DEFINE next == rx_buf[rx_next + 1]
    <2>3. /\ Near(BegunBy(Chunk), BegunBefore(next.c))
          /\ ~next.exst => After(Chunk) = Before(next.c)
      BY <1>1, <2>2 DEF OrderInv, ChainInv
    <2>4. BegunBefore(next.c) \in Int
      BY <2>2, LatestType
    <2>5. Near(Latest' + Held', BegunBefore(next.c))
      BY <1>2, <2>3, <2>4, NearTransitive
    <2>6. rx_buf'[rx_next'] = next /\ rx_buf' # <<>>
      BY <1>1, <2>1
    <2> HIDE DEF next
    <2>7. FrontInv'
      BY <2>1, <2>3, <2>5, <2>6
         DEF FrontInv, Near, HoldsFrame, BegunBefore, BegunBy, Before, After, Continues, Nothing
    <2>8. BackInv' /\ ChainInv' /\ ChunkInv'
      BY <2>1 DEF OrderInv, BackInv, ChainInv, ChunkInv, Near, Cur
    <2>9. LossInv'
      BY <2>1 DEF OrderInv, LossInv
    <2> QED BY <2>7, <2>8, <2>9 DEF OrderInv
  <1>4. CASE ~MoreChunks
    <2>1. rx_next' = 1 /\ rx_buf' = <<>> /\ pc' = "xfer" /\ Len(rx_buf') = 0
      BY <1>4, EmptySeq DEF NextChunk
    <2>2. rx_next = Len(rx_buf)
      BY <1>1, <1>4 DEF MoreChunks
    <2>3. Near(BegunBy(Chunk), sent_up) /\ (~rx_ovf => After(Chunk) = Cur)
      BY <1>1, <2>2 DEF OrderInv, BackInv
    <2>4. Near(Latest' + Held', sent_up)
      BY <1>2, <2>3, NearTransitive
    <2>5. FrontInv'
      <3>1. Cur' = Cur
        BY DEF Cur
      <3> QED BY <2>1, <2>3, <2>4, <3>1 DEF FrontInv, Near, HoldsFrame
    <2>6. BackInv' /\ ChainInv' /\ ChunkInv'
      BY <2>1 DEF BackInv, ChainInv, ChunkInv
    <2>7. LossInv'
      BY <2>1 DEF OrderInv, LossInv
    <2> QED BY <2>5, <2>6, <2>7 DEF OrderInv
  <1> QED BY <1>3, <1>4

\* The thread goes on to process, fails, or throws the buffer away.
LEMMA OrderEnds ==
    ASSUME TypeInv, TypeInv', OrderInv,
           TransferDone \/ SpiFail \/ OverflowStatus \/ DeviceError
    PROVE  OrderInv'
  <1>1. CASE TransferDone \/ SpiFail
    <2>1. /\ UNCHANGED <<devVars, rx_skb, rx_buf_overflow, rx_buf, rx_next, delivered, leaked>>
          /\ pc = "xfer" /\ (pc' = "exited" \/ rx_buf # <<>>)
      BY <1>1 DEF TransferDone, SpiFail
    <2>2. FrontInv'
      BY <2>1 DEF OrderInv, FrontInv, Near, HoldsFrame, Latest, Held
    <2> QED BY <2>1, <2>2
            DEF OrderInv, LossInv, ChunkInv, ChainInv, BackInv, DeliveredInv, Near, Cur, Latest
  <1>2. CASE OverflowStatus
    <2>1. /\ pc = "process" /\ rx_buf[rx_next].exst
          /\ ~rx_ovf' /\ rx_buf_overflow' /\ rx_skb' = NoSkb
          /\ rx_next' = 1 /\ rx_buf' = <<>> /\ pc' = "xfer" /\ Len(rx_buf') = 0
          /\ UNCHANGED <<cur, overflows, arrived, sent_up, delivered, leaked>>
      BY <1>2, EmptySeq DEF OverflowStatus, Freed
    <2>2. overflows # 0
      BY <2>1, ChunkThere DEF OrderInv, LossInv
    <2>3. Latest <= sent_up
      <3>1. /\ Near(Latest + Held, BegunBefore(Chunk)) /\ BegunBy(Chunk) <= sent_up
            /\ BegunBefore(Chunk) \in Int /\ BegunBy(Chunk) \in Nat /\ Chunk \in Chunks
        BY <2>1, AtChunk
      <3>2. BegunBefore(Chunk) <= BegunBy(Chunk)
        BY <3>1 DEF BegunBefore, BegunBy, Chunks
      <3> QED BY <3>1, <3>2, LatestType DEF Near
    <2>4. Latest' = Latest /\ Held' = 0 /\ Latest + 0 = Latest /\ Latest' + 0 = Latest'
      BY <2>1, LatestType DEF Latest, Held
    <2>5. FrontInv'
      BY <2>1, <2>2, <2>3, <2>4 DEF FrontInv, Near, HoldsFrame, Cur
    <2>6. LossInv' /\ ChunkInv' /\ ChainInv' /\ BackInv'
      BY <2>1, <2>2 DEF LossInv, ChunkInv, ChainInv, BackInv
    <2>7. DeliveredInv' /\ leaked' = 0
      BY <2>1, <2>4 DEF OrderInv, DeliveredInv
    <2> QED BY <2>5, <2>6, <2>7 DEF OrderInv
  <1>3. CASE DeviceError
    <2>1. /\ rx_buf' = <<>> /\ pc' = "exited" /\ Len(rx_buf') = 0
          /\ UNCHANGED <<devVars, rx_buf_overflow, delivered, leaked>>
      BY <1>3, EmptySeq DEF DeviceError
    <2> QED BY <2>1 DEF OrderInv, LossInv, ChunkInv, ChainInv, BackInv, FrontInv,
                        DeliveredInv, Latest
  <1> QED BY <1>1, <1>2, <1>3

\* A chunk that is passed over changes nothing.
LEMMA OrderSkip ==
    ASSUME TypeInv, TypeInv', OrderInv, SkipChunk
    PROVE  OrderInv'
  <1>1. /\ pc = "process" /\ ~rx_buf[rx_next].exst /\ NextChunk
        /\ ~Chunk.dv \/ (rx_buf_overflow /\ ~Chunk.sv)
        /\ UNCHANGED <<devVars, rx_skb, rx_buf_overflow, delivered, leaked>>
    BY DEF SkipChunk, Skipping
  <1>2. /\ Chunk \in Chunks /\ WellFormed(Chunk) /\ HoldsFrame(Before(Chunk))
        /\ Near(Latest + Held, BegunBefore(Chunk))
    BY <1>1, AtChunk
  <1>3. ~Chunk.sv
    BY <1>1, <1>2 DEF WellFormed
  <1>4. Near(Latest' + Held', BegunBy(Chunk))
    BY <1>1, <1>2, <1>3 DEF BegunBefore, Latest, Held
  <1> DEFINE o == After(Chunk)
  <1>5. HoldsFrame(o)
    BY <1>1, <1>2, <1>3 DEF HoldsFrame, Before, After, WellFormed, Continues, Nothing
  <1> HIDE DEF o
  <1>6. PICK p : p = After(Chunk)
    OBVIOUS
  <1>7. HoldsFrame(p)
    BY <1>5, <1>6 DEF o
  <1>8. HoldsFrame(p)'
    BY <1>1, <1>7 DEF HoldsFrame
  <1>9. DeliveredInv' /\ leaked' = 0 /\ (overflows = 0 => ~rx_buf_overflow')
    BY <1>1 DEF OrderInv, DeliveredInv, Latest, LossInv
  <1> QED BY <1>1, <1>4, <1>6, <1>8, <1>9, OrderNext

\* The frame with the number after the last one delivered goes up.
LEMMA DeliveredNext ==
    ASSUME TypeInv, OrderInv, Chunk \in Chunks, NEW skb \in Skbs, Submit(skb),
           UNCHANGED devVars, Near(Latest + 1, skb.no), skb.no <= Len(arrived)
    PROVE  DeliveredInv' /\ Latest' = skb.no
  <1> DEFINE n == Len(delivered)
  <1>1. /\ delivered' \in Seq(Skbs) /\ Len(delivered') = n + 1 /\ n \in Nat
        /\ \A i \in 1 .. n : delivered'[i] = delivered[i]
        /\ delivered'[n + 1].no = skb.no
    <2>1. delivered \in Seq(Skbs) /\ n \in Nat
      BY LatestType DEF TypeInv, TypeOK
    <2> QED BY <2>1, SubmitType
  <1>2. Latest' = skb.no
    <2>1. delivered' # <<>>
      BY <1>1, EmptySeq
    <2> QED BY <1>1, <2>1 DEF Latest
  <1>3. ASSUME overflows = 0 PROVE Latest = n
    <2>1. CASE delivered = <<>>
      BY <2>1, EmptySeq DEF Latest
    <2>2. CASE delivered # <<>>
      <3>1. n \in 1 .. n
        BY <2>2, LatestType
      <3> QED BY <1>3, <2>2, <3>1 DEF OrderInv, DeliveredInv, Latest
    <2> QED BY <2>1, <2>2
  <1>4. ASSUME overflows = 0, NEW i \in 1 .. n + 1 PROVE delivered'[i].no = i
    <2>1. skb.no = n + 1
      BY <1>3, <1>4 DEF Near
    <2>2. CASE i \in 1 .. n
      BY <1>1, <1>4, <2>2 DEF OrderInv, DeliveredInv
    <2>3. CASE i = n + 1
      BY <1>1, <2>1, <2>3
    <2> QED BY <1>1, <2>2, <2>3
  <1> QED BY <1>1, <1>2, <1>4 DEF DeliveredInv

\* With a payload to process: the skb in the making is that of the frame that
\* goes on in the chunk, and there is one if no frame starts in it.
LEMMA HeldSkb ==
    ASSUME TypeInv, OrderInv, HasPayload
    PROVE  /\ ~Chunk.sv => rx_skb # NoSkb
           /\ rx_skb # NoSkb => /\ Continues(Chunk) /\ Chunk.no > 0
                                /\ rx_skb.no = Chunk.no /\ Chunk.no = BegunBefore(Chunk)
  <1>1. pc = "process" /\ ~rx_buf[rx_next].exst /\ Chunk.dv /\ (rx_buf_overflow => Chunk.sv)
    BY DEF HasPayload, Skipping
  <1>2. /\ Chunk \in Chunks /\ WellFormed(Chunk) /\ HoldsFrame(Before(Chunk))
        /\ Chunk.no \in Nat
    BY <1>1, AtChunk DEF Chunks
  <1>3. CASE Continues(Chunk)
    <2>1. Chunk.no > 0 /\ Chunk.no = BegunBefore(Chunk) /\ Chunk.no # 0
      BY <1>2, <1>3 DEF WellFormed
    <2> QED BY <1>1, <1>2, <1>3, <2>1 DEF HoldsFrame, Before
  <1>4. CASE ~Continues(Chunk)
    BY <1>1, <1>2, <1>4 DEF HoldsFrame, Before, Continues, Nothing
  <1> QED BY <1>3, <1>4

\* The frame that ends in a chunk goes up if its skb is there.
LEMMA OrderEnd ==
    ASSUME TypeInv, OrderInv, HasPayload, UNCHANGED devVars, rx_skb # NoSkb,
           Submit(Ended(rx_skb))
    PROVE  DeliveredInv' /\ Latest' = BegunBefore(Chunk)
  <1>1. /\ Chunk \in Chunks /\ Chunk.no = BegunBefore(Chunk) /\ rx_skb.no = Chunk.no
        /\ rx_skb \in Skbs /\ Near(Latest + Held, Chunk.no)
        /\ BegunBy(Chunk) <= Len(arrived) /\ BegunBy(Chunk) \in Nat /\ pc = "process"
    BY HeldSkb, AtChunk DEF HasPayload, TypeInv, TypeOK
  <1>2. Chunk.no \in Nat /\ Chunk.off \in Nat /\ EndSize \in Int
    BY <1>1 DEF Chunks, EndSize, FcsSize
  <1>3. Ended(rx_skb) \in Skbs /\ Ended(rx_skb).no = Chunk.no
    <2>1. Ended(rx_skb) \in Skbs /\ Ended(rx_skb).no = rx_skb.no
      <3>1. rx_skb \in Skbs /\ Chunk.no \in Nat /\ Chunk.off \in Nat /\ EndSize \in Int
        BY <1>1, <1>2
      <3>2. /\ Put(rx_skb, Chunk.no, Chunk.off, EndSize) \in Skbs
            /\ Put(rx_skb, Chunk.no, Chunk.off, EndSize).no = rx_skb.no
        BY <3>1, PutType
      <3> QED BY <3>2 DEF Ended
    <2> QED BY <1>1, <2>1
  <1>4. Near(Latest + 1, Chunk.no)
    BY <1>1 DEF Held
  <1>5. Chunk.no <= Len(arrived)
    <2>1. Chunk.no <= BegunBy(Chunk)
      BY <1>1, <1>2 DEF BegunBefore, BegunBy, Chunks
    <2> QED BY <1>1, <1>2, <2>1, LatestType
  <1> QED BY <1>1, <1>3, <1>4, <1>5, DeliveredNext

\* The frame that is all in one chunk goes up.
LEMMA OrderComplete ==
    ASSUME TypeInv, TypeInv', OrderInv, CompleteFrame
    PROVE  OrderInv'
  <1> DEFINE new == Started(Chunk.ebo + 1 - Chunk.swo)
  <1>1. /\ HasPayload /\ ~rx_buf_overflow' /\ UNCHANGED devVars /\ NextChunk
        /\ Chunk.sv /\ Chunk.ev /\ Chunk.swo < Chunk.ebo
        /\ Overwritten(rx_skb) /\ Submit(new) /\ rx_skb' = NoSkb
    BY DEF CompleteFrame, Payload
  <1>2. /\ Chunk \in Chunks /\ WellFormed(Chunk) /\ pc = "process"
        /\ Near(Latest + Held, BegunBefore(Chunk))
        /\ BegunBy(Chunk) <= Len(arrived)
    BY <1>1, AtChunk DEF HasPayload
  <1>3. Chunk.ebo \in Nat /\ Chunk.swo \in Nat /\ Chunk.nxt \in Nat
    BY <1>1, <1>2, ChunkThere DEF Chunks
  <1>4. ~Continues(Chunk)
    BY <1>1, <1>3 DEF Continues
  <1>5. rx_skb = NoSkb /\ Held = 0
    BY <1>1, <1>4, HeldSkb DEF Held
  <1>6. new \in Skbs /\ new.no = Chunk.nxt
    BY <1>2, <1>3, StartedType
  <1>7. BegunBy(Chunk) = Chunk.nxt /\ BegunBefore(Chunk) = Chunk.nxt - 1
    BY <1>1 DEF BegunBy, BegunBefore
  <1> HIDE DEF new
  <1>8. Near(Latest + 1, Chunk.nxt)
    BY <1>2, <1>3, <1>5, <1>7, LatestType DEF Near
  <1>9. DeliveredInv' /\ Latest' = Chunk.nxt
    BY <1>1, <1>2, <1>6, <1>7, <1>8, DeliveredNext
  <1>10. Near(Latest' + Held', BegunBy(Chunk))
    <2>1. Held' = 0 /\ Latest' + 0 = Chunk.nxt
      BY <1>1, <1>3, <1>9 DEF Held
    <2> QED BY <1>3, <1>7, <2>1 DEF Near
  <1>11. leaked' = 0
    BY <1>1, <1>5 DEF Overwritten, OrderInv
  <1>12. PICK o : o = After(Chunk)
    OBVIOUS
  <1>13. o.no = 0
    BY <1>1, <1>3, <1>12 DEF After, Nothing
  <1>14. HoldsFrame(o)'
    BY <1>1, <1>13 DEF HoldsFrame
  <1> QED BY <1>1, <1>2, <1>9, <1>10, <1>11, <1>12, <1>14, OrderNext

\* A frame starts and goes on behind the chunk; another may end before it.
LEMMA OrderStart ==
    ASSUME TypeInv, TypeInv', OrderInv, FrameStart \/ EndAndStart
    PROVE  OrderInv'
  <1> DEFINE new == Started(StartSize)
  <1>1. /\ HasPayload /\ ~rx_buf_overflow' /\ UNCHANGED devVars /\ NextChunk
        /\ Chunk.sv /\ (Chunk.ev => Chunk.swo > Chunk.ebo)
        /\ rx_skb' = new
    BY DEF FrameStart, EndAndStart, EndThenStart, Payload
  <1>2. /\ Chunk \in Chunks /\ WellFormed(Chunk) /\ pc = "process"
        /\ Near(Latest + Held, BegunBefore(Chunk))
    BY <1>1, AtChunk DEF HasPayload
  <1>3. Chunk.swo \in Nat /\ Chunk.nxt \in Nat /\ Chunk.nxt > 0 /\ StartSize \in Int
    BY <1>1, <1>2, ChunkThere, RxPathAssumption DEF Chunks, WellFormed, StartSize
  <1>4. new.no = Chunk.nxt
    BY <1>2, <1>3, StartedType
  <1> HIDE DEF new
  <1>5. rx_skb' # NoSkb /\ rx_skb'.no = Chunk.nxt /\ Held' = 1
    BY <1>1, <1>3, <1>4 DEF NoSkb, Held
  <1>6. BegunBy(Chunk) = Chunk.nxt /\ BegunBefore(Chunk) = Chunk.nxt - 1
    BY <1>1 DEF BegunBy, BegunBefore
  <1>7. DeliveredInv' /\ leaked' = 0 /\ Near(Latest', Chunk.nxt - 1) /\ Latest' \in Nat
    <2>1. CASE FrameStart
      <3>1. Overwritten(rx_skb) /\ UNCHANGED delivered /\ ~Chunk.ev
        BY <2>1 DEF FrameStart
      <3>2. rx_skb = NoSkb /\ Held = 0
        BY <1>1, <3>1, HeldSkb DEF Held, Continues
      <3>3. leaked' = 0 /\ DeliveredInv' /\ Latest' = Latest
        BY <1>1, <3>1, <3>2 DEF Overwritten, OrderInv, DeliveredInv, Latest
      <3> QED BY <1>2, <1>6, <3>2, <3>3, LatestType DEF Near
    <2>2. CASE EndAndStart
      <3>1. SubmitPrevious /\ UNCHANGED leaked
        BY <2>2 DEF EndAndStart
      <3>2. CASE rx_skb # NoSkb
        <4>1. Submit(Ended(rx_skb))
          BY <3>1, <3>2 DEF SubmitPrevious, HasPrevious
        <4>2. DeliveredInv' /\ Latest' = Chunk.nxt - 1
          BY <1>1, <1>6, <3>2, <4>1, OrderEnd
        <4> QED BY <1>3, <3>1, <4>2 DEF Near, OrderInv
      <3>3. CASE rx_skb = NoSkb
        <4>1. UNCHANGED delivered /\ Held = 0
          BY <3>1, <3>3 DEF SubmitPrevious, HasPrevious, Held
        <4>2. leaked' = 0 /\ DeliveredInv' /\ Latest' = Latest
          BY <1>1, <3>1, <4>1 DEF OrderInv, DeliveredInv, Latest
        <4> QED BY <1>2, <1>6, <4>1, <4>2, LatestType DEF Near
      <3> QED BY <3>2, <3>3
    <2> QED BY <2>1, <2>2
  <1>8. Near(Latest' + Held', BegunBy(Chunk))
    BY <1>3, <1>5, <1>6, <1>7 DEF Near
  <1>9. PICK o : o = After(Chunk)
    OBVIOUS
  <1>10. o.no = Chunk.nxt
    BY <1>1, <1>9 DEF After
  <1>11. HoldsFrame(o)'
    BY <1>1, <1>3, <1>5, <1>10 DEF HoldsFrame
  <1> QED BY <1>1, <1>2, <1>7, <1>8, <1>9, <1>11, OrderNext

\* A frame ends.
LEMMA OrderFrameEnd ==
    ASSUME TypeInv, TypeInv', OrderInv, FrameEnd
    PROVE  OrderInv'
  <1>1. /\ HasPayload /\ ~rx_buf_overflow' /\ UNCHANGED devVars /\ NextChunk
        /\ ~Chunk.sv /\ Chunk.ev /\ rx_skb # NoSkb
        /\ Submit(Ended(rx_skb)) /\ rx_skb' = NoSkb /\ UNCHANGED leaked
    BY DEF FrameEnd, Payload
  <1>2. Chunk \in Chunks /\ pc = "process" /\ BegunBy(Chunk) \in Nat
    BY <1>1, AtChunk DEF HasPayload
  <1>3. DeliveredInv' /\ Latest' = BegunBy(Chunk)
    BY <1>1, OrderEnd DEF BegunBefore
  <1>4. Near(Latest' + Held', BegunBy(Chunk))
    BY <1>1, <1>2, <1>3 DEF Near, Held
  <1>5. PICK o : o = After(Chunk)
    OBVIOUS
  <1>6. o.no = 0
    BY <1>1, <1>5 DEF After, Nothing
  <1>7. HoldsFrame(o)' /\ leaked' = 0
    BY <1>1, <1>6 DEF HoldsFrame, OrderInv
  <1> QED BY <1>1, <1>2, <1>3, <1>4, <1>5, <1>7, OrderNext

\* A frame goes on.
LEMMA OrderOngoing ==
    ASSUME TypeInv, TypeInv', OrderInv, OngoingFrame
    PROVE  OrderInv'
  <1>1. /\ HasPayload /\ ~rx_buf_overflow' /\ UNCHANGED devVars /\ NextChunk
        /\ rx_skb # NoSkb /\ Chunk.sv = Chunk.ev /\ (Chunk.sv => Chunk.swo = Chunk.ebo)
        /\ rx_skb' = Put(rx_skb, Chunk.no, Chunk.off, OA_TC6_CHUNK_PAYLOAD_SIZE)
        /\ UNCHANGED <<delivered, leaked>> /\ Chunk.dv
    BY DEF OngoingFrame, Payload, HasPayload
  <1>2. /\ Chunk \in Chunks /\ WellFormed(Chunk) /\ pc = "process" /\ rx_skb \in Skbs
        /\ Near(Latest + Held, BegunBefore(Chunk))
    BY <1>1, AtChunk DEF HasPayload, TypeInv, TypeOK
  <1>3. /\ Chunk.no \in Nat /\ Chunk.off \in Nat /\ OA_TC6_CHUNK_PAYLOAD_SIZE \in Int
    BY <1>2, RxPathAssumption DEF Chunks
  <1>4. ~Chunk.sv /\ ~Chunk.ev
    BY <1>1, <1>2 DEF WellFormed, Chunks
  <1>5. Chunk.no > 0 /\ rx_skb'.no = Chunk.no
    BY <1>1, <1>2, <1>3, HeldSkb, PutType
  <1>6. rx_skb' # NoSkb /\ Held = 1 /\ Held' = 1 /\ Latest' = Latest
    BY <1>1, <1>3, <1>5 DEF NoSkb, Held, Latest
  <1>7. Near(Latest' + Held', BegunBy(Chunk))
    BY <1>2, <1>4, <1>6 DEF BegunBefore
  <1>8. PICK o : o = After(Chunk)
    OBVIOUS
  <1>9. o.no = Chunk.no
    BY <1>1, <1>4, <1>8 DEF After
  <1>10. HoldsFrame(o)'
    BY <1>1, <1>3, <1>5, <1>6, <1>9 DEF HoldsFrame
  <1>11. DeliveredInv' /\ leaked' = 0
    BY <1>1, <1>6 DEF OrderInv, DeliveredInv
  <1> QED BY <1>1, <1>2, <1>7, <1>8, <1>10, <1>11, OrderNext

\* No memory for the skb of the frame that starts: the thread ends.
LEMMA OrderAllocFails ==
    ASSUME TypeInv, OrderInv, AllocFails
    PROVE  OrderInv'
  <1>1. /\ HasPayload /\ ~rx_buf_overflow' /\ UNCHANGED devVars
        /\ rx_buf' = <<>> /\ pc' = "exited" /\ Len(rx_buf') = 0 /\ Chunk.sv
    BY EmptySeq DEF AllocFails, Payload
  <1>2. DeliveredInv' /\ leaked' = 0
    <2>1. CASE EndThenStart /\ rx_skb # NoSkb
      <3>1. Submit(Ended(rx_skb)) /\ UNCHANGED leaked
        BY <2>1 DEF AllocFails, SubmitPrevious, HasPrevious
      <3> QED BY <1>1, <2>1, <3>1, OrderEnd DEF OrderInv
    <2>2. CASE ~(EndThenStart /\ rx_skb # NoSkb)
      <3>1. UNCHANGED delivered
        BY <2>2 DEF AllocFails, SubmitPrevious, HasPrevious
      <3>2. leaked' = 0
        <4>1. CASE EndThenStart
          BY <4>1 DEF AllocFails, OrderInv
        <4>2. CASE ~EndThenStart
          <5>1. ~Continues(Chunk)
            BY <1>1, <4>2 DEF EndThenStart, Continues
          <5>2. rx_skb = NoSkb /\ Overwritten(rx_skb)
            BY <1>1, <4>2, <5>1, HeldSkb DEF AllocFails
          <5> QED BY <5>2 DEF Overwritten, OrderInv
        <4> QED BY <4>1, <4>2
      <3> QED BY <1>1, <3>1, <3>2 DEF OrderInv, DeliveredInv, Latest
    <2> QED BY <2>1, <2>2
  <1> QED BY <1>1, <1>2 DEF OrderInv, LossInv, ChunkInv, ChainInv, BackInv, FrontInv

LEMMA OrderStep == Told /\ TypeInv /\ OrderInv /\ [Next]_vars => OrderInv'
  <1> SUFFICES ASSUME Told, TypeInv, OrderInv, [Next]_vars PROVE OrderInv'
    OBVIOUS
  <1>1. TypeInv'
    BY RxTypeStep
  <1>2. CASE UNCHANGED vars
    BY <1>2 DEF OrderInv, LossInv, ChunkInv, ChainInv, BackInv, FrontInv, DeliveredInv,
                Near, Latest, Held, HoldsFrame, Cur
  <1>3. CASE Next
    BY <1>1, <1>3, OrderDevice, OrderExchange, OrderEnds, OrderSkip, OrderComplete,
       OrderStart, OrderFrameEnd, OrderOngoing, OrderAllocFails DEF Next, Thread
  <1> QED BY <1>2, <1>3

LEMMA RxOrder == OverflowSeen => (Spec => [](TypeInv /\ OrderInv))
  <1> SUFFICES ASSUME OverflowSeen PROVE Spec => [](TypeInv /\ OrderInv)
    OBVIOUS
  <1>1. Init => TypeInv /\ OrderInv
    BY RxTypeInit, OrderInit
  <1>2. TypeInv /\ OrderInv /\ [Next]_vars => (TypeInv /\ OrderInv)'
    BY RxTypeStep, OrderStep, SeenTold
  <1> QED BY <1>1, <1>2, PTL DEF Spec

\* Before the first loss the frames are in order in any case.
LEMMA RxOrderAtFirst == Spec => [](TypeInv /\ (overflows = 0 => OrderInv))
  <1> DEFINE Inv == TypeInv /\ (overflows = 0 => OrderInv)
  <1>1. Init => Inv
    BY RxTypeInit, OrderInit
  <1>2. Inv /\ [Next]_vars => Inv'
    <2> SUFFICES ASSUME Inv, [Next]_vars, overflows' = 0 PROVE OrderInv'
      BY RxTypeStep
    <2>1. overflows = 0
      <3>1. overflows \in Nat
        BY LatestType
      <3>2. CASE RxOverflow
        BY <3>1, <3>2 DEF RxOverflow
      <3>3. CASE ~RxOverflow
        <4>1. UNCHANGED overflows
          BY <3>3 DEF Next, Thread, RxArrive, Exchange, TransferDone, SpiFail,
             OverflowStatus, SkipChunk, CompleteFrame, FrameStart, FrameEnd, EndAndStart,
             OngoingFrame, DeviceError, AllocFails, Payload
        <4> QED BY <4>1
      <3> QED BY <3>2, <3>3
    <2> QED BY <2>1, OrderStep DEF Told
  <1> QED BY <1>1, <1>2, PTL DEF Spec

-----------------------------------------------------------------------------
(* With the error bits masked, as the code leaves IMASK0 when that is its   *)
(* value after reset, no chunk is marked and the thread never learns of an  *)
(* overflow.  It then mixes frames up, but always has an skb.               *)

\* A frame is open behind the chunk.
Opens(c) == (c.sv /\ (c.ev => c.swo > c.ebo)) \/ (c.dv /\ ~c.ev)

\* A chunk that continues a frame comes behind one that leaves a frame open;
\* a frame open where the thread is has made an skb, if perhaps another's.
QuietInv ==
  /\ ~rx_buf_overflow
  /\ \A i \in 1 .. Len(rx_buf) : ~rx_buf[i].exst /\ WellFormed(rx_buf[i].c)
  /\ \A i \in 1 .. Len(rx_buf) - 1 : Continues(rx_buf[i + 1].c) => Opens(rx_buf[i].c)
  /\ cur # NoFrame /\ rx_buf # <<>> => Opens(rx_buf[Len(rx_buf)].c)
  /\ pc # "exited" =>
       ((IF rx_buf = <<>> THEN cur # NoFrame ELSE Continues(rx_buf[rx_next].c))
        => rx_skb # NoSkb)
  /\ rx_skb # NoSkb => rx_skb.no > 0

\* A chunk comes in: it continues the frame of the MAC-PHY, if any, and leaves
\* open the one the MAC-PHY goes on with.
LEMMA QuietExchange ==
    ASSUME ~ErrorsUnmasked, TypeInv, QuietInv, Exchange
    PROVE  QuietInv'
  <1>1. /\ EmitIdle \/ EmitStart \/ EmitNext
        /\ pc = "xfer" /\ rx_next = 1
        /\ UNCHANGED <<rx_skb, rx_buf_overflow, pc, rx_next>>
    BY DEF Exchange, TypeInv, IndexInv
  <1>2. PICK C \in Chunks : Emitted(C)
    BY <1>1, EmitShape
  <1> DEFINE n == Len(rx_buf)
             entry == [c |-> C, exst |-> FALSE]
  <1>3. /\ n \in Nat /\ Len(rx_buf') = n + 1
        /\ \A i \in 1 .. n : rx_buf'[i] = rx_buf[i]
        /\ rx_buf'[n + 1] = entry /\ rx_buf' # <<>>
    <2>1. (ErrorsUnmasked /\ rx_ovf) = FALSE
      OBVIOUS
    <2>2. rx_buf' = Append(rx_buf, entry) /\ entry \in [c : Chunks, exst : BOOLEAN]
      BY <1>2, <2>1 DEF Emitted
    <2>3. rx_buf \in Seq([c : Chunks, exst : BOOLEAN])
      BY DEF TypeInv, TypeOK
    <2>4. /\ Len(rx_buf') = n + 1 /\ rx_buf'[n + 1] = entry
          /\ \A i \in 1 .. n : rx_buf'[i] = rx_buf[i]
          /\ n \in Nat
      BY <2>2, <2>3, AppendProperties, LenProperties
    <2>5. rx_buf' # <<>>
      BY <2>4, EmptySeq
    <2> QED BY <2>4, <2>5
  <1>4. entry.c = C /\ ~entry.exst
    OBVIOUS
  <1> HIDE DEF entry
  <1>5. WellFormed(C) /\ Before(C) = Cur /\ After(C) = Cur'
    BY <1>2 DEF Emitted
  <1>6. Continues(C) => cur # NoFrame
    <2> SUFFICES ASSUME Continues(C), cur = NoFrame PROVE FALSE
      OBVIOUS
    <2>1. Cur.no = C.no /\ Cur.no = 0
      BY <1>5 DEF Before, Cur, NoFrame
    <2>2. C.no > 0 /\ C.no \in Nat
      BY <1>2, <1>5 DEF WellFormed, Chunks
    <2> QED BY <2>1, <2>2
  <1>7. cur' # NoFrame => Opens(C)
    <2> SUFFICES ASSUME cur' # NoFrame, ~Opens(C) PROVE FALSE
      OBVIOUS
    <2>1. After(C) = Nothing
      BY DEF Opens, After
    <2>2. CurInv' /\ sent_up' \in 0 .. Len(arrived) /\ Len(arrived) \in Nat
      BY <1>1, EmitShape, LatestType
    <2>3. cur'.no = sent_up' /\ sent_up' > 0
      BY <2>2 DEF CurInv
    <2>4. cur'.no = 0
      BY <1>5, <2>1 DEF Cur, Nothing
    <2> QED BY <2>2, <2>3, <2>4
  <1>8. \A i \in 1 .. n + 1 : ~rx_buf'[i].exst /\ WellFormed(rx_buf'[i].c)
    BY <1>3, <1>4, <1>5 DEF QuietInv
  <1>9. ASSUME NEW i \in 1 .. n, Continues(rx_buf'[i + 1].c)
        PROVE  Opens(rx_buf'[i].c)
    <2>1. CASE i = n
      <3>1. Continues(C) /\ cur # NoFrame
        BY <1>3, <1>4, <1>6, <1>9, <2>1
      <3>2. rx_buf # <<>> /\ rx_buf'[n] = rx_buf[n]
        BY <1>3, <1>9, <2>1, EmptySeq
      <3> QED BY <2>1, <3>1, <3>2 DEF QuietInv
    <2>2. CASE i # n
      <3>1. i \in 1 .. n - 1 /\ i + 1 \in 1 .. n
        BY <1>3, <2>2
      <3>2. rx_buf'[i] = rx_buf[i] /\ rx_buf'[i + 1] = rx_buf[i + 1]
        BY <1>3, <3>1
      <3> QED BY <1>9, <3>1, <3>2 DEF QuietInv
    <2> QED BY <2>1, <2>2
  <1>10. Continues(rx_buf'[1].c) => rx_skb # NoSkb
    <2>1. CASE rx_buf = <<>>
      <3>1. rx_buf'[1].c = C
        BY <1>3, <1>4, <2>1, EmptySeq
      <3> QED BY <1>1, <1>6, <2>1, <3>1 DEF QuietInv
    <2>2. CASE rx_buf # <<>>
      <3>1. rx_buf'[1] = rx_buf[1]
        BY <1>3, <2>2, LatestType
      <3> QED BY <1>1, <2>2, <3>1 DEF QuietInv
    <2> QED BY <2>1, <2>2
  <1>11. cur' # NoFrame => Opens(rx_buf'[n + 1].c)
    BY <1>3, <1>4, <1>7
  <1> HIDE DEF n
  <1>12. Len(rx_buf') - 1 = n
    BY <1>3
  <1> QED BY <1>1, <1>3, <1>8, <1>9, <1>10, <1>11, <1>12
          DEF QuietInv, WellFormed, Continues, Opens, BegunBefore, BegunBy

\* On to the next chunk, with an skb if a frame is open behind this one.
LEMMA QuietNext ==
    ASSUME TypeInv, QuietInv, pc = "process", NextChunk, UNCHANGED devVars,
           ~rx_buf_overflow', Opens(Chunk) => rx_skb' # NoSkb,
           rx_skb' # NoSkb => rx_skb'.no > 0
    PROVE  QuietInv'
  <1>1. /\ rx_next \in 1 .. Len(rx_buf) /\ Len(rx_buf) \in Nat /\ rx_buf # <<>>
        /\ Chunk = rx_buf[rx_next].c
    BY ChunkThere DEF Chunk
  <1>2. CASE MoreChunks
    <2>1. rx_next' = rx_next + 1 /\ UNCHANGED <<rx_buf, pc, cur>>
      BY <1>2 DEF NextChunk
    <2>2. rx_next \in 1 .. Len(rx_buf) - 1
      BY <1>1, <1>2 DEF MoreChunks
    <2>3. Continues(rx_buf[rx_next + 1].c) => rx_skb' # NoSkb
      BY <1>1, <2>2 DEF QuietInv
    <2> QED BY <1>1, <2>1, <2>3 DEF QuietInv, WellFormed, Continues, Opens, BegunBefore, BegunBy
  <1>3. CASE ~MoreChunks
    <2>1. rx_buf' = <<>> /\ Len(rx_buf') = 0 /\ UNCHANGED cur
      BY <1>3, EmptySeq DEF NextChunk
    <2>2. rx_next = Len(rx_buf)
      BY <1>1, <1>3 DEF MoreChunks
    <2>3. cur # NoFrame => rx_skb' # NoSkb
      BY <1>1, <2>2 DEF QuietInv
    <2> QED BY <2>1, <2>3 DEF QuietInv
  <1> QED BY <1>2, <1>3

\* What a chunk makes of the skb.
LEMMA QuietChunk ==
    ASSUME TypeInv, QuietInv,
           SkipChunk \/ CompleteFrame \/ FrameStart \/ FrameEnd \/ EndAndStart \/ OngoingFrame
    PROVE  QuietInv'
  <1>1. /\ pc = "process" /\ NextChunk /\ UNCHANGED devVars /\ ~rx_buf_overflow'
        /\ Chunk \in Chunks /\ WellFormed(Chunk) /\ rx_skb \in Skbs
    <2>1. pc = "process" /\ NextChunk /\ UNCHANGED devVars /\ ~rx_buf_overflow'
      BY DEF SkipChunk, CompleteFrame, FrameStart, FrameEnd, EndAndStart, OngoingFrame,
             Payload, HasPayload, QuietInv
    <2> QED BY <2>1, ChunkThere DEF QuietInv, Chunk, TypeInv, TypeOK
  <1>2. Chunk.swo \in Nat /\ Chunk.ebo \in Nat /\ Chunk.nxt \in Nat /\ Chunk.no \in Nat
        /\ Chunk.off \in Nat /\ StartSize \in Int /\ OA_TC6_CHUNK_PAYLOAD_SIZE \in Int
    <2>1. Chunk.swo \in Nat /\ OA_TC6_CHUNK_PAYLOAD_SIZE \in Int
      BY <1>1, ChunkThere, RxPathAssumption
    <2> QED BY <1>1, <2>1 DEF Chunks, StartSize
  <1> SUFFICES /\ Opens(Chunk) => rx_skb' # NoSkb
               /\ rx_skb' # NoSkb => rx_skb'.no > 0
    BY <1>1, QuietNext
  <1>3. CASE SkipChunk
    <2>1. ~Chunk.dv /\ UNCHANGED rx_skb
      BY <1>3 DEF SkipChunk, Skipping, QuietInv
    <2> QED BY <1>1, <2>1 DEF QuietInv, WellFormed, Opens
  <1>4. CASE CompleteFrame
    <2>1. Chunk.sv /\ Chunk.ev /\ Chunk.swo < Chunk.ebo /\ rx_skb' = NoSkb
      BY <1>4 DEF CompleteFrame
    <2> QED BY <1>2, <2>1 DEF Opens
  <1>5. CASE FrameStart \/ EndAndStart
    <2>1. rx_skb' = Started(StartSize) /\ Chunk.sv
      BY <1>5 DEF FrameStart, EndAndStart, EndThenStart
    <2>2. rx_skb'.no = Chunk.nxt /\ Chunk.nxt > 0
      BY <1>1, <1>2, <2>1, StartedType DEF WellFormed
    <2> QED BY <1>2, <2>2 DEF NoSkb
  <1>6. CASE FrameEnd
    <2>1. ~Chunk.sv /\ Chunk.ev /\ rx_skb' = NoSkb
      BY <1>6 DEF FrameEnd
    <2> QED BY <2>1 DEF Opens
  <1>7. CASE OngoingFrame
    <2>1. rx_skb' = Put(rx_skb, Chunk.no, Chunk.off, OA_TC6_CHUNK_PAYLOAD_SIZE)
          /\ rx_skb # NoSkb
      BY <1>7 DEF OngoingFrame
    <2>2. rx_skb'.no = rx_skb.no /\ rx_skb.no > 0 /\ rx_skb.no \in Nat
      <3>1. Put(rx_skb, Chunk.no, Chunk.off, OA_TC6_CHUNK_PAYLOAD_SIZE).no = rx_skb.no
        <4>1. /\ rx_skb \in Skbs /\ Chunk.no \in Nat /\ Chunk.off \in Nat
              /\ OA_TC6_CHUNK_PAYLOAD_SIZE \in Int
          BY <1>1, <1>2
        <4> QED BY <4>1, PutType
      <3>2. rx_skb.no > 0 /\ rx_skb.no \in Nat
        BY <1>1, <2>1 DEF QuietInv, Skbs
      <3> QED BY <2>1, <3>1, <3>2
    <2> QED BY <2>2 DEF NoSkb
  <1> QED BY <1>3, <1>4, <1>5, <1>6, <1>7

LEMMA QuietStep == ~ErrorsUnmasked /\ TypeInv /\ QuietInv /\ [Next]_vars => QuietInv'
  <1> SUFFICES ASSUME ~ErrorsUnmasked, TypeInv, QuietInv, [Next]_vars PROVE QuietInv'
    OBVIOUS
  <1>1. CASE UNCHANGED vars \/ RxArrive \/ TransferDone \/ SpiFail
    <2>1. /\ UNCHANGED <<cur, rx_skb, rx_buf_overflow, rx_buf, rx_next>>
          /\ pc' # "exited" => pc # "exited"
      BY <1>1 DEF RxArrive, TransferDone, SpiFail
    <2> QED BY <2>1 DEF QuietInv
  <1>2. CASE RxOverflow
    <2>1. /\ UNCHANGED <<rx_skb, rx_buf_overflow, rx_buf, rx_next, pc>>
          /\ cur' # NoFrame => cur # NoFrame
      BY <1>2 DEF RxOverflow
    <2> QED BY <2>1 DEF QuietInv
  <1>3. ~OverflowStatus
    BY ChunkThere DEF OverflowStatus, QuietInv
  <1>4. CASE DeviceError \/ AllocFails
    <2>1. rx_skb' = NoSkb /\ pc' = "exited" /\ rx_buf' = <<>> /\ Len(rx_buf') = 0
          /\ ~rx_buf_overflow'
      BY <1>4, EmptySeq DEF DeviceError, AllocFails, Payload, Freed, QuietInv
    <2> QED BY <2>1 DEF QuietInv
  <1> QED BY <1>1, <1>2, <1>3, <1>4, QuietExchange, QuietChunk DEF Next, Thread

LEMMA RxQuiet == ~ErrorsUnmasked => (Spec => []QuietInv)
  <1> SUFFICES ASSUME ~ErrorsUnmasked PROVE Spec => []QuietInv
    OBVIOUS
  <1>1. Init => TypeInv /\ QuietInv
    <2> SUFFICES ASSUME Init PROVE QuietInv
      BY RxTypeInit
    <2>1. rx_buf = <<>> /\ Len(rx_buf) = 0 /\ rx_skb = NoSkb /\ cur = NoFrame /\ ~rx_buf_overflow
      BY EmptySeq DEF Init
    <2> QED BY <2>1 DEF QuietInv
  <1>2. TypeInv /\ QuietInv /\ [Next]_vars => (TypeInv /\ QuietInv)'
    BY RxTypeStep, QuietStep
  <1> QED BY <1>1, <1>2, PTL DEF Spec

\* The end and the middle of a frame find the skb that its start has made
\* (prcs_rx_frame_end and prcs_ongoing_rx_frame use rx_skb without a test),
\* whatever was lost in between, whether or not the thread is told of the loss.
THEOREM RxSkbFound == Spec => []RxSkbThere
  <1>1. CASE ErrorsUnmasked
    <2>1. OverflowSeen
      BY <1>1 DEF OverflowSeen
    <2>2. TypeInv /\ OrderInv => RxSkbThere
      BY HeldSkb DEF RxSkbThere
    <2> QED BY <2>1, <2>2, RxOrder, PTL
  <1>2. CASE ~ErrorsUnmasked
    <2>1. TypeInv /\ QuietInv => RxSkbThere
      <3> SUFFICES ASSUME TypeInv, QuietInv, HasPayload, ~Chunk.sv PROVE rx_skb # NoSkb
        BY DEF RxSkbThere
      <3>1. pc = "process" /\ Chunk.dv /\ rx_buf # <<>>
        BY ChunkThere DEF HasPayload
      <3> QED BY <3>1 DEF QuietInv, Continues, Chunk
    <2>2. Spec => []TypeInv
      BY RxTypeInit, RxTypeStep, PTL DEF Spec
    <2> QED BY <1>2, <2>1, <2>2, RxQuiet, PTL
  <1> QED BY <1>1, <1>2

\* An skb in the making is never overwritten by the next one, which would leak
\* it: every end and every loss has given it away or freed it before.
THEOREM RxNoneLost == OverflowSeen => (Spec => []NoSkbLost)
  <1>1. OrderInv => NoSkbLost
    BY DEF OrderInv, NoSkbLost
  <1> QED BY <1>1, RxOrder, PTL

\* How often that loses an skb: the skb in the making is still there when the
\* thread comes to chunk i, because nothing but empty chunks is in between.
Silent(i, j) == \A k \in i .. j - 1 : ~rx_buf[k].c.dv
Carried(i) == \/ rx_skb # NoSkb /\ Silent(rx_next, i)
              \/ \E j \in rx_next .. i - 1 : Opens(rx_buf[j].c) /\ Silent(j + 1, i)

\* The chunks whose frame is going to overwrite it, and one more if the MAC-PHY
\* has cut off the frame the last chunk leaves open.
Overwrites(c) == c.sv /\ ~Continues(c)
Losses == {i \in rx_next .. Len(rx_buf) : Overwrites(rx_buf[i].c) /\ Carried(i)}
Dangling == IF cur = NoFrame /\ Carried(Len(rx_buf) + 1) THEN 1 ELSE 0
LeakInv == leaked + Cardinality(Losses) + Dangling <= overflows

LEMMA LeakType ==
    ASSUME TypeInv
    PROVE  /\ IsFiniteSet(Losses) /\ Cardinality(Losses) \in Nat /\ Dangling \in {0, 1}
           /\ leaked \in Nat /\ overflows \in Nat
  <1>1. rx_next \in Int /\ Len(rx_buf) \in Int /\ leaked \in Nat /\ overflows \in Nat
    BY LatestType DEF TypeInv, TypeOK
  <1>2. IsFiniteSet(rx_next .. Len(rx_buf))
    BY <1>1, FS_Interval
  <1>3. IsFiniteSet(Losses)
    BY <1>2, FS_Subset DEF Losses
  <1> QED BY <1>1, <1>3, FS_CardinalityType DEF Dangling

\* The skb in the making as a chunk leaves it: there is one if a frame is open
\* behind the chunk, or the chunk is empty and there was one.
LEMMA QuietSkb ==
    ASSUME TypeInv, QuietInv,
           SkipChunk \/ CompleteFrame \/ FrameStart \/ FrameEnd \/ EndAndStart \/ OngoingFrame
    PROVE  /\ pc = "process" /\ NextChunk /\ UNCHANGED devVars
           /\ rx_skb' # NoSkb <=> Opens(Chunk) \/ (~Chunk.dv /\ rx_skb # NoSkb)
           /\ leaked' = leaked + (IF Overwrites(Chunk) /\ rx_skb # NoSkb THEN 1 ELSE 0)
  <1>1. /\ pc = "process" /\ NextChunk /\ UNCHANGED devVars
        /\ Chunk \in Chunks /\ WellFormed(Chunk) /\ rx_skb \in Skbs /\ leaked \in Nat
    <2>1. pc = "process" /\ NextChunk /\ UNCHANGED devVars
      BY DEF SkipChunk, CompleteFrame, FrameStart, FrameEnd, EndAndStart, OngoingFrame,
             Payload, HasPayload
    <2> QED BY <2>1, ChunkThere DEF QuietInv, Chunk, TypeInv, TypeOK
  <1>2. /\ Chunk.swo \in Nat /\ Chunk.ebo \in Nat /\ Chunk.nxt \in Nat /\ Chunk.no \in Nat
        /\ Chunk.off \in Nat /\ StartSize \in Int /\ OA_TC6_CHUNK_PAYLOAD_SIZE \in Int
        /\ Chunk.sv \in BOOLEAN /\ Chunk.ev \in BOOLEAN /\ Chunk.dv \in BOOLEAN
    <2>1. Chunk.swo \in Nat /\ OA_TC6_CHUNK_PAYLOAD_SIZE \in Int
      BY <1>1, ChunkThere, RxPathAssumption
    <2> QED BY <1>1, <2>1 DEF Chunks, StartSize
  <1> SUFFICES /\ rx_skb' # NoSkb <=> Opens(Chunk) \/ (~Chunk.dv /\ rx_skb # NoSkb)
               /\ leaked' = leaked + (IF Overwrites(Chunk) /\ rx_skb # NoSkb THEN 1 ELSE 0)
    BY <1>1
  <1>3. CASE SkipChunk
    <2>1. ~Chunk.dv /\ ~Chunk.sv /\ UNCHANGED <<rx_skb, leaked>>
      BY <1>1, <1>3 DEF SkipChunk, Skipping, QuietInv, WellFormed
    <2> QED BY <1>1, <2>1 DEF Opens, Overwrites
  <1>4. CASE CompleteFrame
    <2>1. /\ Chunk.sv /\ Chunk.ev /\ Chunk.swo < Chunk.ebo /\ Chunk.dv
          /\ rx_skb' = NoSkb /\ Overwritten(rx_skb)
      BY <1>4 DEF CompleteFrame, Payload, HasPayload
    <2> QED BY <1>2, <2>1 DEF Opens, Overwrites, Continues, Overwritten
  <1>5. CASE FrameStart \/ EndAndStart
    <2>1. rx_skb' = Started(StartSize) /\ Chunk.sv /\ (Chunk.ev => Chunk.swo > Chunk.ebo)
      BY <1>5 DEF FrameStart, EndAndStart, EndThenStart
    <2>2. rx_skb' # NoSkb /\ Opens(Chunk)
      <3>1. rx_skb'.no = Chunk.nxt /\ Chunk.nxt > 0
        BY <1>1, <1>2, <2>1, StartedType DEF WellFormed
      <3> QED BY <1>2, <2>1, <3>1 DEF NoSkb, Opens
    <2>3. leaked' = leaked + (IF Overwrites(Chunk) /\ rx_skb # NoSkb THEN 1 ELSE 0)
      <3>1. CASE FrameStart
        BY <1>1, <3>1 DEF FrameStart, Overwritten, Overwrites, Continues
      <3>2. CASE EndAndStart
        <4>1. Continues(Chunk) /\ leaked' = leaked
          BY <3>2 DEF EndAndStart, EndThenStart, Payload, HasPayload, Continues
        <4> QED BY <1>1, <4>1 DEF Overwrites
      <3> QED BY <1>5, <3>1, <3>2
    <2> QED BY <2>2, <2>3
  <1>6. CASE FrameEnd
    <2>1. ~Chunk.sv /\ Chunk.ev /\ Chunk.dv /\ rx_skb' = NoSkb /\ leaked' = leaked
      BY <1>6 DEF FrameEnd, Payload, HasPayload
    <2> QED BY <1>1, <2>1 DEF Opens, Overwrites
  <1>7. CASE OngoingFrame
    <2>1. /\ rx_skb' = Put(rx_skb, Chunk.no, Chunk.off, OA_TC6_CHUNK_PAYLOAD_SIZE)
          /\ rx_skb # NoSkb /\ Chunk.dv /\ Chunk.sv = Chunk.ev /\ leaked' = leaked
          /\ Chunk.sv => Chunk.swo = Chunk.ebo
      BY <1>7 DEF OngoingFrame, Payload, HasPayload
    <2>2. ~Chunk.sv /\ ~Chunk.ev
      BY <1>1, <2>1 DEF WellFormed
    <2>3. rx_skb' # NoSkb
      <3>1. Put(rx_skb, Chunk.no, Chunk.off, OA_TC6_CHUNK_PAYLOAD_SIZE).no = rx_skb.no
        <4>1. /\ rx_skb \in Skbs /\ Chunk.no \in Nat /\ Chunk.off \in Nat
              /\ OA_TC6_CHUNK_PAYLOAD_SIZE \in Int
          BY <1>1, <1>2
        <4> QED BY <4>1, PutType
      <3>2. rx_skb.no > 0 /\ rx_skb.no \in Nat
        BY <1>1, <2>1 DEF QuietInv, Skbs
      <3> QED BY <2>1, <3>1, <3>2 DEF NoSkb
    <2> QED BY <1>1, <2>1, <2>2, <2>3 DEF Opens, Overwrites
  <1> QED BY <1>3, <1>4, <1>5, <1>6, <1>7

\* A chunk comes in: it overwrites an skb only if the frame of that skb has been
\* cut off.
LEMMA LeakExchange ==
    ASSUME ~ErrorsUnmasked, TypeInv, TypeInv', QuietInv, LeakInv, Exchange
    PROVE  LeakInv'
  <1>1. /\ EmitIdle \/ EmitStart \/ EmitNext
        /\ rx_next = 1 /\ UNCHANGED <<rx_skb, rx_next, leaked, overflows>>
    BY DEF Exchange, TypeInv, IndexInv
  <1>2. PICK C \in Chunks : Emitted(C)
    BY <1>1, EmitShape
  <1>0. PICK n : n = Len(rx_buf)
    OBVIOUS
  <1> DEFINE entry == [c |-> C, exst |-> FALSE]
  <1>3. /\ n \in Nat /\ Len(rx_buf') = n + 1
        /\ \A i \in 1 .. n : rx_buf'[i] = rx_buf[i]
        /\ rx_buf'[n + 1] = entry
    <2>1. (ErrorsUnmasked /\ rx_ovf) = FALSE
      OBVIOUS
    <2>2. rx_buf' = Append(rx_buf, entry) /\ entry \in [c : Chunks, exst : BOOLEAN]
      BY <1>2, <2>1 DEF Emitted
    <2>3. rx_buf \in Seq([c : Chunks, exst : BOOLEAN])
      BY DEF TypeInv, TypeOK
    <2> QED BY <1>0, <2>2, <2>3, AppendProperties, LenProperties
  <1>4. rx_buf'[n + 1].c = C
    BY <1>3
  <1> HIDE DEF entry
  <1>5. WellFormed(C) /\ Before(C) = Cur /\ After(C) = Cur'
    BY <1>2 DEF Emitted
  <1>6. C.no \in Nat /\ C.nxt \in Nat /\ C.sv \in BOOLEAN /\ C.ev \in BOOLEAN /\ C.dv \in BOOLEAN
    BY <1>2 DEF Chunks
  \* The frame of the MAC-PHY and what the chunk says of it.
  <1>7. C.sv /\ ~Continues(C) => cur = NoFrame
    <2> SUFFICES ASSUME ~Continues(C), cur # NoFrame PROVE FALSE
      OBVIOUS
    <2>1. cur.no = 0
      BY <1>5 DEF Before, Cur, Nothing
    <2> QED BY <2>1, LatestType DEF TypeInv, CurInv
  <1>8. ~C.dv => cur = NoFrame
    <2> SUFFICES ASSUME ~C.dv, cur # NoFrame PROVE FALSE
      OBVIOUS
    <2>1. cur.no = 0
      BY <1>5 DEF Before, Continues, Cur, Nothing
    <2> QED BY <2>1, LatestType DEF TypeInv, CurInv
  <1>9. Opens(C) => cur' # NoFrame
    <2> SUFFICES ASSUME Opens(C), cur' = NoFrame PROVE FALSE
      OBVIOUS
    <2>1. After(C).no = 0
      BY <1>5 DEF Cur, NoFrame
    <2>2. CASE C.sv /\ (C.ev => C.swo > C.ebo)
      BY <1>5, <1>6, <2>1, <2>2 DEF After, WellFormed
    <2>3. CASE ~(C.sv /\ (C.ev => C.swo > C.ebo))
      <3>1. C.dv /\ ~C.ev /\ ~C.sv
        BY <2>3 DEF Opens
      <3>2. C.no > 0 /\ After(C).no = C.no
        BY <1>5, <2>3, <3>1 DEF WellFormed, Continues, After
      <3> QED BY <2>1, <3>2
    <2> QED BY <2>2, <2>3
  \* What is carried up to the chunk is what was, and behind it what it leaves.
  <1>10. \A i \in 1 .. n + 1 : Carried(i)' <=> Carried(i)
    <2> SUFFICES ASSUME NEW i \in 1 .. n + 1 PROVE Carried(i)' <=> Carried(i)
      OBVIOUS
    <2>1. \A k \in 1 .. i - 1 : rx_buf'[k] = rx_buf[k]
      BY <1>3
    <2>2. \A j \in 1 .. i : Silent(j, i)' <=> Silent(j, i)
      BY <2>1 DEF Silent
    <2>3. 1 \in 1 .. i /\ \A j \in 1 .. i - 1 : j + 1 \in 1 .. i
      BY <1>3
    <2>4. \A j \in 1 .. i - 1 : (Opens(rx_buf[j].c) /\ Silent(j + 1, i))'
                                 <=> (Opens(rx_buf[j].c) /\ Silent(j + 1, i))
      BY <2>1, <2>2, <2>3 DEF Opens
    <2> QED BY <1>1, <2>2, <2>3, <2>4 DEF Carried
  <1>11. Carried(n + 2)' => Opens(C) \/ (~C.dv /\ Carried(n + 1))
    <2>1. ASSUME NEW j \in 1 .. n + 1, Silent(j, n + 2)'
          PROVE  ~C.dv /\ Silent(j, n + 1)'
      <3>1. n + 1 \in j .. (n + 2) - 1 /\ \A k \in j .. (n + 1) - 1 : k \in j .. (n + 2) - 1
        BY <1>3
      <3> QED BY <1>4, <2>1, <3>1 DEF Silent
    <2>2. CASE rx_skb' # NoSkb /\ Silent(1, n + 2)'
      <3>1. 1 \in 1 .. n + 1
        BY <1>3
      <3>2. ~C.dv /\ Silent(1, n + 1)'
        BY <2>1, <2>2, <3>1
      <3>3. Carried(n + 1)'
        BY <1>1, <2>2, <3>2 DEF Carried
      <3>4. n + 1 \in 1 .. n + 1
        BY <1>3
      <3> QED BY <1>10, <3>2, <3>3, <3>4
    <2>3. ASSUME NEW j \in 1 .. n + 1, Opens(rx_buf'[j].c), Silent(j + 1, n + 2)'
          PROVE  Opens(C) \/ (~C.dv /\ Carried(n + 1))
      <3>1. CASE j = n + 1
        BY <1>4, <2>3, <3>1
      <3>2. CASE j \in 1 .. n
        <4>1. j + 1 \in 1 .. n + 1 /\ j \in 1 .. (n + 1) - 1 /\ n + 1 \in 1 .. n + 1
          BY <1>3, <3>2
        <4>2. ~C.dv /\ Silent(j + 1, n + 1)'
          BY <2>1, <2>3, <4>1
        <4>3. Carried(n + 1)'
          BY <1>1, <2>3, <4>1, <4>2 DEF Carried, Opens, Continues
        <4> QED BY <1>10, <4>1, <4>2, <4>3
      <3> QED BY <1>3, <3>1, <3>2
    <2>4. (n + 2) - 1 = n + 1
      BY <1>3
    <2> QED BY <1>1, <2>2, <2>3, <2>4 DEF Carried, Opens, Continues
  <1>12. /\ Losses' = {i \in 1 .. n + 1 : Overwrites(rx_buf'[i].c) /\ Carried(i)'}
         /\ Losses = {i \in 1 .. n : Overwrites(rx_buf[i].c) /\ Carried(i)}
    BY <1>1, <1>3, <1>0 DEF Losses, Overwrites, Continues
  <1>13. Dangling = IF cur = NoFrame /\ Carried(n + 1) THEN 1 ELSE 0
    BY <1>0 DEF Dangling
  <1>14. Dangling' = IF cur' = NoFrame /\ Carried(n + 2)' THEN 1 ELSE 0
    <2>1. Len(rx_buf') + 1 = n + 2
      BY <1>3
    <2> QED BY <2>1 DEF Dangling, Carried, Silent, Opens, Continues
  <1>15. \A i \in 1 .. n : i \in Losses' <=> i \in Losses
    BY <1>3, <1>10, <1>12
  <1>16. n + 1 \in Losses' <=> Overwrites(C) /\ Carried(n + 1)
    BY <1>3, <1>4, <1>10, <1>12
  <1>17. CASE Overwrites(C) /\ Carried(n + 1)
    <2>1. Dangling = 1
      BY <1>7, <1>13, <1>17 DEF Overwrites
    <2>2. Dangling' = 0
      <3>1. C.dv
        BY <1>5, <1>6, <1>17 DEF WellFormed, Overwrites
      <3> QED BY <1>9, <1>11, <1>14, <3>1
    <2>3. Losses' = Losses \cup {n + 1} /\ n + 1 \notin Losses
      BY <1>3, <1>12, <1>15, <1>16, <1>17
    <2>4. Cardinality(Losses') = Cardinality(Losses) + 1
      BY <2>3, LeakType, FS_AddElement
    <2> QED BY <1>1, <2>1, <2>2, <2>4, LeakType DEF LeakInv
  <1>18. CASE ~(Overwrites(C) /\ Carried(n + 1))
    <2>1. Losses' = Losses
      BY <1>3, <1>12, <1>15, <1>16, <1>18
    <2>2. Dangling' <= Dangling
      <3>1. CASE Carried(n + 2)' /\ cur' = NoFrame
        BY <1>8, <1>9, <1>11, <1>13, <1>14, <3>1
      <3>2. CASE ~(Carried(n + 2)' /\ cur' = NoFrame)
        BY <1>13, <1>14, <3>2
      <3> QED BY <3>1, <3>2
    <2>3. Dangling' \in {0, 1}
      BY DEF Dangling
    <2> QED BY <1>1, <2>1, <2>2, <2>3, LeakType DEF LeakInv
  <1> QED BY <1>17, <1>18

\* A chunk is processed: if it overwrites an skb, one loss less is to come.
LEMMA LeakChunk ==
    ASSUME TypeInv, TypeInv', QuietInv, LeakInv,
           SkipChunk \/ CompleteFrame \/ FrameStart \/ FrameEnd \/ EndAndStart \/ OngoingFrame
    PROVE  LeakInv'
  <1>0. PICK n : n = Len(rx_buf)
    OBVIOUS
  <1> DEFINE hit == Overwrites(Chunk) /\ rx_skb # NoSkb
  <1>1. /\ pc = "process" /\ NextChunk /\ UNCHANGED <<cur, overflows>>
        /\ rx_skb' # NoSkb <=> Opens(Chunk) \/ (~Chunk.dv /\ rx_skb # NoSkb)
        /\ leaked' = leaked + (IF hit THEN 1 ELSE 0)
    BY QuietSkb
  <1>2. /\ rx_next \in 1 .. n /\ n \in Nat /\ Chunk = rx_buf[rx_next].c
    BY <1>1, <1>0, ChunkThere DEF Chunk
  <1>3. Carried(rx_next) <=> rx_skb # NoSkb
    BY <1>2 DEF Carried, Silent
  <1>4. rx_next \in Losses <=> hit
    BY <1>2, <1>3, <1>0 DEF Losses
  <1> HIDE DEF hit
  \* What is carried further on, seen from behind the chunk.
  <1>5. ASSUME NEW i \in rx_next + 1 .. n + 1
        PROVE  Carried(i) <=> \/ rx_skb' # NoSkb /\ Silent(rx_next + 1, i)
                              \/ \E j \in rx_next + 1 .. i - 1 :
                                    Opens(rx_buf[j].c) /\ Silent(j + 1, i)
    <2>1. Silent(rx_next, i) <=> ~Chunk.dv /\ Silent(rx_next + 1, i)
      <3>1. \A k : k \in rx_next .. i - 1 <=> k = rx_next \/ k \in rx_next + 1 .. i - 1
        BY <1>2
      <3> QED BY <1>2, <3>1 DEF Silent
    <2>2. \A j : j \in rx_next .. i - 1 <=> j = rx_next \/ j \in rx_next + 1 .. i - 1
      BY <1>2
    <2> QED BY <1>1, <1>2, <2>1, <2>2 DEF Carried
  <1>6. Dangling = IF cur = NoFrame /\ Carried(n + 1) THEN 1 ELSE 0
    BY <1>0 DEF Dangling
  <1>7. CASE MoreChunks
    <2>1. rx_next' = rx_next + 1 /\ UNCHANGED rx_buf /\ rx_next \in 1 .. n - 1
      BY <1>1, <1>2, <1>7, <1>0 DEF NextChunk, MoreChunks
    <2>2. \A i \in rx_next + 1 .. n + 1 : Carried(i)' <=> Carried(i)
      <3> SUFFICES ASSUME NEW i \in rx_next + 1 .. n + 1 PROVE Carried(i)' <=> Carried(i)
        OBVIOUS
      <3>1. Carried(i)' <=> \/ rx_skb' # NoSkb /\ Silent(rx_next + 1, i)
                            \/ \E j \in rx_next + 1 .. i - 1 :
                                  Opens(rx_buf[j].c) /\ Silent(j + 1, i)
        BY <2>1 DEF Carried, Silent, Opens
      <3> QED BY <1>5, <3>1
    <2>3. Losses' = {i \in rx_next + 1 .. n : Overwrites(rx_buf[i].c) /\ Carried(i)'}
      BY <2>1, <1>0 DEF Losses, Overwrites, Continues
    <2>4. Losses' = Losses \ {rx_next}
      <3>1. \A i : i \in rx_next + 1 .. n <=> i \in rx_next .. n /\ i # rx_next
        BY <1>2
      <3>2. \A i \in rx_next + 1 .. n : i \in rx_next + 1 .. n + 1
        BY <1>2
      <3>3. Losses = {i \in rx_next .. n : Overwrites(rx_buf[i].c) /\ Carried(i)}
        BY <1>0 DEF Losses
      <3> QED BY <2>2, <2>3, <3>1, <3>2, <3>3
    <2>5. Dangling' = Dangling
      <3>1. n + 1 \in rx_next + 1 .. n + 1
        BY <1>2
      <3>2. Dangling' = IF cur' = NoFrame /\ Carried(n + 1)' THEN 1 ELSE 0
        BY <1>0, <2>1 DEF Dangling
      <3> QED BY <1>1, <1>6, <2>2, <3>1, <3>2
    <2>6. /\ IsFiniteSet(Losses) /\ Cardinality(Losses) \in Nat
          /\ leaked \in Nat /\ overflows \in Nat /\ Dangling \in {0, 1}
      BY LeakType
    <2>7. Cardinality(Losses \ {rx_next}) = IF hit THEN Cardinality(Losses) - 1
                                                   ELSE Cardinality(Losses)
      BY <1>4, <2>6, FS_RemoveElement
    <2>8. Cardinality(Losses') = Cardinality(Losses \ {rx_next})
      BY <2>4
    <2> QED BY <1>1, <2>5, <2>6, <2>7, <2>8 DEF LeakInv
  <1>8. CASE ~MoreChunks
    <2>1. rx_next' = 1 /\ rx_buf' = <<>> /\ Len(rx_buf') = 0 /\ rx_next = n
      BY <1>1, <1>2, <1>8, <1>0, EmptySeq DEF NextChunk, MoreChunks
    <2>2. Losses' = {}
      BY <2>1 DEF Losses
    <2>3. Carried(n + 1) <=> rx_skb' # NoSkb
      <3>1. n + 1 \in rx_next + 1 .. n + 1
        BY <1>2
      <3> QED BY <1>2, <1>5, <2>1, <3>1 DEF Silent
    <2>4. Dangling' = IF cur' = NoFrame /\ rx_skb' # NoSkb THEN 1 ELSE 0
      BY <2>1 DEF Dangling, Carried, Silent
    <2>5. Dangling' = Dangling
      BY <1>1, <1>6, <2>3, <2>4
    <2>6. Cardinality(Losses') = 0
      BY <2>2, FS_EmptySet
    <2>7. hit => Cardinality(Losses) >= 1
      BY <1>4, LeakType, FS_EmptySet
    <2> QED BY <1>1, <2>5, <2>6, <2>7, LeakType DEF LeakInv
  <1> QED BY <1>7, <1>8

LEMMA LeakStep ==
    ~ErrorsUnmasked /\ TypeInv /\ QuietInv /\ LeakInv /\ [Next]_vars => LeakInv'
  <1> SUFFICES ASSUME ~ErrorsUnmasked, TypeInv, QuietInv, LeakInv, [Next]_vars PROVE LeakInv'
    OBVIOUS
  <1>1. TypeInv'
    BY RxTypeStep
  <1>2. CASE UNCHANGED vars \/ RxArrive \/ RxOverflow \/ TransferDone \/ SpiFail
    <2>1. /\ UNCHANGED <<rx_skb, rx_buf, rx_next, leaked>>
          /\ (UNCHANGED <<cur, overflows>>) \/ overflows' = overflows + 1
      BY <1>2 DEF RxArrive, RxOverflow, TransferDone, SpiFail
    <2>2. Losses' = Losses
      BY <2>1 DEF Losses, Overwrites, Continues, Carried, Silent, Opens
    <2>3. Carried(Len(rx_buf) + 1)' <=> Carried(Len(rx_buf) + 1)
      BY <2>1 DEF Carried, Silent, Opens
    <2>4. UNCHANGED <<cur, overflows>> => Dangling' = Dangling
      BY <2>3 DEF Dangling
    <2>5. Dangling' \in {0, 1}
      BY DEF Dangling
    <2> QED BY <2>1, <2>2, <2>4, <2>5, LeakType DEF LeakInv
  <1>3. ~OverflowStatus
    BY ChunkThere DEF OverflowStatus, QuietInv
  <1>4. CASE DeviceError \/ AllocFails
    <2>1. /\ pc = "process" /\ rx_skb' = NoSkb /\ rx_buf' = <<>> /\ Len(rx_buf') = 0
          /\ rx_next' = 1 /\ UNCHANGED overflows
      BY <1>4, EmptySeq DEF DeviceError, AllocFails, Payload, HasPayload, Freed
    <2>2. Losses' = {} /\ Dangling' = 0
      BY <2>1 DEF Losses, Dangling, Carried, Silent
    <2>3. leaked' = leaked \/ (leaked' = leaked + 1 /\ rx_next \in Losses)
      <3>1. CASE leaked' = leaked
        BY <3>1
      <3>2. CASE leaked' # leaked
        <4>1. AllocFails /\ Chunk.sv /\ ~EndThenStart /\ rx_skb # NoSkb /\ leaked' = leaked + 1
          BY <1>4, <3>2, LeakType DEF DeviceError, AllocFails, Overwritten
        <4>2. rx_next \in 1 .. Len(rx_buf) /\ Len(rx_buf) \in Nat /\ Chunk = rx_buf[rx_next].c
          BY <2>1, ChunkThere DEF Chunk
        <4>3. Overwrites(Chunk)
          BY <4>1 DEF EndThenStart, Overwrites, Continues
        <4>4. Carried(rx_next)
          BY <4>1, <4>2 DEF Carried, Silent
        <4> QED BY <4>1, <4>2, <4>3, <4>4 DEF Losses
      <3> QED BY <3>1, <3>2
    <2>4. Cardinality(Losses') = 0
      BY <2>2, FS_EmptySet
    <2>5. rx_next \in Losses => Cardinality(Losses) >= 1
      BY LeakType, FS_EmptySet
    <2> QED BY <2>1, <2>2, <2>3, <2>4, <2>5, LeakType DEF LeakInv
  <1> QED BY <1>1, <1>2, <1>3, <1>4, LeakExchange, LeakChunk DEF Next, Thread

\* An skb is only ever overwritten by a later frame if an overflow has cut off its
\* own, one skb for each overflow at most (oa_tc6_allocate_rx_skb does not look
\* whether there is one). With the error bits unmasked it is none (RxNoneLost).
THEOREM RxLeaksCounted == Spec => [](leaked <= overflows)
  <1>1. CASE ErrorsUnmasked
    <2>1. OverflowSeen
      BY <1>1 DEF OverflowSeen
    <2>2. TypeInv /\ OrderInv => leaked <= overflows
      BY LatestType DEF OrderInv
    <2> QED BY <2>1, <2>2, RxOrder, PTL
  <1>2. CASE ~ErrorsUnmasked
    <2>1. Init => TypeInv /\ QuietInv /\ LeakInv
      <3> SUFFICES ASSUME Init PROVE QuietInv /\ LeakInv
        BY RxTypeInit
      <3>1. /\ rx_buf = <<>> /\ Len(rx_buf) = 0 /\ rx_skb = NoSkb /\ cur = NoFrame
            /\ ~rx_buf_overflow /\ rx_next = 1 /\ leaked = 0 /\ overflows = 0
        BY EmptySeq DEF Init
      <3>2. Losses = {} /\ Dangling = 0
        BY <3>1 DEF Losses, Dangling, Carried, Silent
      <3>3. Cardinality(Losses) = 0
        BY <3>2, FS_EmptySet
      <3> QED BY <3>1, <3>2, <3>3 DEF QuietInv, LeakInv
    <2>2. TypeInv /\ QuietInv /\ LeakInv /\ [Next]_vars => (TypeInv /\ QuietInv /\ LeakInv)'
      BY <1>2, RxTypeStep, QuietStep, LeakStep
    <2>3. TypeInv /\ LeakInv => leaked <= overflows
      BY LeakType DEF LeakInv
    <2> QED BY <2>1, <2>2, <2>3, PTL DEF Spec
  <1> QED BY <1>1, <1>2

\* Without a loss the stack gets as many frames as have arrived, whether or not a
\* later loss would be told.
THEOREM RxComplete == Spec => []AllDelivered
  <1>1. ASSUME TypeInv, overflows = 0 => OrderInv PROVE AllDelivered
    <2> SUFFICES ASSUME pc = "xfer", rx_buf = <<>>, overflows = 0, cur = NoFrame,
                        sent_up = Len(arrived)
                 PROVE  Len(delivered) = Len(arrived)
      BY DEF AllDelivered
    <2> OrderInv
      BY <1>1
    <2>1. Latest + Held = Len(arrived) /\ HoldsFrame(Cur)
      BY DEF OrderInv, FrontInv, LossInv, Near
    <2>2. Held = 0
      BY <2>1 DEF HoldsFrame, Cur, NoFrame, Held
    <2>3. Latest = Len(delivered)
      <3>1. CASE delivered = <<>>
        BY <3>1, EmptySeq DEF Latest
      <3>2. CASE delivered # <<>>
        <4>1. Len(delivered) \in 1 .. Len(delivered)
          BY <1>1, <3>2, LatestType
        <4> QED BY <1>1, <3>2, <4>1 DEF OrderInv, DeliveredInv, Latest
      <3> QED BY <3>1, <3>2
    <2> QED BY <1>1, <2>1, <2>2, <2>3, LatestType
  <1> QED BY <1>1, RxOrderAtFirst, PTL

-----------------------------------------------------------------------------
(* The bytes of the frames.                                                *)

\* A frame starts in a chunk with its whole timestamp, and the bytes of the FCS
\* are not cut apart by a chunk.  CompleteFrame and the timestamp extraction
\* rely on the first; the second is what prcs_rx_frame_end relies on, and fails
\* for some lengths (FcsRemoved).
StartsWhole == \A s \in StartOffsets : s + TimestampSize <= OA_TC6_CHUNK_PAYLOAD_SIZE
FcsTogether == \A l \in FrameLens : ~Straddled(l)

\* What the stack gets: a frame that has begun, no earlier one twice, from its
\* own bytes and with as many as Measured says.
UpAsIs(skb) ==
  /\ skb \in Skbs /\ skb.no \in 1 .. Len(arrived)
  /\ Near(Latest + 1, skb.no)
  /\ skb.ok
  /\ Measured(skb)

\* If no FCS is cut apart, the service sees the size the frame arrived with.
LEMMA MeasuredUp ==
    ASSUME FcsTogether, TypeInv, NEW skb, skb.ok, Measured(skb), skb.no \in 1 .. Len(arrived)
    PROVE  SizeUp(skb) = DataSize(arrived[skb.no])
  <1>1. arrived[skb.no] \in FrameLens
    BY ElementOfSeq DEF TypeInv, TypeOK
  <1>2. ~Straddled(arrived[skb.no])
    BY <1>1 DEF FcsTogether
  <1> QED BY <1>2 DEF Measured, SizeUp

\* A frame that has begun has arrived.
LEMMA ArrivedType ==
    ASSUME TypeInv, NEW n \in 1 .. Len(arrived)
    PROVE  arrived[n] \in FrameLens /\ arrived[n] \in Nat
  <1>1. arrived[n] \in FrameLens
    BY ElementOfSeq DEF TypeInv, TypeOK
  <1> QED BY <1>1, RxPathAssumption

\* The chunk in position i: the frames it names have arrived.
LEMMA ChunkArrived ==
    ASSUME TypeInv, OrderInv, NEW i \in 1 .. Len(rx_buf)
    PROVE  LET c == rx_buf[i].c
           IN  /\ c \in Chunks /\ c.no \in Nat /\ c.nxt \in Nat /\ c.off \in Nat
               /\ c.ebo \in 0 .. OA_TC6_CHUNK_PAYLOAD_SIZE - 1
               /\ c.swo \in 0 .. OA_TC6_CHUNK_PAYLOAD_SIZE - 1
               /\ Continues(c) => c.no \in 1 .. Len(arrived)
               /\ c.sv => c.nxt \in 1 .. Len(arrived)
  <1> DEFINE c == rx_buf[i].c
  <1>1. /\ c \in Chunks /\ WellFormed(c) /\ BegunBy(c) <= sent_up
        /\ sent_up <= Len(arrived) /\ sent_up \in Nat /\ Len(arrived) \in Nat
    BY LatestType DEF OrderInv, ChunkInv
  <1> HIDE DEF c
  <1>2. /\ c.no \in Nat /\ c.nxt \in Nat /\ c.off \in Nat
        /\ c.ebo \in 0 .. OA_TC6_CHUNK_PAYLOAD_SIZE - 1
        /\ c.swo \in StartOffsets
    BY <1>1 DEF Chunks
  <1>3. c.swo \in 0 .. OA_TC6_CHUNK_PAYLOAD_SIZE - 1
    BY <1>2, RxPathAssumption
  <1>4. ASSUME c.sv PROVE c.nxt \in 1 .. Len(arrived)
    BY <1>1, <1>2, <1>4 DEF WellFormed, BegunBy
  <1>5. ASSUME Continues(c) PROVE c.no \in 1 .. Len(arrived)
    <2>1. c.no > 0 /\ c.no = BegunBefore(c)
      BY <1>1, <1>5 DEF WellFormed
    <2>2. BegunBefore(c) <= BegunBy(c) /\ BegunBy(c) \in Nat
      BY <1>2 DEF BegunBefore, BegunBy
    <2> QED BY <1>1, <1>2, <2>1, <2>2
  <1> QED BY <1>1, <1>2, <1>3, <1>4, <1>5 DEF c

\* Initially there are no bytes.
LEMMA BytesInit == Init => BytesInv
  <1> SUFFICES ASSUME Init PROVE BytesInv
    OBVIOUS
  <1>1. /\ rx_buf = <<>> /\ Len(rx_buf) = 0 /\ rx_next = 1
        /\ delivered = <<>> /\ Len(delivered) = 0
        /\ rx_skb = NoSkb /\ cur = NoFrame
    BY EmptySeq DEF Init
  <1> QED BY <1>1 DEF BytesInv, WholeInv, BoundaryInv, SkbInv, LenInv, SizeInv, RisingInv, SkbLen

\* A frame arrives, or data is lost and marked.
LEMMA BytesDevice ==
    ASSUME TypeInv, OrderInv, BytesInv, RxArrive \/ RxOverflow
    PROVE  BytesInv'
  <1>1. UNCHANGED <<rx_buf, rx_next, pc, rx_skb, rx_buf_overflow, delivered>>
    BY DEF RxArrive, RxOverflow
  <1>2. /\ \A n \in 1 .. Len(arrived) : arrived'[n] = arrived[n]
        /\ Len(arrived') >= Len(arrived) /\ Len(arrived) \in Nat /\ Len(arrived') \in Nat
    <2>1. CASE RxArrive
      <3>1. PICK l \in FrameLens : arrived' = Append(arrived, l)
        BY <2>1 DEF RxArrive
      <3>2. /\ Len(arrived') = Len(arrived) + 1 /\ Len(arrived) \in Nat
            /\ \A n \in 1 .. Len(arrived) : arrived'[n] = arrived[n]
        BY <3>1, AppendProperties, LatestType DEF TypeInv, TypeOK
      <3> QED BY <3>2
    <2>2. CASE RxOverflow
      BY <2>2, LatestType DEF RxOverflow
    <2> QED BY <2>1, <2>2
  <1>3. cur' # NoFrame => cur # NoFrame /\ cur'.off = cur.off /\ cur'.no = cur.no
    BY DEF RxArrive, RxOverflow, TypeInv, TypeOK
  <1>4. cur # NoFrame => cur.no \in 1 .. Len(arrived)
    BY LatestType DEF TypeInv, CurInv
  <1>5. WholeInv'
    <2>1. cur' # NoFrame /\ cur'.len # arrived'[cur'.no] => rx_ovf' \/ NoneStarts(Len(rx_buf))
      <3>1. CASE RxArrive
        BY <1>2, <1>4, <3>1 DEF RxArrive, BytesInv, WholeInv
      <3>2. CASE RxOverflow
        BY <3>2 DEF RxOverflow
      <3> QED BY <3>1, <3>2
    <2>2. ASSUME NEW i \in rx_next .. Len(rx_buf), CutShort(i)', ~rx_buf[i].exst
          PROVE  NoneStarts(i - 1)
      <3>1. i \in 1 .. Len(rx_buf)
        BY LatestType DEF TypeInv, TypeOK
      <3>2. CutShort(i)
        BY <1>1, <1>2, <2>2, <3>1, ChunkArrived DEF CutShort, Continues
      <3> QED BY <2>2, <3>2 DEF BytesInv, WholeInv
    <2> QED BY <1>1, <2>1, <2>2 DEF WholeInv, NoneStarts
  <1>6. BoundaryInv'
    <2>1. cur' # NoFrame => Boundary(cur'.off)
      BY <1>3 DEF BytesInv, BoundaryInv
    <2>2. ASSUME NEW i \in 1 .. Len(rx_buf)
          PROVE  LET c == rx_buf[i].c IN
                 /\ Continues(c) => Boundary(c.off) /\ c.off > 0
                 /\ c.sv /\ c.ev /\ c.swo < c.ebo => c.ebo + 1 - c.swo = arrived'[c.nxt]
      BY <1>2, ChunkArrived DEF BytesInv, BoundaryInv
    <2> QED BY <1>1, <2>1, <2>2 DEF BoundaryInv, Continues, Boundary
  <1>7. SkbInv'
    BY <1>1 DEF BytesInv, SkbInv
  <1>8. LenInv'
    <2>1. CASE RxArrive
      BY <1>1, <2>1 DEF RxArrive, BytesInv, LenInv, SkbLen, Cur, Before, Continues, Nothing
    <2>2. CASE RxOverflow
      BY <1>1, <2>2 DEF RxOverflow, BytesInv, LenInv, SkbLen, Before, Continues, Nothing
    <2> QED BY <2>1, <2>2
  <1>9. SizeInv'
    <2> SUFFICES ASSUME NEW i \in 1 .. Len(delivered)
                 PROVE  /\ delivered[i].no \in 1 .. Len(arrived')
                        /\ delivered[i].ok
                        /\ Measured(delivered[i])'
      BY <1>1 DEF SizeInv, Measured
    <2>1. /\ delivered[i].no \in 1 .. Len(arrived)
          /\ delivered[i].ok /\ Measured(delivered[i])
      BY DEF BytesInv, SizeInv
    <2>2. arrived'[delivered[i].no] = arrived[delivered[i].no]
      BY <1>2, <2>1
    <2>3. Measured(delivered[i])'
      BY <1>1, <2>1, <2>2 DEF Measured, Straddled, Boundary, Runt, DataSize
    <2> QED BY <1>2, <2>1, <2>3
  <1>10. RisingInv'
    BY <1>1 DEF BytesInv, RisingInv
  <1> QED BY <1>5, <1>6, <1>7, <1>8, <1>9, <1>10 DEF BytesInv

\* The offset one chunk further on is again a boundary.
LEMMA NextBoundary ==
    ASSUME NEW off \in Nat, Boundary(off)
    PROVE  Boundary(off + OA_TC6_CHUNK_PAYLOAD_SIZE)
  <1> DEFINE P == OA_TC6_CHUNK_PAYLOAD_SIZE
  <1>1. P \in Nat /\ P >= 1 /\ \A s \in StartOffsets : s \in Int
    BY RxPathAssumption
  <1>2. PICK s \in StartOffsets, k \in 1 .. off + P : off = k * P - s
    BY DEF Boundary
  <1> HIDE DEF P
  <1>3. k \in Nat /\ s \in Int /\ k * P \in Int /\ (k + 1) * P = k * P + P
    BY <1>1
  <1>4. off + P = (k + 1) * P - s
    BY <1>1, <1>2, <1>3
  <1>5. k + 1 \in 1 .. (off + P) + P
    BY <1>1, <1>2
  <1> QED BY <1>4, <1>5 DEF Boundary, P

LEMMA FirstBoundary ==
    ASSUME NEW s \in StartOffsets
    PROVE  Boundary(OA_TC6_CHUNK_PAYLOAD_SIZE - s)
  <1> DEFINE P == OA_TC6_CHUNK_PAYLOAD_SIZE
  <1>1. P \in Nat /\ P >= 1 /\ s \in Nat /\ s <= P
    BY RxPathAssumption
  <1>2. 1 \in 1 .. (P - s) + P /\ P - s = 1 * P - s
    BY <1>1
  <1> QED BY <1>2 DEF Boundary

\* With nothing handed up and no frame arrived there is nothing new to measure.
LEMMA SameSizes ==
    ASSUME BytesInv, UNCHANGED <<arrived, delivered>>
    PROVE  SizeInv' /\ RisingInv'
  <1>1. SizeInv'
    BY DEF BytesInv, SizeInv, Measured, Straddled, Boundary, Runt, DataSize
  <1>2. RisingInv'
    BY DEF BytesInv, RisingInv
  <1> QED BY <1>1, <1>2

\* A chunk comes in.  That it ends a frame that was cut short is seen by its
\* mark, or no skb has been started since.
LEMMA BytesExchange ==
    ASSUME Told, TypeInv, TypeInv', OrderInv, BytesInv, Exchange
    PROVE  BytesInv'
  <1>1. /\ EmitIdle \/ EmitStart \/ EmitNext
        /\ pc = "xfer" /\ rx_next = 1 /\ rx_next' = 1
        /\ UNCHANGED <<rx_ovf, overflows, arrived, rx_skb, rx_buf_overflow, pc,
                       rx_next, delivered, leaked>>
    BY DEF Exchange, TypeInv, IndexInv
  <1>2. PICK C \in Chunks : Emitted(C)
    BY <1>1, EmitShape
  <1> DEFINE n == Len(rx_buf)
             mark == ErrorsUnmasked /\ rx_ovf
  <1>3. mark \in BOOLEAN /\ (mark <=> rx_ovf)
    BY MarkSeen
  <1> HIDE DEF mark
  <1> DEFINE entry == [c |-> C, exst |-> mark]
  <1>4. /\ n \in Nat /\ Len(rx_buf') = n + 1
        /\ \A i \in 1 .. n : rx_buf'[i] = rx_buf[i]
        /\ rx_buf'[n + 1] = entry /\ rx_buf' # <<>>
    <2>1. rx_buf' = Append(rx_buf, entry) /\ entry \in [c : Chunks, exst : BOOLEAN]
      BY <1>2, <1>3 DEF Emitted, mark
    <2>2. rx_buf \in Seq([c : Chunks, exst : BOOLEAN])
      BY DEF TypeInv, TypeOK
    <2>3. /\ Len(rx_buf') = n + 1 /\ rx_buf'[n + 1] = entry
          /\ \A i \in 1 .. n : rx_buf'[i] = rx_buf[i]
          /\ n \in Nat
      BY <2>1, <2>2, AppendProperties, LenProperties
    <2>4. rx_buf' # <<>>
      BY <2>3, EmptySeq
    <2> QED BY <2>3, <2>4
  <1>5. entry.c = C /\ (entry.exst <=> rx_ovf)
    BY <1>3
  <1> HIDE DEF entry
  <1>6. /\ BegunBefore(C) = sent_up /\ BegunBy(C) = sent_up' /\ WellFormed(C)
        /\ Before(C) = Cur /\ After(C) = Cur'
        /\ Continues(C) /\ C.ev => C.off + C.ebo + 1 = cur.len
        /\ C.sv /\ C.ev /\ C.swo < C.ebo => C.ebo + 1 - C.swo = arrived[C.nxt]
        /\ IF C.sv THEN cur' # NoFrame => cur'.len = arrived[sent_up + 1]
                   ELSE cur' # NoFrame => cur'.len = cur.len /\ cur # NoFrame
    BY <1>2 DEF Emitted
  <1>7. /\ C.no \in Nat /\ C.nxt \in Nat /\ C.off \in Nat /\ C.swo \in StartOffsets
        /\ sent_up \in Nat /\ Len(arrived) \in Nat
    BY <1>2, LatestType DEF Chunks
  <1>8. Continues(C) => C.no = cur.no /\ C.off = cur.off /\ C.no > 0 /\ cur # NoFrame
    <2> SUFFICES ASSUME Continues(C)
                 PROVE  C.no = cur.no /\ C.off = cur.off /\ C.no > 0 /\ cur # NoFrame
      OBVIOUS
    <2>1. C.no = cur.no /\ C.off = cur.off /\ C.no > 0
      BY <1>6 DEF Before, Cur, WellFormed
    <2> QED BY <2>1 DEF NoFrame
  <1>9. WholeInv'
    <2>1. \A m \in 0 .. n : NoneStarts(m) => NoneStarts(m)'
      BY <1>1, <1>4 DEF NoneStarts
    <2>2. ASSUME cur' # NoFrame, cur'.len # arrived'[cur'.no], ~rx_ovf'
          PROVE  rx_buf_overflow /\ \A j \in 1 .. n + 1 : ~rx_buf'[j].c.sv
      <3>1. cur'.no = sent_up'
        BY <2>2 DEF TypeInv, CurInv
      <3>2. ~C.sv
        <4> SUFFICES ASSUME C.sv PROVE FALSE
          OBVIOUS
        <4>1. sent_up' = sent_up + 1
          BY <1>6, <1>7 DEF BegunBefore, BegunBy
        <4> QED BY <1>1, <1>6, <2>2, <3>1, <4>1
      <3>3. sent_up' = sent_up /\ cur # NoFrame /\ cur'.len = cur.len
        BY <1>6, <2>2, <3>2 DEF BegunBefore
      <3>4. cur.no = sent_up
        BY <3>3 DEF TypeInv, CurInv
      <3>5. NoneStarts(n)
        BY <1>1, <2>2, <3>1, <3>3, <3>4 DEF BytesInv, WholeInv
      <3>6. rx_buf_overflow /\ \A j \in 1 .. n : ~rx_buf[j].c.sv
        BY <1>1, <3>5 DEF NoneStarts
      <3>7. ASSUME NEW j \in 1 .. n + 1 PROVE ~rx_buf'[j].c.sv
        <4>1. CASE j \in 1 .. n
          BY <1>4, <3>6, <4>1
        <4>2. CASE j = n + 1
          BY <1>4, <1>5, <3>2, <4>2
        <4> QED BY <1>4, <4>1, <4>2
      <3> QED BY <3>6, <3>7
    <2>3. ASSUME NEW i \in 1 .. n + 1, CutShort(i)', ~rx_buf'[i].exst
          PROVE  NoneStarts(i - 1)'
      <3>1. CASE i \in 1 .. n
        <4>1. CutShort(i) /\ ~rx_buf[i].exst
          BY <1>1, <1>4, <2>3, <3>1 DEF CutShort, Continues
        <4>2. NoneStarts(i - 1)
          BY <1>1, <3>1, <4>1 DEF BytesInv, WholeInv
        <4>3. i - 1 \in 0 .. n
          BY <1>4, <3>1
        <4> QED BY <2>1, <4>2, <4>3
      <3>2. CASE i = n + 1
        <4>1. /\ Continues(C) /\ C.ev /\ ~rx_ovf
              /\ C.off + C.ebo + 1 # arrived[C.no]
          BY <1>1, <1>4, <1>5, <2>3, <3>2 DEF CutShort, Continues
        <4>2. cur # NoFrame /\ cur.len # arrived[cur.no]
          BY <1>6, <1>8, <4>1
        <4>3. NoneStarts(n)
          BY <4>1, <4>2 DEF BytesInv, WholeInv
        <4>4. i - 1 = n /\ n \in 0 .. n
          BY <1>4, <3>2
        <4> QED BY <2>1, <4>3, <4>4
      <3> QED BY <1>4, <3>1, <3>2
    <2>4. cur' # NoFrame /\ cur'.len # arrived'[cur'.no] => rx_ovf' \/ NoneStarts(Len(rx_buf))'
      BY <1>1, <1>4, <2>2 DEF NoneStarts
    <2> QED BY <1>1, <1>4, <2>3, <2>4 DEF WholeInv
  <1>10. BoundaryInv'
    <2>1. ASSUME cur' # NoFrame PROVE Boundary(cur'.off)
      <3>1. cur'.off > 0 /\ cur'.off = After(C).off
        BY <1>6, <2>1 DEF TypeInv, CurInv, Cur
      <3>2. CASE C.sv /\ (C.ev => C.swo > C.ebo)
        BY <1>7, <3>1, <3>2, FirstBoundary DEF After
      <3>3. CASE ~(C.sv /\ (C.ev => C.swo > C.ebo)) /\ C.dv /\ ~C.ev
        <4>1. Continues(C)
          BY <3>3 DEF Continues
        <4>2. Boundary(C.off)
          BY <1>8, <4>1 DEF BytesInv, BoundaryInv
        <4>3. cur'.off = C.off + OA_TC6_CHUNK_PAYLOAD_SIZE
          BY <3>1, <3>3 DEF After
        <4> QED BY <1>7, <4>2, <4>3, NextBoundary
      <3>4. CASE ~(C.sv /\ (C.ev => C.swo > C.ebo)) /\ ~(C.dv /\ ~C.ev)
        <4>1. cur'.off = 0
          BY <3>1, <3>4 DEF After, Nothing
        <4> QED BY <3>1, <4>1
      <3> QED BY <3>2, <3>3, <3>4
    <2>2. ASSUME Continues(C) PROVE Boundary(C.off) /\ C.off > 0
      BY <1>8, <2>2 DEF BytesInv, BoundaryInv, TypeInv, CurInv
    <2>3. ASSUME NEW i \in 1 .. n + 1
          PROVE  LET c == rx_buf'[i].c IN
                 /\ Continues(c) => Boundary(c.off) /\ c.off > 0
                 /\ c.sv /\ c.ev /\ c.swo < c.ebo => c.ebo + 1 - c.swo = arrived[c.nxt]
      <3>1. CASE i \in 1 .. n
        BY <1>4, <3>1 DEF BytesInv, BoundaryInv
      <3>2. CASE i = n + 1
        BY <1>4, <1>5, <1>6, <2>2, <3>2
      <3> QED BY <1>4, <3>1, <3>2
    <2> QED BY <1>1, <1>4, <2>1, <2>3 DEF BoundaryInv, Continues, Boundary
  <1>11. LenInv'
    <2>1. CASE rx_buf = <<>>
      <3>1. n = 0 /\ rx_buf'[1] = entry
        BY <1>4, <2>1, EmptySeq
      <3>2. ~rx_ovf => SkbLen(Before(C))
        BY <1>1, <1>6, <2>1 DEF BytesInv, LenInv
      <3> QED BY <1>1, <1>4, <1>5, <3>1, <3>2 DEF LenInv, SkbLen, Before, Continues, Nothing
    <2>2. CASE rx_buf # <<>>
      <3>1. rx_buf'[1] = rx_buf[1]
        BY <1>4, <2>2, LatestType
      <3>2. ~rx_buf[1].exst => SkbLen(Before(rx_buf[1].c))
        BY <1>1, <2>2 DEF BytesInv, LenInv
      <3> QED BY <1>1, <1>4, <3>1, <3>2 DEF LenInv, SkbLen, Before, Continues, Nothing
    <2> QED BY <2>1, <2>2
  <1>12. SkbInv' /\ SizeInv' /\ RisingInv'
    BY <1>1, SameSizes DEF BytesInv, SkbInv
  <1> QED BY <1>9, <1>10, <1>11, <1>12 DEF BytesInv

\* On to the next chunk: after a loss the thread keeps skipping until a frame
\* starts, and the skb in the making is as long as its frame has been seen.
LEMMA BytesNext ==
    ASSUME TypeInv, OrderInv, BytesInv, pc = "process", NextChunk, UNCHANGED devVars,
           rx_buf_overflow /\ ~Chunk.sv => rx_buf_overflow',
           NEW o, o = After(Chunk), SkbLen(o)', SkbInv', SizeInv', RisingInv'
    PROVE  BytesInv'
  <1>1. /\ rx_next \in 1 .. Len(rx_buf) /\ Len(rx_buf) \in Nat /\ rx_buf # <<>>
        /\ Chunk = rx_buf[rx_next].c
    BY ChunkThere DEF Chunk
  <1>2. /\ cur # NoFrame /\ cur.len # arrived[cur.no] => rx_ovf \/ NoneStarts(Len(rx_buf))
        /\ \A i \in rx_next .. Len(rx_buf) :
             CutShort(i) /\ ~rx_buf[i].exst => NoneStarts(i - 1)
    BY DEF BytesInv, WholeInv
  <1>3. CASE MoreChunks
    <2>1. rx_next' = rx_next + 1 /\ UNCHANGED <<rx_buf, pc>>
      BY <1>3 DEF NextChunk
    <2>2. rx_next \in 1 .. Len(rx_buf) - 1
      BY <1>1, <1>3 DEF MoreChunks
    <2>3. ASSUME NEW i \in rx_next .. Len(rx_buf), NoneStarts(i) PROVE NoneStarts(i)'
      <3>1. rx_next \in rx_next .. i
        BY <1>1
      <3>2. rx_buf_overflow /\ ~Chunk.sv
        BY <1>1, <2>3, <3>1 DEF NoneStarts
      <3>3. \A j \in rx_next + 1 .. i : j \in rx_next .. i
        BY <1>1
      <3> QED BY <2>1, <2>3, <3>2, <3>3 DEF NoneStarts
    <2>4. WholeInv'
      <3>1. cur' # NoFrame /\ cur'.len # arrived'[cur'.no]
              => rx_ovf' \/ NoneStarts(Len(rx_buf))'
        <4>1. PICK n : n = Len(rx_buf)
          OBVIOUS
        <4>2. n \in rx_next .. Len(rx_buf)
          BY <1>1, <4>1
        <4>3. NoneStarts(n) => NoneStarts(n)'
          BY <2>3, <4>2
        <4> QED BY <1>2, <2>1, <4>1, <4>3 DEF NoneStarts
      <3>2. ASSUME NEW i \in rx_next + 1 .. Len(rx_buf), CutShort(i)', ~rx_buf[i].exst
            PROVE  NoneStarts(i - 1)'
        <4>1. i \in rx_next .. Len(rx_buf) /\ i - 1 \in rx_next .. Len(rx_buf)
          BY <1>1
        <4>2. CutShort(i)
          BY <2>1, <3>2 DEF CutShort, Continues
        <4> QED BY <1>2, <2>3, <3>2, <4>1, <4>2
      <3> QED BY <2>1, <3>1, <3>2 DEF WholeInv
    <2>5. BoundaryInv'
      BY <2>1 DEF BytesInv, BoundaryInv
    <2>6. LenInv'
      <3> DEFINE next == rx_buf[rx_next + 1]
      <3>1. ~next.exst => o = Before(next.c)
        BY <1>1, <2>2 DEF OrderInv, ChainInv
      <3>2. rx_buf'[rx_next'] = next
        BY <2>1
      <3> HIDE DEF next
      <3> QED BY <1>1, <2>1, <3>1, <3>2 DEF LenInv, SkbLen, Before, Continues, Nothing
    <2> QED BY <2>4, <2>5, <2>6 DEF BytesInv
  <1>4. CASE ~MoreChunks
    <2>1. rx_next' = 1 /\ rx_buf' = <<>> /\ pc' = "xfer" /\ Len(rx_buf') = 0
      BY <1>4, EmptySeq DEF NextChunk
    <2>2. rx_next = Len(rx_buf)
      BY <1>1, <1>4 DEF MoreChunks
    <2>3. ASSUME NoneStarts(Len(rx_buf)) PROVE rx_buf_overflow'
      BY <1>1, <2>2, <2>3 DEF NoneStarts
    <2>4. WholeInv'
      BY <1>2, <2>1, <2>3 DEF WholeInv, NoneStarts
    <2>5. BoundaryInv'
      BY <2>1 DEF BytesInv, BoundaryInv
    <2>6. LenInv'
      <3>1. ~rx_ovf => After(Chunk) = Cur
        BY <1>1, <2>2 DEF OrderInv, BackInv
      <3> QED BY <2>1, <3>1 DEF LenInv, SkbLen, Cur
    <2> QED BY <2>4, <2>5, <2>6 DEF BytesInv
  <1> QED BY <1>3, <1>4

\* The thread goes on to process, fails, or throws the buffer away.
LEMMA BytesEnds ==
    ASSUME TypeInv, OrderInv, BytesInv,
           TransferDone \/ SpiFail \/ OverflowStatus \/ DeviceError
    PROVE  BytesInv'
  <1>1. CASE TransferDone \/ SpiFail
    <2>1. /\ UNCHANGED <<devVars, rx_skb, rx_buf_overflow, rx_buf, rx_next, delivered, leaked>>
          /\ pc = "xfer" /\ (pc' = "exited" \/ rx_buf # <<>>)
      BY <1>1 DEF TransferDone, SpiFail
    <2>2. WholeInv' /\ BoundaryInv' /\ SkbInv'
      BY <2>1 DEF BytesInv, WholeInv, NoneStarts, CutShort, BoundaryInv, SkbInv
    <2>3. LenInv' /\ SizeInv' /\ RisingInv'
      BY <2>1, SameSizes DEF BytesInv, LenInv, SkbLen
    <2> QED BY <2>2, <2>3 DEF BytesInv
  <1>2. CASE OverflowStatus \/ DeviceError
    <2>1. /\ rx_skb' = NoSkb /\ rx_next' = 1 /\ rx_buf' = <<>> /\ Len(rx_buf') = 0
          /\ UNCHANGED <<cur, arrived, delivered, overflows>>
          /\ rx_buf_overflow' \/ (UNCHANGED <<rx_buf_overflow, rx_ovf>>)
      BY <1>2, EmptySeq DEF OverflowStatus, DeviceError, Freed
    <2>2. WholeInv'
      BY <2>1 DEF BytesInv, WholeInv, NoneStarts
    <2>3. SizeInv' /\ RisingInv'
      BY <2>1, SameSizes
    <2> QED BY <2>1, <2>2, <2>3
            DEF BytesInv, BoundaryInv, SkbInv, LenInv, SkbLen, Cur
  <1> QED BY <1>1, <1>2

\* A chunk that is passed over finds no skb.
LEMMA BytesSkip ==
    ASSUME TypeInv, OrderInv, BytesInv, SkipChunk
    PROVE  BytesInv'
  <1>1. /\ pc = "process" /\ ~rx_buf[rx_next].exst /\ NextChunk
        /\ ~Chunk.dv \/ (rx_buf_overflow /\ ~Chunk.sv)
        /\ UNCHANGED <<devVars, rx_skb, rx_buf_overflow, delivered, leaked>>
    BY DEF SkipChunk, Skipping
  <1>2. HoldsFrame(Before(Chunk))
    BY <1>1, AtChunk
  <1>3. rx_skb = NoSkb
    BY <1>1, <1>2 DEF HoldsFrame, Before, Continues, Nothing
  <1>4. SkbInv' /\ SizeInv' /\ RisingInv'
    BY <1>1, SameSizes DEF BytesInv, SkbInv
  <1>5. PICK o : o = After(Chunk)
    OBVIOUS
  <1>6. SkbLen(o)'
    BY <1>1, <1>3 DEF SkbLen
  <1> QED BY <1>1, <1>4, <1>5, <1>6, BytesNext

\* Up to 255 the bytes of a chunk are counted as they are.
LEMMA SmallBytes == \A n \in 0 .. 255 : U8(n) = n
  BY DEF U8

\* With an skb in the making, the chunk goes on with its frame where it stops,
\* and if it ends the frame, it ends all of it.
LEMMA HeldBytes ==
    ASSUME TypeInv, OrderInv, BytesInv, HasPayload, rx_skb # NoSkb
    PROVE  /\ Continues(Chunk) /\ rx_skb.ok /\ rx_skb.no = Chunk.no
           /\ rx_skb.len + TimestampSize = Chunk.off
           /\ Chunk.no \in 1 .. Len(arrived)
           /\ Boundary(Chunk.off) /\ Chunk.off > 0
           /\ Chunk.ev => Chunk.off + Chunk.ebo + 1 = arrived[Chunk.no]
  <1>1. /\ pc = "process" /\ ~rx_buf[rx_next].exst
        /\ rx_next \in 1 .. Len(rx_buf) /\ rx_buf # <<>> /\ Chunk = rx_buf[rx_next].c
        /\ Len(rx_buf) \in Nat
    BY ChunkThere DEF HasPayload, Chunk
  <1>2. Continues(Chunk) /\ rx_skb.no = Chunk.no /\ rx_skb.ok
    BY HeldSkb DEF BytesInv, SkbInv
  <1>3. rx_skb.len + TimestampSize = Chunk.off
    <2>1. SkbLen(Before(Chunk))
      BY <1>1 DEF BytesInv, LenInv
    <2> QED BY <1>2, <2>1 DEF SkbLen, Before
  <1>4. Chunk.no \in 1 .. Len(arrived)
    BY <1>1, <1>2, ChunkArrived
  <1>5. Boundary(Chunk.off) /\ Chunk.off > 0
    BY <1>1, <1>2 DEF BytesInv, BoundaryInv
  <1>6. ASSUME Chunk.ev PROVE Chunk.off + Chunk.ebo + 1 = arrived[Chunk.no]
    <2>1. ~rx_buf_overflow
      BY <1>1, AtChunk DEF HoldsFrame
    <2>2. ~CutShort(rx_next)
      <3>1. rx_next \in rx_next .. Len(rx_buf)
        BY <1>1
      <3> QED BY <1>1, <2>1, <3>1 DEF BytesInv, WholeInv, NoneStarts
    <2> QED BY <1>1, <1>2, <1>6, <2>2 DEF CutShort
  <1> QED BY <1>2, <1>3, <1>4, <1>5, <1>6

\* The frame that ends goes up as it is, without its FCS, but for the size that
\* wraps around if less than the FCS comes last.
LEMMA EndedAsIs ==
    ASSUME TypeInv, OrderInv, BytesInv, HasPayload, rx_skb # NoSkb, Chunk.ev
    PROVE  UpAsIs(Ended(rx_skb))
  <1>1. /\ rx_skb.ok /\ rx_skb.no = Chunk.no
        /\ rx_skb.len + TimestampSize = Chunk.off
        /\ Chunk.no \in 1 .. Len(arrived)
        /\ Boundary(Chunk.off) /\ Chunk.off + Chunk.ebo + 1 = arrived[Chunk.no]
    BY HeldBytes
  <1>2. /\ Chunk \in Chunks /\ rx_skb \in Skbs /\ Chunk.no = BegunBefore(Chunk)
        /\ Near(Latest + Held, BegunBefore(Chunk))
    BY HeldSkb, AtChunk DEF HasPayload, TypeInv, TypeOK
  <1>3. /\ Chunk.ebo \in 0 .. OA_TC6_CHUNK_PAYLOAD_SIZE - 1 /\ Chunk.off \in Nat
        /\ Chunk.no \in Nat /\ rx_skb.len \in Nat /\ OA_TC6_CHUNK_PAYLOAD_SIZE \in 1 .. 64
    BY <1>2, RxPathAssumption DEF Chunks, Skbs
  <1>4. arrived[Chunk.no] \in FrameLens /\ arrived[Chunk.no] \in Nat
    BY <1>1, ArrivedType
  <1> DEFINE l == arrived[Chunk.no]
             wrap == IF l - Chunk.off < FcsSize THEN 256 ELSE 0
  <1>5. wrap = 0 \/ (wrap = 256 /\ Straddled(l))
    <2>1. Chunk.off \in 0 .. l - 1
      BY <1>1, <1>3, <1>4
    <2> QED BY <1>1, <2>1 DEF Straddled
  <1>6. EndSize \in Int /\ U8(EndSize) = l - Chunk.off - FcsSize + wrap
    <2>1. EndSize = l - Chunk.off - 4 /\ l - Chunk.off \in 1 .. 64
      <3>1. \A a, b, o \in Nat : o + b + 1 = a /\ b <= 63
              => b + 1 - 4 = a - o - 4 /\ a - o \in 1 .. 64
        OBVIOUS
      <3>2. Chunk.ebo \in Nat /\ Chunk.ebo <= 63
        BY <1>3
      <3>3. Chunk.ebo + 1 - 4 = l - Chunk.off - 4 /\ l - Chunk.off \in 1 .. 64
        BY <1>1, <1>3, <1>4, <3>1, <3>2
      <3> QED BY <3>3 DEF EndSize, FcsSize
    <2>2. PICK k \in 1 .. 64 : k = l - Chunk.off
      BY <2>1
    <2> HIDE DEF l
    <2>3. EndSize = k - 4 /\ wrap = (IF k < 4 THEN 256 ELSE 0)
      BY <2>1, <2>2 DEF FcsSize
    <2>4. (k - 4) % 256 = k - 4 + (IF k < 4 THEN 256 ELSE 0)
      OBVIOUS
    <2> QED BY <2>2, <2>3, <2>4 DEF U8, FcsSize
  <1>7. l \in Nat /\ wrap \in Nat
    BY <1>4
  <1> HIDE DEF wrap
  <1> DEFINE e == Ended(rx_skb)
  <1>8. e \in Skbs /\ e.no = Chunk.no /\ e.len = rx_skb.len + U8(EndSize) /\ e.ok
    <2>1. rx_skb \in Skbs /\ Chunk.no \in Nat /\ Chunk.off \in Nat /\ EndSize \in Int
      BY <1>2, <1>3, <1>6
    <2> DEFINE f == Put(rx_skb, Chunk.no, Chunk.off, EndSize)
    <2>2. /\ f \in Skbs /\ f.no = rx_skb.no /\ f.len = rx_skb.len + U8(EndSize)
      BY <2>1, PutType
    <2>3. e = f
      BY DEF Ended
    <2>4. f.ok
      BY <1>1, <2>1, PutContinues
    <2> HIDE DEF e, f
    <2> QED BY <1>1, <2>2, <2>3, <2>4
  <1> HIDE DEF e
  <1>9. Near(Latest + 1, e.no)
    BY <1>2, <1>8 DEF Held
  <1>10. e.len = DataSize(l) + wrap
    <2>1. rx_skb.len + 8 = Chunk.off /\ U8(EndSize) = l - Chunk.off - 4 + wrap
      BY <1>1, <1>6 DEF TimestampSize, FcsSize
    <2>2. rx_skb.len + U8(EndSize) = l - 8 - 4 + wrap
      BY <1>3, <1>7, <2>1
    <2> QED BY <1>8, <2>2 DEF DataSize, TimestampSize, FcsSize
  <1>11. Measured(e)
    <2>1. DataSize(l) \in Int
      BY <1>7 DEF DataSize, TimestampSize, FcsSize
    <2>2. e.len = DataSize(l) \/ (Straddled(l) /\ e.len = DataSize(l) + 256)
      BY <1>5, <1>10, <2>1
    <2> QED BY <1>8, <2>2 DEF Measured
  <1>12. UpAsIs(e)
    BY <1>1, <1>8, <1>9, <1>11 DEF UpAsIs
  <1> QED BY <1>12 DEF e

\* A frame that is all in one chunk goes up; it is shorter than the minimum.
LEMMA CompleteAsIs ==
    ASSUME TypeInv, OrderInv, BytesInv, CompleteFrame
    PROVE  UpAsIs(Started(Chunk.ebo + 1 - Chunk.swo))
  <1>1. /\ HasPayload /\ pc = "process" /\ Chunk.sv /\ Chunk.ev /\ Chunk.swo < Chunk.ebo
    BY DEF CompleteFrame, Payload, HasPayload
  <1>2. /\ Chunk \in Chunks /\ Near(Latest + Held, BegunBefore(Chunk))
        /\ rx_next \in 1 .. Len(rx_buf) /\ Chunk = rx_buf[rx_next].c
    BY <1>1, AtChunk, ChunkThere DEF Chunk
  <1>3. /\ Chunk.nxt \in 1 .. Len(arrived) /\ Chunk.nxt \in Nat
        /\ Chunk.ebo \in 0 .. OA_TC6_CHUNK_PAYLOAD_SIZE - 1
        /\ Chunk.swo \in 0 .. OA_TC6_CHUNK_PAYLOAD_SIZE - 1
    BY <1>1, <1>2, ChunkArrived
  <1>4. OA_TC6_CHUNK_PAYLOAD_SIZE \in 1 .. 64
    BY RxPathAssumption
  <1>5. rx_skb = NoSkb /\ Held = 0
    <2>1. ~Continues(Chunk)
      BY <1>1, <1>3 DEF Continues
    <2> QED BY <1>1, <2>1, HeldSkb DEF Held
  <1>6. Near(Latest + 1, Chunk.nxt)
    BY <1>1, <1>2, <1>3, <1>5, LatestType DEF Near, BegunBefore
  <1> DEFINE l == arrived[Chunk.nxt]
             size == Chunk.ebo + 1 - Chunk.swo
             e == Started(size)
  <1>7. /\ size = l /\ size \in Int /\ Runt(l)
        /\ size - TimestampSize \in 0 .. 255 /\ size - TimestampSize = DataSize(l) + FcsSize
    <2>1. size = l
      BY <1>1, <1>2 DEF BytesInv, BoundaryInv
    <2>2. l \in Nat /\ l > 12
      BY <1>3, ArrivedType, RxPathAssumption DEF TimestampSize, FcsSize
    <2>3. l <= 64
      BY <1>3, <1>4, <2>1
    <2> HIDE DEF l, size
    <2> QED BY <2>1, <2>2, <2>3 DEF Runt, DataSize, TimestampSize, FcsSize, MinFrameSize
  <1>8. e \in Skbs /\ e.no = Chunk.nxt /\ e.ok /\ e.len = U8(size - TimestampSize)
    BY <1>2, <1>7, StartedType
  <1>9. e.len = DataSize(l) + FcsSize
    BY <1>7, <1>8, SmallBytes
  <1>10. Measured(e)
    BY <1>7, <1>8, <1>9 DEF Measured
  <1> HIDE DEF e
  <1>11. UpAsIs(e)
    BY <1>3, <1>6, <1>8, <1>10 DEF UpAsIs
  <1> QED BY <1>11 DEF e

\* What a step of the thread hands up.
LEMMA StepDelivers ==
    ASSUME TypeInv, OrderInv, BytesInv,
           \/ CompleteFrame \/ FrameStart \/ FrameEnd \/ EndAndStart
           \/ OngoingFrame \/ AllocFails
    PROVE  /\ HasPayload /\ pc = "process" /\ UNCHANGED devVars
           /\ delivered' = delivered \/ \E skb \in Skbs : UpAsIs(skb) /\ Submit(skb)
  <1>1. HasPayload /\ pc = "process" /\ UNCHANGED devVars
    BY DEF CompleteFrame, FrameStart, FrameEnd, EndAndStart, OngoingFrame, AllocFails,
           Payload, HasPayload
  <1>2. CASE CompleteFrame
    <2>1. UpAsIs(Started(Chunk.ebo + 1 - Chunk.swo)) /\ Submit(Started(Chunk.ebo + 1 - Chunk.swo))
      BY <1>2, CompleteAsIs DEF CompleteFrame
    <2> QED BY <1>1, <2>1 DEF UpAsIs
  <1>3. CASE /\ rx_skb # NoSkb /\ Chunk.ev /\ Submit(Ended(rx_skb))
    <2>1. UpAsIs(Ended(rx_skb))
      BY <1>1, <1>3, EndedAsIs
    <2> QED BY <1>1, <1>3, <2>1 DEF UpAsIs
  <1>4. CASE delivered' = delivered
    BY <1>1, <1>4
  <1> QED BY <1>2, <1>3, <1>4
          DEF FrameStart, FrameEnd, EndAndStart, OngoingFrame, AllocFails,
              SubmitPrevious, HasPrevious, EndThenStart

\* What is handed up has its size and comes behind what was handed up before.
LEMMA SizeStep ==
    ASSUME TypeInv, BytesInv, Chunk \in Chunks, UNCHANGED arrived,
           delivered' = delivered \/ \E skb \in Skbs : UpAsIs(skb) /\ Submit(skb)
    PROVE  SizeInv' /\ RisingInv'
  <1>1. CASE delivered' = delivered
    BY <1>1, SameSizes
  <1>2. CASE \E skb \in Skbs : UpAsIs(skb) /\ Submit(skb)
    <2>1. PICK skb \in Skbs : UpAsIs(skb) /\ Submit(skb)
      BY <1>2
    <2> DEFINE n == Len(delivered)
    <2>2. /\ Len(delivered') = n + 1 /\ n \in Nat
          /\ \A i \in 1 .. n : delivered'[i] = delivered[i]
          /\ delivered'[n + 1].no = skb.no /\ delivered'[n + 1].len = skb.len
          /\ delivered'[n + 1].ok = skb.ok
      <3>1. delivered \in Seq(Skbs) /\ n \in Nat
        BY LatestType DEF TypeInv, TypeOK
      <3> QED BY <2>1, <3>1, SubmitType
    <2>3. SizeInv'
      <3> SUFFICES ASSUME NEW i \in 1 .. n + 1
                   PROVE  /\ delivered'[i].no \in 1 .. Len(arrived)
                          /\ delivered'[i].ok
                          /\ Measured(delivered'[i])
        BY <2>2 DEF SizeInv, Measured
      <3>1. CASE i \in 1 .. n
        BY <2>2, <3>1 DEF BytesInv, SizeInv
      <3>2. CASE i = n + 1
        BY <2>1, <2>2, <3>2 DEF UpAsIs, Measured
      <3> QED BY <2>2, <3>1, <3>2
    <2>4. skb.no \in Nat /\ Latest \in Nat /\ Latest + 1 <= skb.no
      BY <2>1, LatestType DEF UpAsIs, Near
    <2>5. ASSUME NEW i \in 1 .. n
          PROVE  delivered[i].no \in Nat /\ delivered[i].no <= Latest
      <3>1. n \in 1 .. n /\ n > 0 /\ delivered # <<>>
        BY <2>2, EmptySeq
      <3>2. Latest = delivered[n].no
        BY <3>1 DEF Latest
      <3>3. delivered[i].no \in Nat
        BY LatestType DEF BytesInv, SizeInv
      <3>4. i < n => delivered[i].no < delivered[n].no
        BY <3>1 DEF BytesInv, RisingInv
      <3>5. delivered[i].no <= Latest
        BY <2>2, <2>4, <3>2, <3>3, <3>4
      <3> QED BY <3>3, <3>5
    <2>6. ASSUME NEW i \in 1 .. n + 1, NEW j \in 1 .. n + 1, i < j
          PROVE  delivered'[i].no < delivered'[j].no
      <3>1. i \in 1 .. n
        BY <2>2, <2>6
      <3>2. CASE j \in 1 .. n
        BY <2>2, <2>6, <3>1, <3>2 DEF BytesInv, RisingInv
      <3>3. CASE j = n + 1
        <4>1. delivered'[i].no <= Latest /\ delivered'[i].no \in Nat
          BY <2>2, <2>5, <3>1
        <4>2. delivered'[j].no = skb.no
          BY <2>2, <3>3
        <4> QED BY <2>4, <4>1, <4>2
      <3> QED BY <2>2, <3>2, <3>3
    <2> QED BY <2>2, <2>3, <2>6 DEF RisingInv
  <1> QED BY <1>1, <1>2

\* A frame starts: its skb has the bytes of the chunk behind the timestamp.
LEMMA BytesStart ==
    ASSUME StartsWhole, TypeInv, OrderInv, BytesInv, FrameStart \/ EndAndStart
    PROVE  BytesInv'
  <1> DEFINE new == Started(StartSize)
  <1>1. /\ HasPayload /\ pc = "process" /\ UNCHANGED devVars /\ NextChunk
        /\ Chunk.sv /\ (Chunk.ev => Chunk.swo > Chunk.ebo)
        /\ rx_skb' = new
    BY DEF FrameStart, EndAndStart, EndThenStart, Payload, HasPayload
  <1>2. /\ Chunk \in Chunks /\ Chunk.swo \in StartOffsets /\ Chunk.swo \in Nat
        /\ OA_TC6_CHUNK_PAYLOAD_SIZE \in 1 .. 64
    BY <1>1, AtChunk, ChunkThere, RxPathAssumption DEF Chunks
  <1>3. Chunk.swo + 8 <= OA_TC6_CHUNK_PAYLOAD_SIZE
    BY <1>2 DEF StartsWhole, TimestampSize
  <1>4. /\ StartSize \in Int /\ StartSize - TimestampSize \in 0 .. 255
        /\ (StartSize - TimestampSize) + TimestampSize = OA_TC6_CHUNK_PAYLOAD_SIZE - Chunk.swo
    BY <1>2, <1>3 DEF StartSize, TimestampSize
  <1>5. new.len = StartSize - TimestampSize /\ new.ok
    <2>1. new.len = U8(StartSize - TimestampSize) /\ new.ok
      BY <1>2, <1>4, StartedType
    <2>2. U8(StartSize - TimestampSize) = StartSize - TimestampSize
      BY <1>4, SmallBytes
    <2> QED BY <2>1, <2>2
  <1> HIDE DEF new
  <1>6. PICK o : o = After(Chunk)
    OBVIOUS
  <1>7. SkbLen(o)'
    <2>1. o.off = OA_TC6_CHUNK_PAYLOAD_SIZE - Chunk.swo
      BY <1>1, <1>6 DEF After
    <2> QED BY <1>1, <1>4, <1>5, <2>1 DEF SkbLen
  <1>8. SkbInv'
    BY <1>1, <1>5 DEF SkbInv
  <1>9. SizeInv' /\ RisingInv'
    BY <1>1, <1>2, StepDelivers, SizeStep
  <1> QED BY <1>1, <1>6, <1>7, <1>8, <1>9, BytesNext

\* A frame ends, or is all in one chunk: no skb is left in the making.
LEMMA BytesEndOfFrame ==
    ASSUME TypeInv, OrderInv, BytesInv, FrameEnd \/ CompleteFrame
    PROVE  BytesInv'
  <1>1. /\ HasPayload /\ pc = "process" /\ UNCHANGED devVars /\ NextChunk
        /\ rx_skb' = NoSkb
    BY DEF FrameEnd, CompleteFrame, Payload, HasPayload
  <1>2. Chunk.sv \/ ~rx_buf_overflow
    BY <1>1 DEF HasPayload, Skipping
  <1>3. PICK o : o = After(Chunk)
    OBVIOUS
  <1>4. SkbLen(o)' /\ SkbInv'
    BY <1>1 DEF SkbLen, SkbInv
  <1>5. SizeInv' /\ RisingInv'
    BY <1>1, AtChunk, StepDelivers, SizeStep
  <1> QED BY <1>1, <1>2, <1>3, <1>4, <1>5, BytesNext

\* A frame goes on with all the bytes of the chunk.
LEMMA BytesOngoing ==
    ASSUME TypeInv, OrderInv, BytesInv, OngoingFrame
    PROVE  BytesInv'
  <1> DEFINE P == OA_TC6_CHUNK_PAYLOAD_SIZE
             e == Put(rx_skb, Chunk.no, Chunk.off, P)
  <1>1. /\ HasPayload /\ pc = "process" /\ UNCHANGED devVars /\ NextChunk
        /\ rx_skb # NoSkb /\ Chunk.sv = Chunk.ev /\ (Chunk.sv => Chunk.swo = Chunk.ebo)
        /\ rx_skb' = e /\ UNCHANGED delivered
    BY DEF OngoingFrame, Payload, HasPayload
  <1>2. /\ Chunk \in Chunks /\ WellFormed(Chunk) /\ rx_skb \in Skbs
    BY <1>1, AtChunk DEF TypeInv, TypeOK
  <1>3. Chunk.no \in Nat /\ Chunk.off \in Nat /\ P \in 0 .. 255 /\ P \in Int
    BY <1>2, RxPathAssumption DEF Chunks
  <1>4. rx_skb.ok /\ rx_skb.no = Chunk.no /\ rx_skb.len + TimestampSize = Chunk.off
    BY <1>1, HeldBytes
  <1>5. ~Chunk.sv /\ ~Chunk.ev /\ Chunk.dv
    BY <1>1, <1>2 DEF WellFormed, Chunks, HasPayload
  <1>6. e.ok
    BY <1>2, <1>3, <1>4, PutContinues
  <1>7. e.len = rx_skb.len + P
    <2>1. e.len = rx_skb.len + U8(P)
      BY <1>2, <1>3, PutType
    <2>2. U8(P) = P
      BY <1>3, SmallBytes
    <2> QED BY <2>1, <2>2
  <1> HIDE DEF e, P
  <1>8. PICK o : o = After(Chunk)
    OBVIOUS
  <1>9. SkbLen(o)'
    <2>1. o.off = Chunk.off + P
      BY <1>5, <1>8 DEF After, P
    <2>2. rx_skb.len \in Nat
      BY <1>2 DEF Skbs
    <2>3. (rx_skb.len + P) + TimestampSize = Chunk.off + P
      BY <1>3, <1>4, <2>2 DEF TimestampSize
    <2> QED BY <1>1, <1>7, <2>1, <2>3 DEF SkbLen
  <1>10. SkbInv' /\ SizeInv' /\ RisingInv'
    BY <1>1, <1>6, SameSizes DEF SkbInv
  <1>11. Chunk.sv \/ ~rx_buf_overflow
    BY <1>1 DEF HasPayload, Skipping
  <1> QED BY <1>1, <1>8, <1>9, <1>10, <1>11, BytesNext

\* No memory for the skb of the frame that starts: the buffer is thrown away.
LEMMA BytesAllocFails ==
    ASSUME TypeInv, OrderInv, BytesInv, AllocFails
    PROVE  BytesInv'
  <1>1. /\ HasPayload /\ pc = "process" /\ UNCHANGED devVars /\ Chunk.sv
        /\ rx_skb' = NoSkb /\ rx_buf' = <<>> /\ Len(rx_buf') = 0
        /\ rx_next' = 1 /\ pc' = "exited"
    BY EmptySeq DEF AllocFails, Payload, HasPayload
  <1>2. WholeInv'
    <2>1. rx_next \in rx_next .. Len(rx_buf) /\ Chunk = rx_buf[rx_next].c
      BY <1>1, ChunkThere DEF Chunk
    <2>2. ~NoneStarts(Len(rx_buf))
      BY <1>1, <2>1 DEF NoneStarts
    <2>3. cur # NoFrame /\ cur.len # arrived[cur.no] => rx_ovf
      BY <2>2 DEF BytesInv, WholeInv
    <2> QED BY <1>1, <2>3 DEF WholeInv
  <1>3. SizeInv' /\ RisingInv'
    BY <1>1, AtChunk, StepDelivers, SizeStep
  <1> QED BY <1>1, <1>2, <1>3 DEF BytesInv, BoundaryInv, SkbInv, LenInv

LEMMA BytesStep ==
    OverflowSeen /\ StartsWhole /\ TypeInv /\ OrderInv /\ BytesInv /\ [Next]_vars => BytesInv'
  <1> SUFFICES ASSUME OverflowSeen, StartsWhole, TypeInv, OrderInv, BytesInv, [Next]_vars PROVE BytesInv'
    OBVIOUS
  <1>1. TypeInv' /\ Told
    BY RxTypeStep, SeenTold
  <1>2. CASE UNCHANGED vars
    <2>1. SizeInv' /\ RisingInv'
      BY <1>2, SameSizes
    <2> QED BY <1>2, <2>1
            DEF BytesInv, WholeInv, NoneStarts, CutShort, BoundaryInv, SkbInv, LenInv, SkbLen, Cur
  <1>3. CASE Next
    BY <1>1, <1>3, BytesDevice, BytesExchange, BytesEnds, BytesSkip, BytesStart,
       BytesEndOfFrame, BytesOngoing, BytesAllocFails DEF Next, Thread
  <1> QED BY <1>2, <1>3

LEMMA BytesHold ==
    OverflowSeen /\ StartsWhole => (Spec => [](TypeInv /\ OrderInv /\ BytesInv))
  <1> SUFFICES ASSUME OverflowSeen, StartsWhole
               PROVE  Spec => [](TypeInv /\ OrderInv /\ BytesInv)
    OBVIOUS
  <1>1. Init => TypeInv /\ OrderInv /\ BytesInv
    BY RxTypeInit, OrderInit, BytesInit
  <1>2. TypeInv /\ OrderInv /\ BytesInv /\ [Next]_vars
          => (TypeInv /\ OrderInv /\ BytesInv)'
    BY RxTypeStep, OrderStep, BytesStep, SeenTold
  <1> QED BY <1>1, <1>2, PTL DEF Spec

\* Even where the bytes of an FCS are cut apart, the stack gets frames in the
\* order in which they arrived, none twice and none left out without a loss,
\* each skb from the bytes of its own frame. Its size is that of the frame without
\* the FCS, or 256 more if its own FCS is cut apart (size - 4 in a u8,
\* prcs_rx_frame_end), or with the FCS if the frame is a single chunk.
THEOREM RxOwnFrames ==
    OverflowSeen /\ StartsWhole => (Spec => [](SizeInv /\ RisingInv /\ DeliveredInv))
  <1> SUFFICES ASSUME OverflowSeen, StartsWhole
               PROVE  Spec => [](SizeInv /\ RisingInv /\ DeliveredInv)
    OBVIOUS
  <1>1. OrderInv /\ BytesInv => SizeInv /\ RisingInv /\ DeliveredInv
    BY DEF OrderInv, BytesInv
  <1> QED BY <1>1, BytesHold, PTL

-----------------------------------------------------------------------------
(* The refinement.                                                         *)

\* What the refinement needs of the configuration.
Aligned == OverflowSeen /\ StartsWhole /\ FcsTogether

ArrivedUp == [i \in 1 .. Len(arrived) |-> DataSize(arrived[i])]
DeliveredUp == [i \in 1 .. Len(delivered) |->
                   [no |-> delivered[i].no, size |-> SizeUp(delivered[i])]]
ServiceVars == <<ArrivedUp, DeliveredUp, overflows > 0>>

\* The sequences of the service, taken apart.
LEMMA UpType ==
    ASSUME TypeInv
    PROVE  /\ Len(ArrivedUp) = Len(arrived) /\ Len(DeliveredUp) = Len(delivered)
           /\ ArrivedUp \in Seq({DataSize(l) : l \in FrameLens})
           /\ DeliveredUp = <<>> <=> delivered = <<>>
  <1>1. Len(arrived) \in Nat /\ Len(delivered) \in Nat
    BY LatestType
  <1>2. \A i \in 1 .. Len(arrived) : DataSize(arrived[i]) \in {DataSize(l) : l \in FrameLens}
    BY ArrivedType
  <1>3. ArrivedUp \in Seq({DataSize(l) : l \in FrameLens}) /\ Len(ArrivedUp) = Len(arrived)
    BY <1>1, <1>2 DEF ArrivedUp
  <1>4. Len(DeliveredUp) = Len(delivered)
    BY <1>1 DEF DeliveredUp
  <1>5. DeliveredUp = <<>> <=> delivered = <<>>
    <2>1. CASE delivered = <<>>
      <3>1. Len(delivered) = 0
        BY <2>1, EmptySeq
      <3>2. DeliveredUp = <<>>
        BY <3>1 DEF DeliveredUp
      <3> QED BY <2>1, <3>2
    <2>2. CASE delivered # <<>>
      <3>1. Len(delivered) > 0
        BY <2>2, LatestType
      <3> QED BY <1>4, <2>2, <3>1, EmptySeq
    <2> QED BY <2>1, <2>2
  <1> QED BY <1>3, <1>4, <1>5

\* A frame that arrives is one the service is offered.
LEMMA ArriveUp ==
    ASSUME TypeInv, BytesInv, RxArrive
    PROVE  Service!Arrive
  <1>1. PICK l \in FrameLens : arrived' = Append(arrived, l)
    BY DEF RxArrive
  <1>2. /\ Len(arrived') = Len(arrived) + 1 /\ Len(arrived) \in Nat
        /\ arrived'[Len(arrived) + 1] = l
        /\ \A i \in 1 .. Len(arrived) : arrived'[i] = arrived[i]
    BY <1>1, AppendProperties, LatestType DEF TypeInv, TypeOK
  <1>3. UNCHANGED <<delivered, overflows>>
    BY DEF RxArrive
  <1> DEFINE n == Len(arrived)
             A == ArrivedUp
             B == [i \in 1 .. Len(arrived') |-> DataSize(arrived'[i])]
             sizes == {DataSize(k) : k \in FrameLens}
  <1>4. A \in Seq(sizes) /\ Len(A) = n /\ DataSize(l) \in sizes
    BY UpType
  <1>5. B = Append(A, DataSize(l))
    <2>1. /\ Append(A, DataSize(l)) \in Seq(sizes)
          /\ Len(Append(A, DataSize(l))) = n + 1
          /\ \A i \in 1 .. n : Append(A, DataSize(l))[i] = A[i]
          /\ Append(A, DataSize(l))[n + 1] = DataSize(l)
      BY <1>4, AppendProperties
    <2>2. \A i \in 1 .. n + 1 : B[i] = Append(A, DataSize(l))[i]
      <3> SUFFICES ASSUME NEW i \in 1 .. n + 1 PROVE B[i] = Append(A, DataSize(l))[i]
        OBVIOUS
      <3>1. CASE i \in 1 .. n
        BY <1>2, <2>1, <3>1 DEF ArrivedUp
      <3>2. CASE i = n + 1
        BY <1>2, <2>1, <3>2
      <3>3. i \in 1 .. n \/ i = n + 1
        BY <1>2
      <3> QED BY <3>1, <3>2, <3>3
    <2>3. \A i \in 1 .. n + 1 : B[i] \in sizes
      <3> SUFFICES ASSUME NEW i \in 1 .. n + 1 PROVE B[i] \in sizes
        OBVIOUS
      <3>1. arrived'[i] \in FrameLens
        BY <1>2, ArrivedType
      <3> QED BY <1>2, <3>1
    <2>4. B \in Seq(sizes) /\ Len(B) = n + 1
      BY <1>2, <2>3
    <2> HIDE DEF A, B
    <2> QED BY <1>2, <2>1, <2>2, <2>4, SeqEqual
  <1>6. ASSUME NEW i \in 1 .. Len(delivered)
        PROVE  SizeUp(delivered[i])' = SizeUp(delivered[i])
    <2>1. arrived'[delivered[i].no] = arrived[delivered[i].no]
      BY <1>2 DEF BytesInv, SizeInv
    <2> QED BY <1>3, <2>1 DEF SizeUp
  <1>7. DeliveredUp' = DeliveredUp
    BY <1>3, <1>6 DEF DeliveredUp
  <1>8. ArrivedUp' = B
    BY DEF ArrivedUp
  <1> QED BY <1>3, <1>4, <1>5, <1>7, <1>8 DEF Service!Arrive, ArrivedUp, DeliveredUp

\* A loss in the MAC-PHY lets the service pass over frames.
LEMMA OverflowUp ==
    ASSUME TypeInv, RxOverflow
    PROVE  Service!Lose
  <1>1. overflows' > 0 /\ UNCHANGED <<arrived, delivered>>
    BY LatestType DEF RxOverflow
  <1> QED BY <1>1 DEF Service!Lose, SizeUp

\* An skb that is handed up is a delivery.
LEMMA SubmitUp ==
    ASSUME FcsTogether, TypeInv, OrderInv, BytesInv, Chunk \in Chunks,
           UNCHANGED <<arrived, overflows>>, NEW skb \in Skbs, UpAsIs(skb), Submit(skb)
    PROVE  Service!Deliver
  <1> DEFINE n == Len(delivered)
             no == skb.no
             e == [no |-> no, size |-> ArrivedUp[no]]
             D == DeliveredUp
             B == [i \in 1 .. Len(delivered') |->
                      [no |-> delivered'[i].no, size |-> SizeUp(delivered'[i])]]
             Ups == [no : Nat, size : {DataSize(l) : l \in FrameLens}]
  <1>1. /\ Len(delivered') = n + 1 /\ n \in Nat
        /\ \A i \in 1 .. n : delivered'[i] = delivered[i]
        /\ delivered'[n + 1].no = no /\ delivered'[n + 1].len = skb.len
        /\ delivered'[n + 1].ok = skb.ok
    <2>1. delivered \in Seq(Skbs) /\ n \in Nat
      BY LatestType DEF TypeInv, TypeOK
    <2> QED BY <2>1, SubmitType
  <1>2. no \in 1 .. Len(arrived) /\ no \in Nat /\ Near(Latest + 1, no)
    BY LatestType DEF UpAsIs
  <1>3. SizeUp(delivered'[n + 1]) = DataSize(arrived[no]) /\ ArrivedUp[no] = DataSize(arrived[no])
    <2>1. SizeUp(skb) = DataSize(arrived[no])
      BY <1>2, MeasuredUp DEF UpAsIs
    <2> QED BY <1>1, <1>2, <2>1 DEF SizeUp, ArrivedUp
  <1>4. \A k \in 1 .. Len(arrived) : DataSize(arrived[k]) \in {DataSize(l) : l \in FrameLens}
    BY ArrivedType
  <1>5. D \in Seq(Ups) /\ Len(D) = n /\ e \in Ups
    <2>1. ASSUME NEW i \in 1 .. n PROVE D[i] \in Ups
      <3>1. delivered[i].no \in 1 .. Len(arrived) /\ delivered[i].ok /\ Measured(delivered[i])
        BY DEF BytesInv, SizeInv
      <3>2. SizeUp(delivered[i]) = DataSize(arrived[delivered[i].no])
        BY <3>1, MeasuredUp
      <3> QED BY <1>4, <3>1, <3>2, LatestType DEF DeliveredUp
    <2> QED BY <1>1, <1>2, <1>3, <1>4, <2>1 DEF DeliveredUp
  <1>6. B = Append(D, e)
    <2>1. /\ Append(D, e) \in Seq(Ups)
          /\ Len(Append(D, e)) = n + 1
          /\ \A i \in 1 .. n : Append(D, e)[i] = D[i]
          /\ Append(D, e)[n + 1] = e
      BY <1>5, AppendProperties
    <2>2. \A i \in 1 .. n + 1 : B[i] = Append(D, e)[i]
      <3> SUFFICES ASSUME NEW i \in 1 .. n + 1 PROVE B[i] = Append(D, e)[i]
        OBVIOUS
      <3>1. CASE i \in 1 .. n
        BY <1>1, <2>1, <3>1 DEF DeliveredUp
      <3>2. CASE i = n + 1
        <4>1. n + 1 \in 1 .. Len(delivered')
          BY <1>1
        <4>2. B[n + 1] = [no |-> no, size |-> DataSize(arrived[no])]
          BY <1>1, <1>3, <4>1
        <4>3. B[n + 1] = e
          BY <1>3, <4>2
        <4> HIDE DEF B, D, e, Ups
        <4> QED BY <2>1, <3>2, <4>3
      <3>3. i \in 1 .. n \/ i = n + 1
        BY <1>1
      <3> QED BY <3>1, <3>2, <3>3
    <2>3. \A i \in 1 .. n + 1 : B[i] \in Ups
      <3> SUFFICES ASSUME NEW i \in 1 .. n + 1 PROVE B[i] \in Ups
        OBVIOUS
      <3> HIDE DEF B, D, e, Ups
      <3>1. Append(D, e)[i] \in Ups
        BY <1>1, <2>1, ElementOfSeq
      <3> QED BY <2>2, <3>1
    <2>4. B \in Seq(Ups) /\ Len(B) = n + 1
      BY <1>1, <2>3
    <2> HIDE DEF B, D, e, Ups
    <2> QED BY <1>1, <2>1, <2>2, <2>4, SeqEqual
  <1>7. DeliveredUp' = B /\ ArrivedUp' = ArrivedUp
    BY DEF DeliveredUp, ArrivedUp, SizeUp
  <1>8. Service!Latest = Latest
    <2>1. Len(D) = n /\ (D = <<>> <=> delivered = <<>>)
      BY UpType
    <2>2. delivered # <<>> => n \in 1 .. n
      BY LatestType
    <2>3. delivered # <<>> => D[Len(D)].no = delivered[n].no
      BY <2>1, <2>2 DEF DeliveredUp
    <2> QED BY <2>1, <2>3 DEF Service!Latest, Latest, DeliveredUp
  <1>9. no \in Latest + 1 .. Len(ArrivedUp) /\ (no = Latest + 1 \/ overflows > 0)
    <2>1. Len(ArrivedUp) = Len(arrived)
      BY UpType
    <2> QED BY <1>2, <2>1, LatestType DEF Near
  <1> HIDE DEF B, D, e, no
  <1>10. DeliveredUp' = Append(DeliveredUp, [no |-> no, size |-> ArrivedUp[no]])
    BY <1>6, <1>7 DEF D, e
  <1> QED BY <1>7, <1>8, <1>9, <1>10 DEF Service!Deliver, ArrivedUp, DeliveredUp

\* Every other step does nothing the service can see.
LEMMA HiddenUp ==
    ASSUME UNCHANGED <<arrived, delivered, overflows>>
    PROVE  UNCHANGED ServiceVars
  BY DEF ServiceVars, ArrivedUp, DeliveredUp, SizeUp

\* The receive path implements its service: the frames come up in the order in
\* which they arrived, each at most once, each from its own bytes alone and
\* with as many as it has, and one is passed over only after the MAC-PHY has
\* lost data; whatever the overflows, failures and boundaries of transfers.
THEOREM RxRefinesService == Aligned => (Spec => FramesComeUp)
  <1> SUFFICES ASSUME Aligned PROVE Spec => FramesComeUp
    OBVIOUS
  <1>1. Init => Service!Init
    <2> SUFFICES ASSUME Init PROVE Service!Init
      OBVIOUS
    <2>1. Len(arrived) = 0 /\ Len(delivered) = 0 /\ overflows = 0
      BY EmptySeq DEF Init
    <2> QED BY <2>1 DEF Service!Init
  <1>2. TypeInv /\ OrderInv /\ BytesInv /\ [Next]_vars => [Service!Next]_ServiceVars
    <2> SUFFICES ASSUME TypeInv, OrderInv, BytesInv, [Next]_vars
                 PROVE  Service!Next \/ UNCHANGED ServiceVars
      OBVIOUS
    <2>1. CASE RxArrive \/ RxOverflow
      BY <2>1, ArriveUp, OverflowUp DEF Service!Next
    <2>2. CASE \/ CompleteFrame \/ FrameStart \/ FrameEnd \/ EndAndStart
               \/ OngoingFrame \/ AllocFails
      <3>1. /\ HasPayload /\ pc = "process" /\ UNCHANGED devVars
            /\ delivered' = delivered \/ \E skb \in Skbs : UpAsIs(skb) /\ Submit(skb)
        BY <2>2, StepDelivers
      <3>2. Chunk \in Chunks
        BY <3>1, AtChunk
      <3>3. FcsTogether
        BY DEF Aligned
      <3> QED BY <3>1, <3>2, <3>3, SubmitUp, HiddenUp DEF Service!Next
    <2>3. CASE \/ Exchange \/ TransferDone \/ SpiFail \/ OverflowStatus \/ SkipChunk
               \/ DeviceError \/ UNCHANGED vars
      <3>1. UNCHANGED <<arrived, delivered, overflows>>
        BY <2>3 DEF Exchange, TransferDone, SpiFail, OverflowStatus, SkipChunk, DeviceError
      <3> QED BY <3>1, HiddenUp
    <2> QED BY <2>1, <2>2, <2>3 DEF Next, Thread
  <1>3. Spec => [](TypeInv /\ OrderInv /\ BytesInv)
    BY BytesHold DEF Aligned
  <1> QED BY <1>1, <1>2, <1>3, PTL
          DEF Spec, FramesComeUp, Service!Spec, ServiceVars, ArrivedUp, DeliveredUp, Service!vars
=============================================================================
