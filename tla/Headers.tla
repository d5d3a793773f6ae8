------------------------------- MODULE Headers -------------------------------
(***************************************************************************)
(* The words driver and MAC-PHY exchange, as sets of their one bits: what  *)
(* oa_tc6.c encodes, read back the way oa-tc6-framework.rst lays it out,   *)
(* and what the MAC-PHY sends, read the way oa_tc6.c does. A behaviour     *)
(* converts one word.                                                      *)
(***************************************************************************)
EXTENDS Integers, FiniteSets, Sequences

CONSTANTS
  CommandAddresses,  \* register addresses, memory map selector << 16 included
  CommandLengths,    \* registers of a control command
  EndOffsets,        \* end byte offsets
  Nanoseconds        \* nanoseconds of a receive timestamp, as sets of bits

\* The register functions let no other length through (oa_tc6.c:410, :450), a
\* chunk has 64 bytes.
ASSUME HeadersAssumption ==
  /\ CommandAddresses \subseteq Nat
  /\ CommandLengths \subseteq 1..128
  /\ EndOffsets \subseteq 0..63

Bits(n) == {i \in 0..30 : (n \div 2^i) % 2 = 1}

\* The number whose one bits are S: no field has more than 16.
Value(S) ==
  LET bit(i) == IF i \in S THEN 1 ELSE 0
      nibble(i) == bit(i) + 2 * bit(i + 1) + 4 * bit(i + 2) + 8 * bit(i + 3)
  IN nibble(0) + 16 * nibble(4) + 256 * nibble(8) + 4096 * nibble(12)

ShiftRight(S, k) == {b - k : b \in {c \in S : c >= k}}
Xor(S, T) == (S \ T) \cup (T \ S)

\* FIELD_PREP and FIELD_GET of bits hi..lo; a value too large is cut.
FieldPrep(hi, lo, v) == {lo + i : i \in Bits(v)} \cap lo..hi
FieldGet(hi, lo, S) == Value({b - lo : b \in S \cap lo..hi})

\* The multiplication leaves in bit 28 the lowest bit of the sum of its nibbles.
oa_tc6_get_parity(p) ==
  LET p1 == Xor(p, ShiftRight(p, 1))
      p2 == Xor(p1, ShiftRight(p1, 2))
  IN IF Cardinality(p2 \cap {4 * i : i \in 0..7}) % 2 = 1 THEN 0 ELSE 1

WithParity(S) == S \cup FieldPrep(0, 0, oa_tc6_get_parity(S))

LengthField_Plain(length) == length
LengthField(length) == length - 1

oa_tc6_prepare_ctrl_header(addr, length, write) ==
  WithParity(FieldPrep(29, 29, IF write THEN 1 ELSE 0)
             \cup FieldPrep(27, 24, addr \div 2^16)
             \cup FieldPrep(23, 8, addr)
             \cup FieldPrep(7, 1, LengthField(length)))

EndOffset(ebo) == FieldPrep(13, 8, ebo)

oa_tc6_prepare_data_header(dv, sv, ev, ebo, tsc) ==
  WithParity({31} \cup FieldPrep(21, 21, dv) \cup FieldPrep(20, 20, sv)
             \cup FieldPrep(14, 14, ev) \cup EndOffset(ebo) \cup FieldPrep(7, 6, tsc))

\* MDIO: clause 22 registers 0..31 of the PHY, clause 45 registers of the
\* devices that have a memory map.
C22Address(regnum) == 65280 + (regnum % 32)
oa_tc6_get_phy_c45_mms ==
  [d \in {1, 3, 7, 13, 31} |-> CASE d = 3 -> 2 [] d = 1 -> 3 [] d = 31 -> 4
                                 [] d = 7 -> 5 [] d = 13 -> 6]
C45Address(devnum, regnum) == oa_tc6_get_phy_c45_mms[devnum] * 2^16 + regnum

\* A 5-bit two's complement value, kept in a char, signed or not as the compiler
\* decides, then put into 6-bit fields.
Offset(value, signed) ==
  LET v == IF value >= 16 THEN value - 32 ELSE value
  IN IF signed THEN v ELSE v % 256

Param1_NoMask(value, signed) == (9 + Offset(value, signed)) * 2^10 + (14 + Offset(value, signed)) * 2^4 + 3
Param1(value, signed) == ((9 + Offset(value, signed)) % 64) * 2^10 + ((14 + Offset(value, signed)) % 64) * 2^4 + 3
Param2(value, signed) == ((40 + Offset(value, signed)) % 64) * 2^10

\* ntohl of the low 30 bits of the word as it lies in the memory of a
\* little-endian machine, stored in a field of 30 bits.
Swap(S) == {8 * (3 - b \div 8) + (b % 8) : b \in S}
RxNanoseconds(wire) == Swap(Swap(wire) \cap 0..29) \cap 0..29

\* A frame from its EtherType on, two bytes an element: a tag is its type and its
\* control information; of that, as of the message behind the last type, only
\* what reads as a message type matters.
is_gptp_packet(f) == IF f[1] \in {"8021Q", "8021AD"} THEN f[3] = "1588" ELSE f[1] = "1588"

filter_rx_timestamp_InTag(filter, f) ==
  LET type == IF f[1] = "8021Q" THEN f[3] ELSE f[1]
  IN filter = "ALL" \/ (type = "1588" /\ filter \in {"EVENT", f[2]})
filter_rx_timestamp(filter, f) ==
  LET type == IF f[1] = "8021Q" THEN f[3] ELSE f[1]
      message == IF f[1] = "8021Q" THEN f[4] ELSE f[2]
  IN filter = "ALL" \/ (type = "1588" /\ filter \in {"EVENT", message})

-----------------------------------------------------------------------------
VARIABLES
  kind,   \* what was converted last
  in,     \* what it was made from
  out     \* the result
headerVars == <<kind, in, out>>

HeaderInit == kind = "none" /\ in = "none" /\ out = {}

\* The encoders keep no state: a behaviour is one conversion.
Convert(k, x, y) == kind = "none" /\ kind' = k /\ in' = x /\ out' = y

CtrlHeader == \E a \in CommandAddresses, n \in CommandLengths, w \in BOOLEAN :
  Convert("ctrl", [addr |-> a, length |-> n, write |-> w],
          oa_tc6_prepare_ctrl_header(a, n, w))

\* What oa_tc6_add_tx_skb_to_spi_buf and oa_tc6_add_empty_chunks_to_spi_buf ask for.
DataHeader == \E x \in [ebo : EndOffsets, dv : 0..1, sv : 0..1, ev : 0..1, tsc : 0..3] :
  /\ x.ev = 0 => x.ebo = 0 /\ x.tsc = 0
  /\ x.dv = 0 => x.sv = 0 /\ x.ev = 0
  /\ Convert("data", x, oa_tc6_prepare_data_header(x.dv, x.sv, x.ev, x.ebo, x.tsc))

MdioC22 == \E r \in 0..31, w \in BOOLEAN :
  Convert("mdio", [write |-> w, clause |-> 22, mmd |-> 0, reg |-> r],
          oa_tc6_prepare_ctrl_header(C22Address(r), 1, w))

MdioC45 == \E d \in DOMAIN oa_tc6_get_phy_c45_mms, r \in {0, 1, 65280, 65311, 65535}, w \in BOOLEAN :
  Convert("mdio", [write |-> w, clause |-> 45, mmd |-> d, reg |-> r],
          oa_tc6_prepare_ctrl_header(C45Address(d, r), 1, w))

ChipParam == \E v1, v2 \in 0..31, signed \in BOOLEAN :
  Convert("param", [v1 |-> v1, v2 |-> v2, signed |-> signed],
          <<Param1(v1, signed), Param2(v2, signed)>>)

RxTimestamp == \E ns \in Nanoseconds : Convert("timestamp", ns, RxNanoseconds(ns))

Filters == {"NONE", "ALL", "EVENT", "SYNC", "DELAY_REQ"}
Messages == {"SYNC", "DELAY_REQ", "FOLLOW_UP"}
Payloads == {"1588", "IP"} \X Messages
Tagged(frames) == {<<tag, tci>> \o f : tag \in {"8021Q", "8021AD"}, tci \in Messages, f \in frames}
Frames == Payloads \cup Tagged(Payloads) \cup Tagged(Tagged(Payloads))
RxFilter == \E f \in Frames :
  Convert("filter", f, {filter \in Filters : filter_rx_timestamp(filter, f)})

HeaderNext == CtrlHeader \/ DataHeader \/ MdioC22 \/ MdioC45 \/ ChipParam
              \/ RxTimestamp \/ RxFilter

HeaderSpec == HeaderInit /\ [][HeaderNext]_headerVars

-----------------------------------------------------------------------------
OddParity(S) == Cardinality(S) % 2 = 1

\* Two PHY registers, of clause 22 or of the devices of clause 45, are never
\* reached by the same control command (oa_tc6_mdiobus_read, _read_c45).
PhyRegistersDistinct == kind = "mdio" =>
  /\ in.clause = 45 => \A r \in 0..31 :
       oa_tc6_prepare_ctrl_header(C22Address(r), 1, in.write) # out
  /\ \A d \in DOMAIN oa_tc6_get_phy_c45_mms :
       d # in.mmd => oa_tc6_prepare_ctrl_header(C45Address(d, in.reg), 1, in.write) # out

\* What oa_tc6.c encodes reads back, by the layout of oa-tc6-framework.rst, as
\* what it was called with, has odd parity and sets nothing else: a control
\* header as the register, the number of registers and the direction, a data
\* header as the flags, the end byte and the capture register of the chunk. And
\* no two PHY registers share a command.
HeadersDecode ==
  /\ kind \in {"ctrl", "data", "mdio"} => OddParity(out)
  /\ kind = "ctrl" =>
       /\ out \cap {31, 30, 28} = {}
       /\ FieldGet(29, 29, out) = IF in.write THEN 1 ELSE 0
       /\ FieldGet(27, 24, out) * 2^16 + FieldGet(23, 8, out) = in.addr % 2^20
       /\ FieldGet(7, 1, out) + 1 = in.length
  /\ kind = "data" =>
       /\ out \cap ({31, 30} \cup 22..29 \cup 15..19 \cup 1..5) = {31}
       /\ <<in.dv, in.sv, in.ev>> = <<FieldGet(21, 21, out), FieldGet(20, 20, out), FieldGet(14, 14, out)>>
       /\ FieldGet(13, 8, out) = in.ebo
       /\ FieldGet(7, 6, out) = in.tsc
  /\ PhyRegistersDistinct

\* set_macphy_register: each trimmed parameter is its default plus the signed
\* offset of the chip, cut to its six bits, whether char is signed or not, and
\* no parameter spills into its neighbour.
ChipParams == kind = "param" =>
  LET Signed(v) == IF v < 16 THEN v ELSE v - 32
  IN /\ out[1] \div 2^10 = (9 + Signed(in.v1)) % 64
     /\ (out[1] \div 2^4) % 64 = (14 + Signed(in.v1)) % 64
     /\ out[1] % 16 = 3
     /\ out[2] = ((40 + Signed(in.v2)) % 64) * 2^10

\* The two readings of a frame agree (filter_rx_timestamp, is_gptp_packet): the
\* event filter stamps on reception what is captured as gPTP when it is sent, for
\* every stack of tags that does not start with a service tag; and a filter for
\* one message stamps just those of these frames whose message it is, wherever
\* the tags put it.
FiltersAgree == kind = "filter" =>
  /\ in[1] # "8021AD" => ("EVENT" \in out <=> is_gptp_packet(in))
  /\ \A message \in {"SYNC", "DELAY_REQ"} :
       message \in out <=> "EVENT" \in out /\ in[Len(in)] = message

\* With a service tag they do not: such a frame is captured as gPTP when it is
\* sent and passes for no PTP message when it is received (configuration
\* HdrTagged).
FiltersAgreeOnAll == kind = "filter" => ("EVENT" \in out <=> is_gptp_packet(in))

\* oa-tc6-framework.rst: the frame is preceded by a 32-bit or 64-bit timestamp,
\* most significant byte first; the hwtstamp of the skb holds its nanoseconds.
RxTimestampExact == kind = "timestamp" => out = in
=============================================================================
