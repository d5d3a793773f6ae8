------------------------- MODULE ArpExample_proofs -------------------------
(***************************************************************************)
(* Proofs about the coordinator's ARP table, for every size of it, every   *)
(* number of strangers on the segment and of rounds.                       *)
(***************************************************************************)
EXTENDS ArpExample, SequenceTheorems, FiniteSetTheorems, TLAPS

Macs == Stations \cup Strangers
Entry == [ip : Addresses, mac : Macs]

\* The frames that are on their way and the entries of the table are what
\* the programs and the strangers make of them.
TypeInv ==
  /\ TypeOK
  /\ rx = [s \in Stations |-> rx[s]]

\* The table is what the replies heard make of it.
Truthful(table, h) ==
  /\ table \in Seq(Entry) /\ Len(table) <= MAX_ENTRIES
  /\ \A i, j \in 1 .. Len(table) : table[i].ip = table[j].ip => i = j
  /\ \A i \in 1 .. Len(table) : table[i].ip \in DOMAIN h /\ table[i].mac = h[table[i].ip]
  /\ \A ip \in DOMAIN h :
       (\E i \in 1 .. Len(table) : table[i].ip = ip) \/ Len(table) = MAX_ENTRIES

-----------------------------------------------------------------------------
(* add_to_arp_table.                                                       *)

Heard(h, ip, mac) == [a \in DOMAIN h \cup {ip} |-> IF a = ip THEN mac ELSE h[a]]

\* A reply of an address that has an entry replaces its MAC address.
LEMMA EntryReplaced ==
    ASSUME NEW table, NEW h, Truthful(table, h), NEW ip \in Addresses, NEW mac \in Macs,
           NEW i \in 1 .. Len(table), table[i].ip = ip
    PROVE  Truthful([table EXCEPT ![i].mac = mac], Heard(h, ip, mac))
  <1> DEFINE new == [table EXCEPT ![i].mac = mac]
             g == Heard(h, ip, mac)
  <1>1. table \in Seq(Entry) /\ Len(table) \in Nat
    BY LenProperties DEF Truthful
  <1>2. \A j \in 1 .. Len(table) : table[j] \in Entry
    BY <1>1, ElementOfSeq
  <1>3. /\ new \in Seq(Entry) /\ Len(new) = Len(table)
        /\ \A j \in 1 .. Len(table) : j # i => new[j] = table[j]
        /\ new[i].ip = ip /\ new[i].mac = mac
    <2> DEFINE e == [table[i] EXCEPT !.mac = mac]
    <2>1. e \in Entry /\ e.ip = ip /\ e.mac = mac
      BY <1>2 DEF Entry
    <2>2. new = [table EXCEPT ![i] = e]
      OBVIOUS
    <2> HIDE DEF e, new
    <2> QED BY <1>1, <2>1, <2>2, ExceptSeq
  <1>4. /\ DOMAIN g = DOMAIN h \cup {ip} /\ g[ip] = mac
        /\ \A a \in DOMAIN h : a # ip => g[a] = h[a]
    BY DEF Heard
  <1> HIDE DEF new, g
  <1>5. \A j \in 1 .. Len(table) : new[j].ip = table[j].ip
    BY <1>3
  <1>6. \A j, k \in 1 .. Len(new) : new[j].ip = new[k].ip => j = k
    BY <1>3, <1>5 DEF Truthful
  <1>7. ASSUME NEW j \in 1 .. Len(new)
        PROVE  new[j].ip \in DOMAIN g /\ new[j].mac = g[new[j].ip]
    <2>1. CASE j = i
      BY <1>3, <1>4, <2>1
    <2>2. CASE j # i
      <3>1. table[j].ip # ip
        BY <1>3, <1>7, <2>2 DEF Truthful
      <3> QED BY <1>3, <1>4, <1>7, <2>2, <3>1 DEF Truthful
    <2> QED BY <2>1, <2>2
  <1>8. ASSUME NEW a \in DOMAIN g
        PROVE  (\E j \in 1 .. Len(new) : new[j].ip = a) \/ Len(new) = MAX_ENTRIES
    <2>1. CASE a = ip
      BY <1>3, <2>1
    <2>2. CASE a # ip
      <3>1. (\E j \in 1 .. Len(table) : table[j].ip = a) \/ Len(table) = MAX_ENTRIES
        BY <1>4, <1>8, <2>2 DEF Truthful
      <3>2. CASE Len(table) = MAX_ENTRIES
        BY <1>3, <3>2
      <3>3. CASE \E j \in 1 .. Len(table) : table[j].ip = a
        BY <1>3, <1>5, <3>3
      <3> QED BY <3>1, <3>2, <3>3
    <2> QED BY <2>1, <2>2
  <1> QED BY <1>3, <1>6, <1>7, <1>8 DEF Truthful, new, g

\* A reply of an address without an entry gets one if there is room.
LEMMA EntryAdded ==
    ASSUME NEW table, NEW h, Truthful(table, h), NEW ip \in Addresses, NEW mac \in Macs,
           \A i \in 1 .. Len(table) : table[i].ip # ip, Len(table) < MAX_ENTRIES
    PROVE  Truthful(Append(table, [ip |-> ip, mac |-> mac]), Heard(h, ip, mac))
  <1> DEFINE e == [ip |-> ip, mac |-> mac]
             new == Append(table, e)
             g == Heard(h, ip, mac)
             n == Len(table)
  <1>1. table \in Seq(Entry) /\ n \in Nat /\ MAX_ENTRIES \in Nat
    BY LenProperties, ArpAssumption DEF Truthful
  <1>2. /\ new \in Seq(Entry) /\ Len(new) = n + 1
        /\ \A j \in 1 .. n : new[j] = table[j]
        /\ new[n + 1].ip = ip /\ new[n + 1].mac = mac
    <2>1. e \in Entry /\ e.ip = ip /\ e.mac = mac
      BY DEF Entry
    <2> HIDE DEF e
    <2> QED BY <1>1, <2>1, AppendProperties
  <1>3. /\ DOMAIN g = DOMAIN h \cup {ip} /\ g[ip] = mac
        /\ \A a \in DOMAIN h : a # ip => g[a] = h[a]
    BY DEF Heard
  <1>4. /\ \A j, k \in 1 .. n : table[j].ip = table[k].ip => j = k
        /\ \A j \in 1 .. n : table[j].ip \in DOMAIN h /\ table[j].mac = h[table[j].ip]
        /\ \A a \in DOMAIN h : \E j \in 1 .. n : table[j].ip = a
    BY <1>1 DEF Truthful
  <1>5. \A j \in 1 .. n + 1 : j \in 1 .. n \/ j = n + 1
    BY <1>1
  <1> HIDE DEF new, g, n
  <1>6. \A j, k \in 1 .. Len(new) : new[j].ip = new[k].ip => j = k
    <2>1. \A j \in 1 .. n : table[j].ip # ip
      BY DEF n
    <2> SUFFICES ASSUME NEW j \in 1 .. n + 1, NEW k \in 1 .. n + 1, new[j].ip = new[k].ip
                 PROVE  j = k
      BY <1>2
    <2>2. CASE j \in 1 .. n /\ k \in 1 .. n
      BY <1>2, <1>4, <2>2
    <2>3. CASE j \in 1 .. n /\ k = n + 1
      BY <1>2, <2>1, <2>3
    <2>4. CASE j = n + 1 /\ k \in 1 .. n
      BY <1>2, <2>1, <2>4
    <2> QED BY <1>5, <2>2, <2>3, <2>4
  <1>7. \A j \in 1 .. Len(new) : new[j].ip \in DOMAIN g /\ new[j].mac = g[new[j].ip]
    BY <1>2, <1>3, <1>4, <1>5 DEF n
  <1>8. ASSUME NEW a \in DOMAIN g PROVE \E j \in 1 .. Len(new) : new[j].ip = a
    <2>1. 1 .. n \subseteq 1 .. n + 1 /\ n + 1 \in 1 .. n + 1
      BY <1>1 DEF n
    <2> QED BY <1>2, <1>3, <1>4, <1>8, <2>1
  <1>9. Len(new) <= MAX_ENTRIES
    BY <1>1, <1>2 DEF n
  <1> QED BY <1>2, <1>6, <1>7, <1>8, <1>9 DEF Truthful, new, g, e

\* A full table leaves the reply of an address without an entry aside.
LEMMA TableFull ==
    ASSUME NEW table, NEW h, Truthful(table, h), NEW ip \in Addresses, NEW mac \in Macs,
           \A i \in 1 .. Len(table) : table[i].ip # ip, ~(Len(table) < MAX_ENTRIES)
    PROVE  Truthful(table, Heard(h, ip, mac))
  <1>1. Len(table) = MAX_ENTRIES
    BY LenProperties, ArpAssumption DEF Truthful
  <1> QED BY <1>1 DEF Truthful, Heard

\* Whatever reply comes in, the table stays true.
LEMMA TableStaysTrue ==
    ASSUME NEW table, NEW h, Truthful(table, h), NEW ip \in Addresses, NEW mac \in Macs
    PROVE  Truthful(add_to_arp_table(table, ip, mac), Heard(h, ip, mac))
  <1>1. DOMAIN table = 1 .. Len(table)
    BY LenProperties DEF Truthful
  <1>2. CASE Known(table, ip) # {}
    <2>1. PICK i : i = CHOOSE j \in Known(table, ip) : TRUE
      OBVIOUS
    <2>2. i \in Known(table, ip)
      BY <1>2, <2>1
    <2>3. i \in 1 .. Len(table) /\ table[i].ip = ip
      BY <1>1, <2>2 DEF Known
    <2>4. add_to_arp_table(table, ip, mac) = [table EXCEPT ![i].mac = mac]
      BY <1>2, <2>1 DEF add_to_arp_table
    <2>5. Truthful([table EXCEPT ![i].mac = mac], Heard(h, ip, mac))
      BY <2>3, EntryReplaced
    <2> QED BY <2>4, <2>5
  <1>3. CASE Known(table, ip) = {}
    <2>1. \A i \in 1 .. Len(table) : table[i].ip # ip
      BY <1>1, <1>3 DEF Known
    <2>2. CASE Len(table) < MAX_ENTRIES
      BY <1>3, <2>1, <2>2, EntryAdded DEF add_to_arp_table, Room
    <2>3. CASE ~(Len(table) < MAX_ENTRIES)
      BY <1>3, <2>1, <2>3, TableFull DEF add_to_arp_table, Room
    <2> QED BY <2>2, <2>3
  <1> QED BY <1>2, <1>3

-----------------------------------------------------------------------------
(* The programs.                                                           *)

LEMMA ArpInit == Init => TypeInv /\ Truthful(g_arp_table, heard)
  <1> SUFFICES ASSUME Init PROVE TypeInv /\ Truthful(g_arp_table, heard)
    OBVIOUS
  <1>1. /\ g_arp_table = <<>> /\ heard = <<>> /\ DOMAIN heard = {} /\ Len(g_arp_table) = 0
        /\ g_arp_table \in Seq(Entry)
    BY EmptySeq DEF Init
  <1>2. Truthful(g_arp_table, heard)
    BY <1>1, ArpAssumption DEF Truthful
  <1>3. TypeOK
    BY <1>1, EmptySeq, ArpAssumption
       DEF Init, TypeOK, Entry, Macs, NoFrame, Frame, Addresses, Stations
  <1>4. rx = [s \in Stations |-> rx[s]]
    BY DEF Init
  <1> QED BY <1>2, <1>3, <1>4 DEF TypeInv

\* A frame that is delivered is one of the frames that wait.
LEMMA DeliverType ==
    ASSUME TypeInv, NEW f \in Frame, NEW to \in SUBSET Stations, Deliver(f, to)
    PROVE  /\ rx' = [s \in Stations |-> rx'[s]]
           /\ \A s \in Stations : rx'[s] \in Seq(Frame)
           /\ losses' \in 0 .. MaxLosses
  <1>1. PICK lost \in SUBSET to :
          /\ losses' = losses + Cardinality(lost) /\ losses' <= MaxLosses
          /\ rx' = [s \in Stations |-> IF s \in to \ lost THEN Append(rx[s], f) ELSE rx[s]]
    BY DEF Deliver
  <1>2. Cardinality(lost) \in Nat
    <2>1. IsFiniteSet(Stations)
      <3>1. IsFiniteSet({} \cup {Coordinator})
        BY FS_EmptySet, FS_AddElement
      <3>2. IsFiniteSet(({} \cup {Coordinator}) \cup {Follower})
        BY <3>1, FS_AddElement
      <3>3. Stations = ({} \cup {Coordinator}) \cup {Follower}
        BY DEF Stations
      <3> QED BY <3>2, <3>3
    <2> QED BY <2>1, FS_Subset, FS_CardinalityType
  <1>3. losses' \in 0 .. MaxLosses
    <2>1. losses \in 0 .. MaxLosses /\ MaxLosses \in Nat
      BY ArpAssumption DEF TypeInv, TypeOK
    <2> QED BY <1>1, <1>2, <2>1
  <1>4. \A s \in Stations : rx[s] \in Seq(Frame) /\ Append(rx[s], f) \in Seq(Frame)
    BY AppendProperties DEF TypeInv, TypeOK
  <1>5. \A s \in Stations : rx'[s] \in Seq(Frame)
    BY <1>1, <1>4
  <1>6. rx' = [s \in Stations |-> rx'[s]]
    BY <1>1
  <1> QED BY <1>3, <1>5, <1>6

\* The frame a station takes is one of those that may be on the segment.
LEMMA TakeType ==
    ASSUME TypeInv, NEW s \in Stations, rx[s] # <<>>, rx' = [rx EXCEPT ![s] = Tail(@)]
    PROVE  /\ Head(rx[s]) \in Frame
           /\ rx' = [t \in Stations |-> rx'[t]]
           /\ \A t \in Stations : rx'[t] \in Seq(Frame)
  <1>1. rx[s] \in Seq(Frame) /\ rx = [t \in Stations |-> rx[t]]
    BY DEF TypeInv, TypeOK
  <1>2. Head(rx[s]) \in Frame /\ Tail(rx[s]) \in Seq(Frame)
    BY <1>1, HeadTailProperties
  <1>3. \A t \in Stations : rx'[t] = IF t = s THEN Tail(rx[s]) ELSE rx[t]
    BY <1>1
  <1>4. rx' = [t \in Stations |-> rx'[t]]
    BY <1>1
  <1> QED BY <1>2, <1>3, <1>4 DEF TypeInv, TypeOK

\* The steps that send, and those of the strangers.
LEMMA SendStep ==
    ASSUME TypeInv, Stray \/ SendRequest \/ SendReply \/ \E s \in Stations : Option(s)
    PROVE  TypeInv' /\ UNCHANGED <<g_arp_table, heard>>
  <1>1. /\ UNCHANGED <<g_arp_table, heard, follower_ip>>
        /\ pc' \in [Stations -> {"options", "send", "receive"}]
    BY DEF Stray, SendRequest, SendReply, Option, TypeInv, TypeOK, Stations
  <1>2. request' \in Frame
    BY DEF Stray, SendRequest, SendReply, Option, TypeInv, TypeOK, NoFrame, Frame,
           Addresses, Stations
  <1>3. /\ rx' = [s \in Stations |-> rx'[s]]
        /\ \A s \in Stations : rx'[s] \in Seq(Frame)
        /\ losses' \in 0 .. MaxLosses
    <2>1. CASE Stray
      <3>1. PICK f \in Frame, to \in SUBSET Stations : Deliver(f, to)
        BY <2>1 DEF Stray
      <3> QED BY <3>1, DeliverType
    <2>2. CASE SendRequest
      <3>1. make_arp_packet \in Frame /\ {Follower} \in SUBSET Stations
        BY DEF make_arp_packet, Frame, Addresses, Stations
      <3> QED BY <2>2, <3>1, DeliverType DEF SendRequest
    <2>3. CASE SendReply
      <3>1. create_arp_reply \in Frame /\ {Target(request)} \cap Stations \in SUBSET Stations
        BY DEF create_arp_reply, Frame, Addresses, Stations, TypeInv, TypeOK
      <3> QED BY <2>3, <3>1, DeliverType DEF SendReply
    <2>4. CASE \E s \in Stations : Option(s)
      BY <2>4 DEF Option, TypeInv, TypeOK
    <2> QED BY <2>1, <2>2, <2>3, <2>4
  <1> QED BY <1>1, <1>2, <1>3 DEF TypeInv, TypeOK

\* The follower takes a frame.
LEMMA ReceiveRequestStep ==
    ASSUME TypeInv, ReceiveRequest
    PROVE  TypeInv' /\ UNCHANGED <<g_arp_table, heard>>
  <1>1. /\ UNCHANGED <<g_arp_table, heard, follower_ip, losses>>
        /\ pc' \in [Stations -> {"options", "send", "receive"}]
    BY DEF ReceiveRequest, TypeInv, TypeOK, bounds
  <1>2. /\ request' \in Frame /\ rx' = [t \in Stations |-> rx'[t]]
        /\ \A t \in Stations : rx'[t] \in Seq(Frame)
    BY TakeType DEF ReceiveRequest, Stations
  <1> QED BY <1>1, <1>2 DEF TypeInv, TypeOK

\* The coordinator takes a frame, and learns from a reply.
LEMMA ReceiveReplyStep ==
    ASSUME TypeInv, Truthful(g_arp_table, heard), ReceiveReply
    PROVE  TypeInv' /\ Truthful(g_arp_table, heard)'
  <1> DEFINE f == Head(rx[Coordinator])
  <1>1. /\ f \in Frame /\ rx' = [t \in Stations |-> rx'[t]]
        /\ \A t \in Stations : rx'[t] \in Seq(Frame)
    BY TakeType DEF ReceiveReply, Stations
  <1>2. /\ UNCHANGED <<request, follower_ip, losses>>
        /\ pc' \in [Stations -> {"options", "send", "receive"}]
    BY DEF ReceiveReply, TypeInv, TypeOK, bounds
  <1>3. Truthful(g_arp_table', heard')
    <2>1. CASE f.op = "reply"
      <3>1. /\ g_arp_table' = add_to_arp_table(g_arp_table, f.sip, f.smac)
            /\ heard' = Heard(heard, f.sip, f.smac)
        BY <2>1 DEF ReceiveReply, Learns, Heard
      <3>2. f.sip \in Addresses /\ f.smac \in Macs
        BY <1>1 DEF Frame, Macs
      <3> QED BY <3>1, <3>2, TableStaysTrue
    <2>2. CASE f.op # "reply"
      BY <2>2 DEF ReceiveReply, Learns
    <2> QED BY <2>1, <2>2
  <1>4. g_arp_table' \in Seq(Entry)
    BY <1>3 DEF Truthful
  <1> QED BY <1>1, <1>2, <1>3, <1>4 DEF TypeInv, TypeOK, Truthful, Entry, Macs

LEMMA ArpStep ==
    TypeInv /\ Truthful(g_arp_table, heard) /\ [Next]_vars
      => TypeInv' /\ Truthful(g_arp_table, heard)'
  <1> SUFFICES ASSUME TypeInv, Truthful(g_arp_table, heard), [Next]_vars
               PROVE  TypeInv' /\ Truthful(g_arp_table, heard)'
    OBVIOUS
  <1>1. CASE UNCHANGED vars
    BY <1>1 DEF vars, bounds, TypeInv, TypeOK, Truthful
  <1>2. CASE ReceiveReply
    BY <1>2, ReceiveReplyStep
  <1>3. CASE TypeInv' /\ UNCHANGED <<g_arp_table, heard>>
    BY <1>3 DEF Truthful
  <1> QED BY <1>1, <1>2, <1>3, SendStep, ReceiveRequestStep DEF Next

\* The programs' frames, states and table are of their types.
THEOREM ArpTyping == Spec => []TypeOK
  <1>1. TypeInv => TypeOK
    BY DEF TypeInv
  <1> QED BY <1>1, ArpInit, ArpStep, PTL DEF Spec

\* The coordinator's table keeps within MAX_ENTRIES and has one entry for an
\* address, with the MAC address of the last reply that named it
\* (add_to_arp_table), whatever the strangers on the segment send.
THEOREM ArpTable == Spec => []TableTruthful
  <1>1. Truthful(g_arp_table, heard) => TableTruthful
    <2> SUFFICES ASSUME Truthful(g_arp_table, heard) PROVE TableTruthful
      OBVIOUS
    <2>1. DOMAIN g_arp_table = 1 .. Len(g_arp_table)
      BY LenProperties DEF Truthful
    <2> QED BY <2>1 DEF Truthful, TableTruthful, Known
  <1> QED BY <1>1, ArpInit, ArpStep, PTL DEF Spec
=============================================================================
