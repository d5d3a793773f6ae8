----------------------------- MODULE ArpExample -----------------------------
(***************************************************************************)
(* examples/arp/arp.c: a coordinator asks for the follower's MAC address   *)
(* and a follower answers, each with one frame sent and one received per   *)
(* option -c or -f on its command line. The frames cross a 10BASE-T1S      *)
(* segment that other stations use and that may lose them. A station's     *)
(* name stands for its MAC address and for its IP address.                 *)
(***************************************************************************)
EXTENDS Sequences, FiniteSets, Naturals, SequencesExt

CONSTANTS
  Coordinator, Follower, Strangers,
  Garbled,       \* what sscanf with %d may leave in follower_ip
  MAX_ENTRIES,
  MaxRounds, MaxStrays, MaxLosses   \* bounds: options, strangers' frames, losses

ASSUME ArpAssumption == MAX_ENTRIES \in Nat /\ MaxLosses \in Nat

VARIABLES
  pc,            \* of both programs
  rx,            \* frames each station's MAC-PHY holds
  request,       \* the frame the follower answers
  follower_ip,
  g_arp_table,   \* of the coordinator, a sequence of [ip, mac]
  heard,         \* history: the MAC the last reply of each address named
  said,          \* history: what the coordinator has reported as a reply
  rounds, strays, losses
vars == <<pc, rx, request, follower_ip, g_arp_table, heard, said, rounds, strays, losses>>
bounds == <<rounds, strays, losses>>

Stations == {Coordinator, Follower}
Addresses == Stations \cup Strangers \cup {Garbled}
Frame == [op : {"request", "reply", "other"}, sip : Addresses, smac : Stations \cup Strangers]
NoFrame == [op |-> "other", sip |-> Garbled, smac |-> Follower]

\* Each scanned number is stored as four bytes, so scanning one address may
\* overwrite the other, as the build places them.
Init ==
  /\ pc = [s \in Stations |-> "options"] /\ rx = [s \in Stations |-> <<>>]
  /\ request = NoFrame /\ follower_ip \in {Follower, Garbled}
  /\ g_arp_table = <<>> /\ heard = <<>> /\ said = {}
  /\ rounds = [s \in Stations |-> 0] /\ strays = 0 /\ losses = 0

\* The segment: each station addressed gets the frame or loses it.
Deliver(f, to) == \E lost \in SUBSET to :
  /\ losses' = losses + Cardinality(lost) /\ losses' <= MaxLosses
  /\ rx' = [s \in Stations |-> IF s \in to \ lost THEN Append(rx[s], f) ELSE rx[s]]

Stray == \E f \in Frame, to \in (SUBSET Stations) \ {{}} :
  /\ f.smac \in Strangers /\ strays < MaxStrays /\ strays' = strays + 1
  /\ Deliver(f, to)
  /\ UNCHANGED <<pc, request, follower_ip, g_arp_table, heard, said, rounds>>

\* main: the next option -c or -f, configuring the chip included.
Option(s) ==
  /\ pc[s] = "options" /\ rounds[s] < MaxRounds /\ rounds' = [rounds EXCEPT ![s] = @ + 1]
  /\ pc' = [pc EXCEPT ![s] = IF s = Coordinator THEN "send" ELSE "receive"]
  /\ UNCHANGED <<rx, request, follower_ip, g_arp_table, heard, said, strays, losses>>

\* do_as_coordinator: a request is broadcast, an error is retried until it goes.
make_arp_packet == [op |-> "request", sip |-> Coordinator, smac |-> Coordinator]

SendRequest ==
  /\ pc[Coordinator] = "send" /\ pc' = [pc EXCEPT ![Coordinator] = "receive"]
  /\ Deliver(make_arp_packet, {Follower})
  /\ UNCHANGED <<request, follower_ip, g_arp_table, heard, said, rounds, strays>>

Known(table, ip) == {i \in DOMAIN table : table[i].ip = ip}
Room(table) == Len(table) < MAX_ENTRIES
add_to_arp_table_Append(table, ip, mac) ==
  IF Room(table) THEN Append(table, [ip |-> ip, mac |-> mac]) ELSE table
add_to_arp_table(table, ip, mac) ==
  IF Known(table, ip) # {} THEN [table EXCEPT ![CHOOSE i \in Known(table, ip) : TRUE].mac = mac]
  ELSE IF Room(table) THEN Append(table, [ip |-> ip, mac |-> mac])
  ELSE table

\* check_arp_packet: anything but a request or a reply is refused, only a reply
\* enters the table.
IsArp(f) == f.op \in {"request", "reply"}
Learns(f) == f.op = "reply"

ReceiveReply ==
  /\ pc[Coordinator] = "receive" /\ rx[Coordinator] # <<>>
  /\ LET f == Head(rx[Coordinator])
     IN /\ said' = said \cup {f.op}
        /\ g_arp_table' = IF Learns(f) THEN add_to_arp_table(g_arp_table, f.sip, f.smac)
                          ELSE g_arp_table
        /\ heard' = IF f.op = "reply"
                    THEN [ip \in DOMAIN heard \cup {f.sip} |-> IF ip = f.sip THEN f.smac ELSE heard[ip]]
                    ELSE heard
  /\ rx' = [rx EXCEPT ![Coordinator] = Tail(@)]
  /\ pc' = [pc EXCEPT ![Coordinator] = "options"]
  /\ UNCHANGED <<request, follower_ip, bounds>>

\* do_as_follower: the first frame that comes, answered if it is ARP.
ReceiveRequest ==
  /\ pc[Follower] = "receive" /\ rx[Follower] # <<>>
  /\ request' = Head(rx[Follower])
  /\ rx' = [rx EXCEPT ![Follower] = Tail(@)]
  /\ pc' = [pc EXCEPT ![Follower] = IF IsArp(request') THEN "send" ELSE "options"]
  /\ UNCHANGED <<follower_ip, g_arp_table, heard, said, bounds>>

create_arp_reply == [op |-> "reply", sip |-> follower_ip, smac |-> Follower]
Target_Self(f) == Follower
Target(f) == f.smac

SendReply ==
  /\ pc[Follower] = "send" /\ pc' = [pc EXCEPT ![Follower] = "options"]
  /\ Deliver(create_arp_reply, {Target(request)} \cap Stations)
  /\ request' = NoFrame
  /\ UNCHANGED <<follower_ip, g_arp_table, heard, said, rounds, strays>>

Next == Stray \/ SendRequest \/ ReceiveReply \/ ReceiveRequest \/ SendReply
        \/ \E s \in Stations : Option(s)

Spec == Init /\ [][Next]_vars

\* Both programs go on: an SPI error is retried, a frame that is there is read.
FairSpec == Spec /\ WF_vars(SendRequest) /\ WF_vars(ReceiveReply)
                 /\ WF_vars(ReceiveRequest) /\ WF_vars(SendReply)

-----------------------------------------------------------------------------
TypeOK ==
  /\ pc \in [Stations -> {"options", "send", "receive"}]
  /\ \A s \in Stations : rx[s] \in Seq(Frame)
  /\ request \in Frame
  /\ g_arp_table \in Seq([ip : Addresses, mac : Stations \cup Strangers])
  /\ follower_ip \in Addresses /\ losses \in 0..MaxLosses

\* add_to_arp_table: the table keeps within MAX_ENTRIES, an address has one
\* entry, with the MAC of the last reply that named it, and an address without
\* one was heard only when the table was full.
TableTruthful ==
  /\ Len(g_arp_table) <= MAX_ENTRIES
  /\ \A i, j \in DOMAIN g_arp_table : g_arp_table[i].ip = g_arp_table[j].ip => i = j
  /\ \A i \in DOMAIN g_arp_table :
       g_arp_table[i].ip \in DOMAIN heard /\ g_arp_table[i].mac = heard[g_arp_table[i].ip]
  /\ \A ip \in DOMAIN heard :
       Known(g_arp_table, ip) = {} => Len(g_arp_table) = MAX_ENTRIES

Learnt == Known(g_arp_table, follower_ip) # {}

\* A request sent while the follower listens is answered and the answer
\* learnt, for the address the follower names (which may be a garbled one), unless a frame has been lost or a stranger's has come in between:
\* neither program ever repeats its frame.
ExchangeEnds ==
  (pc[Coordinator] = "send" /\ pc[Follower] = "receive") ~> (Learnt \/ losses + strays > 0)

\* do_as_coordinator reports "Success to receive ARP reply" for what it received.
ReplyReceived == said \subseteq {"reply"}
=============================================================================
