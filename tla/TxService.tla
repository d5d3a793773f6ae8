----------------------------- MODULE TxService -----------------------------
(***************************************************************************)
(* What the transmit path promises to the network stack: every frame for   *)
(* which oa_tc6_start_xmit answered NETDEV_TX_OK and kept the skb is       *)
(* handed to the MAC once, whole, with its timestamp request, in the order *)
(* of acceptance.  (oa-tc6-framework.rst: "The transmit Ethernet frame in  *)
(* the skb is or going to be transmitted through the MAC-PHY.")            *)
(***************************************************************************)
EXTENDS Naturals, Sequences

CONSTANT Frame        \* what identifies a frame: its length and capture mode

VARIABLES accepted,   \* the frames kept by oa_tc6_start_xmit
          handed      \* the frames the MAC has received to their last byte

vars == <<accepted, handed>>

Init == accepted = <<>> /\ handed = <<>>

Accept == /\ \E f \in Frame : accepted' = Append(accepted, f)
          /\ UNCHANGED handed

Hand == /\ Len(handed) < Len(accepted)
        /\ handed' = Append(handed, accepted[Len(handed) + 1])
        /\ UNCHANGED accepted

Next == Accept \/ Hand

SafeSpec == Init /\ [][Next]_vars

Spec == SafeSpec /\ WF_vars(Hand)
=============================================================================
