----------------------------- MODULE RxService -----------------------------
(***************************************************************************)
(* What the receive path promises to the network stack: the frames that    *)
(* arrived come up in order, each at most once and each with exactly its   *)
(* own bytes; a frame is passed over only after the MAC-PHY has lost data. *)
(***************************************************************************)
EXTENDS Naturals, Sequences

CONSTANT FrameSize       \* the sizes a frame can have

VARIABLES arrived,       \* the sizes of the frames that arrived, in order
          delivered,     \* what the stack got: frame number and size
          lossy          \* the MAC-PHY has lost received data

vars == <<arrived, delivered, lossy>>

Init == arrived = <<>> /\ delivered = <<>> /\ lossy = FALSE

Arrive == /\ \E size \in FrameSize : arrived' = Append(arrived, size)
          /\ UNCHANGED <<delivered, lossy>>

Lose == lossy' = TRUE /\ UNCHANGED <<arrived, delivered>>

Latest == IF delivered = <<>> THEN 0 ELSE delivered[Len(delivered)].no

Deliver == /\ \E n \in Latest + 1 .. Len(arrived) :
                 /\ n = Latest + 1 \/ lossy
                 /\ delivered' = Append(delivered,
                                        [no |-> n, size |-> arrived[n]])
           /\ UNCHANGED <<arrived, lossy>>

Next == Arrive \/ Lose \/ Deliver

Spec == Init /\ [][Next]_vars
=============================================================================
