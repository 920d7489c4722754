----------------------------- MODULE PacketFifo -----------------------------
(***************************************************************************)
(* What a Z1 connection promises in one direction: the packets that were   *)
(* accepted for sending are delivered in the order of their acceptance,    *)
(* each at most once and none in between left out.  Once the sender has    *)
(* closed no acceptance begins: at most the one that had begun before is   *)
(* still made, and nothing is accepted after it.                           *)
(***************************************************************************)
EXTENDS Naturals, Sequences

CONSTANT Packet

VARIABLES
  accepted,   \* packets accepted for sending, in order
  delivered,  \* packets handed to the receiver, in order
  open,       \* the sender accepts packets
  begun       \* an acceptance has begun and is neither made nor refused

vars == <<accepted, delivered, open, begun>>

Init == accepted = <<>> /\ delivered = <<>> /\ open = TRUE /\ begun = FALSE

Begin ==
  /\ open /\ ~begun
  /\ begun' = TRUE
  /\ UNCHANGED <<accepted, delivered, open>>

\* A sender that needs one step for it begins and accepts at once, and may
\* close as it does.
Accept(p) ==
  /\ open \/ begun
  /\ accepted' = Append(accepted, p)
  /\ begun' = FALSE
  /\ open' \in {open, FALSE}
  /\ UNCHANGED delivered

Refuse ==
  /\ begun /\ begun' = FALSE
  /\ UNCHANGED <<accepted, delivered, open>>

Deliver ==
  /\ Len(delivered) < Len(accepted)
  /\ delivered' = Append(delivered, accepted[Len(delivered) + 1])
  /\ UNCHANGED <<accepted, open, begun>>

Close == open' = FALSE /\ UNCHANGED <<accepted, delivered, begun>>

Next == Begin \/ (\E p \in Packet : Accept(p)) \/ Refuse \/ Deliver \/ Close

Spec == Init /\ [][Next]_vars
=============================================================================
