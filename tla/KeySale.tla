------------------------------ MODULE KeySale ------------------------------
(***************************************************************************)
(* What the sell path of a squeaknode promises (spec 4.7), with the tables *)
(* and the processor abstracted away.  Each payment hash names one sale:  *)
(* it is offered, then either settled (the buyer paid and learnt the key) *)
(* or cancelled; a settled sale is booked as a received payment at most   *)
(* once, and never one that was not settled.                               *)
(***************************************************************************)
CONSTANTS PaymentHashes

VARIABLES
    sale,       \* sale[ph]: "none", "offered", "settled" or "canceled"
    records     \* records[ph]: how many received payments book the sale

SaleStates == {"none", "offered", "settled", "canceled"}

TypeOK ==
    /\ sale \in [PaymentHashes -> SaleStates]
    /\ records \in [PaymentHashes -> {0, 1}]

Init ==
    /\ sale = [ph \in PaymentHashes |-> "none"]
    /\ records = [ph \in PaymentHashes |-> 0]

\* A sale moves from one state to the next; nothing else changes.
Move(ph, from, to) ==
    /\ sale[ph] = from
    /\ sale' = [sale EXCEPT ![ph] = to]
    /\ UNCHANGED records

Offer(ph)  == Move(ph, "none", "offered")
Settle(ph) == Move(ph, "offered", "settled")
Cancel(ph) == Move(ph, "offered", "canceled")

\* The seller books a settled sale once.
Record(ph) ==
    /\ sale[ph] = "settled"
    /\ records[ph] = 0
    /\ records' = [records EXCEPT ![ph] = 1]
    /\ UNCHANGED sale

Next ==
    \E ph \in PaymentHashes :
        Offer(ph) \/ Settle(ph) \/ Cancel(ph) \/ Record(ph)

Spec == Init /\ [][Next]_<<sale, records>>

=============================================================================
