---- MODULE Delivery ----
(***************************************************************************)
(* What an output sink promises its callers, whatever queue, batches and   *)
(* retries it uses: documents are settled in the order they were submitted,*)
(* each one exactly once, as delivered or as given up, and a sink that has *)
(* not broken down settles every document.  BulkSink implements it.        *)
(***************************************************************************)
EXTENDS Naturals, Sequences

CONSTANT Document

VARIABLES
    pending,        \* documents submitted and not settled, oldest first
    delivered,      \* documents settled as indexed
    given_up,       \* documents settled as failed
    broken          \* the sink has broken down

deliveryVars == <<pending, delivered, given_up, broken>>

DeliveryInit ==
    /\ pending = <<>>
    /\ delivered = <<>>
    /\ given_up = <<>>
    /\ broken = FALSE

Submit(d) ==
    /\ pending' = Append(pending, d)
    /\ UNCHANGED <<delivered, given_up, broken>>

\* The n oldest documents leave together.
Leave(n) == pending' = SubSeq(pending, n + 1, Len(pending))

Deliver(n) ==
    /\ ~ broken
    /\ Leave(n)
    /\ delivered' = delivered \o SubSeq(pending, 1, n)
    /\ UNCHANGED <<given_up, broken>>

GiveUp(n) ==
    /\ ~ broken
    /\ Leave(n)
    /\ given_up' = given_up \o SubSeq(pending, 1, n)
    /\ UNCHANGED <<delivered, broken>>

Settle == \E n \in 1..Len(pending) : Deliver(n) \/ GiveUp(n)

Break ==
    /\ ~ broken
    /\ broken' = TRUE
    /\ UNCHANGED <<pending, delivered, given_up>>

DeliveryNext == (\E d \in Document : Submit(d)) \/ Settle \/ Break

DeliverySafety == DeliveryInit /\ [][DeliveryNext]_deliveryVars

DeliverySpec == DeliverySafety /\ WF_deliveryVars(Settle)
====
