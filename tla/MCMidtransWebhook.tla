-------------------------- MODULE MCMidtransWebhook --------------------------
(* Instances of MidtransWebhook for TLC.                                   *)
EXTENDS MidtransWebhook, TLC

Pay(status, fraud) == [status |-> status, fraud |-> fraud]

Pending    == Pay("pending", "")
Challenged == Pay("capture", "challenge")
Captured   == Pay("capture", "accept")
Settled    == Pay("settlement", "accept")
Expired    == Pay("expire", "")
Denied     == Pay("deny", "deny")
PartlyBack == Pay("partial_refund", "accept")
Refunded   == Pay("refund", "accept")

\* A bank transfer: it is paid or expires, and may be paid back in parts.
TransferPayments == {Pending, Settled, Expired, PartlyBack, Refunded}
TransferInitial  == {Pending}
TransferMoves    == Pending    :> {Settled, Expired} @@ Settled  :> {PartlyBack, Refunded}
                 @@ PartlyBack :> {PartlyBack, Refunded} @@ Expired :> {} @@ Refunded :> {}

\* A transfer, or a card: it may be challenged, and a capture is settled later.
AllPayments == TransferPayments \union {Challenged, Captured, Denied}
AllInitial  == {Pending, Challenged, Captured, Denied}
AllMoves    == Challenged :> {Captured, Denied} @@ Captured :> {Settled} @@ Denied :> {}
            @@ TransferMoves

\* The notification of a capture has no time to read; that of its settlement has.
AllTimeless == {Captured, Expired}

\* The hypothesis of CaughtUpHolds.
ASSUME PaymentsMoveForward == ForwardMoves

Symmetry == Permutations(Request)
================================================================================
