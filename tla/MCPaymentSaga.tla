---------------------------- MODULE MCPaymentSaga ----------------------------
(* PaymentSaga with values for its constants, and the fault sets of the runs. *)
EXTENDS PaymentSaga

\* Every fault but a look-up answered with an error status.
HonestReads ==
    {"read_raised", "ack_lost", "crash"}
        \union ReserveFaults \union SettleFaults \union OutcomeFaults

OnlyCrash == {"crash"}

OnlyErrorStatus == {"read_status"}
=============================================================================
