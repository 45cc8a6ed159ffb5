------------------------------ MODULE MCAccounts ------------------------------
(* Accounts with values for its constants, and the fault sets of the runs.  *)
EXTENDS Accounts

\* Every fault but a read answered with an error status.
HonestReads ==
    {"user_raised", "queue_refused", "queue_unanswered", "crash"} \union SaveFaults

\* The sidecar is not up yet, or the process dies.
SlowSidecar == {"user_raised", "crash"}

RolesOnOffer == {"submitter", "approver"}
=============================================================================
