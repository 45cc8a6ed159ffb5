----------------------------- MODULE MCIngestion -----------------------------
(* Ingestion with values for its constants, and the fault set of the run.   *)
EXTENDS Ingestion

\* Two invoices that differ in vendor and number but not in their fingerprint,
\* and one that differs from them in its total.
Hyphenated ==
    {[vendor |-> <<"acme", "east">>, number |-> <<"7">>, total |-> 30],
     [vendor |-> <<"acme">>, number |-> <<"east", "7">>, total |-> 30],
     [vendor |-> <<"acme">>, number |-> <<"east", "7">>, total |-> 40]}

\* Every fault but a look-up answered with an error status.
HonestReads == {"check_raised", "crash"} \union SaveFaults \union PublishFaults
=============================================================================
