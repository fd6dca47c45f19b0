------------------------------- MODULE MCJobs -------------------------------
(* Small instance of PaymentJobs for TLC: the reconciliation of two charges, one *)
(* per run, next to the public page that asks for one of them.                   *)
EXTENDS PaymentJobs

Spec == PaymentJobsInit /\ [][ReconcileNext]_paymentJobVars /\ ReconcileFairness
=============================================================================
