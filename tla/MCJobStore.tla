----------------------------- MODULE MCJobStore -----------------------------
(* TLC instance of JobStore: the store under its most general client.       *)
EXTENDS JobStore
=============================================================================
