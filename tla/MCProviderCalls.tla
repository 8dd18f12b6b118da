--------------------------- MODULE MCProviderCalls ---------------------------
(* TLC instances of ProviderCalls.                                           *)
EXTENDS ProviderCalls
=============================================================================
