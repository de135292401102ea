-------------------------- MODULE MCPaymentSession --------------------------
(* Instances of PaymentSession.  The runs check liveness, so that attempts, *)
(* callers and create requests are not declared symmetric.                  *)
EXTENDS PaymentSession
==============================================================================
