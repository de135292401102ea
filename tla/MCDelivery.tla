----------------------------- MODULE MCDelivery -----------------------------
(* Instances of Delivery: as many attempts for each queue. *)
EXTENDS Delivery

MCMaxAttempts == [q \in Queues |-> 2]
==============================================================================
