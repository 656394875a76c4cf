----------------------------- MODULE MCDelivery -----------------------------
(* A small instance of Delivery for TLC. *)
EXTENDS Delivery

CONSTANTS r1, r2, c1, c2

MCRequest == {r1, r2}
MCConsumer == {c1, c2}

=============================================================================
