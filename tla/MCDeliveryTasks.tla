-------------------------- MODULE MCDeliveryTasks --------------------------
(* DeliveryTasks for TLC. *)
EXTENDS DeliveryTasks, TLC

SenderSymmetry == Permutations(Senders)
=============================================================================
