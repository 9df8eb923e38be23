----------------------------- MODULE MCDelivery -----------------------------
(* Two answers that compete for a small outbox. *)
EXTENDS TerminalDelivery

CONSTANTS a1, a2
=============================================================================
