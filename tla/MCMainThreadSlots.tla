------------------------- MODULE MCMainThreadSlots -------------------------
(* An instance of MainThreadSlots for TLC. *)
EXTENDS MainThreadSlots
=============================================================================
