--------------------------- MODULE MCClientQueue ---------------------------
(***************************************************************************)
(* Model of ClientQueue: two producers of three messages each and queues   *)
(* of two, so that both producers can find a queue full at the same time,  *)
(* and order within a queue matters, while the pump runs.                  *)
(***************************************************************************)
EXTENDS ClientQueue
=============================================================================
