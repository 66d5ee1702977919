--------------------------- MODULE MCTransmission ---------------------------
(***************************************************************************)
(* Models of Transmission.  Ranked: two clients that may identify as       *)
(* commander, and the time-out timer.  Flat: three clients of one rank     *)
(* without the time-out timer (totDuration = 0), so that only ptt_down,    *)
(* ptt_up, audio, arrivals and departures interleave.                      *)
(***************************************************************************)
EXTENDS Transmission, TLC

RankedRoles == {"commander", "operator"}
FlatRoles == {"operator"}

Perms == Permutations(Client) \cup Permutations(Timer)
=============================================================================
