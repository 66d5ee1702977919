------------------------------- MODULE Floor -------------------------------
(***************************************************************************)
(* What a radio channel promises about its floor, without timers or locks: *)
(* the set of members, and the set of members who may transmit.  The       *)
(* README of the repository states it as "Only one radio unit can transmit *)
(* per channel at a time" and "Time-Out-Timer (TOT): Prevents hot mics     *)
(* from jamming channels indefinitely".                                    *)
(***************************************************************************)
EXTENDS Naturals

CONSTANT Client

VARIABLES
    members,        \* clients tuned to the channel
    transmitters,   \* clients whose audio the channel accepts
    rank            \* the arbitration rank of each client

vars == <<members, transmitters, rank>>

Init == /\ members = {}
        /\ transmitters = {}
        /\ rank \in [Client -> Nat]

Join(c) == /\ members' = members \cup {c}
           /\ UNCHANGED <<transmitters, rank>>

(* A member that leaves takes its floor with it. *)
Leave(c) == /\ members' = members \ {c}
            /\ transmitters' = transmitters \ {c}
            /\ UNCHANGED rank

Rerank(c) == /\ rank' \in [Client -> Nat]
             /\ \A d \in Client \ {c} : rank'[d] = rank[d]
             /\ UNCHANGED <<members, transmitters>>

(* A free floor goes to any member that asks for it. *)
Take(c) == /\ transmitters = {}
           /\ c \in members
           /\ transmitters' = {c}
           /\ UNCHANGED <<members, rank>>

(* A held floor changes hands only towards a strictly higher rank. *)
Preempt(c) == /\ c \in members
              /\ transmitters # {}
              /\ \A d \in transmitters : rank[c] > rank[d]
              /\ transmitters' = {c}
              /\ UNCHANGED <<members, rank>>

(* Released by its holder, by force or by the time-out timer. *)
Free == /\ transmitters' = {}
        /\ UNCHANGED <<members, rank>>

Next == \/ \E c \in Client : Join(c) \/ Leave(c) \/ Rerank(c) \/ Take(c) \/ Preempt(c)
        \/ Free

Spec == Init /\ [][Next]_vars

(* No member keeps the floor for ever, however long it holds the button. *)
NoHotMic == \A c \in Client : (transmitters = {c}) ~> (transmitters # {c})
=============================================================================
