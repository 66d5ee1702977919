-------------------------------- MODULE Dial --------------------------------
(***************************************************************************)
(* What the receive light (Listener) and the channel scanner (Scanner) of  *)
(* a web console have in common: the channels, the choice of one on the    *)
(* page, and the goroutines of the hub that tell of a change of the floor  *)
(* after they have made it.                                                *)
(***************************************************************************)
EXTENDS Naturals, Sequences, FiniteSets

CONSTANTS
    NChannels,     \* channels are numbered 1..NChannels
    Private,       \* those that ask for a password
    Answers,       \* what the user does then: "right", "wrong", "cancel"
    Handler,       \* goroutines of the hub at work for other users, timers included
    MaxTurns,      \* bound on what the user does
    MaxInbox       \* bound on the messages under way when the hub adds more

ASSUME DialAssumption ==
    /\ NChannels \in Nat \ {0} /\ Private \subseteq 1..NChannels
    /\ Answers \subseteq {"right", "wrong", "cancel"}
    /\ MaxTurns \in Nat /\ MaxInbox \in Nat

Ch == 1..NChannels

(* A message about a channel. *)
Notice(type, ch) == [type |-> type, ch |-> ch]

(* The channel shown after changeChannel: without a password the user      *)
(* stays where he is; the hub is not waited for.                           *)
changeChannel(current, ch, answer) ==
    IF ch \in Private /\ answer = "cancel" THEN current ELSE ch
=============================================================================
