------------------------------- MODULE MCHub -------------------------------
(***************************************************************************)
(* Model of Hub: two clients, the configured channel 1 and one they may    *)
(* create (public or with a password), every kind of request, and two      *)
(* messages into histories of one, so that a message is pushed out while   *)
(* another client tunes in.                                                *)
(***************************************************************************)
EXTENDS Hub

AllRequests == {"join", "create", "chat", "voice", "video"}
=============================================================================
