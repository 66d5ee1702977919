---------------------------- MODULE Transmission ----------------------------
(***************************************************************************)
(* The hub's handlers of one channel's floor: handlePTTDown, handlePTTUp,  *)
(* HandleBinaryAudio, the departures of UnregisterClient and SwitchChannel *)
(* and the time-out callback handleTOTExpired (internal/radio/hub.go), on  *)
(* top of Channel and of the recorder's buffer for the channel.            *)
(*                                                                         *)
(* A client's frames are handled one after the other by the goroutine of   *)
(* its ReadPump; pc says which critical section of the current handler is  *)
(* next.  Goroutines of different clients, and that of an expired timer,   *)
(* interleave between critical sections.                                   *)
(***************************************************************************)
EXTENDS Channel

CONSTANT NoTX        \* no transmission buffer

ASSUME NoTXAssumption == NoTX \notin [speaker : Client, sources : SUBSET Client]

VARIABLES
    pc,         \* the next critical section of each client's goroutine
    other,      \* its local *Client: who was preempted, or whose audio was saved
    expiry,     \* the goroutine of an expired timer, in handleTOTExpired
    tx,         \* recorder.activeTX of the channel: speaker, whose packets it has
    told,       \* whether the last floor_status addressed to a client was
                \* "granted" and it has not released the button since
    activity,   \* is_busy of the last channel_activity an observer was sent
    late        \* packets a client had forwarded since it lost the floor

hubVars == <<pc, other, expiry, tx, told, activity, late>>
vars == <<channelVars, hubVars>>

Step == {"away", "read", "endPreempted", "tellPreempted", "startTX", "tellGranted",
         "sayBusy", "tellDenied", "endTX", "addNote", "sayIdle", "leave", "append", "forward"}
NoExpiry == [at |-> "none", speaker |-> NoClient]

Init ==
    /\ ChannelInit
    /\ pc = [c \in Client |-> "away"]
    /\ other = [c \in Client |-> NoClient]
    /\ expiry = NoExpiry
    /\ tx = NoTX
    /\ told = [c \in Client |-> FALSE]
    /\ activity = FALSE
    /\ late = [c \in Client |-> 0]

----------------------------------------------------------------------------
Goto(c, step) == pc' = [pc EXCEPT ![c] = step]

(* SendPriorityJSON or SendJSON of a floor_status to one client: granted,  *)
(* or one that says it has no floor (denied, preempted, timeout).          *)
Tell(c, granted) == told' = [told EXCEPT ![c] = granted]

(* A client arrives: RegisterClient, or the second half of SwitchChannel. *)
Arrive(c) ==
    /\ pc[c] = "away"
    /\ AddSubscriber(c)
    /\ Goto(c, "read")
    /\ Tell(c, FALSE)
    /\ UNCHANGED <<other, expiry, tx, activity, late>>

(* An identify message with a role. *)
Identify(c, r) ==
    /\ pc[c] = "read"
    /\ SetRole(c, r)
    /\ UNCHANGED hubVars

(* handlePTTDown up to the answer of RequestFloor. *)
PTTDownGranted(c) ==
    /\ pc[c] = "read"
    /\ \/ KeepFloor(c) /\ UNCHANGED other /\ Goto(c, "startTX")
       \/ GrantFloor(c) /\ UNCHANGED other /\ Goto(c, "startTX")
       \/ /\ PreemptFloor(c)
          /\ other' = [other EXCEPT ![c] = activeSpeaker]
          /\ Goto(c, "endPreempted")
    /\ late' = [late EXCEPT ![c] = 0]
    /\ UNCHANGED <<expiry, tx, told, activity>>

PTTDownDenied(c) ==
    /\ pc[c] = "read"
    /\ DenyFloor(c)
    /\ Goto(c, "tellDenied")
    /\ UNCHANGED <<other, expiry, tx, told, activity, late>>

(* The recorder's buffer is closed; audio too short to keep is dropped. *)
OnTransmissionEnd == tx' = NoTX

(* Mutant of OnTransmissionStart: a buffer left open is used again. *)
OnTransmissionStartKeeps(c) ==
    tx' = IF tx = NoTX THEN [speaker |-> c, sources |-> {}] ELSE tx

(* A buffer is opened, in place of any other of the channel. *)
OnTransmissionStart(c) == tx' = [speaker |-> c, sources |-> {}]

(* A packet is added to the buffer that is open, whoever it belongs to. *)
AppendAudio(c) ==
    IF tx = NoTX THEN tx' = tx ELSE tx' = [tx EXCEPT !.sources = @ \cup {c}]

EndPreempted(c) ==
    /\ pc[c] = "endPreempted"
    /\ OnTransmissionEnd
    /\ Goto(c, "tellPreempted")
    /\ UNCHANGED <<channelVars, other, expiry, told, activity, late>>

TellPreempted(c) ==
    /\ pc[c] = "tellPreempted"
    /\ Tell(other[c], FALSE)
    /\ other' = [other EXCEPT ![c] = NoClient]
    /\ Goto(c, "startTX")
    /\ UNCHANGED <<channelVars, expiry, tx, activity, late>>

(* Mutant of StartTX: the speaker is not told of the grant. *)
StartTXSilent(c) ==
    /\ pc[c] = "startTX"
    /\ OnTransmissionStart(c)
    /\ Goto(c, "sayBusy")
    /\ UNCHANGED <<channelVars, other, expiry, told, activity, late>>

StartTX(c) ==
    /\ pc[c] = "startTX"
    /\ OnTransmissionStart(c)
    /\ Goto(c, "tellGranted")
    /\ UNCHANGED <<channelVars, other, expiry, told, activity, late>>

TellGranted(c) ==
    /\ pc[c] = "tellGranted"
    /\ Tell(c, TRUE)
    /\ Goto(c, "sayBusy")
    /\ UNCHANGED <<channelVars, other, expiry, tx, activity, late>>

SayBusy(c) ==
    /\ pc[c] = "sayBusy"
    /\ activity' = TRUE
    /\ Goto(c, "read")
    /\ UNCHANGED <<channelVars, other, expiry, tx, told, late>>

TellDenied(c) ==
    /\ pc[c] = "tellDenied"
    /\ Tell(c, FALSE)
    /\ Goto(c, "read")
    /\ UNCHANGED <<channelVars, other, expiry, tx, activity, late>>

(* handlePTTUp; nothing happens when the client does not hold the floor. *)
PTTUp(c) ==
    /\ pc[c] = "read"
    /\ Tell(c, FALSE)
    /\ \/ ReleaseFloor(c) /\ Goto(c, "endTX")
       \/ activeSpeaker # c /\ UNCHANGED <<channelVars, pc>>
    /\ UNCHANGED <<other, expiry, tx, activity, late>>

(* A buffer with audio is saved unless it is too short or the write fails. *)
EndTX(c) ==
    /\ pc[c] = "endTX"
    /\ OnTransmissionEnd
    /\ \/ /\ tx # NoTX
          /\ tx.sources # {}
          /\ other' = [other EXCEPT ![c] = tx.speaker]
          /\ Goto(c, "addNote")
       \/ Goto(c, "sayIdle") /\ UNCHANGED other
    /\ UNCHANGED <<channelVars, expiry, told, activity, late>>

(* The chat history gets a voice message: sender c, audio of other[c].     *)
AddNote(c) ==
    /\ pc[c] = "addNote"
    /\ other' = [other EXCEPT ![c] = NoClient]
    /\ Goto(c, "sayIdle")
    /\ UNCHANGED <<channelVars, expiry, tx, told, activity, late>>

SayIdle(c) ==
    /\ pc[c] \in {"sayIdle", "leave"}
    /\ activity' = FALSE
    /\ Goto(c, IF pc[c] = "leave" THEN "away" ELSE "read")
    /\ UNCHANGED <<channelVars, other, expiry, tx, told, late>>

(* Mutant of Depart: frames are still read after the departure. *)
DepartKeepsReading(c) ==
    /\ pc[c] = "read"
    /\ RemoveSubscriber(c)
    /\ UNCHANGED hubVars

(* Mutant of Depart: nobody is told that the speaker has left. *)
DepartSilently(c) ==
    /\ pc[c] = "read"
    /\ RemoveSubscriber(c)
    /\ Goto(c, "away")
    /\ UNCHANGED <<other, expiry, tx, told, activity, late>>

(* UnregisterClient, or the first half of SwitchChannel.  The recorder is  *)
(* not told that a departing speaker has stopped.                          *)
Depart(c) ==
    /\ pc[c] = "read"
    /\ RemoveSubscriber(c)
    /\ Goto(c, IF activeSpeaker = c THEN "leave" ELSE "away")
    /\ UNCHANGED <<other, expiry, tx, told, activity, late>>

----------------------------------------------------------------------------
(* Mutant of AudioFrame: the floor is not checked. *)
AudioFrameUnchecked(c) ==
    /\ pc[c] = "read"
    /\ Goto(c, "append")
    /\ UNCHANGED <<channelVars, other, expiry, tx, told, activity, late>>

(* HandleBinaryAudio: the floor is checked once, before two more sections. *)
AudioFrame(c) ==
    /\ pc[c] = "read"
    /\ IsFloorHolder(c)
    /\ Goto(c, "append")
    /\ UNCHANGED <<channelVars, other, expiry, tx, told, activity, late>>

AppendFrame(c) ==
    /\ pc[c] = "append"
    /\ AppendAudio(c)
    /\ Goto(c, "forward")
    /\ UNCHANGED <<channelVars, other, expiry, told, activity, late>>

ForwardFrame(c) ==
    /\ pc[c] = "forward"
    /\ late' = [late EXCEPT ![c] = IF IsFloorHolder(c) THEN 0 ELSE @ + 1]
    /\ Goto(c, "read")
    /\ UNCHANGED <<channelVars, other, expiry, tx, told, activity>>

----------------------------------------------------------------------------
Expire(t) ==
    /\ FireTOT(t)
    /\ UNCHANGED hubVars

(* Mutant of TimeOut: the callback runs without a speaker. *)
TimeOutAlways(t) ==
    /\ expiry = NoExpiry
    /\ handleTOT(t)
    /\ expiry' = [at |-> "endTX", speaker |-> activeSpeaker]
    /\ UNCHANGED <<pc, other, tx, told, activity, late>>

(* handleTOT; the callback runs only when somebody was speaking.  One      *)
(* callback is under way at a time (a bound: the next handleTOT waits).    *)
TimeOut(t) ==
    /\ expiry = NoExpiry
    /\ handleTOT(t)
    /\ IF activeSpeaker = NoClient
       THEN UNCHANGED expiry
       ELSE expiry' = [at |-> "endTX", speaker |-> activeSpeaker]
    /\ UNCHANGED <<pc, other, tx, told, activity, late>>

(* The three critical sections of handleTOTExpired. *)
TOTEndTX ==
    /\ expiry.at = "endTX"
    /\ OnTransmissionEnd
    /\ expiry' = [expiry EXCEPT !.at = "tell"]
    /\ UNCHANGED <<channelVars, pc, other, told, activity, late>>

TOTTell ==
    /\ expiry.at = "tell"
    /\ Tell(expiry.speaker, FALSE)
    /\ expiry' = [expiry EXCEPT !.at = "sayIdle"]
    /\ UNCHANGED <<channelVars, pc, other, tx, activity, late>>

TOTSayIdle ==
    /\ expiry.at = "sayIdle"
    /\ activity' = FALSE
    /\ expiry' = NoExpiry
    /\ UNCHANGED <<channelVars, pc, other, tx, told, late>>

----------------------------------------------------------------------------
(* The steps of a handler that has started; nothing in them can block. *)
Handler(c) ==
    \/ EndPreempted(c) \/ TellPreempted(c) \/ StartTX(c) \/ TellGranted(c) \/ SayBusy(c)
    \/ TellDenied(c) \/ EndTX(c) \/ AddNote(c) \/ SayIdle(c)
    \/ AppendFrame(c) \/ ForwardFrame(c)

Callback == TOTEndTX \/ TOTTell \/ TOTSayIdle

Next ==
    \/ \E c \in Client :
          \/ Arrive(c) \/ Depart(c) \/ PTTDownGranted(c) \/ PTTDownDenied(c) \/ PTTUp(c)
          \/ AudioFrame(c) \/ Handler(c)
          \/ \E r \in Role : Identify(c, r)
    \/ \E t \in Timer : Expire(t) \/ TimeOut(t)
    \/ Callback

Spec == Init /\ [][Next]_vars

----------------------------------------------------------------------------
(* The types of the handlers' state. *)
TypeOK ==
    /\ ChannelTypeOK
    /\ pc \in [Client -> Step]
    /\ other \in [Client -> Client \cup {NoClient}]
    /\ expiry \in [at : {"endTX", "tell", "sayIdle"}, speaker : Client] \cup {NoExpiry}
    /\ tx \in [speaker : Client, sources : SUBSET Client] \cup {NoTX}
    /\ told \in [Client -> BOOLEAN]
    /\ activity \in BOOLEAN
    /\ late \in [Client -> Nat]

(* No handler is between two of its critical sections. *)
Quiet == /\ \A c \in Client : pc[c] \in {"away", "read"}
         /\ expiry = NoExpiry

(* HandleBinaryAudio checks the floor before it forwards: a client that    *)
(* lost the floor between the check and the broadcast is heard for at most *)
(* one more packet, whatever the other goroutines do.                      *)
AtMostOneLatePacket == \A c \in Client : late[c] <= 1

(* The handlers use the channel as its specification expects: they ask for *)
(* the floor only for a client that is tuned to the channel, also while it *)
(* is switching or disconnecting, and change nothing of it otherwise.      *)
UsesChannel == ChannelSpec

(* When no handler is under way, exactly the client that was last told     *)
(* "granted" holds the floor.                                              *)
LastWordIsTrue ==
    Quiet => \A c \in Subscribers : told[c] <=> IsFloorHolder(c)

(* A recording contains the audio of its speaker and of nobody else.       *)
RecordingIsOfSpeaker == tx # NoTX => tx.sources \subseteq {tx.speaker}

(* The voice message handlePTTUp adds to the chat history in a client's    *)
(* name is the audio of that client.                                       *)
VoiceNoteIsOfSender == \A c \in Client : pc[c] = "addNote" => other[c] = c

(* When no handler is under way, a free channel is not shown as busy: each *)
(* holder's "idle" follows its own "busy", however the broadcasts of       *)
(* different holders overtake each other.                                  *)
NoPhantomBusy == Quiet /\ ~Busy => ~activity
=============================================================================
