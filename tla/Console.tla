------------------------------ MODULE Console ------------------------------
(***************************************************************************)
(* The push-to-talk machine of the web console (static/js/radio.js, with   *)
(* the transmitting side of static/js/audio.js) against the hub.           *)
(*                                                                         *)
(* The console's frames reach the hub in order.  The hub's answers travel  *)
(* through the two queues of client.go: grants and denials through         *)
(* highPri, time-outs and the state of a channel just joined through send; *)
(* each keeps its order, one may overtake the other.  The hub is reduced   *)
(* to the holder of each floor.  It tells this console of a grant, a       *)
(* preemption or a time-out some time after the floor has changed hands,   *)
(* each from a goroutine of its own, so that the notices arrive in any     *)
(* order.  Whatever other clients do is chosen freely.  No notice is lost  *)
(* on an open connection (ClientQueue has the eviction from full queues).  *)
(***************************************************************************)
EXTENDS Naturals, Sequences, FiniteSets

CONSTANTS
    ChannelID,     \* the channels; a new connection is placed on channel 1
    PTTMode,       \* the modes the user may choose: "hold", "toggle"
    PreBuffer,     \* packets kept until the grant (15 in the code)
    MaxInFlight,   \* bound on the messages under way while the console is steady,
    MaxAstray      \* and after a move, a mode change or a lost connection

ASSUME ConsoleAssumption ==
    /\ 1 \in ChannelID
    /\ "hold" \in PTTMode /\ PTTMode \subseteq {"hold", "toggle"}
    /\ PreBuffer \in Nat /\ MaxInFlight \in Nat /\ MaxAstray \in Nat

VARIABLES
    pttMode, isPTTDown, isTransmitting, currentChannelID,   \* of radio.js
    button,     \* the button is physically held
    engine,     \* audioEngine: isTransmitting, isPreBuffering, its channel and queue
    open,       \* the WebSocket is open
    up,         \* frames on the way to the hub
    due,        \* floor_status messages that handlers of the hub will send
    highPri, send,   \* floor_status messages on the way to the console
    tuned,      \* the hub's CurrentChannelID of this connection
    holder,     \* who holds the floor of each channel
    steady,     \* no move, mode change or lost connection since the last
                \* press that found everything at rest
    patient     \* steady, and no other press since then

user == <<pttMode, button>>
flags == <<isPTTDown, isTransmitting>>
down == <<due, highPri, send>>
hub == <<tuned, holder>>
seen == <<steady, patient>>
vars == <<user, flags, currentChannelID, engine, open, up, down, hub, seen>>

Status(ch, status) == [ch |-> ch, status |-> status]
StatusType == [ch : ChannelID, status : {"granted", "denied", "busy", "timeout"}]
Signal(type) == [type |-> type]

(* A packet of the microphone: the channel in its header, and whether the  *)
(* user holds the button (or toggles) when it is captured.                 *)
Packet == [type |-> "audio", ch |-> engine.ch, pressed |-> button \/ pttMode = "toggle"]

Init ==
    /\ pttMode = "hold"
    /\ isPTTDown = FALSE
    /\ isTransmitting = FALSE
    /\ currentChannelID = 1
    /\ button = FALSE
    /\ engine = [tx |-> FALSE, pre |-> FALSE, ch |-> 1, queue |-> <<>>]
    /\ open = TRUE
    /\ up = <<>>
    /\ due = {}
    /\ highPri = <<>>
    /\ send = <<>>
    /\ tuned = 1
    /\ holder = [ch \in ChannelID |-> "none"]
    /\ steady = TRUE
    /\ patient = TRUE

----------------------------------------------------------------------------
(* ws.send when the WebSocket is open. *)
Send(frames) == up' = IF open THEN up \o frames ELSE up

Room == Len(up) + Cardinality(due) + Len(highPri) + Len(send)
        < (IF steady THEN MaxInFlight ELSE MaxAstray)

(* No message under way, and none to come. *)
Drained == up = <<>> /\ due = {} /\ highPri = <<>> /\ send = <<>>

AtRest ==
    /\ ~isPTTDown /\ ~isTransmitting /\ ~engine.tx
    /\ open /\ tuned = currentChannelID /\ holder[tuned] # "me"
    /\ Drained

Stopped == [engine EXCEPT !.tx = FALSE, !.pre = FALSE, !.queue = <<>>]
LastPacket == IF engine.tx THEN <<Packet>> ELSE <<>>

requestFloor ==
    IF isPTTDown \/ isTransmitting
    THEN UNCHANGED <<flags, engine, up>>
    ELSE /\ isPTTDown' = TRUE
         /\ engine' = [engine EXCEPT !.ch = currentChannelID,
                                     !.pre = TRUE, !.queue = <<>>]
         /\ Send(<<Signal("ptt_down")>>)
         /\ UNCHANGED isTransmitting

(* Mutant of ReleaseFrames: the hub is told only of a release on the air. *)
ReleaseFramesOnAir ==
    IF isTransmitting THEN Append(LastPacket, Signal("ptt_up")) ELSE <<>>

(* Frames of releaseFloor: the last packet, then ptt_up. *)
ReleaseFrames == Append(LastPacket, Signal("ptt_up"))

(* A release, followed by other frames. *)
releaseThen(frames) ==
    /\ isPTTDown' = FALSE
    /\ isTransmitting' = FALSE
    /\ engine' = Stopped
    /\ Send(ReleaseFrames \o frames)

(* Mutant of releaseFloor: only a transmission can be released. *)
releaseFloorOnAir ==
    IF isTransmitting THEN releaseThen(<<>>) ELSE UNCHANGED <<flags, engine, up>>

(* Nothing to do when both flags are down, even if the engine is live. *)
releaseFloor ==
    IF isPTTDown \/ isTransmitting THEN releaseThen(<<>>) ELSE UNCHANGED <<flags, engine, up>>

(* The button goes down, or is tapped in toggle mode. *)
Press ==
    /\ Room
    /\ ~button
    /\ button' = (pttMode = "hold")
    /\ IF pttMode = "toggle" /\ isTransmitting THEN releaseFloor ELSE requestFloor
    /\ steady' = (steady \/ AtRest)
    /\ patient' = AtRest
    /\ UNCHANGED <<pttMode, currentChannelID, open, down, hub>>

(* The button goes up, any click ends, or the window loses the focus. *)
Release ==
    /\ button' = FALSE
    /\ IF pttMode = "hold" THEN releaseFloor ELSE UNCHANGED <<flags, engine, up>>
    /\ UNCHANGED <<pttMode, currentChannelID, open, down, hub, seen>>

SetMode(mode) ==
    /\ mode # pttMode
    /\ pttMode' = mode
    /\ steady' = FALSE /\ patient' = FALSE
    /\ UNCHANGED <<button, flags, currentChannelID, engine, open, up, down, hub>>

(* changeChannel: shown at once; the hub may refuse (ok is FALSE when the  *)
(* password of a private channel is wrong).  A floor that is requested but *)
(* not granted yet is not released.                                        *)
changeChannel(ch, ok) ==
    LET join == [type |-> "join_channel", ch |-> ch, ok |-> ok]
    IN  /\ Room
        /\ currentChannelID' = ch
        /\ IF isTransmitting
           THEN releaseThen(<<join>>)
           ELSE UNCHANGED <<flags, engine>> /\ Send(<<join>>)
        /\ steady' = FALSE /\ patient' = FALSE
        /\ UNCHANGED <<user, open, down, hub>>

(* Mutant of Microphone: the pre-buffer has no limit. *)
MicrophoneUnlimited ==
    /\ IF engine.tx THEN Room /\ Send(<<Packet>>) /\ UNCHANGED engine
       ELSE /\ engine.pre
            /\ engine' = [engine EXCEPT !.queue = Append(@, Packet)]
            /\ UNCHANGED up
    /\ UNCHANGED <<user, flags, currentChannelID, open, down, hub, seen>>

(* The microphone has filled a packet (_flushPCMPacket). *)
Microphone ==
    /\ \/ engine.tx /\ Room /\ Send(<<Packet>>) /\ UNCHANGED engine
       \/ /\ ~engine.tx /\ engine.pre
          /\ Len(engine.queue) < PreBuffer
          /\ engine' = [engine EXCEPT !.queue = Append(@, Packet)]
          /\ UNCHANGED up
    /\ UNCHANGED <<user, flags, currentChannelID, open, down, hub, seen>>

----------------------------------------------------------------------------
(* Mutant of Granted: taken even if the button is up. *)
GrantedUnfiltered ==
    /\ isTransmitting' = TRUE
    /\ engine' = [engine EXCEPT !.tx = TRUE, !.pre = FALSE, !.queue = <<>>]
    /\ Send(engine.queue)
    /\ UNCHANGED isPTTDown

(* "granted": given back if the button is up (releaseFloor does nothing    *)
(* when both flags are down), else on the air with the pre-buffered audio. *)
Granted ==
    IF pttMode = "hold" /\ ~isPTTDown
    THEN releaseFloor
    ELSE /\ isTransmitting' = TRUE
         /\ engine' = [engine EXCEPT !.tx = TRUE, !.pre = FALSE, !.queue = <<>>]
         /\ Send(engine.queue)
         /\ UNCHANGED isPTTDown

(* Mutant of Denied: the request stays open. *)
DeniedKeepsRequest == isTransmitting' = FALSE /\ UNCHANGED <<isPTTDown, engine, up>>

(* "denied" or "busy": the audio engine is not stopped. *)
Denied ==
    /\ isPTTDown' = FALSE
    /\ isTransmitting' = FALSE
    /\ UNCHANGED <<engine, up>>

(* "timeout": the engine is stopped, ptt_up is not sent. *)
TimedOut ==
    /\ isPTTDown' = FALSE
    /\ isTransmitting' = FALSE
    /\ engine' = Stopped
    /\ Send(LastPacket)

(* A status of another channel than the one shown is ignored. *)
handleFloorStatus(m) ==
    IF m.ch # currentChannelID THEN UNCHANGED <<flags, engine, up>>
    ELSE CASE m.status = "granted" -> Granted
           [] m.status \in {"denied", "busy"} -> Denied
           [] m.status = "timeout" -> TimedOut

ReceivePriority ==
    /\ highPri # <<>>
    /\ handleFloorStatus(Head(highPri))
    /\ highPri' = Tail(highPri)
    /\ UNCHANGED <<user, currentChannelID, open, due, send, hub, seen>>

ReceiveSend ==
    /\ send # <<>>
    /\ handleFloorStatus(Head(send))
    /\ send' = Tail(send)
    /\ UNCHANGED <<user, currentChannelID, open, due, highPri, hub, seen>>

(* ws.onclose leaves the flags and the channel shown as they are.  The hub *)
(* notices later: until then a floor is held by the dead connection.       *)
Disconnect ==
    /\ open
    /\ open' = FALSE
    /\ up' = <<>>
    /\ due' = {}
    /\ highPri' = <<>>
    /\ send' = <<>>
    /\ holder' = [ch \in ChannelID |-> IF holder[ch] = "me" THEN "other" ELSE holder[ch]]
    /\ steady' = FALSE /\ patient' = FALSE
    /\ UNCHANGED <<user, flags, currentChannelID, engine, tuned>>

(* connectWebSocket: the hub registers a new client on channel 1. *)
Reconnect ==
    /\ ~open
    /\ open' = TRUE
    /\ tuned' = 1
    /\ UNCHANGED <<user, flags, currentChannelID, engine, up, down, holder, seen>>

----------------------------------------------------------------------------
(* A notice that some handler will send, once it has written a recording   *)
(* and told others.  Two of one kind about one channel at a time are left  *)
(* out.                                                                    *)
Later(m) == m \notin due /\ due' = due \cup {m}

Granting == \E ch \in ChannelID : Status(ch, "granted") \in due

(* ReadPump handles one frame after the other: none before a grant is sent. *)
Frame(type) ==
    /\ up # <<>> /\ ~Granting
    /\ Head(up).type = type
    /\ up' = Tail(up)
    /\ UNCHANGED <<user, flags, currentChannelID, engine, open, seen>>

(* ptt_down: granted, denied, or granted by rank.  A grant is sent later,  *)
(* a denial at once: nothing can happen to this client in between.         *)
HubPTTDown ==
    /\ Frame("ptt_down")
    /\ \/ /\ holder' = [holder EXCEPT ![tuned] = "me"]
          /\ Later(Status(tuned, "granted"))
          /\ UNCHANGED highPri
       \/ /\ holder[tuned] = "other"
          /\ highPri' = Append(highPri, Status(tuned, "denied"))
          /\ UNCHANGED <<due, holder>>
    /\ UNCHANGED <<send, tuned>>

(* The handler that changed the floor tells the console: SendPriorityJSON, *)
(* or SendJSON after a time-out.                                           *)
HubNotice(m) ==
    /\ m \in due /\ due' = due \ {m}
    /\ IF m.status = "timeout"
       THEN send' = Append(send, m) /\ UNCHANGED highPri
       ELSE highPri' = Append(highPri, m) /\ UNCHANGED send
    /\ UNCHANGED <<user, flags, currentChannelID, engine, open, up, hub, seen>>

HubPTTUp ==
    /\ Frame("ptt_up")
    /\ holder' = [holder EXCEPT ![tuned] = IF @ = "me" THEN "none" ELSE @]
    /\ UNCHANGED <<down, tuned>>

(* HandleBinaryAudio accepts a packet of the floor's holder only. *)
Accepts(p) == p.ch = tuned /\ holder[tuned] = "me"

HubAudio == Frame("audio") /\ UNCHANGED <<down, hub>>

(* SwitchChannel: refused, already there, or moved and told if it is busy. *)
HubJoin ==
    LET ch == Head(up).ch IN
    /\ Frame("join_channel")
    /\ IF ~Head(up).ok \/ ch = tuned
       THEN UNCHANGED <<tuned, holder, send>>
       ELSE /\ holder' = [holder EXCEPT ![tuned] = IF @ = "me" THEN "none" ELSE @]
            /\ tuned' = ch
            /\ send' = IF holder[ch] = "other" THEN Append(send, Status(ch, "busy")) ELSE send
    /\ UNCHANGED <<due, highPri>>

(* The time-out: of this transmission, or a stale one of the one before,   *)
(* which may strike at any time, even before the grant has been sent.      *)
HubTimeOut ==
    /\ open /\ Room
    /\ holder[tuned] = "me"
    /\ holder' = [holder EXCEPT ![tuned] = "none"]
    /\ Later(Status(tuned, "timeout"))
    /\ UNCHANGED <<user, flags, currentChannelID, engine, open, up, highPri, send, tuned, seen>>

(* Another client of higher rank takes the floor. *)
OtherPreempts ==
    /\ open /\ Room
    /\ holder[tuned] = "me"
    /\ holder' = [holder EXCEPT ![tuned] = "other"]
    /\ Later(Status(tuned, "denied"))
    /\ UNCHANGED <<user, flags, currentChannelID, engine, open, up, highPri, send, tuned, seen>>

OtherTakesOrReleases(ch) ==
    /\ holder[ch] # "me"
    /\ holder' = [holder EXCEPT ![ch] = IF @ = "none" THEN "other" ELSE "none"]
    /\ UNCHANGED <<user, flags, currentChannelID, engine, open, up, down, tuned, seen>>

----------------------------------------------------------------------------
HubFrame == HubPTTDown \/ HubPTTUp \/ HubAudio \/ HubJoin

Next ==
    \/ Press \/ Release \/ Microphone
    \/ \E mode \in PTTMode : SetMode(mode)
    \/ \E ch \in ChannelID, ok \in BOOLEAN : changeChannel(ch, ok)
    \/ ReceivePriority \/ ReceiveSend
    \/ Disconnect \/ Reconnect
    \/ HubFrame \/ HubTimeOut \/ OtherPreempts
    \/ \E m \in due : HubNotice(m)
    \/ \E ch \in ChannelID : OtherTakesOrReleases(ch)

Spec == Init /\ [][Next]_vars

(* Frames are handled and messages delivered while the connection lasts.   *)
FairSpec ==
    /\ Spec
    /\ WF_vars(HubFrame) /\ WF_vars(\E m \in due : HubNotice(m))
    /\ WF_vars(ReceivePriority) /\ WF_vars(ReceiveSend)

----------------------------------------------------------------------------
AudioPacket == [type : {"audio"}, ch : ChannelID, pressed : BOOLEAN]
FrameType == AudioPacket \cup [type : {"ptt_down", "ptt_up"}]
             \cup [type : {"join_channel"}, ch : ChannelID, ok : BOOLEAN]

(* The types; the pre-buffer never holds more than its limit. *)
TypeOK ==
    /\ pttMode \in PTTMode /\ button \in BOOLEAN
    /\ isPTTDown \in BOOLEAN /\ isTransmitting \in BOOLEAN
    /\ currentChannelID \in ChannelID /\ tuned \in ChannelID
    /\ engine \in [tx : BOOLEAN, pre : BOOLEAN, ch : ChannelID, queue : Seq(AudioPacket)]
    /\ Len(engine.queue) <= PreBuffer
    /\ open \in BOOLEAN /\ steady \in BOOLEAN /\ patient \in BOOLEAN
    /\ up \in Seq(FrameType)
    /\ due \subseteq StatusType
    /\ highPri \in Seq(StatusType) /\ send \in Seq(StatusType)
    /\ holder \in [ChannelID -> {"none", "me", "other"}]

(* The light is true: with no message under way and none to come, who sees *)
(* "on the air" in hold mode holds the floor, whatever crossed the button: *)
(* a grant sent after the floor is lost, a denial overtaking its grant, a  *)
(* stale time-out.  In toggle mode a grant is taken even after the floor   *)
(* is lost (radio.js:596), and nothing is promised.                        *)
OnAirIsTrue ==
    /\ steady /\ pttMode = "hold"
    /\ Drained /\ isTransmitting
    => holder[tuned] = "me"

(* Who presses only a console at rest does not hold the floor unawares:    *)
(* with no message under way its holder sees "on the air".                 *)
FloorIsKnown ==
    patient /\ Drained /\ holder[tuned] = "me" => isTransmitting

(* Nothing is heard that such a user said while the button was up, however *)
(* early it was let go and whatever crossed the grant.                     *)
PatientHoldToSpeak ==
    [][patient /\ HubAudio /\ Accepts(Head(up)) => Head(up).pressed]_vars

(* Every request of a steady console is answered: it ends up on the air,   *)
(* or with the button ready for another press.                             *)
RequestIsAnswered ==
    (steady /\ isPTTDown /\ ~isTransmitting) ~> (~steady \/ ~isPTTDown \/ isTransmitting)

(* Hold to speak, release to send: nothing is heard that was said while    *)
(* the button was up.                                                      *)
HoldToSpeak == [][HubAudio /\ Accepts(Head(up)) => Head(up).pressed]_vars
=============================================================================
