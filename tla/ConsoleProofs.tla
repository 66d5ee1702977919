---------------------------- MODULE ConsoleProofs ----------------------------
(***************************************************************************)
(* Proofs about Console, for any channels, any pre-buffer and any number   *)
(* of messages under way: the light of a steady user is true, a patient    *)
(* user holds no floor unawares, and nothing that user said with the       *)
(* button up is heard.                                                     *)
(*                                                                         *)
(* The invariant says what the messages under way will do to the console.  *)
(* It speaks of the queues through a few predicates (a frame of some type  *)
(* is on its way, a request is on its way with no release behind it, all   *)
(* packets were spoken on purpose, ...); the lemmas Concat, TailFrames,    *)
(* Owed, Paid and Taken say what sending and delivering do to them, and    *)
(* the proof that a step keeps the invariant uses nothing else.  No order  *)
(* is assumed among the hub's answers.                                     *)
(***************************************************************************)
EXTENDS Console, SequenceTheorems, TLAPS

EngineType == [tx : BOOLEAN, pre : BOOLEAN, ch : ChannelID, queue : Seq(AudioPacket)]

(* What a step of the console does to its flags, its engine and the        *)
(* frames it sends stays within the types.                                 *)
SideTyped ==
    /\ isPTTDown' \in BOOLEAN /\ isTransmitting' \in BOOLEAN
    /\ engine' \in EngineType /\ Len(engine'.queue) <= PreBuffer
    /\ up' \in Seq(FrameType)

(* Frames are sent as they are. *)
LEMMA SendTyped ==
    ASSUME TypeOK, NEW frames \in Seq(FrameType), Send(frames)
    PROVE  up' \in Seq(FrameType)
  BY DEF TypeOK, Send

(* A packet of the microphone carries a channel of the system. *)
LEMMA PacketTyped == ASSUME TypeOK PROVE Packet \in AudioPacket
<1>1. (button \/ pttMode = "toggle") \in BOOLEAN
  BY DEF TypeOK
<1>2. engine.ch \in ChannelID
  BY DEF TypeOK
<1> QED BY <1>1, <1>2 DEF Packet, AudioPacket

(* What a release sends. *)
LEMMA ReleaseTyped ==
    ASSUME TypeOK PROVE ReleaseFrames \in Seq(FrameType) /\ LastPacket \in Seq(FrameType)
<1>1. Packet \in FrameType
  BY PacketTyped DEF FrameType
<1>2. Signal("ptt_up") \in FrameType
  BY DEF Signal, FrameType
<1>3. LastPacket \in Seq(FrameType)
  BY <1>1 DEF LastPacket
<1> QED BY <1>2, <1>3 DEF ReleaseFrames

(* A stopped engine has an empty pre-buffer. *)
LEMMA StoppedTyped == ASSUME TypeOK PROVE Stopped \in EngineType /\ Len(Stopped.queue) <= PreBuffer
<1>1. engine \in EngineType BY DEF TypeOK, EngineType
<1>2. Stopped \in EngineType BY <1>1, EmptySeq DEF Stopped, EngineType
<1>3. Stopped.queue = <<>> BY <1>1 DEF Stopped, EngineType
<1>4. Len(Stopped.queue) = 0 BY <1>3
<1> QED BY <1>2, <1>4, ConsoleAssumption

(* A request (requestFloor). *)
LEMMA RequestTyped == ASSUME TypeOK, requestFloor PROVE SideTyped
<1>1. engine \in EngineType BY DEF TypeOK, EngineType
<1>2. CASE isPTTDown \/ isTransmitting
  BY <1>1, <1>2 DEF requestFloor, SideTyped, TypeOK, flags
<1>3. CASE ~(isPTTDown \/ isTransmitting)
  <2>1. <<Signal("ptt_down")>> \in Seq(FrameType)
    BY DEF Signal, FrameType
  <2>2. up' \in Seq(FrameType)
    BY <1>3, <2>1, SendTyped DEF requestFloor
  <2>3. engine' = [engine EXCEPT !.ch = currentChannelID, !.pre = TRUE, !.queue = <<>>]
    BY <1>3 DEF requestFloor
  <2>4. engine' \in EngineType BY <2>3, <1>1, EmptySeq DEF EngineType, TypeOK
  <2>5. engine'.queue = <<>> BY <2>3, <1>1 DEF EngineType
  <2>6. Len(engine'.queue) <= PreBuffer BY <2>5, ConsoleAssumption
  <2> QED BY <1>3, <2>2, <2>4, <2>6 DEF requestFloor, SideTyped, TypeOK
<1> QED BY <1>2, <1>3

(* A release that sends other frames after its own. *)
LEMMA ReleaseThenTyped ==
    ASSUME TypeOK, NEW frames \in Seq(FrameType), releaseThen(frames) PROVE SideTyped
<1>1. ReleaseFrames \o frames \in Seq(FrameType)
  BY ReleaseTyped
<1>2. up' \in Seq(FrameType)
  BY <1>1, SendTyped DEF releaseThen
<1> QED BY <1>2, StoppedTyped DEF releaseThen, SideTyped

(* A release, or nothing to release (releaseFloor). *)
LEMMA ReleaseFloorTyped == ASSUME TypeOK, releaseFloor PROVE SideTyped
<1>1. CASE isPTTDown \/ isTransmitting
  BY <1>1, ReleaseThenTyped, EmptySeq DEF releaseFloor
<1>2. CASE ~(isPTTDown \/ isTransmitting)
  BY <1>2 DEF releaseFloor, SideTyped, TypeOK, EngineType, flags
<1> QED BY <1>1, <1>2

(* A grant sends the pre-buffer and empties it. *)
LEMMA GrantedTyped == ASSUME TypeOK, Granted PROVE SideTyped
<1>1. CASE pttMode = "hold" /\ ~isPTTDown
  BY <1>1, ReleaseFloorTyped DEF Granted
<1>2. CASE ~(pttMode = "hold" /\ ~isPTTDown)
  <2>1. engine \in EngineType BY DEF TypeOK, EngineType
  <2>2. engine' = [engine EXCEPT !.tx = TRUE, !.pre = FALSE, !.queue = <<>>]
    BY <1>2 DEF Granted
  <2>3. engine' \in EngineType BY <2>1, <2>2, EmptySeq DEF EngineType
  <2>4. engine'.queue = <<>> BY <2>1, <2>2 DEF EngineType
  <2>5. Len(engine'.queue) <= PreBuffer BY <2>4, ConsoleAssumption
  <2>6. engine.queue \in Seq(FrameType)
    BY <2>1 DEF EngineType, FrameType
  <2>7. up' \in Seq(FrameType)
    BY <1>2, <2>6, SendTyped DEF Granted
  <2> QED BY <1>2, <2>3, <2>5, <2>7 DEF Granted, SideTyped, TypeOK
<1> QED BY <1>1, <1>2

(* Every answer of the hub (handleFloorStatus). *)
LEMMA StatusTyped ==
    ASSUME TypeOK, NEW m \in StatusType, handleFloorStatus(m) PROVE SideTyped
<1>1. ASSUME UNCHANGED <<engine, up>>, isPTTDown' \in BOOLEAN, isTransmitting' \in BOOLEAN
      PROVE  SideTyped
  BY <1>1 DEF SideTyped, TypeOK, EngineType
<1>2. CASE m.ch # currentChannelID
  BY <1>1, <1>2 DEF handleFloorStatus, flags, TypeOK
<1>3. CASE m.ch = currentChannelID /\ m.status = "granted"
  BY <1>3, GrantedTyped DEF handleFloorStatus
<1>4. CASE m.ch = currentChannelID /\ m.status \in {"denied", "busy"}
  BY <1>1, <1>4 DEF handleFloorStatus, Denied
<1>5. CASE m.ch = currentChannelID /\ m.status = "timeout"
  <2>1. TimedOut BY <1>5 DEF handleFloorStatus
  <2>2. up' \in Seq(FrameType) BY <2>1, ReleaseTyped, SendTyped DEF TimedOut
  <2> QED BY <2>1, <2>2, StoppedTyped DEF TimedOut, SideTyped
<1> QED BY <1>2, <1>3, <1>4, <1>5 DEF StatusType

(* A page that has just connected. *)
LEMMA ConsoleStart == Init => TypeOK
<1> SUFFICES ASSUME Init PROVE TypeOK
  OBVIOUS
<1>1. engine \in [tx : BOOLEAN, pre : BOOLEAN, ch : ChannelID, queue : Seq(AudioPacket)]
  BY ConsoleAssumption, EmptySeq DEF Init
<1>2. engine.queue = <<>> BY DEF Init
<1>3. Len(engine.queue) <= PreBuffer BY <1>2, ConsoleAssumption
<1>4. holder \in [ChannelID -> {"none", "me", "other"}] BY DEF Init
<1> QED BY <1>1, <1>3, <1>4, ConsoleAssumption, EmptySeq DEF Init, TypeOK

(* Every step keeps the types. *)
LEMMA TypeStep == TypeOK /\ [Next]_vars => TypeOK'
<1> SUFFICES ASSUME TypeOK, [Next]_vars PROVE TypeOK'
  OBVIOUS
<1> USE DEF user, flags, down, hub, seen
<1>t. /\ pttMode \in PTTMode /\ button \in BOOLEAN
      /\ isPTTDown \in BOOLEAN /\ isTransmitting \in BOOLEAN
      /\ currentChannelID \in ChannelID /\ tuned \in ChannelID
      /\ open \in BOOLEAN /\ steady \in BOOLEAN /\ patient \in BOOLEAN
      /\ due \subseteq StatusType
      /\ highPri \in Seq(StatusType) /\ send \in Seq(StatusType)
      /\ holder \in [ChannelID -> {"none", "me", "other"}]
  BY DEF TypeOK
<1>s. SideTyped =>
      /\ isPTTDown' \in BOOLEAN /\ isTransmitting' \in BOOLEAN
      /\ engine' \in [tx : BOOLEAN, pre : BOOLEAN, ch : ChannelID, queue : Seq(AudioPacket)]
      /\ Len(engine'.queue) <= PreBuffer
      /\ up' \in Seq(FrameType)
  BY DEF SideTyped, EngineType
<1>i. UNCHANGED <<flags, engine, up>> => SideTyped
  BY DEF SideTyped, TypeOK, EngineType
<1>1. ASSUME Press PROVE TypeOK'
  <2>1. SideTyped
    BY <1>1, ReleaseFloorTyped, RequestTyped DEF Press
  <2>2. button' \in BOOLEAN /\ steady' \in BOOLEAN /\ patient' \in BOOLEAN
    BY <1>1, <1>t DEF Press, AtRest
  <2>3. UNCHANGED <<pttMode, currentChannelID, open, due, highPri, send, tuned, holder>>
    BY <1>1 DEF Press
  <2> QED BY <2>1, <2>2, <2>3, <1>t, <1>s DEF TypeOK
<1>2. ASSUME Release PROVE TypeOK'
  <2>1. SideTyped
    BY <1>2, <1>i, ReleaseFloorTyped DEF Release
  <2>2. /\ button' = FALSE
        /\ UNCHANGED <<pttMode, currentChannelID, open, due, highPri, send, tuned, holder,
                       steady, patient>>
    BY <1>2 DEF Release
  <2> QED BY <2>1, <2>2, <1>t, <1>s DEF TypeOK
<1>3. ASSUME NEW mode \in PTTMode, SetMode(mode) PROVE TypeOK'
  <2>1. SideTyped BY <1>3, <1>i DEF SetMode
  <2> QED BY <2>1, <1>3, <1>t, <1>s DEF SetMode, TypeOK
<1>4. ASSUME NEW ch \in ChannelID, NEW ok \in BOOLEAN, changeChannel(ch, ok) PROVE TypeOK'
  <2> DEFINE join == [type |-> "join_channel", ch |-> ch, ok |-> ok]
  <2>1. <<join>> \in Seq(FrameType)
    BY DEF FrameType
  <2> HIDE DEF join
  <2>2. IF isTransmitting THEN releaseThen(<<join>>)
        ELSE UNCHANGED <<flags, engine>> /\ Send(<<join>>)
    BY <1>4 DEF changeChannel, join
  <2>3. SideTyped
    <3>1. CASE isTransmitting BY <3>1, <2>1, <2>2, ReleaseThenTyped
    <3>2. CASE ~isTransmitting
      BY <3>2, <2>1, <2>2, SendTyped DEF SideTyped, TypeOK, EngineType
    <3> QED BY <3>1, <3>2
  <2>4. /\ currentChannelID' = ch /\ steady' = FALSE /\ patient' = FALSE
        /\ UNCHANGED <<pttMode, button, open, due, highPri, send, tuned, holder>>
    BY <1>4 DEF changeChannel
  <2> QED BY <2>3, <2>4, <1>t, <1>s DEF TypeOK
<1>5. ASSUME Microphone PROVE TypeOK'
  <2>1. UNCHANGED <<pttMode, button, isPTTDown, isTransmitting, currentChannelID, open,
                    due, highPri, send, tuned, holder, steady, patient>>
    BY <1>5 DEF Microphone
  <2>2. SideTyped
    <3>1. CASE Send(<<Packet>>) /\ UNCHANGED engine
      <4>1. <<Packet>> \in Seq(FrameType) BY PacketTyped DEF FrameType
      <4> QED BY <3>1, <4>1, <2>1, <1>t, SendTyped DEF SideTyped, TypeOK, EngineType
    <3>2. CASE /\ Len(engine.queue) < PreBuffer
               /\ engine' = [engine EXCEPT !.queue = Append(@, Packet)]
               /\ UNCHANGED up
      <4>1. engine \in EngineType BY DEF TypeOK, EngineType
      <4>2. engine.queue \in Seq(AudioPacket) BY <4>1 DEF EngineType
      <4>3. Append(engine.queue, Packet) \in Seq(AudioPacket)
        BY <4>2, PacketTyped
      <4>4. engine' \in EngineType BY <3>2, <4>1, <4>3 DEF EngineType
      <4>5. engine'.queue = Append(engine.queue, Packet) BY <3>2, <4>1 DEF EngineType
      <4>6. Len(engine'.queue) <= PreBuffer
        BY <4>5, <4>2, <3>2, PacketTyped, ConsoleAssumption
      <4> QED BY <3>2, <4>4, <4>6, <2>1, <1>t DEF SideTyped, TypeOK
    <3> QED BY <1>5, <3>1, <3>2 DEF Microphone
  <2> QED BY <2>1, <2>2, <1>t, <1>s DEF TypeOK
<1>6. ASSUME ReceivePriority PROVE TypeOK'
  <2>1. Head(highPri) \in StatusType /\ highPri' \in Seq(StatusType)
    BY <1>6, <1>t, HeadTailProperties DEF ReceivePriority
  <2>2. SideTyped BY <2>1, <1>6, StatusTyped DEF ReceivePriority
  <2>3. UNCHANGED <<pttMode, button, currentChannelID, open, due, send, tuned, holder,
                    steady, patient>>
    BY <1>6 DEF ReceivePriority
  <2> QED BY <2>1, <2>2, <2>3, <1>t, <1>s DEF TypeOK
<1>7. ASSUME ReceiveSend PROVE TypeOK'
  <2>1. Head(send) \in StatusType /\ send' \in Seq(StatusType)
    BY <1>7, <1>t, HeadTailProperties DEF ReceiveSend
  <2>2. SideTyped BY <2>1, <1>7, StatusTyped DEF ReceiveSend
  <2>3. UNCHANGED <<pttMode, button, currentChannelID, open, due, highPri, tuned, holder,
                    steady, patient>>
    BY <1>7 DEF ReceiveSend
  <2> QED BY <2>1, <2>2, <2>3, <1>t, <1>s DEF TypeOK
<1>8. ASSUME Disconnect PROVE TypeOK'
  <2>1. holder' \in [ChannelID -> {"none", "me", "other"}]
    BY <1>8, <1>t DEF Disconnect
  <2>2. up' = <<>> /\ due' = {} /\ highPri' = <<>> /\ send' = <<>> /\ open' = FALSE
        /\ steady' = FALSE /\ patient' = FALSE
        /\ UNCHANGED <<pttMode, button, isPTTDown, isTransmitting, currentChannelID, engine, tuned>>
    BY <1>8 DEF Disconnect
  <2> QED BY <2>1, <2>2, EmptySeq DEF TypeOK
<1>9. ASSUME Reconnect PROVE TypeOK'
  BY <1>9, ConsoleAssumption DEF Reconnect, TypeOK
<1>f. ASSUME NEW type, Frame(type)
      PROVE  /\ up' \in Seq(FrameType) /\ Head(up) \in FrameType
             /\ UNCHANGED <<pttMode, button, isPTTDown, isTransmitting, currentChannelID,
                            engine, open, steady, patient>>
  <2>1. up \in Seq(FrameType) /\ up # <<>> BY <1>f DEF Frame, TypeOK
  <2> QED BY <1>f, <2>1, HeadTailProperties DEF Frame
<1>g. ASSUME NEW type, Frame(type), tuned' \in ChannelID,
             holder' \in [ChannelID -> {"none", "me", "other"}],
             due' \subseteq StatusType,
             highPri' \in Seq(StatusType), send' \in Seq(StatusType)
      PROVE  TypeOK'
  BY <1>f, <1>g DEF TypeOK
<1>m. ASSUME NEW ch \in ChannelID, NEW status \in {"granted", "denied", "busy", "timeout"}
      PROVE  Status(ch, status) \in StatusType
  BY DEF Status, StatusType
<1>l. ASSUME NEW m \in StatusType, Later(m) PROVE due' \subseteq StatusType
  BY <1>l, <1>t DEF Later
<1>10. ASSUME HubPTTDown PROVE TypeOK'
  <2>1. Frame("ptt_down") /\ UNCHANGED <<send, tuned>> BY <1>10 DEF HubPTTDown
  <2>2. Status(tuned, "granted") \in StatusType /\ Status(tuned, "denied") \in StatusType
    BY <1>t, <1>m
  <2>3. CASE /\ holder' = [holder EXCEPT ![tuned] = "me"]
             /\ Later(Status(tuned, "granted"))
             /\ UNCHANGED highPri
    <3>1. holder' \in [ChannelID -> {"none", "me", "other"}] BY <2>3, <1>t
    <3> QED BY <3>1, <2>1, <2>2, <2>3, <1>t, <1>l, <1>g
  <2>4. CASE /\ highPri' = Append(highPri, Status(tuned, "denied"))
             /\ UNCHANGED <<due, holder>>
    <3>1. highPri' \in Seq(StatusType) BY <2>2, <2>4, <1>t
    <3> QED BY <3>1, <2>1, <2>4, <1>t, <1>g
  <2> QED BY <1>10, <2>3, <2>4 DEF HubPTTDown
<1>11. ASSUME HubPTTUp PROVE TypeOK'
  <2>1. holder' \in [ChannelID -> {"none", "me", "other"}] BY <1>11, <1>t DEF HubPTTUp
  <2> QED BY <2>1, <1>11, <1>t, <1>g DEF HubPTTUp
<1>12. ASSUME HubAudio PROVE TypeOK'
  BY <1>12, <1>t, <1>g DEF HubAudio
<1>13. ASSUME HubJoin PROVE TypeOK'
  <2>1. Frame("join_channel") /\ UNCHANGED <<due, highPri>> BY <1>13 DEF HubJoin
  <2>2. Head(up).ch \in ChannelID
    <3>1. Head(up) \in FrameType /\ Head(up).type = "join_channel"
      BY <2>1, <1>f DEF Frame
    <3> QED BY <3>1 DEF FrameType, AudioPacket
  <2>3. CASE UNCHANGED <<tuned, holder, send>>
    BY <2>3, <2>1, <1>t, <1>g
  <2>4. CASE /\ holder' = [holder EXCEPT ![tuned] = IF @ = "me" THEN "none" ELSE @]
             /\ tuned' = Head(up).ch
             /\ send' = IF holder[Head(up).ch] = "other"
                        THEN Append(send, Status(Head(up).ch, "busy")) ELSE send
    <3>1. holder' \in [ChannelID -> {"none", "me", "other"}] BY <2>4, <1>t
    <3>2. send' \in Seq(StatusType) BY <2>4, <2>2, <1>t, <1>m
    <3> QED BY <3>1, <3>2, <2>1, <2>2, <2>4, <1>t, <1>g
  <2> QED BY <1>13, <2>3, <2>4 DEF HubJoin
<1>14. ASSUME HubTimeOut PROVE TypeOK'
  <2>1. due' \subseteq StatusType BY <1>14, <1>t, <1>m, <1>l DEF HubTimeOut
  <2>2. holder' \in [ChannelID -> {"none", "me", "other"}] BY <1>14, <1>t DEF HubTimeOut
  <2>3. UNCHANGED <<pttMode, button, isPTTDown, isTransmitting, currentChannelID, engine,
                    open, up, highPri, send, tuned, steady, patient>>
    BY <1>14 DEF HubTimeOut
  <2> QED BY <2>1, <2>2, <2>3 DEF TypeOK
<1>15. ASSUME OtherPreempts PROVE TypeOK'
  <2>1. due' \subseteq StatusType BY <1>15, <1>t, <1>m, <1>l DEF OtherPreempts
  <2>2. holder' \in [ChannelID -> {"none", "me", "other"}] BY <1>15, <1>t DEF OtherPreempts
  <2>3. UNCHANGED <<pttMode, button, isPTTDown, isTransmitting, currentChannelID, engine,
                    open, up, highPri, send, tuned, steady, patient>>
    BY <1>15 DEF OtherPreempts
  <2> QED BY <2>1, <2>2, <2>3 DEF TypeOK
<1>18. ASSUME NEW m \in due, HubNotice(m) PROVE TypeOK'
  <2>1. m \in StatusType /\ due' \subseteq StatusType
    BY <1>18, <1>t DEF HubNotice
  <2>2. highPri' \in Seq(StatusType) /\ send' \in Seq(StatusType)
    <3>1. CASE send' = Append(send, m) /\ highPri' = highPri BY <3>1, <2>1, <1>t
    <3>2. CASE highPri' = Append(highPri, m) /\ send' = send BY <3>2, <2>1, <1>t
    <3> QED BY <1>18, <3>1, <3>2 DEF HubNotice
  <2>3. UNCHANGED <<pttMode, button, isPTTDown, isTransmitting, currentChannelID, engine,
                    open, up, tuned, holder, steady, patient>>
    BY <1>18 DEF HubNotice
  <2> QED BY <2>1, <2>2, <2>3 DEF TypeOK
<1>16. ASSUME NEW ch \in ChannelID, OtherTakesOrReleases(ch) PROVE TypeOK'
  <2>1. holder' \in [ChannelID -> {"none", "me", "other"}]
    BY <1>16, <1>t DEF OtherTakesOrReleases
  <2>2. UNCHANGED <<pttMode, button, isPTTDown, isTransmitting, currentChannelID, engine,
                    open, up, due, highPri, send, tuned, steady, patient>>
    BY <1>16 DEF OtherTakesOrReleases
  <2> QED BY <2>1, <2>2 DEF TypeOK
<1>17. ASSUME UNCHANGED vars PROVE TypeOK'
  BY <1>17 DEF vars, TypeOK
<1> QED
  BY <1>1, <1>2, <1>3, <1>4, <1>5, <1>6, <1>7, <1>8, <1>9, <1>10, <1>11, <1>12, <1>13,
     <1>14, <1>15, <1>16, <1>17, <1>18
  DEF Next, HubFrame

----------------------------------------------------------------------------
(* A frame of the type is on its way. *)
Frames(s, type) == \E i \in 1..Len(s) : s[i].type = type

(* Some request is on its way and no release after it. *)
Asking(s) ==
    \E i \in 1..Len(s) : /\ s[i].type = "ptt_down"
                         /\ \A j \in 1..Len(s) : j > i => s[j].type # "ptt_up"

(* Every packet was captured while the user spoke on purpose. *)
Pressed(s) == \A i \in 1..Len(s) : s[i].type = "audio" => s[i].pressed

(* A request can only be the next frame. *)
RequestFirst(s) == \A i \in 1..Len(s) : s[i].type = "ptt_down" => i = 1

Told(s, status) == \E i \in 1..Len(s) : s[i].status = status

(* All answers are of these kinds, about this channel. *)
Only(s, ch, statuses) == \A i \in 1..Len(s) : s[i].ch = ch /\ s[i].status \in statuses

(* Nothing is under way in an empty queue. *)
LEMMA EmptyQueue ==
    /\ \A type : ~Frames(<<>>, type)
    /\ ~Asking(<<>>) /\ Pressed(<<>>) /\ RequestFirst(<<>>)
    /\ \A status : ~Told(<<>>, status)
    /\ \A ch, statuses : Only(<<>>, ch, statuses)
  BY DEF Frames, Asking, Pressed, RequestFirst, Told, Only

(* One frame on its way. *)
LEMMA OneFrame ==
    ASSUME NEW f
    PROVE  /\ \A type : Frames(<<f>>, type) <=> f.type = type
           /\ Asking(<<f>>) <=> f.type = "ptt_down"
           /\ Pressed(<<f>>) <=> (f.type = "audio" => f.pressed)
           /\ RequestFirst(<<f>>)
<1>1. Len(<<f>>) = 1 /\ <<f>>[1] = f
  OBVIOUS
<1> QED BY <1>1 DEF Frames, Asking, Pressed, RequestFirst

(* What sending more frames does to the predicates. *)
LEMMA Concat ==
    ASSUME NEW s \in Seq(FrameType), NEW t \in Seq(FrameType)
    PROVE  /\ \A type : Frames(s \o t, type) <=> Frames(s, type) \/ Frames(t, type)
           /\ Asking(s \o t) <=> Asking(t) \/ (Asking(s) /\ ~Frames(t, "ptt_up"))
           /\ Pressed(s \o t) <=> Pressed(s) /\ Pressed(t)
           /\ RequestFirst(s) /\ ~Frames(t, "ptt_down") => RequestFirst(s \o t)
<1> DEFINE u == s \o t
<1>1. /\ u \in Seq(FrameType) /\ Len(u) = Len(s) + Len(t)
      /\ \A i \in 1..Len(u) : u[i] = IF i <= Len(s) THEN s[i] ELSE t[i - Len(s)]
  BY ConcatProperties
<1>2. Len(s) \in Nat /\ Len(t) \in Nat /\ Len(u) \in Nat
  BY <1>1, LenProperties
<1>3. \A i \in 1..Len(s) : i \in 1..Len(u) /\ u[i] = s[i]
  BY <1>1, <1>2
<1>4. \A i \in 1..Len(t) : Len(s) + i \in 1..Len(u) /\ u[Len(s) + i] = t[i]
  BY <1>1, <1>2
<1>5. \A i \in 1..Len(u) : i \in 1..Len(s) \/ i - Len(s) \in 1..Len(t)
  BY <1>1, <1>2
<1>6. \A i \in 1..Len(u) : i \notin 1..Len(s) => u[i] = t[i - Len(s)]
  BY <1>1, <1>2
<1> HIDE DEF u
<1>7. ASSUME NEW type PROVE Frames(u, type) <=> Frames(s, type) \/ Frames(t, type)
  BY <1>3, <1>4, <1>5, <1>6 DEF Frames
<1>8. Pressed(u) <=> Pressed(s) /\ Pressed(t)
  <2>1. Pressed(u) => Pressed(s) BY <1>3 DEF Pressed
  <2>2. Pressed(u) => Pressed(t) BY <1>4 DEF Pressed
  <2>3. Pressed(s) /\ Pressed(t) => Pressed(u)
    BY <1>3, <1>5, <1>6 DEF Pressed
  <2> QED BY <2>1, <2>2, <2>3
<1>9. RequestFirst(s) /\ ~Frames(t, "ptt_down") => RequestFirst(u)
  BY <1>3, <1>5, <1>6 DEF RequestFirst, Frames
<1>10. Asking(t) => Asking(u)
  <2>1. SUFFICES ASSUME NEW i \in 1..Len(t), t[i].type = "ptt_down",
                        \A j \in 1..Len(t) : j > i => t[j].type # "ptt_up"
                 PROVE  Asking(u)
    BY DEF Asking
  <2>2. Len(s) + i \in 1..Len(u) /\ u[Len(s) + i].type = "ptt_down"
    BY <2>1, <1>4
  <2>3. ASSUME NEW j \in 1..Len(u), j > Len(s) + i PROVE u[j].type # "ptt_up"
    <3>1. j \notin 1..Len(s) /\ j - Len(s) > i BY <2>3, <1>2
    <3> QED BY <3>1, <2>1, <1>5, <1>6
  <2> QED BY <2>2, <2>3 DEF Asking
<1>11. Asking(s) /\ ~Frames(t, "ptt_up") => Asking(u)
  <2>1. SUFFICES ASSUME ~Frames(t, "ptt_up"), NEW i \in 1..Len(s), s[i].type = "ptt_down",
                        \A j \in 1..Len(s) : j > i => s[j].type # "ptt_up"
                 PROVE  Asking(u)
    BY DEF Asking
  <2>2. i \in 1..Len(u) /\ u[i].type = "ptt_down"
    BY <2>1, <1>3
  <2>3. ASSUME NEW j \in 1..Len(u), j > i PROVE u[j].type # "ptt_up"
    BY <2>1, <2>3, <1>3, <1>5, <1>6 DEF Frames
  <2> QED BY <2>2, <2>3 DEF Asking
<1>12. Asking(u) => Asking(t) \/ (Asking(s) /\ ~Frames(t, "ptt_up"))
  <2>1. SUFFICES ASSUME NEW i \in 1..Len(u), u[i].type = "ptt_down",
                        \A j \in 1..Len(u) : j > i => u[j].type # "ptt_up"
                 PROVE  Asking(t) \/ (Asking(s) /\ ~Frames(t, "ptt_up"))
    BY DEF Asking
  <2>2. CASE i \in 1..Len(s)
    <3>1. s[i].type = "ptt_down" /\ \A j \in 1..Len(s) : j > i => s[j].type # "ptt_up"
      BY <2>1, <2>2, <1>3
    <3>2. ASSUME NEW j \in 1..Len(t) PROVE t[j].type # "ptt_up"
      <4>1. Len(s) + j > i /\ Len(s) + j \in 1..Len(u) /\ u[Len(s) + j] = t[j]
        BY <2>2, <1>2, <1>4
      <4> QED BY <4>1, <2>1
    <3> QED BY <3>1, <3>2, <2>2 DEF Asking, Frames
  <2>3. CASE i \notin 1..Len(s)
    <3>1. i - Len(s) \in 1..Len(t) /\ t[i - Len(s)].type = "ptt_down"
      BY <2>1, <2>3, <1>5, <1>6
    <3>2. ASSUME NEW j \in 1..Len(t), j > i - Len(s) PROVE t[j].type # "ptt_up"
      <4>1. Len(s) + j > i /\ Len(s) + j \in 1..Len(u) /\ u[Len(s) + j] = t[j]
        BY <3>2, <1>2, <1>4
      <4> QED BY <4>1, <2>1
    <3> QED BY <3>1, <3>2 DEF Asking
  <2> QED BY <2>2, <2>3
<1> QED BY <1>7, <1>8, <1>9, <1>10, <1>11, <1>12 DEF u

(* What the hub's handling of the first frame does to them. *)
LEMMA TailFrames ==
    ASSUME NEW s \in Seq(FrameType), s # <<>>
    PROVE  /\ \A type : Frames(s, type) <=> Head(s).type = type \/ Frames(Tail(s), type)
           /\ Asking(s) <=> \/ Asking(Tail(s))
                            \/ Head(s).type = "ptt_down" /\ ~Frames(Tail(s), "ptt_up")
           /\ Pressed(s) => Pressed(Tail(s)) /\ (Head(s).type = "audio" => Head(s).pressed)
           /\ RequestFirst(s) => RequestFirst(Tail(s)) /\ ~Frames(Tail(s), "ptt_down")
<1> DEFINE h == <<Head(s)>>
           t == Tail(s)
<1>1. h \in Seq(FrameType) /\ t \in Seq(FrameType) /\ s = h \o t
  BY HeadTailProperties
<1>2. /\ Len(s) \in Nat \ {0} /\ Len(t) = Len(s) - 1 /\ s[1] = Head(s)
      /\ \A i \in 1..Len(t) : i + 1 \in 1..Len(s) /\ t[i] = s[i + 1]
  BY HeadTailProperties, LenProperties
<1> HIDE DEF h, t
<1>3. RequestFirst(s) => RequestFirst(t) /\ ~Frames(t, "ptt_down")
  <2>1. RequestFirst(s) => \A i \in 1..Len(t) : t[i].type # "ptt_down"
    BY <1>2 DEF RequestFirst
  <2> QED BY <2>1 DEF RequestFirst, Frames
<1>4. /\ \A type : Frames(s, type) <=> Frames(h, type) \/ Frames(t, type)
      /\ Asking(s) <=> Asking(t) \/ (Asking(h) /\ ~Frames(t, "ptt_up"))
      /\ Pressed(s) <=> Pressed(h) /\ Pressed(t)
  BY <1>1, Concat
<1>5. /\ \A type : Frames(h, type) <=> Head(s).type = type
      /\ Asking(h) <=> Head(s).type = "ptt_down"
      /\ Pressed(h) <=> (Head(s).type = "audio" => Head(s).pressed)
  BY OneFrame DEF h
<1> QED BY <1>3, <1>4, <1>5 DEF t

(* What one more answer of the hub does to the predicates on answers. *)
LEMMA AppendStatus ==
    ASSUME NEW s \in Seq(StatusType), NEW m \in StatusType
    PROVE  /\ \A status : Told(Append(s, m), status) <=> Told(s, status) \/ m.status = status
           /\ \A ch, statuses : Only(Append(s, m), ch, statuses)
                                <=> Only(s, ch, statuses) /\ m.ch = ch /\ m.status \in statuses
<1> DEFINE u == Append(s, m)
<1>1. /\ Len(s) \in Nat /\ Len(u) = Len(s) + 1 /\ u[Len(s) + 1] = m
      /\ \A i \in 1..Len(s) : u[i] = s[i]
  BY AppendProperties, LenProperties
<1>2. \A i \in 1..Len(u) : i \in 1..Len(s) \/ i = Len(s) + 1
  BY <1>1
<1>3. Len(s) + 1 \in 1..Len(u) /\ \A i \in 1..Len(s) : i \in 1..Len(u)
  BY <1>1
<1> HIDE DEF u
<1>5. ASSUME NEW status PROVE Told(u, status) <=> Told(s, status) \/ m.status = status
  BY <1>1, <1>2, <1>3 DEF Told
<1>6. ASSUME NEW ch, NEW statuses
      PROVE  Only(u, ch, statuses) <=> Only(s, ch, statuses) /\ m.ch = ch /\ m.status \in statuses
  BY <1>1, <1>2, <1>3 DEF Only
<1> QED BY <1>5, <1>6 DEF u

(* What the delivery of the first answer does to them. *)
LEMMA TailStatus ==
    ASSUME NEW s \in Seq(StatusType), s # <<>>
    PROVE  /\ \A status : Told(s, status) <=> Head(s).status = status \/ Told(Tail(s), status)
           /\ \A ch, statuses : Only(s, ch, statuses)
                                => Only(Tail(s), ch, statuses) /\ Head(s).ch = ch
                                   /\ Head(s).status \in statuses
<1> DEFINE t == Tail(s)
<1>1. /\ Len(s) \in Nat \ {0} /\ Len(t) = Len(s) - 1 /\ s[1] = Head(s)
      /\ \A i \in 1..Len(t) : i + 1 \in 1..Len(s) /\ t[i] = s[i + 1]
  BY HeadTailProperties, LenProperties
<1>2. 1 \in 1..Len(s) /\ \A i \in 1..Len(s) : i = 1 \/ (i - 1 \in 1..Len(t) /\ t[i - 1] = s[i])
  <2> HIDE DEF t
  <2>1. ASSUME NEW i \in 1..Len(s), i # 1 PROVE i - 1 \in 1..Len(t) /\ t[i - 1] = s[i]
    <3>1. i - 1 \in 1..Len(t) /\ (i - 1) + 1 = i BY <1>1, <2>1
    <3> QED BY <3>1, <1>1
  <2> QED BY <1>1, <2>1
<1> HIDE DEF t
<1>3. ASSUME NEW status PROVE Told(s, status) <=> Head(s).status = status \/ Told(t, status)
  BY <1>1, <1>2 DEF Told
<1>4. ASSUME NEW ch, NEW statuses, Only(s, ch, statuses)
      PROVE  Only(t, ch, statuses) /\ Head(s).ch = ch /\ Head(s).status \in statuses
  BY <1>1, <1>2, <1>4 DEF Only
<1> QED BY <1>3, <1>4 DEF t

----------------------------------------------------------------------------
Mine == holder[tuned] = "me"

(* The user to whose requests an answer is promised. *)
Good == patient \/ (steady /\ pttMode = "hold")

(* An answer of this kind is to be sent, or on its way. *)
Coming(status) ==
    \/ \E m \in due : m.status = status
    \/ Told(highPri, status) \/ Told(send, status)

(* All answers, sent or still to be sent, are about the channel shown. *)
Answers == {"granted", "denied", "timeout"}
AnswersInv ==
    /\ \A m \in due : m.ch = tuned /\ m.status \in Answers
    /\ Only(highPri, tuned, Answers) /\ Only(send, tuned, Answers)

(* While nothing moves, changes mode or breaks, all that is under way is   *)
(* about the channel shown.                                                *)
SteadyInv ==
    /\ patient => steady
    /\ steady => /\ open /\ tuned = currentChannelID
                 /\ ~Frames(up, "join_channel")
                 /\ AnswersInv

(* In hold mode on the air only with the request made, which is made only  *)
(* with the button held.                                                   *)
ButtonInv ==
    steady /\ pttMode = "hold" =>
        /\ isTransmitting => isPTTDown
        /\ isPTTDown => button

(* A request not yet given up is on its way, has been granted, or will be  *)
(* told that the floor is lost.                                            *)
RequestInv ==
    Good /\ isPTTDown =>
        \/ Asking(up)
        \/ /\ ~Frames(up, "ptt_up")
           /\ Mine \/ Coming("denied") \/ Coming("timeout")

(* One request at a time: while it is on its way nothing else is. *)
OneRequest ==
    /\ RequestFirst(up)
    /\ Frames(up, "ptt_down") =>
          /\ ~Mine /\ \A status : ~Coming(status)
          /\ ~Frames(up, "audio") /\ ~isTransmitting /\ ~engine.tx
          /\ isPTTDown \/ Frames(up, "ptt_up")

(* While the floor is held no news of its loss is on the way; it is shown, *)
(* will be shown, or is on its way back.                                   *)
FloorInv ==
    Mine => /\ ~Coming("denied") /\ ~Coming("timeout")
            /\ \/ Frames(up, "ptt_up")
               \/ isPTTDown /\ (isTransmitting \/ Coming("granted"))

(* What is on its way to be heard was said with the button down. *)
SpeechInv ==
    Frames(up, "ptt_down") \/ Mine =>
        /\ Pressed(up) /\ Pressed(engine.queue)
        /\ engine.tx \/ engine.pre => isPTTDown \/ pttMode = "toggle"

PatientInv == patient => OneRequest /\ FloorInv /\ SpeechInv

ConsoleInv == TypeOK /\ SteadyInv /\ ButtonInv /\ RequestInv /\ PatientInv

(* A handler owes the console one more notice. *)
LEMMA Owed ==
    ASSUME TypeOK, NEW m \in StatusType, Later(m), UNCHANGED <<highPri, send, tuned>>
    PROVE  /\ \A status : Coming(status)' <=> Coming(status) \/ m.status = status
           /\ AnswersInv /\ m.ch = tuned /\ m.status \in Answers => AnswersInv'
<1>1. due' = due \cup {m} BY DEF Later
<1>2. ASSUME NEW status PROVE Coming(status)' <=> Coming(status) \/ m.status = status
  BY <1>1 DEF Coming
<1>3. AnswersInv /\ m.ch = tuned /\ m.status \in Answers => AnswersInv'
  BY <1>1 DEF AnswersInv
<1> QED BY <1>2, <1>3

(* It sends what it owes. *)
LEMMA Paid ==
    ASSUME TypeOK, NEW m, HubNotice(m)
    PROVE  /\ \A status : Coming(status)' <=> Coming(status)
           /\ AnswersInv => AnswersInv'
<1> USE DEF hub
<1>1. /\ m \in StatusType /\ highPri \in Seq(StatusType) /\ send \in Seq(StatusType)
      /\ m \in due /\ due' = due \ {m} /\ tuned' = tuned
  BY DEF TypeOK, HubNotice
<1>2. \/ highPri' = Append(highPri, m) /\ send' = send
      \/ send' = Append(send, m) /\ highPri' = highPri
  BY DEF HubNotice
<1>3. /\ \A status : Told(Append(highPri, m), status) <=> Told(highPri, status) \/ m.status = status
      /\ \A status : Told(Append(send, m), status) <=> Told(send, status) \/ m.status = status
  BY <1>1, AppendStatus
<1>6. /\ m.ch = tuned /\ m.status \in Answers /\ Only(highPri, tuned, Answers)
         => Only(Append(highPri, m), tuned, Answers)
      /\ m.ch = tuned /\ m.status \in Answers /\ Only(send, tuned, Answers)
         => Only(Append(send, m), tuned, Answers)
  BY <1>1, AppendStatus
<1>4. ASSUME NEW status PROVE Coming(status)' <=> Coming(status)
  <2>1. CASE highPri' = Append(highPri, m) /\ send' = send
    BY <1>1, <1>3, <2>1 DEF Coming
  <2>2. CASE send' = Append(send, m) /\ highPri' = highPri
    BY <1>1, <1>3, <2>2 DEF Coming
  <2> QED BY <1>2, <2>1, <2>2
<1>5. ASSUME AnswersInv PROVE AnswersInv'
  <2>1. m.ch = tuned /\ m.status \in Answers BY <1>1, <1>5 DEF AnswersInv
  <2>2. Only(highPri', tuned, Answers) /\ Only(send', tuned, Answers)
    BY <1>2, <1>5, <1>6, <2>1 DEF AnswersInv
  <2> QED BY <1>1, <1>5, <2>2 DEF AnswersInv
<1> QED BY <1>4, <1>5

(* The console takes the next answer of a queue. *)
LEMMA Taken ==
    ASSUME TypeOK, NEW m, UNCHANGED <<due, tuned>>,
           \/ highPri # <<>> /\ m = Head(highPri) /\ highPri' = Tail(highPri) /\ UNCHANGED send
           \/ send # <<>> /\ m = Head(send) /\ send' = Tail(send) /\ UNCHANGED highPri
    PROVE  /\ \A status : Coming(status) <=> Coming(status)' \/ m.status = status
           /\ AnswersInv => AnswersInv' /\ m.ch = tuned /\ m.status \in Answers
<1>1. highPri \in Seq(StatusType) /\ send \in Seq(StatusType)
  BY DEF TypeOK
<1>2. CASE highPri # <<>> /\ m = Head(highPri) /\ highPri' = Tail(highPri) /\ UNCHANGED send
  <2>1. \A status : Told(highPri, status) <=> m.status = status \/ Told(highPri', status)
    BY <1>1, <1>2, TailStatus
  <2>2. Only(highPri, tuned, Answers)
        => Only(highPri', tuned, Answers) /\ m.ch = tuned /\ m.status \in Answers
    BY <1>1, <1>2, TailStatus
  <2>3. ASSUME NEW status PROVE Coming(status) <=> Coming(status)' \/ m.status = status
    BY <1>2, <2>1 DEF Coming
  <2> QED BY <1>2, <2>2, <2>3 DEF AnswersInv
<1>3. CASE send # <<>> /\ m = Head(send) /\ send' = Tail(send) /\ UNCHANGED highPri
  <2>1. \A status : Told(send, status) <=> m.status = status \/ Told(send', status)
    BY <1>1, <1>3, TailStatus
  <2>2. Only(send, tuned, Answers)
        => Only(send', tuned, Answers) /\ m.ch = tuned /\ m.status \in Answers
    BY <1>1, <1>3, TailStatus
  <2>3. ASSUME NEW status PROVE Coming(status) <=> Coming(status)' \/ m.status = status
    BY <1>3, <2>1 DEF Coming
  <2> QED BY <1>3, <2>2, <2>3 DEF AnswersInv
<1> QED BY <1>2, <1>3

(* The frames of a release: the packet being filled, then ptt_up. *)
LEMMA ReleaseShape ==
    ASSUME TypeOK
    PROVE  /\ LastPacket \in Seq(FrameType) /\ ReleaseFrames \in Seq(FrameType)
           /\ Frames(ReleaseFrames, "ptt_up")
           /\ \A type : Frames(LastPacket, type) => type = "audio" /\ engine.tx
           /\ \A type : Frames(ReleaseFrames, type)
                        => type = "ptt_up" \/ (type = "audio" /\ engine.tx)
           /\ (engine.tx => Packet.pressed) => Pressed(LastPacket) /\ Pressed(ReleaseFrames)
<1>1. Packet \in FrameType /\ Packet.type = "audio"
  <2>1. Packet \in AudioPacket BY PacketTyped
  <2> QED BY <2>1 DEF FrameType, AudioPacket
<1>2. Signal("ptt_up") \in FrameType /\ Signal("ptt_up").type = "ptt_up"
  BY DEF Signal, FrameType
<1>3. LastPacket \in Seq(FrameType)
  BY <1>1, EmptySeq DEF LastPacket
<1>4. \A type : Frames(LastPacket, type) => type = "audio" /\ engine.tx
  BY <1>1, OneFrame, EmptyQueue DEF LastPacket
<1>5. (engine.tx => Packet.pressed) => Pressed(LastPacket)
  BY OneFrame, EmptyQueue DEF LastPacket
<1> DEFINE last == <<Signal("ptt_up")>>
<1>6. last \in Seq(FrameType) /\ ReleaseFrames = LastPacket \o last
  BY <1>2, <1>3, AppendIsConcat DEF ReleaseFrames
<1>7. /\ \A type : Frames(last, type) <=> type = "ptt_up"
      /\ Pressed(last)
  BY <1>2, OneFrame
<1> HIDE DEF last
<1>8. /\ \A type : Frames(ReleaseFrames, type) <=> Frames(LastPacket, type) \/ type = "ptt_up"
      /\ Pressed(ReleaseFrames) <=> Pressed(LastPacket)
  BY <1>3, <1>6, <1>7, Concat
<1> QED BY <1>3, <1>4, <1>5, <1>6, <1>8

(* The pre-buffer holds audio only. *)
LEMMA QueueShape ==
    ASSUME TypeOK
    PROVE  /\ engine.queue \in Seq(FrameType)
           /\ \A type : Frames(engine.queue, type) => type = "audio"
<1>1. engine.queue \in Seq(AudioPacket)
  BY DEF TypeOK
<1>2. \A i \in 1..Len(engine.queue) : engine.queue[i].type = "audio"
  <2>1. ASSUME NEW i \in 1..Len(engine.queue) PROVE engine.queue[i] \in AudioPacket
    BY <1>1, ElementOfSeq
  <2> QED BY <2>1 DEF AudioPacket
<1> QED BY <1>1, <1>2 DEF FrameType, Frames

(* A request has the type of one. *)
LEMMA RequestShape ==
    ASSUME NEW s \in Seq(FrameType)
    PROVE  /\ \A type : Frames(s \o <<Signal("ptt_down")>>, type)
                        <=> Frames(s, type) \/ type = "ptt_down"
           /\ Asking(s \o <<Signal("ptt_down")>>)
           /\ Pressed(s \o <<Signal("ptt_down")>>) <=> Pressed(s)
           /\ s = <<>> => RequestFirst(s \o <<Signal("ptt_down")>>)
<1> DEFINE last == <<Signal("ptt_down")>>
<1>1. Signal("ptt_down") \in FrameType /\ Signal("ptt_down").type = "ptt_down"
  BY DEF Signal, FrameType
<1>2. last \in Seq(FrameType)
  BY <1>1
<1>3. /\ \A type : Frames(last, type) <=> type = "ptt_down"
      /\ Asking(last) /\ Pressed(last) /\ RequestFirst(last)
  BY <1>1, OneFrame
<1> HIDE DEF last
<1>4. s = <<>> => s \o last = last
  BY <1>2, ConcatEmptySeq
<1>5. RequestFirst(last) /\ s = <<>> => RequestFirst(s \o last)
  BY <1>4
<1>6. /\ \A type : Frames(s \o last, type) <=> Frames(s, type) \/ type = "ptt_down"
      /\ Asking(s \o last)
      /\ Pressed(s \o last) <=> Pressed(s)
  BY <1>2, <1>3, Concat
<1> QED BY <1>3, <1>5, <1>6 DEF last

(* Nothing is promised to a user who is not steady. *)
LEMMA NotSteady ==
    ASSUME TypeOK', ~steady', ~patient' PROVE ConsoleInv'
  BY DEF ConsoleInv, SteadyInv, ButtonInv, RequestInv, PatientInv, Good

(* Nothing is under way on a fresh connection. *)
LEMMA ConsoleInvStart == Init => ConsoleInv
<1> SUFFICES ASSUME Init PROVE ConsoleInv
  OBVIOUS
<1>1. TypeOK BY ConsoleStart
<1>2. ~Mine BY ConsoleAssumption DEF Init, Mine
<1>3. AnswersInv BY EmptyQueue DEF Init, AnswersInv
<1> QED
  BY <1>1, <1>2, <1>3, EmptyQueue
  DEF Init, ConsoleInv, SteadyInv, ButtonInv, RequestInv, PatientInv, Good,
      OneRequest, FloorInv, SpeechInv

(* The records the engine is turned into. *)
LEMMA EngineFields ==
    ASSUME TypeOK
    PROVE  /\ ~Stopped.tx /\ ~Stopped.pre /\ Stopped.queue = <<>>
           /\ LET e == [engine EXCEPT !.ch = currentChannelID, !.pre = TRUE, !.queue = <<>>]
              IN  e.tx = engine.tx /\ e.queue = <<>>
           /\ LET e == [engine EXCEPT !.tx = TRUE, !.pre = FALSE, !.queue = <<>>]
              IN  e.tx /\ ~e.pre /\ e.queue = <<>>
           /\ LET e == [engine EXCEPT !.queue = Append(@, Packet)]
              IN  e.tx = engine.tx /\ e.pre = engine.pre /\ e.queue = Append(engine.queue, Packet)
<1>1. engine \in EngineType BY DEF TypeOK, EngineType
<1> QED BY <1>1 DEF EngineType, Stopped

(* Every step keeps the invariant. *)
LEMMA ConsoleInvStep == ConsoleInv /\ [Next]_vars => ConsoleInv'
<1> SUFFICES ASSUME ConsoleInv, [Next]_vars PROVE ConsoleInv'
  OBVIOUS
<1> USE DEF user, flags, down, hub, seen
<1>t. TypeOK /\ TypeOK'
  BY TypeStep DEF ConsoleInv
<1>u. /\ up \in Seq(FrameType) /\ tuned \in ChannelID
      /\ holder \in [ChannelID -> {"none", "me", "other"}]
      /\ pttMode \in PTTMode /\ pttMode \in {"hold", "toggle"}
  BY <1>t, ConsoleAssumption DEF TypeOK
<1>p. patient => steady
  BY DEF ConsoleInv, SteadyInv
<1>s. SUFFICES ASSUME ~(~steady' /\ ~patient') PROVE ConsoleInv'
  BY <1>t, NotSteady
<1>o. steady => open
  BY DEF ConsoleInv, SteadyInv
<1> DEFINE Inv == SteadyInv /\ ButtonInv /\ RequestInv /\ PatientInv
<1>i. Inv BY DEF ConsoleInv
<1>q. Inv' => ConsoleInv' BY <1>t DEF ConsoleInv
<1>k. Packet.pressed <=> button \/ pttMode = "toggle"
  BY DEF Packet
<1>e. ASSUME NEW f \in Seq(FrameType), steady, Send(f) PROVE up' = up \o f
  BY <1>e, <1>o DEF Send
<1>n. ASSUME UNCHANGED seen PROVE steady
  BY <1>n, <1>s, <1>p
<1>v. ASSUME UNCHANGED <<due, highPri, send, tuned, holder>>
      PROVE  /\ \A status : Coming(status)' <=> Coming(status)
             /\ AnswersInv' <=> AnswersInv
             /\ Mine' <=> Mine
  BY <1>v DEF Coming, AnswersInv, Mine
<1>1. ASSUME Press, AtRest PROVE ConsoleInv'
  <2>1. /\ isPTTDown' = TRUE /\ isTransmitting' = FALSE /\ ~isTransmitting
        /\ engine' = [engine EXCEPT !.ch = currentChannelID, !.pre = TRUE, !.queue = <<>>]
        /\ up' = up \o <<Signal("ptt_down")>>
        /\ up = <<>> /\ due = {} /\ highPri = <<>> /\ send = <<>>
        /\ ~engine.tx /\ open /\ tuned = currentChannelID /\ holder[tuned] # "me"
    BY <1>1 DEF Press, requestFloor, AtRest, Drained, Send
  <2>2. /\ button' = (pttMode = "hold") /\ steady' /\ patient'
        /\ UNCHANGED <<pttMode, currentChannelID, open, due, highPri, send, tuned, holder>>
    BY <1>1 DEF Press
  <2>3. ~engine'.tx /\ engine'.queue = <<>>
    BY <2>1, <1>t, EngineFields
  <2>4. /\ \A type : Frames(up', type) <=> type = "ptt_down"
        /\ Asking(up') /\ Pressed(up') /\ RequestFirst(up')
    BY <2>1, <1>u, EmptyQueue, RequestShape
  <2>5. /\ \A status : ~Coming(status)'
        /\ AnswersInv' /\ Pressed(engine'.queue)
    BY <2>1, <2>2, <2>3, EmptyQueue DEF Coming, AnswersInv
  <2>6. ~Mine' BY <2>1, <2>2 DEF Mine
  <2>7. SteadyInv' /\ ButtonInv' /\ RequestInv'
    BY <2>1, <2>2, <2>4, <2>5 DEF SteadyInv, ButtonInv, RequestInv
  <2>8. OneRequest' /\ FloorInv' /\ SpeechInv'
    BY <2>1, <2>2, <2>3, <2>4, <2>5, <2>6 DEF OneRequest, FloorInv, SpeechInv
  <2> QED BY <2>7, <2>8, <1>q DEF PatientInv
<1>2. ASSUME Press, ~AtRest PROVE ConsoleInv'
  <2>1. /\ button' = (pttMode = "hold") /\ ~button /\ steady' = steady /\ ~patient' /\ steady
        /\ UNCHANGED <<pttMode, currentChannelID, open, due, highPri, send, tuned, holder>>
        /\ IF pttMode = "toggle" /\ isTransmitting THEN releaseFloor ELSE requestFloor
    BY <1>2, <1>s, <1>t DEF Press, TypeOK
  <2>2. ~Frames(up', "join_channel")
    <3>1. ~Frames(up, "join_channel") BY <1>i, <2>1 DEF SteadyInv
    <3>2. CASE up' = up BY <3>1, <3>2
    <3>3. CASE up' = up \o <<Signal("ptt_down")>> BY <3>1, <3>3, <1>u, RequestShape
    <3>4. CASE up' = up \o ReleaseFrames BY <3>1, <3>4, <1>u, <1>t, ReleaseShape, Concat
    <3>5. <<Signal("ptt_down")>> \in Seq(FrameType) /\ ReleaseFrames \o <<>> = ReleaseFrames
          /\ ReleaseFrames \in Seq(FrameType)
      <4>1. Signal("ptt_down") \in FrameType BY DEF Signal, FrameType
      <4> QED BY <4>1, <1>t, ReleaseShape, ConcatEmptySeq
    <3> QED
      BY <2>1, <1>e, <3>2, <3>3, <3>4, <3>5 DEF releaseFloor, releaseThen, requestFloor
  <2>3. SteadyInv'
    BY <1>i, <1>v, <2>1, <2>2 DEF SteadyInv
  <2>4. CASE pttMode = "toggle"
    <3>1. ~Good' /\ pttMode' # "hold" BY <2>1, <2>4 DEF Good
    <3> QED BY <2>1, <2>3, <3>1, <1>q DEF ButtonInv, RequestInv, PatientInv
  <2>5. CASE pttMode = "hold"
    <3>1. ~isPTTDown /\ ~isTransmitting
      BY <2>1, <2>5, <1>i DEF ButtonInv
    <3>2. isPTTDown' /\ ~isTransmitting' /\ up' = up \o <<Signal("ptt_down")>>
      BY <2>1, <2>5, <3>1, <1>o DEF requestFloor, Send
    <3>3. Asking(up') BY <3>2, <1>u, RequestShape
    <3> QED BY <2>1, <2>3, <2>5, <3>2, <3>3, <1>q DEF ButtonInv, RequestInv, PatientInv
  <2> QED BY <2>4, <2>5, <1>u
<1>3. ASSUME Release PROVE ConsoleInv'
  <2>1. /\ ~button' /\ steady
        /\ UNCHANGED <<pttMode, currentChannelID, open, due, highPri, send, tuned, holder,
                       steady, patient>>
    BY <1>3, <1>n DEF Release
  <2>c. /\ \A status : Coming(status)' <=> Coming(status)
        /\ AnswersInv' <=> AnswersInv
        /\ Mine' <=> Mine
    BY <2>1, <1>v
  <2>2. CASE UNCHANGED <<isPTTDown, isTransmitting, engine, up>> /\ (pttMode = "hold" => ~isPTTDown)
    BY <2>1, <2>2, <2>c, <1>i, <1>q
    DEF SteadyInv, ButtonInv, RequestInv, PatientInv, Good, OneRequest, FloorInv, SpeechInv
  <2>3. CASE pttMode = "hold" /\ (isPTTDown \/ isTransmitting)
    <3>1. /\ ~isPTTDown' /\ ~isTransmitting' /\ engine' = Stopped
          /\ up' = up \o ReleaseFrames
      <4>1. ReleaseFrames \in Seq(FrameType) /\ ReleaseFrames \o <<>> = ReleaseFrames
        BY <1>t, ReleaseShape, ConcatEmptySeq
      <4> QED BY <1>3, <2>1, <2>3, <1>e, <4>1 DEF Release, releaseFloor, releaseThen
    <3>2. /\ ~engine'.tx /\ ~engine'.pre /\ Pressed(engine'.queue)
      BY <3>1, <1>t, EngineFields, EmptyQueue
    <3>3. /\ \A type : Frames(up', type)
                       <=> Frames(up, type) \/ Frames(ReleaseFrames, type)
          /\ Frames(up', "ptt_up")
          /\ Pressed(up') <=> Pressed(up) /\ Pressed(ReleaseFrames)
          /\ RequestFirst(up) => RequestFirst(up')
      BY <3>1, <1>t, <1>u, ReleaseShape, Concat
    <3>4. /\ ~Frames(ReleaseFrames, "join_channel") /\ ~Frames(ReleaseFrames, "ptt_down")
          /\ Frames(ReleaseFrames, "audio") => engine.tx
          /\ (engine.tx => Packet.pressed) => Pressed(ReleaseFrames)
      BY <1>t, ReleaseShape
    <3>5. isPTTDown => Packet.pressed
      BY <2>1, <2>3, <1>i, <1>k DEF ButtonInv
    <3>6. SteadyInv' BY <1>i, <2>1, <2>c, <3>3, <3>4 DEF SteadyInv
    <3>7. ButtonInv' /\ RequestInv' BY <3>1 DEF ButtonInv, RequestInv
    <3>8. patient => OneRequest'
      BY <1>i, <2>1, <2>c, <2>3, <3>1, <3>2, <3>3, <3>4 DEF PatientInv, OneRequest
    <3>9. patient => FloorInv'
      BY <1>i, <2>1, <2>c, <3>3 DEF PatientInv, FloorInv
    <3>10. patient => SpeechInv'
      BY <1>i, <2>1, <2>3, <2>c, <3>2, <3>3, <3>4, <3>5 DEF PatientInv, SpeechInv
    <3> QED BY <3>6, <3>7, <3>8, <3>9, <3>10, <2>1, <1>q DEF PatientInv
  <2> QED BY <1>3, <2>2, <2>3, <1>u DEF Release, releaseFloor
<1>4. ASSUME NEW mode \in PTTMode, SetMode(mode) PROVE ConsoleInv'
  BY <1>4, <1>s DEF SetMode
<1>5. ASSUME NEW ch, NEW ok, changeChannel(ch, ok) PROVE ConsoleInv'
  BY <1>5, <1>s DEF changeChannel
<1>6. ASSUME Microphone PROVE ConsoleInv'
  <2>1. /\ steady
        /\ UNCHANGED <<pttMode, button, isPTTDown, isTransmitting, currentChannelID, open,
                       due, highPri, send, tuned, holder, steady, patient>>
    BY <1>6, <1>n DEF Microphone
  <2>c. /\ \A status : Coming(status)' <=> Coming(status)
        /\ AnswersInv' <=> AnswersInv
        /\ Mine' <=> Mine
    BY <2>1, <1>v
  <2>p. patient /\ (isPTTDown \/ pttMode = "toggle") => Packet.pressed
    BY <2>1, <1>u, <1>i, <1>k DEF ButtonInv
  <2>f. Packet \in FrameType /\ Packet.type = "audio"
    <3>1. Packet \in AudioPacket BY <1>t, PacketTyped
    <3> QED BY <3>1 DEF FrameType, AudioPacket
  <2>g. /\ <<Packet>> \in Seq(FrameType)
        /\ \A type : Frames(<<Packet>>, type) <=> type = "audio"
        /\ ~Asking(<<Packet>>)
        /\ Pressed(<<Packet>>) <=> Packet.pressed
    BY <2>f, OneFrame
  <2>2. CASE engine.tx /\ Send(<<Packet>>) /\ UNCHANGED engine
    <3>1. up' = up \o <<Packet>>
      BY <2>1, <2>2, <2>g, <1>e
    <3>2. /\ \A type : Frames(up', type) <=> Frames(up, type) \/ type = "audio"
          /\ Asking(up') <=> Asking(up)
          /\ Pressed(up') <=> Pressed(up) /\ Packet.pressed
          /\ RequestFirst(up) => RequestFirst(up')
      BY <3>1, <2>g, <1>u, Concat
    <3>3. SteadyInv' BY <1>i, <2>1, <2>c, <3>2 DEF SteadyInv
    <3>4. ButtonInv' /\ RequestInv' BY <1>i, <2>1, <2>c, <3>2 DEF ButtonInv, RequestInv, Good
    <3>5. patient => OneRequest'
      BY <1>i, <2>1, <2>2, <2>c, <3>2 DEF PatientInv, OneRequest
    <3>6. patient => FloorInv'
      BY <1>i, <2>1, <2>c, <3>2 DEF PatientInv, FloorInv
    <3>7. patient => SpeechInv'
      BY <1>i, <2>1, <2>2, <2>c, <2>p, <3>2 DEF PatientInv, SpeechInv
    <3> QED BY <3>3, <3>4, <3>5, <3>6, <3>7, <2>1, <1>q DEF PatientInv
  <2>3. CASE engine.pre /\ engine' = [engine EXCEPT !.queue = Append(@, Packet)] /\ UNCHANGED up
    <3>1. engine'.tx = engine.tx /\ engine'.pre = engine.pre
          /\ engine'.queue = engine.queue \o <<Packet>>
      <4>1. /\ engine'.tx = engine.tx /\ engine'.pre = engine.pre
            /\ engine'.queue = Append(engine.queue, Packet)
        BY <2>3, <1>t, EngineFields
      <4>2. Append(engine.queue, Packet) = engine.queue \o <<Packet>>
        BY <1>t, <2>f, QueueShape, AppendIsConcat
      <4> QED BY <4>1, <4>2
    <3>2. Pressed(engine'.queue) <=> Pressed(engine.queue) /\ Packet.pressed
      <4>1. Pressed(engine.queue \o <<Packet>>) <=> Pressed(engine.queue) /\ Pressed(<<Packet>>)
        BY <2>g, <1>t, QueueShape, Concat
      <4> QED BY <3>1, <4>1, <2>g
    <3>3. SteadyInv' BY <1>i, <2>1, <2>3, <2>c DEF SteadyInv
    <3>4. ButtonInv' /\ RequestInv' BY <1>i, <2>1, <2>3, <2>c DEF ButtonInv, RequestInv, Good
    <3>5. patient => OneRequest' /\ FloorInv'
      BY <1>i, <2>1, <2>3, <2>c, <3>1 DEF PatientInv, OneRequest, FloorInv
    <3>6. patient => SpeechInv'
      BY <1>i, <2>1, <2>3, <2>c, <2>p, <3>1, <3>2 DEF PatientInv, SpeechInv
    <3> QED BY <3>3, <3>4, <3>5, <3>6, <2>1, <1>q DEF PatientInv
  <2> QED BY <1>6, <2>2, <2>3 DEF Microphone
<1>7. ASSUME NEW m, handleFloorStatus(m),
             \A status : Coming(status) <=> Coming(status)' \/ m.status = status,
             AnswersInv => AnswersInv' /\ m.ch = tuned /\ m.status \in Answers,
             UNCHANGED <<pttMode, button, currentChannelID, open, tuned, holder, steady, patient>>
      PROVE  ConsoleInv'
  <2>1. steady /\ m.ch = currentChannelID /\ m.status \in Answers /\ AnswersInv' /\ (Mine' <=> Mine)
    BY <1>7, <1>n, <1>i DEF SteadyInv, Mine
  <2>n. Coming(m.status) BY <1>7
  <2>2. CASE m.status = "denied"
    <3>1. ~isPTTDown' /\ ~isTransmitting' /\ UNCHANGED <<engine, up>>
      BY <1>7, <2>1, <2>2 DEF handleFloorStatus, Denied
    <3>2. SteadyInv' BY <1>i, <1>7, <2>1, <3>1 DEF SteadyInv
    <3>3. ButtonInv' /\ RequestInv' BY <3>1 DEF ButtonInv, RequestInv
    <3>4. patient => ~Mine /\ ~Frames(up, "ptt_down") /\ RequestFirst(up)
      BY <1>i, <2>n, <2>2 DEF PatientInv, FloorInv, OneRequest
    <3>5. patient => OneRequest' /\ FloorInv' /\ SpeechInv'
      BY <2>1, <3>1, <3>4 DEF OneRequest, FloorInv, SpeechInv
    <3> QED BY <3>2, <3>3, <3>5, <1>7, <1>q DEF PatientInv
  <2>3. CASE m.status = "timeout"
    <3>1. TimedOut BY <1>7, <2>1, <2>3 DEF handleFloorStatus
    <3>2. ~isPTTDown' /\ ~isTransmitting' /\ up' = up \o LastPacket
      BY <2>1, <3>1, <1>e, <1>t, ReleaseShape DEF TimedOut
    <3>3. /\ \A type : Frames(up', type) <=> Frames(up, type) \/ Frames(LastPacket, type)
          /\ ~Frames(LastPacket, "join_channel") /\ ~Frames(LastPacket, "ptt_down")
          /\ RequestFirst(up) => RequestFirst(up')
      BY <3>2, <1>t, <1>u, ReleaseShape, Concat
    <3>4. SteadyInv' BY <1>i, <1>7, <2>1, <3>3 DEF SteadyInv
    <3>5. ButtonInv' /\ RequestInv' BY <3>2 DEF ButtonInv, RequestInv
    <3>6. patient => ~Mine /\ ~Frames(up, "ptt_down") /\ RequestFirst(up)
      BY <1>i, <2>n, <2>3 DEF PatientInv, FloorInv, OneRequest
    <3>7. patient => OneRequest' /\ FloorInv' /\ SpeechInv'
      BY <2>1, <3>3, <3>6 DEF OneRequest, FloorInv, SpeechInv
    <3> QED BY <3>4, <3>5, <3>7, <1>7, <1>q DEF PatientInv
  <2>4. CASE m.status = "granted"
    <3>1. Granted BY <1>7, <2>1, <2>4 DEF handleFloorStatus
    <3>2. /\ Coming("denied")' <=> Coming("denied")
          /\ Coming("timeout")' <=> Coming("timeout")
      BY <1>7, <2>4
    <3>3. patient => ~Frames(up, "ptt_down") /\ RequestFirst(up)
      BY <1>i, <2>n DEF PatientInv, OneRequest
    <3>4. CASE pttMode = "hold" /\ ~isPTTDown
      <4>1. ~isTransmitting BY <3>4, <2>1, <1>i DEF ButtonInv
      <4>2. UNCHANGED <<isPTTDown, isTransmitting, engine, up>>
        BY <3>1, <3>4, <4>1 DEF Granted, releaseFloor
      <4>3. SteadyInv' /\ ButtonInv' /\ RequestInv'
        BY <1>i, <1>7, <2>1, <3>4, <4>1, <4>2 DEF SteadyInv, ButtonInv, RequestInv
      <4>4. patient => OneRequest' BY <3>3, <4>2 DEF OneRequest
      <4>5. patient => FloorInv'
        BY <1>i, <2>1, <3>2, <3>4, <4>2 DEF PatientInv, FloorInv
      <4>6. patient => SpeechInv'
        BY <1>i, <1>7, <2>1, <4>2 DEF PatientInv, SpeechInv
      <4> QED BY <4>3, <4>4, <4>5, <4>6, <1>7, <1>q DEF PatientInv
    <3>5. CASE ~(pttMode = "hold" /\ ~isPTTDown)
      <4>1. /\ isTransmitting' /\ UNCHANGED isPTTDown
            /\ engine' = [engine EXCEPT !.tx = TRUE, !.pre = FALSE, !.queue = <<>>]
            /\ Send(engine.queue)
        BY <3>1, <3>5 DEF Granted
      <4>2. up' = up \o engine.queue
        BY <4>1, <2>1, <1>e, <1>t, QueueShape
      <4>3. Pressed(engine'.queue)
        BY <4>1, <1>t, EngineFields, EmptyQueue
      <4>4. /\ \A type : Frames(up', type) <=> Frames(up, type) \/ Frames(engine.queue, type)
            /\ Asking(up) /\ ~Frames(engine.queue, "ptt_up") => Asking(up')
            /\ Pressed(up') <=> Pressed(up) /\ Pressed(engine.queue)
            /\ RequestFirst(up) /\ ~Frames(engine.queue, "ptt_down") => RequestFirst(up')
        BY <4>2, <1>t, <1>u, QueueShape, Concat
      <4>5. /\ ~Frames(engine.queue, "join_channel") /\ ~Frames(engine.queue, "ptt_up")
            /\ ~Frames(engine.queue, "ptt_down")
        BY <1>t, QueueShape
      <4>6. SteadyInv' BY <1>i, <1>7, <2>1, <4>4, <4>5 DEF SteadyInv
      <4>7. ButtonInv' BY <1>i, <1>7, <3>5, <4>1 DEF ButtonInv
      <4>8. RequestInv'
        BY <1>i, <1>7, <2>1, <3>2, <4>1, <4>4, <4>5 DEF RequestInv, Good
      <4>9. patient => OneRequest'
        BY <3>3, <4>4, <4>5 DEF OneRequest
      <4>10. patient => FloorInv'
        BY <1>i, <2>1, <3>2, <4>1, <4>4 DEF PatientInv, FloorInv
      <4>11. patient => SpeechInv'
        BY <1>i, <1>7, <1>u, <2>1, <3>3, <3>5, <4>1, <4>3, <4>4, <4>5 DEF PatientInv, SpeechInv
      <4> QED BY <4>6, <4>7, <4>8, <4>9, <4>10, <4>11, <1>7, <1>q DEF PatientInv
    <3> QED BY <3>4, <3>5
  <2> QED BY <2>1, <2>2, <2>3, <2>4 DEF Answers
<1>8. ASSUME ReceivePriority \/ ReceiveSend PROVE ConsoleInv'
  <2>1. CASE ReceivePriority
    BY <2>1, <1>t, <1>7, Taken DEF ReceivePriority
  <2>2. CASE ReceiveSend
    BY <2>2, <1>t, <1>7, Taken DEF ReceiveSend
  <2> QED BY <1>8, <2>1, <2>2
<1>9. ASSUME Disconnect PROVE ConsoleInv'
  BY <1>9, <1>s DEF Disconnect
<1>10. ASSUME Reconnect PROVE ConsoleInv'
  BY <1>10, <1>n, <1>o DEF Reconnect
<1>h. ASSUME NEW type, Frame(type)
      PROVE  /\ steady /\ Head(up).type = type /\ up' = Tail(up)
             /\ UNCHANGED <<pttMode, button, isPTTDown, isTransmitting, currentChannelID, engine,
                            open, steady, patient>>
             /\ \A x : Frames(up, x) <=> x = type \/ Frames(up', x)
             /\ Asking(up) <=> Asking(up') \/ (type = "ptt_down" /\ ~Frames(up', "ptt_up"))
             /\ Pressed(up) => Pressed(up')
             /\ RequestFirst(up) => RequestFirst(up') /\ ~Frames(up', "ptt_down")
  <2>1. up # <<>> /\ Head(up).type = type /\ up' = Tail(up) /\ steady
        /\ UNCHANGED <<pttMode, button, isPTTDown, isTransmitting, currentChannelID, engine,
                       open, steady, patient>>
    BY <1>h, <1>n DEF Frame
  <2> QED BY <2>1, <1>u, TailFrames
<1>a. ASSUME NEW status \in Answers
      PROVE  /\ Status(tuned, status) \in StatusType
             /\ Status(tuned, status).ch = tuned /\ Status(tuned, status).status = status
  BY <1>u DEF Status, StatusType, Answers
<1>11. ASSUME HubPTTDown PROVE ConsoleInv'
  <2>1. Frame("ptt_down") /\ UNCHANGED <<send, tuned>> BY <1>11 DEF HubPTTDown
  <2>2. /\ steady
        /\ UNCHANGED <<pttMode, button, isPTTDown, isTransmitting, currentChannelID, engine,
                       open, steady, patient>>
        /\ \A x : Frames(up, x) <=> x = "ptt_down" \/ Frames(up', x)
        /\ Asking(up) => Asking(up') \/ ~Frames(up', "ptt_up")
        /\ Pressed(up) => Pressed(up')
        /\ RequestFirst(up) => RequestFirst(up') /\ ~Frames(up', "ptt_down")
    BY <2>1, <1>h
  <2>3. PICK status \in {"granted", "denied"} :
            /\ \A x : Coming(x)' <=> Coming(x) \/ x = status
            /\ AnswersInv => AnswersInv'
            /\ status = "granted" => Mine'
            /\ status = "denied" => ~Mine'
    <3>1. CASE /\ holder' = [holder EXCEPT ![tuned] = "me"]
               /\ Later(Status(tuned, "granted"))
               /\ UNCHANGED highPri
      <4>1. Mine' BY <3>1, <2>1, <1>u DEF Mine
      <4>2. /\ \A x : Coming(x)' <=> Coming(x) \/ x = "granted"
            /\ AnswersInv => AnswersInv'
        BY <3>1, <2>1, <1>t, <1>a, Owed DEF Answers
      <4> QED BY <4>1, <4>2
    <3>2. CASE /\ holder[tuned] = "other"
               /\ highPri' = Append(highPri, Status(tuned, "denied"))
               /\ UNCHANGED <<due, holder>>
      <4>1. ~Mine' BY <3>2, <2>1 DEF Mine
      <4>2. highPri \in Seq(StatusType) BY <1>t DEF TypeOK
      <4>3. /\ \A x : Told(highPri', x) <=> Told(highPri, x) \/ x = "denied"
            /\ Only(highPri, tuned, Answers) => Only(highPri', tuned, Answers)
        BY <3>2, <4>2, <1>a, AppendStatus DEF Answers
      <4>4. \A x : Coming(x)' <=> Coming(x) \/ x = "denied"
        BY <3>2, <2>1, <4>3 DEF Coming
      <4>5. AnswersInv => AnswersInv'
        BY <3>2, <2>1, <4>3 DEF AnswersInv
      <4> QED BY <4>1, <4>4, <4>5
    <3> QED BY <1>11, <3>1, <3>2 DEF HubPTTDown
  <2>4. patient => /\ \A x : ~Coming(x)
                   /\ ~isTransmitting /\ ~engine.tx
                   /\ isPTTDown \/ Frames(up', "ptt_up")
                   /\ Pressed(up') /\ Pressed(engine.queue)
                   /\ engine.tx \/ engine.pre => isPTTDown \/ pttMode = "toggle"
                   /\ RequestFirst(up') /\ ~Frames(up', "ptt_down")
    BY <1>i, <2>2 DEF PatientInv, OneRequest, SpeechInv
  <2>5. SteadyInv' BY <1>i, <2>1, <2>2, <2>3 DEF SteadyInv
  <2>6. ButtonInv' BY <1>i, <2>2 DEF ButtonInv
  <2>7. RequestInv'
    BY <1>i, <2>2, <2>3 DEF RequestInv, Good
  <2>8. patient => OneRequest' BY <2>4 DEF OneRequest
  <2>9. patient => FloorInv' BY <2>2, <2>3, <2>4 DEF FloorInv
  <2>10. patient => SpeechInv' BY <2>2, <2>4 DEF SpeechInv
  <2> QED BY <2>5, <2>6, <2>7, <2>8, <2>9, <2>10, <2>2, <1>q DEF PatientInv
<1>12. ASSUME HubPTTUp PROVE ConsoleInv'
  <2>1. Frame("ptt_up") /\ UNCHANGED <<due, highPri, send, tuned>> BY <1>12 DEF HubPTTUp
  <2>2. /\ steady
        /\ UNCHANGED <<pttMode, button, isPTTDown, isTransmitting, currentChannelID, engine,
                       open, steady, patient>>
        /\ \A x : Frames(up, x) <=> x = "ptt_up" \/ Frames(up', x)
        /\ Asking(up) <=> Asking(up')
        /\ RequestFirst(up) => RequestFirst(up') /\ ~Frames(up', "ptt_down")
    BY <2>1, <1>h
  <2>3. ~Mine' BY <1>12, <1>u, <2>1 DEF HubPTTUp, Mine
  <2>c. /\ \A status : Coming(status)' <=> Coming(status)
        /\ AnswersInv' <=> AnswersInv
    BY <2>1 DEF Coming, AnswersInv
  <2>4. SteadyInv' BY <1>i, <2>1, <2>2, <2>c DEF SteadyInv
  <2>5. ButtonInv' BY <1>i, <2>2 DEF ButtonInv
  <2>6. RequestInv' BY <1>i, <2>2 DEF RequestInv, Good
  <2>7. patient => OneRequest' /\ FloorInv' /\ SpeechInv'
    BY <1>i, <2>2, <2>3 DEF PatientInv, OneRequest, FloorInv, SpeechInv
  <2> QED BY <2>4, <2>5, <2>6, <2>7, <2>2, <1>q DEF PatientInv
<1>13. ASSUME HubAudio PROVE ConsoleInv'
  <2>1. Frame("audio") /\ UNCHANGED <<due, highPri, send, tuned, holder>> BY <1>13 DEF HubAudio
  <2>2. /\ steady
        /\ UNCHANGED <<pttMode, button, isPTTDown, isTransmitting, currentChannelID, engine,
                       open, steady, patient>>
        /\ \A x : Frames(up, x) <=> x = "audio" \/ Frames(up', x)
        /\ Asking(up) <=> Asking(up')
        /\ Pressed(up) => Pressed(up')
        /\ RequestFirst(up) => RequestFirst(up') /\ ~Frames(up', "ptt_down")
    BY <2>1, <1>h
  <2>c. /\ \A status : Coming(status)' <=> Coming(status)
        /\ AnswersInv' <=> AnswersInv
        /\ Mine' <=> Mine
    BY <2>1, <1>v
  <2>4. SteadyInv' BY <1>i, <2>1, <2>2, <2>c DEF SteadyInv
  <2>5. ButtonInv' BY <1>i, <2>2 DEF ButtonInv
  <2>6. RequestInv' BY <1>i, <2>2, <2>c DEF RequestInv, Good
  <2>7. patient => OneRequest' /\ FloorInv' /\ SpeechInv'
    BY <1>i, <2>2, <2>c DEF PatientInv, OneRequest, FloorInv, SpeechInv
  <2> QED BY <2>4, <2>5, <2>6, <2>7, <2>2, <1>q DEF PatientInv
<1>14. ASSUME HubJoin PROVE ConsoleInv'
  <2>1. Frame("join_channel") BY <1>14 DEF HubJoin
  <2>2. steady /\ Frames(up, "join_channel") BY <2>1, <1>h
  <2> QED BY <2>2, <1>i DEF SteadyInv
<1>15. ASSUME NEW status \in {"denied", "timeout"}, Later(Status(tuned, status)), Mine, ~Mine',
              UNCHANGED <<pttMode, button, isPTTDown, isTransmitting, currentChannelID, engine,
                          open, up, highPri, send, tuned, steady, patient>>
       PROVE  ConsoleInv'
  <2>1. /\ \A x : Coming(x)' <=> Coming(x) \/ x = status
        /\ AnswersInv => AnswersInv'
    BY <1>15, <1>t, <1>a, Owed DEF Answers
  <2>2. SteadyInv' BY <1>i, <1>15, <2>1 DEF SteadyInv
  <2>3. ButtonInv' BY <1>i, <1>15 DEF ButtonInv
  <2>4. RequestInv' BY <1>i, <1>15, <2>1 DEF RequestInv, Good
  <2>5. patient => OneRequest' /\ FloorInv' /\ SpeechInv'
    BY <1>i, <1>15 DEF PatientInv, OneRequest, FloorInv, SpeechInv
  <2> QED BY <2>2, <2>3, <2>4, <2>5, <1>15, <1>q DEF PatientInv
<1>16. ASSUME HubTimeOut \/ OtherPreempts PROVE ConsoleInv'
  <2>1. Mine /\ ~Mine'
    BY <1>16, <1>u DEF HubTimeOut, OtherPreempts, Mine
  <2>2. UNCHANGED <<pttMode, button, isPTTDown, isTransmitting, currentChannelID, engine,
                    open, up, highPri, send, tuned, steady, patient>>
    BY <1>16 DEF HubTimeOut, OtherPreempts
  <2>3. CASE Later(Status(tuned, "timeout")) BY <2>1, <2>2, <2>3, <1>15
  <2>4. CASE Later(Status(tuned, "denied")) BY <2>1, <2>2, <2>4, <1>15
  <2> QED BY <1>16, <2>3, <2>4 DEF HubTimeOut, OtherPreempts
<1>17. ASSUME UNCHANGED <<pttMode, button, isPTTDown, isTransmitting, currentChannelID, engine,
                          open, up, tuned, steady, patient>>,
              Mine' <=> Mine, \A status : Coming(status)' <=> Coming(status),
              AnswersInv => AnswersInv'
       PROVE  ConsoleInv'
  BY <1>17, <1>i, <1>q
  DEF SteadyInv, ButtonInv, RequestInv, PatientInv, Good, OneRequest, FloorInv, SpeechInv
<1>18. ASSUME NEW ch \in ChannelID, OtherTakesOrReleases(ch) PROVE ConsoleInv'
  <2>1. Mine' <=> Mine BY <1>18, <1>u DEF OtherTakesOrReleases, Mine
  <2>2. UNCHANGED <<pttMode, button, isPTTDown, isTransmitting, currentChannelID, engine,
                    open, up, due, highPri, send, tuned, steady, patient>>
    BY <1>18 DEF OtherTakesOrReleases
  <2>3. /\ \A status : Coming(status)' <=> Coming(status)
        /\ AnswersInv => AnswersInv'
    BY <2>2 DEF Coming, AnswersInv
  <2> QED BY <2>1, <2>2, <2>3, <1>17
<1>19. ASSUME NEW m \in due, HubNotice(m) PROVE ConsoleInv'
  <2>1. UNCHANGED <<pttMode, button, isPTTDown, isTransmitting, currentChannelID, engine,
                    open, up, tuned, holder, steady, patient>>
    BY <1>19 DEF HubNotice
  <2>2. Mine' <=> Mine BY <2>1 DEF Mine
  <2> QED BY <2>1, <2>2, <1>17, <1>19, <1>t, Paid
<1>20. ASSUME UNCHANGED vars PROVE ConsoleInv'
  BY <1>20, <1>17, <1>v DEF vars
<1> QED
  BY <1>1, <1>2, <1>3, <1>4, <1>5, <1>6, <1>8, <1>9, <1>10, <1>11, <1>12, <1>13,
     <1>14, <1>16, <1>18, <1>19, <1>20
  DEF Next, HubFrame

----------------------------------------------------------------------------
(* The invariant holds in every reachable state of a console: whatever the *)
(* order of grants, denials and time-outs, what is under way settles as    *)
(* the three parts about requests, floor and speech say.                   *)
THEOREM ConsoleInvariant == Spec => []ConsoleInv
  BY ConsoleInvStart, ConsoleInvStep, PTL DEF Spec

(* Frames and answers are well formed, and the pre-buffer keeps its limit  *)
(* (_flushPCMPacket, audio.js).                                            *)
THEOREM ConsoleTypeCorrect == Spec => []TypeOK
  BY ConsoleStart, TypeStep, PTL DEF Spec

(* The light is true for every user in hold mode who does not move, late   *)
(* grants and stale time-outs included (handleFloorStatus).                *)
THEOREM OnAirIsAlwaysTrue == Spec => []OnAirIsTrue
<1>1. ASSUME ConsoleInv, Drained PROVE \A status : ~Coming(status)
  BY <1>1, EmptyQueue DEF Drained, Coming
<1>2. ConsoleInv => OnAirIsTrue
  BY <1>1, EmptyQueue
  DEF ConsoleInv, ButtonInv, RequestInv, Good, Mine, Drained, OnAirIsTrue
<1> QED BY <1>2, ConsoleInvariant, PTL

(* A floor never stays with a user who does not see it. *)
THEOREM FloorIsAlwaysKnown == Spec => []FloorIsKnown
<1>1. ASSUME ConsoleInv, Drained PROVE ~Coming("granted")
  BY <1>1, EmptyQueue DEF Drained, Coming
<1>2. ConsoleInv => FloorIsKnown
  BY <1>1, EmptyQueue DEF ConsoleInv, PatientInv, FloorInv, Mine, Drained, FloorIsKnown
<1> QED BY <1>2, ConsoleInvariant, PTL

(* Nothing a patient user said with the button up is heard. *)
THEOREM PatientIsNotOverheard == Spec => PatientHoldToSpeak
<1>1. ASSUME ConsoleInv, patient, HubAudio, Accepts(Head(up)) PROVE Head(up).pressed
  <2>1. up \in Seq(FrameType) /\ up # <<>> /\ Head(up).type = "audio"
    BY <1>1 DEF ConsoleInv, TypeOK, HubAudio, Frame
  <2>2. Pressed(up)
    BY <1>1 DEF ConsoleInv, PatientInv, SpeechInv, Mine, Accepts
  <2> QED BY <2>1, <2>2, TailFrames
<1>2. ConsoleInv => [patient /\ HubAudio /\ Accepts(Head(up)) => Head(up).pressed]_vars
  BY <1>1
<1> QED BY <1>2, ConsoleInvariant, PTL DEF PatientHoldToSpeak

(* Where the request of a patient user can be: on its way, or answered by  *)
(* a notice that is owed or on its way.                                    *)
RequestIsUnderWay ==
    patient /\ isPTTDown /\ ~isTransmitting =>
        Asking(up) \/ Coming("granted") \/ Coming("denied") \/ Coming("timeout")

(* The safety half of RequestIsAnswered: a request is never lost between   *)
(* console and hub.  While a patient user waits, ptt_down or its answer is *)
(* on the way (requestFloor, handlePTTDown, handleFloorStatus).            *)
THEOREM NoRequestIsLost == Spec => []RequestIsUnderWay
<1>1. ConsoleInv => RequestIsUnderWay
  BY DEF ConsoleInv, RequestInv, PatientInv, FloorInv, Good, RequestIsUnderWay
<1> QED BY <1>1, ConsoleInvariant, PTL
=============================================================================
