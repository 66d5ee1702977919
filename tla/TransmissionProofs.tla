------------------------- MODULE TransmissionProofs -------------------------
(***************************************************************************)
(* Proofs about Transmission.  For any clients, roles and timers: types,   *)
(* the use of the channel (which carries the theorems of ChannelProofs     *)
(* over to the handlers) and the late packet.  For clients of one rank     *)
(* without time-outs (Flat): what clients are told, recordings, and the    *)
(* busy light.                                                             *)
(***************************************************************************)
EXTENDS Transmission, ChannelProofs

Untuned == {"away", "leave"}

(* A client is tuned from its arrival until RemoveSubscriber. *)
Present == \A c \in Client : c \in Subscribers <=> pc[c] \notin Untuned

HandlerTypes ==
    /\ pc \in [Client -> Step]
    /\ other \in [Client -> Client \cup {NoClient}]
    /\ expiry \in [at : {"endTX", "tell", "sayIdle"}, speaker : Client] \cup {NoExpiry}
    /\ tx \in [speaker : Client, sources : SUBSET Client] \cup {NoTX}
    /\ told \in [Client -> BOOLEAN]
    /\ activity \in BOOLEAN
    /\ late \in [Client -> Nat]

(* Whoever has the floor, or is past its check, has sent no packet late:   *)
(* AtMostOneLatePacket alone does not say that the next packet is checked. *)
Punctual ==
    \A c \in Client : IsFloorHolder(c) \/ pc[c] \in {"append", "forward"} => late[c] = 0

TransmissionInv ==
    ChannelInv /\ HandlerTypes /\ Present /\ AtMostOneLatePacket /\ Punctual

----------------------------------------------------------------------------
(* No expired timer calls back before one has expired. *)
LEMMA NoExpiryIsRest ==
  /\ NoExpiry.at = "none" /\ NoExpiry.speaker = NoClient
  /\ \A e \in [at : {"endTX", "tell", "sayIdle"}, speaker : Client] : e # NoExpiry
  BY DEF NoExpiry

(* Nobody is tuned and no handler runs at the start. *)
LEMMA HandlersStart == Init => TransmissionInv
<1> SUFFICES ASSUME Init PROVE TransmissionInv
  OBVIOUS
<1>1. ChannelInv
  BY InitInv DEF Init
<1>2. HandlerTypes
  BY DEF Init, HandlerTypes, Step
<1>3. Present
  BY DEF Init, ChannelInit, Present, Untuned
<1>4. AtMostOneLatePacket /\ Punctual
  BY DEF Init, AtMostOneLatePacket, Punctual
<1> QED
  BY <1>1, <1>2, <1>3, <1>4 DEF TransmissionInv

(* Every step of the handlers is a method of the channel, called as the    *)
(* channel expects, or leaves it alone.                                    *)
LEMMA ChannelIsUsed == TransmissionInv /\ [Next]_vars => [ChannelNext]_channelVars
<1> SUFFICES ASSUME TransmissionInv, [Next]_vars PROVE [ChannelNext]_channelVars
  OBVIOUS
<1>0. \A c \in Client : /\ pc[c] = "away" => c \notin Subscribers
                        /\ pc[c] = "read" => c \in Subscribers
  BY DEF TransmissionInv, Present, Untuned
<1>1. ASSUME NEW c \in Client, Arrive(c) \/ Depart(c) PROVE ChannelNext
  BY <1>0, <1>1 DEF Arrive, Depart, ChannelNext
<1>2. ASSUME NEW c \in Client, PTTDownGranted(c) \/ PTTDownDenied(c) PROVE ChannelNext
  BY <1>0, <1>2 DEF PTTDownGranted, PTTDownDenied, RequestFloor, ChannelNext
<1>3. ASSUME NEW c \in Client, PTTUp(c) PROVE [ChannelNext]_channelVars
  BY <1>3 DEF PTTUp, ChannelNext
<1>4. ASSUME NEW c \in Client, NEW r \in Role, Identify(c, r) PROVE ChannelNext
  BY <1>4 DEF Identify, ChannelNext
<1>5. ASSUME NEW c \in Client, AudioFrame(c) \/ Handler(c) PROVE UNCHANGED channelVars
  BY <1>5 DEF AudioFrame, Handler, EndPreempted, TellPreempted, StartTX, TellGranted, SayBusy,
              TellDenied, EndTX, AddNote, SayIdle, AppendFrame, ForwardFrame
<1>6. ASSUME NEW t \in Timer, Expire(t) \/ TimeOut(t) PROVE ChannelNext
  BY <1>6 DEF Expire, TimeOut, ChannelNext
<1>7. ASSUME Callback PROVE UNCHANGED channelVars
  BY <1>7 DEF Callback, TOTEndTX, TOTTell, TOTSayIdle
<1> QED
  BY <1>1, <1>2, <1>3, <1>4, <1>5, <1>6, <1>7 DEF Next, vars

----------------------------------------------------------------------------
(* Steps that only move one goroutine on, the channel untouched. *)
LEMMA TypesKept == TransmissionInv /\ [Next]_vars => HandlerTypes'
<1> SUFFICES ASSUME TransmissionInv, [Next]_vars PROVE HandlerTypes'
  OBVIOUS
<1>0. HandlerTypes /\ activeSpeaker \in Client \cup {NoClient}
  BY DEF TransmissionInv, ChannelInv, ChannelTypeOK
<1>s. ASSUME NEW c \in Client, NEW step \in Step, Goto(c, step) PROVE pc' \in [Client -> Step]
  BY <1>0, <1>s DEF HandlerTypes, Goto
<1>t. ASSUME NEW c, NEW b \in BOOLEAN, Tell(c, b) PROVE told' \in [Client -> BOOLEAN]
  BY <1>0, <1>t DEF HandlerTypes, Tell
<1>1. ASSUME NEW c \in Client, Arrive(c) PROVE HandlerTypes'
  BY <1>0, <1>1, <1>s, <1>t DEF Arrive, HandlerTypes, Step
<1>2. ASSUME NEW c \in Client, Depart(c) PROVE HandlerTypes'
  <2>1. pc' \in [Client -> Step]
    BY <1>2, <1>s DEF Depart, Step
  <2> QED
    BY <1>0, <1>2, <2>1 DEF Depart, HandlerTypes
<1>3. ASSUME NEW c \in Client, PTTDownGranted(c) PROVE HandlerTypes'
  <2>1. pc' \in [Client -> Step]
    BY <1>3, <1>s DEF PTTDownGranted, Step
  <2>2. other' \in [Client -> Client \cup {NoClient}]
    BY <1>0, <1>3 DEF PTTDownGranted, HandlerTypes
  <2>3. late' \in [Client -> Nat]
    BY <1>0, <1>3 DEF PTTDownGranted, HandlerTypes
  <2> QED
    BY <1>0, <1>3, <2>1, <2>2, <2>3 DEF PTTDownGranted, HandlerTypes
<1>4. ASSUME NEW c \in Client, PTTDownDenied(c) PROVE HandlerTypes'
  <2>1. pc' \in [Client -> Step]
    BY <1>4, <1>s DEF PTTDownDenied, Step
  <2> QED
    BY <1>0, <1>4, <2>1 DEF PTTDownDenied, HandlerTypes
<1>5. ASSUME NEW c \in Client, PTTUp(c) PROVE HandlerTypes'
  <2>1. pc' \in [Client -> Step]
    BY <1>0, <1>5, <1>s DEF PTTUp, Step, HandlerTypes
  <2> QED
    BY <1>0, <1>5, <1>t, <2>1 DEF PTTUp, HandlerTypes
<1>6. ASSUME NEW c \in Client, AudioFrame(c) PROVE HandlerTypes'
  BY <1>0, <1>6, <1>s DEF AudioFrame, HandlerTypes, Step
<1>7. ASSUME NEW c \in Client, Handler(c) PROVE HandlerTypes'
  <2>0. pc' \in [Client -> Step]
    BY <1>7, <1>s DEF Handler, EndPreempted, TellPreempted, StartTX, TellGranted, SayBusy,
                      TellDenied, EndTX, AddNote, SayIdle, AppendFrame, ForwardFrame, Step
  <2>1. CASE EndPreempted(c) \/ StartTX(c)
    BY <1>0, <2>0, <2>1 DEF EndPreempted, StartTX, OnTransmissionEnd, OnTransmissionStart,
                            HandlerTypes
  <2>2. CASE TellPreempted(c) \/ TellGranted(c) \/ TellDenied(c)
    <3>1. told' \in [Client -> BOOLEAN]
      BY <2>2, <1>t DEF TellPreempted, TellGranted, TellDenied
    <3> QED
      BY <1>0, <2>0, <2>2, <3>1 DEF TellPreempted, TellGranted, TellDenied, HandlerTypes
  <2>3. CASE SayBusy(c) \/ SayIdle(c)
    BY <1>0, <2>0, <2>3 DEF SayBusy, SayIdle, HandlerTypes
  <2>4. CASE EndTX(c)
    <3>1. other' \in [Client -> Client \cup {NoClient}]
      BY <1>0, <2>4 DEF EndTX, HandlerTypes
    <3> QED
      BY <1>0, <2>0, <2>4, <3>1 DEF EndTX, OnTransmissionEnd, HandlerTypes
  <2>5. CASE AddNote(c)
    BY <1>0, <2>0, <2>5 DEF AddNote, HandlerTypes
  <2>6. CASE AppendFrame(c)
    <3>1. tx' \in [speaker : Client, sources : SUBSET Client] \cup {NoTX}
      BY <1>0, <2>6 DEF AppendFrame, AppendAudio, HandlerTypes
    <3> QED
      BY <1>0, <2>0, <2>6, <3>1 DEF AppendFrame, HandlerTypes
  <2>7. CASE ForwardFrame(c)
    <3>1. late' \in [Client -> Nat]
      BY <1>0, <2>7 DEF ForwardFrame, HandlerTypes
    <3> QED
      BY <1>0, <2>0, <2>7, <3>1 DEF ForwardFrame, HandlerTypes
  <2> QED
    BY <1>7, <2>1, <2>2, <2>3, <2>4, <2>5, <2>6, <2>7 DEF Handler
<1>8. ASSUME NEW t \in Timer, TimeOut(t) PROVE HandlerTypes'
  <2>1. expiry' \in [at : {"endTX", "tell", "sayIdle"}, speaker : Client] \cup {NoExpiry}
    BY <1>0, <1>8 DEF TimeOut, HandlerTypes
  <2> QED
    BY <1>0, <1>8, <2>1 DEF TimeOut, HandlerTypes
<1>9. ASSUME Callback PROVE HandlerTypes'
  <2>0. expiry.at # "none" => expiry \in [at : {"endTX", "tell", "sayIdle"}, speaker : Client]
    BY <1>0, NoExpiryIsRest DEF HandlerTypes
  <2>1. CASE TOTEndTX
    BY <1>0, <2>0, <2>1 DEF TOTEndTX, OnTransmissionEnd, HandlerTypes
  <2>2. CASE TOTTell
    <3>1. told' \in [Client -> BOOLEAN]
      BY <2>2, <1>t DEF TOTTell
    <3>2. expiry' \in [at : {"endTX", "tell", "sayIdle"}, speaker : Client]
      BY <2>0, <2>2 DEF TOTTell
    <3> QED
      BY <1>0, <2>2, <3>1, <3>2 DEF TOTTell, HandlerTypes
  <2>3. CASE TOTSayIdle
    BY <1>0, <2>3 DEF TOTSayIdle, HandlerTypes
  <2> QED
    BY <1>9, <2>1, <2>2, <2>3 DEF Callback
<1>10. ASSUME UNCHANGED hubVars PROVE HandlerTypes'
  BY <1>0, <1>10 DEF hubVars, HandlerTypes
<1> QED
  BY <1>1, <1>2, <1>3, <1>4, <1>5, <1>6, <1>7, <1>8, <1>9, <1>10 DEF Next, vars, Identify, Expire

(* Arrivals and departures move client and goroutine together. *)
LEMMA PresentKept == TransmissionInv /\ [Next]_vars => Present'
<1> SUFFICES ASSUME TransmissionInv, [Next]_vars PROVE Present'
  OBVIOUS
<1>0. pc \in [Client -> Step] /\ Present
  BY DEF TransmissionInv, HandlerTypes
<1>1. ASSUME NEW c \in Client, NEW step, Goto(c, step), UNCHANGED Subscribers,
             step \in Untuned <=> pc[c] \in Untuned
      PROVE  Present'
  BY <1>0, <1>1 DEF Goto, Present
<1>2. ASSUME NEW c \in Client, Arrive(c) PROVE Present'
  BY <1>0, <1>2 DEF Arrive, AddSubscriber, Goto, Present, Untuned
<1>3. ASSUME NEW c \in Client, Depart(c) PROVE Present'
  BY <1>0, <1>3 DEF Depart, RemoveSubscriber, Goto, Present, Untuned
<1>4. ASSUME NEW c \in Client, PTTDownGranted(c) \/ PTTDownDenied(c) PROVE Present'
  BY <1>1, <1>4 DEF PTTDownGranted, PTTDownDenied, KeepFloor, GrantFloor, PreemptFloor, DenyFloor,
                    channelVars, Untuned
<1>5. ASSUME UNCHANGED <<pc, Subscribers>> PROVE Present'
  BY <1>0, <1>5 DEF Present
<1>6. ASSUME NEW c \in Client, PTTUp(c) PROVE Present'
  BY <1>1, <1>5, <1>6 DEF PTTUp, ReleaseFloor, channelVars, Untuned
<1>7. ASSUME NEW c \in Client, AudioFrame(c) \/ Handler(c) PROVE Present'
  BY <1>1, <1>7 DEF AudioFrame, Handler, EndPreempted, TellPreempted, StartTX, TellGranted, SayBusy,
        TellDenied, EndTX, AddNote, SayIdle, AppendFrame, ForwardFrame, channelVars, Untuned
<1>8. ASSUME NEW c \in Client, NEW r \in Role, Identify(c, r) PROVE Present'
  BY <1>5, <1>8 DEF Identify, SetRole, hubVars
<1>9. ASSUME NEW t \in Timer, Expire(t) \/ TimeOut(t) PROVE Present'
  BY <1>5, <1>9 DEF Expire, TimeOut, FireTOT, handleTOT, hubVars
<1>10. ASSUME Callback \/ UNCHANGED vars PROVE Present'
  BY <1>5, <1>10 DEF Callback, TOTEndTX, TOTTell, TOTSayIdle, vars, hubVars, channelVars
<1> QED
  BY <1>2, <1>3, <1>4, <1>6, <1>7, <1>8, <1>9, <1>10 DEF Next

(* The floor only comes to a client through its own request.               *)
LEMMA HoldersAsked ==
  ASSUME TransmissionInv, [Next]_vars, NEW c \in Client, IsFloorHolder(c)', ~PTTDownGranted(c)
  PROVE  IsFloorHolder(c)
<1>0. /\ c # NoClient
      /\ isBusy \in BOOLEAN /\ (isBusy <=> activeSpeaker # NoClient)
      /\ activeSpeaker' = c
  BY ChannelAssumption DEF TransmissionInv, ChannelInv, ChannelTypeOK, SpeakerIsTuned, IsFloorHolder
<1>1. activeSpeaker = c
  <2>1. CASE \E d \in Client : PTTDownGranted(d)
    <3>1. PICK d \in Client : PTTDownGranted(d)
      BY <2>1
    <3>2. d # c
      BY <3>1
    <3> QED
      BY <1>0, <3>1, <3>2 DEF PTTDownGranted, KeepFloor, GrantFloor, PreemptFloor, channelVars
  <2>2. CASE \E d \in Client : Arrive(d) \/ Depart(d) \/ PTTDownDenied(d) \/ PTTUp(d)
    BY <1>0, <2>2 DEF Arrive, Depart, PTTDownDenied, PTTUp, AddSubscriber, RemoveSubscriber,
                      DenyFloor, ReleaseFloor, clearFloor, channelVars
  <2>3. CASE \E d \in Client : AudioFrame(d) \/ Handler(d)
    BY <1>0, <2>3 DEF AudioFrame, Handler, EndPreempted, TellPreempted, StartTX, TellGranted, SayBusy,
          TellDenied, EndTX, AddNote, SayIdle, AppendFrame, ForwardFrame, channelVars
  <2>4. CASE \E d \in Client, r \in Role : Identify(d, r)
    BY <1>0, <2>4 DEF Identify, SetRole
  <2>5. CASE \E t \in Timer : Expire(t) \/ TimeOut(t)
    BY <1>0, <2>5 DEF Expire, TimeOut, FireTOT, handleTOT
  <2>6. CASE Callback \/ UNCHANGED vars
    BY <1>0, <2>6 DEF Callback, TOTEndTX, TOTTell, TOTSayIdle, vars, channelVars
  <2> QED
    BY <2>1, <2>2, <2>3, <2>4, <2>5, <2>6 DEF Next
<1> QED
  BY <1>0, <1>1 DEF IsFloorHolder

(* A packet passes the check of the floor while its client holds it, and   *)
(* is the only one until the next check.                                   *)
LEMMA LatenessKept ==
  TransmissionInv /\ [Next]_vars => AtMostOneLatePacket' /\ Punctual'
<1> SUFFICES ASSUME TransmissionInv, [Next]_vars, NEW c \in Client
             PROVE  /\ late'[c] <= 1
                    /\ IsFloorHolder(c)' \/ pc'[c] \in {"append", "forward"} => late'[c] = 0
  BY DEF AtMostOneLatePacket, Punctual, IsFloorHolder
<1>0. /\ pc \in [Client -> Step] /\ late \in [Client -> Nat]
      /\ late[c] <= 1
      /\ IsFloorHolder(c) \/ pc[c] \in {"append", "forward"} => late[c] = 0
  BY DEF TransmissionInv, HandlerTypes, AtMostOneLatePacket, Punctual
<1> DEFINE Late == /\ late'[c] <= 1
                   /\ IsFloorHolder(c)' \/ pc'[c] \in {"append", "forward"} => late'[c] = 0
<1>1. CASE PTTDownGranted(c)
  BY <1>0, <1>1 DEF PTTDownGranted
<1>2. CASE ~PTTDownGranted(c)
  <2>1. IsFloorHolder(c)' => late[c] = 0
    BY <1>0, <1>2, HoldersAsked
  <2>2. ASSUME late'[c] = late[c], pc'[c] = pc[c] \/ pc'[c] \notin {"append", "forward"}
        PROVE  Late
    BY <1>0, <2>1, <2>2
  <2>3. CASE AudioFrame(c)
    BY <1>0, <2>1, <2>3 DEF AudioFrame
  <2>4. CASE AppendFrame(c)
    BY <1>0, <2>1, <2>4 DEF AppendFrame
  <2>5. CASE ForwardFrame(c)
    <3>1. pc'[c] = "read" /\ late[c] = 0 /\ UNCHANGED channelVars
          /\ late'[c] = IF IsFloorHolder(c) THEN 0 ELSE 1
      BY <1>0, <2>5 DEF ForwardFrame, Goto
    <3>2. IsFloorHolder(c)' => IsFloorHolder(c)
      BY <3>1 DEF IsFloorHolder, channelVars
    <3> QED
      BY <3>1, <3>2
  <2>6. CASE \E d \in Client : PTTDownGranted(d) \/ AudioFrame(d) \/ AppendFrame(d) \/ ForwardFrame(d)
    <3>1. PICK d \in Client : PTTDownGranted(d) \/ AudioFrame(d) \/ AppendFrame(d) \/ ForwardFrame(d)
      BY <2>6
    <3>2. CASE d = c
      BY <1>2, <2>3, <2>4, <2>5, <3>1, <3>2
    <3>3. CASE d # c
      <4>1. late'[c] = late[c] /\ pc'[c] = pc[c]
        BY <1>0, <3>1, <3>3 DEF PTTDownGranted, AudioFrame, AppendFrame, ForwardFrame, Goto
      <4> QED
        BY <2>2, <4>1
    <3> QED
      BY <3>2, <3>3
  <2>7. CASE \E d \in Client : Arrive(d) \/ Depart(d) \/ PTTDownDenied(d) \/ PTTUp(d)
    <3>1. late'[c] = late[c] /\ (pc'[c] = pc[c] \/ pc'[c] \notin {"append", "forward"})
      BY <1>0, <2>7 DEF Arrive, Depart, PTTDownDenied, PTTUp, Goto
    <3> QED
      BY <2>2, <3>1
  <2>8. CASE \E d \in Client : \/ EndPreempted(d) \/ TellPreempted(d) \/ StartTX(d) \/ TellGranted(d)
                              \/ SayBusy(d) \/ TellDenied(d) \/ EndTX(d) \/ AddNote(d) \/ SayIdle(d)
    <3>1. late'[c] = late[c] /\ (pc'[c] = pc[c] \/ pc'[c] \notin {"append", "forward"})
      BY <1>0, <2>8 DEF EndPreempted, TellPreempted, StartTX, TellGranted, SayBusy, TellDenied, EndTX,
                        AddNote, SayIdle, Goto
    <3> QED
      BY <2>2, <3>1
  <2>9. CASE \/ \E d \in Client, r \in Role : Identify(d, r)
             \/ \E t \in Timer : Expire(t) \/ TimeOut(t)
             \/ Callback \/ UNCHANGED vars
    <3>1. late' = late /\ pc' = pc
      BY <2>9 DEF Identify, Expire, TimeOut, Callback, TOTEndTX, TOTTell, TOTSayIdle, vars, hubVars
    <3> QED
      BY <2>2, <3>1
  <2> QED
    BY <2>6, <2>7, <2>8, <2>9 DEF Next, Handler
<1> QED
  BY <1>1, <1>2

(* In every reachable state TransmissionInv holds. *)
THEOREM TransmissionInvariant == Spec => []TransmissionInv
<1>1. TransmissionInv /\ [Next]_vars => TransmissionInv'
  <2> SUFFICES ASSUME TransmissionInv, [Next]_vars PROVE TransmissionInv'
    OBVIOUS
  <2>1. ChannelInv'
    BY ChannelIsUsed, NextInv DEF TransmissionInv
  <2> QED
    BY <2>1, TypesKept, PresentKept, LatenessKept DEF TransmissionInv
<1> QED
  BY <1>1, HandlersStart, PTL DEF Spec

(* The variables of the handlers have their types. *)
THEOREM HandlersTypeCorrect == Spec => []TypeOK
<1>1. TransmissionInv => TypeOK
  BY DEF TransmissionInv, ChannelInv, HandlerTypes, TypeOK
<1> QED
  BY <1>1, TransmissionInvariant, PTL

(* HandleBinaryAudio forwards one packet at most after the floor is lost.  *)
THEOREM OneLatePacket == Spec => []AtMostOneLatePacket
<1>1. TransmissionInv => AtMostOneLatePacket
  BY DEF TransmissionInv
<1> QED
  BY <1>1, TransmissionInvariant, PTL

(* The handlers of the hub use a channel as its specification expects, so  *)
(* every theorem of ChannelProofs holds of the channel they use.           *)
THEOREM HandlersUseChannel == Spec => UsesChannel
  BY ChannelIsUsed, TransmissionInvariant, PTL DEF Spec, Init, UsesChannel, ChannelSpec

(* So the hub, not only the channel by itself, implements the abstract     *)
(* floor: at most one transmitter, a member, changed by rank only.         *)
THEOREM HandlersImplementFloor == Spec => ImplementsFloor
  BY HandlersUseChannel, Refinement DEF UsesChannel

----------------------------------------------------------------------------
(* Clients of one rank, and no time-out timer: only its holder gives the   *)
(* floor up.  The violation run transmission_late_grant shows that the     *)
(* ranks are needed for LastWordIsTrue.                                    *)
Flat == ~TOTEnabled /\ \A r, s \in Role : RolePriority(r) = RolePriority(s)

(* What one client's handler knows of the floor between its sections. *)
KnowsFloor(c) ==
    /\ pc[c] \notin {"endPreempted", "tellPreempted"}
    /\ pc[c] \in {"startTX", "tellGranted", "sayBusy", "append", "forward"} => activeSpeaker = c
    /\ pc[c] = "tellDenied" => activeSpeaker # c
    /\ told[c] => activeSpeaker = c \/ pc[c] \in Untuned
    /\ activeSpeaker = c => told[c] \/ pc[c] \in {"startTX", "tellGranted"}
    /\ activeSpeaker = c /\ tx # NoTX => tx.speaker = c \/ pc[c] = "startTX"

(* A free channel that is shown as busy has a handler on its way to say    *)
(* that it is idle.                                                        *)
IdleFollows ==
    activity /\ activeSpeaker = NoClient =>
        \E c \in Client : pc[c] \in {"endTX", "addNote", "sayIdle", "leave"}

NoTimerRuns == expiry = NoExpiry /\ \A t \in Timer : timer[t] = "idle"

FlatInv ==
    /\ TransmissionInv /\ NoTimerRuns
    /\ \A c \in Client : KnowsFloor(c)
    /\ RecordingIsOfSpeaker /\ IdleFollows

(* What a client and its goroutine do, without preemption. *)
StepOf(d) ==
    \/ Arrive(d) \/ Depart(d) \/ PTTDownDenied(d) \/ PTTUp(d) \/ AudioFrame(d)
    \/ PTTDownGranted(d) /\ (KeepFloor(d) \/ GrantFloor(d)) /\ Goto(d, "startTX")
    \/ StartTX(d) \/ TellGranted(d) \/ SayBusy(d) \/ TellDenied(d) \/ EndTX(d) \/ AddNote(d)
    \/ SayIdle(d) \/ AppendFrame(d) \/ ForwardFrame(d)
    \/ \E r \in Role : Identify(d, r)

(* Nobody outranks anybody, and no timer fires. *)
LEMMA FlatSteps ==
  ASSUME Flat, FlatInv, [Next]_vars
  PROVE  (\E d \in Client : StepOf(d)) \/ UNCHANGED vars
<1>1. ASSUME NEW d \in Client PROVE ~PreemptFloor(d)
  <2> SUFFICES ASSUME PreemptFloor(d) PROVE FALSE
    OBVIOUS
  <2>1. activeSpeaker \in Client /\ role[d] \in Role /\ role[activeSpeaker] \in Role /\ d # NoClient
    BY ChannelAssumption DEF PreemptFloor, Busy, FlatInv, TransmissionInv, ChannelInv, ChannelTypeOK
  <2>2. getPriority(d) = RolePriority(role[d]) /\ getPriority(activeSpeaker) = RolePriority(role[activeSpeaker])
    BY <2>1, ChannelAssumption DEF getPriority
  <2>3. RolePriority(role[d]) = RolePriority(role[activeSpeaker])
    BY <2>1 DEF Flat
  <2>4. RolePriority(role[d]) \in Nat
    BY DEF RolePriority
  <2> QED
    BY <2>2, <2>3, <2>4 DEF PreemptFloor
<1>2. ~\E t \in Timer : Expire(t) \/ TimeOut(t)
  BY DEF FlatInv, NoTimerRuns, Expire, TimeOut, FireTOT, handleTOT
<1>3. ~Callback
  BY NoExpiryIsRest DEF FlatInv, NoTimerRuns, Callback, TOTEndTX, TOTTell, TOTSayIdle
<1>4. ASSUME NEW d \in Client, PTTDownGranted(d) PROVE StepOf(d)
  BY <1>1, <1>4 DEF PTTDownGranted, StepOf
<1>5. ASSUME NEW d \in Client, Handler(d) PROVE StepOf(d)
  BY <1>5 DEF Handler, EndPreempted, TellPreempted, FlatInv, KnowsFloor, StepOf
<1> QED
  BY <1>2, <1>3, <1>4, <1>5 DEF Next, StepOf

(* Without time-outs restartTOT starts nothing. *)
LEMMA TimersStayIdle ==
  ASSUME Flat, FlatInv, [Next]_vars
  PROVE  NoTimerRuns'
<1>0. expiry = NoExpiry /\ \A t \in Timer : timer[t] = "idle"
  BY DEF FlatInv, NoTimerRuns
<1>1. ASSUME cancelTOT PROVE \A t \in Timer : timer'[t] = "idle"
  BY <1>0, <1>1 DEF cancelTOT, Stopped
<1>2. ASSUME restartTOT PROVE \A t \in Timer : timer'[t] = "idle"
  BY <1>1, <1>2 DEF restartTOT, Flat
<1>3. ASSUME NEW d \in Client, StepOf(d) PROVE expiry' = expiry
  BY <1>3 DEF StepOf, Arrive, Depart, PTTDownDenied, PTTUp, AudioFrame, PTTDownGranted, StartTX,
        TellGranted, SayBusy, TellDenied, EndTX, AddNote, SayIdle, AppendFrame, ForwardFrame, Identify,
        hubVars
<1>4. ASSUME NEW d \in Client, StepOf(d) PROVE timer' = timer \/ cancelTOT \/ restartTOT
  <2>1. CASE Depart(d) \/ PTTUp(d)
    BY <2>1 DEF Depart, PTTUp, RemoveSubscriber, ReleaseFloor, clearFloor, channelVars
  <2>2. CASE PTTDownGranted(d) /\ (KeepFloor(d) \/ GrantFloor(d))
    BY <2>2 DEF KeepFloor, GrantFloor, channelVars
  <2>3. CASE Arrive(d) \/ PTTDownDenied(d) \/ \E r \in Role : Identify(d, r)
    BY <2>3 DEF Arrive, AddSubscriber, PTTDownDenied, DenyFloor, Identify, SetRole, channelVars
  <2>4. CASE \/ AudioFrame(d) \/ StartTX(d) \/ TellGranted(d) \/ SayBusy(d) \/ TellDenied(d)
             \/ EndTX(d) \/ AddNote(d) \/ SayIdle(d) \/ AppendFrame(d) \/ ForwardFrame(d)
    BY <2>4 DEF AudioFrame, StartTX, TellGranted, SayBusy, TellDenied, EndTX, AddNote, SayIdle,
                AppendFrame, ForwardFrame, channelVars
  <2> QED
    BY <1>4, <2>1, <2>2, <2>3, <2>4 DEF StepOf
<1>5. CASE UNCHANGED vars
  BY <1>0, <1>5 DEF vars, hubVars, channelVars, NoTimerRuns
<1>6. CASE \E d \in Client : StepOf(d)
  BY <1>0, <1>1, <1>2, <1>3, <1>4, <1>6 DEF NoTimerRuns, NoExpiry
<1> QED
  BY <1>5, <1>6, FlatSteps

(* A step of one client does not change what another knows: the floor, its *)
(* buffer and what it was told are changed by its holder alone.            *)
LEMMA BystanderKnows ==
  ASSUME FlatInv, NEW d \in Client, StepOf(d), NEW c \in Client, c # d
  PROVE  KnowsFloor(c)'
<1>0. /\ pc \in [Client -> Step] /\ told \in [Client -> BOOLEAN] /\ KnowsFloor(c) /\ KnowsFloor(d)
      /\ c # NoClient /\ d # NoClient
      /\ tx \in [speaker : Client, sources : SUBSET Client] \cup {NoTX}
  BY ChannelAssumption DEF FlatInv, TransmissionInv, HandlerTypes
<1>1. pc'[c] = pc[c] /\ told'[c] = told[c]
  BY <1>0 DEF StepOf, Arrive, Depart, PTTDownDenied, PTTUp, AudioFrame, PTTDownGranted, StartTX,
        TellGranted, SayBusy, TellDenied, EndTX, AddNote, SayIdle, AppendFrame, ForwardFrame, Identify,
        hubVars, Goto, Tell
<1>2. activeSpeaker' = c <=> activeSpeaker = c
  <2>1. CASE Depart(d) \/ PTTUp(d)
    BY <1>0, <2>1 DEF Depart, PTTUp, RemoveSubscriber, ReleaseFloor, clearFloor, channelVars
  <2>2. CASE PTTDownGranted(d) /\ (KeepFloor(d) \/ GrantFloor(d))
    <3>1. isBusy <=> activeSpeaker # NoClient
      BY DEF FlatInv, TransmissionInv, ChannelInv, SpeakerIsTuned
    <3> QED
      BY <1>0, <2>2, <3>1 DEF KeepFloor, GrantFloor, Busy, channelVars
  <2>3. CASE Arrive(d) \/ PTTDownDenied(d) \/ \E r \in Role : Identify(d, r)
    BY <2>3 DEF Arrive, AddSubscriber, PTTDownDenied, DenyFloor, Identify, SetRole, channelVars
  <2>4. CASE \/ AudioFrame(d) \/ StartTX(d) \/ TellGranted(d) \/ SayBusy(d) \/ TellDenied(d)
             \/ EndTX(d) \/ AddNote(d) \/ SayIdle(d) \/ AppendFrame(d) \/ ForwardFrame(d)
    BY <2>4 DEF AudioFrame, StartTX, TellGranted, SayBusy, TellDenied, EndTX, AddNote, SayIdle,
                AppendFrame, ForwardFrame, channelVars
  <2> QED
    BY <2>1, <2>2, <2>3, <2>4 DEF StepOf
<1>3. activeSpeaker = c /\ tx' # NoTX => tx # NoTX /\ tx'.speaker = tx.speaker
  <2>1. CASE StartTX(d) \/ AppendFrame(d)
    BY <1>0, <2>1 DEF StartTX, AppendFrame, KnowsFloor
  <2>2. CASE EndTX(d)
    BY <2>2 DEF EndTX, OnTransmissionEnd
  <2>3. CASE tx' = tx
    BY <2>3
  <2> QED
    BY <2>1, <2>2, <2>3 DEF StepOf, Arrive, Depart, PTTDownDenied, PTTUp, AudioFrame, PTTDownGranted,
          TellGranted, SayBusy, TellDenied, AddNote, SayIdle, ForwardFrame, Identify, hubVars
<1> QED
  BY <1>0, <1>1, <1>2, <1>3 DEF KnowsFloor

(* A client's own steps keep what its handler knows. *)
LEMMA ActorKnows ==
  ASSUME FlatInv, NEW d \in Client, StepOf(d)
  PROVE  KnowsFloor(d)'
<1>0. /\ pc \in [Client -> Step] /\ told \in [Client -> BOOLEAN] /\ KnowsFloor(d)
      /\ d # NoClient
      /\ tx \in [speaker : Client, sources : SUBSET Client] \cup {NoTX}
      /\ activeSpeaker = d => pc[d] \notin Untuned
  BY ChannelAssumption DEF FlatInv, TransmissionInv, HandlerTypes, ChannelInv, SpeakerIsTuned, Present
<1>1. CASE Arrive(d)
  BY <1>0, <1>1 DEF Arrive, AddSubscriber, Goto, Tell, KnowsFloor, Untuned
<1>2. CASE Depart(d)
  BY <1>0, <1>2 DEF Depart, RemoveSubscriber, clearFloor, Goto, KnowsFloor, Untuned
<1>3. CASE PTTDownDenied(d)
  BY <1>0, <1>3 DEF PTTDownDenied, DenyFloor, channelVars, Goto, KnowsFloor, Untuned
<1>4. CASE PTTUp(d)
  BY <1>0, <1>4 DEF PTTUp, ReleaseFloor, clearFloor, channelVars, Goto, Tell, KnowsFloor, Untuned
<1>5. CASE PTTDownGranted(d) /\ (KeepFloor(d) \/ GrantFloor(d)) /\ Goto(d, "startTX")
  BY <1>0, <1>5 DEF PTTDownGranted, KeepFloor, GrantFloor, channelVars, Goto, KnowsFloor, Untuned
<1>6. CASE StartTX(d)
  BY <1>0, <1>6 DEF StartTX, OnTransmissionStart, channelVars, Goto, KnowsFloor, Untuned
<1>7. CASE TellGranted(d) \/ SayBusy(d) \/ TellDenied(d)
  BY <1>0, <1>7 DEF TellGranted, SayBusy, TellDenied, channelVars, Goto, Tell, KnowsFloor, Untuned
<1>8. CASE EndTX(d) \/ AddNote(d) \/ SayIdle(d)
  BY <1>0, <1>8 DEF EndTX, AddNote, SayIdle, OnTransmissionEnd, channelVars, Goto, KnowsFloor, Untuned
<1>9. CASE AudioFrame(d) \/ ForwardFrame(d)
  BY <1>0, <1>9 DEF AudioFrame, ForwardFrame, IsFloorHolder, channelVars, Goto, KnowsFloor, Untuned
<1>10. CASE AppendFrame(d)
  <2>1. tx' # NoTX => tx # NoTX /\ tx'.speaker = tx.speaker
    BY <1>0, <1>10 DEF AppendFrame, AppendAudio
  <2> QED
    BY <1>0, <1>10, <2>1 DEF AppendFrame, channelVars, Goto, KnowsFloor, Untuned
<1>11. CASE \E r \in Role : Identify(d, r)
  BY <1>0, <1>11 DEF Identify, SetRole, hubVars, KnowsFloor, Untuned
<1> QED
  BY <1>1, <1>2, <1>3, <1>4, <1>5, <1>6, <1>7, <1>8, <1>9, <1>10, <1>11 DEF StepOf

(* Packets go into the buffer of the client that sent them. *)
LEMMA RecordingKept ==
  ASSUME FlatInv, NEW d \in Client, StepOf(d)
  PROVE  RecordingIsOfSpeaker'
<1>0. /\ RecordingIsOfSpeaker /\ KnowsFloor(d)
      /\ tx \in [speaker : Client, sources : SUBSET Client] \cup {NoTX}
  BY DEF FlatInv, TransmissionInv, HandlerTypes
<1>1. CASE AppendFrame(d)
  <2>1. tx # NoTX => tx.speaker = d
    BY <1>0, <1>1 DEF AppendFrame, KnowsFloor
  <2>2. CASE tx = NoTX
    BY <1>1, <2>2 DEF AppendFrame, AppendAudio, RecordingIsOfSpeaker
  <2>3. CASE tx # NoTX
    <3>1. tx'.speaker = d /\ tx'.sources = tx.sources \cup {d}
      BY <1>0, <1>1, <2>1, <2>3 DEF AppendFrame, AppendAudio
    <3> QED
      BY <1>0, <2>1, <2>3, <3>1 DEF RecordingIsOfSpeaker
  <2> QED
    BY <2>2, <2>3
<1>2. CASE StartTX(d)
  BY <1>2 DEF StartTX, OnTransmissionStart, RecordingIsOfSpeaker
<1>3. CASE EndTX(d)
  BY <1>3 DEF EndTX, OnTransmissionEnd, RecordingIsOfSpeaker
<1>4. CASE tx' = tx
  BY <1>0, <1>4 DEF RecordingIsOfSpeaker
<1> QED
  BY <1>1, <1>2, <1>3, <1>4 DEF StepOf, Arrive, Depart, PTTDownDenied, PTTUp, AudioFrame,
        PTTDownGranted, TellGranted, SayBusy, TellDenied, AddNote, SayIdle, ForwardFrame, Identify, hubVars

(* Whoever gives the floor up is on its way to say so. *)
LEMMA IdleKept ==
  ASSUME FlatInv, NEW d \in Client, StepOf(d)
  PROVE  IdleFollows'
<1> DEFINE Ending == {"endTX", "addNote", "sayIdle", "leave"}
<1>0. /\ pc \in [Client -> Step] /\ IdleFollows /\ KnowsFloor(d) /\ d # NoClient
  BY ChannelAssumption DEF FlatInv, TransmissionInv, HandlerTypes
<1>1. CASE activity' = FALSE
  BY <1>1 DEF IdleFollows
<1>2. CASE activeSpeaker' # NoClient
  BY <1>2 DEF IdleFollows
<1>3. CASE pc'[d] \in Ending
  BY <1>3 DEF IdleFollows
<1>4. ASSUME activity' = activity, activeSpeaker' = activeSpeaker, pc[d] \notin Ending,
             \A c \in Client \ {d} : pc'[c] = pc[c]
      PROVE  IdleFollows'
  BY <1>0, <1>4 DEF IdleFollows
<1>5. CASE Depart(d) \/ PTTUp(d)
  BY <1>0, <1>3, <1>4, <1>5 DEF Depart, PTTUp, RemoveSubscriber, ReleaseFloor, channelVars, Goto
<1>6. CASE PTTDownGranted(d) /\ (KeepFloor(d) \/ GrantFloor(d))
  BY <1>0, <1>2, <1>6 DEF KeepFloor, GrantFloor, Busy, channelVars
<1>7. CASE Arrive(d) \/ PTTDownDenied(d) \/ \E r \in Role : Identify(d, r)
  BY <1>0, <1>4, <1>7 DEF Arrive, AddSubscriber, PTTDownDenied, DenyFloor, Identify, SetRole,
        channelVars, hubVars, Goto
<1>8. CASE AudioFrame(d) \/ StartTX(d) \/ TellGranted(d) \/ TellDenied(d) \/ AppendFrame(d) \/ ForwardFrame(d)
  BY <1>0, <1>4, <1>8 DEF AudioFrame, StartTX, TellGranted, TellDenied, AppendFrame, ForwardFrame,
        channelVars, Goto
<1>9. CASE SayBusy(d)
  BY <1>0, <1>2, <1>9 DEF SayBusy, KnowsFloor, channelVars
<1>10. CASE EndTX(d) \/ AddNote(d)
  BY <1>0, <1>3, <1>10 DEF EndTX, AddNote, Goto
<1>11. CASE SayIdle(d)
  BY <1>1, <1>11 DEF SayIdle
<1> QED
  BY <1>5, <1>6, <1>7, <1>8, <1>9, <1>10, <1>11 DEF StepOf

(* In every reachable state of a flat channel FlatInv holds. *)
THEOREM FlatInvariant == ASSUME Flat PROVE Spec => []FlatInv
<1>1. Init => FlatInv
  <2> SUFFICES ASSUME Init PROVE FlatInv
    OBVIOUS
  <2>1. \A c \in Client : KnowsFloor(c)
    BY ChannelAssumption DEF Init, ChannelInit, KnowsFloor
  <2> QED
    BY <2>1, HandlersStart DEF Init, ChannelInit, FlatInv, NoTimerRuns, RecordingIsOfSpeaker, IdleFollows
<1>2. FlatInv /\ TransmissionInv' /\ [Next]_vars => FlatInv'
  <2> SUFFICES ASSUME FlatInv, TransmissionInv', [Next]_vars PROVE FlatInv'
    OBVIOUS
  <2>1. NoTimerRuns'
    BY TimersStayIdle
  <2>2. ASSUME NEW d \in Client, StepOf(d) PROVE FlatInv'
    <3>1. \A c \in Client : KnowsFloor(c)'
      BY <2>2, BystanderKnows, ActorKnows
    <3> QED
      BY <2>1, <2>2, <3>1, RecordingKept, IdleKept DEF FlatInv
  <2>3. CASE UNCHANGED vars
    <3>1. \A c \in Client : KnowsFloor(c)'
      BY <2>3 DEF FlatInv, KnowsFloor, vars, hubVars, channelVars
    <3>2. RecordingIsOfSpeaker' /\ IdleFollows'
      BY <2>3 DEF FlatInv, RecordingIsOfSpeaker, IdleFollows, vars, hubVars, channelVars
    <3> QED
      BY <2>1, <3>1, <3>2 DEF FlatInv
  <2> QED
    BY <2>2, <2>3, FlatSteps
<1> QED
  BY <1>1, <1>2, TransmissionInvariant, PTL DEF Spec

(* When all handlers are done, exactly the client last told "granted" has  *)
(* the floor: handlePTTDown answers after the lock is given back.          *)
THEOREM LastWordHolds == ASSUME Flat PROVE Spec => []LastWordIsTrue
<1>1. FlatInv => LastWordIsTrue
  <2> SUFFICES ASSUME FlatInv, Quiet, NEW c \in Subscribers PROVE told[c] <=> IsFloorHolder(c)
    BY DEF LastWordIsTrue
  <2>1. /\ c \in Client /\ pc[c] = "read" /\ KnowsFloor(c) /\ c # NoClient
        /\ isBusy <=> activeSpeaker # NoClient
    BY ChannelAssumption DEF FlatInv, TransmissionInv, ChannelInv, ChannelTypeOK, SpeakerIsTuned,
                             Present, Untuned, Quiet
  <2> QED
    BY <2>1 DEF KnowsFloor, IsFloorHolder, Untuned
<1> QED
  BY <1>1, FlatInvariant, PTL

(* A recording has the audio of its speaker only, although handlePTTUp     *)
(* ends the buffer of the channel and not its own.                         *)
THEOREM RecordingsArePure == ASSUME Flat PROVE Spec => []RecordingIsOfSpeaker
<1>1. FlatInv => RecordingIsOfSpeaker
  BY DEF FlatInv
<1> QED
  BY <1>1, FlatInvariant, PTL

(* A free channel does not stay shown as busy, in whatever order the       *)
(* broadcasts of handlePTTDown, handlePTTUp and departures go out.         *)
THEOREM NoBusyGhost == ASSUME Flat PROVE Spec => []NoPhantomBusy
<1>1. FlatInv => NoPhantomBusy
  <2> SUFFICES ASSUME FlatInv, Quiet, ~Busy PROVE ~activity
    BY DEF NoPhantomBusy
  <2>1. activeSpeaker = NoClient
    BY DEF FlatInv, TransmissionInv, ChannelInv, SpeakerIsTuned, Busy
  <2>2. \A c \in Client : pc[c] \notin {"endTX", "addNote", "sayIdle", "leave"}
    BY DEF Quiet
  <2> QED
    BY <2>1, <2>2 DEF FlatInv, IdleFollows
<1> QED
  BY <1>1, FlatInvariant, PTL
=============================================================================
