----------------------------- MODULE HubProofs -----------------------------
(***************************************************************************)
(* Proofs about Hub, for any number of clients, channels, passwords and    *)
(* messages: a client is tuned to one channel at most, the video call of a *)
(* channel belongs to a client that is there, a private channel is heard   *)
(* by those that knew its password, and no text is missed.                 *)
(***************************************************************************)
EXTENDS Hub, SequenceTheorems, TLAPS

(* The steps in which a client is on no channel. *)
Away == {"off", "subscribe", "seeVideo", "dropVideo", "tune"}

RequestArgs == [id : channels \cup {NoChannel}, pw : Password \cup {NoPassword}]

Tables ==
    /\ channels \subseteq ChannelId /\ 1 \in channels
    /\ CurrentChannelID \in [Client -> channels]
    /\ Subscribers \in [ChannelId -> SUBSET Client]
    /\ activeVideoByChannel \in [ChannelId -> Client \cup {NoClient}]
    /\ pc \in [Client -> Step]
    /\ args \in [Client -> RequestArgs]
    /\ \A c \in Client : pc[c] = "tune" => args[c].id # NoChannel

(* A client on its way to a private channel has given its password; a new  *)
(* client starts on the first channel, which is public.                    *)
PasswordsGiven ==
    /\ password[1] = NoPassword
    /\ \A c \in Client : pc[c] = "subscribe" => CurrentChannelID[c] = 1
    /\ \A c \in Client : pc[c] \in {"unsubscribe", "seeVideo", "dropVideo", "tune"} =>
          LET n == args[c].id
          IN  n # NoChannel /\ password[n] # NoPassword => args[c].pw = password[n]

(* A message is on its way while its sender's handler broadcasts it, to    *)
(* the channel of its sender, and its number is used once.                 *)
AnyMessage == {"text", "voice"} \X Nat

OnItsWay ==
    /\ sent \in Nat
    /\ chatHistory \in [ChannelId -> Seq(AnyMessage)]
    /\ msg \in [Client -> AnyMessage \cup {NoMessage}]
    /\ got \in [Client -> SUBSET AnyMessage]
    /\ \A c \in Client :
          /\ pc[c] \in {"castChat", "castVoice", "noteVoice"} => msg[c] # NoMessage
          /\ pc[c] \notin {"castChat", "castVoice", "noteVoice"} => msg[c] = NoMessage
          /\ pc[c] \in {"castVoice", "noteVoice"} => msg[c][1] = "voice"
          /\ msg[c][2] <= sent
    /\ \A n \in ChannelId : \A m \in Contents(chatHistory[n]) :
          /\ m[2] <= sent
          /\ m[1] = "text" => \A c \in Client : msg[c] = m => n = CurrentChannelID[c]

(* The clients, passwords and messages there are; with the tables and what *)
(* is on its way, the types of the hub.                                    *)
Contained ==
    /\ clients \subseteq Client
    /\ \A n \in channels : password[n] \in Password \cup {NoPassword}
    /\ chatHistory \in [ChannelId -> Seq(Message)]
    /\ msg \in [Client -> Message \cup {NoMessage}]
    /\ sent \in 0..MaxMessages
    /\ got \in [Client -> SUBSET Message]

Registry == Tables /\ TunedToOne
HubInv == Registry /\ VideoSenderIsPresent
            /\ PasswordsGiven /\ PrivateNeedsPassword /\ OnItsWay /\ NoChatGap

----------------------------------------------------------------------------
(* The first channel is one of the configuration's.                        *)
LEMMA OneIsAChannel == HubAssumption => /\ 1 \in 1..DefaultChannels
                                        /\ 1..DefaultChannels \subseteq ChannelId
  BY DEF HubAssumption, ChannelId

(* A channel identifier is never NoChannel. *)
LEMMA ZeroIsNoChannel == NoChannel \notin ChannelId
  BY DEF NoChannel, ChannelId

(* The registry's tables keep their shape. *)
LEMMA TablesStep ==
  ASSUME Tables, [Next]_vars
  PROVE  Tables'
<1> USE ZeroIsNoChannel DEF Tables, RequestArgs, channels, registry
<1>1. ASSUME NEW c \in Client, RegisterClient(c) \/ UnregisterClient(c) PROVE Tables'
  <2>1. CASE RegisterClient(c)
    BY <2>1 DEF RegisterClient, Goto, Step
  <2>2. CASE UnregisterClient(c)
    BY <2>2 DEF UnregisterClient, Goto, Step
  <2> QED
    BY <1>1, <2>1, <2>2
<1>2. ASSUME NEW c \in Client, NEW n \in ChannelId, NEW pw \in Password \cup {NoPassword},
             SwitchChannel(c, n, pw)
      PROVE  Tables'
  BY <1>2 DEF SwitchChannel, Goto, Step
<1>3. ASSUME NEW c \in Client, NEW pw \in Password \cup {NoPassword}, CreateChannel(c, pw)
      PROVE  Tables'
  <2>1. PICK n \in ChannelId :
            /\ password' = [i \in channels \cup {n} |-> IF i = n THEN pw ELSE password[i]]
            /\ args' = [args EXCEPT ![c] = [id |-> n, pw |-> pw]]
    BY <1>3 DEF CreateChannel, FreeIds
  <2>2. channels' = channels \cup {n}
    BY <2>1
  <2>3. args' \in [Client -> RequestArgs']
    BY <2>1, <2>2
  <2>4. pc' = [pc EXCEPT ![c] = "unsubscribe"]
        /\ UNCHANGED <<CurrentChannelID, Subscribers, activeVideoByChannel>>
    BY <1>3 DEF CreateChannel, Goto
  <2>5. \A d \in Client : pc'[d] = "tune" => d # c /\ args'[d] = args[d]
    BY <2>1, <2>4
  <2>6. CurrentChannelID' \in [Client -> channels']
    BY <2>2, <2>4
  <2>7. pc' \in [Client -> Step]
    BY <2>4 DEF Step
  <2>8. channels' \subseteq ChannelId /\ 1 \in channels'
    BY <2>2
  <2>9. \A d \in Client : pc'[d] = "tune" => args'[d].id # NoChannel
    BY <2>4, <2>5
  <2> QED
    BY <2>3, <2>4, <2>6, <2>7, <2>8, <2>9
<1>4. ASSUME NEW c \in Client, ChatMessage(c) \/ VoiceMessage(c) PROVE Tables'
  BY <1>4 DEF ChatMessage, VoiceMessage, Goto, Step
<1>5. ASSUME NEW c \in Client, VideoCallStart(c) \/ VideoCallEnd(c) PROVE Tables'
  BY <1>5 DEF VideoCallStart, VideoCallEnd
<1>6. ASSUME NEW c \in Client, Subscribe(c) \/ SendHistory(c) \/ RemoveSubscriber(c)
      PROVE  Tables'
  <2>1. CurrentChannelID[c] \in ChannelId
    OBVIOUS
  <2>2. Subscribers' \in [ChannelId -> SUBSET Client]
    <3>1. CASE Subscribe(c)
      BY <2>1, <3>1 DEF Subscribe, AddSubscriber
    <3>2. CASE SendHistory(c)
      BY <3>2 DEF SendHistory
    <3>3. CASE RemoveSubscriber(c)
      BY <2>1, <3>3 DEF RemoveSubscriber
    <3> QED
      BY <1>6, <3>1, <3>2, <3>3
  <2>3. /\ UNCHANGED <<password, CurrentChannelID, activeVideoByChannel, args>>
        /\ \E step \in {"sync", "read", "seeVideo"} : pc' = [pc EXCEPT ![c] = step]
    BY <1>6 DEF Subscribe, AddSubscriber, SendHistory, RemoveSubscriber, Goto
  <2> QED
    BY <2>2, <2>3 DEF Step
<1>7. ASSUME NEW c \in Client, SeeVideo(c) \/ DropVideo(c) PROVE Tables'
  BY <1>7 DEF SeeVideo, DropVideo, AfterVideo, Goto, Step
<1>8. ASSUME NEW c \in Client, Tune(c) PROVE Tables'
  BY <1>8 DEF Tune, AddSubscriber, Goto, Step
<1>9. ASSUME NEW c \in Client, BroadcastChat(c) \/ BroadcastVoice(c) \/ NoteVoice(c)
      PROVE  Tables'
  BY <1>9 DEF BroadcastChat, BroadcastVoice, NoteVoice, Goto, Step
<1>10. ASSUME UNCHANGED vars PROVE Tables'
  BY <1>10 DEF vars
<1> QED
  BY <1>1, <1>2, <1>3, <1>4, <1>5, <1>6, <1>7, <1>8, <1>9, <1>10 DEF Next, Request, Handler

(* The tables, and where everybody is tuned. *)
LEMMA TunedStep ==
  ASSUME Registry, [Next]_vars
  PROVE  TunedToOne'
<1> USE ZeroIsNoChannel DEF Registry, Tables, registry
<1>0. \A c \in Client : CurrentChannelID[c] \in ChannelId
  OBVIOUS
<1>1. ASSUME NEW c \in Client, NEW step \in Step, Goto(c, step),
             UNCHANGED <<CurrentChannelID, Subscribers>>, pc[c] \in Away <=> step \in Away
      PROVE  TunedToOne'
  BY <1>1 DEF Goto, TunedToOne, Away
<1>2. ASSUME NEW c \in Client, RegisterClient(c) PROVE TunedToOne'
  BY <1>2 DEF RegisterClient, Goto, TunedToOne
<1>3. ASSUME NEW c \in Client, UnregisterClient(c) PROVE TunedToOne'
  BY <1>1, <1>3 DEF UnregisterClient, Away, Step
<1>4. ASSUME NEW c \in Client, NEW n \in ChannelId, NEW pw \in Password \cup {NoPassword},
             SwitchChannel(c, n, pw)
      PROVE  TunedToOne'
  BY <1>1, <1>4 DEF SwitchChannel, Away, Step
<1>5. ASSUME NEW c \in Client, NEW pw \in Password \cup {NoPassword}, CreateChannel(c, pw)
      PROVE  TunedToOne'
  BY <1>1, <1>5 DEF CreateChannel, Away, Step
<1>6. ASSUME NEW c \in Client, ChatMessage(c) \/ VoiceMessage(c) PROVE TunedToOne'
  BY <1>1, <1>6 DEF ChatMessage, VoiceMessage, Away, Step
<1>7. ASSUME NEW c \in Client, VideoCallStart(c) \/ VideoCallEnd(c) PROVE TunedToOne'
  BY <1>7 DEF VideoCallStart, VideoCallEnd, TunedToOne
<1>8. ASSUME NEW c \in Client, NEW n \in ChannelId, pc[c] \in Away, AddSubscriber(c, n),
             CurrentChannelID' = [CurrentChannelID EXCEPT ![c] = n]
      PROVE  TunedToOne'
  <2>1. /\ Subscribers' = [Subscribers EXCEPT ![n] = Subscribers[n] \cup {c}]
        /\ pc' = [pc EXCEPT ![c] = "sync"]
    BY <1>8 DEF AddSubscriber, Goto
  <2>2. \A d \in Client, k \in ChannelId :
           d \in Subscribers'[k] <=> d \in Subscribers[k] \/ (d = c /\ k = n)
    BY <2>1
  <2>3. \A k \in ChannelId : c \notin Subscribers[k]
    BY <1>8 DEF TunedToOne, Away
  <2>4. CurrentChannelID'[c] = n /\ pc'[c] = "sync"
    BY <1>8, <2>1
  <2>5. \A d \in Client \ {c} : CurrentChannelID'[d] = CurrentChannelID[d] /\ pc'[d] = pc[d]
    BY <1>8, <2>1
  <2> QED
    BY <2>2, <2>3, <2>4, <2>5 DEF TunedToOne
<1>9. ASSUME NEW c \in Client, Subscribe(c) PROVE TunedToOne'
  <2>1. CurrentChannelID' = [CurrentChannelID EXCEPT ![c] = CurrentChannelID[c]]
    BY <1>9 DEF Subscribe
  <2> QED
    BY <1>0, <1>8, <1>9, <2>1 DEF Subscribe, Away
<1>10. ASSUME NEW c \in Client, Tune(c) PROVE TunedToOne'
  <2>1. args[c].id \in ChannelId
    BY <1>10 DEF Tune, RequestArgs
  <2> QED
    BY <1>8, <1>10, <2>1 DEF Tune, Away
<1>11. ASSUME NEW c \in Client, SendHistory(c) PROVE TunedToOne'
  BY <1>1, <1>11 DEF SendHistory, Away, Step
<1>12. ASSUME NEW c \in Client, RemoveSubscriber(c) PROVE TunedToOne'
  <2> DEFINE n == CurrentChannelID[c]
  <2>1. /\ Subscribers' = [Subscribers EXCEPT ![n] = Subscribers[n] \ {c}]
        /\ pc' = [pc EXCEPT ![c] = "seeVideo"] /\ CurrentChannelID' = CurrentChannelID
    BY <1>12 DEF RemoveSubscriber, Goto
  <2>2. \A d \in Client, k \in ChannelId :
           d \in Subscribers'[k] <=> d \in Subscribers[k] /\ ~(d = c /\ k = n)
    BY <1>0, <2>1
  <2>3. \A k \in ChannelId : c \notin Subscribers'[k]
    BY <2>2 DEF TunedToOne
  <2>4. \A d \in Client \ {c} : pc'[d] = pc[d]
    BY <2>1
  <2>5. pc'[c] = "seeVideo"
    BY <2>1
  <2> QED
    BY <2>1, <2>2, <2>3, <2>4, <2>5 DEF TunedToOne
<1>13. ASSUME NEW c \in Client, SeeVideo(c) \/ DropVideo(c) PROVE TunedToOne'
  <2>1. AfterVideo(c) \in {"off", "tune"}
    BY DEF AfterVideo
  <2> QED
    BY <1>1, <1>13, <2>1 DEF SeeVideo, DropVideo, Away, Step
<1>14. ASSUME NEW c \in Client, BroadcastChat(c) \/ BroadcastVoice(c) \/ NoteVoice(c)
       PROVE  TunedToOne'
  BY <1>1, <1>14 DEF BroadcastChat, BroadcastVoice, NoteVoice, Away, Step
<1>15. ASSUME UNCHANGED vars PROVE TunedToOne'
  BY <1>15 DEF vars, TunedToOne
<1> QED
  BY <1>2, <1>3, <1>4, <1>5, <1>6, <1>7, <1>9, <1>10, <1>11, <1>12, <1>13, <1>14, <1>15
  DEF Next, Request, Handler

(* The video calls. *)
LEMMA VideoStep ==
  ASSUME Registry, VideoSenderIsPresent, TunedToOne', [Next]_vars
  PROVE  VideoSenderIsPresent'
<1> USE ZeroIsNoChannel, NoClientAssumption DEF Registry, Tables, registry
<1>0. \A c \in Client : CurrentChannelID[c] \in ChannelId
  OBVIOUS
(* A step of client c that leaves the others alone and keeps c a possible sender. *)
<1>1. ASSUME NEW c \in Client, NEW step \in Step, Goto(c, step),
             UNCHANGED <<CurrentChannelID, activeVideoByChannel>>,
             \/ Subscribers' = Subscribers
             \/ Subscribers' = [Subscribers EXCEPT ![CurrentChannelID[c]] = @ \ {c}],
             \/ pc[c] \notin {"seeVideo", "dropVideo"} /\ Subscribers' = Subscribers
             \/ step \in {"seeVideo", "dropVideo"}
      PROVE  VideoSenderIsPresent'
  BY <1>0, <1>1 DEF Goto, VideoSenderIsPresent, TunedToOne
<1>2. ASSUME NEW c \in Client, RegisterClient(c) PROVE VideoSenderIsPresent'
  <2>1. \A n \in ChannelId : activeVideoByChannel[n] # c
    BY <1>2 DEF RegisterClient, TunedToOne, VideoSenderIsPresent
  <2>2. \A d \in Client \ {c} : CurrentChannelID'[d] = CurrentChannelID[d] /\ pc'[d] = pc[d]
    BY <1>2 DEF RegisterClient, Goto
  <2>3. UNCHANGED <<Subscribers, activeVideoByChannel>>
    BY <1>2 DEF RegisterClient
  <2> QED
    BY <2>1, <2>2, <2>3 DEF VideoSenderIsPresent
<1>3. ASSUME NEW c \in Client, UnregisterClient(c) PROVE VideoSenderIsPresent'
  BY <1>1, <1>3 DEF UnregisterClient, Step
<1>4. ASSUME NEW c \in Client, NEW n \in ChannelId, NEW pw \in Password \cup {NoPassword},
             SwitchChannel(c, n, pw)
      PROVE  VideoSenderIsPresent'
  BY <1>1, <1>4 DEF SwitchChannel, Step
<1>5. ASSUME NEW c \in Client, NEW pw \in Password \cup {NoPassword}, CreateChannel(c, pw)
      PROVE  VideoSenderIsPresent'
  BY <1>1, <1>5 DEF CreateChannel, Step
<1>6. ASSUME NEW c \in Client, ChatMessage(c) \/ VoiceMessage(c) PROVE VideoSenderIsPresent'
  BY <1>1, <1>6 DEF ChatMessage, VoiceMessage, Step
<1>7. ASSUME NEW c \in Client, VideoCallStart(c) \/ VideoCallEnd(c) PROVE VideoSenderIsPresent'
  <2>1. c \in Subscribers[CurrentChannelID[c]]
    BY <1>0, <1>7 DEF VideoCallStart, VideoCallEnd, TunedToOne
  <2>2. \E d \in {c, NoClient} :
           activeVideoByChannel' = [activeVideoByChannel EXCEPT ![CurrentChannelID[c]] = d]
    BY <1>7 DEF VideoCallStart, VideoCallEnd
  <2>3. UNCHANGED <<CurrentChannelID, Subscribers, pc>>
    BY <1>7 DEF VideoCallStart, VideoCallEnd
  <2> QED
    BY <1>0, <2>1, <2>2, <2>3 DEF VideoSenderIsPresent
<1>8. ASSUME NEW c \in Client, NEW n \in ChannelId, pc[c] \in {"subscribe", "tune"},
             AddSubscriber(c, n), UNCHANGED activeVideoByChannel,
             CurrentChannelID' = [CurrentChannelID EXCEPT ![c] = n]
      PROVE  VideoSenderIsPresent'
  <2>1. \A k \in ChannelId : activeVideoByChannel[k] # c
    BY <1>8 DEF TunedToOne, VideoSenderIsPresent
  <2>2. \A d \in Client \ {c} : CurrentChannelID'[d] = CurrentChannelID[d] /\ pc'[d] = pc[d]
    BY <1>8 DEF AddSubscriber, Goto
  <2>3. \A k \in ChannelId : Subscribers[k] \subseteq Subscribers'[k]
    BY <1>8 DEF AddSubscriber
  <2> QED
    BY <1>8, <2>1, <2>2, <2>3 DEF VideoSenderIsPresent
<1>9. ASSUME NEW c \in Client, Subscribe(c) PROVE VideoSenderIsPresent'
  <2>1. CurrentChannelID' = [CurrentChannelID EXCEPT ![c] = CurrentChannelID[c]]
    BY <1>9 DEF Subscribe
  <2> QED
    BY <1>0, <1>8, <1>9, <2>1 DEF Subscribe
<1>10. ASSUME NEW c \in Client, Tune(c) PROVE VideoSenderIsPresent'
  <2>1. args[c].id \in ChannelId
    BY <1>10 DEF Tune, RequestArgs
  <2> QED
    BY <1>8, <1>10, <2>1 DEF Tune
<1>11. ASSUME NEW c \in Client, SendHistory(c) PROVE VideoSenderIsPresent'
  BY <1>1, <1>11 DEF SendHistory, Step
<1>12. ASSUME NEW c \in Client, RemoveSubscriber(c) PROVE VideoSenderIsPresent'
  BY <1>1, <1>12 DEF RemoveSubscriber, Step
<1>13. ASSUME NEW c \in Client, SeeVideo(c) \/ DropVideo(c) PROVE VideoSenderIsPresent'
  <2> DEFINE n == CurrentChannelID[c]
  <2>1. \A k \in ChannelId \ {n} : activeVideoByChannel[k] # c
    BY <1>13 DEF SeeVideo, DropVideo, VideoSenderIsPresent, TunedToOne
  <2>2. UNCHANGED <<CurrentChannelID, Subscribers>> /\ \A d \in Client \ {c} : pc'[d] = pc[d]
    BY <1>13 DEF SeeVideo, DropVideo, Goto
  <2>3. \/ activeVideoByChannel' = activeVideoByChannel /\ activeVideoByChannel[n] # c
        \/ activeVideoByChannel' = activeVideoByChannel /\ pc'[c] = "dropVideo"
        \/ activeVideoByChannel' = [activeVideoByChannel EXCEPT ![n] = NoClient]
    BY <1>13 DEF SeeVideo, DropVideo, Goto
  <2> QED
    BY <1>0, <2>1, <2>2, <2>3 DEF VideoSenderIsPresent
<1>14. ASSUME NEW c \in Client, BroadcastChat(c) \/ BroadcastVoice(c) \/ NoteVoice(c)
       PROVE  VideoSenderIsPresent'
  BY <1>1, <1>14 DEF BroadcastChat, BroadcastVoice, NoteVoice, Step
<1>15. ASSUME UNCHANGED vars PROVE VideoSenderIsPresent'
  BY <1>15 DEF vars, VideoSenderIsPresent
<1> QED
  BY <1>2, <1>3, <1>4, <1>5, <1>6, <1>7, <1>9, <1>10, <1>11, <1>12, <1>13, <1>14, <1>15
  DEF Next, Request, Handler

(* The passwords. *)
LEMMA PasswordStep ==
  ASSUME Registry, PasswordsGiven, PrivateNeedsPassword, TunedToOne', [Next]_vars
  PROVE  PasswordsGiven' /\ PrivateNeedsPassword'
<1> USE ZeroIsNoChannel DEF Registry, Tables, registry, channels
<1> DEFINE Goal == PasswordsGiven' /\ PrivateNeedsPassword'
<1>0. \A c \in Client : CurrentChannelID[c] \in ChannelId /\ args[c].id \in channels \cup {NoChannel}
  BY DEF RequestArgs
<1>1. ASSUME NEW c \in Client, NEW step \in Step, Goto(c, step),
             UNCHANGED <<password, CurrentChannelID, Subscribers, args>>, pc[c] # "unsubscribe",
             step \in {"dropVideo", "tune"} => pc[c] \in {"seeVideo", "dropVideo"},
             step \notin {"subscribe", "unsubscribe", "seeVideo"}
      PROVE  Goal
  <2>1. PasswordsGiven'
    BY <1>1 DEF Goto, PasswordsGiven
  <2>2. PrivateNeedsPassword'
    BY <1>1 DEF Goto, PrivateNeedsPassword
  <2> QED
    BY <2>1, <2>2
<1>2. ASSUME NEW c \in Client, RegisterClient(c) PROVE Goal
  <2>1. PasswordsGiven'
    BY <1>2 DEF RegisterClient, Goto, PasswordsGiven
  <2>2. \A n \in ChannelId : c \notin Subscribers[n]
    BY <1>2 DEF RegisterClient, TunedToOne
  <2>3. PrivateNeedsPassword'
    BY <1>2, <2>2 DEF RegisterClient, Goto, PrivateNeedsPassword
  <2> QED
    BY <2>1, <2>3
<1>3. ASSUME NEW c \in Client, UnregisterClient(c) PROVE Goal
  <2>1. args'[c].id = NoChannel
    BY <1>3 DEF UnregisterClient
  <2>2. /\ UNCHANGED <<password, CurrentChannelID, Subscribers>> /\ pc'[c] = "unsubscribe"
        /\ \A d \in Client \ {c} : args'[d] = args[d] /\ pc'[d] = pc[d]
    BY <1>3 DEF UnregisterClient, Goto
  <2> QED
    BY <2>1, <2>2 DEF PasswordsGiven, PrivateNeedsPassword
<1>4. ASSUME NEW c \in Client, NEW n \in ChannelId, NEW pw \in Password \cup {NoPassword},
             SwitchChannel(c, n, pw)
      PROVE  Goal
  <2>1. args'[c].id = n /\ args'[c].pw = pw /\ (password[n] # NoPassword => password[n] = pw)
    BY <1>4 DEF SwitchChannel
  <2>2. /\ UNCHANGED <<password, CurrentChannelID, Subscribers>> /\ pc'[c] = "unsubscribe"
        /\ \A d \in Client \ {c} : args'[d] = args[d] /\ pc'[d] = pc[d]
    BY <1>4 DEF SwitchChannel, Goto
  <2> QED
    BY <2>1, <2>2 DEF PasswordsGiven, PrivateNeedsPassword
<1>5. ASSUME NEW c \in Client, NEW pw \in Password \cup {NoPassword}, CreateChannel(c, pw)
      PROVE  Goal
  <2>1. PICK n \in ChannelId \ channels :
            /\ password' = [i \in channels \cup {n} |-> IF i = n THEN pw ELSE password[i]]
            /\ args' = [args EXCEPT ![c] = [id |-> n, pw |-> pw]]
    BY <1>5 DEF CreateChannel, FreeIds
  <2>2. /\ UNCHANGED <<CurrentChannelID, Subscribers>> /\ pc'[c] = "unsubscribe"
        /\ \A d \in Client \ {c} : args'[d] = args[d] /\ pc'[d] = pc[d]
    BY <1>5, <2>1 DEF CreateChannel, Goto
  <2>3. /\ channels' = channels \cup {n} /\ password'[n] = pw
        /\ \A k \in channels : k # n /\ password'[k] = password[k]
    BY <2>1
  <2>4. \A d \in Client : d \notin Subscribers[n]
    BY <2>1 DEF TunedToOne
  <2>5. args'[c].id = n /\ args'[c].pw = pw
    BY <2>1
  <2>6. PasswordsGiven'
    <3>1. ASSUME NEW d \in Client, pc'[d] \in {"unsubscribe", "seeVideo", "dropVideo", "tune"},
                 args'[d].id # NoChannel, password'[args'[d].id] # NoPassword
          PROVE  args'[d].pw = password'[args'[d].id]
      <4>1. CASE d = c
        BY <2>3, <2>5, <4>1
      <4>2. CASE d # c
        BY <1>0, <2>2, <2>3, <3>1, <4>2 DEF PasswordsGiven
      <4> QED
        BY <4>1, <4>2
    <3>2. password'[1] = NoPassword
      BY <2>3 DEF PasswordsGiven
    <3>3. \A d \in Client : pc'[d] = "subscribe" => CurrentChannelID'[d] = 1
      BY <2>2 DEF PasswordsGiven
    <3> QED
      BY <3>1, <3>2, <3>3 DEF PasswordsGiven
  <2>7. PrivateNeedsPassword'
    BY <2>2, <2>3, <2>4 DEF PrivateNeedsPassword
  <2> QED
    BY <2>6, <2>7
<1>6. ASSUME NEW c \in Client, ChatMessage(c) \/ VoiceMessage(c) PROVE Goal
  BY <1>1, <1>6 DEF ChatMessage, VoiceMessage, Step
<1>7. ASSUME NEW c \in Client, VideoCallStart(c) \/ VideoCallEnd(c) PROVE Goal
  BY <1>7 DEF VideoCallStart, VideoCallEnd, PasswordsGiven, PrivateNeedsPassword
<1>8. ASSUME NEW c \in Client, NEW n \in ChannelId, AddSubscriber(c, n), UNCHANGED <<password, args>>,
             \A d \in Client \ {c} : CurrentChannelID'[d] = CurrentChannelID[d],
             n \in channels /\ password[n] # NoPassword => args[c] = [id |-> n, pw |-> password[n]],
             \A k \in ChannelId : c \notin Subscribers[k]
      PROVE  Goal
  <2>1. /\ pc'[c] = "sync" /\ \A d \in Client \ {c} : pc'[d] = pc[d]
        /\ \A d \in Client, k \in ChannelId :
              d \in Subscribers'[k] <=> d \in Subscribers[k] \/ (d = c /\ k = n)
        /\ Subscribers' \in [ChannelId -> SUBSET Client]
    BY <1>8 DEF AddSubscriber, Goto
  <2>2. PasswordsGiven'
    BY <1>8, <2>1 DEF PasswordsGiven
  <2>3. ASSUME NEW k \in channels', NEW d \in Subscribers'[k], password'[k] # NoPassword,
               pc'[d] # "unsubscribe"
        PROVE  args'[d] = [id |-> k, pw |-> password'[k]]
    <3>1. CASE d = c
      BY <1>8, <2>1, <2>3, <3>1
    <3>2. CASE d # c
      BY <1>8, <2>1, <2>3, <3>2 DEF PrivateNeedsPassword
    <3> QED
      BY <3>1, <3>2
  <2> QED
    BY <2>2, <2>3 DEF PrivateNeedsPassword
<1>9. ASSUME NEW c \in Client, Subscribe(c) PROVE Goal
  <2>1. password[CurrentChannelID[c]] = NoPassword
    BY <1>9 DEF Subscribe, PasswordsGiven
  <2> QED
    BY <1>0, <1>8, <1>9, <2>1 DEF Subscribe, TunedToOne
<1>10. ASSUME NEW c \in Client, Tune(c) PROVE Goal
  <2> DEFINE n == args[c].id
  <2>1. n \in channels
    BY <1>0, <1>10 DEF Tune
  <2>2. password[n] # NoPassword => args[c].pw = password[n]
    BY <1>10, <2>1 DEF Tune, PasswordsGiven
  <2>3. args[c] = [id |-> n, pw |-> args[c].pw]
    BY DEF RequestArgs
  <2> QED
    BY <1>8, <1>10, <2>1, <2>2, <2>3 DEF Tune, TunedToOne
<1>11. ASSUME NEW c \in Client, SendHistory(c) PROVE Goal
  BY <1>1, <1>11 DEF SendHistory, Step
<1>12. ASSUME NEW c \in Client, RemoveSubscriber(c) PROVE Goal
  <2>1. /\ pc' = [pc EXCEPT ![c] = "seeVideo"] /\ UNCHANGED <<password, CurrentChannelID, args>>
        /\ Subscribers' = [Subscribers EXCEPT ![CurrentChannelID[c]] = @ \ {c}]
    BY <1>12 DEF RemoveSubscriber, Goto
  <2>2. PasswordsGiven'
    BY <1>12, <2>1 DEF PasswordsGiven, RemoveSubscriber
  <2>3. \A k \in ChannelId : Subscribers'[k] \subseteq Subscribers[k] /\ c \notin Subscribers'[k]
    BY <1>0, <2>1 DEF TunedToOne
  <2>4. PrivateNeedsPassword'
    BY <2>1, <2>3 DEF PrivateNeedsPassword
  <2> QED
    BY <2>2, <2>4
<1>13. ASSUME NEW c \in Client, SeeVideo(c) \/ DropVideo(c) PROVE Goal
  <2>1. AfterVideo(c) \in {"off", "tune"}
    BY DEF AfterVideo
  <2> QED
    BY <1>1, <1>13, <2>1 DEF SeeVideo, DropVideo, Step
<1>14. ASSUME NEW c \in Client, BroadcastChat(c) \/ BroadcastVoice(c) \/ NoteVoice(c)
       PROVE  Goal
  BY <1>1, <1>14 DEF BroadcastChat, BroadcastVoice, NoteVoice, Step
<1>15. ASSUME UNCHANGED vars PROVE Goal
  BY <1>15 DEF vars, PasswordsGiven, PrivateNeedsPassword
<1> QED
  BY <1>2, <1>3, <1>4, <1>5, <1>6, <1>7, <1>9, <1>10, <1>11, <1>12, <1>13, <1>14, <1>15
  DEF Next, Request, Handler

(* What Remember keeps: nothing but the old messages and the new one. *)
LEMMA RememberKeeps ==
  ASSUME NEW S, NEW seq \in Seq(S), NEW m \in S
  PROVE  Remember(seq, m) \in Seq(S) /\ Contents(Remember(seq, m)) \subseteq Contents(seq) \cup {m}
<1> DEFINE longer == Append(seq, m)
<1>1. longer \in Seq(S) /\ Contents(longer) \subseteq Contents(seq) \cup {m}
  BY DEF Contents
<1>2. CASE Len(longer) > HistoryLimit
  <2> DEFINE a == Len(longer) - HistoryLimit + 1
  <2>1. a \in 1..Len(longer) + 1
    BY <1>1, <1>2, HubAssumption DEF HubAssumption
  <2>2. SubSeq(longer, a, Len(longer)) \in Seq(S)
    BY <1>1, <2>1
  <2>3. Contents(SubSeq(longer, a, Len(longer))) \subseteq Contents(longer)
    <3>1. DOMAIN longer = 1..Len(longer)
      BY <1>1
    <3>2. \A i \in DOMAIN SubSeq(longer, a, Len(longer)) :
             a + i - 1 \in 1..Len(longer)
             /\ SubSeq(longer, a, Len(longer))[i] = longer[a + i - 1]
      BY <1>1, <2>1, SubSeqProperties
    <3> HIDE DEF longer
    <3> QED
      BY <3>1, <3>2 DEF Contents
  <2> QED
    BY <1>1, <1>2, <2>2, <2>3 DEF Remember
<1>3. CASE ~(Len(longer) > HistoryLimit)
  BY <1>1, <1>3 DEF Remember
<1> QED
  BY <1>2, <1>3

(* The messages: the one under way, and the ones remembered. *)
LEMMA MessagesStep ==
  ASSUME Registry, OnItsWay, NoChatGap, TunedToOne', [Next]_vars
  PROVE  OnItsWay' /\ NoChatGap'
<1> USE ZeroIsNoChannel DEF Registry, Tables, registry
<1> DEFINE Goal == OnItsWay' /\ NoChatGap'
           Casting == {"castChat", "castVoice", "noteVoice"}
<1>0. /\ \A c \in Client : CurrentChannelID[c] \in ChannelId
      /\ \A n \in ChannelId : \A m \in Contents(chatHistory[n]) : m \in AnyMessage
      /\ NoMessage \notin AnyMessage /\ NoMessage[2] = 0 /\ NoMessage[1] = "none"
      /\ \A m \in AnyMessage : m[2] \in Nat
  BY DEF OnItsWay, Contents, AnyMessage, NoMessage
(* Steps in which the messages rest. *)
<1>1. ASSUME NEW c \in Client, NEW step \in Step, Goto(c, step),
             UNCHANGED <<chatHistory, msg, sent, got>>,
             \A d \in Client \ {c} : CurrentChannelID'[d] = CurrentChannelID[d],
             pc[c] \notin Casting, step \notin Casting,
             step # "read" /\ (CurrentChannelID'[c] = CurrentChannelID[c] \/ msg[c] = NoMessage)
      PROVE  Goal
  <2>1. pc'[c] = step /\ \A d \in Client \ {c} : pc'[d] = pc[d]
    BY <1>1 DEF Goto
  <2>2. OnItsWay'
    BY <1>0, <1>1, <2>1 DEF OnItsWay
  <2>3. NoChatGap'
    BY <1>1, <2>1 DEF NoChatGap, TunedIn, MissedTexts
  <2> QED
    BY <2>2, <2>3
<1>2. ASSUME NEW c \in Client, RegisterClient(c) PROVE Goal
  BY <1>1, <1>2 DEF RegisterClient, OnItsWay, Step
<1>3. ASSUME NEW c \in Client, UnregisterClient(c) PROVE Goal
  BY <1>1, <1>3 DEF UnregisterClient, Step
<1>4. ASSUME NEW c \in Client, NEW n \in ChannelId, NEW pw \in Password \cup {NoPassword},
             SwitchChannel(c, n, pw)
      PROVE  Goal
  BY <1>1, <1>4 DEF SwitchChannel, Step
<1>5. ASSUME NEW c \in Client, NEW pw \in Password \cup {NoPassword}, CreateChannel(c, pw)
      PROVE  Goal
  BY <1>1, <1>5 DEF CreateChannel, Step
<1>6. ASSUME NEW c \in Client, Subscribe(c) \/ RemoveSubscriber(c) PROVE Goal
  <2>1. CASE Subscribe(c)
    BY <1>1, <2>1 DEF Subscribe, AddSubscriber, Step
  <2>2. CASE RemoveSubscriber(c)
    <3>1. /\ pc' = [pc EXCEPT ![c] = "seeVideo"] /\ got' = [got EXCEPT ![c] = {}]
          /\ UNCHANGED <<chatHistory, msg, sent, CurrentChannelID>>
      BY <2>2 DEF RemoveSubscriber, Goto
    <3>2. pc[c] = "unsubscribe"
      BY <2>2 DEF RemoveSubscriber
    <3>3. OnItsWay'
      BY <3>1, <3>2 DEF OnItsWay
    <3>4. NoChatGap'
      BY <3>1, <3>2 DEF NoChatGap, TunedIn, MissedTexts, OnItsWay
    <3> QED
      BY <3>3, <3>4
  <2> QED
    BY <1>6, <2>1, <2>2
<1>7. ASSUME NEW c \in Client, Tune(c) PROVE Goal
  BY <1>1, <1>7 DEF Tune, AddSubscriber, OnItsWay, Step
<1>8. ASSUME NEW c \in Client, SeeVideo(c) \/ DropVideo(c) PROVE Goal
  <2>1. AfterVideo(c) \in {"off", "tune"}
    BY DEF AfterVideo
  <2> QED
    BY <1>1, <1>8, <2>1 DEF SeeVideo, DropVideo, Step
<1>9. ASSUME NEW c \in Client, VideoCallStart(c) \/ VideoCallEnd(c) PROVE Goal
  <2>1. UNCHANGED <<CurrentChannelID, chatHistory, pc, msg, sent, got>>
    BY <1>9 DEF VideoCallStart, VideoCallEnd
  <2>2. OnItsWay'
    BY <2>1 DEF OnItsWay
  <2>3. NoChatGap'
    BY <2>1 DEF NoChatGap, TunedIn, MissedTexts
  <2> QED
    BY <2>2, <2>3
<1>10. ASSUME NEW c \in Client, SendHistory(c) PROVE Goal
  <2> DEFINE h == Contents(chatHistory[CurrentChannelID[c]])
  <2>1. /\ pc[c] = "sync" /\ pc' = [pc EXCEPT ![c] = "read"]
        /\ got' = [got EXCEPT ![c] = got[c] \cup h]
        /\ UNCHANGED <<CurrentChannelID, chatHistory, msg, sent>>
    BY <1>10 DEF SendHistory, Goto
  <2>2. h \subseteq AnyMessage
    BY <1>0
  <2>3. OnItsWay'
    <3>1. got' \in [Client -> SUBSET AnyMessage]
      BY <2>1, <2>2 DEF OnItsWay
    <3> QED
      BY <2>1, <3>1 DEF OnItsWay
  <2>4. h \subseteq got'[c] /\ \A d \in Client \ {c} : got'[d] = got[d] /\ pc'[d] = pc[d]
    BY <2>1 DEF OnItsWay
  <2>5. NoChatGap'
    BY <2>1, <2>4 DEF NoChatGap, TunedIn, MissedTexts
  <2> QED
    BY <2>3, <2>5
<1>11. ASSUME NEW c \in Client, NEW kind \in {"text", "voice"}, pc[c] = "read",
              msg' = [msg EXCEPT ![c] = <<kind, sent + 1>>], sent' = sent + 1,
              UNCHANGED <<CurrentChannelID, got>>,
              \/ kind = "text" /\ Goto(c, "castChat") /\ RememberMessage(c, <<"text", sent + 1>>)
              \/ kind = "voice" /\ Goto(c, "castVoice") /\ UNCHANGED chatHistory
       PROVE  Goal
  <2> DEFINE m == <<kind, sent + 1>>
             n == CurrentChannelID[c]
  <2>1. m \in AnyMessage /\ m # NoMessage /\ m[1] = kind /\ m[2] = sent + 1 /\ sent \in Nat
    BY <1>0 DEF AnyMessage, OnItsWay
  <2>2. /\ msg'[c] = m /\ \A d \in Client \ {c} : msg'[d] = msg[d] /\ pc'[d] = pc[d]
        /\ msg[c] = NoMessage /\ pc'[c] \in {"castChat", "castVoice"}
        /\ (pc'[c] = "castVoice" => kind = "voice")
    BY <1>11 DEF OnItsWay, Goto
  <2>3. /\ chatHistory' \in [ChannelId -> Seq(AnyMessage)]
        /\ \A k \in ChannelId :
              Contents(chatHistory'[k]) \subseteq
                  Contents(chatHistory[k]) \cup (IF k = n THEN {m} ELSE {})
    <3>1. CASE UNCHANGED chatHistory
      BY <3>1 DEF OnItsWay
    <3>2. CASE RememberMessage(c, m)
      <4> DEFINE r == Remember(chatHistory[n], m)
      <4>1. r \in Seq(AnyMessage) /\ Contents(r) \subseteq Contents(chatHistory[n]) \cup {m}
        <5>1. chatHistory[n] \in Seq(AnyMessage)
          BY <1>0 DEF OnItsWay
        <5> HIDE DEF m, n
        <5> QED
          BY <2>1, <5>1, RememberKeeps
      <4>2. chatHistory' = [chatHistory EXCEPT ![n] = r]
        BY <3>2 DEF RememberMessage
      <4> HIDE DEF r, m
      <4> QED
        BY <1>0, <4>1, <4>2 DEF OnItsWay
    <3> QED
      BY <1>11, <3>1, <3>2
  <2>4. \A d \in Client : msg[d] # m /\ msg[d][2] <= sent
    BY <2>1 DEF OnItsWay
  <2>5. \A k \in ChannelId : \A o \in Contents(chatHistory[k]) : o # m /\ o[2] <= sent
    BY <2>1 DEF OnItsWay
  <2>6. \A d \in Client : msg'[d][2] <= sent'
    <3>1. \A d \in Client : msg'[d] \in {m, msg[d]}
      BY <2>2
    <3>2. \A d \in Client : msg[d][2] \in Nat
      BY <1>0 DEF OnItsWay
    <3> QED
      BY <1>11, <2>1, <2>4, <3>1, <3>2
  <2>7. \A k \in ChannelId : \A o \in Contents(chatHistory'[k]) :
           o[2] <= sent' /\ (o[1] = "text" => \A d \in Client : msg'[d] = o => k = CurrentChannelID[d])
    <3> TAKE k \in ChannelId
    <3> TAKE o \in Contents(chatHistory'[k])
    <3>1. CASE o \in Contents(chatHistory[k])
      <4>1. o[2] \in Nat /\ o[2] <= sent /\ o # m
        BY <1>0, <2>5, <3>1 DEF AnyMessage
      <4>2. o[2] <= sent'
        BY <1>11, <2>1, <4>1
      <4>3. ASSUME o[1] = "text", NEW d \in Client, msg'[d] = o PROVE k = CurrentChannelID[d]
        <5>1. d # c /\ msg[d] = o
          BY <2>2, <4>1, <4>3
        <5> QED
          BY <3>1, <4>3, <5>1 DEF OnItsWay
      <4> QED
        BY <4>2, <4>3
    <3>2. CASE k = n /\ o = m
      <4>1. \A d \in Client : msg'[d] = o => d = c
        BY <2>2, <2>4, <3>2
      <4>2. o[2] <= sent'
        BY <1>11, <2>1, <3>2
      <4> QED
        BY <3>2, <4>1, <4>2
    <3> QED
      BY <2>3, <3>1, <3>2
  <2>8. OnItsWay'
    <3>1. msg' \in [Client -> AnyMessage \cup {NoMessage}] /\ sent' \in Nat
      BY <1>11, <2>1 DEF OnItsWay
    <3>2. ASSUME NEW d \in Client
          PROVE  /\ pc'[d] \in Casting => msg'[d] # NoMessage
                 /\ pc'[d] \notin Casting => msg'[d] = NoMessage
                 /\ pc'[d] \in {"castVoice", "noteVoice"} => msg'[d][1] = "voice"
      <4>1. CASE d # c
        <5>1. pc'[d] = pc[d] /\ msg'[d] = msg[d]
          BY <2>2, <4>1
        <5> QED
          BY <5>1 DEF OnItsWay
      <4>2. CASE d = c
        BY <2>1, <2>2, <4>2
      <4> QED
        BY <4>1, <4>2
    <3> QED
      BY <1>11, <2>3, <2>6, <2>7, <3>1, <3>2 DEF OnItsWay
  <2>9. NoChatGap'
    <3> SUFFICES ASSUME NEW d \in TunedIn',
                        NEW o \in Contents(chatHistory'[CurrentChannelID[d]]),
                        o[1] = "text", o \notin got[d]
                 PROVE  \E e \in Client : msg'[e] = o
      BY <1>11 DEF NoChatGap, MissedTexts
    <3>1. d \in TunedIn
      BY <1>11, <2>2 DEF TunedIn
    <3>2. CASE o \in Contents(chatHistory[CurrentChannelID[d]])
      <4>1. PICK e \in Client : msg[e] = o
        BY <3>1, <3>2 DEF NoChatGap, MissedTexts
      <4>2. e # c
        BY <1>0, <2>2, <3>2, <4>1 DEF TunedIn
      <4> QED
        BY <2>2, <4>1, <4>2
    <3>3. CASE o = m
      BY <2>2, <3>3
    <3> QED
      BY <1>0, <2>3, <3>1, <3>2, <3>3 DEF TunedIn
  <2> QED
    BY <2>8, <2>9
<1>12. ASSUME NEW c \in Client, ChatMessage(c) \/ VoiceMessage(c) PROVE Goal
  BY <1>11, <1>12 DEF ChatMessage, VoiceMessage, NewMessage
(* A broadcast reaches everybody who is tuned to the sender's channel. *)
<1>13. ASSUME NEW c \in Client, BroadcastSignal(CurrentChannelID[c], msg[c]), msg[c] \in AnyMessage,
              UNCHANGED <<CurrentChannelID, Subscribers, chatHistory, sent>>,
              \A d \in Client \ {c} : pc'[d] = pc[d] /\ msg'[d] = msg[d],
              msg' \in [Client -> AnyMessage \cup {NoMessage}],
              pc[c] \in {"castChat", "castVoice"},
              \/ pc'[c] = "read" /\ msg'[c] = NoMessage
              \/ pc[c] = "castVoice" /\ pc'[c] = "noteVoice" /\ msg'[c] = msg[c]
       PROVE  Goal
  <2>1. /\ got' \in [Client -> SUBSET AnyMessage]
        /\ \A d \in Client : got[d] \subseteq got'[d]
        /\ \A d \in Subscribers[CurrentChannelID[c]] : msg[c] \in got'[d]
    BY <1>0, <1>13 DEF BroadcastSignal, OnItsWay
  <2>2. OnItsWay'
    <3>1. \A d \in Client : msg'[d] \in {msg[d], NoMessage}
      BY <1>13
    <3>2. ASSUME NEW d \in Client PROVE msg'[d][2] <= sent
      <4>1. msg[d][2] <= sent /\ 0 <= sent
        BY DEF OnItsWay
      <4>2. msg'[d] = msg[d] \/ msg'[d] = NoMessage
        BY <3>1
      <4> QED
        BY <1>0, <4>1, <4>2
    <3>3. ASSUME NEW d \in Client
          PROVE  /\ pc'[d] \in Casting => msg'[d] # NoMessage
                 /\ pc'[d] \notin Casting => msg'[d] = NoMessage
                 /\ pc'[d] \in {"castVoice", "noteVoice"} => msg'[d][1] = "voice"
      <4>1. CASE d # c
        <5>1. pc'[d] = pc[d] /\ msg'[d] = msg[d]
          BY <1>13, <4>1
        <5> QED
          BY <5>1 DEF OnItsWay
      <4>2. CASE d = c /\ pc'[c] = "read" /\ msg'[c] = NoMessage
        BY <4>2
      <4>3. CASE d = c /\ pc[c] = "castVoice" /\ pc'[c] = "noteVoice" /\ msg'[c] = msg[c]
        BY <4>3 DEF OnItsWay
      <4> QED
        BY <1>13, <4>1, <4>2, <4>3
    <3>5. \A n \in ChannelId : \A m \in Contents(chatHistory[n]) :
             m[1] = "text" => \A d \in Client : msg'[d] = m => n = CurrentChannelID[d]
      BY <1>0, <3>1 DEF OnItsWay
    <3> QED
      BY <1>13, <2>1, <3>2, <3>3, <3>5 DEF OnItsWay
  <2>3. NoChatGap'
    <3> SUFFICES ASSUME NEW d \in TunedIn',
                        NEW o \in Contents(chatHistory[CurrentChannelID[d]]),
                        o[1] = "text", o \notin got'[d]
                 PROVE  \E e \in Client : msg'[e] = o
      BY <1>13 DEF NoChatGap, MissedTexts
    <3>1. d \in TunedIn /\ d \in Client
      BY <1>13 DEF TunedIn
    <3>2. PICK e \in Client : msg[e] = o
      BY <2>1, <3>1 DEF NoChatGap, MissedTexts
    <3>3. CurrentChannelID[d] = CurrentChannelID[e]
      BY <1>0, <3>1, <3>2 DEF OnItsWay
    <3>4. d \in Subscribers[CurrentChannelID[d]]
      BY <1>0, <1>13, <3>1 DEF TunedIn, TunedToOne
    <3>5. e # c
      BY <2>1, <3>2, <3>3, <3>4
    <3> QED
      BY <1>13, <3>2, <3>5
  <2> QED
    BY <2>2, <2>3
<1>14. ASSUME NEW c \in Client, BroadcastChat(c) \/ BroadcastVoice(c) PROVE Goal
  <2>1. \A step \in {"castChat", "castVoice"} : pc[c] = step => msg[c] \in AnyMessage
    BY DEF OnItsWay
  <2>2. CASE BroadcastChat(c)
    <3>1. /\ pc' = [pc EXCEPT ![c] = "read"] /\ msg' = [msg EXCEPT ![c] = NoMessage]
          /\ pc[c] = "castChat" /\ BroadcastSignal(CurrentChannelID[c], msg[c])
          /\ UNCHANGED <<CurrentChannelID, Subscribers, chatHistory, sent>>
      BY <2>2 DEF BroadcastChat, Goto
    <3>2. /\ pc'[c] = "read" /\ msg'[c] = NoMessage
          /\ msg' \in [Client -> AnyMessage \cup {NoMessage}]
          /\ \A d \in Client \ {c} : pc'[d] = pc[d] /\ msg'[d] = msg[d]
      BY <3>1 DEF OnItsWay
    <3> QED
      BY <1>13, <2>1, <3>1, <3>2
  <2>3. CASE BroadcastVoice(c)
    <3>1. /\ pc' = [pc EXCEPT ![c] = "noteVoice"] /\ msg' = msg
          /\ pc[c] = "castVoice" /\ BroadcastSignal(CurrentChannelID[c], msg[c])
          /\ UNCHANGED <<CurrentChannelID, Subscribers, chatHistory, sent>>
      BY <2>3 DEF BroadcastVoice, Goto
    <3>2. /\ pc'[c] = "noteVoice" /\ \A d \in Client \ {c} : pc'[d] = pc[d]
          /\ msg' \in [Client -> AnyMessage \cup {NoMessage}]
      BY <3>1 DEF OnItsWay
    <3> QED
      BY <1>13, <2>1, <3>1, <3>2
  <2> QED
    BY <1>14, <2>2, <2>3
<1>15. ASSUME NEW c \in Client, NoteVoice(c) PROVE Goal
  <2> DEFINE n == CurrentChannelID[c]
             r == Remember(chatHistory[n], msg[c])
  <2>1. /\ pc[c] = "noteVoice" /\ pc' = [pc EXCEPT ![c] = "read"]
        /\ msg' = [msg EXCEPT ![c] = NoMessage] /\ chatHistory' = [chatHistory EXCEPT ![n] = r]
        /\ UNCHANGED <<CurrentChannelID, sent, got>>
    BY <1>15 DEF NoteVoice, RememberMessage, Goto
  <2>2. msg[c] \in AnyMessage /\ msg[c][1] = "voice" /\ msg[c][2] <= sent
    BY <2>1 DEF OnItsWay
  <2>3. r \in Seq(AnyMessage) /\ Contents(r) \subseteq Contents(chatHistory[n]) \cup {msg[c]}
    BY <1>0, <2>2, RememberKeeps DEF OnItsWay
  <2> HIDE DEF r
  <2>4. /\ chatHistory' \in [ChannelId -> Seq(AnyMessage)]
        /\ \A k \in ChannelId :
              Contents(chatHistory'[k]) \subseteq Contents(chatHistory[k]) \cup {msg[c]}
    BY <1>0, <2>1, <2>3 DEF OnItsWay
  <2>5. /\ msg' \in [Client -> AnyMessage \cup {NoMessage}] /\ msg'[c] = NoMessage
        /\ pc'[c] = "read"
        /\ \A d \in Client \ {c} : pc'[d] = pc[d] /\ msg'[d] = msg[d]
    BY <2>1 DEF OnItsWay
  <2>6. \A k \in ChannelId : \A o \in Contents(chatHistory'[k]) :
           o[2] <= sent /\ (o[1] = "text" => \A d \in Client : msg'[d] = o => k = CurrentChannelID[d])
    <3> TAKE k \in ChannelId
    <3> TAKE o \in Contents(chatHistory'[k])
    <3>1. o[1] = "text" => o \in Contents(chatHistory[k])
      BY <2>2, <2>4
    <3>2. o[2] <= sent
      BY <2>2, <2>4 DEF OnItsWay
    <3>3. ASSUME o[1] = "text", NEW d \in Client, msg'[d] = o PROVE k = CurrentChannelID[d]
      BY <1>0, <2>5, <3>1, <3>3 DEF OnItsWay
    <3> QED
      BY <3>2, <3>3
  <2>7. ASSUME NEW d \in Client PROVE msg'[d][2] <= sent
    <3>1. msg[d][2] <= sent /\ 0 <= sent
      BY DEF OnItsWay
    <3>2. msg'[d] = msg[d] \/ msg'[d] = NoMessage
      BY <2>5
    <3> QED
      BY <1>0, <3>1, <3>2
  <2>8. OnItsWay'
    <3>1. \A d \in Client : /\ pc'[d] \in Casting => msg'[d] # NoMessage
                            /\ pc'[d] \notin Casting => msg'[d] = NoMessage
                            /\ pc'[d] \in {"castVoice", "noteVoice"} => msg'[d][1] = "voice"
      BY <2>5 DEF OnItsWay
    <3> QED
      BY <2>1, <2>4, <2>5, <2>6, <2>7, <3>1 DEF OnItsWay
  <2>9. NoChatGap'
    <3> SUFFICES ASSUME NEW d \in TunedIn',
                        NEW o \in Contents(chatHistory'[CurrentChannelID[d]]),
                        o[1] = "text", o \notin got[d]
                 PROVE  \E e \in Client : msg'[e] = o
      BY <2>1 DEF NoChatGap, MissedTexts
    <3>1. d \in TunedIn
      BY <2>1, <2>5 DEF TunedIn
    <3>2. o \in Contents(chatHistory[CurrentChannelID[d]])
      BY <1>0, <2>2, <2>4, <3>1 DEF TunedIn
    <3>3. PICK e \in Client : msg[e] = o
      BY <3>1, <3>2 DEF NoChatGap, MissedTexts
    <3>4. e # c
      BY <2>2, <3>3
    <3> QED
      BY <2>5, <3>3, <3>4
  <2> QED
    BY <2>8, <2>9
<1>16. ASSUME UNCHANGED vars PROVE Goal
  BY <1>16 DEF vars, OnItsWay, NoChatGap, TunedIn, MissedTexts
<1> QED
  BY <1>2, <1>3, <1>4, <1>5, <1>6, <1>7, <1>8, <1>9, <1>10, <1>12, <1>14, <1>15, <1>16
  DEF Next, Request, Handler

----------------------------------------------------------------------------
(* A new message is one of those the model counts. *)
LEMMA NewMessageIsOne ==
  ASSUME Contained, NEW c \in Client, NEW kind \in {"text", "voice"}, NewMessage(c, kind)
  PROVE  /\ <<kind, sent + 1>> \in Message
         /\ sent' \in 0..MaxMessages
         /\ msg' \in [Client -> Message \cup {NoMessage}]
<1>1. sent + 1 \in 1..MaxMessages /\ sent' = sent + 1
  BY HubAssumption DEF Contained, NewMessage
<1>2. <<kind, sent + 1>> \in Message
  BY <1>1 DEF Message
<1> QED BY <1>1, <1>2 DEF Contained, NewMessage

(* What is remembered are messages. *)
LEMMA RememberedAreMessages ==
  ASSUME Tables, Contained, NEW c \in Client, NEW m \in Message, RememberMessage(c, m)
  PROVE  chatHistory' \in [ChannelId -> Seq(Message)]
<1>1. CurrentChannelID[c] \in ChannelId
  BY DEF Tables
<1>2. Remember(chatHistory[CurrentChannelID[c]], m) \in Seq(Message)
  BY <1>1, RememberKeeps DEF Contained
<1> QED BY <1>1, <1>2 DEF Contained, RememberMessage

(* Clients, passwords and messages stay within what there is.              *)
LEMMA ContainedStep ==
  ASSUME Tables, OnItsWay, Contained, [Next]_vars
  PROVE  Contained'
<1> USE DEF registry
<1>m. ASSUME NEW c \in Client, pc[c] \in {"castChat", "castVoice", "noteVoice"}
      PROVE  msg[c] \in Message
  BY <1>m DEF OnItsWay, Contained
<1>n. UNCHANGED password => \A n \in channels' : password'[n] \in Password \cup {NoPassword}
  BY DEF Contained, channels
<1>b. ASSUME NEW n, NEW m \in Message, BroadcastSignal(n, m)
      PROVE  got' \in [Client -> SUBSET Message]
  BY <1>b DEF BroadcastSignal, Contained
<1>1. ASSUME NEW c \in Client,
             RegisterClient(c) \/ UnregisterClient(c) \/ Subscribe(c) \/ RemoveSubscriber(c)
             \/ SeeVideo(c) \/ DropVideo(c) \/ Tune(c) \/ VideoCallStart(c) \/ VideoCallEnd(c)
      PROVE  Contained'
  <2>1. /\ UNCHANGED <<password, chatHistory, msg, sent>>
        /\ clients' \subseteq clients \cup {c}
        /\ got' = got \/ got' = [got EXCEPT ![c] = {}]
    BY <1>1 DEF RegisterClient, UnregisterClient, Subscribe, RemoveSubscriber, SeeVideo,
                DropVideo, Tune, VideoCallStart, VideoCallEnd
  <2> QED BY <2>1, <1>n DEF Contained
<1>2. ASSUME NEW c \in Client, NEW n, NEW pw, SwitchChannel(c, n, pw) PROVE Contained'
  BY <1>2, <1>n DEF SwitchChannel, Contained
<1>3. ASSUME NEW c \in Client, NEW pw \in Password \cup {NoPassword}, CreateChannel(c, pw)
      PROVE  Contained'
  <2>1. PICK n \in ChannelId :
            password' = [i \in channels \cup {n} |-> IF i = n THEN pw ELSE password[i]]
    BY <1>3 DEF CreateChannel, FreeIds
  <2>2. \A i \in channels' : password'[i] \in Password \cup {NoPassword}
    BY <2>1 DEF Contained, channels
  <2>3. UNCHANGED <<clients, chatHistory, msg, sent, got>>
    BY <1>3 DEF CreateChannel
  <2> QED BY <2>2, <2>3 DEF Contained
<1>4. ASSUME NEW c \in Client, SendHistory(c) PROVE Contained'
  <2>1. CurrentChannelID[c] \in ChannelId
    BY DEF Tables
  <2>2. chatHistory[CurrentChannelID[c]] \in Seq(Message)
    BY <2>1 DEF Contained
  <2>3. Contents(chatHistory[CurrentChannelID[c]]) \subseteq Message
    BY <2>2 DEF Contents
  <2>4. got' \in [Client -> SUBSET Message]
    BY <1>4, <2>3 DEF SendHistory, Contained
  <2>5. UNCHANGED <<clients, password, chatHistory, msg, sent>>
    BY <1>4 DEF SendHistory
  <2> QED BY <2>4, <2>5, <1>n DEF Contained
<1>5. ASSUME NEW c \in Client, ChatMessage(c) PROVE Contained'
  <2>1. /\ NewMessage(c, "text") /\ RememberMessage(c, <<"text", sent + 1>>)
        /\ UNCHANGED <<clients, password, got>>
    BY <1>5 DEF ChatMessage
  <2>2. /\ <<"text", sent + 1>> \in Message /\ sent' \in 0..MaxMessages
        /\ msg' \in [Client -> Message \cup {NoMessage}]
    BY <2>1, NewMessageIsOne
  <2>3. chatHistory' \in [ChannelId -> Seq(Message)]
    BY <2>1, <2>2, RememberedAreMessages
  <2> QED BY <2>1, <2>2, <2>3, <1>n DEF Contained
<1>6. ASSUME NEW c \in Client, VoiceMessage(c) PROVE Contained'
  <2>1. NewMessage(c, "voice") /\ UNCHANGED <<clients, password, chatHistory, got>>
    BY <1>6 DEF VoiceMessage
  <2>2. sent' \in 0..MaxMessages /\ msg' \in [Client -> Message \cup {NoMessage}]
    BY <2>1, NewMessageIsOne
  <2> QED BY <2>1, <2>2, <1>n DEF Contained
<1>7. ASSUME NEW c \in Client, BroadcastChat(c) \/ BroadcastVoice(c) PROVE Contained'
  <2>1. /\ msg[c] \in Message /\ BroadcastSignal(CurrentChannelID[c], msg[c])
        /\ UNCHANGED <<clients, password, chatHistory, sent>>
        /\ msg' = msg \/ msg' = [msg EXCEPT ![c] = NoMessage]
    BY <1>7, <1>m DEF BroadcastChat, BroadcastVoice
  <2>2. got' \in [Client -> SUBSET Message]
    BY <2>1, <1>b
  <2>3. msg' \in [Client -> Message \cup {NoMessage}]
    BY <2>1 DEF Contained
  <2> QED BY <2>1, <2>2, <2>3, <1>n DEF Contained
<1>8. ASSUME NEW c \in Client, NoteVoice(c) PROVE Contained'
  <2>1. /\ msg[c] \in Message /\ RememberMessage(c, msg[c])
        /\ UNCHANGED <<clients, password, sent, got>>
        /\ msg' = [msg EXCEPT ![c] = NoMessage]
    BY <1>8, <1>m DEF NoteVoice
  <2>2. chatHistory' \in [ChannelId -> Seq(Message)]
    BY <2>1, RememberedAreMessages
  <2>3. msg' \in [Client -> Message \cup {NoMessage}]
    BY <2>1 DEF Contained
  <2> QED BY <2>1, <2>2, <2>3, <1>n DEF Contained
<1>9. ASSUME UNCHANGED vars PROVE Contained'
  BY <1>9, <1>n DEF vars, Contained
<1> QED
  BY <1>1, <1>2, <1>3, <1>4, <1>5, <1>6, <1>7, <1>8, <1>9 DEF Next, Request, Handler

----------------------------------------------------------------------------
(* The server starts with public channels, and nobody connected. *)
LEMMA HubStart == Init => HubInv
<1> SUFFICES ASSUME Init PROVE HubInv
  OBVIOUS
<1> USE HubAssumption, OneIsAChannel, NoClientAssumption
<1>1. Tables
  BY DEF Init, Tables, RequestArgs, channels, Step
<1>2. TunedToOne
  BY DEF Init, TunedToOne
<1>3. VideoSenderIsPresent
  BY DEF Init, VideoSenderIsPresent
<1>4. PasswordsGiven /\ PrivateNeedsPassword
  BY DEF Init, PasswordsGiven, PrivateNeedsPassword, channels
<1>5. \A n \in ChannelId : Contents(chatHistory[n]) = {}
  BY DEF Init, Contents
<1>6. OnItsWay
  BY <1>5 DEF Init, OnItsWay, AnyMessage, NoMessage
<1>7. NoChatGap
  BY <1>5 DEF Init, NoChatGap, TunedIn, MissedTexts
<1> QED
  BY <1>1, <1>2, <1>3, <1>4, <1>6, <1>7 DEF HubInv, Registry

(* In every reachable state HubInv holds, the shapes of the tables included. *)
THEOREM HubInvariant == Spec => []HubInv
<1>1. HubInv /\ [Next]_vars => HubInv'
  BY TablesStep, TunedStep, VideoStep, PasswordStep, MessagesStep DEF HubInv, Registry
<1> QED
  BY <1>1, HubStart, PTL DEF Spec

(* The registry, the histories and the messages under way keep their types *)
(* and their bounds; nobody is tuned to, or moves to, a channel that does  *)
(* not exist (SwitchChannel and create_channel, hub.go).                   *)
THEOREM HubTypeCorrect == Spec => []TypeOK
<1>1. Init => Contained
  <2> SUFFICES ASSUME Init PROVE Contained
    OBVIOUS
  <2>1. 0 \in 0..MaxMessages BY HubAssumption
  <2>2. chatHistory \in [ChannelId -> Seq(Message)] BY EmptySeq DEF Init
  <2>3. clients \subseteq Client /\ got \in [Client -> SUBSET Message] BY DEF Init
  <2> QED BY <2>1, <2>2, <2>3 DEF Init, Contained, channels
<1>2. HubInv /\ Contained /\ [Next]_vars => Contained'
  BY ContainedStep DEF HubInv, Registry
<1>3. HubInv /\ Contained => TypeOK
  BY DEF HubInv, Registry, Tables, RequestArgs, Contained, TypeOK
<1> QED
  BY <1>1, <1>2, <1>3, HubInvariant, PTL DEF Spec

(* A client hears its current channel and no other, and nothing while it   *)
(* moves: SwitchChannel, RegisterClient and UnregisterClient between their *)
(* critical sections, in any interleaving.                                 *)
THEOREM OneChannelEach == Spec => []TunedToOne
  BY HubInvariant, PTL DEF HubInv, Registry

(* Nobody leaves a video call behind: SwitchChannel and UnregisterClient   *)
(* read the call in one critical section and delete it in another.         *)
THEOREM NoGhostVideo == Spec => []VideoSenderIsPresent
  BY HubInvariant, PTL DEF HubInv

(* A private channel is heard only by those that gave its password.        *)
THEOREM PrivacyHolds == Spec => []PrivateNeedsPassword
  BY HubInvariant, PTL DEF HubInv

(* Whoever tunes in misses no text: SwitchChannel subscribes before it     *)
(* reads the history, chat_message remembers before it broadcasts.         *)
THEOREM NoTextIsMissed == Spec => []NoChatGap
  BY HubInvariant, PTL DEF HubInv

(* A client whose handler has returned from UnregisterClient. *)
GoneLeavesNothing ==
    \A c \in Client : pc[c] = "off" =>
        \A n \in ChannelId : c \notin Subscribers[n] /\ activeVideoByChannel[n] # c

(* The safety half of LeavesNothingBehind: once UnregisterClient has       *)
(* returned, the client is on no channel and has no video call, whatever   *)
(* other handlers ran between its critical sections (hub.go:126).          *)
THEOREM GoneIsGone == Spec => []GoneLeavesNothing
<1>1. ASSUME HubInv PROVE GoneLeavesNothing
  <2> SUFFICES ASSUME NEW c \in Client, pc[c] = "off", NEW n \in ChannelId
               PROVE  c \notin Subscribers[n] /\ activeVideoByChannel[n] # c
    BY DEF GoneLeavesNothing
  <2>1. c \notin Subscribers[n]
    BY <1>1 DEF HubInv, Registry, TunedToOne
  <2>2. ASSUME activeVideoByChannel[n] = c PROVE FALSE
    <3>1. c # NoClient BY NoClientAssumption
    <3> QED BY <1>1, <2>1, <2>2, <3>1 DEF HubInv, VideoSenderIsPresent
  <2> QED BY <2>1, <2>2
<1> QED BY <1>1, HubInvariant, PTL
=============================================================================
