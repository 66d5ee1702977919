-------------------------------- MODULE Hub --------------------------------
(***************************************************************************)
(* The registry of internal/radio/hub.go: which clients are connected,     *)
(* which channels exist, who is tuned where, each channel's chat history   *)
(* and its active video call.  Floor control is the subject of Channel and *)
(* Transmission and is left out here.                                      *)
(*                                                                         *)
(* h.mu guards the registry, c.mu each channel's Subscribers; a handler    *)
(* gives the locks back between its critical sections, and pc names the    *)
(* next one.  A client's requests are handled in order by its own          *)
(* goroutine.                                                              *)
(***************************************************************************)
EXTENDS Naturals, Sequences, FiniteSets

CONSTANTS
    Client,
    DefaultChannels,  \* how many channels the configuration defines: 1, 2, ...
    MaxChannels,      \* bound on the channels that exist
    Password,         \* the passwords clients use
    NoPassword,       \* the password of a public channel
    HistoryLimit,     \* 30 in the code
    MaxMessages,      \* bound on the messages sent
    Requests          \* which kinds of requests the clients make

ASSUME HubAssumption ==
    /\ DefaultChannels \in Nat \ {0}
    /\ MaxChannels \in Nat
    /\ DefaultChannels <= MaxChannels
    /\ HistoryLimit \in Nat \ {0}
    /\ MaxMessages \in Nat
    /\ NoPassword \notin Password
    /\ Requests \subseteq {"join", "create", "chat", "voice", "video"}

NoChannel == 0        \* the target of a client that disconnects
NoClient == "nil"     \* no video call
ChannelId == 1..MaxChannels
Message == {"text", "voice"} \X (1..MaxMessages)
NoMessage == <<"none", 0>>

ASSUME NoClientAssumption == NoClient \notin Client

VARIABLES
    clients,               \* the registered clients
    password,              \* the channels that exist, with their password
    CurrentChannelID,
    Subscribers,           \* the subscribers of every channel
    chatHistory,           \* the messages each channel remembers
    activeVideoByChannel,  \* the sender of the channel's video call, if any
    pc,                    \* the next critical section of each goroutine
    args,                  \* its request: the target channel and a password
    msg,                   \* its message on the way to the channel, or NoMessage
    sent,                  \* how many messages there have been
    got                    \* messages a tuned client was sent by its channel

registry == <<clients, password, CurrentChannelID, Subscribers>>
vars == <<registry, chatHistory, activeVideoByChannel, pc, args, msg, sent, got>>

channels == DOMAIN password

Step == {"off", "subscribe", "read", "unsubscribe", "seeVideo", "dropVideo", "tune",
         "sync", "castChat", "castVoice", "noteVoice"}

Init ==
    /\ clients = {}
    /\ password = [n \in 1..DefaultChannels |-> NoPassword]
    /\ CurrentChannelID = [c \in Client |-> 1]
    /\ Subscribers = [n \in ChannelId |-> {}]
    /\ chatHistory = [n \in ChannelId |-> <<>>]
    /\ activeVideoByChannel = [n \in ChannelId |-> NoClient]
    /\ pc = [c \in Client |-> "off"]
    /\ args = [c \in Client |-> [id |-> NoChannel, pw |-> NoPassword]]
    /\ msg = [c \in Client |-> NoMessage]
    /\ sent = 0
    /\ got = [c \in Client |-> {}]

----------------------------------------------------------------------------
Goto(c, step) == pc' = [pc EXCEPT ![c] = step]

Contents(seq) == {seq[i] : i \in DOMAIN seq}

(* append, then keep the newest HistoryLimit messages. *)
Remember(seq, m) ==
    LET longer == Append(seq, m)
    IN  IF Len(longer) > HistoryLimit
        THEN SubSeq(longer, Len(longer) - HistoryLimit + 1, Len(longer))
        ELSE longer

(* BroadcastSignal of message m to the subscribers of channel n. *)
BroadcastSignal(n, m) ==
    got' = [d \in Client |-> IF d \in Subscribers[n] THEN got[d] \cup {m} ELSE got[d]]

(* RegisterClient up to its first unlock. *)
RegisterClient(c) ==
    /\ pc[c] = "off"
    /\ clients' = clients \cup {c}
    /\ CurrentChannelID' = [CurrentChannelID EXCEPT ![c] = 1]
    /\ Goto(c, "subscribe")
    /\ UNCHANGED <<password, Subscribers, chatHistory, activeVideoByChannel, args, msg, sent, got>>

(* AddSubscriber, in RegisterClient or in SwitchChannel. *)
AddSubscriber(c, n) ==
    /\ Subscribers' = [Subscribers EXCEPT ![n] = @ \cup {c}]
    /\ Goto(c, "sync")

Subscribe(c) ==
    /\ pc[c] = "subscribe"
    /\ AddSubscriber(c, CurrentChannelID[c])
    /\ UNCHANGED <<clients, password, CurrentChannelID, chatHistory, activeVideoByChannel,
                   args, msg, sent, got>>

(* The history is read under h.mu and sent to the new subscriber. *)
SendHistory(c) ==
    /\ pc[c] = "sync"
    /\ got' = [got EXCEPT ![c] = @ \cup Contents(chatHistory[CurrentChannelID[c]])]
    /\ Goto(c, "read")
    /\ UNCHANGED <<registry, chatHistory, activeVideoByChannel, args, msg, sent>>

(* UnregisterClient up to its first unlock. *)
UnregisterClient(c) ==
    /\ pc[c] = "read"
    /\ clients' = clients \ {c}
    /\ args' = [args EXCEPT ![c] = [id |-> NoChannel, pw |-> NoPassword]]
    /\ Goto(c, "unsubscribe")
    /\ UNCHANGED <<password, CurrentChannelID, Subscribers, chatHistory, activeVideoByChannel,
                   msg, sent, got>>

(* Mutant of SwitchChannel: the password of a private channel is ignored. *)
SwitchChannelOpen(c, n, pw) ==
    /\ pc[c] = "read"
    /\ n \in channels
    /\ n # CurrentChannelID[c]
    /\ args' = [args EXCEPT ![c] = [id |-> n, pw |-> pw]]
    /\ Goto(c, "unsubscribe")
    /\ UNCHANGED <<registry, chatHistory, activeVideoByChannel, msg, sent, got>>

(* Mutant of SwitchChannel: the channel need not exist. *)
SwitchChannelAnywhere(c, n, pw) ==
    /\ pc[c] = "read"
    /\ n # CurrentChannelID[c]
    /\ args' = [args EXCEPT ![c] = [id |-> n, pw |-> pw]]
    /\ Goto(c, "unsubscribe")
    /\ UNCHANGED <<registry, chatHistory, activeVideoByChannel, msg, sent, got>>

(* SwitchChannel: a missing channel, the current one and a wrong password  *)
(* of a private one are refused and change nothing.                        *)
SwitchChannel(c, n, pw) ==
    /\ pc[c] = "read"
    /\ n \in channels
    /\ n # CurrentChannelID[c]
    /\ password[n] # NoPassword => password[n] = pw
    /\ args' = [args EXCEPT ![c] = [id |-> n, pw |-> pw]]
    /\ Goto(c, "unsubscribe")
    /\ UNCHANGED <<registry, chatHistory, activeVideoByChannel, msg, sent, got>>

(* Mutant of RemoveSubscriber: the old subscription is kept. *)
RemoveSubscriberForgotten(c) ==
    /\ pc[c] = "unsubscribe"
    /\ Goto(c, "seeVideo")
    /\ UNCHANGED <<registry, chatHistory, activeVideoByChannel, args, msg, sent, got>>

(* RemoveSubscriber, in UnregisterClient or in SwitchChannel. *)
RemoveSubscriber(c) ==
    /\ pc[c] = "unsubscribe"
    /\ Subscribers' = [Subscribers EXCEPT ![CurrentChannelID[c]] = @ \ {c}]
    /\ got' = [got EXCEPT ![c] = {}]
    /\ Goto(c, "seeVideo")
    /\ UNCHANGED <<clients, password, CurrentChannelID, chatHistory, activeVideoByChannel,
                   args, msg, sent>>

AfterVideo(c) == IF args[c].id = NoChannel THEN "off" ELSE "tune"

(* Mutant of SeeVideo: a client that leaves does not end its video call. *)
SeeVideoIgnored(c) ==
    /\ pc[c] = "seeVideo"
    /\ Goto(c, AfterVideo(c))
    /\ UNCHANGED <<registry, chatHistory, activeVideoByChannel, args, msg, sent, got>>

(* The video call is read under h.mu.RLock, compared after RUnlock ...     *)
SeeVideo(c) ==
    /\ pc[c] = "seeVideo"
    /\ Goto(c, IF activeVideoByChannel[CurrentChannelID[c]] = c
               THEN "dropVideo" ELSE AfterVideo(c))
    /\ UNCHANGED <<registry, chatHistory, activeVideoByChannel, args, msg, sent, got>>

(* ... and deleted in another critical section, whosever it is by then. *)
DropVideo(c) ==
    /\ pc[c] = "dropVideo"
    /\ activeVideoByChannel' = [activeVideoByChannel EXCEPT ![CurrentChannelID[c]] = NoClient]
    /\ Goto(c, AfterVideo(c))
    /\ UNCHANGED <<registry, chatHistory, args, msg, sent, got>>

(* The second half of SwitchChannel. *)
Tune(c) ==
    /\ pc[c] = "tune"
    /\ CurrentChannelID' = [CurrentChannelID EXCEPT ![c] = args[c].id]
    /\ AddSubscriber(c, args[c].id)
    /\ UNCHANGED <<clients, password, chatHistory, activeVideoByChannel, args, msg, sent, got>>

(* create_channel: the first free id above the number of channels; the     *)
(* creator is then moved there by SwitchChannel with the same password.    *)
FreeIds == {i \in ChannelId : i > Cardinality(channels) /\ i \notin channels}

CreateChannel(c, pw) ==
    /\ pc[c] = "read"
    /\ \E n \in FreeIds :
          /\ \A i \in FreeIds : n <= i
          /\ password' = [i \in channels \cup {n} |-> IF i = n THEN pw ELSE password[i]]
          /\ args' = [args EXCEPT ![c] = [id |-> n, pw |-> pw]]
    /\ Goto(c, "unsubscribe")
    /\ UNCHANGED <<clients, CurrentChannelID, Subscribers, chatHistory,
                   activeVideoByChannel, msg, sent, got>>

----------------------------------------------------------------------------
(* The next message, of either kind. *)
NewMessage(c, kind) ==
    /\ sent < MaxMessages
    /\ sent' = sent + 1
    /\ msg' = [msg EXCEPT ![c] = <<kind, sent + 1>>]

RememberMessage(c, m) ==
    chatHistory' = [chatHistory EXCEPT ![CurrentChannelID[c]] = Remember(@, m)]

(* Mutant of ChatMessage: broadcast first, remembered afterwards. *)
ChatMessageCastFirst(c) ==
    /\ pc[c] = "read"
    /\ NewMessage(c, "text")
    /\ Goto(c, "castVoice")
    /\ UNCHANGED <<registry, chatHistory, activeVideoByChannel, args, got>>

(* chat_message: into the history under h.mu, then to the subscribers. *)
ChatMessage(c) ==
    /\ pc[c] = "read"
    /\ NewMessage(c, "text")
    /\ RememberMessage(c, <<"text", sent + 1>>)
    /\ Goto(c, "castChat")
    /\ UNCHANGED <<registry, activeVideoByChannel, args, got>>

BroadcastChat(c) ==
    /\ pc[c] = "castChat"
    /\ BroadcastSignal(CurrentChannelID[c], msg[c])
    /\ msg' = [msg EXCEPT ![c] = NoMessage]
    /\ Goto(c, "read")
    /\ UNCHANGED <<registry, chatHistory, activeVideoByChannel, args, sent>>

(* handlePTTUp with a recording: first to the subscribers (as the          *)
(* transmission_recorded message), then into the history.                  *)
VoiceMessage(c) ==
    /\ pc[c] = "read"
    /\ NewMessage(c, "voice")
    /\ Goto(c, "castVoice")
    /\ UNCHANGED <<registry, chatHistory, activeVideoByChannel, args, got>>

BroadcastVoice(c) ==
    /\ pc[c] = "castVoice"
    /\ BroadcastSignal(CurrentChannelID[c], msg[c])
    /\ Goto(c, "noteVoice")
    /\ UNCHANGED <<registry, chatHistory, activeVideoByChannel, args, msg, sent>>

NoteVoice(c) ==
    /\ pc[c] = "noteVoice"
    /\ RememberMessage(c, msg[c])
    /\ msg' = [msg EXCEPT ![c] = NoMessage]
    /\ Goto(c, "read")
    /\ UNCHANGED <<registry, activeVideoByChannel, args, sent, got>>

(* video_call_start takes the channel's place whoever had it. *)
VideoCallStart(c) ==
    /\ pc[c] = "read"
    /\ activeVideoByChannel' = [activeVideoByChannel EXCEPT ![CurrentChannelID[c]] = c]
    /\ UNCHANGED <<registry, chatHistory, pc, args, msg, sent, got>>

(* video_call_end checks and deletes in one critical section. *)
VideoCallEnd(c) ==
    /\ pc[c] = "read"
    /\ activeVideoByChannel[CurrentChannelID[c]] = c
    /\ activeVideoByChannel' = [activeVideoByChannel EXCEPT ![CurrentChannelID[c]] = NoClient]
    /\ UNCHANGED <<registry, chatHistory, pc, args, msg, sent, got>>

----------------------------------------------------------------------------
Request(c) ==
    \/ "join" \in Requests /\ \E n \in ChannelId, pw \in Password \cup {NoPassword} :
           SwitchChannel(c, n, pw)
    \/ "create" \in Requests /\ \E pw \in Password \cup {NoPassword} : CreateChannel(c, pw)
    \/ "chat" \in Requests /\ ChatMessage(c)
    \/ "voice" \in Requests /\ VoiceMessage(c)
    \/ "video" \in Requests /\ (VideoCallStart(c) \/ VideoCallEnd(c))

(* A handler under way; nothing in it can block. *)
Handler(c) ==
    \/ Subscribe(c) \/ SendHistory(c) \/ RemoveSubscriber(c) \/ SeeVideo(c) \/ DropVideo(c)
    \/ Tune(c) \/ BroadcastChat(c) \/ BroadcastVoice(c) \/ NoteVoice(c)

Next == \E c \in Client : RegisterClient(c) \/ UnregisterClient(c) \/ Request(c) \/ Handler(c)

Spec == Init /\ [][Next]_vars

(* A handler that has started is scheduled until it returns. *)
FairSpec == Spec /\ \A c \in Client : WF_vars(Handler(c))

----------------------------------------------------------------------------
(* The types of the registry. *)
TypeOK ==
    /\ clients \subseteq Client
    /\ channels \subseteq ChannelId
    /\ \A n \in channels : password[n] \in Password \cup {NoPassword}
    /\ CurrentChannelID \in [Client -> channels]
    /\ Subscribers \in [ChannelId -> SUBSET Client]
    /\ chatHistory \in [ChannelId -> Seq(Message)]
    /\ activeVideoByChannel \in [ChannelId -> Client \cup {NoClient}]
    /\ pc \in [Client -> Step]
    /\ args \in [Client -> [id : channels \cup {NoChannel}, pw : Password \cup {NoPassword}]]
    /\ msg \in [Client -> Message \cup {NoMessage}]
    /\ sent \in 0..MaxMessages
    /\ got \in [Client -> SUBSET Message]

(* Where a client hears anything: nowhere while it is connecting, moving   *)
(* or gone, and otherwise on its current channel and on no other.          *)
TunedToOne ==
    \A c \in Client, n \in ChannelId :
        c \in Subscribers[n] <=> /\ n = CurrentChannelID[c]
                                 /\ pc[c] \notin {"off", "subscribe", "seeVideo", "dropVideo", "tune"}

(* A private channel is heard only by clients that gave its password when  *)
(* they moved there, the creator included.                                 *)
PrivateNeedsPassword ==
    \A n \in channels : \A c \in Subscribers[n] :
        password[n] # NoPassword /\ pc[c] # "unsubscribe" =>
            args[c] = [id |-> n, pw |-> password[n]]

(* The texts that a client, tuned in, was not sent although its channel    *)
(* remembers them and nobody is about to broadcast them.                   *)
MissedTexts(c) ==
    {m \in Contents(chatHistory[CurrentChannelID[c]]) :
        m[1] = "text" /\ m \notin got[c] /\ \A d \in Client : msg[d] # m}

TunedIn == {c \in Client : pc[c] \in {"read", "castChat", "castVoice", "noteVoice"}}

(* A client that has tuned in misses no text: every text its channel       *)
(* remembers has been sent to it, with the history or as it was broadcast. *)
(* Subscribing before reading the history, and remembering a text before   *)
(* broadcasting it, leave no gap in any interleaving.  (Voice messages are *)
(* broadcast first and remembered afterwards, and do leave one.)           *)
NoChatGap == \A c \in TunedIn : MissedTexts(c) = {}

(* No ghost video: the video call of a channel was started by a client     *)
(* that is tuned there, or that is just leaving and about to end it.       *)
VideoSenderIsPresent ==
    \A n \in ChannelId : activeVideoByChannel[n] # NoClient =>
        LET c == activeVideoByChannel[n]
        IN  c \in Subscribers[n] \/ (n = CurrentChannelID[c] /\ pc[c] \in {"seeVideo", "dropVideo"})

(* A client that disconnects is soon on no channel and has no video call.  *)
LeavesNothingBehind ==
    \A c \in Client :
        (pc[c] = "unsubscribe" /\ args[c].id = NoChannel) ~>
            (\A n \in ChannelId : c \notin Subscribers[n] /\ activeVideoByChannel[n] # c)
=============================================================================
