------------------------------ MODULE Listener ------------------------------
(***************************************************************************)
(* The receive light and the replay buffer of a web console                *)
(* (static/js/radio.js and the receiving side of static/js/audio.js),      *)
(* against a hub reduced to who is busy.  The goroutines of the hub change *)
(* the floor first and tell of it later, in any order among each other;    *)
(* all that one connection is told goes through one queue.                 *)
(***************************************************************************)
EXTENDS Dial

VARIABLES
    busy,        \* the hub: channel -> somebody speaks
    telling,     \* the hub: handler -> the message it has still to send
    tuned,       \* the hub: the channel of this client, 0 without a connection
    joining,     \* the hub: status of the joined channel still to be sent
    joins,       \* join_channel requests on their way
    inbox,       \* messages on their way to the page
    page,        \* the channel shown, and the receive light
    replayChunks, \* the audio engine has collected sound for the replay
    orderly,     \* what the page cannot know has not happened (see Stop, Disconnect)
    turns

listenerVars == <<busy, telling, tuned, joining, joins, inbox, page,
                  replayChunks, orderly, turns>>

Quiet == Notice("none", 0)

ListenerInit ==
    /\ busy = [ch \in Ch |-> FALSE] /\ telling = [h \in Handler |-> Quiet]
    /\ tuned = 1 /\ joining = <<>> /\ joins = <<>> /\ inbox = <<>>
    /\ page = [current |-> 1, isReceiving |-> FALSE]
    /\ replayChunks = FALSE /\ orderly = TRUE /\ turns = 0

----------------------------------------------------------------------------
(* The other users, through the hub.                                       *)

(* A floor granted, also by preemption: user_talking comes later. *)
Talk(h, ch) ==
    /\ telling[h] = Quiet
    /\ busy' = [busy EXCEPT ![ch] = TRUE]
    /\ telling' = [telling EXCEPT ![h] = Notice("user_talking", ch)]
    /\ UNCHANGED <<tuned, joining, joins, inbox, page, replayChunks, orderly, turns>>

(* A release, a time-out, a move or a departure: idle comes later.  From   *)
(* then on a user_talking still to be sent is about nobody.                *)
Stop(h, ch) ==
    /\ telling[h] = Quiet /\ busy[ch]
    /\ busy' = [busy EXCEPT ![ch] = FALSE]
    /\ telling' = [telling EXCEPT ![h] = Notice("idle", ch)]
    /\ orderly' = (orderly /\ \A k \in Handler : telling[k] # Notice("user_talking", ch))
    /\ UNCHANGED <<tuned, joining, joins, inbox, page, replayChunks, turns>>

(* Channel.BroadcastSignal, as far as this client is concerned. *)
BroadcastSignal(m) ==
    IF tuned = m.ch THEN Len(inbox) <= MaxInbox /\ inbox' = Append(inbox, m)
    ELSE UNCHANGED inbox

(* A handler sends what it has to; idle is followed by user_stopped. *)
TellFloor(h) ==
    LET m == telling[h] IN
    /\ m # Quiet
    /\ BroadcastSignal(m)
    /\ telling' = [telling EXCEPT ![h] =
                     IF m.type = "idle" THEN Notice("user_stopped", m.ch) ELSE Quiet]
    /\ UNCHANGED <<busy, tuned, joining, joins, page, replayChunks, orderly, turns>>

Sound(ch) ==
    /\ busy[ch] /\ BroadcastSignal(Notice("audio", ch))
    /\ UNCHANGED <<busy, telling, tuned, joining, joins, page, replayChunks, orderly, turns>>

(* SwitchChannel: subscribed, the state of the channel is read ... *)
HubSwitch ==
    /\ joins # <<>> /\ joining = <<>>
    /\ joins' = Tail(joins)
    /\ LET j == Head(joins) IN
       IF j.ch = tuned \/ (j.ch \in Private /\ ~j.ok) THEN UNCHANGED <<tuned, joining>>
       ELSE /\ tuned' = j.ch
            /\ joining' = <<Notice(IF busy[j.ch] THEN "busy" ELSE "idle", j.ch)>>
    /\ UNCHANGED <<busy, telling, inbox, page, replayChunks, orderly, turns>>

(* ... and sent. *)
HubStatus ==
    /\ joining # <<>> /\ Len(inbox) <= MaxInbox
    /\ inbox' = inbox \o joining /\ joining' = <<>>
    /\ UNCHANGED <<busy, telling, tuned, joins, page, replayChunks, orderly, turns>>

----------------------------------------------------------------------------
(* The connection.                                                         *)

(* ws.onclose, and all that is under way is lost.  The page goes on        *)
(* showing its channel, and its light stays as it is.                      *)
Disconnect ==
    /\ tuned # 0 /\ tuned' = 0
    /\ joining' = <<>> /\ joins' = <<>> /\ inbox' = <<>>
    /\ orderly' = (orderly /\ ~page.isReceiving)
    /\ UNCHANGED <<busy, telling, page, replayChunks, turns>>

(* RegisterClient: channel 1, whatever the page shows, and not a word of   *)
(* who speaks there to the light.                                          *)
Reconnect ==
    /\ tuned = 0 /\ tuned' = 1
    /\ UNCHANGED <<busy, telling, joining, joins, inbox, page, replayChunks, orderly, turns>>

----------------------------------------------------------------------------
(* The user picks a channel: the page shows it and asks the hub for it.    *)
PickChannel(ch, answer) ==
    /\ turns < MaxTurns /\ turns' = turns + 1
    /\ page' = [page EXCEPT !.current = changeChannel(@, ch, answer)]
    /\ joins' = IF tuned = 0 \/ (ch \in Private /\ answer = "cancel") THEN joins
                ELSE Append(joins, [ch |-> ch, ok |-> answer = "right"])
    /\ UNCHANGED <<busy, telling, tuned, joining, inbox, replayChunks, orderly>>

(* A location is found, and the nearest channel is joined. *)
autoJoinNearestChannel(ch, answer) == ch # page.current /\ PickChannel(ch, answer)

----------------------------------------------------------------------------
(* The messages, as they change the page and the audio engine.             *)

(* Mutant of handleIdle: the light is left to user_stopped. *)
handleIdleSilently == UNCHANGED page

handleIdle == page' = [page EXCEPT !.isReceiving = FALSE]

handleUserTalking == page' = [page EXCEPT !.isReceiving = TRUE] /\ replayChunks' = FALSE

handleUserStopped ==
    IF page.isReceiving THEN page' = [page EXCEPT !.isReceiving = FALSE] /\ replayChunks' = FALSE
    ELSE UNCHANGED <<page, replayChunks>>

(* Audio is played and collected whatever channel the page shows; a status *)
(* "busy" changes nothing here.                                            *)
Handle(m) ==
    CASE m.type = "audio" -> replayChunks' = TRUE /\ UNCHANGED page
      [] m.type = "idle" /\ m.ch = page.current -> handleIdle /\ UNCHANGED replayChunks
      [] m.type = "user_talking" /\ m.ch = page.current -> handleUserTalking
      [] m.type = "user_stopped" /\ m.ch = page.current -> handleUserStopped
      [] OTHER -> UNCHANGED <<page, replayChunks>>

Receive ==
    /\ inbox # <<>>
    /\ Handle(Head(inbox))
    /\ inbox' = Tail(inbox)
    /\ UNCHANGED <<busy, telling, tuned, joining, joins, orderly, turns>>

ListenerNext ==
    \/ \E h \in Handler : TellFloor(h) \/ \E ch \in Ch : Talk(h, ch) \/ Stop(h, ch)
    \/ \E ch \in Ch : Sound(ch)
    \/ HubSwitch \/ HubStatus \/ Disconnect \/ Reconnect \/ Receive
    \/ \E ch \in Ch, answer \in Answers :
          PickChannel(ch, answer) \/ autoJoinNearestChannel(ch, answer)

ListenerSpec == ListenerInit /\ [][ListenerNext]_listenerVars

(* The page handles its messages. *)
FairListenerSpec == ListenerSpec /\ WF_listenerVars(Receive)

----------------------------------------------------------------------------
(* The types. *)
HubNoticeType == [type : {"user_talking", "idle", "user_stopped"}, ch : Ch] \cup {Quiet}
MessageType == [type : {"user_talking", "idle", "user_stopped", "busy", "audio"}, ch : Ch]

ListenerTypeOK ==
    /\ busy \in [Ch -> BOOLEAN] /\ telling \in [Handler -> HubNoticeType]
    /\ tuned \in Ch \cup {0} /\ turns \in 0..MaxTurns
    /\ joining = <<>> \/ \E m \in MessageType : joining = <<m>>
    /\ joins \in Seq([ch : Ch, ok : BOOLEAN]) /\ inbox \in Seq(MessageType)
    /\ page \in [current : Ch, isReceiving : BOOLEAN]
    /\ replayChunks \in BOOLEAN /\ orderly \in BOOLEAN

(* All that was to be said has been said and heard. *)
Settled ==
    /\ inbox = <<>> /\ joins = <<>> /\ joining = <<>>
    /\ \A h \in Handler : telling[h] = Quiet

(* Once all has been said and heard, the RX light is only lit while        *)
(* somebody speaks on the channel shown: however talkers follow and        *)
(* preempt each other, their messages overtake each other, and the user    *)
(* moves or reconnects in the middle.  Two events mislead the page for     *)
(* good, until the next idle: a transmission that ends before its          *)
(* user_talking has been sent (hub.go:639), and a connection lost in the   *)
(* middle of a transmission (radio.js:436).                                *)
RxLightIsTrue == orderly /\ Settled /\ page.isReceiving => busy[page.current]

(* "Instant Replay Buffer ... listen back to the last received             *)
(* transmission" (README.md:104): when the end of a transmission has been  *)
(* handled, what was heard of it is not left out of the replay buffer.     *)
ReplayIsKept ==
    [][orderly /\ Receive /\ Head(inbox) = Notice("user_stopped", page.current)
          => ~replayChunks']_listenerVars
=============================================================================
