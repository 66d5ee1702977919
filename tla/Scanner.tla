------------------------------- MODULE Scanner -------------------------------
(***************************************************************************)
(* The channel scanner of a web console (static/js/radio.js, lines 1240 to *)
(* 1300), and how the page learns which channels are busy: by the          *)
(* channel_activity that a goroutine of the hub broadcasts some time after *)
(* it has changed the floor, and by channel lists that are read channel by *)
(* channel and sent when they are complete.                                *)
(***************************************************************************)
EXTENDS Dial

VARIABLES
    held,        \* the hub: channel -> somebody speaks
    task,        \* the hub: handler -> what it has still to send
    online,      \* the connection
    news,        \* channel_activity and channel_list on their way to the page
    scanner,     \* the page: the channel shown, isScanning, is_busy of the channels
    overtaken,   \* channels the page was last told are free, after their talker's notice
    presses      \* what the user has done

scannerVars == <<held, task, online, news, scanner, overtaken, presses>>

Unknown == [ch \in Ch |-> FALSE]

(* A list in the making ("list", for all; "welcome", for a new connection) *)
(* has got as far as channel ch, and seen what it has seen.                *)
Task(type, ch, seen) == [type |-> type, ch |-> ch, seen |-> seen]
NoTask == Task("none", 0, Unknown)

ScannerInit ==
    /\ held = Unknown /\ task = [h \in Handler |-> NoTask]
    /\ online = TRUE /\ news = <<>> /\ overtaken = {} /\ presses = 0
    /\ scanner = [current |-> 1, isScanning |-> FALSE, is_busy |-> Unknown]

----------------------------------------------------------------------------
(* The hub.                                                                *)

(* A handler starts when there is room for more messages. *)
Starts(h, t) ==
    /\ task[h] = NoTask /\ Len(news) <= MaxInbox
    /\ task' = [task EXCEPT ![h] = t]

(* A floor granted, also by preemption, to another user. *)
Grant(h, ch) ==
    /\ Starts(h, Task("active", ch, Unknown))
    /\ held' = [held EXCEPT ![ch] = TRUE]
    /\ UNCHANGED <<online, news, scanner, overtaken, presses>>

(* A release, a time-out, a move or a departure. *)
End(h, ch) ==
    /\ held[ch] /\ Starts(h, Task("inactive", ch, Unknown))
    /\ held' = [held EXCEPT ![ch] = FALSE]
    /\ UNCHANGED <<online, news, scanner, overtaken, presses>>

(* Another user creates a channel (one that nobody uses here): everybody   *)
(* gets a new list.                                                        *)
CreateChannel(h) ==
    /\ Starts(h, Task("list", 0, Unknown))
    /\ UNCHANGED <<held, online, news, scanner, overtaken, presses>>

(* RegisterClient: a client that broadcasts reach, to which a list is due. *)
Register(h) ==
    /\ ~online /\ online' = TRUE
    /\ Starts(h, Task("welcome", 0, Unknown))
    /\ UNCHANGED <<held, news, scanner, overtaken, presses>>

(* ws.onclose; the list for this connection goes nowhere. *)
Hangup ==
    /\ online /\ online' = FALSE
    /\ news' = <<>> /\ overtaken' = {}
    /\ task' = [h \in Handler |-> IF task[h].type = "welcome" THEN NoTask ELSE task[h]]
    /\ UNCHANGED <<held, scanner, presses>>

Listing(t) == t.type \in {"list", "welcome"}

(* GetChannelList reads the next channel. *)
ReadState(h) ==
    /\ Listing(task[h]) /\ task[h].ch < NChannels
    /\ LET ch == task[h].ch + 1 IN
       task' = [task EXCEPT ![h] = [@ EXCEPT !.ch = ch, !.seen[ch] = held[ch]]]
    /\ UNCHANGED <<held, online, news, scanner, overtaken, presses>>

(* What a message says of a channel. *)
SaysBusy(t, ch) == IF Listing(t) THEN t.seen[ch] ELSE t.type = "active" /\ t.ch = ch
SaysFree(t, ch) == IF Listing(t) THEN ~t.seen[ch] ELSE t.type = "inactive" /\ t.ch = ch

(* The message is sent.  One that calls a channel free, when somebody has  *)
(* been granted its floor and everyone has been told so, is too late.      *)
SendNews(h) ==
    LET t == task[h] IN
    /\ t # NoTask /\ (Listing(t) => t.ch = NChannels)
    /\ task' = [task EXCEPT ![h] = NoTask]
    /\ news' = IF online THEN Append(news, t) ELSE news
    /\ overtaken' = {ch \in Ch :
          /\ online
          /\ \/ ch \in overtaken /\ ~SaysBusy(t, ch)
             \/ /\ SaysFree(t, ch) /\ held[ch]
                /\ \A k \in Handler : task[k] # Task("active", ch, Unknown)}
    /\ UNCHANGED <<held, online, scanner, presses>>

----------------------------------------------------------------------------
(* The page.                                                               *)

Press == presses < MaxTurns /\ presses' = presses + 1

SelectChannel(ch, answer) ==
    /\ Press
    /\ scanner' = [scanner EXCEPT !.current = changeChannel(@, ch, answer)]
    /\ UNCHANGED <<held, task, online, news, overtaken>>

(* The scan button; the push-to-talk button stops a scan as well. *)
toggleScanner ==
    /\ Press
    /\ scanner' = [scanner EXCEPT !.isScanning = ~@]
    /\ UNCHANGED <<held, task, online, news, overtaken>>

(* Mutant of NextChannel: the last channel is never reached. *)
NextChannelShort(ch) == IF ch + 1 >= NChannels THEN 1 ELSE ch + 1

NextChannel(ch) == IF ch + 1 > NChannels THEN 1 ELSE ch + 1

(* One tick of the scanner: stay with the traffic found, else move on and  *)
(* look again.                                                             *)
scanStep(answer) ==
    LET next == NextChannel(scanner.current) IN
    /\ scanner.isScanning
    /\ scanner' = IF scanner.is_busy[scanner.current]
                  THEN [scanner EXCEPT !.isScanning = FALSE]
                  ELSE [scanner EXCEPT !.current = changeChannel(@, next, answer),
                                       !.isScanning = ~scanner.is_busy[next]]
    /\ UNCHANGED <<held, task, online, news, overtaken, presses>>

(* Carrier on the channel shown ends a scan. *)
handleChannelActivity(ch, active) ==
    scanner' = [scanner EXCEPT !.is_busy[ch] = active,
                               !.isScanning = @ /\ ~(active /\ ch = scanner.current)]

handleChannelList(seen) == scanner' = [scanner EXCEPT !.is_busy = seen]

HandleNews ==
    /\ news # <<>> /\ news' = Tail(news)
    /\ LET t == Head(news) IN
       IF Listing(t) THEN handleChannelList(t.seen)
       ELSE handleChannelActivity(t.ch, t.type = "active")
    /\ UNCHANGED <<held, task, online, overtaken, presses>>

----------------------------------------------------------------------------
Scan == \E answer \in Answers : scanStep(answer)

ScannerNext ==
    \/ \E h \in Handler :
          \/ \E ch \in Ch : Grant(h, ch) \/ End(h, ch)
          \/ CreateChannel(h) \/ Register(h) \/ ReadState(h) \/ SendNews(h)
    \/ Hangup \/ HandleNews
    \/ \E ch \in Ch, answer \in Answers : SelectChannel(ch, answer)
    \/ toggleScanner \/ Scan

(* A handler goes on until its message is sent, the page handles its       *)
(* messages, and its timer (every 450 ms) fires.                           *)
ScannerFair ==
    /\ \A h \in Handler : WF_scannerVars(ReadState(h) \/ SendNews(h))
    /\ WF_scannerVars(HandleNews) /\ WF_scannerVars(Scan)

ScannerSpec == ScannerInit /\ [][ScannerNext]_scannerVars /\ ScannerFair

----------------------------------------------------------------------------
(* The types. *)
TaskType == [type : {"none", "active", "inactive", "list", "welcome"},
             ch : 0..NChannels, seen : [Ch -> BOOLEAN]]

ScannerTypeOK ==
    /\ held \in [Ch -> BOOLEAN] /\ task \in [Handler -> TaskType]
    /\ online \in BOOLEAN /\ overtaken \subseteq Ch /\ presses \in 0..MaxTurns
    /\ scanner \in [current : Ch, isScanning : BOOLEAN, is_busy : [Ch -> BOOLEAN]]
    /\ news \in Seq(TaskType)

(* A connected scanner does not pass by a transmission for ever, also one  *)
(* that started while the page was reconnecting or the list was read:      *)
(* unless the page was told last that the channel is free, because the     *)
(* notice of an earlier end (hub.go:740), or a list read earlier, was sent *)
(* after the talker's own (hub.go:650).                                    *)
ScanFindsTraffic ==
    \A ch \in Ch : []<>(~held[ch] \/ ~scanner.isScanning \/ ~online \/ ch \in overtaken)
=============================================================================
