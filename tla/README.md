# A TLA+ verification of the Go two-way radio server

This directory models the concurrent core of the two-way radio server and of its
web console: floor control with its time-out timer, the hub's handlers, the
registry with chat and video calls, the outgoing queues of a connection, the
recorder; and in the browser push-to-talk, WebRTC signalling, camera and screen,
chat uploads, the channel scanner and the receive light.
TLC checks the models on small instances; TLAPS proves every invariant and safety
action property that the runs check, for any number of clients, channels, messages
and timers.

## Inventory

| Part | Source | State | Operations | Modules |
|---|---|---|---|---|
| Channel floor control | `internal/radio/channel.go` | `Subscribers`, `activeSpeaker`, `isBusy`, `totTimer`, under `c.mu` | `AddSubscriber`, `RemoveSubscriber`, `RequestFloor`, `ReleaseFloor`, `ForceReleaseFloor`, `IsFloorHolder`, `handleTOT`, broadcasts | `Floor`, `Channel`, `ChannelProofs` |
| Push-to-talk handlers | `internal/radio/hub.go` | locals of the handler goroutines; the recorder's open buffer; what clients were told | `handlePTTDown`, `handlePTTUp`, `HandleBinaryAudio`, `handleTOTExpired`, departures | `Transmission`, `TransmissionProofs` |
| Registry, chat, video | `internal/radio/hub.go` | `clients`, `channels`, `chatHistory`, `activeVideoByChannel` under `h.mu`; `CurrentChannelID` | `RegisterClient`, `UnregisterClient`, `SwitchChannel`, `create_channel`, `chat_message`, voice messages, `video_call_*` | `Hub`, `HubProofs` |
| Client connection | `internal/radio/client.go` | `highPri`, `send`, `isClosed` under `c.mu`; the WebSocket | `enqueue`, `enqueuePriority`, `Close`, `ReadPump`, `WritePump` | `ClientQueue`, `ClientQueueProofs` |
| Recorder | `internal/radio/recorder.go` | `activeTX`, `recordings` under `r.mu`; WAV files | `OnTransmissionStart`, `AppendAudio`, `OnTransmissionEnd`, restart | `Recorder`, `RecorderProofs` |
| Console: push-to-talk | `static/js/radio.js`, `static/js/audio.js` | `isPTTDown`, `isTransmitting`, current channel, pre-grant audio buffer | `requestFloor`, `releaseFloor`, `handleFloorStatus`, `changeChannel`, reconnect | `Console`, `ConsoleProofs` |
| Console: inputs | `static/js/radio.js` | `pttMode`, `isChatVoiceHolding`, class of the video button, quick mute | mouse, touch, key, blur, focus, mode, volume | `Inputs`, `PartsProofs` |
| Console: receive light and replay | `static/js/radio.js`, `static/js/audio.js` | `isReceiving`, the channel shown, replay buffer | `handleFloorStatus` idle, `handleUserTalking`, `handleUserStopped`, `autoJoinNearestChannel`, picking a channel, losing and renewing the connection | `Dial`, `Listener`, `PartsProofs` |
| Console: scanner | `static/js/radio.js` | `isScanning`, `is_busy` per channel, the channel shown | `toggleScanner`, `scanStep`, `handleChannelActivity`, `channel_list`, picking a channel | `Dial`, `Scanner`, `PartsProofs` |
| Console: WebRTC signalling | `static/js/radio.js` | peer connection, its pending operations, `pendingIceCandidates`, the peer | offer, answer, ICE, glare and rollback, renegotiation, hang-up | `Video`, `VideoProofs` |
| Console: camera and screen | `static/js/radio.js` | `localVideoStream`, `isScreenSharing`, `isCameraMuted`, pending device requests | `startVideoCall`, `startScreenShare`, `stopScreenShare`, `flipCamera`, `toggleCamera`, `endVideoCall` | `Capture`, `PartsProofs` |
| Console: chat | `static/js/radio.js` | attached file, `currentUploadXHR`, send button, unread count | `sendChatMessage` with compression, upload, abort, fallback and its timer; history, incoming messages, drawer | `Chat`, `PartsProofs` |
| Packet protocol | `internal/radio/protocol.go` | none | `EncodeAudioPacket`, `ParseAudioPacket` | not modelled: pure, eight bytes, tested |
| RoIP gateway | `internal/roip/udp_server.go` | peer table, socket | receive, relay, `Stop` | not modelled: a table that only grows |
| HTTP server, uploads | `cmd/server/main.go` | files | REST, upload, shutdown | not modelled: request I/O |
| Configuration | `internal/config/config.go` | none | constants that appear as CONSTANTS of the modules | - |
| Console presentation | `static/index.html`, CSS, `sounds.js`, map | DOM, audio graph | rendering, synthesis | not modelled |

**How the parts interact.** `ReadPump` of each connection is one goroutine that
calls the hub's handlers one after the other; a handler calls methods of the
channel and of the recorder, each of which is one critical section of that
object's own mutex, and then sends messages, which `enqueue` into the queues of
the receivers, drained by the receivers' `WritePump`. A timer of a channel calls
`handleTOT` and then `handleTOTExpired` from a goroutine of its own. No lock is
held from one critical section of a handler to the next, so the handlers of
different clients and of timers interleave between any two.

**What is hard.** A timer that fired but waits for the mutex is past stopping. A
floor checked in one critical section is used in the next. Messages about the
floor are sent after the lock is given back, so two handlers' messages arrive in
an order unrelated to that of their grants. A client that connects or moves
reads the history while others write it. `Close` races with senders on the same
Go channels. Queues overflow and evict. Writing a recording can fail, its name
can collide, and a restart forgets it. The console acts before it is answered: the
button is released before the grant, a channel is shown before the hub has
accepted the move. WebRTC offers of two sides cross while the browser still works on
older operations of the connection, and candidates come before their description.
A file is removed while one of four asynchronous steps of its upload runs. A
camera is granted after the call it was for has ended. The page is told of a floor
that has changed hands again meanwhile, and reconnects without being told who
speaks. The `hazards` of `PROJECT.json` list each
of them at its line.

**What makes each part correct.**

- Channel: at most one transmitter, a member, by rank if not free; a speaker
  always has a live time-out; no hot mic lasts.
- Handlers: audio stops with the floor (up to a packet in flight); a client
  knows whether it is on the air; recordings are of their speaker.
- Registry: a client hears exactly its channel; private channels need their
  password; no gap between history and live messages; no ghost video, nothing
  left of a disconnected client.
- Connection: no send on a closed Go channel; order per sender and queue;
  bounded queues; signals before audio; both pumps end together.
- Recorder: listed recordings exist, the newest are listed.
- Push-to-talk: the light tells who has the floor (in hold mode); audio is heard only
  while the button is held; every request is answered; no combination of buttons, fingers
  and keys leaves the microphone open.
- Listening: the receive light is true once everything has been told, but after two
  events that the property names; the scanner does not pass by traffic unless it was
  told last that there is none; the last transmission can be replayed.
- Video: no candidate is forgotten, no offer stays open; after a call camera and
  screen are off, but for two kinds of stream that the code loses.
- Chat: a removed file is not sent; the composer recovers however an upload ends,
  but for a fallback whose file cannot be read.

## Modules

| Module | What it is |
|---|---|
| `Floor` | abstract floor: members, a set of transmitters, ranks. What a channel promises, with no flag, pointer, lock or timer |
| `Channel` | one action per method of `Channel` (each runs inside `c.mu`), plus the timer: `FireTOT` is the runtime starting the goroutine, `handleTOT` its critical section. `Timer` names the timers that may be alive at once, so a stale one and the current one coexist |
| `Transmission` | extends `Channel` with the handlers of the hub. `pc[c]` names the next critical section of the goroutine of client `c`, `other[c]` the local variable that survives between sections, `expiry` the goroutine of an expired timer, `tx` the recorder's buffer. `told`, `activity` and `late` observe what was sent |
| `Hub` | registry, history and video calls, also split at the critical sections. `got` observes which messages a client has been sent since it tuned in |
| `ClientQueue` | both Go channels, each `select` of `enqueue` and of `WritePump` one step, `Close` as the write-locked section it is. `last` and `overtaken` observe what was written |
| `Recorder` | each method under `r.mu` is one action, sizes counted in packets; `saved` and `shared` observe |
| `Console` | one console and its hub. `up` holds the frames on the way to the hub, `highPri` and `send` the answers, which may overtake each other as in `ClientQueue`. The hub changes the floor in one step and tells of it in another: `due` holds what its handlers (`handlePTTDown` of this client and of others, `handleTOTExpired`) have still to send, in any order, so that a denial can precede its grant and a stale time-out can strike before the grant is sent. What other clients do to the floor is free. `engine` is the transmitting side of `audio.js`. `steady` and `patient` observe what the user did since everything was last at rest |
| `Video` | the consoles of one channel and the hub's relay. A page has one peer connection with its signalling state and a queue of operations the browser still has to run (`createOffer`, `setRemoteDescription`, ...), each of which is a step that later messages can precede. Broadcasts and addressed signals travel in different queues, as in the code |
| `Capture` | the streams of one page. `asking` holds the functions that wait for `getUserMedia` or `getDisplayMedia`, `Granted` and `Refused` are the rest of each, and `resuming` those that wait for `switchStream` before they declare the call active; hang-ups come at any moment. `live` observes the streams whose tracks nobody has stopped, `strays` those that nobody will stop |
| `Chat` | `upload[u]` is where the `sendChatMessage` call of file `u` is: compression, transfer, base64 encoding and its failing read, the 320 ms timer. `sent` and `removed` observe |
| `Dial` | what `Listener` and `Scanner` have in common: the channels, their passwords, `changeChannel` as far as the page is concerned, messages about a channel |
| `Listener` | a page that listens, and a hub reduced to which channels are busy. `telling` holds what each handler of the hub has still to send after it changed the floor (`user_talking`; or idle and then `user_stopped`), `joins` and `joining` split a change of channel at the hub, `inbox` is what the page has not handled yet. `orderly` observes whether one of the two events has happened that mislead the light for good |
| `Scanner` | the scanner of a page, and a hub whose handlers (`task`) change a floor and broadcast `channel_activity` later, or read a channel list channel by channel and send it when it is complete, to all or to a new connection. `overtaken` observes the channels of which the page was told last that they are free, after their talker had been announced |
| `Inputs` | every way to push to talk, with the flags each keeps; the floor's answers are reduced to their effect on the two flags |
| `MCParts` | `Video`, `Chat`, `Listener`, `Scanner`, `Capture`, `Inputs` and `Recorder` side by side. They share no state, so a behaviour of the composition is one of any of them; one run checks all |
| `MCChannel`, `MCTransmission`, `MCHub`, `MCClientQueue` | instances for TLC (`Console` and `Listener` need none) |
| `...Proofs` | theorems about the module they extend; `TransmissionProofs` also extends `ChannelProofs`; `PartsProofs` extends `MCParts`, `VideoProofs` and `RecorderProofs`, proves what is known of `Chat`, `Capture`, `Inputs`, `Listener` and `Scanner`, and then of all machines side by side |

State and actions carry the names of the code where TLA+ allows it; the `map` of
`PROJECT.json` gives each definition's lines. Definitions whose comment begins
with "Mutant of" are deliberately broken variants; they are not part of any
specification and exist to show that each property can fail.

## Runs

| Run | Expect | Bounds | Shows |
|---|---|---|---|
| `channel` | pass | 3 clients, 3 ranks, 3 timers | the floor's invariants, refinement of `Floor`, no hot mic |
| `channel_stale_tot` | violation | same | a time-out that fired too late to be stopped silences the next speaker |
| `transmission_ranked` | pass | 2 clients of 2 ranks, 2 timers | one late packet at most; the handlers respect the channel's assumptions |
| `transmission_flat` | pass | 3 clients of one rank, no time-out | a client's last word is true; recordings are of their speaker; no phantom "busy" |
| `transmission_late_grant` | violation | 2 clients of 2 ranks | with preemption the last word can be false |
| `transmission_voice_note` | violation | 3 clients of one rank | a voice message can be filed under the wrong sender |
| `hub` | pass | 2 clients, 2 channels, a password, history of 1, 2 messages | tuning, passwords, no missed text, no ghost video, clean departure |
| `queue` | pass | 2 producers of 3 messages, queues of 2 | no send on a closed channel, order, one overtaking at most, both pumps end |
| `console` | pass | 2 channels, both modes, 3 messages under way or due (2 after a move, a change of mode or a lost connection), 1 packet before the grant | in hold mode the light is true, no floor is held unawares, the button is obeyed, requests are answered |
| `console_hot_mic` | violation | 1 channel, hold mode | an impatient user can be heard with the button up |
| `parts` | pass | below | candidates are used and offers settle; removed files are not sent and the composer recovers; the receive light is true and the scanner finds traffic, whatever is told late; dark after a call; no input sticks; the archive is sound |
| `listener_replay` | violation | 3 channels | what was heard never reaches the replay buffer |

The bounds of `parts`: two consoles of four moves (a start, a switch or a
hang-up each) whose users wait for each other (`Patient`); three uploads; two
channels of which one is private, two handlers of the hub at work for others at a
time, two turns of the user, new notices added only to an empty inbox; three
requests for a camera or screen; a history of two recordings, four saves within two
seconds and one restart.

**Why the bounds are enough.** A stale time-out needs one timer that has fired,
one that it orphans and one started afterwards: three timers. A preemption chain
visits three ranks. A race of the hub's handlers has two parties, and the flat
run adds a third client that is merely affected (the one whose broadcast or
recording is disturbed). A history of one lets the second message push out the
first while a client tunes in. Three messages under way hold two presses and
the release between them, or a grant, a denial and a time-out that cross. After a
move, a change of mode or a lost connection no property of the console asks for
anything until the next rest, so two are enough there. Two
producers with queues of two can both find the queue full, evict, and find it
full again, and order inside a queue is visible. Three saves overflow a history
of two, and two seconds let names repeat or not. Four moves hold two starts that
cross, a renegotiation and a hang-up. Of three uploads one can be in its timer
while the next starts and another was removed. Two handlers of the hub are what it
takes for one to be late with its news while the other ends or starts a
transmission; two channels, for a move in the middle of one, and for a scanner to
leave the busy channel and come back. Three streams are a camera, the screen that
replaces it and the camera that follows. What is
proved does not depend on any bound.

**Named bounds.** `MaxChannels`, `MaxMessages` (Hub), `MaxSends` (ClientQueue),
`MaxSaves`, `MaxClock`, `MaxRestarts` (Recorder), `MaxInFlight`, `MaxAstray` (Console),
`MaxMoves` (Video), `MaxUploads`, `MaxBubbles` (Chat), `MaxTurns`, `MaxInbox`,
`Handler` (Listener, Scanner), `MaxStreams` (Capture), `Timer` (Channel); in
`Transmission` one callback of an expired timer under way at a time, and in
`Console` one notice due of each kind and channel. None of
them is in the code; each only cuts off longer behaviours. `MaxTurns` is also an
assumption of `ScanFindsTraffic`: the user leaves the dial alone in the end.

**Assumptions about users.** They are constants, so both values can be run.
`Patient` (Video): users act only when nothing is under way between the consoles.
Offers cross all the same, since both sides may answer a start or join with one.
Only `OfferIsSettled` needs it. `Careful` (Chat): a file is removed before or
during its transfer, not while it is compressed, encoded or waiting for the timer,
and no suggestion chip is pressed during an upload. Without either, the property
that needs it is false in the code; the observations below say how.
`Answers = {"right"}` (Listener, Scanner): the user knows the password of the private
channel; with `"cancel"` the scanner stays at it. For `RxLightIsTrue` only `"wrong"`
has to be left out (`NoneRefused`): after a refused move the page shows a channel
whose messages it is not sent. Nothing is assumed of the user of `Capture`, who may
hang up, share and press V while the browser is still asking for a device.

**Deadlock** is checked in all runs but `queue`, which ends when both
pumps have returned, and `parts` and `listener_replay`, where bounded users may be
done.

**Why two transmission runs.** `LastWordIsTrue`, `RecordingIsOfSpeaker` and
`NoPhantomBusy` hold among clients of one rank without time-outs, where a floor
is given up only by its holder. Preemption (or a time-out) takes it from outside,
and the notices then overtake each other; `transmission_late_grant` shows
that the restriction is necessary. Properties that hold regardless are checked
in the ranked run.

**Why the console's properties speak of a steady or patient user.** A user is
steady while no move, change of mode or lost connection has come since the last
press that found everything at rest (no message under way, no floor held), and
patient if it has not pressed again either. Pressing before the previous answer
has come makes `PatientHoldToSpeak` and `FloorIsKnown` false, as
`console_hot_mic` shows for the former. All these
steps stay in the model: a property only stops applying until the next rest.
What such a user cannot control (early release, denials, preemption, time-outs and
stale ones, notices sent late, messages that overtake each other) may happen at any
time. `OnAirIsTrue` is also limited to hold mode: there a grant that comes
after the denial of a preemption finds the button's flag down and is given back
(`radio.js:596`), while in toggle mode it is taken, and the light stays on without
the floor, even for a patient user. That is how the page shows finding 2 below.

**What some properties leave open.** A reader should not take them for more than
they say. `Floor!Free` lets the floor be freed at any time, so `ImplementsFloor` does
not notice a time-out that ends the wrong transmission (`TimeoutEndsItsOwn` does).
`OvertakenOnce` bounds how often a signal is overtaken between the two queues, it
does not exclude it. `CandidatesAreUsed` says that no candidate is left pending, not
that it was the right one for its description. `ListedFilesExist` exempts names that
clash within a second, and a restart empties the list. `OnlyFocusSticks` is about the
two flags of the page, not about what its audio engine sends (`HoldToSpeak` is).
`NoPhantomBusy` is about a free channel shown as busy; a busy one can be shown
as free (`overtaken` in `Scanner`).

## Fairness

- `TOTFairness`: a running timer fires and its goroutine gets `c.mu`
  (`time.AfterFunc` and the Go scheduler; critical sections do not block). No
  client is assumed to release, and pressing again is allowed for ever, which is
  what `NoHotMic` is about.
- `Hub!FairSpec`: a handler that has started runs to its end; nothing in one can
  block, since `enqueue` never does. No client is assumed to send anything.
- `ClientQueue!Fairness`: producers inside `enqueue` leave it, `WritePump` moves
  when it can, `Close` gets the write lock when no producer is inside (a waiting
  Go writer keeps new readers out, so weak fairness is what the runtime gives),
  and a read on a closed connection fails. The ping is not needed, and
  nothing forces a peer to vanish.
- `Console!FairSpec`: the hub handles the frames it has, a handler that has changed
  the floor goes on to tell of it, and messages are
  delivered, while the connection lasts (TCP and the two pumps). No user and no
  other client is assumed to act, and the time-out need not fire.
- `VideoFair`: the browser runs the operations of a connection, candidates are
  gathered and messages arrive. No user has to act.
- `ChatFair`: every read, request and timer of an upload ends, in success or not; the
  fallback's read may fail, and then nothing follows.
- `ScannerFair`: a handler that has changed a floor, or is reading a channel list,
  goes on until its message is sent; the page handles its messages, and the scanner's
  interval timer ticks. Nobody has to speak, stop, scan or reconnect.
- `FairListenerSpec` (only for `listener_replay`): the page handles its messages.

In `parts` a machine that does not run stays in its initial state, in which none
of its fair steps is enabled, so its fairness asks for nothing.
`Transmission`, `Capture`, `Inputs`, `Recorder` and, in `parts`, `Listener` are
checked for safety only.

## What is proved

Each theorem is for any values of the constants, from the named ASSUME of the
module (such as: nil is no client, a capacity is positive) and nothing else unless
the table says so.

| Module | Theorem | States |
|---|---|---|
| `ChannelProofs` | `TypeCorrect` | `[]ChannelTypeOK` |
| | `SpeakerAlwaysTuned` | `[]SpeakerIsTuned` |
| | `SpeakerAlwaysTimed` | `[]SpeakerIsTimed` |
| | `OrphansOnlyByExpiry` | only a stale expiry leaves a timer that cannot be stopped |
| | `PreemptionByRank` | the floor passes directly only to a higher rank |
| | `Refinement` | `ChannelSpec` implements `Floor` |
| `TransmissionProofs` | `HandlersTypeCorrect` | `[]TypeOK` |
| | `HandlersUseChannel` | the handlers implement `ChannelSpec`, so all of `ChannelProofs` holds of them |
| | `HandlersImplementFloor` | and with it the abstract floor |
| | `OneLatePacket` | `[]AtMostOneLatePacket` |
| | `LastWordHolds`, `RecordingsArePure`, `NoBusyGhost` | `[]LastWordIsTrue`, `[]RecordingIsOfSpeaker`, `[]NoPhantomBusy`, assuming `Flat` (one rank, no time-out) |
| `HubProofs` | `HubTypeCorrect` | `[]TypeOK` |
| | `OneChannelEach` | `[]TunedToOne` |
| | `PrivacyHolds` | `[]PrivateNeedsPassword` |
| | `NoTextIsMissed` | `[]NoChatGap` |
| | `NoGhostVideo` | `[]VideoSenderIsPresent` |
| | `GoneIsGone` | a client whose `UnregisterClient` has returned is on no channel and has no video call |
| `ClientQueueProofs` | `QueuesAreBounded` | `[]TypeOK`, the length of the queues included |
| | `ClosedChannelsAreQuiet` | `[]NoSendOnClosed` |
| | `OrderHolds` | `[]OrderIsKept` |
| | `SignalsWaitOnce` | `[]OvertakenOnce` |
| | `NoPumpEndsAlone` | a pump that has returned has closed the connection |
| `ConsoleProofs` | `ConsoleTypeCorrect` | `[]TypeOK` |
| | `ConsoleInvariant` | `[]ConsoleInv`, below |
| | `OnAirIsAlwaysTrue` | `[]OnAirIsTrue`: hold mode, whatever is sent late |
| | `FloorIsAlwaysKnown` | `[]FloorIsKnown` |
| | `PatientIsNotOverheard` | `PatientHoldToSpeak` |
| | `NoRequestIsLost` | while a patient user waits, the request or its answer is on the way |
| `RecorderProofs` | `RecorderTypeCorrect` | `[]RecorderTypeOK` |
| | `ListedCanBePlayed` | `[]ListedFilesExist` |
| | `NewestAreKept` | `[]NewestAreListed` |
| `VideoProofs` | `VideoTypeCorrect` | `[]VideoTypeOK`, for any number of consoles, patient or not |
| | `NoCandidateIsLeft` | `[]CandidatesAreUsed`, likewise |
| `PartsProofs` | `ChatTypeCorrect` | `[]ChatTypeOK`, careful or not |
| | `ButtonWaitsForUpload` | the send button is disabled only while an upload is still to end, or after a fallback that could not read its file, careful or not |
| | `RemovedIsNotSent` | `[]CancelledIsNotSent`, assuming `Careful` |
| | `CaptureTypeCorrect` | `[]CaptureTypeOK` |
| | `AlwaysDarkWhenOver` | `[]DarkWhenOver`, whenever the user hangs up |
| | `InputsTypeCorrect`, `NothingElseSticks` | `[]InputsTypeOK`, `[]OnlyFocusSticks` |
| | `ListenerTypeCorrect` | `[]ListenerTypeOK`, whatever the user answers |
| | `LightInvariant`, `RxLightIsAlwaysTrue` | `[]LightInv`, `[]RxLightIsTrue`, assuming `NoneRefused` (no wrong password) |
| | `ScannerTypeCorrect` | `[]ScannerTypeOK` |
| | `PartsImplementAll` | `PartsSpec` implements the specification of each machine, fairness included |
| | `PartsTypeCorrect` | `[]PartsTypeOK`, nothing assumed of the users |
| | `PartsAreSafe` | all invariants of the run `parts`, assuming `Careful` and `NoneRefused` |

**The inductive invariants**, and what each adds to the property:

- `ChannelInv`: types, `SpeakerIsTuned`, that the timer the channel knows of is
  alive, and that a speaker has one. Without "the known timer is alive" a grant
  could be handed a timer of unknown state, and `clearFloor` would not be known to
  leave no live timer behind. `NextInv` goes through the actions with the effect of
  `cancelTOT` and `restartTOT` as lemmas. The refinement maps `transmitters` to the
  clients for whom `IsFloorHolder` is true; `HoldersAre` shows that this is the
  empty set or the speaker alone, and every step is then `Join`, `Leave`, `Rerank`,
  `Take`, `Preempt`, `Free` or a stutter.
- `TransmissionInv`: `ChannelInv`; `Present`, that a client is subscribed exactly
  while its goroutine is not away or leaving, which is what makes every call of the
  channel one that `ChannelNext` allows; and `Punctual`, that whoever has the floor
  or is past its check has sent no packet late, without which a second late packet
  could follow the first. `HoldersAsked` shows that the floor comes to a client only
  through its own request.
- `FlatInv` adds what a handler knows of the floor between two sections
  (`KnowsFloor`), and that a free channel shown as busy has somebody on the way to
  say that it is idle. The proof separates the actor of a step (`ActorKnows`) from
  everybody else (`BystanderKnows`).
- `HubInv`: the shapes of the tables; `PasswordsGiven`, that a client on its way to
  a private channel already gave its password; `OnItsWay`, that message numbers are
  used once and a text in a history is broadcast, if still under way, to the
  channel it is remembered on. `NoChatGap` needs the last one: a message missing
  from what a client got is still in somebody's hands. `Contained` adds the types of
  what the tables hold. `GoneIsGone` is `TunedToOne` and `VideoSenderIsPresent` read
  for a client that is off.
- `QueueInv` and `OrderInv`: producers inside `enqueue` keep `Close` out; a
  producer inside has not yet put its newest number anywhere (`Numbered`), so what
  it puts is newer than all it put before, also after an eviction between two
  selects.
- `ConsoleInv` says what the frames, the answers and the notices still to be sent will
  do. No order among these is assumed: a denial or a time-out may be sent, or arrive,
  before the grant it revokes. `SteadyInv`: while the user is steady, all of them are
  about the channel shown. `ButtonInv`: in hold mode a console on the air has its
  request open, which is why a late grant, finding the request closed by the denial,
  is given back. `RequestInv`: a request that the console has not given up is on its
  way with no release behind it, or the floor is held, or a denial or time-out is
  due or on its way; without it a light could stay lit after the floor was lost. For
  a patient user `OneRequest` (nothing else is under way or due with a request on its
  way), `FloorInv` (a held floor is shown, about to be shown, or on its way back, and
  no news of its loss is to come) and `SpeechInv` (all packets under way were spoken
  on purpose, and the engine runs only while the request stands). Queues and notices
  appear only through a few predicates, and lemmas say what sending and delivering a
  message does to each, so that the step for an action is propositional.
- `RecorderInv` adds that a name stands for one recording unless it was written
  twice, so pruning the oldest entry deletes no other entry's file.
- `VideoInv` adds the types of pages and of messages on the way, per console: what
  reaches `c` was sent by somebody else, so no page becomes its own peer; and a
  closed connection has no operation left to run, which an operation's failure or a
  late hang-up could otherwise leave behind.
- `ChatInv`: one upload at a time, and the transfer that runs is the one that a
  removal aborts. The types and `LastDisables`, which strengthens `DisabledByUpload`
  to the last file sent, are inductive without a careful user.
- `LightInv` (Listener) follows the light through the messages under way and due:
  `Ends` says how it stands when all in the inbox have been handled. `LightGoesOut`:
  once every request under way is for the channel the client is on, and nobody speaks
  there, the status of the channel is still to be sent, or a handler has still to
  say that the transmission has ended, or what is in the inbox puts the light out.
  Before that nothing is claimed: the page drops what is not of the channel it shows.
  It needs `TalkIsTrue` (a `user_talking` still to be sent is about a transmission that
  runs, unless the first exception has happened), and `ShownIsAskedFor`, that the
  channel shown is the last one asked for, or one that a reconnection has taken the
  client from, with the light out. There `NoneRefused` is needed.
- `CaptureInv`: only the stream shown and the strays are live, and outside a call the
  stream shown, if any, is a stray. `InputsInv`: in hold mode, whoever talks holds
  something whose release will be noticed.

The invariants were checked by TLC on small instances before they were proved.

**The hypotheses.** `Flat`, `Careful` and `NoneRefused` are each satisfied by
the constants of a run, and each is needed: without it TLC refutes a property it
is used for.
Conditions on the user of `Console` are not hypotheses but part of its properties
(`steady`, `patient`).

**Only model-checked:** what is said under fairness (`NoHotMic`,
`LeavesNothingBehind`, `PumpsEndTogether`, `RequestIsAnswered`, `OfferIsSettled`,
`ComposerRecovers`, `ScanFindsTraffic`), since liveness under fairness and ENABLED
are beyond the prover. For five of them the safety half is proved, that what has to
happen can always still happen: a speaker has a live timer (`SpeakerAlwaysTimed`), a
handler that has returned has cleaned up (`GoneIsGone`), a pump ends by closing
(`NoPumpEndsAlone`), a request or its answer is under way (`NoRequestIsLost`), a
disabled button has an upload, or a failed read, behind it (`ButtonWaitsForUpload`). For
`OfferIsSettled` and `ScanFindsTraffic` the progress itself is the whole content.

## Findings

Each is the counterexample of a violation run.

1. `channel_stale_tot`: `Stop` on a timer that has fired does nothing; its
   `handleTOT`, waiting for `c.mu` while the floor changes hands, clears the new
   transmission, and forgets (without stopping) the new speaker's timer.
2. `transmission_late_grant`: "granted" is sent after the lock is given back; a
   preemption's "denied" can precede it, and two consoles show that they are on
   the air.
3. `transmission_voice_note`: `handlePTTUp` ends "the recording of the channel",
   which after the release may be that of the next speaker, and files it under the
   name of the previous one.
4. `listener_replay`: every handler that ends a transmission sends `floor_status`
   idle before `user_stopped`; the console's branch for idle clears `isReceiving`,
   so the end of a transmission is not processed, unless another one has been
   announced between the two messages, and the replay buffer stays empty.
5. `console_hot_mic`: a denial clears the console's flags but leaves the audio
   engine sending; with a second press under way, the next grant makes the
   microphone heard with the button up, and no `ptt_up` follows.

Smaller observations made while modelling, which shape the properties but have no
run:

- Hub and channel: a departing speaker's buffer is never ended (`hub.go:134`); a
  voice message is broadcast before it is remembered (`hub.go:690`); the video call
  is deleted in a second critical section without a second look at its sender
  (`hub.go:511`); a role is read by one client's handler while another writes it
  (`hub.go:192`; a torn value ranks lowest, like the unrecognised role of
  `MCChannel`).
- Connection: a full queue can lose the newest message when two producers evict at
  once (`client.go:123`).
- Recorder: a file name repeats within a second (`recorder.go:139`, the exception
  in `ListedFilesExist`); after a restart the list starts empty (`recorder.go:68`),
  so older files are outside the pruning that `recorder.go:161` speaks of.
- Push-to-talk: a channel change during a request does not release it
  (`radio.js:1081`); a space bar released inside an input field is not noticed
  (`radio.js:1669`, the exception in `OnlyFocusSticks`); in toggle mode a
  grant that is sent after the floor was preempted or timed out is taken
  (`radio.js:596`, hence hold mode in `OnAirIsTrue`); the voice button of the
  chat ends a transmission that was toggled on. The repository's README calls `M`
  a mute of the microphone (line 192): it mutes the loudspeaker.
- Video: in spite of the comment at `radio.js:3842` both sides can offer at once;
  when the console with the lower id is already in the call and the other starts,
  nobody offers (`radio.js:3811`, `3844`). With three consoles or impatient users an
  offer can stay unanswered, a stale answer be applied, and a late start close a
  connection that is answering.
- Camera: a flip or the end of a share that is granted after a hang-up leaves the
  camera on (`radio.js:3640`, `3763`); `startVideoCall` refused a camera, `V` during a
  share included, forgets the stream that is shown without stopping it
  (`radio.js:3514`): these are the `strays` of `DarkWhenOver`. A call hung up while a
  device is asked for is opened again by the answer. `isCameraMuted` stays set while a
  new stream sends pictures.
- Chat: removing a file while it is compressed or encoded, or during the 320 ms of
  the clearing timer, does not cancel it; with two transfers only the newest can be
  aborted; the timer also wipes a file chosen meanwhile; a message goes to the
  channel that is current when its upload ends; the fallback has no `reader.onerror`,
  so a failed
  read leaves the button disabled until the file is removed (`radio.js:3084`, the
  exception in `ComposerRecovers`). A chat history
  that crosses a live message loses or repeats it (`radio.js:3147`).
- Listening: a move that the hub refuses (a wrong password) leaves the page on a
  channel it does not hear, with the receive light as it was. A connection lost during
  a transmission leaves the light lit, and a new connection is not told who speaks
  (`radio.js:436`, `hub.go:60`); a `user_talking` that is sent after its transmission
  was preempted and ended lights the light with nobody speaking (`hub.go:639`): the
  two exceptions of `RxLightIsTrue`. Whoever joins in the
  middle of a transmission sees no receive light
  until the next; a scanner whose user cancels the password prompt stays at that
  channel;
  a `channel_activity` of an earlier end that is sent after the next speaker's own
  (`hub.go:740`: first the recording is written), or a channel list read before and
  sent after it, shows the channel as free for the whole transmission, and the scanner
  passes it by, although `src/README.md:197` says "monitors all channels" (`overtaken`,
  the exception in `ScanFindsTraffic`); a late answer of the REST call that loads the
  channels replaces a newer
  `channel_list`.

## What is not modelled, and why

- Contents, wording and layout of messages; metrics counters; logs.
- Pure relays (`alert_tone`, `all_call`, `location_update`) and the roster
  broadcast: they read the subscribers and send. What the console shows of them (alert
  tones, the roster, the activity log) is left out. Their order against other
  messages is that of `ClientQueue`.
- The RoIP gateway: its only state is a table of peers that grows, it relays
  without answers, time-outs or retries, and injects audio without regard to the
  floor; nothing in the repository promises otherwise.
- The packet header: a pure function of eight bytes with a round-trip test.
- HTTP serving and files behind it, configuration, presentation, map, sound
  synthesis and signal processing.

## Plan

Done, in this order: `Floor`, `Channel`, `Transmission`, `Hub`, `ClientQueue`,
`Recorder`, `Console`; then `Video`, `Chat`, `Listener`, `Scanner`, `Capture`,
`Inputs` and their composition; proofs of all invariants and safety action properties that the
runs check, under the assumptions stated above, and of the safety halves of the
liveness properties where there is one.

What is left: `Console` with the eviction of `ClientQueue`'s `send` queue, so that
a time-out notice can be lost; the roster broadcast in `Hub`; the invariant behind
`OfferIsSettled` (an offer under way has its answer, its rollback or the end of its
connection under way), which needs the order of two queues per pair of consoles.
