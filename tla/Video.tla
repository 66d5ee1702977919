------------------------------- MODULE Video -------------------------------
(***************************************************************************)
(* WebRTC signalling of the web consoles tuned to one channel              *)
(* (static/js/radio.js, lines 3427 to 4062) through the hub.               *)
(*                                                                         *)
(* Each console has at most one peer connection.  The browser runs the     *)
(* operations of a connection one after the other, while other messages    *)
(* are handled; those of a closed connection never complete.  Starts,      *)
(* joins and ends are broadcast through the send queue, offers, answers    *)
(* and candidates reach their target through highPri.  An offer and the    *)
(* answers to it are named by a number, a candidate has no content.        *)
(***************************************************************************)
EXTENDS Naturals, Sequences, FiniteSets

CONSTANTS
    Console,     \* the client ids, compared as the code compares strings
    Patient,     \* users wait until nothing is under way
    MaxMoves     \* bound on what the users do

ASSUME VideoAssumption ==
    Console \subseteq Nat \ {0} /\ Patient \in BOOLEAN /\ MaxMoves \in Nat

VARIABLES
    console,       \* the state of each page
    videoSend, videoHighPri,   \* messages on the way to each console
    activeVideo,   \* the hub's activeVideoByChannel (its sender, 0 for none)
    offers,        \* how many offers were made
    moves          \* how often a user started, switched or ended

videoVars == <<console, videoSend, videoHighPri, activeVideo, offers, moves>>

NoPC == [sig |-> "closed", to |-> 0, offer |-> 0, remote |-> 0, agreed |-> 0,
         conn |-> "new", gathers |-> 0, candidates |-> {}]
NewPC(to) == [NoPC EXCEPT !.sig = "stable", !.to = to]
Operations(op, to, of, then) == [op |-> op, to |-> to, of |-> of, announce |-> then]
Op(op, to, of) == Operations(op, to, of, FALSE)
Message(type, from, of) == [type |-> type, from |-> from, of |-> of]

VideoInit ==
    /\ console = [c \in Console |->
          [isVideoCallActive |-> FALSE, pc |-> NoPC, peer |-> 0, pending |-> {}, ops |-> <<>>]]
    /\ videoSend = [c \in Console |-> <<>>]
    /\ videoHighPri = [c \in Console |-> <<>>]
    /\ activeVideo = 0 /\ offers = 0 /\ moves = 0

----------------------------------------------------------------------------
Set(c, v) == console' = [console EXCEPT ![c] = v]
Do(v, op) == [v EXCEPT !.ops = Append(@, op)]
Done(c) == [console[c] EXCEPT !.ops = Tail(@)]
Quietly == UNCHANGED <<videoSend, videoHighPri, activeVideo, offers, moves>>

Broadcast(c, types) ==
    videoSend' = [d \in Console |-> IF d = c THEN videoSend[d]
                    ELSE videoSend[d] \o [i \in DOMAIN types |-> Message(types[i], c, 0)]]

Tell(c, d, type, of) ==
    videoHighPri' = [videoHighPri EXCEPT ![d] = Append(@, Message(type, c, of))]

(* video_call_start is remembered by the hub, video_join is relayed. *)
Announce(c) == Broadcast(c, <<"start", "join">>) /\ activeVideo' = c

(* Closes the old connection; its operations never complete. *)
setupPeerConnection(v, to, isInitiator) ==
    [v EXCEPT !.pc = NewPC(to), !.peer = to, !.pending = {},
              !.ops = IF isInitiator THEN <<Op("createOffer", to, 0)>> ELSE <<>>]

(* Mutant of flushPendingIceCandidates: the queue is left alone. *)
FlushNothing(v) == v

flushPendingIceCandidates(v) ==
    [v EXCEPT !.pending = {}, !.pc.candidates = @ \cup v.pending]

(* switchStream: a connection with a known peer is negotiated again. *)
Renegotiates(v) == v.pc.sig # "closed" /\ v.peer # 0
                   /\ (v.pc.conn = "connected" \/ v.pc.sig = "stable")

(* Both ends have applied an offer and the answer to it. *)
Agree(c, d) == LET p == console[c].pc  q == console[d].pc IN
    /\ p.to = d /\ q.to = c
    /\ p.agreed # 0 /\ q.agreed = p.agreed /\ p.remote = p.agreed /\ q.remote = p.agreed

NothingUnderWay == \A c \in Console :
    /\ console[c].ops = <<>> /\ console[c].pc.gathers = 0
    /\ videoSend[c] = <<>> /\ videoHighPri[c] = <<>>

VideoQuiet ==
    /\ NothingUnderWay
    /\ \A c \in Console : LET p == console[c].pc IN
          /\ p.conn = "new" => p.agreed = 0
          /\ p.conn = "connected" => Agree(c, p.to)

Move == moves < MaxMoves /\ moves' = moves + 1 /\ (Patient => VideoQuiet)

(* startVideoCall, startScreenShare: announced once the stream is switched. *)
Start(c) ==
    LET v == [console[c] EXCEPT !.isVideoCallActive = TRUE] IN
    /\ Move
    /\ IF Renegotiates(v)
       THEN /\ Set(c, Do(v, Operations("createOffer", v.peer, 0, TRUE)))
            /\ UNCHANGED <<videoSend, activeVideo>>
       ELSE Set(c, v) /\ Announce(c)
    /\ UNCHANGED <<videoHighPri, offers>>

(* flipCamera, stopScreenShare: the stream is switched, nothing announced. *)
Switch(c) ==
    /\ Move
    /\ console[c].isVideoCallActive /\ Renegotiates(console[c])
    /\ Set(c, Do(console[c], Op("createOffer", console[c].peer, 0)))
    /\ UNCHANGED <<videoSend, videoHighPri, activeVideo, offers>>

(* endVideoCall: the hub tells the others only of the sender it remembers. *)
HangUp(c) ==
    /\ Move
    /\ console[c].isVideoCallActive
    /\ Set(c, [console[c] EXCEPT !.isVideoCallActive = FALSE,
                                 !.pc = NoPC, !.peer = 0, !.ops = <<>>])
    /\ IF activeVideo = c THEN Broadcast(c, <<"end">>) /\ activeVideo' = 0
       ELSE UNCHANGED <<videoSend, activeVideo>>
    /\ UNCHANGED <<videoHighPri, offers>>

----------------------------------------------------------------------------
(* The operations of a connection, with what the code does after each.     *)

Operation(c, op) == console[c].ops # <<>> /\ Head(console[c].ops).op = op

Failed(c, v) ==
    IF Head(console[c].ops).announce
    THEN Set(c, v) /\ Announce(c) /\ UNCHANGED <<videoHighPri, offers, moves>>
    ELSE Set(c, v) /\ Quietly

CreateOffer(c) ==
    LET op == Head(console[c].ops) IN
    /\ Operation(c, "createOffer")
    /\ IF console[c].pc.sig \in {"stable", "have-local-offer"}
       THEN Set(c, Do(Done(c), [op EXCEPT !.op = "setLocalOffer"])) /\ Quietly
       ELSE Failed(c, Done(c))

SetLocalOffer(c) ==
    LET op == Head(console[c].ops) IN
    /\ Operation(c, "setLocalOffer")
    /\ IF console[c].pc.sig \in {"stable", "have-local-offer"}
       THEN /\ Set(c, [Done(c) EXCEPT !.pc.sig = "have-local-offer", !.pc.offer = offers + 1,
                                      !.pc.gathers = offers + 1])
            /\ offers' = offers + 1
            /\ Tell(c, op.to, "offer", offers + 1)
            /\ IF op.announce THEN Announce(c) ELSE UNCHANGED <<videoSend, activeVideo>>
            /\ UNCHANGED moves
       ELSE Failed(c, Done(c))

(* Without a local offer the rollback fails, and a new connection is made. *)
Rollback(c) ==
    LET op == Head(console[c].ops)
        v == IF console[c].pc.sig = "have-local-offer"
             THEN [Done(c) EXCEPT !.pc.sig = "stable", !.pc.offer = 0]
             ELSE setupPeerConnection(console[c], op.to, FALSE)
    IN  /\ Operation(c, "rollback")
        /\ Set(c, Do(v, Op("setRemoteOffer", op.to, op.of)))
        /\ Quietly

(* The browser itself rolls back a local offer that is still pending. *)
SetRemoteOffer(c) ==
    LET op == Head(console[c].ops)
        v == [Done(c) EXCEPT !.pc.sig = "have-remote-offer", !.pc.offer = 0, !.pc.remote = op.of]
    IN  /\ Operation(c, "setRemoteOffer")
        /\ Set(c, Do(flushPendingIceCandidates(v), Op("createAnswer", op.to, 0)))
        /\ Quietly

CreateAnswer(c) ==
    /\ Operation(c, "createAnswer")
    /\ Set(c, IF console[c].pc.sig = "have-remote-offer"
              THEN Do(Done(c), Op("setLocalAnswer", Head(console[c].ops).to, 0))
              ELSE Done(c))
    /\ Quietly

SetLocalAnswer(c) ==
    LET remote == console[c].pc.remote IN
    /\ Operation(c, "setLocalAnswer")
    /\ IF console[c].pc.sig = "have-remote-offer"
       THEN /\ Set(c, [Done(c) EXCEPT !.pc.sig = "stable", !.pc.agreed = remote,
                                      !.pc.gathers = remote])
            /\ Tell(c, Head(console[c].ops).to, "answer", remote)
            /\ UNCHANGED <<videoSend, activeVideo, offers, moves>>
       ELSE Set(c, Done(c)) /\ Quietly

SetRemoteAnswer(c) ==
    /\ Operation(c, "setRemoteAnswer")
    /\ Set(c, IF console[c].pc.sig = "have-local-offer"
              THEN flushPendingIceCandidates(
                      [Done(c) EXCEPT !.pc.sig = "stable", !.pc.offer = 0,
                                      !.pc.remote = Head(console[c].ops).of,
                                      !.pc.agreed = console[c].pc.offer])
              ELSE Done(c))
    /\ Quietly

(* onicecandidate, after a local description was set. *)
Gather(c) ==
    /\ console[c].pc.gathers # 0
    /\ Set(c, [console[c] EXCEPT !.pc.gathers = 0])
    /\ Tell(c, console[c].pc.to, "ice", console[c].pc.gathers)
    /\ UNCHANGED <<videoSend, activeVideo, offers, moves>>

(* onconnectionstatechange: a connection forms between ends that agree,    *)
(* and fails when the other end does not (any more).                       *)
Connect(c) ==
    /\ console[c].pc.agreed # 0
    /\ IF Agree(c, console[c].pc.to)
       THEN /\ console[c].pc.conn # "connected"
            /\ Set(c, [console[c] EXCEPT !.pc.conn = "connected"])
       ELSE /\ console[c].pc.conn # "failed" /\ NothingUnderWay
            /\ Set(c, [console[c] EXCEPT !.pc.conn = "failed",
                                         !.peer = IF @ = console[c].pc.to THEN 0 ELSE @])
    /\ Quietly

----------------------------------------------------------------------------
(* The messages.                                                           *)

handleVideoCallStart(c, v, from) ==
    IF v.isVideoCallActive /\ (v.pc.sig = "closed" \/ v.pc.conn = "failed")
    THEN setupPeerConnection(v, from, c > from) ELSE v

handleVideoJoin(c, v, from) ==
    IF ~v.isVideoCallActive \/ (v.pc.conn = "connected" /\ v.peer = from) THEN v
    ELSE setupPeerConnection(v, from, c > from)

handleVideoCallEnd(v, from) ==
    IF v.peer \notin {0, from} THEN v
    ELSE [v EXCEPT !.pc = NoPC, !.peer = 0, !.pending = {}, !.ops = <<>>]

(* Mutant of isPolite: both sides insist on their offer. *)
NobodyIsPolite(c, from) == FALSE

(* Of two offers that cross, that of the higher id stands. *)
isPolite(c, from) == c < from

handleVideoOffer(c, v, m) ==
    LET w == [v EXCEPT !.isVideoCallActive = TRUE] IN
    IF w.pc.sig = "have-local-offer"
    THEN IF isPolite(c, m.from) THEN Do(w, Op("rollback", m.from, m.of)) ELSE w
    ELSE Do(IF w.pc.sig = "closed" \/ w.peer # m.from
            THEN setupPeerConnection(w, m.from, FALSE) ELSE w,
            Op("setRemoteOffer", m.from, m.of))

handleVideoAnswer(v, m) ==
    IF v.pc.sig = "have-local-offer" THEN Do(v, Op("setRemoteAnswer", m.from, m.of)) ELSE v

handleVideoICE(v, m) ==
    IF v.pc.remote = 0 THEN [v EXCEPT !.pending = @ \cup {m.of}]
    ELSE [v EXCEPT !.pc.candidates = @ \cup {m.of}]

ReceiveBroadcast(c) ==
    LET m == Head(videoSend[c])  v == console[c] IN
    /\ videoSend[c] # <<>>
    /\ Set(c, CASE m.type = "start" -> handleVideoCallStart(c, v, m.from)
                [] m.type = "join" -> handleVideoJoin(c, v, m.from)
                [] m.type = "end" -> handleVideoCallEnd(v, m.from))
    /\ videoSend' = [videoSend EXCEPT ![c] = Tail(@)]
    /\ UNCHANGED <<videoHighPri, activeVideo, offers, moves>>

ReceiveSignal(c) ==
    LET m == Head(videoHighPri[c])  v == console[c] IN
    /\ videoHighPri[c] # <<>>
    /\ Set(c, CASE m.type = "offer" -> handleVideoOffer(c, v, m)
                [] m.type = "answer" -> handleVideoAnswer(v, m)
                [] m.type = "ice" -> handleVideoICE(v, m))
    /\ videoHighPri' = [videoHighPri EXCEPT ![c] = Tail(@)]
    /\ UNCHANGED <<videoSend, activeVideo, offers, moves>>

----------------------------------------------------------------------------
Browser(c) ==
    \/ CreateOffer(c) \/ SetLocalOffer(c) \/ Rollback(c) \/ SetRemoteOffer(c)
    \/ CreateAnswer(c) \/ SetLocalAnswer(c) \/ SetRemoteAnswer(c)

Progress(c) == Browser(c) \/ Gather(c) \/ Connect(c) \/ ReceiveBroadcast(c) \/ ReceiveSignal(c)

VideoNext == \E c \in Console : Start(c) \/ Switch(c) \/ HangUp(c) \/ Progress(c)

VideoFair == \A c \in Console : WF_videoVars(Progress(c))

VideoSpec == VideoInit /\ [][VideoNext]_videoVars /\ VideoFair

----------------------------------------------------------------------------
(* The types; a page has a peer only while it has a connection.            *)
VideoTypeOK ==
    /\ activeVideo \in Console \cup {0} /\ offers \in Nat /\ moves \in 0..MaxMoves
    /\ \A c \in Console : LET v == console[c] IN
          /\ v.isVideoCallActive \in BOOLEAN
          /\ v.pc.sig \in {"closed", "stable", "have-local-offer", "have-remote-offer"}
          /\ v.peer \in (Console \ {c}) \cup {0}
          /\ v.pc.sig = "closed" => v.peer = 0 /\ v.ops = <<>>

(* ICE candidates overtake the description they belong to: they are kept,  *)
(* and none is left behind once a description has been applied.            *)
CandidatesAreUsed == \A c \in Console : console[c].pc.remote # 0 => console[c].pending = {}

(* Two consoles whose offers cross do not stay waiting for an answer: every *)
(* offer made is answered, rolled back or dropped with its connection.     *)
OfferIsSettled == \A c \in Console :
    console[c].pc.sig = "have-local-offer" ~> console[c].pc.sig # "have-local-offer"
=============================================================================
