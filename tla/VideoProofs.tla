---------------------------- MODULE VideoProofs ----------------------------
(***************************************************************************)
(* Proofs about Video, for any number of consoles, any users and any       *)
(* interleaving of browsers and messages: no ICE candidate is left behind, *)
(* no page ever talks to itself, and one without a connection has neither  *)
(* a peer nor operations to run.                                           *)
(***************************************************************************)
EXTENDS Video, SequenceTheorems, TLAPS

SigState == {"closed", "stable", "have-local-offer", "have-remote-offer"}

(* Whom console c may talk to. *)
Peers(c) == Console \ {c}

PeerConnection(c) ==
    [sig : SigState, to : Peers(c) \cup {0}, offer : Nat, remote : Nat, agreed : Nat,
     conn : {"new", "connected", "failed"}, gathers : Nat, candidates : SUBSET Nat]

QueuedOp(c) ==
    [op : {"createOffer", "setLocalOffer", "rollback", "setRemoteOffer", "createAnswer",
           "setLocalAnswer", "setRemoteAnswer"},
     to : Peers(c), of : Nat, announce : BOOLEAN]

Page(c) == [isVideoCallActive : BOOLEAN, pc : PeerConnection(c), peer : Peers(c) \cup {0},
            pending : SUBSET Nat, ops : Seq(QueuedOp(c))]

(* A page with a remote description keeps no candidate back; one without a *)
(* connection has no peer and nothing to run.                              *)
Used(v) == v.pc.remote # 0 => v.pending = {}
Hung(v) == v.pc.sig = "closed" => v.peer = 0 /\ v.ops = <<>>
Good(c, v) == v \in Page(c) /\ Used(v) /\ Hung(v)

(* What reaches console c comes from the others. *)
Relayed(c) == [type : {"start", "join", "end"}, from : Peers(c), of : Nat]
Signalled(c) == [type : {"offer", "answer", "ice"}, from : Peers(c), of : Nat]

Wires ==
    /\ DOMAIN videoSend = Console /\ DOMAIN videoHighPri = Console
    /\ \A c \in Console : /\ videoSend[c] \in Seq(Relayed(c))
                          /\ videoHighPri[c] \in Seq(Signalled(c))
    /\ offers \in Nat

VideoInv ==
    /\ DOMAIN console = Console
    /\ \A c \in Console : Good(c, console[c])
    /\ Wires
    /\ activeVideo \in Console \cup {0} /\ moves \in 0..MaxMoves

----------------------------------------------------------------------------
(* No console is numbered zero, and nobody is a peer of itself. *)
LEMMA PeerFacts ==
  ASSUME NEW c \in Console
  PROVE  c # 0 /\ c \notin Peers(c) /\ 0 \notin Peers(c) /\ Peers(c) \subseteq Console
  BY VideoAssumption DEF VideoAssumption, Peers

(* A connection that is closed or new has no remote description.           *)
LEMMA FreshConnection ==
  ASSUME NEW c \in Console
  PROVE  /\ NoPC \in PeerConnection(c) /\ NoPC.remote = 0
         /\ \A to \in Peers(c) : /\ NewPC(to) \in PeerConnection(c) /\ NewPC(to).remote = 0
                                 /\ NewPC(to).sig = "stable"
  BY VideoAssumption DEF VideoAssumption, NoPC, NewPC, PeerConnection, SigState

(* Another operation for a connection that is open. *)
LEMMA DoIsGood ==
  ASSUME NEW c \in Console, NEW v, Good(c, v), v.pc.sig # "closed", NEW op \in QueuedOp(c)
  PROVE  Good(c, Do(v, op))
<1>1. Append(v.ops, op) \in Seq(QueuedOp(c))
  BY DEF Good, Page
<1> HIDE DEF QueuedOp
<1> QED
  BY <1>1 DEF Do, Good, Used, Hung, Page

(* setupPeerConnection forgets the candidates of the old connection.       *)
LEMMA SetupIsGood ==
  ASSUME NEW c \in Console, NEW v, Good(c, v), NEW to \in Peers(c), NEW isInitiator \in BOOLEAN
  PROVE  /\ Good(c, setupPeerConnection(v, to, isInitiator))
         /\ setupPeerConnection(v, to, isInitiator).pc.sig # "closed"
<1> DEFINE ops == IF isInitiator THEN <<Op("createOffer", to, 0)>> ELSE <<>>
<1>1. ops \in Seq(QueuedOp(c))
  <2>1. Op("createOffer", to, 0) \in QueuedOp(c)
    BY DEF Op, Operations, QueuedOp
  <2> HIDE DEF Op
  <2> QED
    BY <2>1
<1>2. setupPeerConnection(v, to, isInitiator) =
        [v EXCEPT !.pc = NewPC(to), !.peer = to, !.pending = {}, !.ops = ops]
  BY DEF setupPeerConnection
<1> HIDE DEF ops
<1> DEFINE pc == NewPC(to)
<1>3. pc \in PeerConnection(c) /\ pc.remote = 0 /\ pc.sig = "stable"
  BY FreshConnection
<1> DEFINE w == [v EXCEPT !.pc = pc, !.peer = to, !.pending = {}, !.ops = ops]
<1>4. w = setupPeerConnection(v, to, isInitiator)
  BY <1>2
<1> HIDE DEF pc
<1>5. v \in Page(c) BY DEF Good
<1>6. w \in Page(c) /\ w.pc = pc /\ w.pending = {}
  BY <1>1, <1>3, <1>5 DEF Page
<1> HIDE DEF w
<1>7. Good(c, w) /\ w.pc.sig # "closed"
  BY <1>3, <1>6 DEF Good, Used, Hung
<1> QED BY <1>4, <1>7

(* flushPendingIceCandidates makes up for any description just set. *)
LEMMA FlushIsGood ==
  ASSUME NEW c \in Console, NEW v \in Page(c), Hung(v)
  PROVE  /\ Good(c, flushPendingIceCandidates(v))
         /\ flushPendingIceCandidates(v).pc.sig = v.pc.sig
<1>1. v.pc.candidates \cup v.pending \in SUBSET Nat
  BY DEF Page, PeerConnection
<1>2. [v.pc EXCEPT !.candidates = @ \cup v.pending] \in PeerConnection(c)
  BY <1>1 DEF Page, PeerConnection
<1>3. flushPendingIceCandidates(v) =
        [v EXCEPT !.pending = {}, !.pc = [v.pc EXCEPT !.candidates = @ \cup v.pending]]
  BY DEF flushPendingIceCandidates, Page
<1> QED
  BY <1>2, <1>3 DEF Good, Used, Hung, Page, PeerConnection

(* The operation that has been run is taken off. *)
LEMMA DoneIsGood ==
  ASSUME NEW c \in Console, Good(c, console[c]), console[c].ops # <<>>
  PROVE  /\ Good(c, Done(c)) /\ Done(c).pc = console[c].pc
         /\ Head(console[c].ops) \in QueuedOp(c)
<1>1. Tail(console[c].ops) \in Seq(QueuedOp(c)) /\ Head(console[c].ops) \in QueuedOp(c)
  BY DEF Good, Page
<1>2. console[c].pc.sig # "closed"
  BY DEF Good, Hung
<1> QED
  BY <1>1, <1>2 DEF Done, Good, Used, Hung, Page

----------------------------------------------------------------------------
(* Each handler of a message leaves a good page good.                      *)
LEMMA BroadcastsAreGood ==
  ASSUME NEW c \in Console, NEW v, Good(c, v), NEW from \in Peers(c)
  PROVE  /\ Good(c, handleVideoCallStart(c, v, from))
         /\ Good(c, handleVideoJoin(c, v, from))
         /\ Good(c, handleVideoCallEnd(v, from))
<1>1. (c > from) \in BOOLEAN
  OBVIOUS
<1>2. Good(c, setupPeerConnection(v, from, c > from))
  BY <1>1, SetupIsGood
<1>3. Good(c, handleVideoCallStart(c, v, from)) /\ Good(c, handleVideoJoin(c, v, from))
  BY <1>2 DEF handleVideoCallStart, handleVideoJoin
<1>4. <<>> \in Seq(QueuedOp(c))
  OBVIOUS
<1>5. Good(c, [v EXCEPT !.pc = NoPC, !.peer = 0, !.pending = {}, !.ops = <<>>])
  BY <1>4, FreshConnection DEF Good, Used, Hung, Page
<1> QED
  BY <1>3, <1>5 DEF handleVideoCallEnd

(* So does each handler of an offer, an answer or a candidate. *)
LEMMA SignalsAreGood ==
  ASSUME NEW c \in Console, NEW v, Good(c, v), NEW m \in Signalled(c)
  PROVE  /\ Good(c, handleVideoOffer(c, v, m))
         /\ Good(c, handleVideoAnswer(v, m))
         /\ Good(c, handleVideoICE(v, m))
<1>0. m.from \in Peers(c) /\ m.of \in Nat
  BY DEF Signalled
<1>1. Good(c, handleVideoOffer(c, v, m))
  <2> DEFINE w == [v EXCEPT !.isVideoCallActive = TRUE]
  <2>1. Good(c, w)
    BY DEF Good, Used, Hung, Page
  <2>2. /\ Op("rollback", m.from, m.of) \in QueuedOp(c)
        /\ Op("setRemoteOffer", m.from, m.of) \in QueuedOp(c)
    BY <1>0 DEF Op, Operations, QueuedOp
  <2>3. /\ Good(c, setupPeerConnection(w, m.from, FALSE))
        /\ setupPeerConnection(w, m.from, FALSE).pc.sig # "closed"
    BY <1>0, <2>1, SetupIsGood
  <2> HIDE DEF w
  <2>4. /\ w.pc.sig # "closed" => /\ Good(c, Do(w, Op("rollback", m.from, m.of)))
                                  /\ Good(c, Do(w, Op("setRemoteOffer", m.from, m.of)))
        /\ Good(c, Do(setupPeerConnection(w, m.from, FALSE), Op("setRemoteOffer", m.from, m.of)))
    BY <2>1, <2>2, <2>3, DoIsGood
  <2> QED
    BY <2>1, <2>4 DEF handleVideoOffer, w
<1>2. Good(c, handleVideoAnswer(v, m))
  <2>1. Op("setRemoteAnswer", m.from, m.of) \in QueuedOp(c)
    BY <1>0 DEF Op, Operations, QueuedOp
  <2> QED
    BY <2>1, DoIsGood DEF handleVideoAnswer
<1>3. Good(c, handleVideoICE(v, m))
  <2>1. CASE v.pc.remote = 0
    <3>1. v.pending \cup {m.of} \in SUBSET Nat
      BY <1>0 DEF Good, Page
    <3> QED
      BY <2>1, <3>1 DEF handleVideoICE, Good, Used, Hung, Page
  <2>2. CASE v.pc.remote # 0
    <3>1. v.pc.candidates \cup {m.of} \in SUBSET Nat
      BY <1>0 DEF Good, Page, PeerConnection
    <3>2. [v.pc EXCEPT !.candidates = @ \cup {m.of}] \in PeerConnection(c)
      BY <3>1 DEF Good, Page, PeerConnection
    <3>3. handleVideoICE(v, m) = [v EXCEPT !.pc = [v.pc EXCEPT !.candidates = @ \cup {m.of}]]
      BY <2>2 DEF handleVideoICE, Good, Page
    <3> QED
      BY <2>2, <3>2, <3>3 DEF Good, Used, Hung, Page, PeerConnection
  <2> QED
    BY <2>1, <2>2
<1> QED
  BY <1>1, <1>2, <1>3

----------------------------------------------------------------------------
(* What a page sends is delivered as it was sent. *)
LEMMA TellIsTyped ==
  ASSUME Wires, NEW c \in Console, NEW d, d # c, NEW type \in {"offer", "answer", "ice"},
         NEW of \in Nat, Tell(c, d, type, of)
  PROVE  /\ DOMAIN videoHighPri' = Console
         /\ \A e \in Console : videoHighPri'[e] \in Seq(Signalled(e))
<1>1. d \in Console => Message(type, c, of) \in Signalled(d)
  BY DEF Message, Signalled, Peers
<1>2. d \in Console => Append(videoHighPri[d], Message(type, c, of)) \in Seq(Signalled(d))
  BY <1>1 DEF Wires
<1>3. /\ DOMAIN videoHighPri' = Console
      /\ \A e \in Console : videoHighPri'[e] = IF e = d THEN Append(videoHighPri[d], Message(type, c, of))
                                               ELSE videoHighPri[e]
  BY DEF Tell, Wires
<1> QED
  BY <1>2, <1>3 DEF Wires

(* What a page announces reaches the others as it was announced. *)
LEMMA BroadcastIsTyped ==
  ASSUME Wires, NEW c \in Console, NEW types \in {<<"start", "join">>, <<"end">>},
         Broadcast(c, types)
  PROVE  /\ DOMAIN videoSend' = Console
         /\ \A d \in Console : videoSend'[d] \in Seq(Relayed(d))
<1> DEFINE messages == [i \in DOMAIN types |-> Message(types[i], c, 0)]
<1>1. ASSUME NEW d \in Console, d # c PROVE messages \in Seq(Relayed(d))
  <2>1. CASE types = <<"start", "join">>
    <3>1. /\ DOMAIN types = 1..2 /\ types[1] = "start" /\ types[2] = "join"
      BY <2>1
    <3>2. messages \in [1..2 -> Relayed(d)]
      BY <1>1, <3>1 DEF Message, Relayed, Peers
    <3> QED
      BY <3>2, SeqDef
  <2>2. CASE types = <<"end">>
    <3>1. /\ DOMAIN types = 1..1 /\ types[1] = "end"
      BY <2>2
    <3>2. messages \in [1..1 -> Relayed(d)]
      BY <1>1, <3>1 DEF Message, Relayed, Peers
    <3> QED
      BY <3>2, SeqDef
  <2> QED
    BY <2>1, <2>2
<1>2. videoSend' = [d \in Console |-> IF d = c THEN videoSend[d] ELSE videoSend[d] \o messages]
  BY DEF Broadcast
<1> HIDE DEF messages
<1>3. ASSUME NEW d \in Console, d # c PROVE videoSend[d] \o messages \in Seq(Relayed(d))
  <2>1. videoSend[d] \in Seq(Relayed(d)) /\ messages \in Seq(Relayed(d))
    BY <1>1, <1>3 DEF Wires
  <2> QED BY <2>1
<1> QED
  BY <1>2, <1>3 DEF Wires

(* The hub remembers the console that announced a call, or nobody.         *)
Remembered == activeVideo' \in Console \cup {0} /\ moves' \in 0..MaxMoves

(* A step that replaces one page by a good one. *)
LEMMA SetKeeps ==
  ASSUME VideoInv, NEW c \in Console, NEW v, Good(c, v), Set(c, v), Wires', Remembered
  PROVE  VideoInv'
<1>1. DOMAIN console' = Console /\ \A d \in Console : console'[d] = IF d = c THEN v ELSE console[d]
  BY DEF VideoInv, Set
<1>2. \A d \in Console : Good(d, console'[d])
  BY <1>1 DEF VideoInv
<1> QED BY <1>1, <1>2 DEF VideoInv, Remembered

(* The pages start without a connection. *)
LEMMA VideoStart == VideoInit => VideoInv
<1> SUFFICES ASSUME VideoInit PROVE VideoInv
  OBVIOUS
<1>1. ASSUME NEW c \in Console PROVE Good(c, console[c])
  <2>1. <<>> \in Seq(QueuedOp(c)) OBVIOUS
  <2>2. console[c] = [isVideoCallActive |-> FALSE, pc |-> NoPC, peer |-> 0, pending |-> {}, ops |-> <<>>]
    BY DEF VideoInit
  <2> QED BY <2>1, <2>2, FreshConnection DEF Good, Page, Used, Hung
<1>2. Wires
  <2>1. \A c \in Console : <<>> \in Seq(Relayed(c)) /\ <<>> \in Seq(Signalled(c))
    OBVIOUS
  <2> QED BY <2>1 DEF VideoInit, Wires
<1>3. DOMAIN console = Console /\ activeVideo = 0 /\ moves = 0
  BY DEF VideoInit
<1>4. 0 \in 0..MaxMoves
  BY VideoAssumption DEF VideoAssumption
<1> QED
  BY <1>1, <1>2, <1>3, <1>4 DEF VideoInv

(* Only a move of a user counts as one, and only a console that announces  *)
(* or ends a call changes whom the hub remembers.                          *)
LEMMA HubRemembers ==
  ASSUME VideoInv, NEW c \in Console, Start(c) \/ Switch(c) \/ HangUp(c) \/ Progress(c)
  PROVE  Remembered
<1>0. activeVideo \in Console \cup {0} /\ moves \in 0..MaxMoves
  BY DEF VideoInv
<1>1. CASE Start(c) \/ Switch(c) \/ HangUp(c)
  <2>1. moves' \in 0..MaxMoves
    <3>1. moves < MaxMoves /\ moves' = moves + 1
      BY <1>1 DEF Start, Switch, HangUp, Move
    <3> QED BY <1>0, <3>1, VideoAssumption DEF VideoAssumption
  <2>2. activeVideo' \in {activeVideo, c, 0}
    BY <1>1 DEF Start, Switch, HangUp, Announce
  <2> QED BY <1>0, <2>1, <2>2 DEF Remembered
<1>2. CASE Progress(c)
  <2> USE <1>0 DEF Remembered, Quietly, Failed, Announce
  <2>1. ASSUME CreateOffer(c) PROVE Remembered
    BY <2>1 DEF CreateOffer
  <2>2. ASSUME SetLocalOffer(c) PROVE Remembered
    BY <2>2 DEF SetLocalOffer
  <2>3. ASSUME Rollback(c) \/ SetRemoteOffer(c) \/ CreateAnswer(c) PROVE Remembered
    BY <2>3 DEF Rollback, SetRemoteOffer, CreateAnswer
  <2>4. ASSUME SetLocalAnswer(c) PROVE Remembered
    BY <2>4 DEF SetLocalAnswer
  <2>5. ASSUME SetRemoteAnswer(c) \/ Gather(c) \/ Connect(c) PROVE Remembered
    BY <2>5 DEF SetRemoteAnswer, Gather, Connect
  <2>6. ASSUME ReceiveBroadcast(c) \/ ReceiveSignal(c) PROVE Remembered
    BY <2>6 DEF ReceiveBroadcast, ReceiveSignal
  <2> QED BY <1>2, <2>1, <2>2, <2>3, <2>4, <2>5, <2>6 DEF Progress, Browser
<1> QED BY <1>1, <1>2

(* What the users do. *)
LEMMA UserStep ==
  ASSUME VideoInv, NEW c \in Console, Start(c) \/ Switch(c) \/ HangUp(c)
  PROVE  VideoInv'
<1>0. Good(c, console[c]) /\ Wires
  BY DEF VideoInv
<1>m. Remembered
  BY HubRemembers
<1> USE <1>m
<1>1. CASE Start(c)
  <2> DEFINE v == [console[c] EXCEPT !.isVideoCallActive = TRUE]
  <2>1. Good(c, v)
    BY <1>0 DEF Good, Used, Hung, Page
  <2>2. CASE Renegotiates(v)
    <3>1. v.peer \in Peers(c) /\ v.pc.sig # "closed"
      BY <2>1, <2>2 DEF Renegotiates, Good, Page
    <3>2. Operations("createOffer", v.peer, 0, TRUE) \in QueuedOp(c)
      BY <3>1 DEF Operations, QueuedOp
    <3>3. Good(c, Do(v, Operations("createOffer", v.peer, 0, TRUE)))
      BY <2>1, <3>1, <3>2, DoIsGood
    <3>4. Set(c, Do(v, Operations("createOffer", v.peer, 0, TRUE)))
          /\ UNCHANGED <<videoSend, videoHighPri, offers>>
      BY <1>1, <2>2 DEF Start
    <3> QED
      BY <1>0, <3>3, <3>4, SetKeeps DEF Wires
  <2>3. CASE ~Renegotiates(v)
    <3>1. Set(c, v) /\ Broadcast(c, <<"start", "join">>) /\ UNCHANGED <<videoHighPri, offers>>
      BY <1>1, <2>3 DEF Start, Announce
    <3>2. Wires'
      BY <1>0, <3>1, BroadcastIsTyped DEF Wires
    <3> QED
      BY <2>1, <3>1, <3>2, SetKeeps
  <2> QED
    BY <2>2, <2>3
<1>2. CASE Switch(c)
  <2>1. console[c].peer \in Peers(c) /\ console[c].pc.sig # "closed"
    BY <1>0, <1>2 DEF Switch, Renegotiates, Good, Page
  <2>2. Op("createOffer", console[c].peer, 0) \in QueuedOp(c)
    BY <2>1 DEF Op, Operations, QueuedOp
  <2>3. Good(c, Do(console[c], Op("createOffer", console[c].peer, 0)))
    BY <1>0, <2>1, <2>2, DoIsGood
  <2> QED
    BY <1>0, <1>2, <2>3, SetKeeps DEF Switch, Wires
<1>3. CASE HangUp(c)
  <2> DEFINE v == [console[c] EXCEPT !.isVideoCallActive = FALSE,
                                     !.pc = NoPC, !.peer = 0, !.ops = <<>>]
  <2>1. <<>> \in Seq(QueuedOp(c))
    OBVIOUS
  <2>2. Good(c, v)
    BY <1>0, <2>1, FreshConnection DEF Good, Used, Hung, Page
  <2>3. Wires'
    BY <1>0, <1>3, BroadcastIsTyped DEF HangUp, Wires
  <2> QED
    BY <1>3, <2>2, <2>3, SetKeeps DEF HangUp
<1> QED
  BY <1>1, <1>2, <1>3

(* The operations of a connection, failed ones included. *)
LEMMA BrowserStep ==
  ASSUME VideoInv, NEW c \in Console, Browser(c)
  PROVE  VideoInv'
<1> DEFINE op == Head(console[c].ops)
<1>0. Good(c, console[c]) /\ Wires /\ console[c].ops # <<>>
  BY DEF VideoInv, Browser, CreateOffer, SetLocalOffer, Rollback,
         SetRemoteOffer, CreateAnswer, SetLocalAnswer, SetRemoteAnswer, Operation
<1>m. Remembered
  BY HubRemembers DEF Progress
<1> USE <1>m
<1>1. Good(c, Done(c)) /\ Done(c).pc = console[c].pc /\ op \in QueuedOp(c)
  BY <1>0, DoneIsGood
<1>o. Done(c).pc.sig # "closed"
  BY <1>0, <1>1 DEF Good, Hung
<1>2. /\ op.to \in Peers(c) /\ op.to # c /\ op.of \in Nat
      /\ Op("setRemoteOffer", op.to, op.of) \in QueuedOp(c)
      /\ Op("createAnswer", op.to, 0) \in QueuedOp(c) /\ Op("setLocalAnswer", op.to, 0) \in QueuedOp(c)
      /\ [op EXCEPT !.op = "setLocalOffer"] \in QueuedOp(c)
  BY <1>1, PeerFacts DEF QueuedOp, Op, Operations
<1>3. ASSUME NEW v, Good(c, v), Set(c, v), Quietly PROVE VideoInv'
  BY <1>0, <1>3, SetKeeps DEF Quietly, Wires
<1>4. ASSUME NEW v, Good(c, v), Failed(c, v) PROVE VideoInv'
  <2>1. Set(c, v) /\ Wires'
    BY <1>0, <1>4, BroadcastIsTyped DEF Failed, Announce, Quietly, Wires
  <2> QED
    BY <1>4, <2>1, SetKeeps
(* Changes of the connection that set no description of the other side. *)
<1>5. ASSUME NEW p \in PeerConnection(c), p.remote = console[c].pc.remote, p.sig # "closed"
      PROVE  Good(c, [Done(c) EXCEPT !.pc = p]) /\ [Done(c) EXCEPT !.pc = p].pc.sig # "closed"
  BY <1>1, <1>5 DEF Good, Used, Hung, Page
<1> DEFINE w == Done(c)
<1>w. w \in Page(c) /\ w.pc \in PeerConnection(c)
  BY <1>1 DEF Good, Page
<1> HIDE DEF op
<1>6. CASE CreateOffer(c)
  <2>1. Good(c, Do(Done(c), [op EXCEPT !.op = "setLocalOffer"]))
    BY <1>1, <1>2, <1>o, DoIsGood
  <2> QED
    BY <1>1, <1>3, <1>4, <1>6, <2>1 DEF CreateOffer, op
<1>7. CASE SetLocalOffer(c)
  <2>1. CASE console[c].pc.sig \in {"stable", "have-local-offer"}
    <3> DEFINE p == [w.pc EXCEPT !.sig = "have-local-offer", !.offer = offers + 1,
                                 !.gathers = offers + 1]
    <3>1. p \in PeerConnection(c) /\ p.remote = console[c].pc.remote /\ p.sig # "closed"
      <4>1. offers + 1 \in Nat
        BY <1>0 DEF Wires
      <4>2. w.pc.remote = console[c].pc.remote
        BY <1>1
      <4> HIDE DEF w
      <4> QED
        BY <1>w, <4>1, <4>2 DEF PeerConnection, SigState
    <3>2. [Done(c) EXCEPT !.pc.sig = "have-local-offer", !.pc.offer = offers + 1,
                          !.pc.gathers = offers + 1] = [Done(c) EXCEPT !.pc = p]
      BY <1>w DEF Page, PeerConnection
    <3>3. /\ Set(c, [Done(c) EXCEPT !.pc = p])
          /\ offers' = offers + 1 /\ Tell(c, op.to, "offer", offers + 1)
          /\ (Announce(c) \/ UNCHANGED videoSend)
      BY <1>7, <2>1, <3>2 DEF SetLocalOffer, op
    <3>4. Wires'
      <4>1. offers + 1 \in Nat
        BY <1>0 DEF Wires
      <4> QED
        BY <1>0, <1>2, <3>3, <4>1, TellIsTyped, BroadcastIsTyped DEF Wires, Announce
    <3> QED
      BY <1>5, <3>1, <3>3, <3>4, SetKeeps
  <2>2. CASE console[c].pc.sig \notin {"stable", "have-local-offer"}
    BY <1>1, <1>4, <1>7, <2>2 DEF SetLocalOffer
  <2> QED
    BY <2>1, <2>2
<1>8. CASE Rollback(c)
  <2> DEFINE p == [w.pc EXCEPT !.sig = "stable", !.offer = 0]
  <2>1. p \in PeerConnection(c) /\ p.remote = console[c].pc.remote /\ p.sig # "closed"
    BY <1>1, <1>w DEF PeerConnection, SigState
  <2>2. [Done(c) EXCEPT !.pc.sig = "stable", !.pc.offer = 0] = [Done(c) EXCEPT !.pc = p]
    BY <1>w DEF Page, PeerConnection
  <2>3. /\ Good(c, [Done(c) EXCEPT !.pc.sig = "stable", !.pc.offer = 0])
        /\ [Done(c) EXCEPT !.pc.sig = "stable", !.pc.offer = 0].pc.sig # "closed"
    BY <1>5, <2>1, <2>2
  <2>4. /\ Good(c, setupPeerConnection(console[c], op.to, FALSE))
        /\ setupPeerConnection(console[c], op.to, FALSE).pc.sig # "closed"
    BY <1>0, <1>2, SetupIsGood
  <2> DEFINE v == IF console[c].pc.sig = "have-local-offer"
                  THEN [Done(c) EXCEPT !.pc.sig = "stable", !.pc.offer = 0]
                  ELSE setupPeerConnection(console[c], op.to, FALSE)
  <2>5. Good(c, v) /\ v.pc.sig # "closed"
    BY <2>3, <2>4
  <2>6. Set(c, Do(v, Op("setRemoteOffer", op.to, op.of))) /\ Quietly
    BY <1>8 DEF Rollback, op
  <2> HIDE DEF v
  <2> QED
    BY <1>2, <1>3, <2>5, <2>6, DoIsGood
<1>9. CASE SetRemoteOffer(c)
  <2> DEFINE v == [Done(c) EXCEPT !.pc.sig = "have-remote-offer", !.pc.offer = 0,
                                  !.pc.remote = op.of]
  <2>1. v = [Done(c) EXCEPT !.pc = [w.pc EXCEPT !.sig = "have-remote-offer", !.offer = 0,
                                                !.remote = op.of]]
    BY <1>w DEF Page, PeerConnection
  <2>2. [w.pc EXCEPT !.sig = "have-remote-offer", !.offer = 0, !.remote = op.of] \in PeerConnection(c)
    BY <1>2, <1>w DEF PeerConnection, SigState
  <2>3. v \in Page(c) /\ v.pc.sig = "have-remote-offer"
    BY <1>w, <2>1, <2>2 DEF Page, PeerConnection
  <2>4. /\ Good(c, flushPendingIceCandidates(v))
        /\ flushPendingIceCandidates(v).pc.sig # "closed"
    BY <2>3, FlushIsGood DEF Hung
  <2>5. Set(c, Do(flushPendingIceCandidates(v), Op("createAnswer", op.to, 0))) /\ Quietly
    BY <1>9 DEF SetRemoteOffer, op
  <2> HIDE DEF v
  <2> QED
    BY <1>2, <1>3, <2>4, <2>5, DoIsGood
<1>10. CASE CreateAnswer(c)
  <2>1. Good(c, Do(Done(c), Op("setLocalAnswer", op.to, 0)))
    BY <1>1, <1>2, <1>o, DoIsGood
  <2> QED
    BY <1>1, <1>3, <1>10, <2>1 DEF CreateAnswer, op
<1>11. CASE SetLocalAnswer(c)
  <2> DEFINE remote == console[c].pc.remote
             p == [w.pc EXCEPT !.sig = "stable", !.agreed = remote, !.gathers = remote]
  <2>1. remote \in Nat
    BY <1>0 DEF Good, Page, PeerConnection
  <2>2. p \in PeerConnection(c) /\ p.remote = remote /\ p.sig # "closed"
    BY <1>1, <1>w, <2>1 DEF PeerConnection, SigState
  <2>3. [Done(c) EXCEPT !.pc.sig = "stable", !.pc.agreed = remote, !.pc.gathers = remote]
          = [Done(c) EXCEPT !.pc = p]
    BY <1>w DEF Page, PeerConnection
  <2>4. Good(c, [Done(c) EXCEPT !.pc.sig = "stable", !.pc.agreed = remote, !.pc.gathers = remote])
    BY <1>5, <2>2, <2>3
  <2>5. CASE console[c].pc.sig = "have-remote-offer"
    <3>1. Set(c, [Done(c) EXCEPT !.pc.sig = "stable", !.pc.agreed = remote, !.pc.gathers = remote])
          /\ Tell(c, op.to, "answer", remote) /\ UNCHANGED <<videoSend, offers>>
      BY <1>11, <2>5 DEF SetLocalAnswer, op
    <3>2. Wires'
      BY <1>0, <1>2, <2>1, <3>1, TellIsTyped DEF Wires
    <3> QED
      BY <2>4, <3>1, <3>2, SetKeeps
  <2>6. CASE console[c].pc.sig # "have-remote-offer"
    BY <1>1, <1>3, <1>11, <2>6 DEF SetLocalAnswer
  <2> QED
    BY <2>5, <2>6
<1>12. CASE SetRemoteAnswer(c)
  <2> DEFINE v == [Done(c) EXCEPT !.pc.sig = "stable", !.pc.offer = 0,
                                  !.pc.remote = op.of, !.pc.agreed = console[c].pc.offer]
             p == [w.pc EXCEPT !.sig = "stable", !.offer = 0, !.remote = op.of,
                               !.agreed = console[c].pc.offer]
  <2>1. console[c].pc.offer \in Nat
    BY <1>0 DEF Good, Page, PeerConnection
  <2>2. p \in PeerConnection(c)
    BY <1>2, <1>w, <2>1 DEF PeerConnection, SigState
  <2>3. v = [Done(c) EXCEPT !.pc = p]
    BY <1>w DEF Page, PeerConnection
  <2>4. v \in Page(c) /\ v.pc.sig = "stable"
    BY <1>w, <2>2, <2>3 DEF Page, PeerConnection
  <2>5. Good(c, flushPendingIceCandidates(v))
    BY <2>4, FlushIsGood DEF Hung
  <2> QED
    BY <1>1, <1>3, <1>12, <2>5 DEF SetRemoteAnswer, op
<1> QED
  BY <1>6, <1>7, <1>8, <1>9, <1>10, <1>11, <1>12 DEF Browser

(* Candidates that are found, connections that form or fail, messages.     *)
LEMMA NetworkStep ==
  ASSUME VideoInv, NEW c \in Console,
         Gather(c) \/ Connect(c) \/ ReceiveBroadcast(c) \/ ReceiveSignal(c)
  PROVE  VideoInv'
<1> DEFINE v == console[c]
<1>0. Good(c, v) /\ v \in Page(c) /\ v.pc \in PeerConnection(c) /\ Wires
  BY DEF VideoInv, Good, Page
<1>m. Remembered
  BY HubRemembers DEF Progress
<1> USE <1>m
<1>1. CASE Gather(c)
  <2>1. [v EXCEPT !.pc.gathers = 0] = [v EXCEPT !.pc = [v.pc EXCEPT !.gathers = 0]]
    BY <1>0 DEF Page, PeerConnection
  <2>2. [v.pc EXCEPT !.gathers = 0] \in PeerConnection(c)
    BY <1>0 DEF PeerConnection
  <2>3. Good(c, [v EXCEPT !.pc.gathers = 0])
    BY <1>0, <2>1, <2>2 DEF Good, Used, Hung, Page, PeerConnection
  <2>4. Wires'
    <3>1. v.pc.to # c /\ v.pc.gathers \in Nat
      BY <1>0, PeerFacts DEF PeerConnection
    <3> QED BY <1>0, <1>1, <3>1, TellIsTyped DEF Gather, Wires
  <2> QED
    BY <1>1, <2>3, <2>4, SetKeeps DEF Gather
<1>2. CASE Connect(c)
  <2> DEFINE f == [v.pc EXCEPT !.conn = "failed"]
             up == [v.pc EXCEPT !.conn = "connected"]
             peer == IF v.peer = v.pc.to THEN 0 ELSE v.peer
  <2>1. /\ f \in PeerConnection(c) /\ f.remote = v.pc.remote
        /\ up \in PeerConnection(c) /\ up.remote = v.pc.remote /\ peer \in Peers(c) \cup {0}
        /\ f.sig = v.pc.sig /\ up.sig = v.pc.sig /\ (v.peer = 0 => peer = 0)
    BY <1>0 DEF PeerConnection, Page
  <2>2. /\ [v EXCEPT !.pc.conn = "connected"] = [v EXCEPT !.pc = up]
        /\ [v EXCEPT !.pc.conn = "failed", !.peer = IF @ = v.pc.to THEN 0 ELSE @]
             = [v EXCEPT !.pc = f, !.peer = peer]
    BY <1>0 DEF Page, PeerConnection
  <2> HIDE DEF f, up, peer
  <2>3. Good(c, [v EXCEPT !.pc = up]) /\ Good(c, [v EXCEPT !.pc = f, !.peer = peer])
    BY <1>0, <2>1 DEF Good, Used, Hung, Page
  <2>4. /\ \/ Set(c, [v EXCEPT !.pc.conn = "connected"])
           \/ Set(c, [v EXCEPT !.pc.conn = "failed", !.peer = IF @ = v.pc.to THEN 0 ELSE @])
        /\ Wires'
    BY <1>0, <1>2 DEF Connect, Quietly, Wires
  <2> QED
    BY <2>2, <2>3, <2>4, SetKeeps
<1>3. CASE ReceiveBroadcast(c)
  <2> DEFINE m == Head(videoSend[c])
  <2>1. m \in Relayed(c) /\ Tail(videoSend[c]) \in Seq(Relayed(c))
    BY <1>0, <1>3 DEF ReceiveBroadcast, Wires
  <2>2. m.from \in Peers(c) /\ m.type \in {"start", "join", "end"}
    BY <2>1 DEF Relayed
  <2>3. Wires'
    BY <1>0, <1>3, <2>1 DEF ReceiveBroadcast, Wires
  <2>4. Set(c, CASE m.type = "start" -> handleVideoCallStart(c, v, m.from)
                 [] m.type = "join" -> handleVideoJoin(c, v, m.from)
                 [] m.type = "end" -> handleVideoCallEnd(v, m.from))
    BY <1>3 DEF ReceiveBroadcast
  <2>5. /\ Good(c, handleVideoCallStart(c, v, m.from)) /\ Good(c, handleVideoJoin(c, v, m.from))
        /\ Good(c, handleVideoCallEnd(v, m.from))
    BY <1>0, <2>2, BroadcastsAreGood
  <2> HIDE DEF m, v
  <2>6. \E w \in {handleVideoCallStart(c, v, m.from), handleVideoJoin(c, v, m.from),
                  handleVideoCallEnd(v, m.from)} : Set(c, w)
    BY <2>2, <2>4
  <2> QED
    BY <2>3, <2>5, <2>6, SetKeeps
<1>4. CASE ReceiveSignal(c)
  <2> DEFINE m == Head(videoHighPri[c])
  <2>1. m \in Signalled(c) /\ Tail(videoHighPri[c]) \in Seq(Signalled(c))
    BY <1>0, <1>4 DEF ReceiveSignal, Wires
  <2>2. m.type \in {"offer", "answer", "ice"}
    BY <2>1 DEF Signalled
  <2>3. Wires'
    BY <1>0, <1>4, <2>1 DEF ReceiveSignal, Wires
  <2>4. Set(c, CASE m.type = "offer" -> handleVideoOffer(c, v, m)
                 [] m.type = "answer" -> handleVideoAnswer(v, m)
                 [] m.type = "ice" -> handleVideoICE(v, m))
    BY <1>4 DEF ReceiveSignal
  <2>5. /\ Good(c, handleVideoOffer(c, v, m)) /\ Good(c, handleVideoAnswer(v, m))
        /\ Good(c, handleVideoICE(v, m))
    BY <1>0, <2>1, SignalsAreGood
  <2> HIDE DEF m, v
  <2>6. \E w \in {handleVideoOffer(c, v, m), handleVideoAnswer(v, m), handleVideoICE(v, m)} : Set(c, w)
    BY <2>2, <2>4
  <2> QED
    BY <2>3, <2>5, <2>6, SetKeeps
<1> QED
  BY <1>1, <1>2, <1>3, <1>4

(* In every reachable state of any number of consoles VideoInv holds, the  *)
(* types of pages and messages included.                                   *)
THEOREM VideoInvariant == VideoSpec => []VideoInv
<1>1. VideoInv /\ [VideoNext]_videoVars => VideoInv'
  <2>1. VideoInv /\ UNCHANGED videoVars => VideoInv'
    BY DEF videoVars, VideoInv, Wires
  <2> QED
    BY <2>1, UserStep, BrowserStep, NetworkStep DEF VideoNext, Progress
<1> QED
  BY <1>1, VideoStart, PTL DEF VideoSpec

(* A page has a peer, never itself, and operations to run only while it    *)
(* has a connection (setupPeerConnection, endVideoCall), and the hub       *)
(* remembers a console or nobody.                                          *)
THEOREM VideoTypeCorrect == VideoSpec => []VideoTypeOK
<1>1. VideoInv => VideoTypeOK
  <2> SUFFICES ASSUME VideoInv PROVE VideoTypeOK
    OBVIOUS
  <2>1. ASSUME NEW c \in Console
        PROVE  /\ console[c].isVideoCallActive \in BOOLEAN
               /\ console[c].pc.sig \in SigState
               /\ console[c].peer \in Peers(c) \cup {0}
               /\ console[c].pc.sig = "closed" => console[c].peer = 0 /\ console[c].ops = <<>>
    BY DEF VideoInv, Good, Hung, Page, PeerConnection
  <2> QED BY <2>1 DEF VideoInv, Wires, VideoTypeOK, SigState, Peers
<1> QED BY <1>1, VideoInvariant, PTL

(* A candidate that comes before the description it belongs to is used:    *)
(* flushPendingIceCandidates runs with every description that is applied,  *)
(* and a new connection starts with an empty queue.  Users need not wait.  *)
THEOREM NoCandidateIsLeft == VideoSpec => []CandidatesAreUsed
<1>1. VideoInv => CandidatesAreUsed
  BY DEF VideoInv, Good, Used, CandidatesAreUsed
<1> QED BY <1>1, VideoInvariant, PTL
=============================================================================
