------------------------------ MODULE Capture ------------------------------
(***************************************************************************)
(* The camera and the screen of one web console (static/js/radio.js, lines *)
(* 3381 to 3779): which streams are live while calls and screen shares are *)
(* started, switched and ended.  Asking the browser for a device takes     *)
(* time; the rest of a function runs when the device has been granted or   *)
(* refused, whatever the user has done meanwhile.  A stream is live until  *)
(* its tracks are stopped.                                                 *)
(***************************************************************************)
EXTENDS Naturals, FiniteSets

CONSTANT MaxStreams     \* bound on the requests for a device

ASSUME CaptureAssumption == MaxStreams \in Nat

VARIABLES
    call,          \* isVideoCallActive, isScreenSharing, isCameraMuted
    enabled,       \* the local video track sends pictures
    asking,        \* requests not answered: the function, and the stream it would get
    resuming,      \* functions waiting for switchStream to return
    localVideoStream, live,
    strays,        \* streams nobody stops any more, or granted too late (see below)
    requests       \* how often a device has been asked for

captureVars == <<call, enabled, asking, resuming, localVideoStream, live, strays, requests>>

CaptureInit ==
    /\ call = [active |-> FALSE, sharing |-> FALSE, muted |-> FALSE]
    /\ enabled = TRUE /\ asking = {} /\ resuming = {}
    /\ localVideoStream = 0 /\ live = {} /\ strays = {} /\ requests = 0

----------------------------------------------------------------------------
(* The user.                                                               *)

Ask(function) ==
    /\ requests < MaxStreams /\ requests' = requests + 1
    /\ asking' = asking \cup {[function |-> function, stream |-> requests']}
    /\ UNCHANGED <<enabled, resuming, localVideoStream, live, strays>>

(* The call button, or V, which during a share does not hang up. *)
startVideoCall ==
    /\ (call.active => call.sharing) /\ Ask("startVideoCall") /\ UNCHANGED call

startScreenShare == ~call.sharing /\ Ask("startScreenShare") /\ UNCHANGED call

(* Also when the browser ends the track of the screen (its onended). *)
stopScreenShare ==
    call.sharing /\ Ask("stopScreenShare") /\ call' = [call EXCEPT !.sharing = FALSE]

flipCamera == call.active /\ ~call.sharing /\ Ask("flipCamera") /\ UNCHANGED call

toggleCamera ==
    /\ localVideoStream # 0
    /\ enabled' = ~enabled /\ call' = [call EXCEPT !.muted = enabled]
    /\ UNCHANGED <<asking, resuming, localVideoStream, live, strays, requests>>

(* Mutant of StopLocal: the tracks run on. *)
StopLocalNot == live

StopLocal == live \ {localVideoStream}

(* The hang-up button, or a change of channel, at any time in a call. *)
endVideoCall ==
    /\ call.active
    /\ call' = [call EXCEPT !.active = FALSE, !.sharing = FALSE]
    /\ live' = StopLocal /\ localVideoStream' = 0
    /\ UNCHANGED <<enabled, asking, resuming, strays, requests>>

(* handleVideoOffer: another console opens the call, without a camera. *)
OfferArrives ==
    /\ call' = [call EXCEPT !.active = TRUE]
    /\ UNCHANGED <<enabled, asking, resuming, localVideoStream, live, strays, requests>>

----------------------------------------------------------------------------
(* The answers of the browser.                                             *)

Starting == {"startVideoCall", "startScreenShare"}

(* switchStream: the stream shown so far is stopped.  The new track sends  *)
(* pictures, even while the button still says that the camera is muted.    *)
(* During a call there is a peer to wait for before the function goes on.  *)
(* Nobody looks whether the call is over: a camera flipped to, or taken    *)
(* after a share, comes on all the same.                                   *)
Granted(q) ==
    /\ asking' = asking \ {q}
    /\ live' = StopLocal \cup {q.stream} /\ localVideoStream' = q.stream
    /\ enabled' = TRUE
    /\ resuming' = IF call.active /\ q.function \in Starting
                   THEN resuming \cup {q.function} ELSE resuming
    /\ call' = [call EXCEPT
          !.active = @ \/ q.function \in Starting,
          !.sharing = @ \/ q.function = "startScreenShare"]
    /\ strays' = IF call.active \/ q.function \in Starting THEN strays
                 ELSE strays \cup {q.stream}
    /\ UNCHANGED requests

(* The function goes on: the call is active, also if it was hung up. *)
Resumed(function) ==
    /\ resuming' = resuming \ {function}
    /\ call' = [call EXCEPT !.active = TRUE]
    /\ UNCHANGED <<enabled, asking, localVideoStream, live, strays, requests>>

(* Without a camera a call goes on in viewer mode; nobody stops the stream *)
(* that startVideoCall forgets.                                            *)
Refused(q) ==
    /\ asking' = asking \ {q}
    /\ UNCHANGED <<enabled, resuming, requests>>
    /\ CASE q.function = "startVideoCall" ->
              /\ call' = [call EXCEPT !.active = TRUE] /\ localVideoStream' = 0
              /\ strays' = strays \cup (live \cap {localVideoStream})
              /\ UNCHANGED live
         [] q.function = "stopScreenShare" ->
              /\ live' = StopLocal /\ localVideoStream' = 0
              /\ UNCHANGED <<call, strays>>
         [] OTHER -> UNCHANGED <<call, localVideoStream, live, strays>>

CaptureNext ==
    \/ startVideoCall \/ startScreenShare \/ stopScreenShare
    \/ flipCamera \/ toggleCamera \/ endVideoCall \/ OfferArrives
    \/ \E q \in asking : Granted(q) \/ Refused(q)
    \/ \E function \in resuming : Resumed(function)

CaptureSpec == CaptureInit /\ [][CaptureNext]_captureVars

----------------------------------------------------------------------------
(* The types. *)
CaptureTypeOK ==
    /\ call \in [active : BOOLEAN, sharing : BOOLEAN, muted : BOOLEAN]
    /\ enabled \in BOOLEAN /\ resuming \subseteq Starting
    /\ asking \subseteq [function : Starting \cup {"stopScreenShare", "flipCamera"},
                         stream : 1..requests]
    /\ requests \in 0..MaxStreams /\ localVideoStream \in 0..requests
    /\ live \subseteq 1..requests /\ strays \subseteq 1..requests

(* When no call is active, camera and screen are off, also if the user     *)
(* hung up while a device was asked for or a track was replaced.  Exactly  *)
(* two kinds of stream go on running: what was shown when startVideoCall   *)
(* was refused a camera (radio.js:3514), and a camera granted to           *)
(* flipCamera or stopScreenShare after the call (radio.js:3640, 3763).     *)
DarkWhenOver == ~call.active => live \subseteq strays
=============================================================================
