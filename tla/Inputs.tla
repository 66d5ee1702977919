------------------------------- MODULE Inputs -------------------------------
(***************************************************************************)
(* The ways to push to talk in one web console (static/js/radio.js): the   *)
(* main button, the button of the chat composer and the one of the video   *)
(* call, each by mouse or touch, and the space bar; and the quick mute.    *)
(* The answers of the hub are those of Console, reduced to their effect on *)
(* isPTTDown and isTransmitting.                                           *)
(***************************************************************************)
EXTENDS Naturals, FiniteSets

VARIABLES
    floor,         \* "off", "requested" (isPTTDown) or "granted" (isTransmitting)
    pttMode,
    mouse, touch, space,   \* what the user holds down
    focused,       \* an input field has the focus
    flags,         \* isChatVoiceHolding, and the class of the video button
    excused,       \* a release was not seen, or the mode changed on the air
    volume         \* isQuickMuted, the slider, previousVolume

inputVars == <<floor, pttMode, mouse, touch, space, focused, flags, excused, volume>>

Button == {"main", "voice", "video"}
Level == 0..1      \* the volumes told apart: silent or not

InputsInit ==
    /\ floor = "off" /\ pttMode = "hold" /\ mouse = "none" /\ touch = {}
    /\ space = FALSE /\ focused = FALSE /\ excused = FALSE
    /\ flags = [voice |-> FALSE, video |-> FALSE]
    /\ volume = [isQuickMuted |-> FALSE, slider |-> 1, previousVolume |-> 1]

----------------------------------------------------------------------------
requestFloor == IF floor = "off" THEN "requested" ELSE floor

(* The main button and the space bar. *)
Push == IF pttMode = "toggle" /\ floor = "granted" THEN "off" ELSE requestFloor

(* mousedown and touchstart of a button. *)
PressButton(b) ==
    CASE b = "main" -> floor' = Push /\ UNCHANGED flags
      [] b = "voice" -> /\ floor' = IF flags.voice THEN floor ELSE requestFloor
                        /\ flags' = [flags EXCEPT !.voice = TRUE]
      [] b = "video" -> /\ floor' = requestFloor
                        /\ flags' = [flags EXCEPT !.video = TRUE]

Settle == excused' = (excused /\ floor' # "off")

MouseDown(b) ==
    /\ mouse = "none" /\ mouse' = b
    /\ PressButton(b) /\ Settle
    /\ UNCHANGED <<pttMode, touch, space, focused, volume>>

(* The handlers of the window: any mouse button released anywhere.         *)
MouseUp ==
    /\ mouse' = "none"
    /\ floor' = IF pttMode = "hold" \/ flags.voice \/ flags.video THEN "off" ELSE floor
    /\ flags' = [voice |-> FALSE, video |-> FALSE]
    /\ Settle
    /\ UNCHANGED <<pttMode, touch, space, focused, volume>>

TouchStart(b) ==
    /\ b \notin touch /\ touch' = touch \cup {b}
    /\ PressButton(b) /\ Settle
    /\ UNCHANGED <<pttMode, mouse, space, focused, volume>>

(* touchend and touchcancel of the button that was touched. *)
TouchEnd(b) ==
    /\ b \in touch /\ touch' = touch \ {b}
    /\ CASE b = "main" -> floor' = (IF pttMode = "hold" THEN "off" ELSE floor)
                          /\ UNCHANGED flags
         [] b = "voice" -> /\ floor' = IF flags.voice THEN "off" ELSE floor
                           /\ flags' = [flags EXCEPT !.voice = FALSE]
         [] b = "video" -> floor' = "off" /\ flags' = [flags EXCEPT !.video = FALSE]
    /\ Settle
    /\ UNCHANGED <<pttMode, mouse, space, focused, volume>>

SpaceDown ==
    /\ ~space /\ space' = TRUE
    /\ floor' = IF focused THEN floor ELSE Push
    /\ Settle
    /\ UNCHANGED <<pttMode, mouse, touch, focused, flags, volume>>

(* In a field the release of the space bar is not looked at. *)
SpaceUp ==
    /\ space /\ space' = FALSE
    /\ floor' = IF pttMode = "hold" /\ ~focused THEN "off" ELSE floor
    /\ excused' = ((excused \/ focused) /\ floor' # "off")
    /\ UNCHANGED <<pttMode, mouse, touch, focused, flags, volume>>

(* Mutant of Blur: the handler is missing. *)
BlurUnseen ==
    /\ space' = FALSE
    /\ UNCHANGED <<floor, excused, pttMode, mouse, touch, focused, flags, volume>>

(* The window loses the focus, and with it the release of the space bar. *)
Blur ==
    /\ space' = FALSE
    /\ floor' = IF pttMode = "hold" THEN "off" ELSE floor
    /\ Settle
    /\ UNCHANGED <<pttMode, mouse, touch, focused, flags, volume>>

(* openChat focuses the message field after 150 ms; tab and touch do too. *)
FocusMoves ==
    /\ focused' = ~focused
    /\ UNCHANGED <<floor, pttMode, mouse, touch, space, flags, excused, volume>>

SetMode(mode) ==
    /\ pttMode' = mode
    /\ excused' = (excused \/ floor # "off")
    /\ UNCHANGED <<floor, mouse, touch, space, focused, flags, volume>>

(* A grant, a denial, a preemption or a time-out. *)
FloorStatus ==
    /\ floor # "off"
    /\ floor' \in {"granted", "off"}
    /\ Settle
    /\ UNCHANGED <<pttMode, mouse, touch, space, focused, flags, volume>>

----------------------------------------------------------------------------
Volume(muted, slider, previous) ==
    /\ volume' = [isQuickMuted |-> muted, slider |-> slider, previousVolume |-> previous]
    /\ UNCHANGED <<floor, pttMode, mouse, touch, space, focused, flags, excused>>

(* Whoever mutes at zero, or unmutes to zero, gets the default instead. *)
toggleQuickMute ==
    IF volume.isQuickMuted
    THEN Volume(FALSE, IF volume.previousVolume > 0 THEN volume.previousVolume ELSE 1,
                volume.previousVolume)
    ELSE Volume(TRUE, 0, IF volume.slider > 0 THEN volume.slider ELSE 1)

sliderVolume(v) == Volume(v = 0, v, IF v = 0 THEN volume.previousVolume ELSE v)

----------------------------------------------------------------------------
InputsNext ==
    \/ \E b \in Button : MouseDown(b) \/ TouchStart(b) \/ TouchEnd(b)
    \/ MouseUp \/ SpaceDown \/ SpaceUp \/ Blur \/ FocusMoves \/ FloorStatus
    \/ \E mode \in {"hold", "toggle"} : SetMode(mode)
    \/ toggleQuickMute \/ \E v \in Level : sliderVolume(v)

InputsSpec == InputsInit /\ [][InputsNext]_inputVars

----------------------------------------------------------------------------
(* The types; the quick mute is lit when the volume is zero, however it    *)
(* came to be zero, and can always restore one that is not.                *)
InputsTypeOK ==
    /\ floor \in {"off", "requested", "granted"} /\ pttMode \in {"hold", "toggle"}
    /\ mouse \in Button \cup {"none"} /\ touch \subseteq Button
    /\ space \in BOOLEAN /\ focused \in BOOLEAN /\ excused \in BOOLEAN
    /\ flags \in [voice : BOOLEAN, video : BOOLEAN]
    /\ volume \in [isQuickMuted : BOOLEAN, slider : Level, previousVolume : Level]
    /\ volume.isQuickMuted <=> volume.slider = 0
    /\ volume.previousVolume > 0

(* In hold mode nobody talks with nothing held down: not after any order   *)
(* of presses and releases on several buttons, fingers and keys, unless a  *)
(* space bar was released while a field had the focus (which radio.js:1669 *)
(* ignores) or the mode was changed while talking.                         *)
OnlyFocusSticks ==
    pttMode = "hold" /\ mouse = "none" /\ touch = {} /\ ~space /\ floor # "off" => excused
=============================================================================
