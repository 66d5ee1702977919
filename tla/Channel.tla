------------------------------ MODULE Channel ------------------------------
(***************************************************************************)
(* internal/radio/channel.go: one radio channel with half-duplex floor     *)
(* control.  Every method of Channel runs inside c.mu, so each is one      *)
(* action.  A time.AfterFunc timer is "running" until it is stopped or     *)
(* fires; once it has "fired" its goroutine waits for c.mu and Stop no     *)
(* longer has any effect on it; when handleTOT has run the timer is "idle" *)
(* again and its identity may be used for another time.AfterFunc.  Timer   *)
(* bounds how many timers can be alive at the same time.                   *)
(***************************************************************************)
EXTENDS Naturals

CONSTANTS
    Client,        \* the clients that may tune to this channel
    Role,          \* the roles clients identify with, in lower case
    Timer,         \* the timers that may be alive at once (a bound)
    NoClient,      \* a nil *Client
    NoTimer,       \* a nil *time.Timer
    TOTEnabled     \* whether totDuration > 0

ASSUME ChannelAssumption ==
    /\ NoClient \notin Client
    /\ NoTimer \notin Timer
    /\ TOTEnabled \in BOOLEAN
    /\ "operator" \in Role

VARIABLES
    Subscribers,     \* the tuned clients
    activeSpeaker,   \* who holds the floor, or NoClient
    isBusy,          \* the flag beside it
    totTimer,        \* the timer the channel knows of, or NoTimer
    timer,           \* the state of every timer
    role             \* Client.Role

channelVars == <<Subscribers, activeSpeaker, isBusy, totTimer, timer, role>>

TimerState == {"idle", "running", "fired"}

(* A new client has the role "Operator". *)
ChannelInit ==
    /\ Subscribers = {}
    /\ activeSpeaker = NoClient
    /\ isBusy = FALSE
    /\ totTimer = NoTimer
    /\ timer = [t \in Timer |-> "idle"]
    /\ role = [c \in Client |-> "operator"]

----------------------------------------------------------------------------
(* The rank of a role; a nil client ranks below everyone. *)
RolePriority(r) ==
    IF r \in {"commander", "chief", "admin"} THEN 3
    ELSE IF r \in {"dispatcher", "supervisor", "operator"} THEN 2
    ELSE 1

getPriority(c) == IF c = NoClient THEN 0 ELSE RolePriority(role[c])

Busy == isBusy /\ activeSpeaker # NoClient

(* Mutant of IsFloorHolder: the speaker is not compared. *)
IsFloorHolderAnyone(c) == isBusy

IsFloorHolder(c) == isBusy /\ activeSpeaker = c

(* The timers after Stop on totTimer: a fired timer is past stopping. *)
Stopped ==
    [t \in Timer |-> IF t = totTimer /\ timer[t] = "running" THEN "idle" ELSE timer[t]]

cancelTOT == timer' = Stopped /\ totTimer' = NoTimer

(* cancelTOT, then time.AfterFunc unless the time-out timer is disabled. *)
restartTOT ==
    IF TOTEnabled
    THEN \E t \in Timer : /\ Stopped[t] = "idle"
                          /\ timer' = [Stopped EXCEPT ![t] = "running"]
                          /\ totTimer' = t
    ELSE cancelTOT

(* Mutant of clearFloor: the timer is forgotten but not stopped. *)
clearFloorKeepsTimer ==
    /\ timer' = timer
    /\ totTimer' = NoTimer
    /\ activeSpeaker' = NoClient
    /\ isBusy' = FALSE

(* The floor becomes free, its timer is stopped. *)
clearFloor ==
    /\ cancelTOT
    /\ activeSpeaker' = NoClient
    /\ isBusy' = FALSE

----------------------------------------------------------------------------
AddSubscriber(c) ==
    /\ Subscribers' = Subscribers \cup {c}
    /\ UNCHANGED <<activeSpeaker, isBusy, totTimer, timer, role>>

(* Mutant of RemoveSubscriber: a departing speaker keeps the floor. *)
RemoveSubscriberOnly(c) ==
    /\ Subscribers' = Subscribers \ {c}
    /\ UNCHANGED <<activeSpeaker, isBusy, totTimer, timer, role>>

RemoveSubscriber(c) ==
    /\ Subscribers' = Subscribers \ {c}
    /\ IF activeSpeaker = c
       THEN clearFloor
       ELSE UNCHANGED <<activeSpeaker, isBusy, totTimer, timer>>
    /\ UNCHANGED role

(* Mutant of KeepFloor: pressing again restarts the time-out. *)
KeepFloorRestarts(c) ==
    /\ Busy
    /\ activeSpeaker = c
    /\ restartTOT
    /\ UNCHANGED <<Subscribers, activeSpeaker, isBusy, role>>

(* Mutant of PreemptFloor: an equal rank preempts. *)
PreemptFloorEqual(c) ==
    /\ Busy
    /\ activeSpeaker # c
    /\ getPriority(c) >= getPriority(activeSpeaker)
    /\ activeSpeaker' = c
    /\ restartTOT
    /\ UNCHANGED <<Subscribers, isBusy, role>>

(* Mutant of PreemptFloor: the old timer is stopped, none is started. *)
PreemptFloorUntimed(c) ==
    /\ Busy
    /\ activeSpeaker # c
    /\ getPriority(c) > getPriority(activeSpeaker)
    /\ activeSpeaker' = c
    /\ cancelTOT
    /\ UNCHANGED <<Subscribers, isBusy, role>>

(* RequestFloor has four outcomes. *)
KeepFloor(c) ==
    /\ Busy
    /\ activeSpeaker = c
    /\ UNCHANGED channelVars

PreemptFloor(c) ==
    /\ Busy
    /\ activeSpeaker # c
    /\ getPriority(c) > getPriority(activeSpeaker)
    /\ activeSpeaker' = c
    /\ restartTOT
    /\ UNCHANGED <<Subscribers, isBusy, role>>

DenyFloor(c) ==
    /\ Busy
    /\ activeSpeaker # c
    /\ getPriority(c) <= getPriority(activeSpeaker)
    /\ UNCHANGED channelVars

GrantFloor(c) ==
    /\ ~Busy
    /\ isBusy' = TRUE
    /\ activeSpeaker' = c
    /\ restartTOT
    /\ UNCHANGED <<Subscribers, role>>

RequestFloor(c) == KeepFloor(c) \/ PreemptFloor(c) \/ DenyFloor(c) \/ GrantFloor(c)

ReleaseFloor(c) ==
    /\ activeSpeaker = c
    /\ clearFloor
    /\ UNCHANGED <<Subscribers, role>>

ForceReleaseFloor ==
    /\ clearFloor
    /\ UNCHANGED <<Subscribers, role>>

(* The duration has passed: the runtime starts a goroutine for handleTOT. *)
FireTOT(t) ==
    /\ timer[t] = "running"
    /\ timer' = [timer EXCEPT ![t] = "fired"]
    /\ UNCHANGED <<Subscribers, activeSpeaker, isBusy, totTimer, role>>

(* The critical section of handleTOT: it clears whatever it finds. *)
handleTOT(t) ==
    /\ timer[t] = "fired"
    /\ timer' = [timer EXCEPT ![t] = "idle"]
    /\ activeSpeaker' = NoClient
    /\ isBusy' = FALSE
    /\ totTimer' = NoTimer
    /\ UNCHANGED <<Subscribers, role>>

(* Mutant of SetRole: an empty role is stored as well. *)
SetRoleEmpty(c, r) ==
    /\ role' = [role EXCEPT ![c] = ""]
    /\ UNCHANGED <<Subscribers, activeSpeaker, isBusy, totTimer, timer>>

(* An identify message changes the role that getPriority reads. *)
SetRole(c, r) ==
    /\ role' = [role EXCEPT ![c] = r]
    /\ UNCHANGED <<Subscribers, activeSpeaker, isBusy, totTimer, timer>>

----------------------------------------------------------------------------
(* The hub asks for the floor only on behalf of a client tuned here. *)
ChannelNext ==
    \/ \E c \in Client :
          \/ c \notin Subscribers /\ AddSubscriber(c)
          \/ c \in Subscribers /\ RemoveSubscriber(c)
          \/ c \in Subscribers /\ RequestFloor(c)
          \/ ReleaseFloor(c)
          \/ \E r \in Role : SetRole(c, r)
    \/ ForceReleaseFloor
    \/ \E t \in Timer : FireTOT(t) \/ handleTOT(t)

(* Time passes and goroutines are scheduled; no client has to do anything. *)
TOTFairness == \A t \in Timer : WF_channelVars(FireTOT(t)) /\ WF_channelVars(handleTOT(t))

ChannelSpec == ChannelInit /\ [][ChannelNext]_channelVars

FairChannelSpec == ChannelSpec /\ TOTFairness

----------------------------------------------------------------------------
(* The types of the variables of a Channel. *)
ChannelTypeOK ==
    /\ Subscribers \subseteq Client
    /\ activeSpeaker \in Client \cup {NoClient}
    /\ isBusy \in BOOLEAN
    /\ totTimer \in Timer \cup {NoTimer}
    /\ timer \in [Timer -> TimerState]
    /\ role \in [Client -> Role]

(* The flag isBusy and the pointer activeSpeaker, which RequestFloor and   *)
(* IsFloorHolder test together, never disagree, and a speaker is tuned to  *)
(* the channel: RemoveSubscriber never leaves a departed client talking.   *)
SpeakerIsTuned ==
    /\ isBusy <=> activeSpeaker # NoClient
    /\ activeSpeaker # NoClient => activeSpeaker \in Subscribers

(* While somebody talks, the timer the channel knows of is running, or has *)
(* fired and its handleTOT is about to clear the floor: no sequence of     *)
(* grants, preemptions, releases and expiries, however stale, leaves a     *)
(* speaker without a time-out.                                             *)
SpeakerIsTimed ==
    TOTEnabled /\ activeSpeaker # NoClient =>
        /\ totTimer # NoTimer
        /\ timer[totTimer] \in {"running", "fired"}

(* A running timer that the channel no longer knows of cannot be stopped.  *)
Orphans == {t \in Timer : timer[t] = "running" /\ t # totTimer}

(* Only the handleTOT of another timer can orphan a running timer: grants, *)
(* preemptions, releases and departures always stop the timer they replace *)
(* (channel.go's cancelTOT is never forgotten).                            *)
OnlyExpiryOrphans ==
    [][Orphans' \subseteq Orphans \/ \E t \in Timer : handleTOT(t)]_channelVars

(* The floor passes directly from one speaker to another only towards a    *)
(* strictly higher rank, judged by the roles at the moment of the request. *)
PreemptionNeedsRank ==
    [][activeSpeaker # NoClient /\ activeSpeaker' \notin {NoClient, activeSpeaker}
         => getPriority(activeSpeaker') > getPriority(activeSpeaker)]_channelVars

(* A time-out ends the transmission it was started for: when handleTOT of  *)
(* a timer silences a speaker, it is the timer of that transmission.       *)
TimeoutEndsItsOwn ==
    [][\A t \in Timer : handleTOT(t) /\ activeSpeaker # NoClient => totTimer = t]_channelVars

(* The abstract floor: the transmitters are the clients for whom           *)
(* IsFloorHolder answers true, the only ones whose audio is accepted.      *)
AbstractFloor == INSTANCE Floor WITH
    members <- Subscribers,
    transmitters <- {c \in Client : IsFloorHolder(c)},
    rank <- [c \in Client |-> getPriority(c)]

(* A channel implements the abstract floor: at most one transmitter, taken *)
(* only when free or by rank, and lost with membership.                    *)
ImplementsFloor == AbstractFloor!Spec

(* No hot mic: whoever holds the floor loses it eventually, even when the  *)
(* button is pressed again and again (a repeated ptt_down of the holder    *)
(* does not restart the timer).  It needs TOTEnabled.                      *)
NoHotMic == AbstractFloor!NoHotMic
=============================================================================
