--------------------------- MODULE ChannelProofs ---------------------------
(***************************************************************************)
(* Proofs about Channel for any set of clients, roles and timers, with the *)
(* time-out timer enabled or not.                                          *)
(***************************************************************************)
EXTENDS Channel, TLAPS

(* What SpeakerIsTimed needs to be inductive: a timer the channel knows of *)
(* is never idle, and a speaker always has one.                            *)
KnownTimerAlive == totTimer # NoTimer => timer[totTimer] # "idle"
SpeakerHasTimer == TOTEnabled /\ activeSpeaker # NoClient => totTimer # NoTimer

(* The inductive invariant. *)
ChannelInv ==
    /\ ChannelTypeOK
    /\ SpeakerIsTuned
    /\ KnownTimerAlive
    /\ SpeakerHasTimer

----------------------------------------------------------------------------
(* Stop on the known timer keeps every timer's state legal and makes no    *)
(* other timer run.                                                        *)
LEMMA StoppedType ==
    ASSUME ChannelTypeOK
    PROVE  /\ Stopped \in [Timer -> TimerState]
           /\ \A t \in Timer : Stopped[t] = "running" => timer[t] = "running" /\ t # totTimer
  BY DEF ChannelTypeOK, Stopped, TimerState

(* cancelTOT leaves a legal state, without a known timer or new orphans. *)
LEMMA CancelTOTEffect ==
    ASSUME ChannelTypeOK, cancelTOT
    PROVE  /\ totTimer' = NoTimer
           /\ timer' \in [Timer -> TimerState]
           /\ Orphans' \subseteq Orphans
  BY StoppedType DEF cancelTOT, Orphans

(* restartTOT leaves a live known timer whenever time-outs are enabled. *)
LEMMA RestartTOTEffect ==
    ASSUME ChannelTypeOK, restartTOT
    PROVE  /\ totTimer' \in Timer \cup {NoTimer}
           /\ timer' \in [Timer -> TimerState]
           /\ totTimer' # NoTimer => timer'[totTimer'] = "running"
           /\ TOTEnabled => totTimer' # NoTimer
           /\ Orphans' \subseteq Orphans
<1>1. CASE TOTEnabled
  <2>1. PICK t \in Timer : /\ Stopped[t] = "idle"
                           /\ timer' = [Stopped EXCEPT ![t] = "running"]
                           /\ totTimer' = t
    BY <1>1 DEF restartTOT
  <2>2. timer' \in [Timer -> TimerState] /\ timer'[t] = "running"
    BY <2>1, StoppedType DEF TimerState
  <2>3. \A u \in Timer : timer'[u] = "running" /\ u # t => Stopped[u] = "running"
    BY <2>1, StoppedType
  <2>4. Orphans' \subseteq Orphans
    BY <2>1, <2>3, StoppedType DEF Orphans
  <2>5. totTimer' # NoTimer
    BY <2>1, ChannelAssumption
  <2> QED BY <2>1, <2>2, <2>4, <2>5
<1>2. CASE ~TOTEnabled
  BY <1>2, CancelTOTEffect DEF restartTOT, cancelTOT
<1> QED BY <1>1, <1>2

----------------------------------------------------------------------------
(* A channel starts in a state of the invariant. *)
LEMMA InitInv == ChannelInit => ChannelInv
  BY ChannelAssumption
  DEF ChannelInit, ChannelInv, ChannelTypeOK, SpeakerIsTuned, KnownTimerAlive,
      SpeakerHasTimer, TimerState

(* Every method of Channel, and the expiry of every timer, keeps it. *)
LEMMA NextInv == ChannelInv /\ [ChannelNext]_channelVars => ChannelInv'
<1> SUFFICES ASSUME ChannelInv, [ChannelNext]_channelVars PROVE ChannelInv'
  OBVIOUS
<1> USE ChannelAssumption
<1>t. ChannelTypeOK BY DEF ChannelInv
<1>c. ASSUME clearFloor, Subscribers' \subseteq Client, role' \in [Client -> Role]
      PROVE  ChannelInv'
  <2>1. totTimer' = NoTimer /\ timer' \in [Timer -> TimerState]
    BY <1>t, <1>c, CancelTOTEffect DEF clearFloor
  <2> QED
    BY <2>1, <1>c DEF clearFloor, ChannelInv, ChannelTypeOK, SpeakerIsTuned, KnownTimerAlive,
                      SpeakerHasTimer
<1>s. ASSUME NEW c \in Client, c \in Subscribers, restartTOT, activeSpeaker' = c,
             isBusy' = TRUE, UNCHANGED <<Subscribers, role>>
      PROVE  ChannelInv'
  <2>1. /\ totTimer' \in Timer \cup {NoTimer}
        /\ timer' \in [Timer -> TimerState]
        /\ totTimer' # NoTimer => timer'[totTimer'] = "running"
        /\ TOTEnabled => totTimer' # NoTimer
    BY <1>t, <1>s, RestartTOTEffect
  <2> QED
    BY <2>1, <1>s, <1>t DEF ChannelInv, ChannelTypeOK, SpeakerIsTuned, KnownTimerAlive,
                            SpeakerHasTimer
<1>1. ASSUME NEW c \in Client, AddSubscriber(c) PROVE ChannelInv'
  BY <1>1 DEF AddSubscriber, ChannelInv, ChannelTypeOK, SpeakerIsTuned, KnownTimerAlive,
              SpeakerHasTimer
<1>2. ASSUME NEW c \in Client, RemoveSubscriber(c) PROVE ChannelInv'
  <2>1. CASE activeSpeaker = c
    BY <2>1, <1>2, <1>c, <1>t DEF RemoveSubscriber, ChannelTypeOK
  <2>2. CASE activeSpeaker # c
    BY <2>2, <1>2 DEF RemoveSubscriber, ChannelInv, ChannelTypeOK, SpeakerIsTuned,
                      KnownTimerAlive, SpeakerHasTimer
  <2> QED BY <2>1, <2>2
<1>u. ASSUME UNCHANGED channelVars PROVE ChannelInv'
  BY <1>u DEF channelVars, ChannelInv, ChannelTypeOK, SpeakerIsTuned, KnownTimerAlive,
              SpeakerHasTimer
<1>3. ASSUME NEW c \in Client, c \in Subscribers, RequestFloor(c) PROVE ChannelInv'
  <2>1. CASE KeepFloor(c) \/ DenyFloor(c)
    BY <2>1, <1>u DEF KeepFloor, DenyFloor
  <2>2. CASE PreemptFloor(c)
    <3>1. isBusy' = TRUE
      BY <2>2, <1>t DEF PreemptFloor, Busy, ChannelTypeOK
    <3> QED BY <3>1, <2>2, <1>3, <1>s DEF PreemptFloor
  <2>3. CASE GrantFloor(c)
    BY <2>3, <1>3, <1>s DEF GrantFloor
  <2> QED BY <2>1, <2>2, <2>3, <1>3 DEF RequestFloor
<1>4. ASSUME NEW c \in Client, ReleaseFloor(c) PROVE ChannelInv'
  BY <1>4, <1>c, <1>t DEF ReleaseFloor, ChannelTypeOK
<1>5. ASSUME ForceReleaseFloor PROVE ChannelInv'
  BY <1>5, <1>c, <1>t DEF ForceReleaseFloor, ChannelTypeOK
<1>6. ASSUME NEW t \in Timer, FireTOT(t) PROVE ChannelInv'
  BY <1>6 DEF FireTOT, ChannelInv, ChannelTypeOK, SpeakerIsTuned, KnownTimerAlive,
              SpeakerHasTimer, TimerState
<1>7. ASSUME NEW t \in Timer, handleTOT(t) PROVE ChannelInv'
  BY <1>7 DEF handleTOT, ChannelInv, ChannelTypeOK, SpeakerIsTuned, KnownTimerAlive,
              SpeakerHasTimer, TimerState
<1>8. ASSUME NEW c \in Client, NEW r \in Role, SetRole(c, r) PROVE ChannelInv'
  BY <1>8 DEF SetRole, ChannelInv, ChannelTypeOK, SpeakerIsTuned, KnownTimerAlive,
              SpeakerHasTimer
<1> QED
  BY <1>1, <1>2, <1>3, <1>4, <1>5, <1>6, <1>7, <1>8, <1>u DEF ChannelNext

(* The invariant holds in every reachable state. *)
LEMMA ChannelInvariant == ChannelSpec => []ChannelInv
  BY InitInv, NextInv, PTL DEF ChannelSpec
----------------------------------------------------------------------------
(* The variables of a Channel always have their types. *)
THEOREM TypeCorrect == ChannelSpec => []ChannelTypeOK
<1>1. ChannelInv => ChannelTypeOK BY DEF ChannelInv
<1> QED BY <1>1, ChannelInvariant, PTL

(* isBusy and activeSpeaker agree and the speaker is tuned, in every       *)
(* interleaving of requests, departures and expiries.                      *)
THEOREM SpeakerAlwaysTuned == ChannelSpec => []SpeakerIsTuned
<1>1. ChannelInv => SpeakerIsTuned BY DEF ChannelInv
<1> QED BY <1>1, ChannelInvariant, PTL

(* With the time-out timer enabled nobody ever talks without one. *)
THEOREM SpeakerAlwaysTimed == ChannelSpec => []SpeakerIsTimed
<1>1. ChannelInv => SpeakerIsTimed
  BY ChannelAssumption DEF ChannelInv, ChannelTypeOK, SpeakerIsTimed, KnownTimerAlive,
                           SpeakerHasTimer, TimerState
<1> QED BY <1>1, ChannelInvariant, PTL

(* No step but the handleTOT of another timer orphans a running timer. *)
THEOREM OrphansOnlyByExpiry == ChannelSpec => OnlyExpiryOrphans
<1> DEFINE Keeps == Orphans' \subseteq Orphans \/ \E t \in Timer : handleTOT(t)
<1>1. ASSUME ChannelInv, [ChannelNext]_channelVars PROVE [Keeps]_channelVars
  <2> SUFFICES Orphans' \subseteq Orphans \/ \E t \in Timer : handleTOT(t)
    BY DEF Keeps
  <2>t. ChannelTypeOK BY <1>1 DEF ChannelInv
  <2>c. ASSUME clearFloor PROVE Orphans' \subseteq Orphans
    BY <2>c, <2>t, CancelTOTEffect DEF clearFloor
  <2>u. ASSUME UNCHANGED <<totTimer, timer>> PROVE Orphans' \subseteq Orphans
    BY <2>u DEF Orphans
  <2>1. ASSUME NEW c \in Client, AddSubscriber(c) \/ RemoveSubscriber(c)
        PROVE  Orphans' \subseteq Orphans
    BY <2>1, <2>c, <2>u DEF AddSubscriber, RemoveSubscriber
  <2>2. ASSUME NEW c \in Client, RequestFloor(c) PROVE Orphans' \subseteq Orphans
    BY <2>2, <2>t, <2>u, RestartTOTEffect
    DEF RequestFloor, KeepFloor, DenyFloor, PreemptFloor, GrantFloor, channelVars
  <2>3. ASSUME NEW c \in Client, ReleaseFloor(c) \/ \E r \in Role : SetRole(c, r)
        PROVE  Orphans' \subseteq Orphans
    BY <2>3, <2>c, <2>u DEF ReleaseFloor, SetRole
  <2>4. ASSUME ForceReleaseFloor PROVE Orphans' \subseteq Orphans
    BY <2>4, <2>c DEF ForceReleaseFloor
  <2>5. ASSUME NEW t \in Timer, FireTOT(t) PROVE Orphans' \subseteq Orphans
    BY <2>5, <2>t DEF FireTOT, Orphans, ChannelTypeOK
  <2>6. ASSUME UNCHANGED channelVars PROVE Orphans' \subseteq Orphans
    BY <2>6, <2>u DEF channelVars
  <2> QED BY <1>1, <2>1, <2>2, <2>3, <2>4, <2>5, <2>6 DEF ChannelNext
<1> QED BY <1>1, ChannelInvariant, PTL DEF ChannelSpec, OnlyExpiryOrphans

(* A held floor is only ever lost to somebody else by strict rank. *)
THEOREM PreemptionByRank == ChannelSpec => PreemptionNeedsRank
<1> DEFINE ByRank ==
      activeSpeaker # NoClient /\ activeSpeaker' \notin {NoClient, activeSpeaker}
         => getPriority(activeSpeaker') > getPriority(activeSpeaker)
<1>1. ASSUME ChannelInv, [ChannelNext]_channelVars PROVE [ByRank]_channelVars
  <2> SUFFICES ASSUME activeSpeaker # NoClient, activeSpeaker' # NoClient,
                      activeSpeaker' # activeSpeaker
               PROVE  getPriority(activeSpeaker') > getPriority(activeSpeaker)
    BY DEF ByRank
  <2>1. Busy BY <1>1 DEF ChannelInv, SpeakerIsTuned, Busy
  <2>2. PICK c \in Client : PreemptFloor(c)
    BY <1>1, <2>1 DEF ChannelNext, channelVars, AddSubscriber, RemoveSubscriber, clearFloor,
                RequestFloor, KeepFloor, DenyFloor, GrantFloor, ReleaseFloor,
                ForceReleaseFloor, SetRole, FireTOT, handleTOT
  <2> QED BY <2>2 DEF PreemptFloor
<1> QED BY <1>1, ChannelInvariant, PTL DEF ChannelSpec, PreemptionNeedsRank
----------------------------------------------------------------------------
(* The abstract transmitters of a channel. *)
Holders == {c \in Client : IsFloorHolder(c)}

(* Ranks of the abstract floor are natural numbers. *)
LEMMA RankType == \A c \in Client : getPriority(c) \in Nat
  BY DEF getPriority, RolePriority

(* In a reachable state the holders are the speaker, or nobody. *)
LEMMA HoldersAre ==
    ASSUME ChannelInv
    PROVE  /\ activeSpeaker = NoClient => Holders = {}
           /\ activeSpeaker # NoClient => Holders = {activeSpeaker}
  BY ChannelAssumption DEF ChannelInv, ChannelTypeOK, SpeakerIsTuned, Holders, IsFloorHolder

(* A channel implements the abstract floor: every method maps to a step of *)
(* Floor or to no step.                                                    *)
THEOREM Refinement == ChannelSpec => ImplementsFloor
<1> DEFINE ranks == [c \in Client |-> getPriority(c)]
<1>1. ChannelInit => AbstractFloor!Init
  BY RankType, ChannelAssumption
  DEF ChannelInit, AbstractFloor!Init, IsFloorHolder
<1>2. ASSUME ChannelInv, ChannelInv', [ChannelNext]_channelVars
      PROVE  [AbstractFloor!Next]_AbstractFloor!vars
  <2> USE ChannelAssumption DEF Holders
  <2>a. /\ activeSpeaker = NoClient => Holders = {}
        /\ activeSpeaker # NoClient => Holders = {activeSpeaker}
    BY <1>2, HoldersAre
  <2>b. /\ activeSpeaker' = NoClient => Holders' = {}
        /\ activeSpeaker' # NoClient => Holders' = {activeSpeaker'}
    BY <1>2 DEF ChannelInv, ChannelTypeOK, SpeakerIsTuned, IsFloorHolder
  <2>r. ASSUME UNCHANGED role PROVE ranks' = ranks
    BY <2>r DEF getPriority
  <2>f. ASSUME activeSpeaker' = NoClient, UNCHANGED <<Subscribers, role>>
        PROVE  AbstractFloor!Next
    BY <2>f, <2>b, <2>r DEF AbstractFloor!Next, AbstractFloor!Free
  <2>u. ASSUME UNCHANGED channelVars PROVE UNCHANGED AbstractFloor!vars
    BY <2>u, <2>r DEF channelVars, AbstractFloor!vars, IsFloorHolder
  <2>1. ASSUME NEW c \in Client, AddSubscriber(c) PROVE AbstractFloor!Next
    <3>1. Holders' = Holders BY <2>1 DEF AddSubscriber, IsFloorHolder
    <3> QED BY <2>1, <2>r, <3>1 DEF AddSubscriber, AbstractFloor!Next, AbstractFloor!Join
  <2>2. ASSUME NEW c \in Client, RemoveSubscriber(c) PROVE AbstractFloor!Next
    <3>1. Holders' = Holders \ {c}
      BY <2>2, <2>a, <2>b DEF RemoveSubscriber, clearFloor
    <3> QED BY <2>2, <2>r, <3>1 DEF RemoveSubscriber, AbstractFloor!Next, AbstractFloor!Leave
  <2>3. ASSUME NEW c \in Client, c \in Subscribers, RequestFloor(c)
        PROVE  AbstractFloor!Next \/ UNCHANGED AbstractFloor!vars
    <3>1. CASE KeepFloor(c) \/ DenyFloor(c)
      BY <3>1, <2>u DEF KeepFloor, DenyFloor
    <3>2. CASE PreemptFloor(c)
      <4>1. Holders = {activeSpeaker} /\ Holders' = {c}
        BY <3>2, <2>a, <2>b DEF PreemptFloor, Busy
      <4>2. activeSpeaker \in Client /\ ranks[c] > ranks[activeSpeaker]
        BY <3>2, <1>2 DEF PreemptFloor, Busy, ChannelInv, ChannelTypeOK
      <4>3. AbstractFloor!Preempt(c)
        BY <3>2, <2>3, <2>r, <4>1, <4>2 DEF PreemptFloor, AbstractFloor!Preempt
      <4> QED BY <4>3 DEF AbstractFloor!Next
    <3>3. CASE GrantFloor(c)
      <4>1. Holders = {} /\ Holders' = {c}
        BY <3>3, <1>2, <2>a, <2>b DEF GrantFloor, Busy, ChannelInv, SpeakerIsTuned
      <4>2. AbstractFloor!Take(c)
        BY <3>3, <2>3, <2>r, <4>1 DEF GrantFloor, AbstractFloor!Take
      <4> QED BY <4>2 DEF AbstractFloor!Next
    <3> QED BY <2>3, <3>1, <3>2, <3>3 DEF RequestFloor
  <2>4. ASSUME NEW c \in Client, ReleaseFloor(c) PROVE AbstractFloor!Next
    BY <2>4, <2>f DEF ReleaseFloor, clearFloor
  <2>5. ASSUME ForceReleaseFloor PROVE AbstractFloor!Next
    BY <2>5, <2>f DEF ForceReleaseFloor, clearFloor
  <2>6. ASSUME NEW t \in Timer, handleTOT(t) PROVE AbstractFloor!Next
    BY <2>6, <2>f DEF handleTOT
  <2>7. ASSUME NEW t \in Timer, FireTOT(t) PROVE UNCHANGED AbstractFloor!vars
    BY <2>7, <2>r DEF FireTOT, AbstractFloor!vars, IsFloorHolder
  <2>8. ASSUME NEW c \in Client, NEW r \in Role, SetRole(c, r) PROVE AbstractFloor!Next
    <3>1. Holders' = Holders BY <2>8 DEF SetRole, IsFloorHolder
    <3>2. ranks' \in [Client -> Nat]
      BY DEF getPriority, RolePriority
    <3>3. \A d \in Client \ {c} : ranks'[d] = ranks[d]
      BY <2>8, <1>2 DEF SetRole, getPriority, ChannelInv, ChannelTypeOK
    <3>4. AbstractFloor!Rerank(c)
      BY <2>8, <3>1, <3>2, <3>3 DEF SetRole, AbstractFloor!Rerank
    <3> QED BY <3>4 DEF AbstractFloor!Next
  <2> QED
    BY <1>2, <2>1, <2>2, <2>3, <2>4, <2>5, <2>6, <2>7, <2>8, <2>u DEF ChannelNext
<1> QED
  BY <1>1, <1>2, ChannelInvariant, PTL
  DEF ChannelSpec, ImplementsFloor, AbstractFloor!Spec
=============================================================================
