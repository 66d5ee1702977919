------------------------------ MODULE Recorder ------------------------------
(***************************************************************************)
(* internal/radio/recorder.go: the buffers of the transmissions on the     *)
(* air, the list of recordings and the WAV files on disk.  Every operation *)
(* holds r.mu, so each is one action.  Sizes are counted in packets.  A    *)
(* file is named after channel, callsign and the second it was saved in.   *)
(***************************************************************************)
EXTENDS Naturals, Sequences, FiniteSets

CONSTANTS
    Channel, Callsign,
    NoBuffer,          \* no transmission on a channel
    MinAudio,          \* shorter buffers are dropped (3200 bytes)
    MaxBuffer,         \* maxBufferBytes
    MaxHistory,        \* maxHistory, MAX_RECORDINGS
    MaxSaves,          \* bound on the recordings saved between restarts
    MaxClock,          \* bound on the seconds that pass
    MaxRestarts        \* bound on the restarts of the server

ASSUME RecorderAssumption ==
    /\ MinAudio \in Nat \ {0} /\ MaxBuffer \in Nat /\ MaxHistory \in Nat \ {0}
    /\ MaxSaves \in Nat /\ MaxClock \in Nat /\ MaxRestarts \in Nat

VARIABLES
    activeTX,       \* channel -> buffer: its callsign and length
    recordings,     \* the list, oldest first: file name, length, ordinal
    files,          \* the files on disk: name -> length
    saved,          \* how many recordings were saved since the start
    shared,         \* file names written again while they were listed
    clock, restarts

recorderVars == <<activeTX, recordings, files, saved, shared, clock, restarts>>

FileName == Channel \X Callsign \X (0..MaxClock)

RecorderInit ==
    /\ activeTX = [ch \in Channel |-> NoBuffer]
    /\ recordings = <<>>
    /\ files = [f \in {} |-> 0]
    /\ saved = 0
    /\ shared = {}
    /\ clock = 0
    /\ restarts = 0

----------------------------------------------------------------------------
(* A buffer that is still open is replaced. *)
OnTransmissionStart(ch, cs) ==
    /\ activeTX' = [activeTX EXCEPT ![ch] = [callsign |-> cs, size |-> 0]]
    /\ UNCHANGED <<recordings, files, saved, shared, clock, restarts>>

(* Mutant of AppendAudio: no limit. *)
AppendAudioUnlimited(ch, n) ==
    /\ activeTX[ch] # NoBuffer
    /\ activeTX[ch].size <= MaxBuffer
    /\ activeTX' = [activeTX EXCEPT ![ch].size = @ + n]
    /\ UNCHANGED <<recordings, files, saved, shared, clock, restarts>>

(* A packet that does not fit is dropped. *)
AppendAudio(ch, n) ==
    /\ activeTX[ch] # NoBuffer
    /\ activeTX[ch].size + n <= MaxBuffer
    /\ activeTX' = [activeTX EXCEPT ![ch].size = @ + n]
    /\ UNCHANGED <<recordings, files, saved, shared, clock, restarts>>

NameFor(ch) == <<ch, activeTX[ch].callsign, clock>>

(* A file is created or overwritten. *)
WriteFile(name, size) == [f \in DOMAIN files \cup {name} |-> IF f = name THEN size ELSE files[f]]

Names(list) == {list[i].name : i \in DOMAIN list}

(* Mutant of Evicted: the newest recordings are evicted. *)
EvictedNewest(list) == SubSeq(list, MaxHistory + 1, Len(list))

(* The recordings beyond the limit, oldest first ... *)
Evicted(list) == SubSeq(list, 1, Len(list) - MaxHistory)

(* Mutant of Kept: one recording too few is kept. *)
KeptTooFew(list) == SubSeq(list, Len(list) - MaxHistory + 2, Len(list))

(* ... and the ones that remain. *)
Kept(list) == SubSeq(list, Len(list) - MaxHistory + 1, Len(list))

Share(name) ==
    shared' = IF name \in Names(recordings) THEN shared \cup {name} ELSE shared

EndBuffer(ch) ==
    /\ activeTX[ch] # NoBuffer
    /\ activeTX' = [activeTX EXCEPT ![ch] = NoBuffer]

(* OnTransmissionEnd with less than 100 ms of audio. *)
EndTooShort(ch) ==
    /\ EndBuffer(ch)
    /\ activeTX[ch].size < MinAudio
    /\ UNCHANGED <<recordings, files, saved, shared, clock, restarts>>

(* OnTransmissionEnd when the file cannot be written, or not completely. *)
EndWriteFails(ch) ==
    /\ EndBuffer(ch)
    /\ activeTX[ch].size >= MinAudio
    /\ files' \in {files, WriteFile(NameFor(ch), 0)}
    /\ Share(NameFor(ch))
    /\ UNCHANGED <<recordings, saved, clock, restarts>>

(* OnTransmissionEnd: write, list, and prune list and disk (os.Remove is   *)
(* taken to succeed; the code ignores its result).                         *)
EndSaved(ch) ==
    LET written == WriteFile(NameFor(ch), activeTX[ch].size)
        list == Append(recordings, [name |-> NameFor(ch), size |-> activeTX[ch].size,
                                    ordinal |-> saved + 1])
        pruned == IF Len(list) > MaxHistory THEN Names(Evicted(list)) ELSE {}
    IN  /\ EndBuffer(ch)
        /\ activeTX[ch].size >= MinAudio
        /\ saved < MaxSaves
        /\ Share(NameFor(ch))
        /\ files' = [f \in DOMAIN written \ pruned |-> written[f]]
        /\ recordings' = IF Len(list) > MaxHistory THEN Kept(list) ELSE list
        /\ saved' = saved + 1
        /\ UNCHANGED <<clock, restarts>>

Tick ==
    /\ clock < MaxClock
    /\ clock' = clock + 1
    /\ UNCHANGED <<activeTX, recordings, files, saved, shared, restarts>>

(* NewAudioRecorder of a restarted server: the list starts empty. *)
NewAudioRecorder ==
    /\ restarts < MaxRestarts
    /\ restarts' = restarts + 1
    /\ activeTX' = [ch \in Channel |-> NoBuffer]
    /\ recordings' = <<>>
    /\ saved' = 0
    /\ shared' = {}
    /\ UNCHANGED <<files, clock>>

----------------------------------------------------------------------------
RecorderNext ==
    \/ \E ch \in Channel :
          \/ \E cs \in Callsign : OnTransmissionStart(ch, cs)
          \/ \E n \in 1..MinAudio : AppendAudio(ch, n)
          \/ EndTooShort(ch) \/ EndWriteFails(ch) \/ EndSaved(ch)
    \/ Tick
    \/ NewAudioRecorder

RecorderSpec == RecorderInit /\ [][RecorderNext]_recorderVars

----------------------------------------------------------------------------
(* The types; a buffer never outgrows maxBufferBytes. *)
RecorderTypeOK ==
    /\ activeTX \in [Channel -> [callsign : Callsign, size : 0..MaxBuffer] \cup {NoBuffer}]
    /\ recordings \in Seq([name : FileName, size : MinAudio..MaxBuffer, ordinal : Nat])
    /\ DOMAIN files \subseteq FileName
    /\ \A f \in DOMAIN files : files[f] \in 0..MaxBuffer
    /\ saved \in 0..MaxSaves
    /\ shared \subseteq FileName
    /\ clock \in 0..MaxClock
    /\ restarts \in 0..MaxRestarts

(* Every listed recording can be played: its file is on disk and is as     *)
(* long as the list says, after any failed writes, prunings and restarts.  *)
(* The only exception is a name that was written again while listed: a     *)
(* second transmission of a callsign saved within the same second.         *)
ListedFilesExist ==
    \A i \in DOMAIN recordings : recordings[i].name \notin shared =>
        /\ recordings[i].name \in DOMAIN files
        /\ files[recordings[i].name] = recordings[i].size

(* The list is the newest recordings, in order, none skipped, and as many  *)
(* of them as maxHistory allows.                                           *)
NewestAreListed ==
    /\ Len(recordings) = IF saved < MaxHistory THEN saved ELSE MaxHistory
    /\ \A i \in DOMAIN recordings : recordings[i].ordinal = saved - Len(recordings) + i
=============================================================================
