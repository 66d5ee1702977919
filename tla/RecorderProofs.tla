--------------------------- MODULE RecorderProofs ---------------------------
(***************************************************************************)
(* Proofs about Recorder, for any number of channels, recordings, seconds  *)
(* and restarts: the list is the newest recordings, and what it lists can  *)
(* be played.                                                              *)
(***************************************************************************)
EXTENDS Recorder, SequenceTheorems, TLAPS

Entry == [name : Channel \X Callsign \X Nat, size : Nat, ordinal : Nat]

Archive ==
    /\ activeTX \in [Channel -> [callsign : Callsign, size : Nat] \cup {NoBuffer}]
    /\ recordings \in Seq(Entry)
    /\ saved \in Nat /\ clock \in Nat

(* A name stands for one recording, unless it was written twice. *)
NamesAreUnique ==
    \A i, j \in DOMAIN recordings :
        recordings[i].name = recordings[j].name /\ recordings[i].name \notin shared => i = j

RecorderInv == Archive /\ NamesAreUnique /\ ListedFilesExist /\ NewestAreListed

----------------------------------------------------------------------------
(* What the list is after a recording is saved: a window of the list that  *)
(* the new one was appended to, moved by one when it was full.             *)
LEMMA ListAfterSave ==
  ASSUME RecorderInv, NEW ch \in Channel, EndSaved(ch)
  PROVE  LET new == [name |-> NameFor(ch), size |-> activeTX[ch].size, ordinal |-> saved + 1]
             list == Append(recordings, new)
             cut == IF Len(list) > MaxHistory THEN 1 ELSE 0
         IN  /\ new \in Entry
             /\ list \in Seq(Entry) /\ Len(list) = Len(recordings) + 1
             /\ \A i \in 1..Len(recordings) : list[i] = recordings[i]
             /\ list[Len(recordings) + 1] = new
             /\ Len(recordings) \in Nat
             /\ recordings' \in Seq(Entry)
             /\ Len(recordings') = Len(recordings) + 1 - cut
             /\ \A i \in 1..Len(recordings') : recordings'[i] = list[i + cut]
             /\ files' = [f \in DOMAIN WriteFile(NameFor(ch), activeTX[ch].size)
                               \ (IF cut = 1 THEN {list[1].name} ELSE {}) |->
                             WriteFile(NameFor(ch), activeTX[ch].size)[f]]
             /\ saved' = saved + 1
<1> USE RecorderAssumption DEF RecorderAssumption, RecorderInv, Archive
<1> DEFINE new == [name |-> NameFor(ch), size |-> activeTX[ch].size, ordinal |-> saved + 1]
           list == Append(recordings, new)
           cut == IF Len(list) > MaxHistory THEN 1 ELSE 0
           n == Len(recordings)
<1>1. activeTX[ch] \in [callsign : Callsign, size : Nat]
  BY DEF EndSaved, EndBuffer
<1>2. new \in Entry
  BY <1>1 DEF NameFor, Entry
<1>3. /\ list \in Seq(Entry) /\ Len(list) = n + 1 /\ n \in Nat
      /\ \A i \in 1..n : list[i] = recordings[i]
      /\ list[n + 1] = new
  BY <1>2
<1>4. n <= MaxHistory
  BY DEF NewestAreListed
<1>5. UNCHANGED <<clock>> /\ saved' = saved + 1
      /\ recordings' = (IF Len(list) > MaxHistory THEN Kept(list) ELSE list)
      /\ files' = [f \in DOMAIN WriteFile(NameFor(ch), activeTX[ch].size)
                         \ (IF Len(list) > MaxHistory THEN Names(Evicted(list)) ELSE {}) |->
                      WriteFile(NameFor(ch), activeTX[ch].size)[f]]
  BY DEF EndSaved
<1> HIDE DEF new, list
<1>6. CASE Len(list) > MaxHistory
  <2>1. n + 1 = MaxHistory + 1 /\ cut = 1
    BY <1>3, <1>4, <1>6
  <2>2. recordings' = SubSeq(list, 2, n + 1) /\ Evicted(list) = SubSeq(list, 1, 1)
    <3>1. Len(list) - MaxHistory = 1 /\ Len(list) - MaxHistory + 1 = 2 /\ Len(list) = n + 1
      BY <1>3, <2>1
    <3> QED
      BY <1>5, <1>6, <3>1 DEF Kept, Evicted
  <2>3. /\ recordings' \in Seq(Entry) /\ Len(recordings') = n
        /\ \A i \in 1..n : recordings'[i] = list[i + 1]
    BY <1>3, <2>1, <2>2
  <2>4. DOMAIN Evicted(list) = {1} /\ Evicted(list)[1] = list[1]
    BY <1>3, <2>1, <2>2, SubSeqProperties
  <2>5. Names(Evicted(list)) = {list[1].name}
    BY <2>4 DEF Names
  <2> QED
    BY <1>2, <1>3, <1>5, <1>6, <2>1, <2>3, <2>5 DEF new, list
<1>7. CASE ~(Len(list) > MaxHistory)
  BY <1>2, <1>3, <1>5, <1>7 DEF new, list
<1> QED
  BY <1>6, <1>7

(* The recorder starts with an empty list. *)
LEMMA RecorderStart == RecorderInit => RecorderInv
  BY RecorderAssumption
  DEF RecorderAssumption, RecorderInit, RecorderInv, Archive, NamesAreUnique, ListedFilesExist,
      NewestAreListed, Entry

(* Saving a recording: it is new in the list, and what it evicts goes.     *)
LEMMA SaveStep ==
  ASSUME RecorderInv, NEW ch \in Channel, EndSaved(ch)
  PROVE  RecorderInv'
<1> DEFINE name == NameFor(ch)
           size == activeTX[ch].size
           new == [name |-> name, size |-> size, ordinal |-> saved + 1]
           list == Append(recordings, new)
           cut == IF Len(list) > MaxHistory THEN 1 ELSE 0
           n == Len(recordings)
<1>1. /\ new \in Entry /\ list \in Seq(Entry) /\ Len(list) = n + 1 /\ n \in Nat
      /\ \A i \in 1..n : list[i] = recordings[i]
      /\ list[n + 1] = new
      /\ recordings' \in Seq(Entry) /\ Len(recordings') = n + 1 - cut
      /\ \A i \in 1..Len(recordings') : recordings'[i] = list[i + cut]
      /\ saved' = saved + 1
  BY ListAfterSave
<1>2. files' = [f \in DOMAIN WriteFile(name, size) \ (IF cut = 1 THEN {list[1].name} ELSE {}) |->
                   WriteFile(name, size)[f]]
  BY ListAfterSave
<1>3. /\ shared \subseteq shared'
      /\ (\E i \in 1..n : recordings[i].name = name) => name \in shared'
  BY <1>1 DEF EndSaved, Share, Names, RecorderInv, Archive
<1>4. /\ new.name = name /\ new.size = size /\ new.ordinal = saved + 1
  OBVIOUS
<1>5. /\ cut \in {0, 1}
      /\ cut = 1 <=> n + 1 > MaxHistory
      /\ saved \in Nat /\ n = IF saved < MaxHistory THEN saved ELSE MaxHistory
      /\ \A i \in 1..n : recordings[i].ordinal = saved - n + i
      /\ MaxHistory \in Nat \ {0}
  BY <1>1, RecorderAssumption
  DEF RecorderAssumption, RecorderInv, Archive, NewestAreListed
<1>6. \A i \in 1..n : recordings[i].name \notin shared =>
         recordings[i].name \in DOMAIN files /\ files[recordings[i].name] = recordings[i].size
  BY <1>1 DEF RecorderInv, Archive, ListedFilesExist
<1>7. \A i, j \in 1..n :
         recordings[i].name = recordings[j].name /\ recordings[i].name \notin shared => i = j
  BY <1>1 DEF RecorderInv, Archive, NamesAreUnique
<1> HIDE DEF new, list, cut, name, size
(* In the list with the new recording, a name that is not shared is unique ... *)
<1>8. \A i, j \in 1..(n + 1) : list[i].name = list[j].name /\ list[i].name \notin shared' => i = j
  <2> SUFFICES ASSUME NEW i \in 1..(n + 1), NEW j \in 1..(n + 1), list[i].name = list[j].name,
                      list[i].name \notin shared'
               PROVE  i = j
    OBVIOUS
  <2>1. CASE i \in 1..n /\ j \in 1..n
    BY <1>1, <1>3, <1>7, <2>1
  <2>2. CASE i = n + 1 /\ j \in 1..n
    BY <1>1, <1>3, <1>4, <2>2
  <2>3. CASE j = n + 1 /\ i \in 1..n
    BY <1>1, <1>3, <1>4, <2>3
  <2> QED
    BY <1>1, <2>1, <2>2, <2>3
(* ... and its file is as long as the list says. *)
<1>9. \A i \in 1..(n + 1) : list[i].name \notin shared' =>
         /\ list[i].name \in DOMAIN WriteFile(name, size)
         /\ WriteFile(name, size)[list[i].name] = list[i].size
  <2> SUFFICES ASSUME NEW i \in 1..(n + 1), list[i].name \notin shared'
               PROVE  /\ list[i].name \in DOMAIN WriteFile(name, size)
                      /\ WriteFile(name, size)[list[i].name] = list[i].size
    OBVIOUS
  <2>1. CASE i = n + 1
    BY <1>1, <1>4, <2>1 DEF WriteFile
  <2>2. CASE i \in 1..n
    <3>1. list[i] = recordings[i] /\ recordings[i].name # name
      BY <1>1, <1>3, <2>2
    <3>2. recordings[i].name \in DOMAIN files /\ files[recordings[i].name] = recordings[i].size
      BY <1>3, <1>6, <2>2, <3>1
    <3> QED
      BY <3>1, <3>2 DEF WriteFile
  <2> QED
    BY <1>1, <2>1, <2>2
<1>10. Archive'
  BY <1>1, <1>5 DEF EndSaved, EndBuffer, RecorderInv, Archive
<1>11. DOMAIN recordings' = 1..Len(recordings') /\ \A i \in DOMAIN recordings' : i + cut \in 1..(n + 1)
  BY <1>1, <1>5
<1>12. NamesAreUnique'
  <2> SUFFICES ASSUME NEW i \in DOMAIN recordings', NEW j \in DOMAIN recordings',
                      recordings'[i].name = recordings'[j].name, recordings'[i].name \notin shared'
               PROVE  i = j
    BY DEF NamesAreUnique
  <2>1. i + cut = j + cut
    BY <1>1, <1>8, <1>11
  <2> QED
    BY <1>1, <1>5, <1>11, <2>1
<1>13. ListedFilesExist'
  <2> SUFFICES ASSUME NEW i \in DOMAIN recordings', recordings'[i].name \notin shared'
               PROVE  /\ recordings'[i].name \in DOMAIN files'
                      /\ files'[recordings'[i].name] = recordings'[i].size
    BY DEF ListedFilesExist
  <2> DEFINE k == i + cut
  <2>1. recordings'[i] = list[k] /\ k \in 1..(n + 1) /\ (cut = 1 => k # 1)
    BY <1>1, <1>5, <1>11
  <2>2. cut = 1 => list[k].name # list[1].name
    BY <1>1, <1>8, <2>1
  <2>3. list[k].name \in DOMAIN WriteFile(name, size) /\ WriteFile(name, size)[list[k].name] = list[k].size
    BY <1>9, <2>1
  <2> HIDE DEF k
  <2> QED
    BY <1>2, <2>1, <2>2, <2>3
<1>14. NewestAreListed'
  <2>1. Len(recordings') = IF saved' < MaxHistory THEN saved' ELSE MaxHistory
    BY <1>1, <1>5
  <2>2. \A k \in 1..(n + 1) : list[k].ordinal = saved - n + k
    <3>1. \A k \in 1..n : list[k].ordinal = saved - n + k
      BY <1>1, <1>5
    <3>2. list[n + 1].ordinal = saved - n + (n + 1)
      BY <1>1, <1>4, <1>5
    <3> QED
      BY <1>1, <3>1, <3>2
  <2>3. ASSUME NEW i \in DOMAIN recordings'
        PROVE  recordings'[i].ordinal = saved' - Len(recordings') + i
    <3>1. recordings'[i].ordinal = saved - n + (i + cut)
      BY <1>1, <1>11, <2>2
    <3> QED
      BY <1>1, <1>5, <1>11, <3>1
  <2> QED
    BY <2>1, <2>3 DEF NewestAreListed
<1> QED
  BY <1>10, <1>12, <1>13, <1>14 DEF RecorderInv

(* Every other operation, the failed write and the restart included.       *)
LEMMA RecorderStep == RecorderInv /\ [RecorderNext]_recorderVars => RecorderInv'
<1> SUFFICES ASSUME RecorderInv, [RecorderNext]_recorderVars PROVE RecorderInv'
  OBVIOUS
<1> USE RecorderAssumption DEF RecorderAssumption, RecorderInv
<1>1. ASSUME UNCHANGED <<recordings, files, saved, shared>>, clock' \in Nat,
             activeTX' \in [Channel -> [callsign : Callsign, size : Nat] \cup {NoBuffer}]
      PROVE  RecorderInv'
  BY <1>1 DEF Archive, NamesAreUnique, ListedFilesExist, NewestAreListed
<1>2. ASSUME NEW ch \in Channel, NEW cs \in Callsign, OnTransmissionStart(ch, cs)
      PROVE  RecorderInv'
  BY <1>1, <1>2 DEF OnTransmissionStart, Archive
<1>3. ASSUME NEW ch \in Channel, NEW n \in 1..MinAudio, AppendAudio(ch, n) PROVE RecorderInv'
  <2>1. activeTX[ch] \in [callsign : Callsign, size : Nat]
    BY <1>3 DEF AppendAudio, Archive
  <2>2. activeTX' \in [Channel -> [callsign : Callsign, size : Nat] \cup {NoBuffer}]
    BY <1>3, <2>1 DEF AppendAudio, Archive
  <2> QED
    BY <1>1, <1>3, <2>2 DEF AppendAudio, Archive
<1>4. ASSUME NEW ch \in Channel, EndTooShort(ch) PROVE RecorderInv'
  BY <1>1, <1>4 DEF EndTooShort, EndBuffer, Archive
<1>5. ASSUME NEW ch \in Channel, EndWriteFails(ch) PROVE RecorderInv'
  <2>1. /\ UNCHANGED <<recordings, saved, clock>> /\ shared \subseteq shared'
        /\ \A i \in DOMAIN recordings : recordings[i].name = NameFor(ch) => NameFor(ch) \in shared'
    BY <1>5 DEF EndWriteFails, Share, Names
  <2>2. Archive'
    BY <1>5, <2>1 DEF EndWriteFails, EndBuffer, Archive
  <2>3. NamesAreUnique' /\ NewestAreListed'
    BY <2>1 DEF NamesAreUnique, NewestAreListed
  <2>4. ListedFilesExist'
    <3>1. \A f \in DOMAIN files : f # NameFor(ch) => f \in DOMAIN files' /\ files'[f] = files[f]
      BY <1>5 DEF EndWriteFails, WriteFile
    <3> QED
      BY <2>1, <3>1 DEF ListedFilesExist
  <2> QED
    BY <2>2, <2>3, <2>4
<1>6. ASSUME NEW ch \in Channel, EndSaved(ch) PROVE RecorderInv'
  BY <1>6, SaveStep
<1>7. ASSUME Tick PROVE RecorderInv'
  BY <1>1, <1>7 DEF Tick, Archive
<1>8. ASSUME NewAudioRecorder PROVE RecorderInv'
  BY <1>8 DEF NewAudioRecorder, Archive, NamesAreUnique, ListedFilesExist, NewestAreListed, Entry
<1>9. ASSUME UNCHANGED recorderVars PROVE RecorderInv'
  BY <1>1, <1>9 DEF recorderVars, Archive
<1> QED
  BY <1>2, <1>3, <1>4, <1>5, <1>6, <1>7, <1>8, <1>9 DEF RecorderNext

(* In every reachable state RecorderInv holds.                             *)
THEOREM RecorderInvariant == RecorderSpec => []RecorderInv
  BY RecorderStart, RecorderStep, PTL DEF RecorderSpec

(* A file that is written has a name and a size within the bounds. *)
LEMMA WrittenIsTyped ==
  ASSUME RecorderTypeOK, NEW name \in FileName, NEW size \in 0..MaxBuffer
  PROVE  /\ DOMAIN WriteFile(name, size) \subseteq FileName
         /\ \A f \in DOMAIN WriteFile(name, size) : WriteFile(name, size)[f] \in 0..MaxBuffer
  BY DEF RecorderTypeOK, WriteFile

(* The bounds are kept by every operation of the recorder. *)
LEMMA RecorderTypeStep == RecorderTypeOK /\ [RecorderNext]_recorderVars => RecorderTypeOK'
<1> SUFFICES ASSUME RecorderTypeOK, [RecorderNext]_recorderVars PROVE RecorderTypeOK'
  OBVIOUS
<1> DEFINE Buffer == [callsign : Callsign, size : 0..MaxBuffer]
           Listed == [name : FileName, size : MinAudio..MaxBuffer, ordinal : Nat]
<1> USE RecorderAssumption DEF RecorderAssumption
<1>a. /\ activeTX \in [Channel -> Buffer \cup {NoBuffer}]
      /\ recordings \in Seq(Listed) /\ clock \in 0..MaxClock /\ saved \in 0..MaxSaves
      /\ shared \subseteq FileName
  BY DEF RecorderTypeOK
<1>b. ASSUME UNCHANGED <<recordings, files, saved, shared, clock, restarts>>,
             activeTX' \in [Channel -> Buffer \cup {NoBuffer}]
      PROVE  RecorderTypeOK'
  BY <1>b DEF RecorderTypeOK
<1>n. ASSUME NEW ch \in Channel, activeTX[ch] # NoBuffer
      PROVE  activeTX[ch] \in Buffer /\ NameFor(ch) \in FileName
  BY <1>n, <1>a DEF NameFor, FileName
<1>s. ASSUME NEW ch \in Channel, activeTX[ch] # NoBuffer, Share(NameFor(ch))
      PROVE  shared' \subseteq FileName
  BY <1>a, <1>n, <1>s DEF Share
<1>1. ASSUME NEW ch \in Channel, NEW cs \in Callsign, OnTransmissionStart(ch, cs)
      PROVE  RecorderTypeOK'
  <2>1. [callsign |-> cs, size |-> 0] \in Buffer
    OBVIOUS
  <2> QED BY <1>1, <1>a, <1>b, <2>1 DEF OnTransmissionStart
<1>2. ASSUME NEW ch \in Channel, NEW n \in 1..MinAudio, AppendAudio(ch, n) PROVE RecorderTypeOK'
  <2>1. activeTX[ch] \in Buffer
    BY <1>2, <1>n DEF AppendAudio
  <2>2. activeTX[ch].size + n \in 0..MaxBuffer
    BY <1>2, <2>1 DEF AppendAudio
  <2>3. [activeTX[ch] EXCEPT !.size = @ + n] \in Buffer
    BY <2>1, <2>2
  <2>4. activeTX' = [activeTX EXCEPT ![ch] = [activeTX[ch] EXCEPT !.size = @ + n]]
    BY <1>2, <1>a DEF AppendAudio
  <2> QED BY <1>2, <1>a, <1>b, <2>3, <2>4 DEF AppendAudio
<1>3. ASSUME NEW ch \in Channel, EndTooShort(ch) PROVE RecorderTypeOK'
  BY <1>3, <1>a, <1>b DEF EndTooShort, EndBuffer
<1>4. ASSUME NEW ch \in Channel, EndWriteFails(ch) PROVE RecorderTypeOK'
  <2>1. NameFor(ch) \in FileName /\ shared' \subseteq FileName
    BY <1>4, <1>n, <1>s DEF EndWriteFails, EndBuffer
  <2>2. DOMAIN files' \subseteq FileName /\ \A f \in DOMAIN files' : files'[f] \in 0..MaxBuffer
    <3>1. CASE files' = files BY <3>1 DEF RecorderTypeOK
    <3>2. CASE files' = WriteFile(NameFor(ch), 0)
      <4>1. 0 \in 0..MaxBuffer OBVIOUS
      <4> QED BY <2>1, <3>2, <4>1, WrittenIsTyped
    <3> QED BY <1>4, <3>1, <3>2 DEF EndWriteFails
  <2>3. /\ activeTX' \in [Channel -> Buffer \cup {NoBuffer}]
        /\ UNCHANGED <<recordings, saved, clock, restarts>>
    BY <1>4, <1>a DEF EndWriteFails, EndBuffer
  <2> QED BY <2>1, <2>2, <2>3 DEF RecorderTypeOK
<1>5. ASSUME NEW ch \in Channel, EndSaved(ch) PROVE RecorderTypeOK'
  <2> DEFINE written == WriteFile(NameFor(ch), activeTX[ch].size)
             new == [name |-> NameFor(ch), size |-> activeTX[ch].size, ordinal |-> saved + 1]
             list == Append(recordings, new)
             pruned == IF Len(list) > MaxHistory THEN Names(Evicted(list)) ELSE {}
  <2>0. /\ EndBuffer(ch) /\ activeTX[ch].size >= MinAudio /\ saved < MaxSaves
        /\ Share(NameFor(ch))
        /\ files' = [f \in DOMAIN written \ pruned |-> written[f]]
        /\ recordings' = (IF Len(list) > MaxHistory THEN Kept(list) ELSE list)
        /\ saved' = saved + 1 /\ UNCHANGED <<clock, restarts>>
    BY <1>5 DEF EndSaved
  <2>1. NameFor(ch) \in FileName /\ shared' \subseteq FileName /\ activeTX[ch] \in Buffer
    BY <2>0, <1>n, <1>s DEF EndBuffer
  <2>2. activeTX[ch].size \in MinAudio..MaxBuffer /\ activeTX[ch].size \in 0..MaxBuffer
    BY <2>0, <2>1
  <2>3. new \in Listed
    BY <2>1, <2>2, <1>a
  <2> HIDE DEF new
  <2>4. list \in Seq(Listed)
    BY <2>3, <1>a
  <2> HIDE DEF list, written, Listed
  <2>5. Kept(list) \in Seq(Listed) \/ ~(Len(list) > MaxHistory)
    BY <2>4, LenProperties, SubSeqProperties DEF Kept
  <2>6. recordings' \in Seq(Listed)
    BY <2>0, <2>4, <2>5
  <2>7. DOMAIN written \subseteq FileName /\ \A f \in DOMAIN written : written[f] \in 0..MaxBuffer
    BY <2>1, <2>2, WrittenIsTyped DEF written
  <2>8. DOMAIN files' \subseteq FileName /\ \A f \in DOMAIN files' : files'[f] \in 0..MaxBuffer
    BY <2>0, <2>7
  <2>9. /\ activeTX' \in [Channel -> Buffer \cup {NoBuffer}]
        /\ saved' \in 0..MaxSaves /\ clock' \in 0..MaxClock /\ restarts' \in 0..MaxRestarts
    BY <2>0, <1>a DEF EndBuffer, RecorderTypeOK
  <2> QED BY <2>1, <2>6, <2>8, <2>9 DEF RecorderTypeOK, Listed
<1>6. ASSUME Tick PROVE RecorderTypeOK'
  <2>1. clock' \in 0..MaxClock BY <1>6, <1>a DEF Tick
  <2> QED BY <1>6, <2>1 DEF Tick, RecorderTypeOK
<1>7. ASSUME NewAudioRecorder PROVE RecorderTypeOK'
  <2>1. /\ restarts' \in 0..MaxRestarts /\ saved' \in 0..MaxSaves
        /\ activeTX' \in [Channel -> Buffer \cup {NoBuffer}]
        /\ recordings' \in Seq(Listed) /\ shared' \subseteq FileName
    BY <1>7, EmptySeq DEF NewAudioRecorder, RecorderTypeOK
  <2> QED BY <1>7, <2>1 DEF NewAudioRecorder, RecorderTypeOK
<1>8. ASSUME UNCHANGED recorderVars PROVE RecorderTypeOK'
  BY <1>8 DEF recorderVars, RecorderTypeOK
<1> QED
  BY <1>1, <1>2, <1>3, <1>4, <1>5, <1>6, <1>7, <1>8 DEF RecorderNext

(* The recorder starts with no buffer, no recording and no file. *)
LEMMA RecorderTypeStart == RecorderInit => RecorderTypeOK
<1> SUFFICES ASSUME RecorderInit PROVE RecorderTypeOK
  OBVIOUS
<1>1. 0 \in 0..MaxSaves /\ 0 \in 0..MaxClock /\ 0 \in 0..MaxRestarts
  BY RecorderAssumption DEF RecorderAssumption
<1>2. DOMAIN files = {} BY DEF RecorderInit
<1>3. recordings \in Seq([name : FileName, size : MinAudio..MaxBuffer, ordinal : Nat])
  BY EmptySeq DEF RecorderInit
<1> QED BY <1>1, <1>2, <1>3 DEF RecorderInit, RecorderTypeOK

(* A buffer never outgrows maxBufferBytes, whatever packets arrive         *)
(* (AppendAudio), and what is listed has at least 100 ms of audio.         *)
THEOREM RecorderTypeCorrect == RecorderSpec => []RecorderTypeOK
  BY RecorderTypeStart, RecorderTypeStep, PTL DEF RecorderSpec

(* What the list of recordings names can be played: OnTransmissionEnd      *)
(* writes before it lists, and removes a file when its entry goes.         *)
THEOREM ListedCanBePlayed == RecorderSpec => []ListedFilesExist
  BY RecorderInvariant, PTL DEF RecorderInv

(* The list is the newest recordings, in order: OnTransmissionEnd drops    *)
(* the oldest and no other.                                                *)
THEOREM NewestAreKept == RecorderSpec => []NewestAreListed
  BY RecorderInvariant, PTL DEF RecorderInv
=============================================================================
