----------------------------- MODULE PartsProofs -----------------------------
(***************************************************************************)
(* Proofs about the machines of MCParts that have no proof module of their *)
(* own, and about all of them side by side.                                *)
(* Chat, for any number of uploads: a careful user's removed attachment is *)
(* never sent, and what keeps the send button disabled.                    *)
(* Capture, for any number of streams and hang-ups at any moment: no       *)
(* camera and no screen runs on after a call, but for two kinds of stream. *)
(* Inputs: in hold mode no order of presses and releases leaves the        *)
(* microphone open with nothing held down.                                 *)
(* Listener, for any channels, handlers, moves and reconnections: when the *)
(* RX light goes out with the transmission.                                *)
(* Scanner: its types.                                                     *)
(* The last part shows that a behaviour of the composition is one of every *)
(* machine, so that what is proved of the machines holds there as well.    *)
(***************************************************************************)
EXTENDS MCParts, VideoProofs, RecorderProofs

(***************************************************************************)
(* Chat                                                                    *)
(***************************************************************************)
Active(u) == upload[u] \in {"compress", "transfer", "encode", "clear"}

(* One upload at a time: it keeps the send button disabled.                *)
OneUpload ==
    /\ \A u, k \in Upload : Active(u) /\ Active(k) => u = k
    /\ \A u \in Upload : Active(u) => sendDisabled

(* The transfer under way is the one that a removal aborts. *)
TransferIsCurrent ==
    \A u \in Upload : upload[u] = "transfer" <=> currentUploadXHR = u

(* What was removed is over, and what was sent is on its way there. *)
SentAndRemoved ==
    /\ \A u \in removed : upload[u] = "over" /\ u \notin sent
    /\ \A u \in sent \cap Upload : upload[u] \in {"clear", "over"}

Composer ==
    /\ upload \in [Upload -> Stage] /\ sendDisabled \in BOOLEAN
    /\ currentUploadXHR \in Upload \cup {0}
    /\ sent \subseteq Upload \cup {0} /\ removed \subseteq Upload

ChatInv == Composer /\ OneUpload /\ TransferIsCurrent /\ SentAndRemoved

----------------------------------------------------------------------------
(* Zero names no upload. *)
LEMMA ZeroIsNoUpload == 0 \notin Upload
  BY DEF Upload

(* The composer starts empty. *)
LEMMA ChatStart == ChatInit => ChatInv
  BY ZeroIsNoUpload
  DEF ChatInit, ChatInv, Composer, OneUpload, TransferIsCurrent, SentAndRemoved, Active, Stage

(* Every step of user, browser and connection keeps the invariant. *)
LEMMA ChatStep == Careful /\ ChatInv /\ [ChatNext]_chatVars => ChatInv'
<1> SUFFICES ASSUME Careful, ChatInv, [ChatNext]_chatVars PROVE ChatInv'
  OBVIOUS
<1>z. 0 \notin Upload BY ZeroIsNoUpload
<1> USE <1>z DEF ChatInv, Composer, OneUpload, TransferIsCurrent, SentAndRemoved, Active, Stage
<1>u. ASSUME UNCHANGED <<upload, currentUploadXHR, sendDisabled, removed>>,
             sent' = sent \/ sent' = sent \cup {0}
      PROVE  ChatInv'
  BY <1>u
<1>1. ASSUME Attach PROVE ChatInv'
  BY <1>1, <1>u DEF Attach
<1>2. ASSUME Remove PROVE ChatInv'
  <2>1. /\ upload' = [u \in Upload |-> IF u = currentUploadXHR THEN "over" ELSE upload[u]]
        /\ currentUploadXHR' = 0 /\ sendDisabled' = FALSE
        /\ removed' = removed \cup {u \in Upload : upload[u] = "transfer"}
        /\ sent' = sent
    BY <1>2 DEF Remove, clearChatAttachment, AfterAbort
  <2>2. \A u \in Upload : upload[u] \in {"none", "transfer", "unread", "over"}
    BY <1>2 DEF Remove
  <2>3. \A u \in Upload : upload'[u] \in {"none", "unread", "over"}
    BY <2>1, <2>2
  <2> QED BY <2>1, <2>2, <2>3
<1>3. ASSUME NEW chip \in BOOLEAN, sendChatMessage(chip) PROVE ChatInv'
  <2>1. CASE ~attached
    BY <2>1, <1>3, <1>u DEF sendChatMessage, SendIfOpen
  <2>2. CASE attached
    <3>1. PICK u \in Upload, first \in {"compress", "transfer"} :
              /\ upload[u] = "none"
              /\ upload' = [upload EXCEPT ![u] = first]
              /\ currentUploadXHR' = IF first = "transfer" THEN u ELSE currentUploadXHR
              /\ sendDisabled' = TRUE
              /\ UNCHANGED <<sent, removed>>
      BY <2>2, <1>3 DEF sendChatMessage, Advance
    <3>2. \A k \in Upload : ~Active(k)
      BY <1>3 DEF sendChatMessage
    <3>3. currentUploadXHR = 0 BY <3>2
    <3> QED BY <3>1, <3>2, <3>3
  <2> QED BY <2>1, <2>2
<1>4. ASSUME NEW u \in Upload, Compressed(u) PROVE ChatInv'
  BY <1>4 DEF Compressed, Advance
<1>5. ASSUME NEW u \in Upload, Uploaded(u) PROVE ChatInv'
  BY <1>5 DEF Uploaded, Advance, SendIfOpen
<1>6. ASSUME NEW u \in Upload, UploadFails(u) PROVE ChatInv'
  BY <1>6 DEF UploadFails, Advance
<1>c. ASSUME NEW u \in Upload, upload[u] \in {"encode", "clear"},
             clearChatAttachment(Advance(u, "over")), removed' = removed,
             sent' = sent \/ sent' = sent \cup {u}
      PROVE  ChatInv'
  <2>1. currentUploadXHR = 0 BY <1>c
  <2>2. upload' = [upload EXCEPT ![u] = "over"]
    BY <2>1, <1>c DEF clearChatAttachment, AfterAbort, Advance
  <2>3. currentUploadXHR' = 0 /\ sendDisabled' = FALSE
    BY <1>c DEF clearChatAttachment
  <2> QED BY <1>c, <2>1, <2>2, <2>3
<1>7. ASSUME NEW u \in Upload, Encoded(u) PROVE ChatInv'
  BY <1>7, <1>c DEF Encoded, SendIfOpen
<1>8. ASSUME NEW u \in Upload, ClearTimer(u) PROVE ChatInv'
  BY <1>8, <1>c DEF ClearTimer
<1>r. ASSUME NEW u \in Upload, ReadFails(u) PROVE ChatInv'
  BY <1>r DEF ReadFails, Advance
<1>9. ASSUME Connection PROVE ChatInv'
  BY <1>9, <1>u DEF Connection
<1>10. ASSUME NEW d, Drawer(d) PROVE ChatInv'
  BY <1>10, <1>u DEF Drawer
<1>11. ASSUME openChat \/ closeChat \/ appendChatMessage \/ handleChatHistory
              \/ \E isMe \in BOOLEAN : handleIncomingChatMessage(isMe)
       PROVE  ChatInv'
  BY <1>11, <1>10 DEF openChat, closeChat, appendChatMessage, handleChatHistory,
                      handleIncomingChatMessage
<1>12. ASSUME UNCHANGED chatVars PROVE ChatInv'
  BY <1>12, <1>u DEF chatVars
<1> QED
  BY <1>1, <1>2, <1>3, <1>4, <1>5, <1>6, <1>7, <1>8, <1>r, <1>9, <1>11, <1>12
  DEF ChatNext, UploadStep

(* Whatever the user does, the types are kept: a second upload started by  *)
(* a chip may forget a transfer that could be aborted, but never leaves    *)
(* something else in its place.                                            *)
LEMMA ChatTypeStep == ChatTypeOK /\ [ChatNext]_chatVars => ChatTypeOK'
<1> SUFFICES ASSUME ChatTypeOK, [ChatNext]_chatVars PROVE ChatTypeOK'
  OBVIOUS
<1>z. 0 \notin Upload BY ZeroIsNoUpload
<1> USE <1>z, ChatAssumption DEF ChatTypeOK, Stage
<1>1. ASSUME Attach PROVE ChatTypeOK'
  BY <1>1 DEF Attach
<1>c. ASSUME NEW stages \in [Upload -> Stage], clearChatAttachment(stages)
      PROVE  /\ upload' \in [Upload -> Stage] /\ currentUploadXHR' = 0
             /\ attached' = FALSE /\ sendDisabled' = FALSE
  BY <1>c DEF clearChatAttachment, AfterAbort
<1>2. ASSUME Remove PROVE ChatTypeOK'
  BY <1>2, <1>c DEF Remove
<1>3. ASSUME NEW chip \in BOOLEAN, sendChatMessage(chip) PROVE ChatTypeOK'
  BY <1>3 DEF sendChatMessage, SendIfOpen, Advance
<1>4. ASSUME NEW u \in Upload, Compressed(u) PROVE ChatTypeOK'
  BY <1>4 DEF Compressed, Advance
<1>5. ASSUME NEW u \in Upload, Uploaded(u) PROVE ChatTypeOK'
  BY <1>5 DEF Uploaded, Advance, SendIfOpen
<1>6. ASSUME NEW u \in Upload, UploadFails(u) PROVE ChatTypeOK'
  BY <1>6 DEF UploadFails, Advance
<1>7. ASSUME NEW u \in Upload, Encoded(u) \/ ClearTimer(u) PROVE ChatTypeOK'
  <2>1. Advance(u, "over") \in [Upload -> Stage] BY DEF Advance
  <2> QED BY <1>7, <1>c, <2>1 DEF Encoded, ClearTimer, SendIfOpen
<1>r. ASSUME NEW u \in Upload, ReadFails(u) PROVE ChatTypeOK'
  BY <1>r DEF ReadFails, Advance
<1>8. ASSUME Connection PROVE ChatTypeOK'
  BY <1>8 DEF Connection
<1>9. ASSUME NEW d \in [open : BOOLEAN, unread : 0..MaxBubbles, bubbles : 0..MaxBubbles],
             d.open => d.unread = 0, Drawer(d)
      PROVE  ChatTypeOK'
  BY <1>9 DEF Drawer
<1>10. ASSUME openChat \/ closeChat PROVE ChatTypeOK'
  <2>1. CASE openChat
    <3> DEFINE e == [drawer EXCEPT !.open = TRUE, !.unread = 0]
    <3>1. e \in [open : BOOLEAN, unread : 0..MaxBubbles, bubbles : 0..MaxBubbles]
          /\ e.unread = 0
      <4>1. 0 \in 0..MaxBubbles OBVIOUS
      <4>2. drawer \in [open : BOOLEAN, unread : 0..MaxBubbles, bubbles : 0..MaxBubbles]
        OBVIOUS
      <4> HIDE ChatAssumption DEF ChatTypeOK, Stage
      <4> QED BY <4>1, <4>2
    <3>2. Drawer(e) BY <2>1 DEF openChat
    <3> HIDE DEF e
    <3> QED BY <1>9, <3>1, <3>2
  <2>2. CASE closeChat
    <3> DEFINE e == [drawer EXCEPT !.open = FALSE]
    <3>1. e \in [open : BOOLEAN, unread : 0..MaxBubbles, bubbles : 0..MaxBubbles] /\ ~e.open
      OBVIOUS
    <3>2. Drawer(e) BY <2>2 DEF closeChat
    <3> HIDE DEF e
    <3> QED BY <1>9, <3>1, <3>2
  <2> QED BY <1>10, <2>1, <2>2
<1>11. ASSUME appendChatMessage \/ handleChatHistory PROVE ChatTypeOK'
  <2>1. PICK n \in 0..MaxBubbles : Drawer([drawer EXCEPT !.bubbles = n])
    <3>1. CASE appendChatMessage
      <4>1. drawer.bubbles + 1 \in 0..MaxBubbles BY <3>1 DEF appendChatMessage
      <4>2. Drawer([drawer EXCEPT !.bubbles = drawer.bubbles + 1])
        BY <3>1 DEF appendChatMessage
      <4> QED BY <4>1, <4>2
    <3>2. CASE handleChatHistory BY <3>2 DEF handleChatHistory
    <3> QED BY <1>11, <3>1, <3>2
  <2> DEFINE e == [drawer EXCEPT !.bubbles = n]
  <2>2. /\ e \in [open : BOOLEAN, unread : 0..MaxBubbles, bubbles : 0..MaxBubbles]
        /\ e.open => e.unread = 0
    OBVIOUS
  <2>3. Drawer(e) BY <2>1
  <2> HIDE DEF e
  <2> QED BY <1>9, <2>2, <2>3
<1>12. ASSUME NEW isMe \in BOOLEAN, handleIncomingChatMessage(isMe) PROVE ChatTypeOK'
  <2> DEFINE d == [drawer EXCEPT !.bubbles = @ + 1,
                                 !.unread = IF drawer.open \/ isMe THEN @ ELSE @ + 1]
  <2>1. drawer.bubbles + 1 \in 0..MaxBubbles /\ drawer.unread + 1 \in 0..MaxBubbles
    BY <1>12 DEF handleIncomingChatMessage
  <2>2. d \in [open : BOOLEAN, unread : 0..MaxBubbles, bubbles : 0..MaxBubbles]
    BY <2>1
  <2>3. d.open => d.unread = 0 OBVIOUS
  <2>4. Drawer(d) BY <1>12 DEF handleIncomingChatMessage
  <2> HIDE DEF d
  <2> QED BY <1>9, <2>2, <2>3, <2>4
<1>13. ASSUME UNCHANGED chatVars PROVE ChatTypeOK'
  BY <1>13 DEF chatVars
<1> QED
  BY <1>1, <1>2, <1>3, <1>4, <1>5, <1>6, <1>7, <1>r, <1>8, <1>10, <1>11, <1>12, <1>13
  DEF ChatNext, UploadStep

(* Only a transfer can be aborted, and an open drawer has nothing unread,  *)
(* for every user and any number of uploads at once (radio.js:2791).       *)
THEOREM ChatTypeCorrect == ChatSpec => []ChatTypeOK
<1>1. ASSUME ChatInit PROVE ChatTypeOK
  <2>1. drawer \in [open : BOOLEAN, unread : 0..MaxBubbles, bubbles : 0..MaxBubbles]
    BY <1>1, ChatAssumption DEF ChatInit
  <2>2. drawer.unread = 0 BY <1>1 DEF ChatInit
  <2>3. upload \in [Upload -> Stage] BY <1>1 DEF ChatInit, Stage
  <2> QED BY <1>1, <2>1, <2>2, <2>3 DEF ChatInit, ChatTypeOK
<1> QED BY <1>1, ChatTypeStep, PTL DEF ChatSpec

(* A disabled send button has an upload behind it, or the failed read of   *)
(* the last one.                                                           *)
DisabledByUpload == sendDisabled => LastUnread \/ \E u \in Upload : Active(u)

(* Files are sent in order, and it is the last one that keeps the button   *)
(* disabled.                                                               *)
Last(u) == \A k \in Upload : k > u => upload[k] = "none"

LastDisables ==
    /\ \A u, k \in Upload : u < k /\ upload[u] = "none" => upload[k] = "none"
    /\ sendDisabled => \E u \in Upload : Last(u) /\ (Active(u) \/ upload[u] = "unread")

(* A stage follows another; whatever ends an upload enables the button.    *)
LEMMA DisabledStep ==
    ChatTypeOK /\ LastDisables /\ [ChatNext]_chatVars => LastDisables'
<1> SUFFICES ASSUME ChatTypeOK, LastDisables, [ChatNext]_chatVars PROVE LastDisables'
  OBVIOUS
<1> DEFINE Working == {"compress", "transfer", "encode", "unread", "clear"}
<1>t. upload \in [Upload -> Stage] /\ sendDisabled \in BOOLEAN /\ Upload \subseteq Nat
  BY DEF ChatTypeOK, Upload
<1>x. currentUploadXHR \in Upload => upload[currentUploadXHR] # "none"
  BY ZeroIsNoUpload DEF ChatTypeOK
<1>w. \A u \in Upload : Active(u) \/ upload[u] = "unread" <=> upload[u] \in Working
  BY DEF Active
<1>v. \A u \in Upload : (Active(u) \/ upload[u] = "unread")' <=> upload'[u] \in Working
  BY DEF Active
<1>u. ASSUME UNCHANGED <<upload, sendDisabled>> PROVE LastDisables'
  BY <1>u DEF LastDisables, Last, Active
<1>f. ASSUME sendDisabled' = FALSE,
             \A k \in Upload : upload'[k] = "none" <=> upload[k] = "none"
      PROVE  LastDisables'
  BY <1>f DEF LastDisables
<1>a. ASSUME NEW u \in Upload, NEW stage \in Working, upload[u] \in Working,
             upload' = Advance(u, stage), sendDisabled' = sendDisabled
      PROVE  LastDisables'
  <2>1. \A k \in Upload : /\ upload'[k] = "none" <=> upload[k] = "none"
                          /\ upload[k] \in Working => upload'[k] \in Working
    BY <1>a, <1>t DEF Advance
  <2> QED BY <2>1, <1>a, <1>w, <1>v DEF LastDisables, Last
<1>c. ASSUME NEW u \in Upload, NEW stages, clearChatAttachment(stages), upload[u] # "none",
             stages = upload \/ stages = Advance(u, "over")
      PROVE  LastDisables'
  <2>1. \A k \in Upload : upload'[k] = IF k = currentUploadXHR THEN "over" ELSE stages[k]
    BY <1>c DEF clearChatAttachment, AfterAbort
  <2>2. \A k \in Upload : stages[k] = "none" <=> upload[k] = "none"
    BY <1>c, <1>t DEF Advance
  <2>3. \A k \in Upload : upload'[k] = "none" <=> upload[k] = "none"
    BY <2>1, <2>2, <1>x
  <2>4. sendDisabled' = FALSE BY <1>c DEF clearChatAttachment
  <2> QED BY <2>3, <2>4, <1>f
<1>1. ASSUME Attach \/ Connection PROVE LastDisables'
  BY <1>1, <1>u DEF Attach, Connection
<1>2. ASSUME Remove PROVE LastDisables'
  <2>1. \A k \in Upload : upload'[k] = IF k = currentUploadXHR THEN "over" ELSE upload[k]
    BY <1>2 DEF Remove, clearChatAttachment, AfterAbort
  <2>2. sendDisabled' = FALSE BY <1>2 DEF Remove, clearChatAttachment
  <2> QED BY <2>1, <2>2, <1>x, <1>f
<1>3. ASSUME NEW chip \in BOOLEAN, sendChatMessage(chip) PROVE LastDisables'
  <2>1. CASE ~attached
    BY <2>1, <1>3, <1>u DEF sendChatMessage
  <2>2. CASE attached
    <3>1. PICK u \in Upload, first \in {"compress", "transfer"} :
              /\ upload[u] = "none" /\ \A k \in Upload : k < u => upload[k] # "none"
              /\ upload' = Advance(u, first) /\ sendDisabled' = TRUE
      BY <2>2, <1>3 DEF sendChatMessage
    <3>2. \A k \in Upload : upload'[k] = IF k = u THEN first ELSE upload[k]
      BY <3>1, <1>t DEF Advance
    <3>3. \A k \in Upload : k > u => upload'[k] = "none"
      BY <3>1, <3>2, <1>t DEF LastDisables
    <3>4. \A k, l \in Upload : k < l /\ upload'[k] = "none" => upload'[l] = "none"
      <4> SUFFICES ASSUME NEW k \in Upload, NEW l \in Upload, k < l, upload'[k] = "none"
                   PROVE  upload'[l] = "none"
        OBVIOUS
      <4>1. k # u /\ upload[k] = "none" BY <3>2
      <4>2. k > u BY <4>1, <3>1, <1>t
      <4> QED BY <4>2, <3>3, <1>t
    <3>5. upload'[u] \in Working BY <3>2
    <3> QED BY <3>3, <3>4, <3>5, <1>v DEF LastDisables, Last
  <2> QED BY <2>1, <2>2
<1>4. ASSUME NEW u \in Upload, UploadStep(u) PROVE LastDisables'
  <2>1. CASE Compressed(u) \/ Uploaded(u) \/ ReadFails(u)
    BY <2>1, <1>a DEF Compressed, Uploaded, ReadFails
  <2>2. CASE UploadFails(u)
    <3>1. upload[u] = "transfer" BY <2>2 DEF UploadFails
    <3>2. CASE upload' = Advance(u, "encode") /\ UNCHANGED sendDisabled
      BY <3>1, <3>2, <1>a
    <3>3. CASE upload' = Advance(u, "over") /\ sendDisabled' = FALSE
      <4>1. \A k \in Upload : upload'[k] = "none" <=> upload[k] = "none"
        BY <3>1, <3>3, <1>t DEF Advance
      <4> QED BY <4>1, <3>3, <1>f
    <3> QED BY <2>2, <3>2, <3>3 DEF UploadFails
  <2>3. CASE Encoded(u) \/ ClearTimer(u)
    <3>1. upload[u] # "none" /\ clearChatAttachment(Advance(u, "over"))
      BY <2>3 DEF Encoded, ClearTimer
    <3> QED BY <3>1, <1>c
  <2> QED BY <1>4, <2>1, <2>2, <2>3 DEF UploadStep
<1>5. ASSUME NEW d, Drawer(d) PROVE LastDisables'
  BY <1>5, <1>u DEF Drawer
<1>6. ASSUME openChat \/ closeChat \/ appendChatMessage \/ handleChatHistory
             \/ \E isMe \in BOOLEAN : handleIncomingChatMessage(isMe)
      PROVE  LastDisables'
  BY <1>6, <1>5 DEF openChat, closeChat, appendChatMessage, handleChatHistory,
                    handleIncomingChatMessage
<1>7. ASSUME UNCHANGED chatVars PROVE LastDisables'
  BY <1>7, <1>u DEF chatVars
<1> QED BY <1>1, <1>2, <1>3, <1>4, <1>6, <1>7 DEF ChatNext

(* The safety half of ComposerRecovers: the send button is disabled only   *)
(* while a compression, a transfer, an encoding or the clearing timer is   *)
(* still to end, or because the file sent last could not be read for the   *)
(* fallback, for every user and any number of uploads at once              *)
(* (sendChatMessage, radio.js:2998 and 3084).                              *)
THEOREM ButtonWaitsForUpload == ChatSpec => []DisabledByUpload
<1>1. ChatInit => LastDisables BY DEF ChatInit, LastDisables
<1>2. LastDisables => DisabledByUpload
  BY DEF LastDisables, Last, DisabledByUpload, LastUnread
<1> QED BY <1>1, <1>2, DisabledStep, ChatTypeCorrect, PTL DEF ChatSpec

(* The invariant holds in every reachable state of a careful user's page. *)
THEOREM ChatInvariant == ASSUME Careful PROVE ChatSpec => []ChatInv
<1>1. ChatInv /\ [ChatNext]_chatVars => ChatInv'
  BY ChatStep
<1> QED BY <1>1, ChatStart, PTL DEF ChatSpec

(* A removed attachment is not sent, neither by the transfer nor by the    *)
(* fallback (clearChatAttachment and the catch of sendChatMessage).        *)
THEOREM RemovedIsNotSent == ASSUME Careful PROVE ChatSpec => []CancelledIsNotSent
<1>1. ChatInv => CancelledIsNotSent
  BY DEF ChatInv, SentAndRemoved, CancelledIsNotSent
<1> QED BY <1>1, ChatInvariant, PTL

----------------------------------------------------------------------------
(***************************************************************************)
(* Capture                                                                 *)
(***************************************************************************)
(* What makes DarkWhenOver inductive: only the stream shown and the strays *)
(* are live, and outside a call the stream shown is a stray.               *)
CaptureInv ==
    /\ CaptureTypeOK
    /\ live \subseteq {localVideoStream} \cup strays
    /\ ~call.active => localVideoStream \in strays \cup {0}

CallType == [active : BOOLEAN, sharing : BOOLEAN, muted : BOOLEAN]

----------------------------------------------------------------------------
(* Nothing is live on a fresh page. *)
LEMMA CaptureStart == CaptureInit => CaptureInv
  BY CaptureAssumption DEF CaptureInit, CaptureInv, CaptureTypeOK, Starting

(* A request leaves the streams alone and names one of its own. *)
LEMMA AskEffect ==
    ASSUME CaptureInv, call' \in CallType, call'.active = call.active,
           NEW function \in Starting \cup {"stopScreenShare", "flipCamera"}, Ask(function)
    PROVE  CaptureInv'
<1> USE DEF CaptureInv, CaptureTypeOK
<1>1. requests' = requests + 1 /\ requests' \in 0..MaxStreams
  BY CaptureAssumption DEF Ask
<1>2. 1..requests \subseteq 1..requests' /\ 0..requests \subseteq 0..requests'
      /\ requests' \in 1..requests'
  BY <1>1, CaptureAssumption
<1>3. asking' \subseteq [function : Starting \cup {"stopScreenShare", "flipCamera"},
                         stream : 1..requests']
  BY <1>2 DEF Ask
<1>4. UNCHANGED <<enabled, resuming, localVideoStream, live, strays>> BY DEF Ask
<1> QED BY <1>1, <1>2, <1>3, <1>4 DEF CallType

(* Every request, answer and message keeps the invariant, in any order. *)
LEMMA CaptureStep == CaptureInv /\ [CaptureNext]_captureVars => CaptureInv'
<1> SUFFICES ASSUME CaptureInv, [CaptureNext]_captureVars PROVE CaptureInv'
  OBVIOUS
<1>t. call \in CallType BY DEF CaptureInv, CaptureTypeOK, CallType
<1>1. ASSUME startVideoCall \/ startScreenShare \/ flipCamera PROVE CaptureInv'
  BY <1>1, <1>t, AskEffect DEF startVideoCall, startScreenShare, flipCamera, Starting
<1>2. ASSUME stopScreenShare PROVE CaptureInv'
  <2>1. call' \in CallType /\ call'.active = call.active
    BY <1>2, <1>t DEF stopScreenShare, CallType
  <2> QED BY <1>2, <2>1, AskEffect DEF stopScreenShare
<1> USE DEF CaptureInv, CaptureTypeOK, CallType
<1>3. ASSUME toggleCamera PROVE CaptureInv'
  BY <1>3 DEF toggleCamera
<1>4. ASSUME endVideoCall PROVE CaptureInv'
  <2>1. /\ live' = live \ {localVideoStream} /\ localVideoStream' = 0
        /\ UNCHANGED <<enabled, asking, resuming, strays, requests>>
    BY <1>4 DEF endVideoCall, StopLocal
  <2>2. call' \in CallType BY <1>4 DEF endVideoCall
  <2> QED BY <2>1, <2>2
<1>5. ASSUME OfferArrives PROVE CaptureInv'
  BY <1>5 DEF OfferArrives
<1>6. ASSUME NEW q \in asking, Granted(q) PROVE CaptureInv'
  <2>1. q.stream \in 1..requests /\ requests' = requests
    BY <1>6 DEF Granted
  <2>2. live' \subseteq live \cup {q.stream} /\ live' \subseteq {q.stream} \cup strays
        /\ localVideoStream' = q.stream
    BY <1>6 DEF Granted, StopLocal
  <2>3. call' \in CallType /\ enabled' \in BOOLEAN /\ resuming' \subseteq Starting
    BY <1>6 DEF Granted
  <2>4. strays \subseteq strays' /\ strays' \subseteq strays \cup {q.stream}
        /\ asking' \subseteq asking
    BY <1>6 DEF Granted
  <2>5. ~call'.active => q.stream \in strays'
    BY <1>6 DEF Granted
  <2> QED BY <2>1, <2>2, <2>3, <2>4, <2>5
<1>7. ASSUME NEW q \in asking, Refused(q) PROVE CaptureInv'
  <2>1. asking' \subseteq asking /\ UNCHANGED <<enabled, resuming, requests>>
    BY <1>7 DEF Refused
  <2>2. CASE q.function = "startVideoCall"
    <3>1. /\ localVideoStream' = 0 /\ live' = live
          /\ strays' = strays \cup (live \cap {localVideoStream})
          /\ call' = [call EXCEPT !.active = TRUE]
      BY <2>2, <1>7 DEF Refused
    <3>2. call' \in CallType /\ call'.active BY <3>1
    <3> QED BY <2>1, <3>1, <3>2
  <2>3. CASE q.function = "stopScreenShare"
    BY <2>1, <2>3, <1>7 DEF Refused, StopLocal
  <2>4. CASE q.function \notin {"startVideoCall", "stopScreenShare"}
    BY <2>1, <2>4, <1>7 DEF Refused
  <2> QED BY <2>2, <2>3, <2>4
<1>8. ASSUME NEW function \in resuming, Resumed(function) PROVE CaptureInv'
  BY <1>8 DEF Resumed
<1>9. ASSUME UNCHANGED captureVars PROVE CaptureInv'
  BY <1>9 DEF captureVars
<1> QED BY <1>1, <1>2, <1>3, <1>4, <1>5, <1>6, <1>7, <1>8, <1>9 DEF CaptureNext

(* Of all streams granted, only the one shown and the strays can be live:  *)
(* whatever the user does while devices are asked for, whoever replaces a  *)
(* stream stops it (switchStream, radio.js:3428).                          *)
THEOREM CaptureInvariant == CaptureSpec => []CaptureInv
  BY CaptureStart, CaptureStep, PTL DEF CaptureSpec

(* Streams are numbered and stopped within their bounds, also when several *)
(* requests wait for a device at once (switchStream, radio.js:3427).       *)
THEOREM CaptureTypeCorrect == CaptureSpec => []CaptureTypeOK
<1>1. CaptureInv => CaptureTypeOK BY DEF CaptureInv
<1> QED BY <1>1, CaptureInvariant, PTL

(* Outside a call, camera and screen are off, for hang-ups at any moment:  *)
(* only what startVideoCall forgot and what was granted too late runs on   *)
(* (endVideoCall, radio.js:3681).                                          *)
THEOREM AlwaysDarkWhenOver == CaptureSpec => []DarkWhenOver
<1>1. CaptureInv => DarkWhenOver
  <2> SUFFICES ASSUME CaptureInv, ~call.active, NEW s \in live PROVE s \in strays
    BY DEF DarkWhenOver
  <2>1. s # 0 BY DEF CaptureInv, CaptureTypeOK
  <2> QED BY <2>1 DEF CaptureInv
<1> QED BY <1>1, CaptureInvariant, PTL

----------------------------------------------------------------------------
(***************************************************************************)
(* Inputs                                                                  *)
(***************************************************************************)
(* What is held down and will end the transmission when it is let go: any  *)
(* button under the mouse, the space bar, a touched button, but the button *)
(* of the composer only while isChatVoiceHolding.                          *)
WillRelease ==
    mouse # "none" \/ space \/ "main" \in touch \/ "video" \in touch
    \/ ("voice" \in touch /\ flags.voice)

(* OnlyFocusSticks is not inductive: a finger may rest on the button of    *)
(* the composer after another pointer has ended its transmission.          *)
HeldInHoldMode == pttMode = "hold" /\ floor # "off" => WillRelease \/ excused

HoldTypes ==
    /\ floor \in {"off", "requested", "granted"} /\ pttMode \in {"hold", "toggle"}
    /\ mouse \in Button \cup {"none"} /\ touch \subseteq Button
    /\ space \in BOOLEAN /\ focused \in BOOLEAN /\ excused \in BOOLEAN
    /\ flags \in [voice : BOOLEAN, video : BOOLEAN]

HoldInv == HoldTypes /\ HeldInHoldMode

(* With two levels the volume has two states. *)
Muted == [isQuickMuted |-> TRUE, slider |-> 0, previousVolume |-> 1]
Audible == [isQuickMuted |-> FALSE, slider |-> 1, previousVolume |-> 1]

InputsInv == HoldInv /\ volume \in {Muted, Audible}

----------------------------------------------------------------------------
(* A page starts idle and audible. *)
LEMMA InputsStart == InputsInit => InputsInv
<1> SUFFICES ASSUME InputsInit PROVE InputsInv
  OBVIOUS
<1>1. HoldInv
  BY DEF InputsInit, HoldInv, HoldTypes, HeldInHoldMode, Button
<1>2. volume = Audible
  BY DEF InputsInit, Audible
<1> QED BY <1>1, <1>2 DEF InputsInv

(* Pressing a button keeps the types, and cannot undo the hold of the      *)
(* composer's button.                                                      *)
LEMMA PressEffect ==
    ASSUME HoldTypes, NEW b \in Button, PressButton(b)
    PROVE  /\ floor' \in {"off", "requested", "granted"}
           /\ flags' \in [voice : BOOLEAN, video : BOOLEAN]
           /\ b = "voice" => flags'.voice
           /\ flags.voice => flags'.voice
<1>1. CASE b = "main"
  BY <1>1 DEF PressButton, Push, requestFloor, HoldTypes
<1>2. CASE b = "voice"
  BY <1>2 DEF PressButton, requestFloor, HoldTypes
<1>3. CASE b = "video"
  BY <1>3 DEF PressButton, requestFloor, HoldTypes
<1> QED BY <1>1, <1>2, <1>3 DEF Button

(* Quick mute and slider go from one state of the volume to another. *)
LEMMA VolumeStep ==
    ASSUME volume \in {Muted, Audible}, NEW v \in Level, toggleQuickMute \/ sliderVolume(v)
    PROVE  volume' \in {Muted, Audible}
<1>1. CASE toggleQuickMute /\ volume = Muted
  BY <1>1 DEF toggleQuickMute, Volume, Muted, Audible
<1>2. CASE toggleQuickMute /\ volume = Audible
  BY <1>2 DEF toggleQuickMute, Volume, Muted, Audible
<1>3. CASE sliderVolume(v) /\ v = 0
  <2>1. volume.previousVolume = 1
    <3>1. CASE volume = Muted BY <3>1 DEF Muted
    <3>2. CASE volume = Audible BY <3>2 DEF Audible
    <3> QED BY <3>1, <3>2
  <2> QED BY <1>3, <2>1 DEF sliderVolume, Volume, Muted
<1>4. CASE sliderVolume(v) /\ v = 1
  <2>1. (v = 0) = FALSE BY <1>4
  <2>2. volume' = [isQuickMuted |-> v = 0, slider |-> 1, previousVolume |-> 1]
    BY <1>4 DEF sliderVolume, Volume
  <2> QED BY <2>1, <2>2 DEF Audible
<1> QED BY <1>1, <1>2, <1>3, <1>4 DEF Level

(* Every event of the page keeps the invariant of what is held. *)
LEMMA HoldStep == HoldInv /\ [InputsNext]_inputVars => HoldInv'
<1> SUFFICES ASSUME HoldInv, [InputsNext]_inputVars PROVE HoldInv'
  OBVIOUS
<1>t. HoldTypes
  BY DEF HoldInv
<1> USE DEF HoldInv, HoldTypes, HeldInHoldMode, WillRelease, Button
<1>1. ASSUME NEW b \in Button, MouseDown(b) PROVE HoldInv'
  BY <1>1, <1>t, PressEffect DEF MouseDown, Settle
<1>2. ASSUME MouseUp PROVE HoldInv'
  BY <1>2 DEF MouseUp, Settle
<1>3. ASSUME NEW b \in Button, TouchStart(b) PROVE HoldInv'
  BY <1>3, <1>t, PressEffect DEF TouchStart, Settle
<1>4. ASSUME NEW b \in Button, TouchEnd(b) PROVE HoldInv'
  <2>1. CASE b = "main" BY <2>1, <1>4 DEF TouchEnd, Settle
  <2>2. CASE b = "voice" BY <2>2, <1>4 DEF TouchEnd, Settle
  <2>3. CASE b = "video" BY <2>3, <1>4 DEF TouchEnd, Settle
  <2> QED BY <2>1, <2>2, <2>3
<1>5. ASSUME SpaceDown PROVE HoldInv'
  BY <1>5 DEF SpaceDown, Push, requestFloor, Settle
<1>6. ASSUME SpaceUp PROVE HoldInv'
  BY <1>6 DEF SpaceUp
<1>7. ASSUME Blur PROVE HoldInv'
  BY <1>7 DEF Blur, Settle
<1>8. ASSUME FocusMoves PROVE HoldInv'
  BY <1>8 DEF FocusMoves
<1>9. ASSUME NEW mode \in {"hold", "toggle"}, SetMode(mode) PROVE HoldInv'
  BY <1>9 DEF SetMode
<1>10. ASSUME FloorStatus PROVE HoldInv'
  BY <1>10 DEF FloorStatus, Settle
<1>11. ASSUME NEW v \in Level, toggleQuickMute \/ sliderVolume(v) PROVE HoldInv'
  BY <1>11 DEF toggleQuickMute, sliderVolume, Volume
<1>12. ASSUME UNCHANGED inputVars PROVE HoldInv'
  BY <1>12 DEF inputVars
<1> QED
  BY <1>1, <1>2, <1>3, <1>4, <1>5, <1>6, <1>7, <1>8, <1>9, <1>10, <1>11, <1>12
  DEF InputsNext, Level

(* Every event of the page keeps the invariant. *)
LEMMA InputsStep == InputsInv /\ [InputsNext]_inputVars => InputsInv'
<1> SUFFICES ASSUME InputsInv, [InputsNext]_inputVars PROVE InputsInv'
  OBVIOUS
<1>1. HoldInv'
  BY HoldStep DEF InputsInv
<1>2. volume' \in {Muted, Audible}
  <2>1. CASE UNCHANGED volume
    BY <2>1 DEF InputsInv
  <2>2. CASE \E v \in Level : toggleQuickMute \/ sliderVolume(v)
    BY <2>2, VolumeStep DEF InputsInv
  <2>3. ASSUME NEW b \in Button, MouseDown(b) \/ TouchStart(b) \/ TouchEnd(b)
        PROVE  UNCHANGED volume
    BY <2>3 DEF MouseDown, TouchStart, TouchEnd
  <2>4. ASSUME MouseUp \/ SpaceDown \/ SpaceUp \/ Blur \/ FocusMoves \/ FloorStatus
        PROVE  UNCHANGED volume
    BY <2>4 DEF MouseUp, SpaceDown, SpaceUp, Blur, FocusMoves, FloorStatus
  <2>5. ASSUME NEW mode, SetMode(mode) PROVE UNCHANGED volume
    BY <2>5 DEF SetMode
  <2>6. 0 \in Level BY DEF Level
  <2> QED
    BY <2>1, <2>2, <2>3, <2>4, <2>5, <2>6 DEF InputsNext, inputVars
<1> QED BY <1>1, <1>2 DEF InputsInv

(* The invariant holds in every reachable state of a page. *)
THEOREM InputsInvariant == InputsSpec => []InputsInv
  BY InputsStart, InputsStep, PTL DEF InputsSpec

(* The quick mute is lit exactly at volume zero and always knows a volume  *)
(* to restore (toggleQuickMute and the slider, radio.js:1442, 1715).       *)
THEOREM InputsTypeCorrect == InputsSpec => []InputsTypeOK
<1>1. ASSUME InputsInv PROVE InputsTypeOK
  <2>1. HoldTypes BY <1>1 DEF InputsInv, HoldInv
  <2>2. volume \in [isQuickMuted : BOOLEAN, slider : Level, previousVolume : Level]
    <3>1. Muted \in [isQuickMuted : BOOLEAN, slider : Level, previousVolume : Level]
      BY DEF Muted, Level
    <3>2. Audible \in [isQuickMuted : BOOLEAN, slider : Level, previousVolume : Level]
      BY DEF Audible, Level
    <3> QED BY <1>1, <3>1, <3>2 DEF InputsInv
  <2>3. (volume.isQuickMuted <=> volume.slider = 0) /\ volume.previousVolume > 0
    <3>1. CASE volume = Muted BY <3>1 DEF Muted
    <3>2. CASE volume = Audible BY <3>2 DEF Audible
    <3> QED BY <1>1, <3>1, <3>2 DEF InputsInv
  <2> QED BY <2>1, <2>2, <2>3 DEF HoldTypes, InputsTypeOK
<1> QED BY <1>1, InputsInvariant, PTL

(* Nobody is heard in hold mode with everything let go, but for a space    *)
(* bar released inside a field and a change of mode (radio.js:1669).       *)
THEOREM NothingElseSticks == InputsSpec => []OnlyFocusSticks
<1>1. InputsInv => OnlyFocusSticks
  BY DEF InputsInv, HoldInv, HeldInHoldMode, WillRelease, OnlyFocusSticks
<1> QED BY <1>1, InputsInvariant, PTL

----------------------------------------------------------------------------
(***************************************************************************)
(* Listener                                                                *)
(***************************************************************************)
(* The requests of the page. *)
JoinType == [ch : Ch, ok : BOOLEAN]

(* A message says one of these things of a channel. *)
Says(n, ch, types) == n.ch = ch /\ n.type \in types

(* When all messages of s have been handled, what they say of ch has come  *)
(* out in a certain way: messages with a type in "to" bring that about,    *)
(* those with a type in "away" undo it, and "was" tells if it is so now.   *)
Ends(s, ch, was, to, away) ==
    \/ was /\ \A i \in 1..Len(s) : ~Says(s[i], ch, away)
    \/ \E i \in 1..Len(s) :
          /\ Says(s[i], ch, to)
          /\ \A j \in 1..Len(s) : j > i => ~Says(s[j], ch, away)

(* The status still to be sent is that of the channel joined, and nothing  *)
(* is under way without a connection.                                      *)
StatusIsOfTuned ==
    /\ joining # <<>> => \E type \in {"busy", "idle"} : joining = <<Notice(type, tuned)>>
    /\ tuned = 0 => joining = <<>> /\ joins = <<>> /\ inbox = <<>>

(* As long as no transmission ended before its user_talking was sent, one  *)
(* that is still to be sent is true.                                       *)
TalkIsTrue ==
    orderly => \A h \in Handler, ch \in Ch :
                  telling[h] = Notice("user_talking", ch) => busy[ch]

(* Nobody asks for a private channel without its password, and the channel *)
(* shown is the last one asked for; or, after a reconnection, one that the *)
(* client is not tuned to, and then the light is out and nothing under way *)
(* can change it.                                                          *)
ShownElsewhere ==
    /\ joins = <<>> /\ joining = <<>> /\ tuned # page.current
    /\ orderly => ~page.isReceiving
    /\ \A i \in 1..Len(inbox) : inbox[i].ch # page.current

ShownIsAskedFor ==
    /\ \A i \in 1..Len(joins) : joins[i].ch \in Private => joins[i].ok
    /\ \/ page.current = IF joins = <<>> THEN tuned ELSE joins[Len(joins)].ch
       \/ ShownElsewhere

(* A handler has still to say that nobody speaks. *)
EndIsTold == \E h \in Handler :
    telling[h] = Notice("idle", tuned) \/ telling[h] = Notice("user_stopped", tuned)

(* On the channel of the last request, the messages under way or still to  *)
(* be sent put the RX light out when nobody speaks.                        *)
LightGoesOut ==
    orderly /\ tuned # 0 /\ (\A i \in 1..Len(joins) : joins[i].ch = tuned) /\ ~busy[tuned] =>
        \/ joining = <<Notice("idle", tuned)>>
        \/ EndIsTold
        \/ Ends(inbox, tuned, ~page.isReceiving, {"idle", "user_stopped"}, {"user_talking"})

LightInv ==
    ListenerTypeOK /\ StatusIsOfTuned /\ TalkIsTrue /\ ShownIsAskedFor /\ LightGoesOut

----------------------------------------------------------------------------
(* More messages that do not undo it leave the outcome as it was. *)
LEMMA EndsKept ==
    ASSUME NEW s \in Seq(MessageType), NEW t \in Seq(MessageType), NEW ch, NEW was \in BOOLEAN,
           NEW to, NEW away,
           Ends(s, ch, was, to, away), \A i \in 1..Len(t) : ~Says(t[i], ch, away)
    PROVE  Ends(s \o t, ch, was, to, away)
<1> DEFINE u == s \o t
<1>1. /\ Len(u) = Len(s) + Len(t) /\ Len(s) \in Nat /\ Len(t) \in Nat
      /\ \A i \in 1..Len(s) : u[i] = s[i]
  BY ConcatProperties, LenProperties
<1>2. \A i \in 1..Len(u) : i > Len(s) => i - Len(s) \in 1..Len(t) /\ u[i] = t[i - Len(s)]
  BY ConcatProperties, <1>1
<1>3. \A i \in 1..Len(u) : i > Len(s) => ~Says(u[i], ch, away)
  BY <1>2
<1> HIDE DEF u
<1>4. CASE was /\ \A i \in 1..Len(s) : ~Says(s[i], ch, away)
  <2>1. \A i \in 1..Len(u) : ~Says(u[i], ch, away)
    BY <1>1, <1>3, <1>4
  <2>2. Ends(u, ch, was, to, away) BY <2>1, <1>4 DEF Ends
  <2> QED BY <2>2 DEF u
<1>5. CASE \E i \in 1..Len(s) :
              /\ Says(s[i], ch, to)
              /\ \A j \in 1..Len(s) : j > i => ~Says(s[j], ch, away)
  <2>1. PICK i \in 1..Len(s) :
              /\ Says(s[i], ch, to)
              /\ \A j \in 1..Len(s) : j > i => ~Says(s[j], ch, away)
    BY <1>5
  <2>2. i \in 1..Len(u) /\ Says(u[i], ch, to) BY <1>1, <2>1
  <2>3. \A j \in 1..Len(u) : j > i => ~Says(u[j], ch, away)
    BY <1>1, <1>3, <2>1
  <2>4. Ends(u, ch, was, to, away) BY <2>2, <2>3 DEF Ends
  <2> QED BY <2>4 DEF u
<1> QED BY <1>4, <1>5 DEF Ends

(* More messages that bring it about decide the outcome. *)
LEMMA EndsMade ==
    ASSUME NEW s \in Seq(MessageType), NEW t \in Seq(MessageType), NEW ch, NEW was \in BOOLEAN,
           NEW to, NEW away, Ends(t, ch, FALSE, to, away)
    PROVE  Ends(s \o t, ch, was, to, away)
<1> DEFINE u == s \o t
<1>1. /\ Len(u) = Len(s) + Len(t) /\ Len(s) \in Nat /\ Len(t) \in Nat
  BY ConcatProperties, LenProperties
<1>2. \A i \in 1..Len(u) : i > Len(s) => i - Len(s) \in 1..Len(t) /\ u[i] = t[i - Len(s)]
  BY ConcatProperties, <1>1
<1>3. PICK k \in 1..Len(t) :
          /\ Says(t[k], ch, to)
          /\ \A j \in 1..Len(t) : j > k => ~Says(t[j], ch, away)
  BY DEF Ends
<1> HIDE DEF u
<1> DEFINE i == Len(s) + k
<1>4. i \in 1..Len(u) /\ i > Len(s) /\ i - Len(s) = k BY <1>1, <1>3
<1>5. u[i] = t[k] BY <1>2, <1>4
<1>6. ASSUME NEW j \in 1..Len(u), j > i PROVE ~Says(u[j], ch, away)
  <2>1. j > Len(s) /\ j - Len(s) > k BY <1>1, <1>4, <1>6
  <2>2. j - Len(s) \in 1..Len(t) /\ u[j] = t[j - Len(s)] BY <1>2, <2>1
  <2> QED BY <1>3, <2>1, <2>2
<1>7. Ends(u, ch, was, to, away)
  <2>1. Says(u[i], ch, to) BY <1>3, <1>5
  <2> HIDE DEF i
  <2> QED BY <1>4, <1>6, <2>1 DEF Ends
<1> QED BY <1>7 DEF u

(* A message that is handled leaves the rest to the others. *)
LEMMA EndsTail ==
    ASSUME NEW s \in Seq(MessageType), s # <<>>, NEW ch, NEW was \in BOOLEAN,
           NEW now \in BOOLEAN, NEW to, NEW away, Ends(s, ch, was, to, away),
           Says(Head(s), ch, to) => now,
           was /\ ~Says(Head(s), ch, away) => now
    PROVE  Ends(Tail(s), ch, now, to, away)
<1> DEFINE t == Tail(s)
<1>1. /\ t \in Seq(MessageType) /\ Len(t) \in Nat /\ Len(t) = Len(s) - 1 /\ Len(s) \in Nat
      /\ \A i \in 1..Len(t) : t[i] = s[i + 1]
      /\ Head(s) = s[1]
  BY HeadTailProperties, LenProperties, EmptySeq
<1> HIDE DEF t
<1>2. ASSUME NEW i \in 1..Len(s), i > 1 PROVE i - 1 \in 1..Len(t) /\ t[i - 1] = s[i]
  <2>1. i - 1 \in 1..Len(t) /\ (i - 1) + 1 = i BY <1>1, <1>2
  <2> QED BY <2>1, <1>1
<1>3. \A i \in 1..Len(t) : i + 1 \in 1..Len(s) /\ i + 1 > 1 BY <1>1
<1>4. CASE was /\ \A i \in 1..Len(s) : ~Says(s[i], ch, away)
  <2>1. 1 \in 1..Len(s) BY <1>1, EmptySeq
  <2>2. now BY <1>4, <2>1, <1>1
  <2>3. \A i \in 1..Len(t) : ~Says(t[i], ch, away) BY <1>1, <1>3, <1>4
  <2> QED BY <2>2, <2>3 DEF Ends, t
<1>5. CASE \E i \in 1..Len(s) :
              /\ Says(s[i], ch, to)
              /\ \A j \in 1..Len(s) : j > i => ~Says(s[j], ch, away)
  <2>1. PICK i \in 1..Len(s) :
              /\ Says(s[i], ch, to)
              /\ \A j \in 1..Len(s) : j > i => ~Says(s[j], ch, away)
    BY <1>5
  <2>2. \A j \in 1..Len(t) : j + 1 > i => ~Says(t[j], ch, away)
    BY <1>1, <1>3, <2>1
  <2>3. CASE i = 1
    <3>1. now BY <1>1, <2>1, <2>3
    <3>2. \A j \in 1..Len(t) : ~Says(t[j], ch, away) BY <2>2, <2>3, <1>1
    <3> QED BY <3>1, <3>2 DEF Ends, t
  <2>4. CASE i > 1
    <3> DEFINE k == i - 1
    <3>1. k \in 1..Len(t) /\ Says(t[k], ch, to) BY <1>2, <2>1, <2>4
    <3>2. \A j \in 1..Len(t) : j > k => j + 1 > i BY <1>1
    <3>3. \A j \in 1..Len(t) : j > k => ~Says(t[j], ch, away) BY <2>2, <3>2
    <3> HIDE DEF k
    <3> QED BY <3>1, <3>3 DEF Ends, t
  <2> QED BY <2>3, <2>4
<1> QED BY <1>4, <1>5 DEF Ends

(* Without messages, it is as it was. *)
LEMMA EndsNow ==
    ASSUME NEW ch, NEW was \in BOOLEAN, NEW to, NEW away
    PROVE  Ends(<<>>, ch, was, to, away) <=> was
<1>1. Len(<<>>) = 0 BY EmptySeq
<1>2. 1..0 = {} OBVIOUS
<1> QED BY <1>1, <1>2 DEF Ends

----------------------------------------------------------------------------
PageType == [current : Ch, isReceiving : BOOLEAN]

(* What the steps of the proofs need of the types. *)
LEMMA ListenerTypes ==
    ASSUME ListenerTypeOK
    PROVE  /\ busy \in [Ch -> BOOLEAN] /\ telling \in [Handler -> HubNoticeType]
           /\ tuned \in Ch \cup {0} /\ 0 \notin Ch
           /\ inbox \in Seq(MessageType) /\ joins \in Seq(JoinType)
           /\ joining \in Seq(MessageType) /\ page \in PageType
           /\ page.current \in Ch /\ page.current # 0 /\ page.isReceiving \in BOOLEAN
           /\ (~page.isReceiving) \in BOOLEAN
<1>1. joining \in Seq(MessageType)
  <2>1. CASE joining = <<>> BY <2>1, EmptySeq
  <2>2. ASSUME NEW m \in MessageType, joining = <<m>> PROVE joining \in Seq(MessageType)
    BY <2>2
  <2> QED BY <2>1, <2>2 DEF ListenerTypeOK
<1>2. 0 \notin Ch BY DialAssumption DEF Ch
<1> QED BY <1>1, <1>2 DEF ListenerTypeOK, PageType, JoinType

(* What is broadcast is the last message of a client it is meant for. *)
LEMMA BroadcastEffect ==
    ASSUME ListenerTypeOK, NEW m \in MessageType, BroadcastSignal(m)
    PROVE  /\ inbox' \in Seq(MessageType)
           /\ tuned = m.ch => inbox' = inbox \o <<m>>
           /\ tuned # m.ch => inbox' = inbox
<1>1. CASE tuned = m.ch
  <2>1. inbox' = Append(inbox, m) BY <1>1 DEF BroadcastSignal
  <2>2. inbox' = inbox \o <<m>> BY <2>1, ListenerTypes, AppendIsConcat
  <2> QED BY <1>1, <2>1, <2>2, ListenerTypes, AppendProperties
<1>2. CASE tuned # m.ch
  BY <1>2, ListenerTypes DEF BroadcastSignal
<1> QED BY <1>1, <1>2

(* What a handler has to say is a message about a channel. *)
LEMMA TellEffect ==
    ASSUME ListenerTypeOK, NEW h \in Handler, TellFloor(h)
    PROVE  /\ telling[h] \in MessageType /\ telling[h].ch \in Ch
           /\ telling[h].type \in {"user_talking", "idle", "user_stopped"}
           /\ BroadcastSignal(telling[h])
           /\ telling' = [telling EXCEPT ![h] = IF telling[h].type = "idle"
                             THEN Notice("user_stopped", telling[h].ch) ELSE Quiet]
           /\ UNCHANGED <<busy, tuned, joining, joins, page, orderly>>
  BY ListenerTypes DEF TellFloor, HubNoticeType, MessageType

(* The effect of every message on what is shown and collected. *)
LEMMA HandleEffect ==
    ASSUME ListenerTypeOK, NEW m \in MessageType, Handle(m)
    PROVE  /\ page' \in PageType /\ replayChunks' \in BOOLEAN
           /\ page'.current = page.current
           /\ Says(m, page.current, {"idle", "user_stopped"}) => ~page'.isReceiving
           /\ ~page.isReceiving /\ ~Says(m, page.current, {"user_talking"}) =>
                 ~page'.isReceiving
<1>p. page \in PageType /\ replayChunks \in BOOLEAN
  BY ListenerTypes DEF ListenerTypeOK
<1> USE <1>p DEF Says, PageType
<1>1. CASE m.type = "audio"
  BY <1>1 DEF Handle
<1>2. CASE m.type # "audio" /\ m.ch # page.current
  BY <1>2 DEF Handle
<1>3. CASE m.ch = page.current /\ m.type = "idle"
  BY <1>3 DEF Handle, handleIdle
<1>4. CASE m.ch = page.current /\ m.type = "user_talking"
  BY <1>4 DEF Handle, handleUserTalking
<1>5. CASE m.ch = page.current /\ m.type = "user_stopped"
  BY <1>5 DEF Handle, handleUserStopped
<1>6. CASE m.ch = page.current /\ m.type = "busy"
  BY <1>6 DEF Handle
<1> QED BY <1>1, <1>2, <1>3, <1>4, <1>5, <1>6 DEF MessageType

(* What the user does moves the page, and asks the hub for the same.       *)
PageMoves ==
    /\ page' \in PageType /\ turns' \in 0..MaxTurns
    /\ page'.isReceiving = page.isReceiving
    /\ UNCHANGED <<busy, telling, tuned, joining, inbox, replayChunks, orderly>>
    /\ \/ joins' = joins /\ (tuned = 0 \/ page'.current = page.current)
       \/ /\ tuned # 0
          /\ \E ch \in Ch, answer \in Answers :
             /\ joins' = Append(joins, [ch |-> ch, ok |-> answer = "right"])
             /\ page'.current = ch /\ (ch \in Private => answer # "cancel")

LEMMA PageMovesOnly ==
    ASSUME ListenerTypeOK,
           \E ch \in Ch, answer \in Answers :
               PickChannel(ch, answer) \/ autoJoinNearestChannel(ch, answer)
    PROVE  PageMoves
<1>1. PICK ch \in Ch, answer \in Answers : PickChannel(ch, answer)
  BY DEF autoJoinNearestChannel
<1>2. page \in PageType BY ListenerTypes
<1>3. /\ page' \in PageType /\ page'.isReceiving = page.isReceiving
      /\ page'.current = changeChannel(page.current, ch, answer)
  BY <1>1, <1>2 DEF PickChannel, PageType, changeChannel
<1>4. turns' \in 0..MaxTurns
  BY <1>1, DialAssumption DEF PickChannel, ListenerTypeOK
<1>5. CASE ch \in Private /\ answer = "cancel"
  <2>1. joins' = joins /\ page'.current = page.current
    BY <1>1, <1>3, <1>5 DEF PickChannel, changeChannel
  <2> QED BY <1>1, <1>3, <1>4, <2>1 DEF PickChannel, PageMoves
<1>6. CASE ~(ch \in Private /\ answer = "cancel") /\ tuned = 0
  <2>1. joins' = joins BY <1>1, <1>6 DEF PickChannel
  <2> QED BY <1>1, <1>3, <1>4, <1>6, <2>1 DEF PickChannel, PageMoves
<1>7. CASE ~(ch \in Private /\ answer = "cancel") /\ tuned # 0
  <2>1. joins' = Append(joins, [ch |-> ch, ok |-> answer = "right"]) /\ page'.current = ch
    BY <1>1, <1>3, <1>7 DEF PickChannel, changeChannel
  <2> QED BY <1>1, <1>3, <1>4, <1>7, <2>1 DEF PickChannel, PageMoves
<1> QED BY <1>5, <1>6, <1>7

----------------------------------------------------------------------------
(* Every step keeps the types. *)
LEMMA ListenerTypesStep == ListenerTypeOK /\ [ListenerNext]_listenerVars => ListenerTypeOK'
<1> SUFFICES ASSUME ListenerTypeOK, [ListenerNext]_listenerVars PROVE ListenerTypeOK'
  OBVIOUS
<1>t. ListenerTypeOK OBVIOUS
<1>q. Quiet \in HubNoticeType BY DEF HubNoticeType
<1>n. ASSUME NEW ch \in Ch, NEW type \in {"user_talking", "idle", "user_stopped"}
      PROVE  Notice(type, ch) \in HubNoticeType
  BY DEF HubNoticeType, Notice
<1>1. ASSUME NEW h \in Handler, NEW ch \in Ch, Talk(h, ch) \/ Stop(h, ch)
      PROVE  ListenerTypeOK'
  <2>1. busy' \in [Ch -> BOOLEAN] /\ telling' \in [Handler -> HubNoticeType]
        /\ orderly' \in BOOLEAN
    BY <1>1, <1>n, <1>t DEF Talk, Stop, ListenerTypeOK
  <2>2. UNCHANGED <<tuned, joining, joins, inbox, page, replayChunks, turns>>
    BY <1>1 DEF Talk, Stop
  <2> QED BY <2>1, <2>2, <1>t DEF ListenerTypeOK
<1>2. ASSUME NEW h \in Handler, TellFloor(h) PROVE ListenerTypeOK'
  <2>1. telling' \in [Handler -> HubNoticeType]
    BY <1>2, <1>n, <1>q, <1>t, TellEffect DEF ListenerTypeOK
  <2>2. inbox' \in Seq(MessageType) BY <1>2, TellEffect, BroadcastEffect
  <2>3. UNCHANGED <<busy, tuned, joining, joins, page, replayChunks, orderly, turns>>
    BY <1>2 DEF TellFloor
  <2> QED BY <2>1, <2>2, <2>3, <1>t DEF ListenerTypeOK
<1>3. ASSUME NEW ch \in Ch, Sound(ch) PROVE ListenerTypeOK'
  <2>1. Notice("audio", ch) \in MessageType BY DEF Notice, MessageType
  <2>2. inbox' \in Seq(MessageType) BY <1>3, <2>1, BroadcastEffect DEF Sound
  <2>3. UNCHANGED <<busy, telling, tuned, joining, joins, page, replayChunks, orderly, turns>>
    BY <1>3 DEF Sound
  <2> QED BY <2>2, <2>3, <1>t DEF ListenerTypeOK
<1>4. ASSUME HubSwitch PROVE ListenerTypeOK'
  <2>1. joins # <<>> /\ joins \in Seq(JoinType) /\ joins' = Tail(joins)
    BY <1>4, ListenerTypes DEF HubSwitch
  <2>2. Head(joins) \in JoinType /\ joins' \in Seq(JoinType)
    BY <2>1, HeadTailProperties
  <2>3. Head(joins).ch \in Ch BY <2>2 DEF JoinType
  <2>4. \/ UNCHANGED <<tuned, joining>>
        \/ /\ tuned' = Head(joins).ch
           /\ joining' = <<Notice(IF busy[Head(joins).ch] THEN "busy" ELSE "idle",
                                  Head(joins).ch)>>
    BY <1>4 DEF HubSwitch
  <2>5. \A type \in {"busy", "idle"} : Notice(type, Head(joins).ch) \in MessageType
    BY <2>3 DEF Notice, MessageType
  <2>6. UNCHANGED <<busy, telling, inbox, page, replayChunks, orderly, turns>>
    BY <1>4 DEF HubSwitch
  <2>7. joining' = <<>> \/ \E m \in MessageType : joining' = <<m>>
    BY <2>4, <2>5, <1>t DEF ListenerTypeOK
  <2>8. tuned' \in Ch \cup {0} BY <2>3, <2>4, <1>t DEF ListenerTypeOK
  <2> QED BY <2>2, <2>6, <2>7, <2>8, <1>t DEF ListenerTypeOK, JoinType
<1>5. ASSUME HubStatus PROVE ListenerTypeOK'
  <2>1. inbox' \in Seq(MessageType)
    BY <1>5, ListenerTypes, ConcatProperties DEF HubStatus
  <2>2. /\ UNCHANGED <<busy, telling, tuned, joins, page, replayChunks, orderly, turns>>
        /\ joining' = <<>>
    BY <1>5 DEF HubStatus
  <2> QED BY <2>1, <2>2, <1>t DEF ListenerTypeOK
<1>6. ASSUME Disconnect PROVE ListenerTypeOK'
  <2>1. /\ tuned' = 0 /\ joining' = <<>> /\ joins' = <<>> /\ inbox' = <<>>
        /\ UNCHANGED <<busy, telling, page, replayChunks, turns>>
        /\ orderly' \in BOOLEAN
    BY <1>6, <1>t DEF Disconnect, ListenerTypeOK
  <2> QED BY <2>1, <1>t, EmptySeq DEF ListenerTypeOK
<1>7. ASSUME Reconnect PROVE ListenerTypeOK'
  <2>1. 1 \in Ch BY DialAssumption DEF Ch
  <2>2. tuned' = 1
        /\ UNCHANGED <<busy, telling, joining, joins, inbox, page, replayChunks, orderly, turns>>
    BY <1>7 DEF Reconnect
  <2> QED BY <2>1, <2>2, <1>t DEF ListenerTypeOK
<1>8. ASSUME Receive PROVE ListenerTypeOK'
  <2>1. inbox # <<>> /\ Handle(Head(inbox)) /\ inbox' = Tail(inbox)
        /\ UNCHANGED <<busy, telling, tuned, joining, joins, orderly, turns>>
    BY <1>8 DEF Receive
  <2>2. Head(inbox) \in MessageType /\ inbox' \in Seq(MessageType)
    BY <2>1, ListenerTypes, HeadTailProperties
  <2>3. page' \in PageType /\ replayChunks' \in BOOLEAN BY <2>1, <2>2, HandleEffect
  <2> QED BY <2>1, <2>2, <2>3, <1>t DEF ListenerTypeOK, PageType
<1>9. ASSUME \E ch \in Ch, answer \in Answers :
                 PickChannel(ch, answer) \/ autoJoinNearestChannel(ch, answer)
      PROVE  ListenerTypeOK'
  <2>1. PageMoves BY <1>9, PageMovesOnly
  <2>2. joins' \in Seq(JoinType)
    <3>1. CASE joins' = joins BY <3>1, ListenerTypes
    <3>2. ASSUME NEW ch \in Ch, NEW answer \in Answers,
                 joins' = Append(joins, [ch |-> ch, ok |-> answer = "right"])
          PROVE  joins' \in Seq(JoinType)
      <4>1. [ch |-> ch, ok |-> answer = "right"] \in JoinType BY DEF JoinType
      <4> QED BY <4>1, <3>2, ListenerTypes, AppendProperties
    <3> QED BY <2>1, <3>1, <3>2 DEF PageMoves
  <2> QED BY <2>1, <2>2, <1>t DEF PageMoves, ListenerTypeOK, PageType, JoinType
<1>10. ASSUME UNCHANGED listenerVars PROVE ListenerTypeOK'
  BY <1>10, <1>t DEF listenerVars, ListenerTypeOK
<1> QED
  BY <1>1, <1>2, <1>3, <1>4, <1>5, <1>6, <1>7, <1>8, <1>9, <1>10 DEF ListenerNext

(* The status of the channel joined is read when it is joined, and lost    *)
(* with the connection.                                                    *)
LEMMA StatusStep ==
    StatusIsOfTuned /\ ListenerTypeOK /\ [ListenerNext]_listenerVars => StatusIsOfTuned'
<1> SUFFICES ASSUME StatusIsOfTuned, ListenerTypeOK, [ListenerNext]_listenerVars
             PROVE  StatusIsOfTuned'
  OBVIOUS
<1>u. ASSUME UNCHANGED <<tuned, joining, joins>>, tuned = 0 => inbox' = inbox
      PROVE  StatusIsOfTuned'
  BY <1>u DEF StatusIsOfTuned
<1>1. ASSUME NEW h \in Handler, NEW ch \in Ch, Talk(h, ch) \/ Stop(h, ch)
      PROVE  StatusIsOfTuned'
  BY <1>1, <1>u DEF Talk, Stop
<1>2. ASSUME NEW h \in Handler, TellFloor(h) PROVE StatusIsOfTuned'
  BY <1>2, <1>u, TellEffect, BroadcastEffect, ListenerTypes
<1>3. ASSUME NEW ch \in Ch, Sound(ch) PROVE StatusIsOfTuned'
  <2>1. Notice("audio", ch) \in MessageType /\ Notice("audio", ch).ch = ch
    BY DEF Notice, MessageType
  <2> QED BY <1>3, <1>u, <2>1, BroadcastEffect, ListenerTypes DEF Sound
<1>4. ASSUME HubSwitch PROVE StatusIsOfTuned'
  <2>1. CASE UNCHANGED <<tuned, joining>>
    <3>1. tuned # 0 BY <1>4 DEF HubSwitch, StatusIsOfTuned
    <3> QED BY <2>1, <3>1 DEF StatusIsOfTuned
  <2>2. CASE ~UNCHANGED <<tuned, joining>>
    <3>1. /\ tuned' = Head(joins).ch
          /\ joining' = <<Notice(IF busy[tuned'] THEN "busy" ELSE "idle", tuned')>>
      BY <1>4, <2>2 DEF HubSwitch
    <3>2. Head(joins) \in JoinType
      BY <1>4, ListenerTypes, HeadTailProperties DEF HubSwitch
    <3>3. tuned' # 0 BY <3>1, <3>2, ListenerTypes DEF JoinType
    <3> QED BY <3>1, <3>3 DEF StatusIsOfTuned
  <2> QED BY <2>1, <2>2
<1>5. ASSUME HubStatus PROVE StatusIsOfTuned'
  BY <1>5 DEF HubStatus, StatusIsOfTuned
<1>6. ASSUME Disconnect \/ Reconnect PROVE StatusIsOfTuned'
  BY <1>6 DEF Disconnect, Reconnect, StatusIsOfTuned
<1>7. ASSUME Receive PROVE StatusIsOfTuned'
  BY <1>7, <1>u DEF Receive, StatusIsOfTuned
<1>8. ASSUME \E ch \in Ch, answer \in Answers :
                 PickChannel(ch, answer) \/ autoJoinNearestChannel(ch, answer)
      PROVE  StatusIsOfTuned'
  BY <1>8, PageMovesOnly DEF PageMoves, StatusIsOfTuned
<1>9. ASSUME UNCHANGED listenerVars PROVE StatusIsOfTuned'
  BY <1>9, <1>u DEF listenerVars
<1> QED
  BY <1>1, <1>2, <1>3, <1>4, <1>5, <1>6, <1>7, <1>8, <1>9 DEF ListenerNext

(* An end that comes before the user_talking is counted as disorderly. *)
LEMMA TalkStep ==
    TalkIsTrue /\ ListenerTypeOK /\ [ListenerNext]_listenerVars => TalkIsTrue'
<1> SUFFICES ASSUME TalkIsTrue, ListenerTypeOK, [ListenerNext]_listenerVars
             PROVE  TalkIsTrue'
  OBVIOUS
<1>t. busy \in [Ch -> BOOLEAN] /\ telling \in [Handler -> HubNoticeType]
  BY ListenerTypes
<1>u. ASSUME UNCHANGED <<busy, telling>>, orderly' => orderly PROVE TalkIsTrue'
  BY <1>u DEF TalkIsTrue
<1>1. ASSUME NEW h \in Handler, NEW ch \in Ch, Talk(h, ch) PROVE TalkIsTrue'
  <2> SUFFICES ASSUME orderly', NEW k \in Handler, NEW c \in Ch,
                      telling'[k] = Notice("user_talking", c)
               PROVE  busy'[c]
    BY DEF TalkIsTrue
  <2>1. orderly BY <1>1 DEF Talk
  <2>2. CASE c = ch BY <1>1, <1>t, <2>2 DEF Talk
  <2>3. CASE c # ch
    <3>1. k # h
      <4>1. telling'[h] = Notice("user_talking", ch) BY <1>1, <1>t DEF Talk
      <4> QED BY <4>1, <2>3 DEF Notice
    <3>2. telling[k] = telling'[k] /\ busy'[c] = busy[c] BY <1>1, <1>t, <2>3, <3>1 DEF Talk
    <3> QED BY <2>1, <3>2 DEF TalkIsTrue
  <2> QED BY <2>2, <2>3
<1>2. ASSUME NEW h \in Handler, NEW ch \in Ch, Stop(h, ch) PROVE TalkIsTrue'
  <2> SUFFICES ASSUME orderly', NEW k \in Handler, NEW c \in Ch,
                      telling'[k] = Notice("user_talking", c)
               PROVE  busy'[c]
    BY DEF TalkIsTrue
  <2>1. orderly /\ \A l \in Handler : telling[l] # Notice("user_talking", ch)
    BY <1>2 DEF Stop
  <2>2. k # h
    <3>1. telling'[h] = Notice("idle", ch) BY <1>2, <1>t DEF Stop
    <3> QED BY <3>1 DEF Notice
  <2>3. telling[k] = telling'[k] BY <1>2, <1>t, <2>2 DEF Stop
  <2>4. c # ch BY <2>1, <2>3
  <2>5. busy'[c] = busy[c] BY <1>2, <1>t, <2>4 DEF Stop
  <2> QED BY <2>1, <2>3, <2>5 DEF TalkIsTrue
<1>3. ASSUME NEW h \in Handler, TellFloor(h) PROVE TalkIsTrue'
  <2> SUFFICES ASSUME orderly', NEW k \in Handler, NEW c \in Ch,
                      telling'[k] = Notice("user_talking", c)
               PROVE  busy'[c]
    BY DEF TalkIsTrue
  <2>1. k # h
    <3>1. telling'[h] \in {Notice("user_stopped", telling[h].ch), Quiet}
      BY <1>3, <1>t, TellEffect
    <3> QED BY <3>1 DEF Notice, Quiet
  <2>2. telling[k] = telling'[k] /\ UNCHANGED <<busy, orderly>>
    BY <1>3, <1>t, <2>1, TellEffect
  <2> QED BY <2>2 DEF TalkIsTrue
<1>4. ASSUME NEW ch \in Ch, Sound(ch) PROVE TalkIsTrue'
  BY <1>4, <1>u DEF Sound
<1>5. ASSUME HubSwitch \/ HubStatus \/ Reconnect \/ Receive PROVE TalkIsTrue'
  BY <1>5, <1>u DEF HubSwitch, HubStatus, Reconnect, Receive
<1>6. ASSUME Disconnect PROVE TalkIsTrue'
  BY <1>6, <1>u DEF Disconnect
<1>7. ASSUME \E ch \in Ch, answer \in Answers :
                 PickChannel(ch, answer) \/ autoJoinNearestChannel(ch, answer)
      PROVE  TalkIsTrue'
  BY <1>7, <1>u, PageMovesOnly DEF PageMoves
<1>8. ASSUME UNCHANGED listenerVars PROVE TalkIsTrue'
  BY <1>8, <1>u DEF listenerVars
<1> QED BY <1>1, <1>2, <1>3, <1>4, <1>5, <1>6, <1>7, <1>8 DEF ListenerNext

----------------------------------------------------------------------------
(* A user who knows the passwords or cancels: no request is refused.       *)
NoneRefused == "wrong" \notin Answers

(* The channel of a request served is the one of the client (SwitchChannel *)
(* refuses only a password that is not right).                             *)
LEMMA SwitchEffect ==
    ASSUME LightInv, HubSwitch
    PROVE  /\ joins \in Seq(JoinType) /\ joins # <<>> /\ joining = <<>> /\ tuned' = joins[1].ch
           /\ joins' = Tail(joins) /\ joins' \in Seq(JoinType)
           /\ Len(joins') \in Nat /\ Len(joins') = Len(joins) - 1
           /\ \A i \in 1..Len(joins') : joins'[i] = joins[i + 1] /\ i + 1 \in 1..Len(joins)
           /\ tuned' = tuned =>  joining' = joining
           /\ tuned' # tuned /\ ~busy[tuned'] => joining' = <<Notice("idle", tuned')>>
           /\ UNCHANGED <<busy, telling, inbox, page, orderly>>
<1>1. joins \in Seq(JoinType) /\ joins # <<>> /\ joining = <<>> /\ joins' = Tail(joins)
      /\ UNCHANGED <<busy, telling, inbox, page, orderly>>
  BY ListenerTypes DEF HubSwitch, LightInv
<1>2. /\ joins' \in Seq(JoinType) /\ Len(joins') \in Nat /\ Len(joins') = Len(joins) - 1
      /\ \A i \in 1..Len(joins') : joins'[i] = joins[i + 1]
      /\ Head(joins) = joins[1] /\ Len(joins) \in Nat
  BY <1>1, HeadTailProperties, LenProperties
<1>3. \A i \in 1..Len(joins') : i + 1 \in 1..Len(joins)
  BY <1>2
<1>4. 1 \in 1..Len(joins) BY <1>1, <1>2, EmptySeq
<1>5. joins[1].ch \in Private => joins[1].ok
  BY <1>4 DEF LightInv, ShownIsAskedFor
<1>6. tuned' = joins[1].ch
  BY <1>2, <1>5 DEF HubSwitch
<1>7. /\ tuned' = tuned => joining' = joining
      /\ tuned' # tuned => joining' = <<Notice(IF busy[tuned'] THEN "busy" ELSE "idle", tuned')>>
  BY <1>2, <1>5, <1>6 DEF HubSwitch
<1> QED BY <1>1, <1>2, <1>3, <1>6, <1>7

(* The channel shown stays the last one asked for, but for reconnections.  *)
LEMMA ShownStep ==
    NoneRefused /\ LightInv /\ [ListenerNext]_listenerVars => ShownIsAskedFor'
<1> SUFFICES ASSUME NoneRefused, LightInv, [ListenerNext]_listenerVars PROVE ShownIsAskedFor'
  OBVIOUS
<1>t. ListenerTypeOK BY DEF LightInv
<1>k. ShownIsAskedFor /\ StatusIsOfTuned BY DEF LightInv
<1>u. ASSUME UNCHANGED <<tuned, joins, joining, inbox, page>>, orderly' => orderly
      PROVE  ShownIsAskedFor'
  BY <1>u, <1>k DEF ShownIsAskedFor, ShownElsewhere
<1>b. ASSUME NEW m \in MessageType, BroadcastSignal(m),
             UNCHANGED <<tuned, joins, joining, page, orderly>>
      PROVE  ShownIsAskedFor'
  <2>1. CASE tuned # m.ch
    BY <1>b, <1>t, <1>u, <2>1, BroadcastEffect
  <2>2. CASE tuned = m.ch
    <3>1. CASE ShownElsewhere
      <4>1. inbox' = Append(inbox, m) BY <1>b, <2>2 DEF BroadcastSignal
      <4>2. inbox \in Seq(MessageType) BY <1>t, ListenerTypes
      <4>3. /\ Len(inbox') = Len(inbox) + 1 /\ Len(inbox) \in Nat /\ inbox'[Len(inbox')] = m
            /\ \A i \in 1..Len(inbox) : inbox'[i] = inbox[i]
        BY <4>1, <4>2, AppendProperties, LenProperties
      <4>4. \A i \in 1..Len(inbox') : i \in 1..Len(inbox) \/ i = Len(inbox') BY <4>3
      <4>5. \A i \in 1..Len(inbox') : inbox'[i].ch # page.current
        BY <3>1, <4>3, <4>4, <2>2 DEF ShownElsewhere
      <4>6. ShownElsewhere' BY <1>b, <3>1, <4>5 DEF ShownElsewhere
      <4> QED BY <1>b, <1>k, <4>6 DEF ShownIsAskedFor
    <3>2. CASE ~ShownElsewhere BY <1>b, <1>k, <3>2 DEF ShownIsAskedFor
    <3> QED BY <3>1, <3>2
  <2> QED BY <2>1, <2>2
<1>1. ASSUME NEW h \in Handler, NEW ch \in Ch, Talk(h, ch) \/ Stop(h, ch)
      PROVE  ShownIsAskedFor'
  <2>1. UNCHANGED <<tuned, joins, joining, inbox, page>> BY <1>1 DEF Talk, Stop
  <2>2. CASE Talk(h, ch) BY <2>1, <2>2, <1>u DEF Talk
  <2>3. CASE Stop(h, ch) BY <2>1, <2>3, <1>u DEF Stop
  <2> QED BY <1>1, <2>2, <2>3
<1>2. ASSUME NEW h \in Handler, TellFloor(h) PROVE ShownIsAskedFor'
  BY <1>2, <1>b, <1>t, TellEffect
<1>3. ASSUME NEW ch \in Ch, Sound(ch) PROVE ShownIsAskedFor'
  <2>1. Notice("audio", ch) \in MessageType BY DEF Notice, MessageType
  <2> QED BY <1>3, <1>b, <2>1 DEF Sound
<1>4. ASSUME HubSwitch PROVE ShownIsAskedFor'
  <2>1. /\ joins # <<>> /\ tuned' = joins[1].ch /\ joins \in Seq(JoinType)
        /\ joins' \in Seq(JoinType)
        /\ Len(joins') \in Nat /\ Len(joins') = Len(joins) - 1
        /\ \A i \in 1..Len(joins') : joins'[i] = joins[i + 1] /\ i + 1 \in 1..Len(joins)
        /\ page' = page
    BY <1>4, SwitchEffect
  <2>2. page.current = joins[Len(joins)].ch /\ Len(joins) \in Nat
    BY <2>1, <1>k, LenProperties DEF ShownIsAskedFor, ShownElsewhere
  <2>3. CASE joins' = <<>>
    <3>1. Len(joins') = 0 BY <2>3
    <3>2. Len(joins) = 1 BY <3>1, <2>1, <2>2
    <3>3. 1..Len(joins') = {} BY <3>1
    <3> QED BY <2>1, <2>2, <2>3, <3>2, <3>3 DEF ShownIsAskedFor
  <2>4. CASE joins' # <<>>
    <3>1. Len(joins') \in 1..Len(joins') BY <2>1, <2>4, EmptySeq
    <3>2. Len(joins') + 1 = Len(joins) BY <2>1, <2>2
    <3>3. joins'[Len(joins')] = joins[Len(joins)] BY <2>1, <3>1, <3>2
    <3>4. \A i \in 1..Len(joins') : joins'[i].ch \in Private => joins'[i].ok
      BY <2>1, <1>k DEF ShownIsAskedFor
    <3> QED BY <2>1, <2>2, <2>4, <3>3, <3>4 DEF ShownIsAskedFor
  <2> QED BY <2>3, <2>4
<1>5. ASSUME HubStatus PROVE ShownIsAskedFor'
  <2>1. ~ShownElsewhere BY <1>5 DEF HubStatus, ShownElsewhere
  <2> QED BY <1>5, <1>k, <2>1 DEF HubStatus, ShownIsAskedFor
<1>6. ASSUME Disconnect PROVE ShownIsAskedFor'
  <2>1. /\ tuned' = 0 /\ joins' = <<>> /\ joining' = <<>> /\ inbox' = <<>> /\ page' = page
        /\ orderly' => ~page.isReceiving
    BY <1>6 DEF Disconnect
  <2>2. 1..Len(<<>>) = {} BY EmptySeq
  <2>3. page.current # 0 BY <1>t, ListenerTypes
  <2>4. ShownElsewhere' BY <2>1, <2>2, <2>3 DEF ShownElsewhere
  <2> QED BY <2>1, <2>2, <2>4 DEF ShownIsAskedFor
<1>7. ASSUME Reconnect PROVE ShownIsAskedFor'
  <2>1. /\ tuned = 0 /\ tuned' = 1
        /\ UNCHANGED <<joining, joins, inbox, page, orderly>>
    BY <1>7 DEF Reconnect
  <2>2. joins = <<>> /\ page.current # 0
    BY <2>1, <1>k, <1>t, ListenerTypes DEF StatusIsOfTuned
  <2>3. ShownElsewhere BY <2>1, <2>2, <1>k DEF ShownIsAskedFor
  <2>4. CASE page.current = 1 BY <2>1, <2>2, <2>4, <1>k DEF ShownIsAskedFor
  <2>5. CASE page.current # 1
    <3>1. ShownElsewhere' BY <2>1, <2>3, <2>5 DEF ShownElsewhere
    <3> QED BY <2>1, <3>1, <1>k DEF ShownIsAskedFor
  <2> QED BY <2>4, <2>5
<1>8. ASSUME Receive PROVE ShownIsAskedFor'
  <2>1. inbox # <<>> /\ Handle(Head(inbox)) /\ inbox' = Tail(inbox)
        /\ UNCHANGED <<tuned, joins, joining, orderly>>
    BY <1>8 DEF Receive
  <2>2. /\ inbox \in Seq(MessageType) /\ Head(inbox) \in MessageType /\ Head(inbox) = inbox[1]
        /\ Len(inbox') \in Nat /\ Len(inbox') = Len(inbox) - 1 /\ Len(inbox) \in Nat
        /\ \A i \in 1..Len(inbox') : inbox'[i] = inbox[i + 1]
    BY <2>1, <1>t, ListenerTypes, HeadTailProperties, LenProperties
  <2>3. /\ page'.current = page.current
        /\ ~page.isReceiving /\ ~Says(Head(inbox), page.current, {"user_talking"}) =>
              ~page'.isReceiving
    BY <2>1, <2>2, <1>t, HandleEffect
  <2>4. CASE ShownElsewhere
    <3>1. 1 \in 1..Len(inbox) BY <2>1, <2>2, EmptySeq
    <3>2. ~Says(Head(inbox), page.current, {"user_talking"})
      BY <2>2, <2>4, <3>1 DEF ShownElsewhere, Says
    <3>3. \A i \in 1..Len(inbox') : i + 1 \in 1..Len(inbox) BY <2>2
    <3>4. \A i \in 1..Len(inbox') : inbox'[i].ch # page.current
      BY <2>2, <2>4, <3>3 DEF ShownElsewhere
    <3>5. ShownElsewhere' BY <2>1, <2>3, <2>4, <3>2, <3>4 DEF ShownElsewhere
    <3> QED BY <2>1, <3>5, <1>k DEF ShownIsAskedFor
  <2>5. CASE ~ShownElsewhere BY <2>1, <2>3, <2>5, <1>k DEF ShownIsAskedFor
  <2> QED BY <2>4, <2>5
<1>9. ASSUME \E ch \in Ch, answer \in Answers :
                 PickChannel(ch, answer) \/ autoJoinNearestChannel(ch, answer)
      PROVE  ShownIsAskedFor'
  <2>1. PageMoves BY <1>9, <1>t, PageMovesOnly
  <2>2. CASE joins' = joins /\ page'.current = page.current
    BY <2>1, <2>2, <1>k DEF PageMoves, ShownIsAskedFor, ShownElsewhere
  <2>3. CASE joins' = joins /\ tuned = 0
    <3>1. joins = <<>> /\ joining = <<>> /\ inbox = <<>> /\ page.current # 0
      BY <2>3, <1>k, <1>t, ListenerTypes DEF StatusIsOfTuned
    <3>2. ShownElsewhere BY <2>3, <3>1, <1>k DEF ShownIsAskedFor
    <3>3. page'.current # 0 BY <2>1, <1>t, ListenerTypes DEF PageMoves, PageType
    <3>4. 1..Len(<<>>) = {} BY EmptySeq
    <3>5. ShownElsewhere'
      BY <2>1, <2>3, <3>1, <3>2, <3>3, <3>4 DEF PageMoves, ShownElsewhere
    <3> QED BY <2>3, <3>1, <3>4, <3>5 DEF ShownIsAskedFor
  <2>4. ASSUME NEW ch \in Ch, NEW answer \in Answers,
               joins' = Append(joins, [ch |-> ch, ok |-> answer = "right"]),
               page'.current = ch, ch \in Private => answer # "cancel"
        PROVE  ShownIsAskedFor'
    <3> DEFINE j == [ch |-> ch, ok |-> answer = "right"]
    <3>1. j.ch = ch /\ (ch \in Private => j.ok)
      BY <2>4, DialAssumption DEF NoneRefused
    <3>2. joins' = Append(joins, j) BY <2>4
    <3> HIDE DEF j
    <3>3. /\ Len(joins') = Len(joins) + 1 /\ Len(joins) \in Nat /\ joins'[Len(joins')] = j
          /\ \A i \in 1..Len(joins) : joins'[i] = joins[i]
      <4>1. joins \in Seq(JoinType \cup {j}) /\ j \in JoinType \cup {j}
        BY <1>t, ListenerTypes
      <4> QED BY <4>1, <3>2, AppendProperties, LenProperties
    <3>4. \A i \in 1..Len(joins') : i \in 1..Len(joins) \/ i = Len(joins')
      BY <3>3
    <3>5. \A i \in 1..Len(joins') : joins'[i].ch \in Private => joins'[i].ok
      BY <3>1, <3>3, <3>4, <1>k DEF ShownIsAskedFor
    <3>6. joins' # <<>>
      <4>1. Len(joins') # 0 BY <3>3
      <4> QED BY <4>1
    <3> QED BY <2>4, <3>1, <3>3, <3>5, <3>6 DEF ShownIsAskedFor
  <2> QED BY <2>1, <2>2, <2>3, <2>4 DEF PageMoves
<1>10. ASSUME UNCHANGED listenerVars PROVE ShownIsAskedFor'
  BY <1>10, <1>u DEF listenerVars
<1> QED
  BY <1>1, <1>2, <1>3, <1>4, <1>5, <1>6, <1>7, <1>8, <1>9, <1>10 DEF ListenerNext

(* The light of the channel of the last request still goes out. *)
LEMMA LightStep ==
    NoneRefused /\ LightInv /\ [ListenerNext]_listenerVars => LightGoesOut'
<1> SUFFICES ASSUME NoneRefused, LightInv, [ListenerNext]_listenerVars PROVE LightGoesOut'
  OBVIOUS
<1>t. ListenerTypeOK BY DEF LightInv
<1>s. /\ joins \in Seq(JoinType) /\ inbox \in Seq(MessageType) /\ joining \in Seq(MessageType)
      /\ page.isReceiving \in BOOLEAN /\ (~page.isReceiving) \in BOOLEAN
      /\ busy \in [Ch -> BOOLEAN] /\ telling \in [Handler -> HubNoticeType]
      /\ tuned \in Ch \cup {0}
  BY <1>t, ListenerTypes
<1>k. LightGoesOut /\ TalkIsTrue /\ ShownIsAskedFor /\ StatusIsOfTuned BY DEF LightInv
<1> DEFINE Same == \A i \in 1..Len(joins) : joins[i].ch = tuned
<1> DEFINE Off(s, lit) == Ends(s, tuned, ~lit, {"idle", "user_stopped"}, {"user_talking"})
<1>d. ASSUME UNCHANGED <<busy, telling, tuned, joining, joins, inbox>>, orderly' => orderly,
             page'.isReceiving = page.isReceiving
      PROVE  LightGoesOut'
  BY <1>d, <1>k DEF LightGoesOut, EndIsTold
<1>n. ASSUME NEW s \in Seq(MessageType), NEW m \in MessageType, Off(s, page.isReceiving),
             ~Says(m, tuned, {"user_talking"})
      PROVE  Off(s \o <<m>>, page.isReceiving)
  <2>1. <<m>> \in Seq(MessageType) /\ \A i \in 1..Len(<<m>>) : <<m>>[i] = m OBVIOUS
  <2> QED BY <1>n, <1>s, <2>1, EndsKept
<1>m. ASSUME NEW s \in Seq(MessageType), NEW m \in MessageType,
             Says(m, tuned, {"idle", "user_stopped"})
      PROVE  Off(s \o <<m>>, page.isReceiving)
  <2>1. <<m>> \in Seq(MessageType) /\ Len(<<m>>) = 1 /\ <<m>>[1] = m OBVIOUS
  <2>2. 1 \in 1..Len(<<m>>) /\ \A i \in 1..Len(<<m>>) : i = 1 BY <2>1
  <2>3. Ends(<<m>>, tuned, FALSE, {"idle", "user_stopped"}, {"user_talking"})
    BY <1>m, <2>1, <2>2 DEF Ends
  <2> QED BY <1>s, <2>1, <2>3, EndsMade
<1>1. ASSUME NEW h \in Handler, NEW ch \in Ch, Talk(h, ch) \/ Stop(h, ch)
      PROVE  LightGoesOut'
  <2>1. /\ telling[h] = Quiet /\ (orderly' => orderly)
        /\ UNCHANGED <<tuned, joining, joins, inbox, page>>
    <3>1. CASE Talk(h, ch) BY <3>1 DEF Talk
    <3>2. CASE Stop(h, ch) BY <3>2 DEF Stop
    <3> QED BY <1>1, <3>1, <3>2
  <2>2. CASE Talk(h, ch) /\ ch = tuned
    <3>1. busy'[tuned'] BY <2>2, <2>1, <1>s DEF Talk
    <3> QED BY <3>1 DEF LightGoesOut
  <2>3. CASE Stop(h, ch) /\ ch = tuned
    <3>1. telling'[h] = Notice("idle", tuned') BY <2>3, <2>1, <1>s DEF Stop
    <3> QED BY <3>1 DEF LightGoesOut, EndIsTold
  <2>4. CASE ch # tuned
    <3>1. tuned # 0 => busy'[tuned] = busy[tuned] BY <1>1, <2>4, <1>s DEF Talk, Stop
    <3>2. \A k \in Handler : k # h => telling'[k] = telling[k]
      BY <1>1, <1>s DEF Talk, Stop
    <3>3. ASSUME EndIsTold PROVE EndIsTold'
      <4>1. PICK k \in Handler :
                telling[k] = Notice("idle", tuned) \/ telling[k] = Notice("user_stopped", tuned)
        BY <3>3 DEF EndIsTold
      <4>2. k # h BY <4>1, <2>1 DEF Quiet, Notice
      <4> QED BY <4>1, <4>2, <3>2, <2>1 DEF EndIsTold
    <3> QED BY <2>1, <3>1, <3>3, <1>k DEF LightGoesOut
  <2> QED BY <1>1, <2>2, <2>3, <2>4
<1>2. ASSUME NEW h \in Handler, TellFloor(h) PROVE LightGoesOut'
  <2> DEFINE m == telling[h]
  <2>1. /\ m \in MessageType /\ m.ch \in Ch
        /\ m.type \in {"user_talking", "idle", "user_stopped"}
        /\ BroadcastSignal(m)
        /\ telling' = [telling EXCEPT ![h] = IF m.type = "idle"
                          THEN Notice("user_stopped", m.ch) ELSE Quiet]
        /\ UNCHANGED <<busy, tuned, joining, joins, page, orderly>>
    BY <1>2, <1>t, TellEffect
  <2>2. /\ tuned = m.ch => inbox' = inbox \o <<m>>
        /\ tuned # m.ch => inbox' = inbox
    BY <2>1, <1>t, BroadcastEffect
  <2>3. m \in [type : {"user_talking", "idle", "user_stopped"}, ch : Ch]
    BY <2>1, <1>s DEF HubNoticeType, Quiet, Notice
  <2>4. \A type : m.type = type => m = Notice(type, m.ch) BY <2>3 DEF Notice
  <2> SUFFICES ASSUME orderly, tuned # 0, Same, ~busy[tuned]
               PROVE  \/ joining = <<Notice("idle", tuned)>> \/ EndIsTold'
                      \/ Off(inbox', page.isReceiving)
    BY <2>1 DEF LightGoesOut
  <2>5. ASSUME NEW k \in Handler, k # h,
               telling[k] = Notice("idle", tuned) \/ telling[k] = Notice("user_stopped", tuned)
        PROVE  EndIsTold'
    <3>1. telling'[k] = telling[k] BY <2>1, <2>5, <1>s
    <3> QED BY <2>1, <2>5, <3>1 DEF EndIsTold
  <2>6. CASE m = Notice("idle", tuned)
    <3>1. telling'[h] = Notice("user_stopped", tuned) BY <2>1, <2>6, <1>s DEF Notice
    <3> QED BY <2>1, <3>1 DEF EndIsTold
  <2>7. CASE m = Notice("user_stopped", tuned)
    <3>1. Says(m, tuned, {"idle", "user_stopped"}) /\ tuned = m.ch BY <2>7 DEF Says, Notice
    <3>2. Off(inbox \o <<m>>, page.isReceiving) BY <3>1, <2>1, <1>s, <1>m
    <3> QED BY <3>1, <3>2, <2>2
  <2>8. CASE Off(inbox, page.isReceiving)
    <3>1. CASE tuned # m.ch BY <2>2, <2>8, <3>1
    <3>2. CASE tuned = m.ch
      <4>1. m.type # "user_talking" BY <2>1, <2>4, <3>2, <1>k DEF TalkIsTrue
      <4>2. ~Says(m, tuned, {"user_talking"}) BY <4>1 DEF Says
      <4>3. Off(inbox \o <<m>>, page.isReceiving) BY <4>2, <2>1, <2>8, <1>s, <1>n
      <4> QED BY <3>2, <4>3, <2>2
    <3> QED BY <3>1, <3>2
  <2>9. joining = <<Notice("idle", tuned)>> \/ EndIsTold \/ Off(inbox, page.isReceiving)
    BY <1>k DEF LightGoesOut
  <2> HIDE DEF m
  <2>10. CASE EndIsTold
    <3>1. PICK k \in Handler :
              telling[k] = Notice("idle", tuned) \/ telling[k] = Notice("user_stopped", tuned)
      BY <2>10 DEF EndIsTold
    <3>2. CASE k = h BY <3>1, <3>2, <2>6, <2>7 DEF m
    <3> QED BY <3>1, <3>2, <2>5
  <2> QED BY <2>8, <2>9, <2>10
<1>3. ASSUME NEW ch \in Ch, Sound(ch) PROVE LightGoesOut'
  <2> DEFINE m == Notice("audio", ch)
  <2>1. m \in MessageType /\ ~Says(m, tuned, {"user_talking"}) BY DEF Notice, MessageType, Says
  <2>2. BroadcastSignal(m) /\ UNCHANGED <<busy, telling, tuned, joining, joins, page, orderly>>
    BY <1>3 DEF Sound
  <2>3. inbox' = inbox \/ inbox' = inbox \o <<m>> BY <2>1, <2>2, <1>t, BroadcastEffect
  <2> HIDE DEF m
  <2>4. Off(inbox, page.isReceiving) => Off(inbox', page.isReceiving)
    BY <2>1, <2>3, <1>s, <1>n
  <2>5. EndIsTold => EndIsTold' BY <2>2 DEF EndIsTold
  <2> QED BY <2>2, <2>4, <2>5, <1>k DEF LightGoesOut
<1>4. ASSUME HubSwitch PROVE LightGoesOut'
  <2>1. CASE tuned' # tuned
    <3>1. busy' = busy /\ (~busy[tuned'] => joining' = <<Notice("idle", tuned')>>)
      BY <1>4, <2>1, SwitchEffect
    <3> QED BY <3>1 DEF LightGoesOut
  <2>2. CASE tuned' = tuned
    <3>1. /\ joins # <<>> /\ tuned = joins[1].ch
          /\ Len(joins') \in Nat /\ Len(joins') = Len(joins) - 1
          /\ \A i \in 1..Len(joins') : joins'[i] = joins[i + 1] /\ i + 1 \in 1..Len(joins)
          /\ UNCHANGED <<busy, telling, inbox, page, joining, orderly>>
      BY <1>4, <2>2, SwitchEffect
    <3>2. Len(joins) \in Nat BY <1>s, LenProperties
    <3>3. ASSUME NEW i \in 1..Len(joins), i > 1
          PROVE  i - 1 \in 1..Len(joins') /\ (i - 1) + 1 = i
      BY <3>1, <3>2, <3>3
    <3>4. ASSUME \A i \in 1..Len(joins') : joins'[i].ch = tuned PROVE Same
      <4>1. ASSUME NEW i \in 1..Len(joins), i > 1 PROVE joins[i].ch = tuned
        <5>1. joins'[i - 1] = joins[i] BY <4>1, <3>1, <3>3
        <5> QED BY <5>1, <4>1, <3>3, <3>4
      <4>2. \A i \in 1..Len(joins) : i = 1 \/ i > 1 BY <3>2
      <4> QED BY <4>1, <4>2, <3>1
    <3>5. EndIsTold => EndIsTold' BY <2>2, <3>1 DEF EndIsTold
    <3> QED BY <2>2, <3>1, <3>4, <3>5, <1>k DEF LightGoesOut
  <2> QED BY <2>1, <2>2
<1>5. ASSUME HubStatus PROVE LightGoesOut'
  <2>1. joining # <<>> /\ inbox' = inbox \o joining
        /\ UNCHANGED <<busy, telling, page, joins, tuned, orderly>>
    BY <1>5 DEF HubStatus
  <2>2. PICK type \in {"busy", "idle"} : joining = <<Notice(type, tuned)>>
    BY <2>1, <1>k DEF StatusIsOfTuned
  <2>3. tuned # 0 BY <2>1, <1>k DEF StatusIsOfTuned
  <2> DEFINE m == Notice(type, tuned)
  <2>4. m \in MessageType /\ m.type = type /\ m.ch = tuned
    BY <2>3, <1>s DEF Notice, MessageType
  <2>5. inbox' = inbox \o <<m>> BY <2>1, <2>2
  <2>6. joining = <<Notice("idle", tuned)>> => type = "idle"
    <3>1. <<Notice("idle", tuned)>>[1] = Notice("idle", tuned) OBVIOUS
    <3>2. joining[1] = m BY <2>2
    <3> QED BY <3>1, <3>2 DEF Notice
  <2> HIDE DEF m
  <2>7. CASE type = "idle"
    <3>1. Says(m, tuned, {"idle", "user_stopped"}) BY <2>4, <2>7 DEF Says
    <3>2. Off(inbox', page.isReceiving) BY <3>1, <2>4, <2>5, <1>s, <1>m
    <3> QED BY <2>1, <3>2 DEF LightGoesOut
  <2>8. CASE type # "idle"
    <3>1. ~Says(m, tuned, {"user_talking"}) BY <2>4 DEF Says
    <3>2. Off(inbox, page.isReceiving) => Off(inbox', page.isReceiving)
      BY <3>1, <2>4, <2>5, <1>s, <1>n
    <3>3. EndIsTold => EndIsTold' BY <2>1 DEF EndIsTold
    <3> QED BY <2>1, <2>6, <2>8, <3>2, <3>3, <1>k DEF LightGoesOut
  <2> QED BY <2>7, <2>8
<1>6. ASSUME Disconnect PROVE LightGoesOut'
  BY <1>6 DEF Disconnect, LightGoesOut
<1>7. ASSUME Reconnect PROVE LightGoesOut'
  <2>1. tuned = 0 /\ UNCHANGED <<inbox, page, orderly>> BY <1>7 DEF Reconnect
  <2>2. inbox = <<>> /\ joins = <<>> /\ page.current # 0
    BY <2>1, <1>k, <1>t, ListenerTypes DEF StatusIsOfTuned
  <2>3. ShownElsewhere BY <2>1, <2>2, <1>k DEF ShownIsAskedFor
  <2>4. ASSUME orderly'
        PROVE  Ends(inbox', tuned', ~page'.isReceiving, {"idle", "user_stopped"},
                    {"user_talking"})
    <3>1. ~page.isReceiving BY <2>1, <2>3, <2>4 DEF ShownElsewhere
    <3>2. Ends(<<>>, tuned', ~page.isReceiving, {"idle", "user_stopped"}, {"user_talking"})
      BY <3>1, <1>s, EndsNow
    <3> QED BY <2>1, <2>2, <3>2
  <2> QED BY <2>4 DEF LightGoesOut
<1>8. ASSUME Receive PROVE LightGoesOut'
  <2>1. inbox # <<>> /\ Handle(Head(inbox)) /\ inbox' = Tail(inbox)
        /\ UNCHANGED <<busy, telling, tuned, joining, joins, orderly>>
    BY <1>8 DEF Receive
  <2>2. Head(inbox) \in MessageType /\ Head(inbox) = inbox[1]
    BY <2>1, <1>s, HeadTailProperties
  <2> DEFINE m == Head(inbox)
  <2>3. /\ page' \in PageType
        /\ Says(m, page.current, {"idle", "user_stopped"}) => ~page'.isReceiving
        /\ ~page.isReceiving /\ ~Says(m, page.current, {"user_talking"}) => ~page'.isReceiving
    BY <2>1, <2>2, <1>t, HandleEffect
  <2>4. (~page'.isReceiving) \in BOOLEAN OBVIOUS
  <2>5. ASSUME Same, ~ShownElsewhere PROVE page.current = tuned
    <3>1. CASE joins = <<>> BY <3>1, <2>5, <1>k DEF ShownIsAskedFor
    <3>2. CASE joins # <<>>
      <4>1. Len(joins) \in 1..Len(joins) BY <3>2, <1>s, EmptySeq, LenProperties
      <4> QED BY <4>1, <3>2, <2>5, <1>k DEF ShownIsAskedFor
    <3> QED BY <3>1, <3>2
  <2>6. ASSUME ShownElsewhere, orderly PROVE ~page'.isReceiving
    <3>1. 1 \in 1..Len(inbox) BY <2>1, <1>s, EmptySeq, LenProperties
    <3>2. m.ch # page.current BY <2>2, <2>6, <3>1 DEF ShownElsewhere
    <3> QED BY <2>3, <2>6, <3>2 DEF ShownElsewhere, Says
  <2> HIDE DEF m
  <2>7. ASSUME orderly, Same, Off(inbox, page.isReceiving)
        PROVE  Off(Tail(inbox), page'.isReceiving)
    <3>1. Says(m, tuned, {"idle", "user_stopped"}) => ~page'.isReceiving
      BY <2>3, <2>5, <2>6, <2>7
    <3>2. ~page.isReceiving /\ ~Says(m, tuned, {"user_talking"}) => ~page'.isReceiving
      BY <2>3, <2>5, <2>6, <2>7
    <3> QED BY <2>1, <2>4, <2>7, <3>1, <3>2, <1>s, EndsTail DEF m
  <2>8. EndIsTold => EndIsTold' BY <2>1 DEF EndIsTold
  <2> QED BY <2>1, <2>7, <2>8, <1>k DEF LightGoesOut
<1>9. ASSUME \E ch \in Ch, answer \in Answers :
                 PickChannel(ch, answer) \/ autoJoinNearestChannel(ch, answer)
      PROVE  LightGoesOut'
  <2>1. PageMoves BY <1>9, <1>t, PageMovesOnly
  <2>2. CASE joins' = joins
    BY <2>1, <2>2, <1>d DEF PageMoves
  <2>3. ASSUME NEW j, joins' = Append(joins, j) PROVE LightGoesOut'
    <3>1. /\ Len(joins') = Len(joins) + 1 /\ Len(joins) \in Nat
          /\ \A i \in 1..Len(joins) : joins'[i] = joins[i]
      <4>1. joins \in Seq(JoinType \cup {j}) /\ j \in JoinType \cup {j} BY <1>s
      <4> QED BY <4>1, <2>3, AppendProperties, LenProperties
    <3>2. \A i \in 1..Len(joins) : i \in 1..Len(joins') BY <3>1
    <3>3. ASSUME \A i \in 1..Len(joins') : joins'[i].ch = tuned PROVE Same
      BY <3>1, <3>2, <3>3
    <3>4. EndIsTold => EndIsTold' BY <2>1 DEF PageMoves, EndIsTold
    <3> QED BY <2>1, <3>3, <3>4, <1>k DEF LightGoesOut, PageMoves
  <2> QED BY <2>1, <2>2, <2>3 DEF PageMoves
<1>10. ASSUME UNCHANGED listenerVars PROVE LightGoesOut'
  BY <1>10, <1>d DEF listenerVars
<1> QED
  BY <1>1, <1>2, <1>3, <1>4, <1>5, <1>6, <1>7, <1>8, <1>9, <1>10 DEF ListenerNext

----------------------------------------------------------------------------
(* Nobody speaks, nothing is shown and nothing is under way. *)
LEMMA ListenerStart == ListenerInit => LightInv
<1> SUFFICES ASSUME ListenerInit PROVE LightInv
  OBVIOUS
<1>1. ListenerTypeOK
  <2>1. 1 \in Ch /\ 0 \in 0..MaxTurns BY DialAssumption DEF Ch
  <2>2. Quiet \in HubNoticeType BY DEF HubNoticeType
  <2>3. joins \in Seq([ch : Ch, ok : BOOLEAN]) /\ inbox \in Seq(MessageType)
    BY EmptySeq DEF ListenerInit
  <2> QED BY <2>1, <2>2, <2>3 DEF ListenerInit, ListenerTypeOK
<1>2. StatusIsOfTuned BY DEF ListenerInit, StatusIsOfTuned
<1>3. TalkIsTrue BY DEF ListenerInit, TalkIsTrue, Quiet, Notice
<1>4. ShownIsAskedFor
  <2>1. 1..Len(<<>>) = {} BY EmptySeq
  <2> QED BY <2>1 DEF ListenerInit, ShownIsAskedFor
<1>5. LightGoesOut
  <2>1. inbox = <<>> /\ ~page.isReceiving BY DEF ListenerInit
  <2>2. Ends(<<>>, tuned, ~page.isReceiving, {"idle", "user_stopped"}, {"user_talking"})
    BY <2>1, EndsNow
  <2> QED BY <2>1, <2>2 DEF LightGoesOut
<1> QED BY <1>1, <1>2, <1>3, <1>4, <1>5 DEF LightInv

(* The types of hub, queue and page, for any channels, handlers, moves and *)
(* reconnections.                                                          *)
THEOREM ListenerTypeCorrect == ListenerSpec => []ListenerTypeOK
<1>1. ListenerInit => ListenerTypeOK BY ListenerStart DEF LightInv
<1> QED BY <1>1, ListenerTypesStep, PTL DEF ListenerSpec

(* The invariant of the light, if no move is refused. *)
THEOREM LightInvariant == ASSUME NoneRefused PROVE ListenerSpec => []LightInv
<1>1. LightInv /\ [ListenerNext]_listenerVars => LightInv'
  BY ListenerTypesStep, StatusStep, TalkStep, ShownStep, LightStep DEF LightInv
<1> QED BY <1>1, ListenerStart, PTL DEF ListenerSpec

(* The RX light of a page is lit, once all has been said and heard, only   *)
(* while somebody speaks, unless a transmission ended before its           *)
(* user_talking was sent or the connection was lost in the middle of one   *)
(* (handleFloorStatus, handleUserTalking, handleUserStopped, ws.onclose).  *)
THEOREM RxLightIsAlwaysTrue == ASSUME NoneRefused PROVE ListenerSpec => []RxLightIsTrue
<1>1. ASSUME LightInv PROVE RxLightIsTrue
  <2> SUFFICES ASSUME orderly, Settled, page.isReceiving, ~busy[page.current] PROVE FALSE
    BY DEF RxLightIsTrue
  <2>1. joins = <<>> /\ inbox = <<>> /\ joining = <<>> BY DEF Settled
  <2>2. page.current = tuned BY <1>1, <2>1 DEF LightInv, ShownIsAskedFor, ShownElsewhere
  <2>3. tuned # 0 BY <1>1, <2>2, ListenerTypes DEF LightInv
  <2>4. ~EndIsTold BY DEF EndIsTold, Settled, Quiet, Notice
  <2>5. 1..Len(<<>>) = {} BY EmptySeq
  <2>6. Len(<<Notice("idle", tuned)>>) = 1 /\ Len(<<>>) = 0 BY EmptySeq
  <2>7. Ends(<<>>, tuned, ~page.isReceiving, {"idle", "user_stopped"}, {"user_talking"})
    BY <1>1, <2>1, <2>2, <2>3, <2>4, <2>5, <2>6 DEF LightInv, LightGoesOut
  <2>8. (~page.isReceiving) \in BOOLEAN OBVIOUS
  <2> QED BY <2>7, <2>8, EndsNow
<1> QED BY <1>1, LightInvariant, PTL

----------------------------------------------------------------------------
(***************************************************************************)
(* Scanner                                                                 *)
(***************************************************************************)
(* Every step of hub and page keeps the types. *)
LEMMA ScannerTypeStep == ScannerTypeOK /\ [ScannerNext]_scannerVars => ScannerTypeOK'
<1> SUFFICES ASSUME ScannerTypeOK, [ScannerNext]_scannerVars PROVE ScannerTypeOK'
  OBVIOUS
<1> DEFINE ScanType == [current : Ch, isScanning : BOOLEAN, is_busy : [Ch -> BOOLEAN]]
<1>t. /\ held \in [Ch -> BOOLEAN] /\ task \in [Handler -> TaskType]
      /\ online \in BOOLEAN /\ overtaken \subseteq Ch /\ presses \in 0..MaxTurns
      /\ scanner \in ScanType /\ news \in Seq(TaskType)
  BY DEF ScannerTypeOK
<1>c. Ch \subseteq 0..NChannels /\ 0 \in 0..NChannels BY DialAssumption DEF Ch
<1>n. NoTask \in TaskType BY <1>c DEF NoTask, Task, TaskType, Unknown
<1>s. ASSUME NEW h \in Handler, NEW type \in {"active", "inactive", "list", "welcome"},
             NEW ch \in Ch \cup {0}, Starts(h, Task(type, ch, Unknown))
      PROVE  task' \in [Handler -> TaskType]
  <2>1. Task(type, ch, Unknown) \in TaskType BY <1>c DEF Task, TaskType, Unknown
  <2> QED BY <1>s, <1>t, <2>1 DEF Starts
<1>1. ASSUME NEW h \in Handler, NEW ch \in Ch, Grant(h, ch) PROVE ScannerTypeOK'
  BY <1>1, <1>s, <1>t DEF Grant, ScannerTypeOK
<1>2. ASSUME NEW h \in Handler, NEW ch \in Ch, End(h, ch) PROVE ScannerTypeOK'
  BY <1>2, <1>s, <1>t DEF End, ScannerTypeOK
<1>3. ASSUME NEW h \in Handler, CreateChannel(h) PROVE ScannerTypeOK'
  BY <1>3, <1>s, <1>t DEF CreateChannel, ScannerTypeOK
<1>4. ASSUME NEW h \in Handler, Register(h) PROVE ScannerTypeOK'
  BY <1>4, <1>s, <1>t DEF Register, ScannerTypeOK
<1>5. ASSUME Hangup PROVE ScannerTypeOK'
  <2>1. task' \in [Handler -> TaskType] BY <1>5, <1>n, <1>t DEF Hangup
  <2> QED BY <1>5, <1>t, <2>1, EmptySeq DEF Hangup, ScannerTypeOK
<1>6. ASSUME NEW h \in Handler, ReadState(h) PROVE ScannerTypeOK'
  <2> DEFINE ch == task[h].ch + 1
  <2>1. ch \in Ch /\ task[h] \in TaskType
    BY <1>6, <1>t, DialAssumption DEF ReadState, TaskType, Ch
  <2>2. task' = [task EXCEPT ![h] = [task[h] EXCEPT !.ch = ch, !.seen[ch] = held[ch]]]
    BY <1>6 DEF ReadState
  <2>3. held[ch] \in BOOLEAN BY <2>1, <1>t
  <2> HIDE DEF ch
  <2>4. [task[h] EXCEPT !.ch = ch, !.seen[ch] = held[ch]] \in TaskType
    BY <2>1, <2>3, <1>c DEF TaskType
  <2>5. task' \in [Handler -> TaskType] BY <2>2, <2>4, <1>t
  <2> QED BY <1>6, <1>t, <2>5 DEF ReadState, ScannerTypeOK
<1>7. ASSUME NEW h \in Handler, SendNews(h) PROVE ScannerTypeOK'
  <2>1. task[h] \in TaskType BY <1>t
  <2>2. task' \in [Handler -> TaskType] BY <1>7, <1>n, <1>t DEF SendNews
  <2>3. news' \in Seq(TaskType) BY <1>7, <1>t, <2>1, AppendProperties DEF SendNews
  <2>4. overtaken' \subseteq Ch BY <1>7 DEF SendNews
  <2>5. UNCHANGED <<held, online, scanner, presses>> BY <1>7 DEF SendNews
  <2> QED BY <1>t, <2>2, <2>3, <2>4, <2>5 DEF ScannerTypeOK
<1>8. ASSUME NEW ch \in Ch, NEW answer \in Answers, SelectChannel(ch, answer)
      PROVE  ScannerTypeOK'
  <2>1. presses' \in 0..MaxTurns BY <1>8, <1>t, DialAssumption DEF SelectChannel, Press
  <2>2. scanner' \in ScanType BY <1>8, <1>t DEF SelectChannel, changeChannel
  <2> QED BY <1>8, <1>t, <2>1, <2>2 DEF SelectChannel, ScannerTypeOK
<1>9. ASSUME toggleScanner PROVE ScannerTypeOK'
  <2>1. presses' \in 0..MaxTurns BY <1>9, <1>t, DialAssumption DEF toggleScanner, Press
  <2>2. scanner' \in ScanType BY <1>9, <1>t DEF toggleScanner
  <2> QED BY <1>9, <1>t, <2>1, <2>2 DEF toggleScanner, ScannerTypeOK
<1>10. ASSUME Scan PROVE ScannerTypeOK'
  <2>1. PICK answer \in Answers : scanStep(answer) BY <1>10 DEF Scan
  <2> DEFINE next == NextChannel(scanner.current)
  <2>2. next \in Ch BY <1>t, DialAssumption DEF NextChannel, Ch
  <2>3. changeChannel(scanner.current, next, answer) \in Ch
    BY <1>t, <2>2 DEF changeChannel
  <2>4. scanner' = IF scanner.is_busy[scanner.current]
                   THEN [scanner EXCEPT !.isScanning = FALSE]
                   ELSE [scanner EXCEPT
                           !.current = changeChannel(scanner.current, next, answer),
                           !.isScanning = ~scanner.is_busy[next]]
    BY <2>1 DEF scanStep
  <2> HIDE DEF next
  <2>5. scanner' \in ScanType BY <2>2, <2>3, <2>4, <1>t
  <2> QED BY <1>t, <2>1, <2>5 DEF scanStep, ScannerTypeOK
<1>11. ASSUME HandleNews PROVE ScannerTypeOK'
  <2> DEFINE t == Head(news)
  <2>1. t \in TaskType /\ news' \in Seq(TaskType)
    BY <1>11, <1>t, HeadTailProperties DEF HandleNews
  <2>2. CASE Listing(t)
    <3>1. scanner' = [scanner EXCEPT !.is_busy = t.seen]
      BY <1>11, <2>2 DEF HandleNews, handleChannelList
    <3> HIDE DEF t
    <3>2. scanner' \in ScanType BY <3>1, <2>1, <1>t DEF TaskType
    <3> QED BY <1>11, <1>t, <2>1, <3>2 DEF HandleNews, ScannerTypeOK
  <2>3. CASE ~Listing(t)
    <3>1. scanner' = [scanner EXCEPT !.is_busy[t.ch] = (t.type = "active"),
              !.isScanning = @ /\ ~(t.type = "active" /\ t.ch = scanner.current)]
      BY <1>11, <2>3 DEF HandleNews, handleChannelActivity
    <3> DEFINE active == t.type = "active"
    <3>2. active \in BOOLEAN OBVIOUS
    <3>3. scanner' = [scanner EXCEPT !.is_busy[t.ch] = active,
              !.isScanning = @ /\ ~(active /\ t.ch = scanner.current)]
      BY <3>1
    <3> HIDE DEF t, active
    <3>4. scanner' \in ScanType BY <3>2, <3>3, <1>t
    <3> QED BY <1>11, <1>t, <2>1, <3>4 DEF HandleNews, ScannerTypeOK
  <2> QED BY <2>2, <2>3
<1>12. ASSUME UNCHANGED scannerVars PROVE ScannerTypeOK'
  BY <1>12, <1>t DEF scannerVars, ScannerTypeOK
<1> QED
  BY <1>1, <1>2, <1>3, <1>4, <1>5, <1>6, <1>7, <1>8, <1>9, <1>10, <1>11, <1>12
  DEF ScannerNext

(* The types of the scanner and of what the hub tells it, for any channels *)
(* and handlers.                                                           *)
THEOREM ScannerTypeCorrect == ScannerSpec => []ScannerTypeOK
<1>1. ASSUME ScannerInit PROVE ScannerTypeOK
  <2>1. 1 \in Ch /\ 0 \in 0..MaxTurns /\ 0 \in 0..NChannels BY DialAssumption DEF Ch
  <2>2. NoTask \in TaskType BY <2>1 DEF NoTask, Task, TaskType, Unknown
  <2> QED BY <1>1, <2>1, <2>2, EmptySeq DEF ScannerInit, ScannerTypeOK, Unknown
<1> QED BY <1>1, ScannerTypeStep, PTL DEF ScannerSpec

----------------------------------------------------------------------------
(***************************************************************************)
(* All machines side by side                                               *)
(***************************************************************************)

(* While one machine runs, every other one stutters. *)
LEMMA PartsStep ==
    [PartsNext]_partsVars =>
        /\ [VideoNext]_videoVars /\ [ChatNext]_chatVars /\ [ListenerNext]_listenerVars
        /\ [ScannerNext]_scannerVars /\ [CaptureNext]_captureVars
        /\ [InputsNext]_inputVars /\ [RecorderNext]_recorderVars
  BY DEF PartsNext, Others, partsVars

(* A behaviour of the composition is a behaviour of each machine. *)
THEOREM PartsImplementAll ==
    PartsSpec => /\ VideoSpec /\ ChatSpec /\ ListenerSpec /\ ScannerSpec
                 /\ CaptureSpec /\ InputsSpec /\ RecorderSpec
<1>1. PartsInit => /\ VideoInit /\ ChatInit /\ ListenerInit /\ ScannerInit
                   /\ CaptureInit /\ InputsInit /\ RecorderInit
  BY DEF PartsInit
<1> QED
  BY <1>1, PartsStep, PTL
  DEF PartsSpec, VideoSpec, ChatSpec, ListenerSpec, ScannerSpec, CaptureSpec,
      InputsSpec, RecorderSpec

(* The types of all machines, for every user: nothing is assumed of what   *)
(* they do, how long they wait or what they answer.                        *)
THEOREM PartsTypeCorrect == PartsSpec => []PartsTypeOK
<1>1. VideoTypeOK /\ ChatTypeOK /\ ListenerTypeOK /\ ScannerTypeOK
      /\ CaptureTypeOK /\ InputsTypeOK /\ RecorderTypeOK => PartsTypeOK
  BY DEF PartsTypeOK
<1> QED
  BY <1>1, PartsImplementAll, VideoTypeCorrect, ChatTypeCorrect, ListenerTypeCorrect,
     ScannerTypeCorrect, CaptureTypeCorrect, InputsTypeCorrect, RecorderTypeCorrect, PTL

(* The invariants that the composition is checked for hold of it for every *)
(* number of consoles, uploads, channels, handlers, streams and            *)
(* recordings, if the user is careful with uploads and knows the           *)
(* passwords.                                                              *)
THEOREM PartsAreSafe ==
    ASSUME Careful, NoneRefused
    PROVE  PartsSpec => [](/\ CandidatesAreUsed /\ CancelledIsNotSent /\ RxLightIsTrue
                           /\ DarkWhenOver /\ OnlyFocusSticks
                           /\ ListedFilesExist /\ NewestAreListed)
<1>1. ChatSpec => []CancelledIsNotSent BY RemovedIsNotSent
<1>2. ListenerSpec => []RxLightIsTrue BY RxLightIsAlwaysTrue
<1> QED
  BY <1>1, <1>2, AlwaysDarkWhenOver, PartsImplementAll, NoCandidateIsLeft, NothingElseSticks,
     ListedCanBePlayed, NewestAreKept, PTL
=============================================================================
