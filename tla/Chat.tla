-------------------------------- MODULE Chat --------------------------------
(***************************************************************************)
(* The chat drawer of the web console (static/js/radio.js, lines 2791 to   *)
(* 3376): one file attached to the composer, its way through compression,  *)
(* HTTP upload, the base64 fallback and the 320 ms timer that clears the   *)
(* composer, and the list of messages with its unread count.               *)
(* A file is what a chat message consists of here; a message without one   *)
(* is the upload 0.                                                        *)
(***************************************************************************)
EXTENDS Naturals, FiniteSets

CONSTANTS
    Careful,       \* no chip during an upload, removals only before or in a transfer
    MaxUploads,    \* bound on the files sent
    MaxBubbles     \* bound on the messages shown or unread

ASSUME ChatAssumption ==
    Careful \in BOOLEAN /\ MaxUploads \in Nat \ {0} /\ MaxBubbles \in Nat

VARIABLES
    attached,            \* the file input holds a file
    upload,              \* 1..MaxUploads -> stage of sendChatMessage
    currentUploadXHR,    \* the transfer that can be aborted, or 0
    sendDisabled,        \* the send button
    connected,           \* the WebSocket is open
    sent, removed,       \* uploads sent as messages; removed in transfer
    drawer               \* [open, unreadMessageCount, bubbles]

chatVars == <<attached, upload, currentUploadXHR, sendDisabled, connected,
              sent, removed, drawer>>

Upload == 1..MaxUploads
Stage == {"none", "compress", "transfer", "encode", "unread", "clear", "over"}

ChatInit ==
    /\ attached = FALSE /\ upload = [u \in Upload |-> "none"] /\ currentUploadXHR = 0
    /\ sendDisabled = FALSE /\ connected = TRUE /\ sent = {} /\ removed = {}
    /\ drawer = [open |-> FALSE, unread |-> 0, bubbles |-> 0]

----------------------------------------------------------------------------
(* Mutant of AfterAbort: the message of the error is not looked at. *)
AfterAbortAsFailure(stages) ==
    [u \in Upload |-> IF u = currentUploadXHR THEN "encode" ELSE stages[u]]

(* The current transfer is aborted; its promise is rejected with "Upload   *)
(* cancelled", which clears the composer once more and sends nothing.      *)
AfterAbort(stages) == [u \in Upload |-> IF u = currentUploadXHR THEN "over" ELSE stages[u]]

clearChatAttachment(stages) ==
    /\ upload' = AfterAbort(stages)
    /\ currentUploadXHR' = 0 /\ attached' = FALSE /\ sendDisabled' = FALSE

Advance(u, stage) == [upload EXCEPT ![u] = stage]
SendIfOpen(u) == sent' = IF connected THEN sent \cup {u} ELSE sent

(* The change event of the file input. *)
Attach ==
    /\ attached' = TRUE
    /\ UNCHANGED <<upload, currentUploadXHR, sendDisabled, connected, sent, removed, drawer>>

(* The remove button; also an empty choice, or a file above 500 MB. *)
Remove ==
    /\ Careful => \A u \in Upload : upload[u] \in {"none", "transfer", "unread", "over"}
    /\ clearChatAttachment(upload)
    /\ removed' = removed \cup {u \in Upload : upload[u] = "transfer"}
    /\ UNCHANGED <<connected, sent, drawer>>

(* The form (its button must be enabled) or a quick chip (which looks at   *)
(* nothing); only some images are compressed.                              *)
sendChatMessage(chip) ==
    /\ (chip /\ ~Careful) \/ ~sendDisabled
    /\ IF attached
       THEN \E u \in Upload, first \in {"compress", "transfer"} :
              /\ upload[u] = "none" /\ \A k \in Upload : k < u => upload[k] # "none"
              /\ upload' = Advance(u, first)
              /\ currentUploadXHR' = IF first = "transfer" THEN u ELSE currentUploadXHR
              /\ sendDisabled' = TRUE
              /\ UNCHANGED sent
       ELSE SendIfOpen(0) /\ UNCHANGED <<upload, currentUploadXHR, sendDisabled>>
    /\ UNCHANGED <<attached, connected, removed, drawer>>

(* compressImage always resolves, with the smaller of the two files. *)
Compressed(u) ==
    /\ upload[u] = "compress"
    /\ upload' = Advance(u, "transfer") /\ currentUploadXHR' = u
    /\ UNCHANGED <<attached, sendDisabled, connected, sent, removed, drawer>>

(* xhr.onload with a good answer; the composer is cleared 320 ms later. *)
Uploaded(u) ==
    /\ upload[u] = "transfer"
    /\ upload' = Advance(u, "clear") /\ currentUploadXHR' = 0 /\ SendIfOpen(u)
    /\ UNCHANGED <<attached, sendDisabled, connected, removed, drawer>>

(* Mutant of UploadFails: the send button stays disabled. *)
UploadFailsForGood(u) ==
    /\ upload[u] = "transfer"
    /\ currentUploadXHR' = 0
    /\ upload' \in {Advance(u, "encode"), Advance(u, "over")}
    /\ UNCHANGED <<attached, sendDisabled, connected, sent, removed, drawer>>

(* A failed upload is encoded, or reported when it is too big or refused. *)
UploadFails(u) ==
    /\ upload[u] = "transfer"
    /\ currentUploadXHR' = 0
    /\ \/ upload' = Advance(u, "encode") /\ UNCHANGED sendDisabled
       \/ upload' = Advance(u, "over") /\ sendDisabled' = FALSE
    /\ UNCHANGED <<attached, connected, sent, removed, drawer>>

Encoded(u) ==
    /\ upload[u] = "encode"
    /\ SendIfOpen(u) /\ clearChatAttachment(Advance(u, "over"))
    /\ UNCHANGED <<connected, removed, drawer>>

(* The fallback's read fails: reader.onerror is not set, and nobody hears  *)
(* of it.  The composer stays as it is.                                    *)
ReadFails(u) ==
    /\ upload[u] = "encode"
    /\ upload' = Advance(u, "unread")
    /\ UNCHANGED <<attached, currentUploadXHR, sendDisabled, connected, sent, removed, drawer>>

ClearTimer(u) ==
    /\ upload[u] = "clear"
    /\ clearChatAttachment(Advance(u, "over"))
    /\ UNCHANGED <<connected, sent, removed, drawer>>

Connection ==
    /\ connected' = ~connected
    /\ UNCHANGED <<attached, upload, currentUploadXHR, sendDisabled, sent, removed, drawer>>

----------------------------------------------------------------------------
(* The drawer and the messages; those of other channels change nothing.    *)

Drawer(d) ==
    /\ drawer' = d
    /\ UNCHANGED <<attached, upload, currentUploadXHR, sendDisabled, connected, sent, removed>>

openChat == Drawer([drawer EXCEPT !.open = TRUE, !.unread = 0])

closeChat == drawer.open /\ Drawer([drawer EXCEPT !.open = FALSE])

(* A recording of any channel is appended as well, and never unread. *)
appendChatMessage == drawer.bubbles < MaxBubbles
                     /\ Drawer([drawer EXCEPT !.bubbles = @ + 1])

handleIncomingChatMessage(isMe) ==
    /\ drawer.bubbles < MaxBubbles /\ drawer.unread < MaxBubbles
    /\ Drawer([drawer EXCEPT !.bubbles = @ + 1,
                             !.unread = IF drawer.open \/ isMe THEN @ ELSE @ + 1])

(* The history replaces what is shown. *)
handleChatHistory == \E n \in 0..MaxBubbles : Drawer([drawer EXCEPT !.bubbles = n])

----------------------------------------------------------------------------
UploadStep(u) ==
    \/ Compressed(u) \/ Uploaded(u) \/ UploadFails(u)
    \/ Encoded(u) \/ ReadFails(u) \/ ClearTimer(u)

ChatNext ==
    \/ Attach \/ Remove \/ \E chip \in BOOLEAN : sendChatMessage(chip)
    \/ \E u \in Upload : UploadStep(u)
    \/ Connection
    \/ openChat \/ closeChat \/ appendChatMessage \/ handleChatHistory
    \/ \E isMe \in BOOLEAN : handleIncomingChatMessage(isMe)

(* The browser answers every read and every request in the end. *)
ChatFair == \A u \in Upload : WF_chatVars(UploadStep(u))

ChatSpec == ChatInit /\ [][ChatNext]_chatVars /\ ChatFair

----------------------------------------------------------------------------
(* The types; only a transfer can be aborted, and an open drawer has       *)
(* nothing unread.                                                         *)
ChatTypeOK ==
    /\ attached \in BOOLEAN /\ sendDisabled \in BOOLEAN /\ connected \in BOOLEAN
    /\ upload \in [Upload -> Stage]
    /\ currentUploadXHR # 0 => upload[currentUploadXHR] = "transfer"
    /\ currentUploadXHR \in Upload \cup {0}
    /\ sent \subseteq Upload \cup {0} /\ removed \subseteq Upload
    /\ drawer \in [open : BOOLEAN, unread : 0..MaxBubbles, bubbles : 0..MaxBubbles]
    /\ drawer.open => drawer.unread = 0

(* A file the user removed while it was transferred is not sent after all, *)
(* neither when the transfer completes nor through the base64 fallback.    *)
CancelledIsNotSent == removed \cap sent = {}

(* The last file sent is one that could not be read for the fallback. *)
LastUnread ==
    \E u \in Upload :
        upload[u] = "unread" /\ \A k \in Upload : k > u => upload[k] = "none"

(* The send button comes back after an upload: when it is transferred,     *)
(* fails, is refused, is removed or goes through the fallback (radio.js:   *)
(* 2998).  Only a fallback whose file cannot be read leaves it disabled    *)
(* until the user removes the file (radio.js:3084 has no onerror).         *)
ComposerRecovers == sendDisabled ~> (~sendDisabled \/ LastUnread)
=============================================================================
