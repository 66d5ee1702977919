------------------------------ MODULE MCParts ------------------------------
(***************************************************************************)
(* The machines that share no state with each other or with the other      *)
(* modules, checked side by side: a behaviour is one of any of them, while *)
(* the others stay where they started.                                     *)
(***************************************************************************)
EXTENDS Video, Chat, Listener, Scanner, Capture, Inputs, Recorder

VARIABLE part      \* the machine that runs

Part == {"video", "chat", "listener", "scanner", "capture", "inputs", "recorder"}

PartsInit ==
    /\ VideoInit /\ ChatInit /\ ListenerInit /\ ScannerInit
    /\ CaptureInit /\ InputsInit /\ RecorderInit
    /\ part \in Part

(* The variables of the machines that do not run. *)
Others(p) ==
    /\ p # "video" => UNCHANGED videoVars
    /\ p # "chat" => UNCHANGED chatVars
    /\ p # "listener" => UNCHANGED listenerVars
    /\ p # "scanner" => UNCHANGED scannerVars
    /\ p # "capture" => UNCHANGED captureVars
    /\ p # "inputs" => UNCHANGED inputVars
    /\ p # "recorder" => UNCHANGED recorderVars

Only(p) == part = p /\ UNCHANGED part

PartsNext ==
    \/ Only("video") /\ VideoNext /\ Others("video")
    \/ Only("chat") /\ ChatNext /\ Others("chat")
    \/ Only("listener") /\ ListenerNext /\ Others("listener")
    \/ Only("scanner") /\ ScannerNext /\ Others("scanner")
    \/ Only("capture") /\ CaptureNext /\ Others("capture")
    \/ Only("inputs") /\ InputsNext /\ Others("inputs")
    \/ Only("recorder") /\ RecorderNext /\ Others("recorder")

partsVars == <<part, videoVars, chatVars, listenerVars, scannerVars,
               captureVars, inputVars, recorderVars>>

(* No fair step is possible in the state where a machine starts, so the    *)
(* fairness of those that do not run asks for nothing.                     *)
PartsSpec == PartsInit /\ [][PartsNext]_partsVars /\ VideoFair /\ ChatFair /\ ScannerFair

(* The types of all machines. *)
PartsTypeOK ==
    /\ VideoTypeOK /\ ChatTypeOK /\ ListenerTypeOK /\ ScannerTypeOK
    /\ CaptureTypeOK /\ InputsTypeOK /\ RecorderTypeOK
=============================================================================
