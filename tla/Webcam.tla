------------------------------- MODULE Webcam -------------------------------
(***************************************************************************)
(* main() (main.c): boot, the endless loop that polls the module for open  *)
(* websocket streams, takes pictures and transfers them, and the web-setup *)
(* button that interrupts it.                                              *)
(*                                                                         *)
(* A command is what module WifiLink shows write_wifi_command() to be: its *)
(* line waits for CTS, then the wait ends by an edge, which may also be    *)
(* the late answer to an earlier command, or by the timer.  Pictures and   *)
(* streams are reduced to what main() asks about them.                     *)
(***************************************************************************)
EXTENDS Naturals

CONSTANT CtsInReset    \* values CTS may have while the module is in reset

ASSUME CtsAssumption == CtsInReset \subseteq BOOLEAN /\ CtsInReset # {}

VARIABLES
    pc,                        \* where main() is
    call,                      \* the command being executed, where it returns
    expired,                   \* counts has reached the command's timeout
    (* globals *)
    wifi_cmd_complete, no_open_streams, initiate_web_setup_flag,
    image_size, image_capture_success, image_transf_ready,
    internet_connected,        \* main()'s copy of the pin
    (* pins *)
    rst, cts, connected,
    (* the module *)
    power,                     \* "held" in reset, "booting", "up"
    owed,                      \* kinds of command it has yet to answer
    session,                   \* a web setup session is going on
    (* history *)
    known                      \* what the last parsed poll answer says

imageVars  == <<image_size, image_capture_success>>
moduleVars == <<cts, connected, power, owed, session>>
vars == <<pc, call, expired, wifi_cmd_complete, no_open_streams,
          initiate_web_setup_flag, imageVars, image_transf_ready,
          internet_connected, rst, moduleVars, known>>

Kinds == {"set_sy", "poll_all", "setup_web", "image_transfer"}
NoCall == [kind |-> "set_sy", next |-> "loop"]

Init ==
    /\ pc = "boot" /\ call = NoCall /\ expired = FALSE
    /\ wifi_cmd_complete = FALSE /\ no_open_streams = FALSE
    /\ initiate_web_setup_flag = FALSE
    /\ image_size = 0 /\ image_capture_success = FALSE
    /\ image_transf_ready = FALSE /\ internet_connected = FALSE
    /\ rst = FALSE /\ cts \in CtsInReset /\ connected = FALSE
    /\ power = "held" /\ owed = {} /\ session = FALSE
    /\ known = "nothing"

-----------------------------------------------------------------------------
(* Commands. *)

Call(kind, next) ==
    /\ pc' = "write" /\ call' = [kind |-> kind, next |-> next]
    /\ expired' = FALSE /\ wifi_cmd_complete' = FALSE

\* usart_write_line(): no timeout applies while CTS holds the transmitter.
\* Only a module that is up reads the line.
WriteLine ==
    /\ pc = "write" /\ cts
    /\ pc' = "answer"
    /\ owed' = IF power = "up" THEN owed \cup {call.kind} ELSE owed
    /\ UNCHANGED <<call, expired, wifi_cmd_complete, no_open_streams,
                   initiate_web_setup_flag, imageVars, image_transf_ready,
                   internet_connected, rst, cts, connected, power, session,
                   known>>

ReturnsOnEdgeOnly ==
    /\ pc = "answer" /\ wifi_cmd_complete
    /\ pc' = IF call.kind = "image_transfer" /\ image_transf_ready
               THEN "stream" ELSE call.next
    /\ UNCHANGED <<call, expired, wifi_cmd_complete, no_open_streams,
                   initiate_web_setup_flag, imageVars, image_transf_ready,
                   internet_connected, rst, moduleVars, known>>

\* The wait ends by the flag or by the timer.
CommandReturns ==
    /\ pc = "answer" /\ (wifi_cmd_complete \/ expired)
    /\ pc' = IF call.kind = "image_transfer" /\ image_transf_ready
               THEN "stream" ELSE call.next
    /\ UNCHANGED <<call, expired, wifi_cmd_complete, no_open_streams,
                   initiate_web_setup_flag, imageVars, image_transf_ready,
                   internet_connected, rst, moduleVars, known>>

\* The bytes of the image, each waiting for CTS.
StreamImage ==
    /\ pc = "stream" /\ cts
    /\ pc' = call.next
    /\ UNCHANGED <<call, expired, wifi_cmd_complete, no_open_streams,
                   initiate_web_setup_flag, imageVars, image_transf_ready,
                   internet_connected, rst, moduleVars, known>>

-----------------------------------------------------------------------------
(* main(): boot. *)

\* RST low for a second, then high.
Boot ==
    /\ pc = "boot"
    /\ pc' = "promptOff"
    /\ rst' = TRUE /\ power' = "booting"
    /\ UNCHANGED <<call, expired, wifi_cmd_complete, no_open_streams,
                   initiate_web_setup_flag, imageVars, image_transf_ready,
                   internet_connected, cts, connected, owed, session, known>>

\* After the camera is configured: command prompt off, command echo off.
Quieten ==
    /\ \/ pc = "promptOff" /\ Call("set_sy", "echoOff")
       \/ pc = "echoOff" /\ Call("set_sy", "settle")
    /\ UNCHANGED <<no_open_streams, initiate_web_setup_flag, imageVars,
                   image_transf_ready, internet_connected, rst, moduleVars,
                   known>>

\* 12 seconds later: web setup at once if there is no network.
FirstCheck ==
    /\ pc = "settle"
    /\ internet_connected' = connected
    /\ \/ connected /\ pc' = "loop" /\ UNCHANGED <<call, expired, wifi_cmd_complete>>
       \/ ~connected /\ Call("setup_web", "setupDone")
    /\ UNCHANGED <<no_open_streams, initiate_web_setup_flag, imageVars,
                   image_transf_ready, rst, moduleVars, known>>

-----------------------------------------------------------------------------
(* main(): the loop. *)

NeverSetUp ==
    /\ pc = "loop"
    /\ internet_connected' = connected /\ pc' = "decide"
    /\ UNCHANGED <<call, expired, wifi_cmd_complete, no_open_streams,
                   initiate_web_setup_flag, imageVars, image_transf_ready, rst,
                   moduleVars, known>>

LoopTop ==
    /\ pc = "loop"
    /\ \/ /\ initiate_web_setup_flag
          /\ Call("setup_web", "setupDone")
          /\ UNCHANGED internet_connected
       \/ /\ ~initiate_web_setup_flag
          /\ internet_connected' = connected
          /\ pc' = "decide"
          /\ UNCHANGED <<call, expired, wifi_cmd_complete>>
    /\ UNCHANGED <<no_open_streams, initiate_web_setup_flag, imageVars,
                   image_transf_ready, rst, moduleVars, known>>

\* "Web setup is done"
SetupDone ==
    /\ pc = "setupDone"
    /\ pc' = "loop" /\ initiate_web_setup_flag' = FALSE
    /\ UNCHANGED <<call, expired, wifi_cmd_complete, no_open_streams, imageVars,
                   image_transf_ready, internet_connected, rst, moduleVars,
                   known>>

PollForgetsStreams ==
    /\ pc = "decide" /\ internet_connected
    /\ Call("poll_all", "polled")
    /\ no_open_streams' = FALSE
    /\ UNCHANGED <<initiate_web_setup_flag, imageVars, image_transf_ready,
                   internet_connected, rst, moduleVars, known>>

PollUnchecked ==
    /\ pc = "decide"
    /\ Call("poll_all", "polled")
    /\ UNCHANGED <<no_open_streams, initiate_web_setup_flag, imageVars,
                   image_transf_ready, internet_connected, rst, moduleVars,
                   known>>

Poll ==
    /\ pc = "decide" /\ internet_connected
    /\ Call("poll_all", "polled")
    /\ UNCHANGED <<no_open_streams, initiate_web_setup_flag, imageVars,
                   image_transf_ready, internet_connected, rst, moduleVars,
                   known>>

ResetFallsThrough ==
    /\ pc = "decide" /\ ~internet_connected
    /\ pc' = "polled"
    /\ rst' = FALSE
    /\ power' = "held" /\ owed' = {} /\ session' = FALSE /\ connected' = FALSE
    /\ cts' \in IF power = "held" THEN {cts} ELSE CtsInReset
    /\ UNCHANGED <<call, expired, wifi_cmd_complete, no_open_streams,
                   initiate_web_setup_flag, imageVars, image_transf_ready,
                   internet_connected, known>>

\* RST low: the module loses everything it was doing.
ResetModule ==
    /\ pc = "decide" /\ ~internet_connected
    /\ pc' = "loop"
    /\ rst' = FALSE
    /\ power' = "held" /\ owed' = {} /\ session' = FALSE /\ connected' = FALSE
    /\ cts' \in IF power = "held" THEN {cts} ELSE CtsInReset
    /\ UNCHANGED <<call, expired, wifi_cmd_complete, no_open_streams,
                   initiate_web_setup_flag, imageVars, image_transf_ready,
                   internet_connected, known>>

AfterPoll ==
    /\ pc = "polled"
    /\ pc' = IF no_open_streams THEN "pause" ELSE "capture"
    /\ UNCHANGED <<call, expired, wifi_cmd_complete, no_open_streams,
                   initiate_web_setup_flag, imageVars, image_transf_ready,
                   internet_connected, rst, moduleVars, known>>

\* One second, and the next poll has to find a stream open.
Pause ==
    /\ pc = "pause"
    /\ pc' = "loop" /\ no_open_streams' = TRUE
    /\ UNCHANGED <<call, expired, wifi_cmd_complete, initiate_web_setup_flag, imageVars,
                   image_transf_ready, internet_connected, rst, moduleVars,
                   known>>

\* start_capture(): any length, the flag of success only ever set.
Capture ==
    /\ pc = "capture"
    /\ pc' = "captured"
    /\ image_size' \in {0, 1}
    /\ image_capture_success' = (image_capture_success \/ image_size' # 0)
    /\ UNCHANGED <<call, expired, wifi_cmd_complete, no_open_streams,
                   initiate_web_setup_flag, image_transf_ready,
                   internet_connected, rst, moduleVars, known>>

\* write_image_to_file() after a success, unless the length is 0.
Transfer ==
    /\ pc = "captured"
    /\ IF image_capture_success /\ image_size # 0
         THEN Call("image_transfer", "loop")
         ELSE pc' = "loop" /\ UNCHANGED <<call, expired, wifi_cmd_complete>>
    /\ UNCHANGED <<no_open_streams, initiate_web_setup_flag, imageVars,
                   image_transf_ready, internet_connected, rst, moduleVars,
                   known>>

-----------------------------------------------------------------------------
(* Interrupts. *)

\* The timer runs while the line waits for CTS, too.
Expire ==
    /\ pc \in {"write", "answer"} /\ ~expired
    /\ expired' = TRUE
    /\ UNCHANGED <<pc, call, wifi_cmd_complete, no_open_streams,
                   initiate_web_setup_flag, imageVars, image_transf_ready,
                   internet_connected, rst, moduleVars, known>>

\* wifi_web_setup_handler()
Press ==
    /\ initiate_web_setup_flag' = TRUE
    /\ UNCHANGED <<pc, call, expired, wifi_cmd_complete, no_open_streams, imageVars,
                   image_transf_ready, internet_connected, rst, moduleVars,
                   known>>

\* wifi_command_response_handler() with the answer to a poll, on time or late.
PollAnswered ==
    /\ "poll_all" \in owed
    /\ owed' = owed \ {"poll_all"}
    /\ wifi_cmd_complete' = TRUE
    /\ \E open \in BOOLEAN :
         /\ no_open_streams' = ~open
         /\ known' = IF open THEN "open" ELSE "none"
    /\ UNCHANGED <<pc, call, expired, initiate_web_setup_flag, imageVars,
                   image_transf_ready, internet_connected, rst, cts, connected,
                   power, session>>

\* ... with the answer to another command; "setup_web" begins a session, for
\* which the module leaves the network.
OtherAnswered ==
    /\ \E kind \in owed \ {"poll_all"} :
         /\ owed' = owed \ {kind}
         /\ image_transf_ready' = (image_transf_ready \/ kind = "image_transfer")
         /\ session' = (session \/ kind = "setup_web")
         /\ connected' = (connected /\ kind # "setup_web")
    /\ wifi_cmd_complete' = TRUE
    /\ UNCHANGED <<pc, call, expired, no_open_streams, initiate_web_setup_flag,
                   imageVars, internet_connected, rst, cts, power, known>>

\* ... with a rejection, which process_data_wifi() takes nothing from: the edge
\* alone ends the wait.
Refused ==
    /\ owed # {}
    /\ \E kind \in owed : owed' = owed \ {kind}
    /\ wifi_cmd_complete' = TRUE
    /\ UNCHANGED <<pc, call, expired, no_open_streams, initiate_web_setup_flag,
                   imageVars, image_transf_ready, internet_connected, rst, cts,
                   connected, power, session, known>>

-----------------------------------------------------------------------------
(* The module (external). *)

ModuleBoots ==
    /\ power = "booting" /\ power' = "up" /\ cts' = TRUE
    /\ UNCHANGED <<pc, call, expired, wifi_cmd_complete, no_open_streams,
                   initiate_web_setup_flag, imageVars, image_transf_ready,
                   internet_connected, rst, connected, owed, session, known>>

NetworkChanges ==
    /\ power = "up" /\ ~session
    /\ connected' = ~connected
    /\ UNCHANGED <<pc, call, expired, wifi_cmd_complete, no_open_streams,
                   initiate_web_setup_flag, imageVars, image_transf_ready,
                   internet_connected, rst, cts, power, owed, session, known>>

\* The user completes the web setup.
SessionEnds ==
    /\ session /\ session' = FALSE
    /\ UNCHANGED <<pc, call, expired, wifi_cmd_complete, no_open_streams,
                   initiate_web_setup_flag, imageVars, image_transf_ready,
                   internet_connected, rst, cts, connected, power, owed, known>>

-----------------------------------------------------------------------------
Main ==
    \/ WriteLine \/ CommandReturns \/ StreamImage
    \/ Boot \/ Quieten \/ FirstCheck
    \/ LoopTop \/ SetupDone \/ Poll \/ ResetModule \/ AfterPoll \/ Pause
    \/ Capture \/ Transfer

Answers == PollAnswered \/ OtherAnswered \/ Refused

Next == Main \/ Expire \/ Press \/ Answers \/ ModuleBoots \/ NetworkChanges \/ SessionEnds

Spec == Init /\ [][Next]_vars

\* main() runs on, the timer fires and the module boots; nobody has to press, answer, connect.
FairSpec == Spec /\ WF_vars(Main) /\ WF_vars(Expire) /\ WF_vars(ModuleBoots)

-----------------------------------------------------------------------------
Locations ==
    {"boot", "promptOff", "echoOff", "settle", "loop", "setupDone", "decide",
     "polled", "pause", "capture", "captured", "write", "answer", "stream"}

\* Every variable has its type.
TypeOK ==
    /\ pc \in Locations /\ call \in [kind : Kinds, next : Locations]
    /\ expired \in BOOLEAN /\ wifi_cmd_complete \in BOOLEAN
    /\ no_open_streams \in BOOLEAN
    /\ initiate_web_setup_flag \in BOOLEAN
    /\ image_size \in {0, 1} /\ image_capture_success \in BOOLEAN
    /\ image_transf_ready \in BOOLEAN /\ internet_connected \in BOOLEAN
    /\ rst \in BOOLEAN /\ cts \in BOOLEAN /\ connected \in BOOLEAN
    /\ power \in {"held", "booting", "up"} /\ owed \subseteq Kinds
    /\ session \in BOOLEAN
    /\ known \in {"nothing", "none", "open"}

\* Once the module has said that no stream is open, no picture is taken until
\* it says that one is, however many polls in between time out or are answered
\* late.
NoPictureForNobody == [][pc = "polled" /\ pc' = "capture" => known # "none"]_vars

\* Once main() holds the module in reset it does not write to it, capture or
\* transfer: what it knows of the network is never older than the reset.  Only
\* a request for web setup is still written.
NoTrafficWhileHeld ==
    /\ ~rst /\ pc = "write" => call.kind = "setup_web"
    /\ ~rst => pc \notin {"polled", "pause", "capture", "captured", "stream"}

\* A module held in reset has no network, and main()'s copy of the pin says so
\* unless it has yet to be read.
HeldKnown ==
    /\ power = "held" <=> ~rst
    /\ ~rst => /\ ~connected
               /\ pc \in {"boot", "loop", "decide", "write", "answer", "setupDone"}
               /\ pc = "decide" => ~internet_connected
               /\ pc \in {"write", "answer"} =>
                     call = [kind |-> "setup_web", next |-> "setupDone"]

\* What the last poll answer said is still in no_open_streams: the pause, the
\* only other writer, can hide an open stream but never a closed one.
NoneKept == known = "none" => no_open_streams

HeldInv == TypeOK /\ HeldKnown

\* What main() knows of the module between two readings of it, through resets,
\* timeouts and late answers: the network while RST is low, and the streams
\* since the last answer.  The inductive invariant of the two properties above.
MainInv == HeldInv /\ NoneKept

\* A request for web setup made while main() does anything else reaches the
\* command, whatever the network and the module do in the meantime.
SettingUp ==
    \/ pc = "setupDone"
    \/ pc \in {"write", "answer"} /\ call.kind = "setup_web"

RequestTaken == (initiate_web_setup_flag /\ ~SettingUp) ~> SettingUp

\* main() comes back to the top of its loop: no command, capture or transfer
\* keeps it ("waits either for an acknowledgment or a timeout", wifi.c:248).
\* One thing can: a line for a module held in reset, if CTS, which has a pull-up
\* (wifi.h:76), floats high then; the timeout does not cover the transmission.
LoopGoesOn ==
    \/ []<>(pc = "loop")
    \/ <>[](pc = "write" /\ call.kind = "setup_web" /\ ~rst /\ ~cts)

\* main.c:97 "If it is not, reset the module": a reset is a pulse, as at boot.
ResetReleased == ~rst ~> rst
=============================================================================
