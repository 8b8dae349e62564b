------------------------------ MODULE WifiLink ------------------------------
(***************************************************************************)
(* The serial link between the firmware (wifi.c, timer_interface.c) and    *)
(* the AMW136 WiFi module: a command is written on the USART, its reply is *)
(* collected byte by byte by the USART interrupt, a rising edge of the     *)
(* "command complete" pin makes the PIO interrupt parse and clear the      *)
(* line, and the main program waits for that edge or for the 1 Hz timer.   *)
(*                                                                         *)
(* Interrupt handlers are atomic: every IRQ has the reset priority, so     *)
(* none preempts another.  The main program is interruptible between any   *)
(* two of its steps.  The AMW136 is external: it is modelled by what       *)
(* wifi.c sends to it and looks for in its replies.                        *)
(*                                                                         *)
(* Text is abstracted to pieces: the pieces of one pattern stand for the   *)
(* characters strstr() compares, so a pattern may be present in part, be   *)
(* split by a handler, or be left behind for the next line.                *)
(***************************************************************************)
EXTENDS Integers, Sequences, FiniteSets

CONSTANTS
    MAX_INPUT_WIFI,   \* length of input_line_wifi
    Streams,          \* websocket streams the module may report open
    ShortTimeout,     \* timeout of all commands but two, in seconds
    LongTimeout,      \* timeout of the two "set sy" commands, in seconds
    CountMod,         \* number of values of an uint8_t
    MaxImage,         \* bound: largest image_size
    MaxCommands,      \* bound: commands written in one behaviour
    ModuleMay         \* what the module may do besides answering in time

ASSUME LineAssumption ==
    MAX_INPUT_WIFI \in Nat /\ MAX_INPUT_WIFI > 2 * Cardinality(Streams) + 2
ASSUME TimeoutAssumption ==
    /\ CountMod \in Nat \ {0} /\ ShortTimeout \in Nat /\ LongTimeout \in Nat
    /\ ShortTimeout % CountMod # 0 /\ LongTimeout % CountMod # 0
ASSUME BoundAssumption == MaxImage \in Nat /\ MaxCommands \in Nat
ASSUME ModuleAssumption ==
    ModuleMay \subseteq {"silent", "refuse", "late", "report", "hold", "overrun"}

VARIABLES
    (* the main program *)
    pc,                     \* where write_wifi_command / write_image_to_file is
    cmd,                    \* the command being executed, numbered from 1
    cnt,                    \* its timeout as the callee sees it
    counts,                 \* the 1 Hz counter
    sent,                   \* image bytes written so far
    (* flags shared with the interrupt handlers *)
    wifi_cmd_complete, no_open_streams, stream_open,
    image_transf_ready, image_transf_complete,
    (* the reply line *)
    input_line_wifi, input_pos_wifi,
    (* pins and registers *)
    us_rhr,                 \* received character not yet read by the handler
    comm_edge,              \* pending PIO interrupt: the command it answers
    cts,                    \* the module lets the firmware transmit
    (* the module *)
    inbox,                  \* commands received and not yet answered
    answering,              \* the command whose reply is being sent
    reply,                  \* what is left of the text being sent
    listing,                \* open streams still to be listed in the reply
    expecting,              \* image bytes the module is waiting for
    (* history *)
    reported,               \* last answered poll and the streams it lists
    lastEdge                \* command whose edge was handled last

mainVars   == <<pc, cmd, cnt, sent>>
flagVars   == <<no_open_streams, stream_open, image_transf_ready,
                image_transf_complete>>
lineVars   == <<input_line_wifi, input_pos_wifi>>
moduleVars == <<inbox, answering, reply, listing, expecting, reported>>
vars == <<mainVars, counts, wifi_cmd_complete, flagVars, lineVars, us_rhr,
          comm_edge, cts, moduleVars, lastEdge>>

-----------------------------------------------------------------------------
(* Text. *)

NUL == "nul"
EOL == "eol"
NoChar == "none"

NoneText     == <<"No", "ne">>
StreamText(s) == <<s, ",0">>
StartText    == <<"Start ", "transfer">>
CompleteText == <<"Com", "plete">>
\* wifi.c looks for three m's; a module that rejects a command writes two.
UnknownText  == <<"Unknown ", "commmand">>
RejectText   == <<"Unknown ", "command">>
OkText       == <<"o", "k">>

Pieces == {EOL, ",0", "No", "ne", "Start ", "transfer", "Com", "plete",
           "Unknown ", "commmand", "command", "o", "k"}

\* The handle of a stream is a digit.
ASSUME StreamsAssumption ==
    /\ IsFiniteSet(Streams) /\ Streams # {}
    /\ Streams \cap (Pieces \cup {NUL, NoChar}) = {}

Char == Pieces \cup Streams
Cells == 0 .. MAX_INPUT_WIFI - 1

EmptyLine == [i \in Cells |-> NUL]

LineNotCleared == input_line_wifi

\* The line after the loop of wifi_command_response_handler() over it.
ClearedLine == EmptyLine

\* strstr(line, text) for a text of two pieces: the search stops at the first NUL.
Occurs(text, line) ==
    \E i \in Cells : /\ i + 1 \in Cells
                     /\ \A j \in 0 .. i : line[j] # NUL
                     /\ line[i] = text[1] /\ line[i + 1] = text[2]

-----------------------------------------------------------------------------
(* Commands. *)

Kinds == {"set_sy", "poll_all", "setup_web", "image_transfer"}
NoCommand == [id |-> 0, kind |-> "set_sy", size |-> 0]
NoReply == -1
CompleteReport == 0       \* what the module says unasked after a transfer

Timeout(kind) == IF kind = "set_sy" THEN LongTimeout ELSE ShortTimeout

NotTruncated(t) == t

\* cnt is an uint8_t parameter.
Truncated(t) == t % CountMod

WaitForEdgeOnly == wifi_cmd_complete
WaitOffByOne == wifi_cmd_complete \/ counts + 1 >= cnt

Busy == pc \in {"clear", "send", "wait"}
WaitOver == wifi_cmd_complete \/ counts >= cnt

\* The command being executed can still be answered.
Owed ==
    \/ pc \in {"clear", "send"}
    \/ pc = "wait" /\ \/ \E i \in 1 .. Len(inbox) : inbox[i].id = cmd.id
                      \/ answering = cmd.id
                      \/ comm_edge = cmd.id

-----------------------------------------------------------------------------
Init ==
    /\ pc = "idle" /\ cmd = NoCommand /\ cnt = 0 /\ counts = 0 /\ sent = 0
    /\ wifi_cmd_complete = FALSE
    /\ no_open_streams = FALSE
    /\ stream_open = [s \in Streams |-> FALSE]
    /\ image_transf_ready = FALSE /\ image_transf_complete = FALSE
    /\ input_line_wifi = EmptyLine /\ input_pos_wifi = 0
    /\ us_rhr = NoChar /\ comm_edge = NoReply /\ cts = TRUE
    /\ inbox = <<>> /\ answering = NoReply /\ reply = <<>> /\ listing = {}
    /\ expecting = 0
    /\ reported = [id |-> 0, open |-> {}]
    /\ lastEdge = NoReply

-----------------------------------------------------------------------------
(* The main program: write_wifi_command() and write_image_to_file(). *)

\* Entry: counts = 0.  write_image_to_file() returns at once on size 0.
Call(kind, size) ==
    /\ pc = "idle" /\ cmd.id < MaxCommands
    /\ kind = "image_transfer" <=> size # 0
    /\ pc' = "clear"
    /\ cmd' = [id |-> cmd.id + 1, kind |-> kind, size |-> size]
    /\ cnt' = Truncated(Timeout(kind))
    /\ counts' = 0
    /\ UNCHANGED <<sent, wifi_cmd_complete, flagVars, lineVars, us_rhr,
                   comm_edge, cts, moduleVars, lastEdge>>

CompleteNotCleared ==
    /\ pc = "clear"
    /\ pc' = "send"
    /\ UNCHANGED <<cmd, cnt, counts, sent, wifi_cmd_complete, flagVars,
                   lineVars, us_rhr, comm_edge, cts, moduleVars, lastEdge>>

ClearComplete ==
    /\ pc = "clear"
    /\ wifi_cmd_complete' = FALSE
    /\ pc' = "send"
    /\ UNCHANGED <<cmd, cnt, counts, sent, flagVars, lineVars, us_rhr,
                   comm_edge, cts, moduleVars, lastEdge>>

\* The module takes one unit of image data; after the last one it may say
\* "Complete", which process_data_wifi() looks for.
TakeData ==
    /\ expecting' = expecting - 1
    /\ inbox' = IF expecting = 1 /\ "report" \in ModuleMay
                  THEN Append(inbox, [cmd EXCEPT !.id = CompleteReport])
                  ELSE inbox

\* usart_write_line(): waits for the transmitter as long as the module holds
\* CTS, here once for the whole line.  A module in the middle of a transfer takes the text for image data.
SendLine ==
    /\ pc = "send" /\ cts
    /\ IF expecting > 0
         THEN TakeData
         ELSE expecting' = expecting /\ inbox' = Append(inbox, cmd)
    /\ pc' = "wait"
    /\ UNCHANGED <<cmd, cnt, counts, sent, wifi_cmd_complete, flagVars,
                   lineVars, us_rhr, comm_edge, cts, answering, reply, listing,
                   reported, lastEdge>>

ReturnTestsOtherFlag ==
    /\ pc = "wait" /\ WaitOver
    /\ pc' = IF cmd.kind = "image_transfer" /\ image_transf_complete
               THEN "stream" ELSE "idle"
    /\ UNCHANGED <<cmd, cnt, counts, sent, wifi_cmd_complete, flagVars,
                   lineVars, us_rhr, comm_edge, cts, moduleVars, lastEdge>>

\* Leave the polling loop; an image transfer goes on with the image bytes.
WaitReturn ==
    /\ pc = "wait" /\ WaitOver
    /\ pc' = IF cmd.kind = "image_transfer" /\ image_transf_ready
               THEN "stream" ELSE "idle"
    /\ UNCHANGED <<cmd, cnt, counts, sent, wifi_cmd_complete, flagVars,
                   lineVars, us_rhr, comm_edge, cts, moduleVars, lastEdge>>

OneByteMore ==
    /\ pc = "stream" /\ sent <= cmd.size /\ cts
    /\ sent' = sent + 1
    /\ IF expecting > 0 THEN TakeData ELSE UNCHANGED <<expecting, inbox>>
    /\ UNCHANGED <<pc, cmd, cnt, counts, wifi_cmd_complete, flagVars, lineVars,
                   us_rhr, comm_edge, cts, answering, reply, listing, reported,
                   lastEdge>>

\* One usart_putchar() of the loop over the image.  What the module makes
\* of a byte it does not expect is left out.
PutChar ==
    /\ pc = "stream" /\ sent < cmd.size /\ cts
    /\ sent' = sent + 1
    /\ IF expecting > 0 THEN TakeData ELSE UNCHANGED <<expecting, inbox>>
    /\ UNCHANGED <<pc, cmd, cnt, counts, wifi_cmd_complete, flagVars, lineVars,
                   us_rhr, comm_edge, cts, answering, reply, listing, reported,
                   lastEdge>>

StreamReturn ==
    /\ pc = "stream" /\ sent >= cmd.size
    /\ pc' = "idle" /\ sent' = 0
    /\ UNCHANGED <<cmd, cnt, counts, wifi_cmd_complete, flagVars, lineVars,
                   us_rhr, comm_edge, cts, moduleVars, lastEdge>>

-----------------------------------------------------------------------------
(* Interrupt handlers. *)

\* TC0_Handler.  The polling loop runs many times per second, so a wait that
\* is over ends before the next tick.  Unless it may be "late", the module
\* answers (and lets the firmware transmit) within the command's timeout.
Tick ==
    /\ pc = "wait" => ~WaitOver
    /\ Owed /\ "late" \notin ModuleMay => counts + 1 < cnt
    /\ counts' = (counts + 1) % CountMod
    /\ UNCHANGED <<mainVars, wifi_cmd_complete, flagVars, lineVars, us_rhr,
                   comm_edge, cts, moduleVars, lastEdge>>

\* USART0_Handler and process_incoming_byte_wifi().  The handler tests RXBUFF,
\* which is set for good: no PDC buffer is ever given to the receiver.  PIOA has the lower IRQ
\* number: when both interrupts pend, the comm pin's handler runs first.
RxISR ==
    /\ us_rhr # NoChar /\ comm_edge = NoReply
    /\ input_line_wifi' = [input_line_wifi EXCEPT ![input_pos_wifi] = us_rhr]
    /\ input_pos_wifi' = input_pos_wifi + 1
    /\ us_rhr' = NoChar
    /\ UNCHANGED <<mainVars, counts, wifi_cmd_complete, flagVars, comm_edge,
                   cts, moduleVars, lastEdge>>

ParseWithoutReset ==
    LET Open == {s \in Streams : Occurs(StreamText(s), input_line_wifi)} IN
      /\ no_open_streams' =
           (no_open_streams \/ Occurs(NoneText, input_line_wifi))
      /\ stream_open' = [s \in Streams |-> stream_open[s] \/ s \in Open]
      /\ image_transf_ready' =
           (image_transf_ready \/ Occurs(StartText, input_line_wifi))
      /\ image_transf_complete' =
           (image_transf_complete \/ Occurs(CompleteText, input_line_wifi))

\* process_data_wifi()
ParseLine ==
    IF Occurs(UnknownText, input_line_wifi) THEN UNCHANGED flagVars
    ELSE LET Open == {s \in Streams : Occurs(StreamText(s), input_line_wifi)} IN
      /\ no_open_streams' =
           IF Open # {} THEN FALSE
           ELSE no_open_streams \/ Occurs(NoneText, input_line_wifi)
      /\ stream_open' = [s \in Streams |-> stream_open[s] \/ s \in Open]
      /\ image_transf_ready' =
           (image_transf_ready \/ Occurs(StartText, input_line_wifi))
      /\ image_transf_complete' =
           (image_transf_complete \/ Occurs(CompleteText, input_line_wifi))

\* wifi_command_response_handler(): flag, parse, clear the line.
CommISR ==
    /\ comm_edge # NoReply
    /\ wifi_cmd_complete' = TRUE
    /\ ParseLine
    /\ input_line_wifi' = ClearedLine
    /\ input_pos_wifi' = 0
    /\ comm_edge' = NoReply
    /\ lastEdge' = comm_edge
    /\ UNCHANGED <<mainVars, counts, us_rhr, cts, moduleVars>>

-----------------------------------------------------------------------------
(* The AMW136 (external). *)

\* Start answering the oldest command: the text that the reply consists of.
ModuleAnswer ==
    /\ answering = NoReply /\ inbox # <<>>
    /\ answering' = Head(inbox).id
    /\ inbox' = Tail(inbox)
    /\ LET c == Head(inbox) IN
         CASE c.id = CompleteReport ->
                /\ reply' = CompleteText \o <<EOL>>
                /\ UNCHANGED <<listing, expecting, reported>>
           [] c.id # CompleteReport /\ c.kind = "poll_all" ->
                \E open \in SUBSET Streams :
                  /\ listing' = open
                  /\ reply' = IF open = {} THEN NoneText \o <<EOL>> ELSE <<>>
                  /\ reported' = [id |-> c.id, open |-> open]
                  /\ UNCHANGED expecting
           [] c.id # CompleteReport /\ c.kind = "image_transfer" ->
                /\ reply' = StartText \o <<EOL>>
                /\ expecting' = c.size
                /\ UNCHANGED <<listing, reported>>
           [] OTHER ->
                /\ reply' = OkText \o <<EOL>>
                /\ UNCHANGED <<listing, expecting, reported>>
    /\ UNCHANGED <<mainVars, counts, wifi_cmd_complete, flagVars, lineVars,
                   us_rhr, comm_edge, cts, lastEdge>>

\* Reject the oldest command.
ModuleRefuse ==
    /\ "refuse" \in ModuleMay
    /\ answering = NoReply /\ inbox # <<>> /\ Head(inbox).id # CompleteReport
    /\ answering' = Head(inbox).id
    /\ inbox' = Tail(inbox)
    /\ reply' = RejectText \o <<EOL>>
    /\ UNCHANGED <<mainVars, counts, wifi_cmd_complete, flagVars, lineVars,
                   us_rhr, comm_edge, cts, listing, expecting, reported,
                   lastEdge>>

\* Miss the oldest command altogether.
ModuleIgnore ==
    /\ "silent" \in ModuleMay
    /\ inbox # <<>>
    /\ inbox' = Tail(inbox)
    /\ UNCHANGED <<mainVars, counts, wifi_cmd_complete, flagVars, lineVars,
                   us_rhr, comm_edge, cts, answering, reply, listing,
                   expecting, reported, lastEdge>>

\* List one more open stream; the line ends after the last one.
ModuleList ==
    /\ reply = <<>>
    /\ \E s \in listing :
         /\ listing' = listing \ {s}
         /\ reply' = StreamText(s) \o (IF listing' = {} THEN <<EOL>> ELSE <<>>)
    /\ UNCHANGED <<mainVars, counts, wifi_cmd_complete, flagVars, lineVars,
                   us_rhr, comm_edge, cts, inbox, answering, expecting,
                   reported, lastEdge>>

\* A character reaches the receiver.  The handler emptied it in time, or the
\* module may "overrun" it, for the RTS pin is not configured.
ModuleChar ==
    /\ reply # <<>>
    /\ us_rhr = NoChar \/ "overrun" \in ModuleMay
    /\ us_rhr' = Head(reply)
    /\ reply' = Tail(reply)
    /\ UNCHANGED <<mainVars, counts, wifi_cmd_complete, flagVars, lineVars,
                   comm_edge, cts, inbox, answering, listing, expecting,
                   reported, lastEdge>>

\* The reply is out: raise the command-complete pin.  A second edge before
\* the handler ran is the same pending bit.
ModuleEdge ==
    /\ answering # NoReply /\ reply = <<>> /\ listing = {}
    /\ comm_edge' = answering
    /\ answering' = NoReply
    /\ UNCHANGED <<mainVars, counts, wifi_cmd_complete, flagVars, lineVars,
                   us_rhr, cts, inbox, reply, listing, expecting, reported,
                   lastEdge>>

ModuleHold ==
    /\ "hold" \in ModuleMay
    /\ cts /\ cts' = FALSE
    /\ UNCHANGED <<mainVars, counts, wifi_cmd_complete, flagVars, lineVars,
                   us_rhr, comm_edge, moduleVars, lastEdge>>

ModuleReady ==
    /\ ~cts /\ cts' = TRUE
    /\ UNCHANGED <<mainVars, counts, wifi_cmd_complete, flagVars, lineVars,
                   us_rhr, comm_edge, moduleVars, lastEdge>>

-----------------------------------------------------------------------------
Program == ClearComplete \/ SendLine \/ WaitReturn \/ PutChar \/ StreamReturn
Interrupts == Tick \/ RxISR \/ CommISR
Module ==
    \/ ModuleAnswer \/ ModuleRefuse \/ ModuleIgnore \/ ModuleList
    \/ ModuleChar \/ ModuleEdge \/ ModuleHold \/ ModuleReady

Next ==
    \/ \E kind \in Kinds, size \in 0 .. MaxImage : Call(kind, size)
    \/ Program \/ Interrupts \/ Module

Spec == Init /\ [][Next]_vars

\* The processor keeps executing, the timer keeps running, pending interrupts
\* are served; the module finishes a reply it began and releases CTS again
\* and again.  Nothing obliges it to answer at all, nor the caller to call.
Fairness ==
    /\ WF_vars(ClearComplete) /\ SF_vars(SendLine) /\ WF_vars(WaitReturn)
    /\ SF_vars(PutChar) /\ WF_vars(StreamReturn)
    /\ WF_vars(Tick) /\ WF_vars(RxISR) /\ WF_vars(CommISR)
    /\ WF_vars(ModuleAnswer \/ ModuleRefuse \/ ModuleIgnore)
    /\ WF_vars(ModuleList) /\ WF_vars(ModuleChar) /\ WF_vars(ModuleEdge)
    /\ WF_vars(ModuleReady)

FairSpec == Spec /\ Fairness

-----------------------------------------------------------------------------
(* Properties. *)

Command == [id : 0 .. MaxCommands, kind : Kinds, size : 0 .. MaxImage]
Replies == NoReply .. MaxCommands

\* Every variable has its type.
TypeOK ==
    /\ pc \in {"idle", "clear", "send", "wait", "stream"}
    /\ cmd \in Command
    /\ cnt \in 0 .. CountMod - 1 /\ counts \in 0 .. CountMod - 1
    /\ sent \in 0 .. MaxImage
    /\ wifi_cmd_complete \in BOOLEAN /\ no_open_streams \in BOOLEAN
    /\ stream_open \in [Streams -> BOOLEAN]
    /\ image_transf_ready \in BOOLEAN /\ image_transf_complete \in BOOLEAN
    /\ input_line_wifi \in [Cells -> Char \cup {NUL}]
    /\ input_pos_wifi \in Nat
    /\ us_rhr \in Char \cup {NoChar}
    /\ comm_edge \in Replies /\ cts \in BOOLEAN
    /\ inbox \in Seq(Command)
    /\ answering \in Replies
    /\ reply \in Seq(Char) /\ listing \subseteq Streams
    /\ expecting \in 0 .. MaxImage
    /\ reported \in [id : 0 .. MaxCommands, open : SUBSET Streams]
    /\ lastEdge \in Replies

\* process_incoming_byte_wifi() has no bound check and strstr() needs a NUL:
\* whatever the interleaving of the two handlers with the module's replies,
\* the cursor stays inside the buffer, everything from it on is NUL and
\* nothing before it is.
LineTerminated ==
    /\ input_pos_wifi < MAX_INPUT_WIFI
    /\ \A i \in Cells : input_line_wifi[i] = NUL <=> i >= input_pos_wifi

\* Why it holds: the longest reply fits with one character to spare, for the
\* one that the comm pin's handler can leave in the receiver.
LongestReply == 2 * Cardinality(Streams) + 1
ToCome ==
    (IF us_rhr = NoChar THEN 0 ELSE 1) + Len(reply)
      + (IF listing = {} THEN 0 ELSE 2 * Cardinality(listing) + 1)

LineInv ==
    /\ answering = NoReply => reply = <<>> /\ listing = {}
    /\ answering = NoReply /\ comm_edge = NoReply => input_pos_wifi + ToCome <= 1
    /\ comm_edge = NoReply => input_pos_wifi + ToCome <= LongestReply + 1
    /\ input_pos_wifi <= LongestReply + 1
    /\ ToCome <= LongestReply + 1
    /\ \A i \in Cells : input_line_wifi[i] = NUL <=> i >= input_pos_wifi

\* "waits either for an acknowledgment or a timeout" (wifi.c:248): the edge
\* that ends a wait is the answer to the command that is being waited for.
AckIsOwn == pc = "wait" /\ wifi_cmd_complete => lastEdge = cmd.id

\* Why it holds for a module that answers in time and only when asked: there
\* is at most one answer under way, to the current command, and only while
\* that command waits with time left.
OnTime == ModuleMay \cap {"late", "report"} = {}

NoneUnderWay == inbox = <<>> /\ answering = NoReply /\ comm_edge = NoReply

AckInv ==
    /\ Len(inbox) <= 1
    /\ inbox # <<>> =>
         inbox[1].id = cmd.id /\ answering = NoReply /\ comm_edge = NoReply
    /\ answering # NoReply => answering = cmd.id /\ comm_edge = NoReply
    /\ comm_edge # NoReply => comm_edge = cmd.id
    /\ ~NoneUnderWay =>
         pc = "wait" /\ ~WaitOver /\ lastEdge # cmd.id
    /\ pc \in {"clear", "send"} => counts < cnt /\ lastEdge # cmd.id
    /\ pc = "send" => ~wifi_cmd_complete
    /\ pc = "wait" /\ wifi_cmd_complete => lastEdge = cmd.id
    /\ lastEdge <= cmd.id

\* A poll that was answered leaves no_open_streams as that answer says, so
\* that main() decides on it and not on an older line or on what is left of it.
PollAnswerIsCurrent ==
    pc = "wait" /\ lastEdge = cmd.id /\ reported.id = cmd.id =>
        (no_open_streams <=> reported.open = {})

\* While the image is written the module expects exactly the bytes that are
\* still to come: none is lost on it and it is never left short.
StreamAgreed == pc = "stream" => expecting = cmd.size - sent

\* No command text is taken for image data: the module expects none when a
\* command line is written.
LineNotData == pc = "send" => expecting = 0

\* write_wifi_command() and write_image_to_file() return: by the edge or by
\* the timer, whatever the module does, provided it lets the firmware transmit
\* again and again.
CommandReturns == pc # "idle" ~> pc = "idle"

\* A module that announced "Start transfer" is sent the whole image: it is
\* never left waiting for data that the firmware does not write.
ImageDelivered == expecting > 0 ~> expecting = 0

-----------------------------------------------------------------------------
(* The content of the line.  For a module that answers in time and only    *)
(* when asked, and a receiver that is read in time, the text of an answer  *)
(* is in the line when its edge is handled, with nothing of an older one.  *)

Prompt == ModuleMay \cap {"late", "report", "overrun"} = {}

\* No character of C is in the line or on its way to it.
Free(C) ==
    /\ \A i \in Cells : input_line_wifi[i] \notin C
    /\ us_rhr \notin C
    /\ \A k \in 1 .. Len(reply) : reply[k] \notin C

\* The last character of the line.
Received(c) == input_pos_wifi > 0 /\ input_line_wifi[input_pos_wifi - 1] = c

\* n characters are still to be sent, and the end of the line if it is due.
ToSend(n) == Len(reply) >= (IF listing = {} THEN n + 1 ELSE n)

\* The text is in the line, or what is missing of it comes next.
Arriving(text) ==
    \/ ToSend(2) /\ reply[1] = text[1] /\ reply[2] = text[2]
    \/ /\ ToSend(1) /\ reply[1] = text[2]
       /\ \/ us_rhr = text[1]
          \/ us_rhr = NoChar /\ Received(text[1])
    \/ ToSend(0) /\ us_rhr = text[2] /\ Received(text[1])
    \/ Occurs(text, input_line_wifi)

UnderWay == answering # NoReply \/ comm_edge # NoReply

\* An answer ends with its EOL, which is all that outlives the clearing of the
\* line; no text has the three m's that process_data_wifi() looks for.
TextInv ==
    /\ listing = {} => IF reply = <<>> THEN us_rhr \in {NoChar, EOL}
                       ELSE reply[Len(reply)] = EOL
    /\ ~UnderWay => \A i \in Cells : input_line_wifi[i] \in {NUL, EOL}
    /\ Free({"commmand"})

\* A command that was written and not answered yet is the current one.
CommandInv ==
    /\ pc # "idle" => cmd.id # CompleteReport
    /\ pc # "stream" => sent = 0
    /\ pc \in {"clear", "send"} => reported.id # cmd.id
    /\ inbox # <<>> => inbox[1] = cmd /\ expecting = 0 /\ reported.id # cmd.id
    /\ reported.id <= cmd.id

\* The module expects data only after its answer to an image_transfer, which
\* the firmware then finds in the line before its wait is over.
DataInv ==
    expecting > 0 =>
        /\ cmd.kind = "image_transfer"
        /\ \/ /\ pc = "wait" /\ expecting = cmd.size
              /\ UnderWay => listing = {} /\ Arriving(StartText)
              /\ ~UnderWay => image_transf_ready
           \/ pc = "stream" /\ expecting = cmd.size - sent

\* What the firmware will find, or has found, of the answer to a poll_all.
PollInv ==
    pc = "wait" /\ reported.id = cmd.id =>
        /\ cmd.kind = "poll_all"
        /\ UnderWay =>
             IF reported.open = {}
               THEN listing = {} /\ Arriving(NoneText) /\ Free(Streams)
               ELSE listing # {} \/ \E s \in Streams : Arriving(StreamText(s))
        /\ lastEdge = cmd.id => (no_open_streams <=> reported.open = {})

LinkInv == AckInv /\ LineInv /\ TextInv /\ CommandInv /\ DataInv /\ PollInv

\* For a module that answers everything: an image_transfer's wait ends with
\* its answer.
Willing == ModuleMay \subseteq {"hold"}

TransferInv ==
    /\ pc = "wait" /\ NoneUnderWay => lastEdge = cmd.id
    /\ pc = "wait" /\ inbox = <<>> /\ cmd.kind = "image_transfer" =>
         expecting = cmd.size
    /\ pc = "stream" => expecting = cmd.size - sent

-----------------------------------------------------------------------------
(* The link implements the abstract command exchange, in which a command   *)
(* ends only by its own acknowledgment or by its timeout.                  *)

Exchange == INSTANCE CommandExchange WITH
    Limits  <- {Truncated(ShortTimeout), Truncated(LongTimeout)},
    phase   <- IF Busy THEN "waiting" ELSE "idle",
    issued  <- cmd.id,
    acked   <- Busy /\ lastEdge = cmd.id,
    elapsed <- IF Busy THEN counts ELSE 0,
    limit   <- IF Busy THEN cnt ELSE 0

\* Every step of the link is a step of the exchange or leaves it unchanged
\* (wifi.c:248): no wait ends on another command's answer or before its time.
ImplementsExchange == Exchange!Spec
=============================================================================
